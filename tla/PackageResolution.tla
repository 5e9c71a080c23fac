-------------------------- MODULE PackageResolution --------------------------
(***************************************************************************)
(* How a specifier becomes a file.  The rules are written twice: the Rust  *)
(* module loader resolves the imports of ES modules, and node:module       *)
(* resolves require() and the imports of CommonJS modules, over the same   *)
(* tree of files and package.json manifests.  A path is a sequence of      *)
(* tokens: "./" and "/" are tokens, and so are the names, extensions and   *)
(* the wildcard "*" between them; a directory ends with "/".               *)
(* A value of "exports" or "imports" is one of                             *)
(*   <<"string", path>>, <<"null">>, <<"number">>, <<"array", values>>,     *)
(*   <<"object", <<<<key, value>>, ...>>>>                                  *)
(***************************************************************************)
EXTENDS Integers, Sequences, FiniteSets, SequencesExt

CONSTANTS None  \* an absent value

VARIABLES
    tree,      \* files, manifests (by directory) and the package map
    asked,     \* the specifier and the directory of the file that names it
    resolved   \* what each of the resolvers has answered

resolutionVars == <<tree, asked, resolved>>

\* The files of the tree; a manifest is [parses, name, exports, imports, main].
PackageStart(t, specifier, directory) ==
    /\ tree = t
    /\ asked = [specifier |-> specifier, directory |-> directory]
    /\ resolved = [esm |-> None, imported |-> None, required |-> None]

File(path, warned) == [file |-> path, warned |-> warned, code |-> None]
Error(code) == [file |-> None, warned |-> FALSE, code |-> code]

Extensions == {".js", ".cjs", ".json"}
HasExtension(path) == path # <<>> /\ Last(path) \in Extensions

\* A whole segment of the path, between slashes, is the given name.
HasSegment(path, name) ==
    \E i \in DOMAIN path :
        /\ path[i] = name
        /\ i = 1 \/ path[i - 1] \in {"/", "./"}
        /\ i = Len(path) \/ path[i + 1] = "/"

InvalidSubpath(path) == \E name \in {".", "..", "node_modules"} : HasSegment(path, name)

Substitute(path, match) ==
    FlattenSeq([i \in DOMAIN path |-> IF path[i] = "*" THEN match ELSE <<path[i]>>])

\* Runs of slashes become one.
CollapseSlashes(path) ==
    FoldLeft(LAMBDA done, token :
                IF token = "/" /\ done # <<>> /\ Last(done) \in {"/", "./"}
                THEN done ELSE Append(done, token), <<>>, path)

TrimSlashes(path) ==
    SubSeq(path, 1, Max({0} \cup {i \in DOMAIN path : path[i] # "/"}))

\* URL join of a path against a directory.
Join(directory, path) == directory \o (IF path # <<>> /\ path[1] = "./" THEN Tail(path) ELSE path)

Parent(directory) ==
    SubSeq(directory, 1, Max({0} \cup {i \in 1 .. Len(directory) - 1 : directory[i] = "/"}))

FirstFile(candidates) ==
    LET found == SelectSeq(candidates, LAMBDA c : c \in tree.files)
    IN  IF found = <<>> THEN None ELSE Head(found)

\* The name and the subpath of a bare specifier; a scoped name has two segments.
Slashes(specifier) == {i \in DOMAIN specifier : specifier[i] = "/"}
Bare(specifier) == specifier[1] \notin {".", "./", "../", "/", "npm:", "https:"}

PackageParts(specifier) ==
    LET first == Min(Slashes(specifier) \cup {Len(specifier) + 1})
        end   == IF specifier[1] = "@s"
                 THEN Min({i \in Slashes(specifier) : i > first} \cup {Len(specifier) + 1})
                 ELSE first
    IN  [name |-> SubSeq(specifier, 1, end - 1),
         subpath |-> SubSeq(specifier, end + 1, Len(specifier))]

PackageSubpath(subpath) == IF subpath = <<>> THEN <<".">> ELSE <<"./">> \o subpath

-----------------------------------------------------------------------------
(* package_target and package_exports_target of module_loader.rs *)

\* An array takes its first target that resolves, an object its first condition
\* that is not missing.
RECURSIVE package_target(_, _, _)
package_target(value, match, conditions) ==
    CASE value[1] = "string" ->
            LET path == Substitute(value[2], match)
            IN  IF value[2] = <<>> \/ value[2][1] # "./" \/ HasSegment(path, "node_modules")
                THEN <<"invalid">> ELSE <<"path", CollapseSlashes(path)>>
      [] value[1] = "null" -> <<"missing">>
      [] value[1] = "array" ->
            LET tried == [i \in DOMAIN value[2] |-> package_target(value[2][i], match, conditions)]
                paths == SelectSeq(tried, LAMBDA r : r[1] = "path")
            IN  CASE paths # <<>> -> Head(paths)
                  [] \E i \in DOMAIN tried : tried[i][1] = "invalid" -> <<"invalid">>
                  [] OTHER -> <<"missing">>
      [] value[1] = "object" ->
            LET live  == SelectSeq(value[2], LAMBDA e : e[1] = <<"default">> \/ e[1] \in conditions)
                tried == [i \in DOMAIN live |-> package_target(live[i][2], match, conditions)]
                found == SelectSeq(tried, LAMBDA r : r[1] # "missing")
            IN  IF found = <<>> THEN <<"missing">> ELSE Head(found)
      [] OTHER -> <<"invalid">>

Wildcard(key) == Max({0} \cup {i \in DOMAIN key : key[i] = "*"})

\* A wildcard key matches a subpath of which it leaves something over.
Matches(key, subpath) ==
    /\ Wildcard(key) # 0
    /\ Len(subpath) > Len(key) - 1
    /\ IsPrefix(SubSeq(key, 1, Wildcard(key) - 1), subpath)
    /\ IsSuffix(SubSeq(key, Wildcard(key) + 1, Len(key)), subpath)

Matched(key, subpath) ==
    SubSeq(subpath, Wildcard(key), Len(subpath) - (Len(key) - Wildcard(key)))

\* Longer prefixes go first and, among equals, longer suffixes.
Before(a, b) ==
    \/ Wildcard(a) > Wildcard(b)
    \/ Wildcard(a) = Wildcard(b) /\ Len(a) >= Len(b)

package_exports_target(exports, subpath, conditions) ==
    LET main    == IF subpath = <<".">> THEN package_target(exports, <<>>, conditions) ELSE <<"missing">>
        keys    == IF exports[1] = "object" THEN [i \in DOMAIN exports[2] |-> exports[2][i][1]] ELSE <<>>
        dotted  == {i \in DOMAIN keys : keys[i][1] \in {".", "./"}}
        exact   == {i \in DOMAIN keys : keys[i] = subpath}
        matches == {i \in DOMAIN keys : Matches(keys[i], subpath)}
        best    == CHOOSE i \in matches : \A j \in matches : Before(keys[i], keys[j])
    IN  CASE exports[1] # "object" -> main
          [] \E i \in DOMAIN keys : keys[i] = <<"0">> -> <<"config">>
          [] dotted # {} /\ dotted # DOMAIN keys -> <<"config">>
          [] dotted = {} -> main
          [] exact # {} -> package_target(exports[2][CHOOSE i \in exact : TRUE][2], <<>>, conditions)
          [] matches = {} -> <<"missing">>
          [] OTHER -> package_target(exports[2][best][2], Matched(keys[best], subpath), conditions)

-----------------------------------------------------------------------------
(* Package lookup of module_loader.rs *)

\* DEP0151: the main entry point was named without its extension, or not at all.
warn_dep0151(manifest) ==
    manifest.exports = None /\ (manifest.main \in {None, <<>>} \/ ~HasExtension(manifest.main))

MainOf(manifest) ==
    IF manifest.main \in {None, <<>>} THEN <<"./", "index", ".js">> ELSE manifest.main

\* The files tried for a target when the manifest has no exports.
Candidates(root, url, subpath) ==
    <<url \o <<".js">>, url \o <<".json">>, TrimSlashes(url) \o <<"/", "index", ".js">>>>
    \o (IF subpath = <<>> THEN <<root \o <<"index", ".js">>, root \o <<"index", ".json">>>> ELSE <<>>)

FileAt(root, manifest, subpath, target) ==
    LET url  == Join(root, target)
        file == FirstFile(<<url>> \o IF manifest.exports = None
                                     THEN Candidates(root, url, subpath) ELSE <<>>)
    IN  CASE file # None -> File(file, warn_dep0151(manifest))
          [] \E f \in tree.files : IsPrefix(TrimSlashes(url) \o <<"/">>, f) ->
                Error("ERR_UNSUPPORTED_DIR_IMPORT")
          [] OTHER -> Error("ERR_MODULE_NOT_FOUND")

resolve_package_json(root, subpath, conditions) ==
    LET manifest == tree.manifests[root]
        target   == CASE manifest.exports # None ->
                            package_exports_target(manifest.exports, PackageSubpath(subpath), conditions)
                      [] subpath = <<>> -> <<"path", MainOf(manifest)>>
                      [] OTHER -> <<"path", PackageSubpath(subpath)>>
    IN  CASE ~manifest.parses \/ target[1] = "config" -> Error("ERR_INVALID_PACKAGE_CONFIG")
          [] target[1] = "invalid" -> Error("ERR_INVALID_PACKAGE_TARGET")
          [] target[1] = "missing" -> Error("ERR_PACKAGE_PATH_NOT_EXPORTED")
          [] OTHER -> FileAt(root, manifest, subpath, target[2])

\* The package of the map with the longest URL that holds the file.
Owners(directory) == {k \in DOMAIN tree.map : IsPrefix(tree.map[k].url, directory)}
Owner(directory) ==
    tree.map[CHOOSE k \in Owners(directory) :
                \A j \in Owners(directory) : Len(tree.map[j].url) <= Len(tree.map[k].url)]

\* Without a manifest the package map's directory is searched.
MappedFile(url, subpath) ==
    LET path == url \o (IF subpath = <<>> THEN <<"index">> ELSE subpath)
        file == FirstFile(<<path, path \o <<".js">>, path \o <<".cjs">>,
                            path \o <<"/", "index", ".js">>, path \o <<"/", "index", ".cjs">>>>)
    IN  IF file # None THEN File(file, FALSE) ELSE Error("ERR_MODULE_NOT_FOUND")

resolve_package_map(parts, directory, conditions) ==
    LET key == Owner(directory).dependencies[parts.name]
        url == tree.map[key].url
    IN  CASE Owners(directory) = {} -> Error("ERR_PACKAGE_MAP_EXTERNAL_FILE")
          [] parts.name \notin DOMAIN Owner(directory).dependencies -> Error("ERR_MODULE_NOT_FOUND")
          [] key \notin DOMAIN tree.map -> Error("ERR_PACKAGE_MAP_KEY_NOT_FOUND")
          [] url \in DOMAIN tree.manifests -> resolve_package_json(url, parts.subpath, conditions)
          [] OTHER -> MappedFile(url, parts.subpath)

\* The directories above a file: the package it is in, by its own name, and the
\* node_modules of each directory.
RECURSIVE resolve_virtual_package(_, _, _)
resolve_virtual_package(parts, directory, conditions) ==
    LET package == directory \o <<"node_modules", "/">> \o parts.name \o <<"/">>
        here    == directory \in DOMAIN tree.manifests
    IN  CASE here /\ ~tree.manifests[directory].parses -> Error("ERR_INVALID_PACKAGE_CONFIG")
          [] here /\ tree.manifests[directory].name = parts.name ->
                resolve_package_json(directory, parts.subpath, conditions)
          [] package \in DOMAIN tree.manifests -> resolve_package_json(package, parts.subpath, conditions)
          [] directory = <<>> -> Error("ERR_MODULE_NOT_FOUND")
          [] OTHER -> resolve_virtual_package(parts, Parent(directory), conditions)

\* resolve over a tree of virtual modules: the package map, when there is one,
\* decides before the subpath is looked at.
ResolveImport(specifier, directory, conditions) ==
    LET parts == PackageParts(specifier)
    IN  CASE ~Bare(specifier) -> File(Join(directory, specifier), FALSE)
          [] tree.map # None -> resolve_package_map(parts, directory, conditions)
          [] InvalidSubpath(parts.subpath) -> Error("ERR_INVALID_MODULE_SPECIFIER")
          [] OTHER -> resolve_virtual_package(parts, directory, conditions)

-----------------------------------------------------------------------------
(* packageTarget and exportsTarget of module.js *)

RECURSIVE packageTarget(_, _, _)
packageTarget(value, match, conditions) ==
    CASE value[1] = "string" ->
            LET path == Substitute(value[2], match)
            IN  IF value[2] = <<>> \/ value[2][1] # "./" \/ HasSegment(path, "node_modules")
                THEN <<"invalid">> ELSE <<"path", path>>
      [] value[1] = "null" -> <<"missing">>
      [] value[1] = "array" ->
            LET results == {packageTarget(value[2][i], match, conditions) : i \in DOMAIN value[2]}
                first   == Min({i \in DOMAIN value[2] :
                                    packageTarget(value[2][i], match, conditions)[1] = "path"})
            IN  CASE \E r \in results : r[1] = "path" -> packageTarget(value[2][first], match, conditions)
                  [] <<"invalid">> \in results -> <<"invalid">>
                  [] OTHER -> <<"missing">>
      [] value[1] = "object" ->
            LET taken == {i \in DOMAIN value[2] :
                            /\ value[2][i][1] \in conditions \cup {<<"default">>}
                            /\ packageTarget(value[2][i][2], match, conditions) # <<"missing">>}
            IN  IF taken = {} THEN <<"missing">>
                ELSE packageTarget(value[2][Min(taken)][2], match, conditions)
      [] OTHER -> <<"invalid">>

\* The keys of an object that match a request, the best of them first.
BestPattern(entries, request) ==
    LET matches == {i \in DOMAIN entries : Matches(entries[i][1], request)}
    IN  IF matches = {} THEN None
        ELSE entries[CHOOSE i \in matches : \A j \in matches : Before(entries[i][1], entries[j][1])]

exportsTarget(exports, subpath, conditions) ==
    LET main == IF subpath = <<".">> THEN packageTarget(exports, <<>>, conditions) ELSE <<"missing">>
        entries == exports[2]
        dotted == {i \in DOMAIN entries : entries[i][1][1] \in {".", "./"}}
        exact == {i \in DOMAIN entries : entries[i][1] = subpath}
        pattern == BestPattern(entries, subpath)
    IN  CASE exports[1] # "object" -> main
          [] \E i \in DOMAIN entries : entries[i][1] = <<"0">> -> <<"config">>
          [] dotted # {} /\ dotted # DOMAIN entries -> <<"config">>
          [] dotted = {} -> main
          [] exact # {} -> packageTarget(entries[CHOOSE i \in exact : TRUE][2], <<>>, conditions)
          [] pattern = None -> <<"missing">>
          [] OTHER -> packageTarget(pattern[2], Matched(pattern[1], subpath), conditions)

-----------------------------------------------------------------------------
(* Package lookup of module.js *)

resolveVirtualFile(url) ==
    FirstFile(<<url>> \o
        IF HasExtension(url) THEN <<>>
        ELSE <<url \o <<".js">>, url \o <<".cjs">>, url \o <<".json">>,
               TrimSlashes(url) \o <<"/", "index", ".js">>>>)

Found(file, code) == IF file # None THEN File(file, FALSE) ELSE Error(code)

\* With exports only the target itself is looked for.
resolvePackageSource(root, subpath, conditions) ==
    LET manifest == tree.manifests[root]
        target   == CASE manifest.exports # None ->
                            exportsTarget(manifest.exports, PackageSubpath(subpath), conditions)
                      [] subpath # <<>> -> <<"path", PackageSubpath(subpath)>>
                      [] OTHER -> <<"path", MainOf(manifest)>>
    IN  CASE ~manifest.parses -> Error("SyntaxError")
          [] target[1] = "config" -> Error("ERR_INVALID_PACKAGE_CONFIG")
          [] target[1] = "invalid" -> Error("ERR_INVALID_PACKAGE_TARGET")
          [] target[1] = "missing" -> Error("ERR_PACKAGE_PATH_NOT_EXPORTED")
          [] manifest.exports # None ->
                Found(FirstFile(<<Join(root, CollapseSlashes(target[2]))>>), "ERR_MODULE_NOT_FOUND")
          [] OTHER -> Found(resolveVirtualFile(Join(root, target[2])), "ERR_MODULE_NOT_FOUND")

\* Targets of "imports" may name other packages; the first condition that applies
\* decides.
RECURSIVE packageImportsTarget(_, _, _)
packageImportsTarget(value, match, conditions) ==
    CASE value[1] = "string" ->
            LET path == Substitute(value[2], match)
            IN  CASE path[1] = "./" -> IF InvalidSubpath(path) THEN <<"invalid">> ELSE <<"path", path>>
                  [] path[1] \in {"../", "/", "npm:", "https:"} -> <<"invalid">>
                  [] OTHER -> <<"package", path>>
      [] value[1] = "null" -> <<"null">>
      [] value[1] = "array" ->
            LET tried == [i \in DOMAIN value[2] |-> packageImportsTarget(value[2][i], match, conditions)]
                found == SelectSeq(tried, LAMBDA r : r[1] \in {"path", "package"})
            IN  CASE found # <<>> -> Head(found)
                  [] \E i \in DOMAIN tried : tried[i] = <<"null">> -> <<"null">>
                  [] \E i \in DOMAIN tried : tried[i] = <<"invalid">> -> <<"invalid">>
                  [] OTHER -> <<"missing">>
      [] value[1] = "object" ->
            LET live == SelectSeq(value[2], LAMBDA e : e[1] \in conditions \cup {<<"default">>})
            IN  IF live = <<>> THEN <<"missing">>
                ELSE packageImportsTarget(Head(live)[2], match, conditions)
      [] OTHER -> <<"invalid">>

importsTarget(imports, request, conditions) ==
    LET exact   == {i \in DOMAIN imports[2] : imports[2][i][1] = request}
        pattern == BestPattern(imports[2], request)
    IN  CASE imports = None \/ imports[1] # "object" -> <<"missing">>
          [] exact # {} -> packageImportsTarget(imports[2][CHOOSE i \in exact : TRUE][2], <<>>, conditions)
          [] pattern = None -> <<"missing">>
          [] OTHER -> packageImportsTarget(pattern[2], Matched(pattern[1], request), conditions)

RECURSIVE EnclosingPackage(_)
EnclosingPackage(directory) ==
    CASE directory \in DOMAIN tree.manifests -> directory
      [] directory = <<>> -> None
      [] OTHER -> EnclosingPackage(Parent(directory))

resolvePackageMap(parts, directory, conditions) ==
    LET key == Owner(directory).dependencies[parts.name]
        url == tree.map[key].url
        path == IF parts.subpath = <<>> THEN <<"index">> ELSE parts.subpath
    IN  CASE Owners(directory) = {} -> Error("ERR_PACKAGE_MAP_EXTERNAL_FILE")
          [] parts.name \notin DOMAIN Owner(directory).dependencies -> Error("ERR_MODULE_NOT_FOUND")
          [] key \notin DOMAIN tree.map -> Error("ERR_PACKAGE_MAP_KEY_NOT_FOUND")
          [] url \in DOMAIN tree.manifests -> resolvePackageSource(url, parts.subpath, conditions)
          [] OTHER -> Found(resolveVirtualFile(url \o path), "ERR_MODULE_NOT_FOUND")

\* Packages without a manifest are found as files under node_modules.
LegacyFile(directory, specifier, parts) ==
    LET modules == directory \o <<"node_modules", "/">>
        entry   == IF parts.subpath = <<>> THEN <<"index", ".js">> ELSE parts.subpath
        file    == resolveVirtualFile(modules \o specifier)
    IN  IF file # None THEN file
        ELSE resolveVirtualFile(modules \o parts.name \o <<"/">> \o entry)

RECURSIVE WalkUp(_, _, _, _)
WalkUp(specifier, parts, directory, conditions) ==
    LET package == directory \o <<"node_modules", "/">> \o parts.name \o <<"/">>
        inside  == IsSuffix(<<"node_modules", "/">>, directory)
        here    == directory \in DOMAIN tree.manifests
    IN  CASE here /\ ~tree.manifests[directory].parses -> Error("SyntaxError")
          [] here /\ tree.manifests[directory].name = parts.name ->
                resolvePackageSource(directory, parts.subpath, conditions)
          [] ~inside /\ package \in DOMAIN tree.manifests ->
                resolvePackageSource(package, parts.subpath, conditions)
          [] ~inside /\ LegacyFile(directory, specifier, parts) # None ->
                File(LegacyFile(directory, specifier, parts), FALSE)
          [] directory = <<>> -> Error("ERR_MODULE_NOT_FOUND")
          [] OTHER -> WalkUp(specifier, parts, Parent(directory), conditions)

ResolveBare(specifier, directory, conditions) ==
    LET parts == PackageParts(specifier)
    IN  CASE InvalidSubpath(parts.subpath) -> Error("ERR_INVALID_MODULE_SPECIFIER")
          [] tree.map # None -> resolvePackageMap(parts, directory, conditions)
          [] OTHER -> WalkUp(specifier, parts, directory, conditions)

\* "#name" is looked up in the imports of the enclosing package; a target there
\* that names a package is resolved from that package's directory.
resolvePackageImport(specifier, directory, conditions) ==
    LET root   == EnclosingPackage(directory)
        target == importsTarget(tree.manifests[root].imports, specifier, conditions)
    IN  CASE specifier = <<"#">> \/ InvalidSubpath(specifier) -> Error("ERR_INVALID_MODULE_SPECIFIER")
          [] root = None -> ResolveBare(specifier, directory, conditions)
          [] ~tree.manifests[root].parses -> Error("SyntaxError")
          [] target[1] = "invalid" -> Error("ERR_INVALID_PACKAGE_TARGET")
          [] target[1] \in {"missing", "null"} -> Error("ERR_PACKAGE_IMPORT_NOT_DEFINED")
          [] target[1] = "package" -> ResolveBare(target[2], root, conditions)
          [] OTHER -> Found(resolveVirtualFile(Join(root, target[2])), "ERR_MODULE_NOT_FOUND")

resolveVirtual(specifier, directory, conditions) ==
    CASE specifier[1] = "#" -> resolvePackageImport(specifier, directory, conditions)
      [] ~Bare(specifier) -> Found(resolveVirtualFile(Join(directory, specifier)), "ERR_MODULE_NOT_FOUND")
      [] OTHER -> ResolveBare(specifier, directory, conditions)

-----------------------------------------------------------------------------
(* The three callers *)

ImportConditions == {<<"import">>, <<"node">>, <<"default">>}
RequireConditions == {<<"require">>, <<"node">>, <<"default">>}

\* NetworkModuleLoader::resolve, for an ES module.
ImportFromModule ==
    /\ resolved.esm = None
    /\ resolved' = [resolved EXCEPT
            !.esm = ResolveImport(asked.specifier, asked.directory, ImportConditions)]
    /\ UNCHANGED <<tree, asked>>

\* importVirtualModule, for an import() in a CommonJS module.
ImportFromScript ==
    /\ resolved.imported = None
    /\ resolved' = [resolved EXCEPT
            !.imported = resolveVirtual(asked.specifier, asked.directory, ImportConditions)]
    /\ UNCHANGED <<tree, asked>>

\* require.
RequireFromScript ==
    /\ resolved.required = None
    /\ resolved' = [resolved EXCEPT
            !.required = resolveVirtual(asked.specifier, asked.directory, RequireConditions)]
    /\ UNCHANGED <<tree, asked>>

PackageNext == ImportFromModule \/ ImportFromScript \/ RequireFromScript

-----------------------------------------------------------------------------
(* Properties *)

\* The packages that say what they export.
Exporting == {root \in DOMAIN tree.manifests :
                tree.manifests[root].parses /\ tree.manifests[root].exports # None}

\* The string targets of an exports value.
RECURSIVE Strings(_)
Strings(value) ==
    CASE value[1] = "string" -> {value[2]}
      [] value[1] = "array" -> UNION {Strings(value[2][i]) : i \in DOMAIN value[2]}
      [] value[1] = "object" -> UNION {Strings(value[2][i][2]) : i \in DOMAIN value[2]}
      [] OTHER -> {}

\* The path is the target, with something in place of its wildcards.
Instance(target, path) ==
    \/ CollapseSlashes(target) = path
    \/ \E i, j \in 1 .. Len(path) : CollapseSlashes(Substitute(target, SubSeq(path, i, j))) = path

SameCode(a, b) ==
    \/ a = b
    \/ a = "ERR_UNSUPPORTED_DIR_IMPORT" /\ b = "ERR_MODULE_NOT_FOUND"
    \/ a = "ERR_INVALID_PACKAGE_CONFIG" /\ b = "SyntaxError"

\* The two resolvers are one algorithm: where packages declare their exports, an
\* import of a package means the same file, or the same failure, whether an ES
\* module or a CommonJS module contains it (package_exports_target and
\* exportsTarget, resolve_virtual_package and resolveVirtual).  Only the
\* validation of subpaths comes after the package map in one and before it in the
\* other, and only the second finds packages without a manifest.
ResolversAgree ==
    LET esm == resolved.esm
        cjs == resolved.imported
    IN  (/\ esm # None /\ cjs # None
         /\ Bare(asked.specifier) /\ asked.specifier[1] # "#"
         /\ tree.map = None \/ ~InvalidSubpath(PackageParts(asked.specifier).subpath))
        => /\ \A root \in Exporting :
                \/ esm.file # None /\ IsPrefix(root, esm.file)
                \/ cjs.file # None /\ IsPrefix(root, cjs.file)
                => esm.file = cjs.file
           /\ (esm.file = None /\ cjs.file = None) => SameCode(esm.code, cjs.code)

\* What a package does not export cannot be reached by its name: a bare specifier
\* that ends in a package with exports ends at one of the targets written there,
\* under any of the three callers.
ExportsEncapsulate ==
    \A who \in {"esm", "imported", "required"}, root \in Exporting :
        LET answer == resolved[who]
        IN  (/\ Bare(asked.specifier) /\ asked.specifier[1] # "#"
             /\ answer # None
             /\ answer.file # None
             /\ IsPrefix(root, answer.file))
            => \E target \in Strings(tree.manifests[root].exports) :
                    Instance(target, <<"./">> \o SubSeq(answer.file, Len(root) + 1, Len(answer.file)))
==============================================================================

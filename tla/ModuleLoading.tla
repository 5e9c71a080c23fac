---------------------------- MODULE ModuleLoading ----------------------------
(***************************************************************************)
(* How a resolved module is loaded: the Rust loader's load (served from    *)
(* memory, or gated by the hooks and fetched), the CommonJS loader of      *)
(* node:module with its two caches, and the resolve hooks a program may    *)
(* register.  deno_core, which calls load once per URL and keeps the       *)
(* module map, is external.                                                *)
(***************************************************************************)
EXTENDS Integers, Sequences, FiniteSets, SequencesExt

CONSTANTS
    Imports,   \* imports of the program
    Scripts,   \* CommonJS files
    Hooks,     \* calls of module.register
    None       \* an absent value

VARIABLES
    loading,   \* the loader: configuration, and each import with its progress
    scripts,   \* bodies, module caches and the stack of running bodies
    resolvers  \* resolve hooks

moduleVars == <<loading, scripts, resolvers>>

\* What an import names, once resolved: a scheme, the format of what is served
\* there and the type its attributes ask for.
Target(scheme, format, requested) == [scheme |-> scheme, format |-> format, requested |-> requested]

ModuleStart(config, targets, bodies, main) ==
    /\ loading = [config |-> config,
                  imports |-> [i \in Imports |->
                    [target |-> targets[i], stage |-> "resolve", allowed |-> None, fetched |-> None,
                     base |-> None, result |-> None]]]
    /\ scripts = [bodies |-> bodies, cache |-> [f \in Scripts |-> None], listed |-> {}, required |-> {},
                  runs |-> [f \in Scripts |-> 0], stack |-> <<[file |-> main, pc |-> 0]>>, got |-> {}]
    /\ resolvers = [pending |-> {}, active |-> <<>>, handles |-> {}, done |-> 0, chain |-> None]

-----------------------------------------------------------------------------
(* NetworkModuleLoader *)

Step(i, import) == loading' = [loading EXCEPT !.imports[i] = import]
Fail(i, why) == Step(i, [loading.imports[i] EXCEPT !.stage = "failed", !.result = why])
Loaded(i, what, base) ==
    Step(i, [loading.imports[i] EXCEPT !.stage = "loaded", !.result = what, !.base = base])

\* npm: and jsr: become https URLs of esm.sh; external modules may be disabled.
Resolve(i) ==
    LET import == loading.imports[i]
        scheme == import.target.scheme
        external == scheme \in {"npm", "jsr", "https", "shim"}
    IN  /\ import.stage = "resolve"
        /\ IF external /\ ~loading.config.external
           THEN Fail(i, "disabled")
           ELSE Step(i, [import EXCEPT !.stage = "load",
                            !.target.scheme = IF scheme \in {"npm", "jsr"} THEN "https" ELSE scheme])
        /\ UNCHANGED <<scripts, resolvers>>

import_attribute_error(format, requested) ==
    CASE requested = None -> IF format = "json" THEN "attribute missing" ELSE None
      [] requested = "json" -> IF format = "json" THEN None ELSE "attribute incompatible"
      [] OTHER -> "attribute unsupported"

\* A module that is served at once, if the attributes of the import fit it.
Serve(i) ==
    LET target == loading.imports[i].target
        wrong  == import_attribute_error(target.format, target.requested)
    IN  IF wrong # None THEN Fail(i, wrong) ELSE Loaded(i, target.format, "specifier")

Loads(i, scheme) ==
    /\ loading.imports[i].stage = "load"
    /\ loading.imports[i].target.scheme = scheme
    /\ UNCHANGED <<scripts, resolvers>>

\* Virtual modules: JSON by their extension, JavaScript otherwise.
LoadVirtual(i) == Loads(i, "virtual") /\ Serve(i)

\* The embedded builtins; the attributes are looked at before the name.
LoadBuiltin(i) ==
    /\ Loads(i, "node")
    /\ Serve(i) \/ (loading.imports[i].target.requested = None /\ Fail(i, "unknown builtin"))

\* Files of the host that are mapped into the tree.
LoadFile(i) ==
    /\ Loads(i, "file")
    /\ Serve(i) \/ Fail(i, "not found") \/ Fail(i, "unknown extension")

\* data: URLs, whose media type is the format.
LoadData(i) ==
    /\ Loads(i, "data")
    /\ Serve(i) \/ Fail(i, "invalid URL") \/ Fail(i, "unknown format")

\* Any other scheme.
LoadOther(i) == Loads(i, "ftp") /\ Fail(i, "unsupported scheme")

\* Everything else is a fetch; attributes are looked at before the gate.
LoadAsync(i) ==
    LET import == loading.imports[i]
        wrong  == import_attribute_error("module", import.target.requested)
    IN  /\ import.stage = "load"
        /\ import.target.scheme \in {"https", "shim"}
        /\ CASE ~loading.config.external -> Fail(i, "disabled")
             [] wrong # None -> Fail(i, wrong)
             [] OTHER -> Step(i, [import EXCEPT !.stage = "gate"])
        /\ UNCHANGED <<scripts, resolvers>>

\* run_stack_gate or run_pre: an answer that is not an allow ends the import.
Gate(i) ==
    LET import == loading.imports[i]
    IN  /\ import.stage = "gate"
        /\ \/ /\ ~loading.config.hooks
              /\ Step(i, [import EXCEPT !.stage = "fetch"])
           \/ /\ loading.config.hooks
              /\ \/ Step(i, [import EXCEPT !.stage = "fetch", !.allowed = "specifier"])
                 \/ Fail(i, "denied")
                 \/ Fail(i, "hook failed")
        /\ UNCHANGED <<scripts, resolvers>>

\* esm.sh's shims of Node builtins are served by the embedded builtins.
ServeShim(i) ==
    /\ loading.imports[i].stage = "fetch"
    /\ loading.imports[i].target.scheme = "shim"
    /\ Loaded(i, "module", "specifier")
    /\ UNCHANGED <<scripts, resolvers>>

\* The client follows redirects by itself; relative imports resolve against the
\* URL that answered.
Fetch(i) ==
    LET import == loading.imports[i]
    IN  /\ import.stage = "fetch"
        /\ import.target.scheme = "https"
        /\ \/ Fail(i, "fetch failed")
           \/ Step(i, [import EXCEPT !.stage = "failed", !.fetched = "specifier", !.result = "status"])
           \/ \E final \in {"specifier", "redirected"} :
                Step(i, [import EXCEPT !.stage = "body", !.fetched = final])
        /\ UNCHANGED <<scripts, resolvers>>

\* TypeScript is stripped by the extension of the final URL.
ReadBody(i) ==
    LET import == loading.imports[i]
    IN  /\ import.stage = "body"
        /\ \/ Fail(i, "read failed")
           \/ import.fetched = "redirected" /\ Fail(i, "transpile failed")
           \/ Loaded(i, "module", import.fetched)
        /\ UNCHANGED <<scripts, resolvers>>

-----------------------------------------------------------------------------
(* CommonJS: a body is a sequence of <<"require" | "import" | "try", file>> and  *)
(* <<"throw">> steps; "try" requires a file and catches what that throws.        *)

Top == Head(scripts.stack)
Running == {scripts.stack[k].file : k \in DOMAIN scripts.stack}
Cached(f) == scripts.cache[f] # None

Listing(f, how) == IF how = "import" THEN scripts.listed ELSE scripts.listed \cup {f}
Requiring(f, how) == IF how = "import" THEN scripts.required ELSE scripts.required \cup {f}

\* loadVirtualModule of a cached file hands out its exports as they are.
FromCache(f, how) ==
    /\ Cached(f)
    /\ scripts' = [scripts EXCEPT !.listed = Listing(f, how), !.required = Requiring(f, how),
            !.got = @ \cup {[file |-> f, whole |-> scripts.cache[f] = "loaded", inside |-> f \in Running]},
            !.stack = <<[Top EXCEPT !.pc = @ + 1]>> \o Tail(@)]

\* Otherwise it enters the caches before its body runs.
LoadScript(f, how) ==
    /\ ~Cached(f)
    /\ scripts' = [scripts EXCEPT !.listed = Listing(f, how), !.required = Requiring(f, how),
            !.cache[f] = "loading", !.runs[f] = @ + 1,
            !.stack = <<[file |-> f, pc |-> 1]>> \o @]

\* The program requires its main file.
RunMain ==
    /\ scripts.stack # <<>>
    /\ Top.pc = 0
    /\ scripts' = [scripts EXCEPT !.listed = {Top.file}, !.required = {Top.file},
            !.cache[Top.file] = "loading", !.runs[Top.file] = @ + 1, !.stack = <<[Top EXCEPT !.pc = 1]>>]
    /\ UNCHANGED <<loading, resolvers>>

\* require, the bundler's synchronous import, and their caches.
Require ==
    /\ scripts.stack # <<>>
    /\ Top.pc \in DOMAIN scripts.bodies[Top.file]
    /\ LET step == scripts.bodies[Top.file][Top.pc]
       IN  /\ step[1] # "throw"
           /\ FromCache(step[2], step[1]) \/ LoadScript(step[2], step[1])
    /\ UNCHANGED <<loading, resolvers>>

\* The end of a body: its caller goes on.
Return ==
    /\ scripts.stack # <<>>
    /\ Top.pc > Len(scripts.bodies[Top.file])
    /\ scripts' = [scripts EXCEPT !.cache[Top.file] = "loaded",
            !.stack = IF Len(@) = 1 THEN <<>> ELSE <<[@[2] EXCEPT !.pc = @ + 1]>> \o SubSeq(@, 3, Len(@))]
    /\ UNCHANGED <<loading, resolvers>>

\* A throw unwinds to the nearest "try"; the files it passes stay in the caches.
Throw ==
    /\ scripts.stack # <<>>
    /\ Top.pc \in DOMAIN scripts.bodies[Top.file]
    /\ scripts.bodies[Top.file][Top.pc][1] = "throw"
    /\ LET stack  == scripts.stack
           catch  == {k \in 2 .. Len(stack) : scripts.bodies[stack[k].file][stack[k].pc][1] = "try"}
           to     == IF catch = {} THEN Len(stack) + 1 ELSE Min(catch)
           failed == {stack[k].file : k \in 1 .. to - 1}
       IN  scripts' = [scripts EXCEPT
            !.cache = [f \in Scripts |-> IF f \in failed THEN "failed" ELSE @[f]],
            !.stack = IF catch = {} THEN <<>>
                      ELSE <<[stack[to] EXCEPT !.pc = @ + 1]>> \o SubSeq(stack, to + 1, Len(stack))]
    /\ UNCHANGED <<loading, resolvers>>

-----------------------------------------------------------------------------
(* Resolve hooks *)

\* register starts an import of the hooks' module.
Register(h) ==
    /\ h \notin resolvers.pending \cup resolvers.handles
    /\ resolvers.done < Cardinality(Hooks)
    /\ resolvers' = [resolvers EXCEPT !.pending = @ \cup {h}]
    /\ UNCHANGED <<loading, scripts>>

\* registerHooks, when that import is done: in the order the imports finish.
RegisterHooks(h) ==
    /\ h \in resolvers.pending
    /\ resolvers' = [resolvers EXCEPT !.pending = @ \ {h}, !.active = Append(@, h), !.handles = @ \cup {h}]
    /\ UNCHANGED <<loading, scripts>>

\* deregister works once and removes its own registration.
Deregister(h) ==
    /\ h \in resolvers.handles
    /\ resolvers' = [resolvers EXCEPT !.handles = @ \ {h}, !.done = @ + 1,
            !.active = SelectSeq(@, LAMBDA k : k # h)]
    /\ UNCHANGED <<loading, scripts>>

\* resolveImportMetaSpecifier takes the hooks of the moment and runs the newest;
ResolveMeta ==
    /\ resolvers.chain = None
    /\ resolvers' = [resolvers EXCEPT !.chain = [hooks |-> resolvers.active, at |-> Len(resolvers.active),
                                                 ran |-> <<>>, result |-> None]]
    /\ UNCHANGED <<loading, scripts>>

\* each hook answers, or calls the next older one, down to the default.
RunHook ==
    /\ resolvers.chain # None
    /\ resolvers.chain.result = None
    /\ LET chain == resolvers.chain
           ran   == Append(chain.ran, chain.hooks[chain.at])
       IN  \/ /\ chain.at = 0
              /\ resolvers' = [resolvers EXCEPT !.chain.result = "default"]
           \/ /\ chain.at > 0
              /\ \/ resolvers' = [resolvers EXCEPT !.chain.at = @ - 1, !.chain.ran = ran]
                 \/ \E answer \in {"answer", "TypeError"} :
                        resolvers' = [resolvers EXCEPT !.chain.result = answer, !.chain.ran = ran]
    /\ UNCHANGED <<loading, scripts>>

ImportNext == \E i \in Imports :
    \/ Resolve(i) \/ LoadVirtual(i) \/ LoadBuiltin(i) \/ LoadFile(i) \/ LoadData(i) \/ LoadOther(i)
    \/ LoadAsync(i) \/ Gate(i) \/ ServeShim(i) \/ Fetch(i) \/ ReadBody(i)

ScriptNext == RunMain \/ Require \/ Return \/ Throw

ResolverNext ==
    \/ \E h \in Hooks : Register(h) \/ RegisterHooks(h) \/ Deregister(h)
    \/ ResolveMeta \/ RunHook

-----------------------------------------------------------------------------
(* Properties *)

\* Nothing is fetched, and no module of the network is served, unless external
\* modules are enabled and, where a hook chain is configured, it has allowed the
\* URL; the URL a redirect leads to is not asked about again (load).
FetchesGated ==
    \A i \in Imports :
        LET import == loading.imports[i]
        IN  \/ import.fetched # None
            \/ import.stage = "loaded" /\ import.target.scheme \in {"https", "shim"}
            => loading.config.external /\ (loading.config.hooks => import.allowed = "specifier")

\* A module is what its importer asked for: a JSON module is loaded only with
\* "type: json", which loads nothing else, and a fetched module is a script whose
\* relative imports start at the URL that answered (import_attribute_error, load).
FormatsAsked ==
    \A i \in Imports :
        LET import == loading.imports[i]
        IN  import.stage = "loaded" =>
                /\ (import.result = "json") = (import.target.requested = "json")
                /\ import.target.requested \in {None, "json"}
                /\ import.base = IF import.fetched = None THEN "specifier" ELSE import.fetched

\* A CommonJS body runs at most once, whatever mixture of require, import, cycles
\* and failures reaches it; a caller is handed unfinished exports only inside a
\* cycle or after the body threw, and require.cache lists the files that were
\* required and no file that was only imported (loadVirtualModule).
ScriptsOnce ==
    /\ \A f \in Scripts : scripts.runs[f] <= 1
    /\ \A g \in scripts.got : g.whole \/ g.inside \/ scripts.cache[g.file] = "failed"
    /\ scripts.listed = scripts.required
    /\ scripts.stack = <<>> => \A f \in Scripts : scripts.cache[f] # "loading"

\* A resolution runs the hooks that were registered when it began, newest first and
\* each once, and deregistering removes one registration and never another's
\* (registerHooks, resolveImportMetaSpecifier).
HooksNewestFirst ==
    /\ ToSet(resolvers.active) = resolvers.handles
    /\ Len(resolvers.active) = Cardinality(resolvers.handles)
    /\ resolvers.chain # None =>
        LET chain == resolvers.chain
        IN  /\ IsPrefix(chain.ran, Reverse(chain.hooks))
            /\ chain.result = "default" => chain.ran = Reverse(chain.hooks)
==============================================================================

----------------------------- MODULE SnapshotFs -----------------------------
(***************************************************************************)
(* The snapshot filesystem of a session: content-addressed tree nodes      *)
(* (fs_tree.rs, fs_store.rs), the overlay a run mounts over one of them    *)
(* (fs_mount.rs), the operations JavaScript and native callers issue       *)
(* through FsService (fs.rs) and the three-way merge of two snapshots      *)
(* (fs_merge.rs, fs_content_merge.rs, fs_merge of ffi.rs).                 *)
(*                                                                         *)
(* A node is a function from the names present in it to its children; a   *)
(* node's hash stands for its content, so nodes are compared by value.     *)
(* A path is the sequence of its components; <<>> is the root directory.   *)
(* The bytes of a file are a sequence of opaque pieces.                    *)
(***************************************************************************)
EXTENDS Naturals, Sequences, FiniteSets, Functions, TLC

CONSTANTS FilePaths,     \* the paths files are written at
          FileEntries,   \* what a write may store: [bytes, link]
          FirstRoots,    \* the snapshots a session may start from
          MaxPage,       \* a page of read_range larger than any file
          MaxFsSteps,    \* bound: operations in one behaviour
          None,          \* absence (an Option's None, a missing node)
          Whiteout       \* a deletion recorded in the upper layer

VARIABLES base,    \* the pinned root: a node, or None for an empty mount
          upper,   \* the write layer: path -> entry or Whiteout
          reply,   \* what the last operation answered
          fsSteps  \* operations issued so far

fsVars == <<base, upper, reply, fsSteps>>

-----------------------------------------------------------------------------
(* Tree nodes. *)

EmptyChild == [file |-> None, dir |-> None]

NamesOf(node) == IF node = None THEN {} ELSE DOMAIN node

ChildOf(node, n) == IF n \in NamesOf(node) THEN node[n] ELSE EmptyChild

(* A node is stored only with children that are not empty. *)
Node(names, child(_)) ==
  [n \in {m \in names : child(m) # EmptyChild} |-> child(n)]

EmptyNode == [n \in {} |-> EmptyChild]

NonEmpty(node) == IF DOMAIN node = {} THEN None ELSE node

RECURSIVE BuildNode(_, _)
BuildNode(from, changes) ==
  LET nested == {p[1] : p \in {q \in DOMAIN changes : Len(q) > 1}}
      direct == {p[1] : p \in {q \in DOMAIN changes : Len(q) = 1}}
      Sub(n) == [p \in {Tail(q) : q \in {r \in DOMAIN changes : Len(r) > 1 /\ r[1] = n}}
                   |-> changes[<<n>> \o p]]
      Child(n) == [file |-> IF n \in direct THEN changes[<<n>>] ELSE ChildOf(from, n).file,
                   dir  |-> IF n \in nested THEN BuildNode(ChildOf(from, n).dir, Sub(n))
                            ELSE ChildOf(from, n).dir]
  IN NonEmpty(Node(NamesOf(from) \cup nested \cup direct, Child))

BuildRoot(from, changes) ==
  LET root == BuildNode(from, changes) IN IF root = None THEN EmptyNode ELSE root

PutManifest(files) == BuildRoot(None, files)

RECURSIVE Resolve(_, _)
Resolve(root, p) ==
  CASE root = None       -> EmptyChild
    [] p = <<>>          -> [file |-> None, dir |-> root]
    [] Len(p) = 1        -> ChildOf(root, p[1])
    [] OTHER             -> IF ChildOf(root, p[1]).dir = None THEN EmptyChild
                            ELSE Resolve(ChildOf(root, p[1]).dir, Tail(p))

ResolveFile(root, p) == Resolve(root, p).file

DirNodeAt(root, p) == Resolve(root, p).dir

RECURSIVE FilesUnder(_)
FilesUnder(node) ==
  UNION {(IF node[n].file # None THEN {<<n>>} ELSE {})
           \cup {<<n>> \o p : p \in IF node[n].dir = None THEN {} ELSE FilesUnder(node[n].dir)}
         : n \in DOMAIN node}

ListSubtree(root, p) ==
  IF DirNodeAt(root, p) = None THEN {}
  ELSE {p \o q : q \in FilesUnder(DirNodeAt(root, p))}

GetManifest(root) == [p \in FilesUnder(root) |-> ResolveFile(root, p)]

-----------------------------------------------------------------------------
(* Three-way merge. *)

Decide(b, o, t, prefer) ==
  CASE o = t                -> [take |-> TRUE, entry |-> o]
    [] o # t /\ o = b       -> [take |-> TRUE, entry |-> t]
    [] o # t /\ o # b /\ t = b -> [take |-> TRUE, entry |-> o]
    [] OTHER -> CASE prefer = "ours"   -> [take |-> TRUE, entry |-> o]
                  [] prefer = "theirs" -> [take |-> TRUE, entry |-> t]
                  [] prefer = "none"   -> [take |-> FALSE, entry |-> None]

(* The merged subtree and the paths, below `prefix', that diverged. *)
RECURSIVE MergeNode(_, _, _, _, _)
MergeNode(b, o, t, prefer, prefix) ==
  IF o = t THEN [root |-> o, conflicts |-> {}]
  ELSE IF b = o THEN [root |-> t, conflicts |-> {}]
  ELSE IF b = t THEN [root |-> o, conflicts |-> {}]
  ELSE
    LET names == NamesOf(b) \cup NamesOf(o) \cup NamesOf(t)
        File(n) == Decide(ChildOf(b, n).file, ChildOf(o, n).file, ChildOf(t, n).file, prefer)
        Dir(n) == MergeNode(ChildOf(b, n).dir, ChildOf(o, n).dir, ChildOf(t, n).dir,
                            prefer, Append(prefix, n))
        Child(n) == [file |-> File(n).entry, dir |-> Dir(n).root]
    IN [root      |-> NonEmpty(Node(names, Child)),
        conflicts |-> {Append(prefix, n) : n \in {m \in names : ~File(m).take}}
                        \cup UNION {Dir(n).conflicts : n \in names}]

MergeTrees(b, o, t, prefer) ==
  LET m == MergeNode(b, o, t, prefer, <<>>)
  IN [m EXCEPT !.root = IF m.root = None THEN EmptyNode ELSE m.root]

(* merge_content: both sides must be of one kind, and text (piece 0 is a    *)
(* NUL), for the line merger to try; it (diffy, external) reconciles them   *)
(* or reports a conflict.  The result is a plain file even for two links.   *)
Textual(e) == 0 \notin Range(e.bytes)

ContentMerges(o, t) ==
  IF o # None /\ t # None /\ Textual(o) /\ Textual(t)
  THEN {None, [bytes |-> o.bytes \o t.bytes, link |-> FALSE]}
  ELSE {None}

-----------------------------------------------------------------------------
(* The overlay. *)

(* child_suffix: p lies strictly below d. *)
Below(d, p) == Len(p) > Len(d) /\ SubSeq(p, 1, Len(d)) = d

Effective(p) ==
  IF p \in DOMAIN upper
  THEN IF upper[p] = Whiteout THEN None ELSE upper[p]
  ELSE ResolveFile(base, p)

Whited(p) == p \in DOMAIN upper /\ upper[p] = Whiteout

UpperData == {p \in DOMAIN upper : upper[p] # Whiteout}

LiveDescendants(d) ==
  {p \in ListSubtree(base, d) : ~Whited(p)} \cup {p \in UpperData : Below(d, p)}

IsImplicitDir(d) ==
  \/ \E p \in UpperData : Below(d, p)
  \/ IF \E p \in DOMAIN upper : Whited(p) /\ Below(d, p)
     THEN \E p \in ListSubtree(base, d) : ~Whited(p)
     ELSE DirNodeAt(base, d) # None /\ NamesOf(DirNodeAt(base, d)) # {}

Exists(p) == Effective(p) # None \/ IsImplicitDir(p)

UpperNames(d) == {p[Len(d) + 1] : p \in {q \in UpperData : Below(d, q)}}

(* Only the root may be empty: a directory without names is ENOENT. *)
Listed(d, names) == IF names = {} /\ d # <<>> THEN None ELSE names

(* A fault: names whose files are all whited out are still listed. *)
FaultyReaddir(d) == Listed(d, NamesOf(DirNodeAt(base, d)) \cup UpperNames(d))

Readdir(d) == Listed(d, {n \in NamesOf(DirNodeAt(base, d)) : Exists(Append(d, n))} \cup UpperNames(d))

Stat(p) ==
  IF Effective(p) # None
  THEN [dir |-> FALSE, size |-> Len(Effective(p).bytes), link |-> Effective(p).link]
  ELSE IF IsImplicitDir(p) THEN [dir |-> TRUE, size |-> 0, link |-> FALSE]
  ELSE None

Readlink(p) ==
  IF Effective(p) = None THEN "ENOENT"
  ELSE IF Effective(p).link THEN "target" ELSE "EINVAL"

(* read_range slices the whole content of an overlay file. *)
ReadRange(p, offset, max) ==
  LET bytes == IF Effective(p) = None THEN <<>> ELSE Effective(p).bytes
      from  == IF offset < Len(bytes) THEN offset ELSE Len(bytes)
      to    == IF from + max < Len(bytes) THEN from + max ELSE Len(bytes)
  IN SubSeq(bytes, from + 1, to)

-----------------------------------------------------------------------------
(* Operations.  Each runs under the mount's mutex; the gate in front of it  *)
(* (module HookStack) decides the effective paths, or denies it and changes *)
(* nothing.                                                                 *)

Answered(answer) ==
  reply' = answer /\ fsSteps < MaxFsSteps /\ fsSteps' = fsSteps + 1

Ends(answer) == reply' = answer /\ fsSteps' = MaxFsSteps

Put(changes) == upper' = changes @@ upper

Fails(code) == Answered(code) /\ UNCHANGED <<base, upper>>

Write(p, e) == Put(p :> e) /\ Answered(<<"ok">>) /\ UNCHANGED base

AppendFile(p, e) ==
  /\ Put(p :> [bytes |-> (IF Effective(p) = None THEN <<>> ELSE Effective(p).bytes) \o e.bytes,
               link  |-> FALSE])
  /\ Answered(<<"ok">>)
  /\ UNCHANGED base

Copy(from, to) ==
  \/ Effective(from) # None /\ Put(to :> Effective(from)) /\ Answered(<<"ok">>) /\ UNCHANGED base
  \/ Effective(from) = None /\ Fails(<<"ENOENT">>)

(* The only caller of unlink is the native binding; fs.unlink goes to rm. *)
Unlink(p) ==
  \/ Effective(p) # None /\ Put(p :> Whiteout) /\ Answered(<<"ok">>) /\ UNCHANGED base
  \/ Effective(p) = None /\ Fails(<<"ENOENT">>)

Remove(p, recursive) ==
  \/ /\ Effective(p) # None
     /\ Put(p :> Whiteout) /\ Answered(<<"ok">>) /\ UNCHANGED base
  \/ /\ Effective(p) = None
     /\ \/ LiveDescendants(p) = {} /\ Fails(<<"ENOENT">>)
        \/ LiveDescendants(p) # {} /\ ~recursive /\ Fails(<<"ENOTEMPTY">>)
        \/ /\ LiveDescendants(p) # {} /\ recursive
           /\ Put([q \in LiveDescendants(p) |-> Whiteout])
           /\ Answered(<<"ok">>) /\ UNCHANGED base

Symlink(link, e) ==
  \/ Exists(link) /\ Fails(<<"EEXIST">>)
  \/ ~Exists(link) /\ Put(link :> [e EXCEPT !.link = TRUE]) /\ Answered(<<"ok">>) /\ UNCHANGED base

Moved(from, to, p) == to \o SubSeq(p, Len(from) + 1, Len(p))

Rename(from, to) ==
  \/ from = to /\ Fails(<<"ok">>)
  \/ /\ from # to /\ Effective(from) # None
     /\ Put(from :> Whiteout @@ to :> Effective(from))
     /\ Answered(<<"ok">>) /\ UNCHANGED base
  \/ /\ from # to /\ Effective(from) = None
     /\ \/ Below(from, to) /\ Fails(<<"EINVAL">>)
        \/ Below(to, from) /\ Fails(<<"ENOTEMPTY">>)
        \/ /\ ~Below(from, to) /\ ~Below(to, from) /\ LiveDescendants(from) = {}
           /\ Fails(<<"ENOENT">>)
        \/ /\ ~Below(from, to) /\ ~Below(to, from) /\ LiveDescendants(from) # {}
           /\ Put([q \in LiveDescendants(from) |-> Whiteout]
                    @@ [q \in {Moved(from, to, p) : p \in LiveDescendants(from)}
                          |-> Effective(Moved(to, from, q))])
           /\ Answered(<<"ok">>) /\ UNCHANGED base

(* The end of a run pushes the overlay; the next run pulls what it wrote. *)
Pushed == BuildRoot(base, [p \in DOMAIN upper \ {<<>>} |-> IF upper[p] = Whiteout THEN None ELSE upper[p]])

Push ==
  /\ base' = Pushed
  /\ upper' = [p \in {} |-> Whiteout]
  /\ Answered(<<"ok">>)

(* fs_merge: structural merge, content merge of the paths present on both   *)
(* sides, and a new root only if nothing is left in conflict.               *)
Merge(b, o, t, prefer) ==
  LET m == MergeTrees(b, o, t, prefer)
      Merges(p) == ContentMerges(ResolveFile(o, p), ResolveFile(t, p))
  IN \E pick \in [m.conflicts -> UNION {Merges(p) : p \in m.conflicts}] :
       /\ \A p \in m.conflicts : pick[p] \in Merges(p)
       /\ \/ /\ \A p \in m.conflicts : pick[p] # None
             /\ base' = (IF m.conflicts = {} THEN m.root ELSE BuildRoot(m.root, pick))
             /\ upper' = [p \in {} |-> Whiteout]
             /\ Ends(<<"merged">>)
          \/ /\ \E p \in m.conflicts : pick[p] = None
             /\ Ends(<<"conflict", {p \in m.conflicts : pick[p] = None}>>)
             /\ UNCHANGED <<base, upper>>

(* The reading operations, of one path. *)
Query(p) ==
  /\ fsSteps < MaxFsSteps
  /\ Ends(<<"read", [exists |-> Exists(p), stat |-> Stat(p), names |-> Readdir(p),
                    target |-> Readlink(p),
                    pages  |-> <<ReadRange(p, 0, 1), ReadRange(p, 1, MaxPage)>>]>>)
  /\ UNCHANGED <<base, upper>>

FsStart(root) ==
  /\ base = root /\ upper = [p \in {} |-> Whiteout] /\ reply = <<"ok">> /\ fsSteps = 0

FsNext ==
  \/ \E p \in FilePaths, e \in FileEntries : Write(p, e) \/ AppendFile(p, e) \/ Symlink(p, e)
  \/ \E p, q \in FilePaths : Copy(p, q) \/ Rename(p, q)
  \/ \E p \in FilePaths : Unlink(p)
  \/ \E p \in FilePaths \cup {<<>>}, r \in BOOLEAN : Remove(p, r)
  \/ \E p \in FilePaths \cup {<<>>} : Query(p)
  \/ Push
  \/ /\ fsSteps = 0
     /\ \E b \in FirstRoots \cup {None}, o, t \in FirstRoots \ {None}, f \in {"none", "ours", "theirs"} :
          Merge(b, o, t, f)

-----------------------------------------------------------------------------
(* The filesystem a session sees: every path with a live file. *)
Seen == {p \in FilePaths \cup DOMAIN upper \cup ListSubtree(base, <<>>) : Effective(p) # None}

View == [p \in Seen |-> Effective(p)]

(* The snapshot a push would write holds exactly the files seen, and a      *)
(* directory is listed, found and removable exactly while some file lives   *)
(* below it, whatever mixture of snapshot, overlay and whiteouts left it so *)
(* (is_implicit_dir's shortcut, live_descendants and push of fs_mount.rs).  *)
PushKeepsView ==
  /\ GetManifest(Pushed) = View
  /\ \A d \in FilePaths : IsImplicitDir(d) <=> LiveDescendants(d) # {}
=============================================================================

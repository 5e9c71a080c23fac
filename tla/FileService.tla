---------------------------- MODULE FileService ----------------------------
(***************************************************************************)
(* The guest's `fs' (engine/fs.rs): asynchronous and synchronous ops, the  *)
(* gate in front of each, the choice between a session's mount and the     *)
(* host filesystem, and streaming writes with their registry of handles.   *)
(*                                                                         *)
(* A guest program is a plan: what each op asks for and which earlier ops  *)
(* it awaits; ops it does not await overlap.  The mount is the flat map    *)
(* module SnapshotFs implements, behind the mutex of SessionMount; the     *)
(* host filesystem is external, a map from paths to files and directories. *)
(***************************************************************************)
EXTENDS Naturals, Sequences, FiniteSets, Functions, TLC

CONSTANTS FileOps,      \* ops of the plan
          HostFiles,    \* the host filesystem to begin with
          Rewritten,    \* path -> effective paths hooks may turn it into
          None

VARIABLES program,   \* [mount, pass, ops]: the service and the plan
          mounted, host,  \* path -> bytes; host also holds directories
          mutex,     \* the op that holds the mount
          writers,   \* handle -> open write stream
          opened,    \* handles given out so far
          fileOp,    \* op -> [at, path, dest, got, bytes]
          isolate    \* the synchronous op the event loop is blocked in
fileVars == <<program, mounted, host, mutex, writers, opened, fileOp, isolate>>

Plan(o) == program.ops[o]
Used == DOMAIN program.ops
Dir == <<0>>  \* no file holds piece 0
IsDir(fs, p) == p \in DOMAIN fs /\ fs[p] = Dir
IsFile(fs, p) == p \in DOMAIN fs /\ fs[p] # Dir

Set(o, changes) == fileOp' = [fileOp EXCEPT ![o] = changes @@ @]
Finish(o, got) == Set(o, [at |-> "done", got |-> got])

-----------------------------------------------------------------------------
(* Calling into `fs'.  A stream's handle refuses writes once close was      *)
(* called on it, and a second close does nothing; a synchronous op blocks   *)
(* the event loop in the join of its own thread.                            *)
CloseCalled(h) == \E o \in Used : Plan(o).kind = "close" /\ Plan(o).handle = h /\ fileOp[o].at # "idle"

Ready(o) ==
  /\ fileOp[o].at = "idle" /\ isolate = None
  /\ \A a \in Plan(o).after : fileOp[a].at = "done"

IssueAsync(o) ==
  /\ Ready(o) /\ Plan(o).kind \notin {"chunk", "close"} /\ ~Plan(o).sync
  /\ Set(o, [at |-> "gate"])
  /\ UNCHANGED <<program, mounted, host, mutex, writers, opened, isolate>>

IssueSync(o) ==
  /\ Ready(o) /\ Plan(o).kind \notin {"chunk", "close"} /\ Plan(o).sync
  /\ Set(o, [at |-> "gate"]) /\ isolate' = o
  /\ UNCHANGED <<program, mounted, host, mutex, writers, opened>>

IssueStream(o) ==
  /\ Ready(o)
  /\ \/ Plan(o).kind = "chunk" /\ (IF CloseCalled(Plan(o).handle) THEN Finish(o, <<"write after close">>) ELSE Set(o, [at |-> "feed"]))
     \/ Plan(o).kind = "close" /\ (IF CloseCalled(Plan(o).handle) THEN Finish(o, <<"ok">>) ELSE Set(o, [at |-> "close"]))
  /\ UNCHANGED <<program, mounted, host, mutex, writers, opened, isolate>>

(* What the blocked isolate thread drives: nothing but the synchronous op. *)
Polled(o) == isolate \in {None, o}
Leaves(o) == isolate' = IF isolate = o THEN None ELSE isolate

(* check_policy: a verdict, and the effective path and destination.  A hook *)
(* that drops the destination of a two-path op fails it.                    *)
TwoPaths == {"rename", "copy"}

Gate(o) ==
  /\ fileOp[o].at = "gate" /\ Polled(o)
  /\ \/ Finish(o, <<"denied">>) /\ Leaves(o)
     \/ \E p \in Rewritten[Plan(o).path], d \in Rewritten[Plan(o).dest] \cup {None} :
          IF Plan(o).kind \in TwoPaths /\ d = None
          THEN Finish(o, <<"destination removed">>) /\ Leaves(o)
          ELSE Set(o, [at |-> IF program.mount THEN "lock" ELSE "host", path |-> p, dest |-> d])
               /\ UNCHANGED isolate
  /\ UNCHANGED <<program, mounted, host, mutex, writers, opened>>

(* The mount's mutex is held until the op's last await. *)
LockMount(o) ==
  /\ fileOp[o].at = "lock" /\ Polled(o) /\ mutex = None
  /\ mutex' = o /\ Set(o, [at |-> "held", bytes |-> IF IsFile(mounted, fileOp[o].path) THEN mounted[fileOp[o].path] ELSE <<>>])
  /\ UNCHANGED <<program, mounted, host, writers, opened, isolate>>

(* Each op acts on the mount or, without one, on the host (external: the    *)
(* tokio fs functions).  In the mount directories are implied by paths;     *)
(* what its operations do there is module SnapshotFs's.                     *)
Files == IF program.mount THEN mounted ELSE host

Acts(o, kind) ==
  /\ Plan(o).kind = kind /\ fileOp[o].at \in {"held", "host"} /\ Polled(o)
  /\ mutex' = (IF fileOp[o].at = "held" THEN None ELSE mutex)
  /\ Leaves(o) /\ UNCHANGED program

Answers(o, got) == Finish(o, got) /\ UNCHANGED <<mounted, host, writers, opened>>

Leave(o, files) ==
  /\ IF program.mount THEN mounted' = files /\ UNCHANGED host ELSE host' = files /\ UNCHANGED mounted
  /\ Finish(o, <<"ok">>) /\ UNCHANGED <<writers, opened>>

Contents(fs, p) == IF IsFile(fs, p) THEN <<"ok", fs[p]>> ELSE IF IsDir(fs, p) THEN <<"EISDIR">> ELSE <<"ENOENT">>

(* The overlay, and the host below it only with passthrough. *)
ReadBytes(o) ==
  /\ Acts(o, "read")
  /\ Answers(o, IF IsFile(Files, fileOp[o].path) \/ ~program.mount THEN Contents(Files, fileOp[o].path)
                ELSE IF program.pass THEN Contents(host, fileOp[o].path) ELSE <<"ENOENT">>)

WriteFile(o) ==
  /\ Acts(o, "write")
  /\ IF IsDir(Files, fileOp[o].path) THEN Answers(o, <<"EISDIR">>)
     ELSE Leave(o, fileOp[o].path :> Plan(o).data @@ Files)

(* On the mount: what was read under the lock, with the data appended. *)
AppendFile(o) ==
  LET before == IF program.mount THEN fileOp[o].bytes
                ELSE IF IsFile(host, fileOp[o].path) THEN host[fileOp[o].path] ELSE <<>>
  IN /\ Acts(o, "append")
     /\ IF IsDir(Files, fileOp[o].path) THEN Answers(o, <<"EISDIR">>)
        ELSE Leave(o, fileOp[o].path :> (before \o Plan(o).data) @@ Files)

Stat(o) ==
  /\ Acts(o, "stat")
  /\ Answers(o, IF fileOp[o].path \in DOMAIN Files THEN <<"ok", IsDir(Files, fileOp[o].path)>> ELSE <<"ENOENT">>)

(* A no-op on the mount. *)
Mkdir(o) ==
  /\ Acts(o, "mkdir")
  /\ IF program.mount THEN Answers(o, <<"ok">>)
     ELSE IF fileOp[o].path \in DOMAIN host THEN Answers(o, <<"EEXIST">>)
     ELSE Leave(o, fileOp[o].path :> Dir @@ host)

Rm(o) ==
  /\ Acts(o, "rm")
  /\ IF fileOp[o].path \notin DOMAIN Files THEN Answers(o, <<"ENOENT">>)
     ELSE Leave(o, Restrict(Files, DOMAIN Files \ {fileOp[o].path}))

Rename(o) ==
  LET from == fileOp[o].path
      to == fileOp[o].dest
  IN /\ Acts(o, "rename")
     /\ IF from \notin DOMAIN Files THEN Answers(o, <<"ENOENT">>)
        ELSE IF to \in DOMAIN Files /\ IsDir(Files, to) # IsDir(Files, from) THEN Answers(o, <<"EISDIR">>)
        ELSE Leave(o, to :> Files[from] @@ Restrict(Files, DOMAIN Files \ {from}))

CopyFile(o) ==
  /\ Acts(o, "copy")
  /\ IF ~IsFile(Files, fileOp[o].path) THEN Answers(o, Contents(Files, fileOp[o].path))
     ELSE IF IsDir(Files, fileOp[o].dest) THEN Answers(o, <<"EISDIR">>)
     ELSE Leave(o, fileOp[o].dest :> Files[fileOp[o].path] @@ Files)

Exists(o) == Acts(o, "exists") /\ Answers(o, <<"ok", fileOp[o].path \in DOMAIN Files>>)

(* op_fs_write_stream_open: a writer under a new handle; File::create       *)
(* truncates a host file at once.                                           *)
OpenStream(o) ==
  /\ Acts(o, "open")
  /\ IF IsDir(Files, fileOp[o].path) THEN Answers(o, <<"EISDIR">>)
     ELSE /\ writers' = opened :> [path |-> fileOp[o].path, bytes |-> <<>>, real |-> ~program.mount] @@ writers
          /\ opened' = opened + 1 /\ Finish(o, <<"handle", opened>>)
          /\ host' = (IF program.mount THEN host ELSE fileOp[o].path :> <<>> @@ host)
          /\ UNCHANGED mounted

-----------------------------------------------------------------------------
(* feed_stream takes the writer out of the registry, so a chunk or a close  *)
(* that comes while one is being fed finds no handle.                       *)
HandleOf(o) ==
  LET got == fileOp[Plan(o).handle].got
  IN IF Len(got) = 2 /\ got[1] = "handle" THEN got[2] ELSE None

TakeWriter(o) ==
  /\ fileOp[o].at = "feed" /\ Polled(o)
  /\ IF HandleOf(o) \notin DOMAIN writers THEN Finish(o, <<"invalid handle">>) /\ UNCHANGED writers
     ELSE /\ writers' = Restrict(writers, DOMAIN writers \ {HandleOf(o)})
          /\ Set(o, [at |-> "feeding", writer |-> writers[HandleOf(o)]])
  /\ UNCHANGED <<program, mounted, host, mutex, opened, isolate>>

(* The chunk is stored (overlay) or written (host), and the writer returns. *)
FeedStream(o) ==
  /\ fileOp[o].at = "feeding" /\ Polled(o)
  /\ LET w == fileOp[o].writer
         fed == [w EXCEPT !.bytes = @ \o Plan(o).data]
     IN /\ writers' = HandleOf(o) :> fed @@ writers
        /\ host' = IF w.real /\ IsFile(host, w.path) THEN [host EXCEPT ![w.path] = fed.bytes] ELSE host
  /\ Finish(o, <<"ok">>)
  /\ UNCHANGED <<program, mounted, mutex, opened, isolate>>

(* op_fs_write_stream_close: the file is installed in the mount at the end. *)
TakeToClose(o) ==
  /\ fileOp[o].at = "close" /\ Polled(o)
  /\ IF HandleOf(o) \notin DOMAIN writers THEN Finish(o, <<"invalid handle">>) /\ UNCHANGED writers
     ELSE /\ writers' = Restrict(writers, DOMAIN writers \ {HandleOf(o)})
          /\ Set(o, [at |-> "install", writer |-> writers[HandleOf(o)]])
  /\ UNCHANGED <<program, mounted, host, mutex, opened, isolate>>

Install(o) ==
  LET w == fileOp[o].writer
  IN /\ fileOp[o].at = "install" /\ Polled(o)
     /\ w.real \/ mutex = None
     /\ mounted' = IF w.real THEN mounted ELSE w.path :> w.bytes @@ mounted
     /\ Finish(o, <<"ok">>)
     /\ UNCHANGED <<program, host, mutex, writers, opened, isolate>>

FileStart(pr) ==
  /\ program = pr /\ mounted = [p \in {} |-> <<>>] /\ host = HostFiles
  /\ mutex = None /\ writers = [h \in {} |-> None] /\ opened = 0 /\ isolate = None
  /\ fileOp = [o \in FileOps |-> [at |-> "idle", path |-> None, dest |-> None, got |-> <<>>, bytes |-> <<>>, writer |-> None]]

FileStep(o) ==
  /\ o \in Used
  /\ \/ IssueAsync(o) \/ IssueSync(o) \/ IssueStream(o) \/ Gate(o) \/ LockMount(o)
     \/ ReadBytes(o) \/ WriteFile(o) \/ AppendFile(o) \/ Stat(o) \/ Mkdir(o) \/ Rm(o) \/ Rename(o)
     \/ CopyFile(o) \/ Exists(o) \/ OpenStream(o)
     \/ TakeWriter(o) \/ FeedStream(o) \/ TakeToClose(o) \/ Install(o)

FileNext == \E o \in FileOps : FileStep(o)

-----------------------------------------------------------------------------
Told(o, got) == fileOp[o].at = "done" /\ fileOp[o].got = <<got>>
Pieces(o) == {Plan(o).data[i] : i \in DOMAIN Plan(o).data}
Count(bytes, x) == Cardinality({i \in DOMAIN bytes : bytes[i] = x})

(* The file a close installs holds every chunk whose write succeeded, once, *)
(* and nothing of a chunk that was refused; so do the appends to a file,    *)
(* which overlap without one undoing another (feed_stream, append_file).    *)
WritesExact ==
  /\ \A c \in Used : Plan(c).kind = "close" /\ fileOp[c].writer # None /\ fileOp[c].at = "done" =>
       \A o \in Used : Plan(o).kind = "chunk" /\ Plan(o).handle = Plan(c).handle =>
         \A x \in Pieces(o) : Count(fileOp[c].writer.bytes, x) = IF Told(o, "ok") THEN 1 ELSE 0
  /\ (\A o \in Used : Plan(o).kind \in {"append", "read"}) =>
       \A o \in Used, p \in DOMAIN mounted : Told(o, "ok") /\ fileOp[o].path = p =>
         \A x \in Pieces(o) : Count(mounted[p], x) = 1

(* A stream over the mount shows nothing of its file before close, and the  *)
(* host is never changed through a mounted session.                         *)
StreamsHidden ==
  /\ program.mount => host = HostFiles
  /\ (\A o \in Used : Plan(o).kind \in {"open", "chunk", "close", "read"}) =>
       \A o \in Used : Plan(o).kind = "read" /\ fileOp[o].at = "done" /\ program.mount /\ fileOp[o].got[1] = "ok" /\ ~program.pass =>
         \E c \in Used : Plan(c).kind = "close" /\ Told(c, "ok")
=============================================================================

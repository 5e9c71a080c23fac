------------------------------ MODULE RestApi ------------------------------
(***************************************************************************)
(* The REST surface over one engine: every handler as one action, and the  *)
(* calls on a session's files in the steps between which a script of the   *)
(* session can publish a snapshot of its own.  A native call holds the     *)
(* engine's lifecycle lock from its check to its last step; scripts do     *)
(* not, and neither do the handlers that only look something up.           *)
(*                                                                         *)
(* A file tree is a function from paths to contents; the label store and   *)
(* the merge of snapshots take one step here (modules SnapshotLabels and   *)
(* SnapshotFs have theirs).  A response is its status code and what the    *)
(* body says of the state.                                                 *)
(***************************************************************************)
EXTENDS Naturals, Sequences, SequencesExt, FiniteSets

CONSTANTS
  None,           \* nothing: no body, no label, no file
  Clients,        \* who has sent a request
  MaxScripts      \* how many scripts of the session finish

VARIABLES
  restSite,       \* what the engine was configured with
  life,           \* RuntimeLifecycleState
  holder,         \* who holds shutdown_lock
  log,            \* the session's log: [fs, by, base] oldest first
  store,          \* [execs, artifacts, head, reflog, host]: the other stores
  call,           \* the clients' requests
  script          \* [at, base, done]: the running script of the session

restVars == <<restSite, life, holder, log, store, call, script>>

(* The configuration: fs_config, fs_store and session_log, label_store, the  *)
(* CLI binaries in the build, the operation the filesystem's hooks deny, the *)
(* snapshot policy's verdict.                                                *)
RestSite(fs, snapshots, labels, denied, refused) ==
  [fs |-> fs, snapshots |-> snapshots, labels |-> labels, embedded |-> {"linux-x86_64"},
   denied |-> denied, refused |-> refused]
Platforms == {"linux-x86_64", "linux-aarch64", "macos-aarch64"}

NoFiles == <<>>
LatestFiles == IF log = <<>> THEN NoFiles ELSE Last(log).fs
FilesAt(n) == IF n = 0 THEN NoFiles ELSE log[n].fs

(* A request: verb, what it names and carries, and how far it is. *)
Request(verb, name, value, flag) ==
  [verb |-> verb, name |-> name, value |-> value, flag |-> flag, at |-> "new", from |-> 0,
   base |-> 0, tree |-> NoFiles, code |-> 0, body |-> None, upto |-> 0]

RestStart(config, files, requests) ==
  /\ restSite = config
  /\ life = "Running"
  /\ holder = None
  /\ log = IF files = NoFiles THEN <<>> ELSE <<[fs |-> files, by |-> "run", base |-> 0]>>
  /\ store = [execs |-> "e1" :> "running", artifacts |-> <<>>, head |-> None, reflog |-> <<>>,
              host |-> "a" :> <<7>>]
  /\ call = [c \in Clients |-> [requests[c] EXCEPT !.from = Len(log)]]
  /\ script = [at |-> "idle", base |-> 0, done |-> 0]

-----------------------------------------------------------------------------
Asks(c, verb) == call[c].verb = verb /\ call[c].at = "new"
Answered(c, code, body) ==
  call' = [call EXCEPT ![c].at = "answered", ![c].code = code, ![c].body = body, ![c].upto = Len(log)]
Goes(c, at) == call' = [call EXCEPT ![c].at = at]
OnlyCall == UNCHANGED <<restSite, life, holder, log, store, script>>
OnlyStore == UNCHANGED <<restSite, life, holder, log, script>>

(* exec_handler: value says what the body is; a script is admitted under the *)
(* lifecycle lock.                                                           *)
ExecHandler(c) ==
  /\ Asks(c, "exec")
  /\ CASE call[c].value = "multipart" -> Answered(c, 415, None)
       [] call[c].value = "malformed" -> Answered(c, 400, None)
       [] OTHER -> Goes(c, "submit")
  /\ OnlyCall

SubmitExec(c) ==
  /\ call[c].at = "submit"
  /\ holder = None
  /\ LET Accepted == life = "Running" /\ call[c].value # "empty"
     IN /\ Answered(c, IF Accepted THEN 202 ELSE 500, IF Accepted THEN c ELSE None)
        /\ store' = IF Accepted THEN [store EXCEPT !.execs = (c :> "running") @@ @] ELSE store
  /\ OnlyStore

GetExecution(c) ==
  /\ Asks(c, "execution")
  /\ IF call[c].name \in DOMAIN store.execs
       THEN Answered(c, 200, store.execs[call[c].name])
       ELSE Answered(c, 404, None)
  /\ OnlyCall

ListExecutions(c) ==
  /\ Asks(c, "executions")
  /\ Answered(c, 200, DOMAIN store.execs)
  /\ OnlyCall

(* ExecutionRegistry::cancel refuses what is over. *)
CancelExecution(c) ==
  /\ Asks(c, "cancel")
  /\ LET id == call[c].name
         Runs == id \in DOMAIN store.execs /\ store.execs[id] = "running"
     IN /\ Answered(c, IF Runs THEN 200 ELSE 400, None)
        /\ store' = IF Runs THEN [store EXCEPT !.execs[id] = "cancelled"] ELSE store
  /\ OnlyStore

ListArtifacts(c) ==
  /\ Asks(c, "artifacts")
  /\ Answered(c, 200, DOMAIN store.artifacts)
  /\ OnlyCall

(* The store refuses an invalid key, type or size; the same key overwrites. *)
PutArtifact(c) ==
  /\ Asks(c, "put_artifact")
  /\ LET Valid == call[c].flag
     IN /\ Answered(c, IF Valid THEN 200 ELSE 400, None)
        /\ store' = IF Valid THEN [store EXCEPT !.artifacts = (call[c].name :> call[c].value) @@ @] ELSE store
  /\ OnlyStore

GetArtifact(c) ==
  /\ Asks(c, "artifact")
  /\ IF call[c].name \in DOMAIN store.artifacts
       THEN Answered(c, 200, store.artifacts[call[c].name])
       ELSE Answered(c, 404, None)
  /\ OnlyCall

(* The pages that depend on nothing, the CLI's index and its binaries. *)
StaticPages(c) ==
  /\ Asks(c, "version")
  /\ Answered(c, 200, None)
  /\ OnlyCall

CliIndex(c) ==
  /\ Asks(c, "cli_index")
  /\ Answered(c, 200, Platforms \cap restSite.embedded)
  /\ OnlyCall

CliDownload(c) ==
  /\ Asks(c, "cli")
  /\ Answered(c, IF call[c].name \in Platforms \cap restSite.embedded THEN 200 ELSE 404, call[c].name)
  /\ OnlyCall

CapabilitiesHandler(c) ==
  /\ Asks(c, "capabilities")
  /\ Answered(c, 200, [filesystem |-> restSite.fs, sessions |-> restSite.snapshots])
  /\ OnlyCall

(* The session log needs a session log; its entries come oldest first. *)
SessionSnapshots(c) ==
  /\ Asks(c, "snapshots")
  /\ IF restSite.snapshots THEN Answered(c, 200, [n \in DOMAIN log |-> log[n].fs]) ELSE Answered(c, 400, None)
  /\ OnlyCall

-----------------------------------------------------------------------------
(* Labels: one label, moved by the three verbs.  Without a label store every *)
(* verb is refused.                                                          *)
MoveLabel(to, op) ==
  store' = [store EXCEPT !.head = to, !.reflog = Append(@, [from |-> store.head, to |-> to, op |-> op])]

FsLabels(c) ==
  /\ Asks(c, "labels")
  /\ IF restSite.labels THEN Answered(c, 200, store.head) ELSE Answered(c, 400, None)
  /\ OnlyCall

FsResolve(c) ==
  /\ Asks(c, "resolve")
  /\ CASE ~restSite.labels -> Answered(c, 400, None)
       [] restSite.labels /\ store.head = None -> Answered(c, 404, None)
       [] OTHER -> Answered(c, 200, store.head)
  /\ OnlyCall

FsLog(c) ==
  /\ Asks(c, "label_log")
  /\ IF restSite.labels THEN Answered(c, 200, store.reflog) ELSE Answered(c, 400, None)
  /\ OnlyCall

(* fs_push_handler: a detached push changes nothing and asks nothing; without *)
(* a label it is refused.  fs_push and fs_set_label ask the snapshot policy   *)
(* and read the label's head before they move it; a forced push does not.     *)
FsPush(c) ==
  /\ Asks(c, "push")
  /\ LET r == call[c]
     IN CASE r.flag = "detach" -> Answered(c, 200, r.value) /\ UNCHANGED store
          [] r.flag = "nolabel" -> Answered(c, 400, None) /\ UNCHANGED store
          [] r.flag \in {"plain", "force"} /\ (restSite.refused = "push" \/ ~restSite.labels) ->
               Answered(c, 400, None) /\ UNCHANGED store
          [] r.flag = "force" /\ restSite.refused # "push" /\ restSite.labels ->
               Answered(c, 200, r.value) /\ MoveLabel(r.value, "reset")
          [] r.flag = "plain" /\ restSite.refused # "push" /\ restSite.labels ->
               call' = [call EXCEPT ![c].at = "resolved", ![c].body = store.head] /\ UNCHANGED store
  /\ OnlyStore

FsSetLabel(c) ==
  /\ Asks(c, "set_label")
  /\ IF restSite.labels /\ restSite.refused # "label"
       THEN call' = [call EXCEPT ![c].at = "resolved", ![c].body = store.head]
       ELSE Answered(c, 400, None)
  /\ OnlyCall

(* The move: create where no head was seen (and none was expected), which    *)
(* fails when there is one by now; force over a head that was seen; and for   *)
(* a push compare and set against the caller's expected head (name), telling  *)
(* the head that was read when it is another.                                 *)
MoveResolved(c) ==
  /\ call[c].at = "resolved"
  /\ LET r == call[c]
         Creates == r.body = None /\ (r.verb = "set_label" \/ r.name = None)
     IN CASE Creates /\ store.head = None -> Answered(c, 200, r.value) /\ MoveLabel(r.value, "create")
          [] Creates /\ store.head # None -> Answered(c, 400, None) /\ UNCHANGED store
          [] ~Creates /\ r.verb = "set_label" -> Answered(c, 200, r.value) /\ MoveLabel(r.value, "reset")
          [] ~Creates /\ r.verb = "push" /\ store.head = r.name -> Answered(c, 200, r.value) /\ MoveLabel(r.value, "push")
          [] ~Creates /\ r.verb = "push" /\ store.head # r.name -> Answered(c, 409, r.body) /\ UNCHANGED store
  /\ OnlyStore

(* fs_reset: to a head the reflog has seen, or any when that is allowed. *)
FsReset(c) ==
  /\ Asks(c, "reset")
  /\ LET r == call[c]
         Known == r.flag \/ \E e \in ToSet(store.reflog) : r.value \in {e.from, e.to}
     IN IF restSite.labels /\ restSite.refused # "reset" /\ Known
          THEN Answered(c, 200, r.value) /\ MoveLabel(r.value, "reset")
          ELSE Answered(c, 400, None) /\ UNCHANGED store
  /\ OnlyStore

(* fs_merge: an unknown preference is refused; a conflict is a 200 as well. *)
FsMerge(c) ==
  /\ Asks(c, "merge")
  /\ IF restSite.snapshots /\ restSite.refused # "merge" /\ call[c].value \in {None, "ours", "theirs"}
       THEN \E conflict \in {FALSE} \cup {call[c].value = None} : Answered(c, 200, conflict)
       ELSE Answered(c, 400, None)
  /\ OnlyCall

-----------------------------------------------------------------------------
(* Session files.  The verbs that change the tree, and what each does to it. *)
Mutations == {"write", "append", "delete", "mkdir", "rename"}
FileVerbs == Mutations \cup {"read", "range", "stat", "lstat", "dir", "exists", "readlink", "canonical"}

NeedsFile == FileVerbs \ {"write", "append", "mkdir", "exists", "dir"}

(* fs_error_response: the status of a failure. *)
Status(kind) ==
  CASE kind = "not_found" -> 404 [] kind = "permission_denied" -> 403
    [] kind \in {"already_exists", "not_empty"} -> 409 [] kind = "not_supported" -> 501
    [] kind \in {"not_directory", "is_directory", "invalid_data", "other"} -> 400

(* The handlers that answer without a body. *)
Acknowledged == {"write", "append", "delete"}

Without(tree, path) == [p \in DOMAIN tree \ {path} |-> tree[p]]

(* FsService over the mounted snapshot: the failure's kind, or the answer    *)
(* and the tree it leaves.                                                   *)
Outcome(r, tree) ==
  LET There == r.name \in DOMAIN tree
      Fails(kind) == [kind |-> kind, body |-> None, tree |-> tree]
      Says(body, left) == [kind |-> None, body |-> body, tree |-> left]
      Held == IF There THEN tree[r.name] ELSE <<>>
  IN IF r.verb = restSite.denied THEN Fails("permission_denied")
     ELSE IF r.verb \in NeedsFile /\ ~There THEN Fails("not_found")
     ELSE CASE r.verb \in {"read", "range"} -> Says(Held, tree)
            [] r.verb \in {"stat", "lstat", "canonical"} -> Says(r.name, tree)
            [] r.verb = "readlink" -> Fails("other")
            [] r.verb = "exists" -> Says(There, tree)
            [] r.verb = "dir" -> Says(DOMAIN tree, tree)
            [] r.verb = "mkdir" -> Says(None, tree)
            [] r.verb = "write" -> Says(None, (r.name :> <<r.value>>) @@ tree)
            [] r.verb = "append" -> Says(None, (r.name :> Append(Held, r.value)) @@ tree)
            [] r.verb = "delete" -> Says(None, Without(tree, r.name))
            [] r.verb = "rename" -> Says(None, (r.value :> Held) @@ Without(tree, r.name))

(* The handler: the view is refused without a filesystem, a session name or   *)
(* snapshots; an operation that does not exist, or a rename to nowhere, too.  *)
SessionView(c) ==
  /\ call[c].verb \in FileVerbs \cup {"unknown_op"} /\ call[c].at = "new"
  /\ IF \/ ~restSite.fs
        \/ ~restSite.snapshots /\ call[c].flag # "host"
        \/ call[c].verb = "unknown_op"
        \/ call[c].verb = "rename" /\ call[c].value = None
       THEN Answered(c, 400, None)
       ELSE Goes(c, "native")
  /\ OnlyCall

(* run_native: the lifecycle lock for the whole operation. *)
RunNative(c) ==
  /\ call[c].at = "native"
  /\ holder = None
  /\ IF life = "Running"
       THEN Goes(c, IF call[c].flag = "host" THEN "host" ELSE "pull") /\ holder' = c
       ELSE Answered(c, 400, None) /\ UNCHANGED holder
  /\ UNCHANGED <<restSite, life, log, store, script>>

(* A view of no session: the operation runs on the host's files. *)
RunOnHost(c) ==
  /\ call[c].at = "host"
  /\ LET out == Outcome(call[c], store.host)
         Done == IF call[c].verb \in Acknowledged THEN 204 ELSE 200
     IN /\ Answered(c, IF out.kind = None THEN Done ELSE Status(out.kind), out.body)
        /\ store' = [store EXCEPT !.host = out.tree]
  /\ holder' = None
  /\ UNCHANGED <<restSite, life, log, script>>

(* session_fs_run: the session's latest snapshot is looked up and mounted, *)
(* when the policy lets it be pulled ...                                   *)
PullSnapshot(c) ==
  /\ call[c].at = "pull"
  /\ IF restSite.refused = "pull"
       THEN Answered(c, 400, None) /\ holder' = None
       ELSE /\ call' = [call EXCEPT ![c].at = "op", ![c].base = Len(log), ![c].tree = LatestFiles]
            /\ UNCHANGED holder
  /\ UNCHANGED <<restSite, life, log, store, script>>

(* ... the operation runs on the mount ... *)
RunOp(c) ==
  /\ call[c].at = "op"
  /\ LET r == call[c]
         out == Outcome(r, r.tree)
     IN CASE out.kind # None -> Answered(c, Status(out.kind), None) /\ holder' = None
          [] out.kind = None /\ r.verb \notin Mutations -> Answered(c, 200, out.body) /\ holder' = None
          [] out.kind = None /\ r.verb \in Mutations ->
               call' = [call EXCEPT ![c].at = "push", ![c].tree = out.tree] /\ UNCHANGED holder
  /\ UNCHANGED <<restSite, life, log, store, script>>

(* ... and a mutation that changed the tree is folded and logged, when the   *)
(* policy lets it be pushed, on top of whatever the log holds by now.        *)
AppendEntry(c) ==
  /\ call[c].at = "push"
  /\ holder' = None
  /\ LET r == call[c]
         Done == IF r.verb \in Acknowledged THEN 204 ELSE 200
     IN IF r.tree = FilesAt(r.base) /\ r.base > 0
          THEN Answered(c, Done, None) /\ UNCHANGED log
        ELSE IF restSite.refused = "push"
          THEN Answered(c, 400, None) /\ UNCHANGED log
        ELSE /\ log' = Append(log, [fs |-> r.tree, by |-> c, base |-> r.base])
             /\ call' = [call EXCEPT ![c].at = "answered", ![c].code = Done, ![c].upto = Len(log) + 1]
  /\ UNCHANGED <<restSite, life, store, script>>

-----------------------------------------------------------------------------
(* A script of the session mounts the latest snapshot when it starts and     *)
(* logs its own when it ends (module EngineRuns has the steps between).      *)
ScriptStarts ==
  /\ script.at = "idle"
  /\ script.done < MaxScripts
  /\ restSite.snapshots
  /\ script' = [script EXCEPT !.at = "running", !.base = Len(log)]
  /\ UNCHANGED <<restSite, life, holder, log, store, call>>

ScriptEnds ==
  /\ script.at = "running"
  /\ script' = [script EXCEPT !.at = "idle", !.done = @ + 1]
  /\ log' = Append(log, [fs |-> ("s" :> <<9>>) @@ FilesAt(script.base), by |-> "run", base |-> script.base])
  /\ UNCHANGED <<restSite, life, holder, store, call>>

(* shutdown waits for the native call in progress, cancels what runs and     *)
(* keeps the lock until the tool servers are closed.                         *)
ShutDown ==
  /\ life = "Running"
  /\ holder = None
  /\ holder' = "shutdown"
  /\ life' = "ShuttingDown"
  /\ store' = [store EXCEPT !.execs = [e \in DOMAIN @ |-> IF @[e] = "running" THEN "cancelled" ELSE @[e]]]
  /\ UNCHANGED <<restSite, log, call, script>>

ShutDownEnds ==
  /\ life = "ShuttingDown"
  /\ life' = "Shutdown"
  /\ holder' = None
  /\ UNCHANGED <<restSite, log, store, call, script>>

RestHandler(c) ==
  \/ ExecHandler(c) \/ SubmitExec(c) \/ GetExecution(c) \/ ListExecutions(c) \/ CancelExecution(c)
  \/ ListArtifacts(c) \/ PutArtifact(c) \/ GetArtifact(c) \/ StaticPages(c) \/ CliIndex(c) \/ CliDownload(c)
  \/ CapabilitiesHandler(c) \/ SessionSnapshots(c)
  \/ FsLabels(c) \/ FsSetLabel(c) \/ FsResolve(c) \/ FsLog(c) \/ FsPush(c) \/ MoveResolved(c) \/ FsReset(c) \/ FsMerge(c)
  \/ SessionView(c) \/ RunNative(c) \/ RunOnHost(c) \/ PullSnapshot(c) \/ RunOp(c) \/ AppendEntry(c)

RestNext == (\E c \in Clients : RestHandler(c)) \/ ScriptStarts \/ ScriptEnds \/ ShutDown \/ ShutDownEnds

-----------------------------------------------------------------------------
(* Native calls never lose each other's work: what one logs rests on the     *)
(* snapshot it mounted, and only scripts of the session can have logged      *)
(* since.  After shutdown nothing native is logged.                          *)
NativeChain ==
  \A n \in DOMAIN log : log[n].by # "run" =>
    /\ \A m \in log[n].base + 1 .. n - 1 : log[m].by = "run"
    /\ call[log[n].by].at = "answered"

(* A response about files is true of a tree the session, or the host, had    *)
(* between request and response: bytes, names and "not found" alike; a       *)
(* mutation that is acknowledged has its own entry in the log, or changed    *)
(* nothing.                                                                  *)
FilesTold ==
  \A c \in Clients :
    LET r == call[c]
        Seen == r.from .. r.upto
    IN r.at = "answered" /\ r.verb \in FileVerbs /\ r.flag # "host" =>
         /\ r.code = 404 => \E n \in Seen : r.name \notin DOMAIN FilesAt(n)
         /\ r.code = 200 /\ r.verb \in {"read", "range"} =>
              \E n \in Seen : r.name \in DOMAIN FilesAt(n) /\ FilesAt(n)[r.name] = r.body
         /\ r.code = 200 /\ r.verb = "dir" => \E n \in Seen : DOMAIN FilesAt(n) = r.body
         /\ r.code \in {200, 204} /\ r.verb \in Mutations =>
              \/ \E n \in Seen \ {r.from} : log[n].by = c /\ log[n].fs = Outcome(r, FilesAt(log[n].base)).tree
              \/ \E n \in Seen \ {0} : Outcome(r, FilesAt(n)).tree = FilesAt(n)
         /\ r.code = 403 => r.verb = restSite.denied

(* What was accepted stays known, and a cancellation that is confirmed is    *)
(* final.  A label moves from where the reflog says it was: a push that is   *)
(* confirmed moved it from the head its caller expected, and one that lost   *)
(* tells a head the label had.                                               *)
RestTold ==
  /\ \A c \in Clients : LET r == call[c] IN r.at = "answered" =>
       /\ r.verb = "exec" /\ r.code = 202 => c \in DOMAIN store.execs
       /\ r.verb = "cancel" /\ r.code = 200 => store.execs[r.name] = "cancelled"
       /\ r.verb = "push" /\ r.flag = "plain" /\ r.code = 200 =>
            \E e \in ToSet(store.reflog) : e.from = r.name /\ e.to = r.value
       /\ r.verb \in {"set_label", "reset"} /\ r.code = 200 => \E e \in ToSet(store.reflog) : e.to = r.value
       /\ r.code = 409 => r.body = None \/ \E e \in ToSet(store.reflog) : e.to = r.body
  /\ store.head = IF store.reflog = <<>> THEN None ELSE Last(store.reflog).to
  /\ \A i \in 2..Len(store.reflog) : store.reflog[i].from = store.reflog[i - 1].to
=============================================================================

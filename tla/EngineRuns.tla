------------------------------ MODULE EngineRuns ------------------------------
(***************************************************************************)
(* A run_js execution from submission to its last write: the registry, the *)
(* async driver with its timeout, the blocking V8 task, the publisher of   *)
(* the isolate handle, the session log, the heap and filesystem snapshot   *)
(* stores, native file writes to a session, shutdown and a restart.        *)
(*                                                                         *)
(* A snapshot is content addressed, so it is modelled by its content: the  *)
(* set of the runs and native writes whose effects it holds.               *)
(***************************************************************************)
EXTENDS Naturals, FiniteSets

CONSTANTS
    Runs,       \* execution ids
    Writers,    \* native file operations on a session (FsView)
    Effects,    \* the work a snapshot may hold: of runs, native writes, and older
    Scenarios,  \* the configuration, what the callers ask for, and the faults
    None        \* an absent value

\* A heap or a filesystem root that a caller or a log entry names.
Snapshot(x) == x = None \/ x \subseteq Effects

\* The configuration does not change, what callers ask for and what the log of an
\* earlier process holds are snapshots, and its ids are those generated so far.
Possible(w) ==
    /\ {"ask", "heap"} \subseteq DOMAIN w
    /\ w.heap \in BOOLEAN
    /\ \A r \in Runs : w.ask[r] # None => Snapshot(w.ask[r].fs)
    /\ IsFiniteSet(w.log)
    /\ \A e \in w.log : Snapshot(e.fs) /\ e.id \in 0..Cardinality(w.log)

ASSUME EngineAssumption ==
    /\ Runs \cup Writers \subseteq Effects
    /\ \A x \in SUBSET Effects : x # None
    /\ Runs \cap Writers = {}
    /\ None \notin Runs \cup Writers
    /\ "shutdown" \notin Runs \cup Writers \cup {None}
    /\ \A w \in Scenarios : Possible(w)

VARIABLES
    world,      \* the scenario, with the faults that may still strike
    lifecycle,  \* Engine::lifecycle
    lock,       \* the holder of Engine::shutdown_lock
    record,     \* ExecutionRegistry::executions
    run,        \* the driver, the blocking task and the publisher of a run
    native,     \* the stages of the native operations
    log,        \* the session log: entries keyed by session and id
    nextId,     \* MetadataStore::generate_id
    heaps,      \* names in the heap store
    roots       \* roots in the filesystem snapshot store

vars == <<world, lifecycle, lock, record, run, native, log, nextId, heaps, roots>>
stores == <<log, nextId, heaps, roots>>

\* The heap key of a run without a heap: the code treats "" and None alike.
NoHeap == {}

\* An id the registry does not hold, and one that it has just registered.
Unknown == [status |-> "unknown", handle |-> FALSE, stopped |-> FALSE,
            heap |-> NoHeap, fs |-> None]
Registered == [Unknown EXCEPT !.status = "running"]

NotStarted == [driver |-> "idle", task |-> "none", publisher |-> "none",
               killed |-> FALSE, timer |-> "set", outcome |-> None,
               heap |-> NoHeap, base |-> None, fs |-> None, id |-> 0]

Unopened == [stage |-> "idle", latest |-> None, fs |-> None, id |-> 0]

Ask(r) == world.ask[r]
Set(r, new) == run' = [run EXCEPT ![r] = new]
DriverTo(r, stage) == Set(r, [run[r] EXCEPT !.driver = stage])
\* One of the faults of the scenario strikes.
Fault == world.faults > 0 /\ world' = [world EXCEPT !.faults = @ - 1]
Sound == UNCHANGED world

Running == {r \in Runs : record[r].status = "running"}
\* The stages in which the driver holds a permit of the semaphore.
Admitted == {r \in Runs : run[r].driver \in
               {"awaiting", "late", "joined", "stored", "pushed", "numbered", "logged"}}
\* The blocking task that holds snapshot_mutex (heap mode runs one V8 at a time).
Isolates == {r \in Runs : run[r].task = "isolate"}

-----------------------------------------------------------------------------
(* The session log *)

Entries(s) == {e \in log : e.session = s}

\* get_latest: the entry with the highest id.
Latest(s) == IF Entries(s) = {} THEN None
             ELSE CHOOSE e \in Entries(s) : \A f \in Entries(s) : f.id <= e.id

\* append is two steps: generate_id, then put under that id.
GenerateId == nextId' = nextId + 1
Put(s, id, heap, fs, by) ==
    log' = log \cup {[session |-> s, id |-> id, heap |-> heap, fs |-> fs, by |-> by]}

\* Session fork at start-up: the target's first entry copies the source's latest.
Fork ==
    /\ world.fork # None
    /\ lock = None
    /\ world' = [world EXCEPT !.fork = None]
    /\ LET src == Latest(world.fork.from) IN
       IF Latest(world.fork.to) # None \/ src = None
       THEN UNCHANGED <<log, nextId>>
       ELSE GenerateId /\ Put(world.fork.to, nextId, src.heap, src.fs, "fork")
    /\ UNCHANGED <<lifecycle, lock, record, run, native, heaps, roots>>

-----------------------------------------------------------------------------
(* The registry *)

\* complete, fail and timed_out: only a running record is settled.
Settle(r, status, heap) ==
    IF record[r].status = "running"
    THEN [record[r] EXCEPT !.status = status, !.handle = FALSE, !.heap = heap]
    ELSE record[r]

Settled(r, status) == record' = [record EXCEPT ![r] = Settle(r, status, NoHeap)]

\* cancel: terminate the isolate if its handle was published.
Cancelled(S) ==
    /\ record' = [r \in Runs |->
         IF r \in S THEN [record[r] EXCEPT !.status = "cancelled", !.handle = FALSE]
                    ELSE record[r]]
    /\ run' = [r \in Runs |->
         IF r \in S /\ record[r].handle THEN [run[r] EXCEPT !.killed = TRUE] ELSE run[r]]

Cancel(r) ==
    /\ r \in Running
    /\ world.cancels > 0
    /\ world' = [world EXCEPT !.cancels = @ - 1]
    /\ Cancelled({r})
    /\ UNCHANGED <<lifecycle, lock, native, stores>>

-----------------------------------------------------------------------------
(* Submission, under the lifecycle lock until the driver is spawned *)

Submit(r) ==
    /\ Ask(r) # None
    /\ world.fork = None
    /\ run[r].driver = "idle"
    /\ lock = None
    /\ lifecycle = "running"
    /\ lock' = r
    /\ record' = [record EXCEPT ![r] = Registered]
    /\ DriverTo(r, "registered")
    /\ UNCHANGED <<world, lifecycle, native, stores>>

\* The session's latest output heap, unless a heap was asked for.
ResolveHeap(r) ==
    /\ run[r].driver = "registered"
    /\ LET latest == Latest(Ask(r).session) IN
       \/ Sound /\ Set(r, [run[r] EXCEPT !.driver = "resolved", !.heap =
            IF Ask(r).heap # NoHeap THEN Ask(r).heap
            ELSE IF latest = None THEN NoHeap ELSE latest.heap])
       \/ Ask(r).heap = NoHeap /\ Fault /\ DriverTo(r, "resolved")
    /\ UNCHANGED <<lifecycle, lock, record, native, stores>>

\* A second read of the log for the filesystem. A session without a snapshot
\* falls back to its own name, an unknown label: an empty overlay.
ResolveFs(r) ==
    /\ run[r].driver = "resolved"
    /\ LET latest == Latest(Ask(r).session)
           empty  == IF world.fs /\ Ask(r).session # None THEN {} ELSE None
       IN \/ Sound /\ Set(r, [run[r] EXCEPT !.driver = "inputs", !.base =
               IF Ask(r).fs # None THEN Ask(r).fs
               ELSE IF empty # None /\ latest # None /\ latest.fs # None THEN latest.fs
               ELSE empty])
          \/ Ask(r).fs = None /\ Fault
             /\ Set(r, [run[r] EXCEPT !.driver = "inputs", !.base = empty])
    /\ UNCHANGED <<lifecycle, lock, record, native, stores>>

\* Heap mode loads the snapshot: a missing one is a fresh heap, a damaged one
\* fails the submission and leaves the registered record as it is.
Load(r) ==
    /\ run[r].driver = "inputs"
    /\ lock' = None
    /\ \/ Sound /\ DriverTo(r, "spawned")
       \/ world.heap /\ run[r].heap \in heaps /\ Fault /\ DriverTo(r, "refused")
    /\ UNCHANGED <<lifecycle, record, native, stores>>

-----------------------------------------------------------------------------
(* The driver up to the start of the blocking task *)

\* build_fs_mount: the root must be in the store; pull or warm may fail.
Mount(r) ==
    /\ run[r].driver = "spawned"
    /\ \/ /\ run[r].base \in roots \cup {None, {}}
          /\ Sound
          /\ DriverTo(r, "mounted")
          /\ UNCHANGED record
       \/ /\ (run[r].base \notin roots \cup {None, {}} /\ Sound) \/ Fault
          /\ DriverTo(r, "done")
          /\ Settled(r, "failed")
    /\ UNCHANGED <<lifecycle, lock, native, stores>>

\* A permit of v8_semaphore; the blocking task, the publisher and the timer start.
Admit(r) ==
    /\ run[r].driver = "mounted"
    /\ Cardinality(Admitted) < world.permits
    /\ Set(r, [run[r] EXCEPT !.driver = "awaiting", !.task = "queued",
                            !.publisher = "polling"])
    /\ UNCHANGED <<world, lifecycle, lock, record, native, stores>>

-----------------------------------------------------------------------------
(* The blocking task *)

\* The isolate exists, and can be terminated, once snapshot_mutex is acquired.
StartIsolate(r) ==
    /\ run[r].task = "queued"
    /\ world.heap => Isolates = {}
    /\ Set(r, [run[r] EXCEPT !.task = "isolate"])
    /\ UNCHANGED <<world, lifecycle, lock, record, native, stores>>

\* The script returns, throws, or is terminated; "never" is a loop without end,
\* "parked" awaits an op that may or may not complete: termination stops
\* JavaScript and does not wake the isolate's event loop.
\* A termination can arrive when the script has already returned.
ScriptEnds(r) ==
    /\ run[r].task = "isolate"
    /\ \E out \in {"ok", "error"} :
         /\ out = Ask(r).ends \/ Ask(r).ends = "parked" \/ (out = "error" /\ run[r].killed)
         /\ Set(r, [run[r] EXCEPT !.task = "ended", !.outcome = out])
    /\ UNCHANGED <<world, lifecycle, lock, record, native, stores>>

-----------------------------------------------------------------------------
(* The publisher polls for the isolate's handle and files it for cancel *)

Grab(r) ==
    /\ run[r].publisher = "polling"
    /\ run[r].task = "isolate"
    /\ Set(r, [run[r] EXCEPT !.publisher = "grabbed"])
    /\ UNCHANGED <<world, lifecycle, lock, record, native, stores>>

\* Mutant: only a cancelled record is looked at.
FaultyPublished(r) ==
    IF record[r].status = "cancelled" THEN record[r]
    ELSE [record[r] EXCEPT !.handle = TRUE]

\* set_isolate_handle.
Published(r) ==
    IF record[r].status = "cancelled" \/ record[r].stopped THEN record[r]
    ELSE [record[r] EXCEPT !.handle = TRUE]

\* Mutant: a cancel that came before the handle is forgotten.
FaultyPublish(r) ==
    /\ run[r].publisher = "grabbed"
    /\ record' = [record EXCEPT ![r] = Published(r)]
    /\ Set(r, [run[r] EXCEPT !.publisher = "filed"])
    /\ UNCHANGED <<world, lifecycle, lock, native, stores>>

Publish(r) ==
    /\ run[r].publisher = "grabbed"
    /\ record' = [record EXCEPT ![r] = Published(r)]
    /\ Set(r, [run[r] EXCEPT !.publisher = "filed",
               !.killed = run[r].killed \/ record[r].status = "cancelled"])
    /\ UNCHANGED <<world, lifecycle, lock, native, stores>>

\* The polling loop outlasts the timeout by a second, but never lasts longer than
\* 300 seconds; then it gives up.
PublisherGivesUp(r) ==
    /\ run[r].publisher = "polling"
    /\ record[r].stopped \/ run[r].timer # "set" \/ Ask(r).timeout = "long"
    /\ Set(r, [run[r] EXCEPT !.publisher = "gave_up"])
    /\ UNCHANGED <<world, lifecycle, lock, record, native, stores>>

-----------------------------------------------------------------------------
(* The driver from the timeout to the last write *)

\* Mutant: the timer gives up on the task without terminating it.
FaultyTimeout(r) ==
    /\ run[r].driver = "awaiting"
    /\ run[r].task = "isolate"
    /\ Set(r, [run[r] EXCEPT !.driver = "late", !.timer = "fired"])
    /\ UNCHANGED <<world, lifecycle, lock, record, native, stores>>

\* The timer fires before the task has ended: terminate the isolate if there is
\* one (else the timer is "missed"), and wait for the task all the same. In a
\* second an isolate is created, unless the task waits for snapshot_mutex; a
\* timeout of zero seconds is accepted, and may fire at once.
Timeout(r) ==
    /\ run[r].driver = "awaiting"
    /\ \/ run[r].task = "isolate"
       \/ run[r].task = "queued" /\ (Ask(r).timeout = "zero" \/ (world.heap /\ Isolates # {}))
    /\ Set(r, [run[r] EXCEPT !.driver = "late",
               !.timer = IF run[r].task = "isolate" THEN "fired" ELSE "missed",
               !.killed = run[r].killed \/ run[r].task = "isolate"])
    /\ UNCHANGED <<world, lifecycle, lock, record, native, stores>>

Join(r) ==
    /\ run[r].driver \in {"awaiting", "late"}
    /\ run[r].task = "ended"
    /\ IF run[r].driver = "awaiting" /\ run[r].outcome = "ok"
       THEN DriverTo(r, "joined") /\ UNCHANGED record
       ELSE /\ DriverTo(r, "done")
            /\ Settled(r, IF run[r].driver = "late" THEN "timed_out" ELSE "failed")
    /\ UNCHANGED <<world, lifecycle, lock, native, stores>>

\* The heap a script leaves behind holds what it was restored from and its own work.
Restored(r) == IF world.heap /\ run[r].heap \in heaps THEN run[r].heap ELSE NoHeap
OutputHeap(r) == IF world.heap THEN Restored(r) \cup {r} ELSE NoHeap

\* Mutant: the status is settled before the outputs are written.
FaultyStoreHeap(r) ==
    /\ run[r].driver = "joined"
    /\ Sound /\ heaps' = heaps \cup ({OutputHeap(r)} \ {NoHeap})
    /\ record' = [record EXCEPT ![r] = Settle(r, "completed", OutputHeap(r))]
    /\ Set(r, [run[r] EXCEPT !.driver = "stored", !.heap = OutputHeap(r)])
    /\ UNCHANGED <<lifecycle, lock, native, log, nextId, roots>>

StoreHeap(r) ==
    /\ run[r].driver = "joined"
    /\ \/ Sound /\ heaps' = heaps \cup ({OutputHeap(r)} \ {NoHeap})
          /\ Set(r, [run[r] EXCEPT !.driver = "stored", !.heap = OutputHeap(r)])
          /\ UNCHANGED record
       \/ world.heap /\ Fault /\ DriverTo(r, "done") /\ Settled(r, "failed")
          /\ UNCHANGED heaps
    /\ UNCHANGED <<lifecycle, lock, native, log, nextId, roots>>

\* Mutant: a flush failure is logged and the run goes on.
FaultyPushMount(r) ==
    /\ run[r].driver = "stored"
    /\ LET out == IF run[r].base = None THEN None ELSE run[r].base \cup {r} IN
       /\ \/ Sound /\ roots' = roots \cup ({out} \ {None})
          \/ out # None /\ Fault /\ UNCHANGED roots
       /\ record' = [record EXCEPT ![r].fs = out]
       /\ Set(r, [run[r] EXCEPT !.driver = "pushed", !.fs = out])
    /\ UNCHANGED <<lifecycle, lock, native, log, nextId, heaps>>

\* push_mount, then set_fs whatever the record's status.
PushMount(r) ==
    /\ run[r].driver = "stored"
    /\ LET out == IF run[r].base = None THEN None ELSE run[r].base \cup {r} IN
       \/ /\ Sound
          /\ roots' = roots \cup ({out} \ {None})
          /\ record' = [record EXCEPT ![r].fs = out]
          /\ Set(r, [run[r] EXCEPT !.driver = "pushed", !.fs = out])
       \/ /\ out # None /\ Fault
          /\ DriverTo(r, "done") /\ Settled(r, "failed") /\ UNCHANGED roots
    /\ UNCHANGED <<lifecycle, lock, native, log, nextId, heaps>>

\* The session log is best effort: an append that fails, at the id or at the put,
\* is only warned about.
NumberEntry(r) ==
    /\ run[r].driver = "pushed"
    /\ \/ Ask(r).session = None /\ Sound /\ DriverTo(r, "logged")
          /\ UNCHANGED nextId
       \/ Ask(r).session # None /\ Fault /\ DriverTo(r, "logged")
          /\ UNCHANGED nextId
       \/ Ask(r).session # None /\ Sound /\ GenerateId
          /\ Set(r, [run[r] EXCEPT !.driver = "numbered", !.id = nextId])
    /\ UNCHANGED <<lifecycle, lock, record, native, log, heaps, roots>>

PutEntry(r) ==
    /\ run[r].driver = "numbered"
    /\ Put(Ask(r).session, run[r].id, run[r].heap, run[r].fs, r)
    /\ DriverTo(r, "logged")
    /\ UNCHANGED <<world, lifecycle, lock, record, native, nextId, heaps, roots>>

Complete(r) ==
    /\ run[r].driver = "logged"
    /\ record' = [record EXCEPT ![r] = Settle(r, "completed", run[r].heap)]
    /\ DriverTo(r, "done")
    /\ UNCHANGED <<world, lifecycle, lock, native, stores>>

\* The last holder of ExecutionActivity is dropped: fail, then mark_stopped.
Stop(r) ==
    /\ run[r].driver = "done"
    /\ run[r].task \in {"none", "ended"}
    /\ ~record[r].stopped
    /\ record' = [record EXCEPT ![r] =
         [Settle(r, "failed", NoHeap) EXCEPT !.stopped = TRUE, !.handle = FALSE]]
    /\ UNCHANGED <<world, lifecycle, lock, run, native, stores>>

-----------------------------------------------------------------------------
(* A native operation on a session's files (session_fs_run): it holds the *)
(* lifecycle lock from the read of the log to the append. *)

Change(w, new) == native' = [native EXCEPT ![w] = new]
StageTo(w, stage) == Change(w, [native[w] EXCEPT !.stage = stage])
Target(w) == world.writes[w]
Base(w) == IF native[w].latest = None THEN None ELSE native[w].latest.fs

NativeOpen(w) ==
    /\ Target(w) # None
    /\ world.fork = None
    /\ native[w].stage = "idle"
    /\ lock = None
    /\ lifecycle = "running"
    /\ lock' = w
    /\ Change(w, [native[w] EXCEPT !.stage = "opened", !.latest = Latest(Target(w))])
    /\ UNCHANGED <<world, lifecycle, record, run, stores>>

\* The operation and the push of its overlay: one that changed nothing needs no
\* entry; one that failed changes nothing.
NativePush(w) ==
    /\ native[w].stage = "opened"
    /\ LET old == IF Base(w) = None THEN {} ELSE Base(w) IN
       \/ \E out \in {old, old \cup {w}} :
            /\ Sound
            /\ roots' = roots \cup {out}
            /\ IF out = Base(w)
               THEN lock' = None /\ StageTo(w, "done")
               ELSE /\ UNCHANGED lock
                    /\ Change(w, [native[w] EXCEPT !.stage = "pushed", !.fs = out])
       \/ Fault /\ lock' = None /\ StageTo(w, "done") /\ UNCHANGED roots
    /\ UNCHANGED <<lifecycle, record, run, log, nextId, heaps>>

NativeNumber(w) ==
    /\ native[w].stage = "pushed"
    /\ GenerateId
    /\ Change(w, [native[w] EXCEPT !.stage = "numbered", !.id = nextId])
    /\ UNCHANGED <<world, lifecycle, lock, record, run, log, heaps, roots>>

\* The entry carries the heap of the entry it was opened on.
NativeAppend(w) ==
    /\ native[w].stage = "numbered"
    /\ LET heap == IF native[w].latest = None THEN NoHeap ELSE native[w].latest.heap
       IN Put(Target(w), native[w].id, heap, native[w].fs, w)
    /\ lock' = None
    /\ StageTo(w, "done")
    /\ UNCHANGED <<world, lifecycle, record, run, nextId, heaps, roots>>

-----------------------------------------------------------------------------
(* Shutdown and restart *)

\* cancel_all under the lifecycle lock.
BeginShutdown ==
    /\ world.shutdown
    /\ lock = None
    /\ lifecycle = "running"
    /\ lock' = "shutdown"
    /\ lifecycle' = "shutting_down"
    /\ Cancelled(Running)
    /\ UNCHANGED <<world, native, stores>>

EndShutdown ==
    /\ lifecycle = "shutting_down"
    /\ lifecycle' = "shutdown"
    /\ lock' = None
    /\ UNCHANGED <<world, record, run, native, stores>>

\* The process dies and is started again: only the stores survive.
Restart ==
    /\ world.crashes > 0
    /\ world' = [world EXCEPT !.crashes = @ - 1]
    /\ lifecycle' = "running"
    /\ lock' = None
    /\ record' = [r \in Runs |-> Unknown]
    /\ run' = [r \in Runs |-> IF run[r].driver = "idle" THEN run[r]
                              ELSE [NotStarted EXCEPT !.driver = "gone"]]
    /\ native' = [w \in Writers |-> IF native[w].stage = "idle" THEN native[w]
                                    ELSE [Unopened EXCEPT !.stage = "gone"]]
    /\ UNCHANGED stores

-----------------------------------------------------------------------------

Init ==
    /\ world \in Scenarios
    /\ lifecycle = "running"
    /\ lock = None
    /\ record = [r \in Runs |-> Unknown]
    /\ run = [r \in Runs |-> NotStarted]
    /\ native = [w \in Writers |-> Unopened]
    /\ log = world.log
    /\ nextId = 1 + Cardinality(world.log)
    /\ heaps = {e.heap : e \in world.log} \ {NoHeap}
    /\ roots = {e.fs : e \in world.log} \ {None}

Submission(r) == ResolveHeap(r) \/ ResolveFs(r) \/ Load(r)
Task(r) == StartIsolate(r) \/ ScriptEnds(r)
Publisher(r) == Grab(r) \/ Publish(r) \/ PublisherGivesUp(r)
Driver(r) ==
    \/ Mount(r) \/ Admit(r) \/ Timeout(r) \/ Join(r) \/ StoreHeap(r) \/ PushMount(r)
    \/ NumberEntry(r) \/ PutEntry(r) \/ Complete(r) \/ Stop(r)
NativeStep(w) == NativePush(w) \/ NativeNumber(w) \/ NativeAppend(w)

Next ==
    \/ Fork \/ BeginShutdown \/ EndShutdown \/ Restart
    \/ \E r \in Runs :
         Submit(r) \/ Cancel(r) \/ Submission(r) \/ Task(r) \/ Publisher(r) \/ Driver(r)
    \/ \E w \in Writers : NativeOpen(w) \/ NativeStep(w)

Spec == Init /\ [][Next]_vars

(* The scheduling the liveness property assumes: tokio polls every task that is  *)
(* ready, its semaphore and mutex are first come, first served, the timer fires, *)
(* and a script that ends, or is terminated, does end, unless it is parked.      *)
Fairness ==
    /\ WF_vars(EndShutdown)
    /\ \A w \in Writers : WF_vars(NativeStep(w))
    /\ \A r \in Runs :
         /\ WF_vars(Submission(r)) /\ WF_vars(Driver(r)) /\ SF_vars(Admit(r))
         /\ SF_vars(StartIsolate(r)) /\ WF_vars(Publisher(r))
         /\ WF_vars(ScriptEnds(r) /\ Ask(r).ends # "parked")

FairSpec == Spec /\ Fairness

-----------------------------------------------------------------------------
(* Properties *)

(* Every entry of the session log names snapshots that are in their stores: the *)
(* heap and the filesystem are stored before the entry that points to them, so  *)
(* neither a fault nor a crash leaves a session that cannot be resumed.         *)
LogResolves ==
    \A e \in log : e.heap \in heaps \cup {NoHeap} /\ e.fs \in roots \cup {None}

(* A client that stops polling at "completed" has missed nothing: the heap and *)
(* the filesystem of the record are stored, they are what the run produced,    *)
(* and the session's entry is in the log unless its append was lost.           *)
CompletedIsRecorded ==
    \A r \in Runs : record[r].status = "completed" =>
        /\ record[r].heap \in heaps \cup {NoHeap} /\ (world.heap <=> r \in record[r].heap)
        /\ record[r].fs \in roots \cup {None} /\ (run[r].base # None <=> record[r].fs # None)
        /\ run[r].id # 0 => \E e \in log : e.by = r /\ e.fs = record[r].fs /\ e.heap = record[r].heap

(* What waits for "stopped" (a scheduled worker, run_js with wait) may rely on *)
(* it: the isolate is gone, the driver has made its last write, the status is  *)
(* terminal and no handle of the dead isolate is kept, however late the        *)
(* publisher files it.                                                         *)
StoppedIsFinal ==
    \A r \in Runs : record[r].stopped =>
        /\ run[r].driver = "done" /\ run[r].task \in {"none", "ended"}
        /\ record[r].status # "running" /\ ~record[r].handle

(* Once shutdown has returned, every run that it found is settled and every    *)
(* isolate is reached: terminated, or about to be by its publisher, however    *)
(* the isolate's creation and the publication of its handle interleave with    *)
(* the cancel (cancel_all, set_isolate_handle). The exception is an isolate    *)
(* whose publisher gave up first: it ran into its own limit of 300 seconds, or *)
(* the timeout fired before there was an isolate. Submissions and native       *)
(* writes hold the lifecycle lock that shutdown takes, so none is half done.   *)
(* It is not said that nothing runs: a cancelled run that waits for a permit   *)
(* or for V8 still starts, and one whose script has returned is still logged.  *)
ShutdownReachesRuns ==
    lifecycle = "shutdown" =>
        /\ Running = {}
        /\ \A r \in Runs : run[r].driver \notin {"registered", "resolved", "inputs"}
        /\ \A w \in Writers : native[w].stage \notin {"opened", "pushed", "numbered"}
        /\ \A r \in Isolates :
             \/ run[r].killed \/ run[r].publisher \in {"polling", "grabbed"}
             \/ run[r].publisher = "gave_up" /\ (run[r].timer = "missed" \/ Ask(r).timeout = "long")

\* An isolate that awaits an op, and one whose timeout fired before it existed.
Parked(r) == run[r].task = "isolate" /\ Ask(r).ends = "parked"
Unattended(r) ==
    run[r].task = "isolate" /\ Ask(r).ends = "never" /\ run[r].timer = "missed" /\ ~run[r].killed

\* A run of Blocked, or one that waits for a permit or the V8 mutex behind one.
Held(r, Blocked) ==
    \/ r \in Blocked
    \/ /\ Blocked # {}
       /\ \/ run[r].driver = "mounted" /\ Cardinality(Admitted) = world.permits
          \/ world.heap /\ run[r].task = "queued"

AtRest(r) == run[r].driver = "gone" \/ record[r].stopped

(* Every run that was accepted comes to rest, its permit and the V8 mutex      *)
(* released: its script ends or is terminated by the timeout or a cancel. Two  *)
(* kinds of isolates are not bounded by the timeout and hold up those behind   *)
(* them for as long as they last: one that awaits an op that does not          *)
(* complete, and an endless script whose timeout fired before its isolate      *)
(* existed (mod.rs, the select! of the driver).                                *)
RunsSettle ==
    \A r \in Runs :
        \/ <>[]Held(r, {q \in Runs : Parked(q) \/ Unattended(q)})
        \/ run[r].driver = "spawned" ~> AtRest(r)

(* The timeout bounds every script that runs JavaScript: only an isolate that  *)
(* awaits an op may outlive it.                                                *)
RunsBounded ==
    \A r \in Runs :
        \/ <>[]Held(r, {q \in Runs : Parked(q)})
        \/ run[r].driver = "spawned" ~> AtRest(r)

=============================================================================

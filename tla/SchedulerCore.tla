---------------------------- MODULE SchedulerCore ----------------------------
(***************************************************************************)
(* A scheduler core over its local sled store, and the runner that drives  *)
(* it: scheduler-core/src/core.rs and scheduler-core/src/runner.rs.        *)
(*                                                                         *)
(* The core is behind one mutex, so an operation is one step; observe is a *)
(* loop, and its steps exclude every other operation until it commits.     *)
(* Any commit may fail before or after its bytes are durable, which        *)
(* poisons the instance; the process may crash at any step and be          *)
(* reopened.  The executor and what it runs are the environment: an        *)
(* execution outlives the runner that started it.                          *)
(***************************************************************************)
EXTENDS SchedulerState

CONSTANTS MaxFaults  \* bound on crashes, storage failures, stops, clock steps

ASSUME FaultsAssumption == MaxFaults \in Nat

VARIABLES
    disk,      \* the State under the key "state"
    mem,       \* Core::state
    up,        \* a Core is open
    poisoned,  \* Core::poisoned
    clock,     \* Utc::now()
    runner,    \* run_until: "off", "start", "claim", "select"
    stopping,  \* run_until: the stop future has completed
    tasks,     \* run_until: invocations in the JoinSet
    obs,       \* observe: its local variables while it runs
    live,      \* environment: invocations executing somewhere
    handed,    \* history: every invocation claim returned
    faults     \* environment: faults so far

coreVars == <<disk, mem, up, poisoned>>
runnerVars == <<runner, stopping, tasks, obs>>
envVars == <<clock, live, handed, faults>>
vars == <<coreVars, runnerVars, envVars>>

NotObserving == [on |-> FALSE, now |-> 0, st |-> EmptyState, todo |-> {}, cur |-> 1, dues |-> {}]

Init ==
    /\ disk = EmptyState
    /\ mem = EmptyState
    /\ up = TRUE
    /\ poisoned = FALSE
    /\ clock = 0
    /\ runner = "off"
    /\ stopping = FALSE
    /\ tasks = {}
    /\ obs = NotObserving
    /\ live = {}
    /\ handed = {}
    /\ faults = 0
-----------------------------------------------------------------------------
(* The mutex is free and operations are accepted. *)
Ready == up /\ ~poisoned /\ ~obs.on

Fault ==
    /\ faults < MaxFaults
    /\ faults' = faults + 1

(* Core::commit.  The compare-and-swap and the flush both succeed. *)
Stored(st) ==
    /\ mem' = st
    /\ disk' = st
    /\ UNCHANGED <<up, poisoned>>

(* The write or the flush fails: the caller sees an error, memory keeps    *)
(* the old state, and the new one may or may not have become durable.      *)
Torn(st) ==
    /\ poisoned' = TRUE
    /\ disk' \in {disk, st}
    /\ UNCHANGED <<mem, up>>

Commit(st) ==
    \/ Stored(st) /\ UNCHANGED faults
    \/ Torn(st) /\ Fault

(* Operations of management clients. *)
Manage(st) ==
    /\ Commit(st)
    /\ UNCHANGED <<runnerVars, clock, live, handed>>

Create(d) ==
    /\ Ready
    /\ CanCreate(mem, d, clock)
    /\ Manage(CreateSchedule(mem, d, clock))

Disable(s) ==
    /\ Ready
    /\ s \in DOMAIN mem.sched
    /\ Manage(StopSchedule(mem, s, FALSE))

Delete(s) ==
    /\ Ready
    /\ s \in DOMAIN mem.sched
    /\ Manage(StopSchedule(mem, s, TRUE))

Cancel(i) ==
    /\ Ready
    /\ CanRequestCancel(mem, i)
    /\ Manage(RequestCancel(mem, i))

(* The caller attests that the execution has stopped. *)
Acknowledge(i) ==
    /\ Ready
    /\ CanAcknowledge(mem, i)
    /\ \A inv \in live : inv.occ # i
    /\ Manage(AcknowledgeStopped(mem, i))
-----------------------------------------------------------------------------
(* run_until.  Its exit drops the JoinSet and then the lease, whose Drop   *)
(* interrupts the receipts still Running.                                  *)

RunnerGone ==
    /\ runner' = "off"
    /\ stopping' = FALSE
    /\ tasks' = {}
    /\ obs' = NotObserving

RunnerStart ==
    /\ up
    /\ runner = "off"
    /\ runner' = "start"
    /\ UNCHANGED <<coreVars, stopping, tasks, obs, envVars>>

(* The stop future completes; it is polled in every state of the loop. *)
RunnerStop ==
    /\ runner # "off"
    /\ ~stopping
    /\ ~obs.on
    /\ Fault
    /\ stopping' = TRUE
    /\ UNCHANGED <<coreVars, runner, tasks, obs, clock, live, handed>>

(* Stopped before the first observation, or drained: the lease is dropped. *)
RunnerExit ==
    /\ Ready
    /\ runner # "off"
    /\ stopping
    /\ tasks = {}
    /\ RunnerGone
    /\ Commit(InterruptRunning(mem))
    /\ UNCHANGED <<clock, live, handed>>

(* The future is dropped at an await point: executions go on without it.   *)
RunnerAbort ==
    /\ Ready
    /\ runner \in {"start", "select"}
    /\ Fault
    /\ RunnerGone
    /\ Stored(InterruptRunning(mem)) \/ Torn(InterruptRunning(mem))
    /\ UNCHANGED <<clock, live, handed>>

(* An operation of a poisoned core fails, so the loop returns its error;   *)
(* interrupt_running fails as well.                                        *)
RunnerFails ==
    /\ up /\ poisoned
    /\ runner # "off"
    /\ RunnerGone
    /\ UNCHANGED <<coreVars, envVars>>
-----------------------------------------------------------------------------
(* observe, from the start of the runner or from a pulse. *)

ObserveStale ==
    /\ Ready
    /\ runner \in {"start", "select"} /\ ~stopping
    /\ clock <= mem.watermark
    /\ runner' = "claim"
    /\ UNCHANGED <<coreVars, stopping, tasks, obs, envVars>>

ObserveBegin ==
    /\ Ready
    /\ runner \in {"start", "select"} /\ ~stopping
    /\ clock > mem.watermark
    /\ obs' = [on   |-> TRUE,
               now  |-> clock,
               st   |-> mem,
               todo |-> DueSchedules(mem, clock),
               cur  |-> 1,
               dues |-> {}]
    /\ UNCHANGED <<coreVars, runner, stopping, tasks, envVars>>

(* The next schedule in identity order. *)
ObserveSchedule(s) ==
    /\ obs.on
    /\ obs.dues = {}
    /\ s \in obs.todo
    /\ \A t \in obs.todo : s <= t
    /\ obs' = [obs EXCEPT
                 !.st   = AdvanceCursor(obs.st, s, obs.now),
                 !.todo = @ \ {s},
                 !.cur  = s,
                 !.dues = Admissible(obs.st.sched[s], obs.now)]
    /\ UNCHANGED <<coreVars, runner, stopping, tasks, envVars>>

(* The next selected slot of that schedule. *)
ObserveSlot(due) ==
    /\ obs.on
    /\ due \in obs.dues
    /\ \A u \in obs.dues : due <= u
    /\ ~IdExhausted(obs.st, obs.cur)
    /\ obs' = [obs EXCEPT
                 !.st   = AdmitSlot(obs.st, obs.cur, due, obs.now),
                 !.dues = @ \ {due}]
    /\ UNCHANGED <<coreVars, runner, stopping, tasks, envVars>>

(* Identities ran out: observe returns an error, nothing is committed, and *)
(* the runner exits.                                                       *)
ObserveExhausted ==
    /\ obs.on
    /\ obs.dues # {}
    /\ IdExhausted(obs.st, obs.cur)
    /\ RunnerGone
    /\ Commit(InterruptRunning(mem))
    /\ UNCHANGED <<clock, live, handed>>

ObserveCommit ==
    /\ obs.on
    /\ obs.todo = {}
    /\ obs.dues = {}
    /\ Commit([obs.st EXCEPT !.watermark = obs.now])
    /\ obs' = NotObserving
    /\ runner' = "claim"
    /\ UNCHANGED <<stopping, tasks, clock, live, handed>>
-----------------------------------------------------------------------------
(* The claim loop, and the completion of a task. *)

Claim(i) ==
    /\ Ready
    /\ runner = "claim" /\ ~stopping
    /\ IsCandidate(mem, i, clock)
    /\ \/ /\ Stored(ClaimOccurrence(mem, i))
          /\ tasks' = tasks \cup {Invocation(mem, i)}
          /\ live' = live \cup {Invocation(mem, i)}
          /\ handed' = handed \cup {Invocation(mem, i)}
          /\ UNCHANGED faults
       \/ /\ Torn(ClaimOccurrence(mem, i))
          /\ Fault
          /\ UNCHANGED <<tasks, live, handed>>
    /\ UNCHANGED <<runner, stopping, obs, clock>>

ClaimNone ==
    /\ Ready
    /\ runner = "claim"
    /\ stopping \/ Claimable(mem, clock) = {}
    /\ runner' = "select"
    /\ UNCHANGED <<coreVars, stopping, tasks, obs, envVars>>

(* A task completes.  Every outcome but Unknown means the execution has    *)
(* stopped (trait Executor); a panic is Unknown.                           *)
Finish(inv, outcome) ==
    /\ Ready
    /\ runner = "select"
    /\ inv \in tasks
    /\ outcome # "Unknown" => inv \notin live
    /\ CanFinish(mem, inv)
    /\ Commit(FinishInvocation(mem, inv, outcome, clock))
    /\ tasks' = tasks \ {inv}
    /\ runner' = "claim"
    /\ UNCHANGED <<stopping, obs, clock, live, handed>>

(* finish refuses the completion: run_until returns the error. *)
FinishStale(inv) ==
    /\ Ready
    /\ runner = "select"
    /\ inv \in tasks
    /\ ~CanFinish(mem, inv)
    /\ RunnerGone
    /\ Commit(InterruptRunning(mem))
    /\ UNCHANGED <<clock, live, handed>>
-----------------------------------------------------------------------------
(* The environment. *)

ExecutionStops(inv) ==
    /\ inv \in live
    /\ live' = live \ {inv}
    /\ UNCHANGED <<coreVars, runnerVars, clock, handed, faults>>

Tick ==
    /\ clock < MaxTime
    /\ clock' = clock + 1
    /\ UNCHANGED <<coreVars, runnerVars, live, handed, faults>>

(* The wall clock is set back. *)
ClockStepsBack ==
    /\ Fault
    /\ clock' \in 0..(clock - 1)
    /\ UNCHANGED <<coreVars, runnerVars, live, handed>>

(* The instance is gone; what it held in memory is what Reopen will read. *)
Down ==
    /\ up
    /\ up' = FALSE
    /\ poisoned' = FALSE
    /\ mem' = disk
    /\ RunnerGone
    /\ UNCHANGED <<disk, clock, live, handed>>

Crash == Down /\ Fault

(* A poisoned instance is given up, its runner included, to be reopened. *)
Close ==
    /\ poisoned
    /\ Down
    /\ UNCHANGED faults

(* Core::from_config; its own commit can fail, and then nothing is open.   *)
Reopen ==
    /\ ~up
    /\ \/ /\ mem' = InterruptRunning(disk)
          /\ disk' = InterruptRunning(disk)
          /\ up' = TRUE
          /\ UNCHANGED faults
       \/ /\ Fault
          /\ disk' \in {disk, InterruptRunning(disk)}
          /\ mem' = disk'
          /\ UNCHANGED up
    /\ UNCHANGED <<poisoned, runnerVars, clock, live, handed>>
-----------------------------------------------------------------------------
Management ==
    \/ \E d \in Definitions : Create(d)
    \/ \E s \in Id : Disable(s)
    \/ \E s \in Id : Delete(s)
    \/ \E i \in Id : Cancel(i)
    \/ \E i \in Id : Acknowledge(i)

Completion ==
    \/ \E inv \in tasks, outcome \in Outcomes : Finish(inv, outcome)
    \/ \E inv \in tasks : FinishStale(inv)

Runner ==
    \/ RunnerStart
    \/ RunnerExit
    \/ RunnerFails
    \/ ObserveStale
    \/ ObserveBegin
    \/ \E s \in Id : ObserveSchedule(s)
    \/ \E due \in obs.dues : ObserveSlot(due)
    \/ ObserveExhausted
    \/ ObserveCommit
    \/ \E i \in Id : Claim(i)
    \/ ClaimNone
    \/ Completion

Environment ==
    \/ RunnerStop
    \/ RunnerAbort
    \/ \E inv \in live : ExecutionStops(inv)
    \/ Tick
    \/ ClockStepsBack
    \/ Crash
    \/ Close
    \/ Reopen

Next == Management \/ Runner \/ Environment

Spec == Init /\ [][Next]_vars

(* What the deployment provides: a process that is restarted and runs its  *)
(* runner, a clock that advances, and executions that end (every one has a *)
(* timeout).  select! is biased: a completed task goes before a pulse.     *)
Fairness ==
    /\ WF_vars(Runner)
    /\ SF_vars(Completion)
    /\ WF_vars(\E inv \in live : ExecutionStops(inv))
    /\ WF_vars(Tick)
    /\ WF_vars(Close)
    /\ WF_vars(Reopen)

FairSpec == Spec /\ Fairness
-----------------------------------------------------------------------------
(* Every state the core holds: durable, in memory, and being staged. *)
States == {disk, mem, obs.st}

TypeOK ==
    /\ \A st \in States : IsState(st)
    /\ up \in BOOLEAN
    /\ poisoned \in BOOLEAN
    /\ clock \in Time
    /\ runner \in {"off", "start", "claim", "select"}
    /\ stopping \in BOOLEAN
    /\ tasks \subseteq InvocationType
    /\ obs.on \in BOOLEAN
    /\ obs.now \in Time
    /\ obs.todo \subseteq Id
    /\ obs.cur \in Id
    /\ obs.dues \subseteq Nat
    /\ live \subseteq InvocationType
    /\ handed \subseteq InvocationType
    /\ faults \in 0..MaxFaults

(* The limits hold of every state the core holds, durable or staged, after *)
(* every operation and every crash (check_state on each commit).           *)
Capacity == \A st \in States : Within(st)

(* Executions of one schedule never overlap unless its policy says         *)
(* Concurrent, whatever crashes, aborts and lost outcomes came before: an  *)
(* execution the core lost track of still holds its schedule.              *)
NoOverlap ==
    \A a, b \in live :
        /\ a.sched = b.sched
        /\ disk.sched[a.sched].def.overlap # "Concurrent"
        => a = b

(* No more than Limits::running executions exist at any time, those of     *)
(* aborted runners and of crashed processes included.                      *)
ExecutionsBounded == Cardinality(live) <= MaxRunning

(* claim hands an attempt out at most once, across crashes, failed commits *)
(* and reopened stores: no claimable receipt carries an attempt that some  *)
(* earlier claim returned.                                                 *)
NeverHandedTwice ==
    \A st \in {disk, mem} : \A i \in DOMAIN st.occ :
        st.occ[i].kind = "Pending" =>
            \A inv \in handed : inv.occ = i => inv.attempt < st.occ[i].attempt

(* Queue order: once an occurrence of a schedule that is not Concurrent    *)
(* has been handed out, every earlier one of that schedule is resolved; no *)
(* retry delay is overtaken.                                               *)
QueueOrder ==
    \A inv \in handed : \A i \in Unresolved(disk) :
        /\ disk.occ[i].sched = inv.sched
        /\ i < inv.occ
        => Overlap(disk, i) = "Concurrent"

(* A calendar slot is executed as one occurrence at most: repeated and     *)
(* backward observations never rearm it, not even after its receipt was    *)
(* evicted.                                                                *)
SlotOnce ==
    \A a, b \in handed : a.sched = b.sched /\ a.due = b.due => a.occ = b.occ

(* An uncertain or cancelled attempt is never retried: a durable receipt   *)
(* that is Unknown or Cancelling never becomes Pending or Running again.   *)
UncertainNeverRetried ==
    [][\A i \in DOMAIN disk.occ \cap DOMAIN disk'.occ :
        disk.occ[i].kind \in {"Unknown", "Cancelling"}
        => disk'.occ[i].kind \notin {"Pending", "Running"}]_vars

(* Unresolved receipts are never evicted, and a terminal one never changes *)
(* again: a late or repeated completion cannot rewrite it.                 *)
ReceiptsKept ==
    [][/\ Unresolved(disk) \subseteq DOMAIN disk'.occ
       /\ \A i \in Terminal(disk) :
            i \in DOMAIN disk'.occ => disk'.occ[i] = disk.occ[i]]_vars

(* A schedule that was durably disabled or deleted admits nothing more and *)
(* is never resumed.                                                       *)
StoppedStaysStopped ==
    [][\A s \in DOMAIN disk.sched :
        ~disk.sched[s].enabled =>
            /\ ~disk'.sched[s].enabled
            /\ \A i \in DOMAIN disk'.occ \ DOMAIN disk.occ :
                disk'.occ[i].sched # s]_vars

(* What the store makes durable is a history of receipts as ReceiptLedger  *)
(* promises it, through crashes, torn and failed commits and reopening.    *)
Ledger ==
    INSTANCE ReceiptLedger WITH
        receipts <- [i \in DOMAIN disk.occ |-> Receipt(disk.occ[i])],
        issued <- disk.nextId - 1

ImplementsLedger == Ledger!Spec

(* Uncertain receipts keep i from being claimed: they hold its schedule,   *)
(* or all of the capacity.                                                 *)
Uncertain == {j \in DOMAIN mem.occ : mem.occ[j].kind \in {"Unknown", "Cancelling"}}

Held(i) ==
    \/ /\ Overlap(mem, i) # "Concurrent"
       /\ \E j \in Uncertain : mem.occ[j].sched = mem.occ[i].sched
    \/ Cardinality(Uncertain) >= MaxRunning

(* Every admitted occurrence is settled: through crashes, failed commits,  *)
(* stops, retries and reopened stores it is claimed and its outcome        *)
(* recorded, unless uncertain work nobody acknowledges holds it back.      *)
Waiting(i) ==
    /\ i \in DOMAIN mem.occ
    /\ mem.occ[i].kind \in {"Pending", "Running"}

EveryReceiptSettles == \A i \in Id : Waiting(i) ~> (~Waiting(i) \/ Held(i))

(* Every slot that has come due is decided on: the schedule's cursor       *)
(* passes the clock.                                                       *)
Due(s) == s \in DOMAIN mem.sched /\ mem.sched[s].nextDue <= clock

DueSlotsDecided == \A s \in Id : Due(s) ~> ~Due(s)
=============================================================================

-------------------------- MODULE ScheduledExecution --------------------------
(***************************************************************************)
(* Scheduled executions end to end: runners over the replicated register,  *)
(* the worker, and between them the tasks of                               *)
(* scheduler-runner/src/remote.rs.                                         *)
(***************************************************************************)
EXTENDS ReplicatedScheduler, ScheduledWorker

vars == <<runnersVars, workerVars, net, envVars>>

Init ==
    /\ NetInit
    /\ WorkerInit
    /\ RunnersInit
-----------------------------------------------------------------------------
(* RemoteExecutor::execute_authorized, one task t of runner n.             *)

Becomes(n, t, u) ==
    /\ t \in running[n]
    /\ running' = [running EXCEPT ![n] = (@ \ {t}) \cup {u}]
    /\ UNCHANGED <<clock, register, own, phase, prop, ending, stopping, workerVars, envVars>>

Ends(n, t, outcome) == Becomes(n, t, [t EXCEPT !.step = "done", !.outcome = outcome])

SubmitTask(n, t) ==
    /\ t.step = "new"
    /\ UNCHANGED <<accepted, gone, calls, asking, answers, cancels, results>>
    /\ \/ /\ expired
          /\ Ends(n, t, "Failed")
          /\ UNCHANGED execs
       \/ /\ ~expired
          /\ Becomes(n, t, [t EXCEPT !.step = "sent"])
          /\ execs' = execs \cup {t.d}

SubmitAnswered(n, t) ==
    /\ t.step = "sent"
    /\ UNCHANGED <<execs, calls, asking, answers, cancels, results>>
    /\ \/ \E r \in accepted :
            /\ r.d = t.d
            /\ Becomes(n, t, [t EXCEPT !.step = "polling", !.inc = r.inc])
            /\ accepted' = accepted \ {r}
            /\ UNCHANGED gone
       \/ /\ t.d \in gone
          /\ Ends(n, t, "Failed")
          /\ gone' = gone \ {t.d}
          /\ UNCHANGED accepted

(* What a status means to the task; a timed out script is Unknown. *)
Polled(job) ==
    CASE job.status = "completed" -> "Succeeded"
      [] job.status = "failed" -> "Failed"
      [] job.status = "cancelled" /\ job.stopped -> "Cancelled"
      [] job.status = "timed_out" -> "Unknown"
      [] OTHER -> "none"

Poll(n, t) ==
    LET k == Key(t.d) IN
    /\ t.step = "polling"
    /\ t.inc = inc
    /\ Polled(jobs[k]) # "none"
    /\ Ends(n, t, Polled(jobs[k]))
    /\ UNCHANGED net

FaultyTaskLoses(n, t) ==
    /\ t.step \in {"sent", "polling"}
    /\ Ends(n, t, "Failed")
    /\ UNCHANGED net

(* No answer, an error, or the deadline: the execution may go on. *)
TaskLoses(n, t) ==
    /\ t.step \in {"sent", "polling"}
    /\ Ends(n, t, "Unknown")
    /\ UNCHANGED net

TaskStep(n, t) == SubmitTask(n, t) \/ SubmitAnswered(n, t) \/ Poll(n, t)
-----------------------------------------------------------------------------
(* The operator attests that no dispatcher can submit the occurrence any   *)
(* more and that its work is resolved.                                     *)
Quiesced(i) ==
    /\ \A d \in execs : d.occ # i
    /\ \A h \in handlers : h.a.d.occ # i
    /\ \A k \in DOMAIN jobs : k[1] = i => ~jobs[k].executing
    /\ \A n \in Nodes : \A t \in running[n] : t.d.occ = i => t.step # "new"

Management(n) ==
    \/ "cancel" \in Commands /\ \E i \in Id : RequestCancelOf(n, i)
    \/ "acknowledge" \in Commands /\ \E i \in Id : Quiesced(i) /\ AcknowledgeOf(n, i)
    \/ "disable" \in Commands /\ \E s \in Id : StopScheduleOf(n, s, FALSE)
    \/ "delete" \in Commands /\ \E s \in Id : StopScheduleOf(n, s, TRUE)
    \/ "create" \in Commands /\ \E d \in Definitions : CreateOf(n, d)

LoopStep(n) ==
    \/ PulseFollower(n) \/ PulseAcquires(n) \/ Acquire(n) \/ Sweep(n) \/ ClaimNext(n)
    \/ \E a \in calls : ServeAdmission(n, a)
    \/ \E t \in running[n] : TaskDone(n, t)
    \/ \E d \in ending[n], outcome \in Outcomes : CancellationDone(n, d, outcome)
    \/ Learn(n)
    \/ Drained(n)

RunnerFaults(n) == BarrierFails(n) \/ Fail(n) \/ Shutdown(n) \/ RunnerCrash(n)

Runner(n) ==
    /\ \/ Management(n)
       \/ LoopStep(n)
       \/ RunnerFaults(n)
       \/ Elect(n)
       \/ StepDown(n)
    /\ UNCHANGED workerVars

Task(n) == \E t \in running[n] : TaskStep(n, t) \/ TaskLoses(n, t)

Next ==
    \/ \E n \in Nodes : Runner(n) \/ Task(n)
    \/ (Tick \/ \E p \in open : Commit(p)) /\ UNCHANGED workerVars
    \/ Worker /\ UNCHANGED runnersVars

Spec == Init /\ [][Next]_vars

(* One branch of select! in the loop of n, or what follows its await. *)
OnPulse(n) == (PulseFollower(n) \/ PulseAcquires(n) \/ Sweep(n)) /\ UNCHANGED workerVars
OnAdmission(n) == (\E a \in calls : ServeAdmission(n, a)) /\ UNCHANGED workerVars
OnTask(n) == (\E t \in running[n] : TaskDone(n, t)) /\ UNCHANGED workerVars
OnCancellation(n) ==
    /\ \E d \in ending[n], outcome \in Outcomes : CancellationDone(n, d, outcome)
    /\ UNCHANGED workerVars
OnConfirmation(n) ==
    /\ \E d \in ending[n], outcome \in Outcomes \ {"Unknown"} : CancellationDone(n, d, outcome)
    /\ UNCHANGED workerVars

(* What the loop of n waits for, or does next without choosing. *)
Replication(n) ==
    /\ \/ Elect(n) \/ StepDown(n)
       \/ (lead[n] # top /\ (Fail(n) \/ BarrierFails(n)))
       \/ (\E p \in open : p.env.owner = n /\ Commit(p))
       \/ Acquire(n) \/ ClaimNext(n) \/ Learn(n) \/ Drained(n)
    /\ UNCHANGED workerVars

Execution ==
    /\ \/ \E d \in execs : Reserve(d) \/ ReserveRefused(d)
       \/ \E h \in handlers : HandlerStep(h) \/ HandlerEnds(h)
       \/ \E k \in DOMAIN jobs : JobStep(k)
    /\ UNCHANGED runnersVars

Cancelled == (\E c \in cancels : CancelRequest(c)) /\ UNCHANGED runnersVars

(* What the deployment provides.  select! chooses among ready branches at  *)
(* random, so a branch that is ready again and again is taken; a request   *)
(* that keeps being sent is answered in time once.  Scripts have a         *)
(* timeout, and tasks a deadline.  A majority of the cluster is connected: *)
(* a leader emerges and its entries commit.  Nothing is assumed of         *)
(* management commands, of faults, or of the expiry of the grant.          *)
Fairness ==
    /\ \A n \in Nodes :
        /\ SF_vars(OnPulse(n))
        /\ SF_vars(OnAdmission(n))
        /\ SF_vars(OnTask(n))
        /\ SF_vars(OnCancellation(n))
        /\ SF_vars(OnConfirmation(n))
        /\ WF_vars(Replication(n))
        /\ WF_vars(Task(n))
    /\ WF_vars(Execution)
    /\ SF_vars(Cancelled)

FairSpec == Spec /\ Fairness
-----------------------------------------------------------------------------
EnvType(env) ==
    /\ env.epoch \in Nat
    /\ env.term \in 0..MaxTerm
    /\ IsState(env.st)
    /\ \A k \in DOMAIN env.claims : Key(env.claims[k]) = k
    /\ DOMAIN env.admissions \subseteq DOMAIN env.claims

IsKind(i, kind) == i \in DOMAIN reg.st.occ /\ reg.st.occ[i].kind = kind

TypeOK ==
    /\ EnvType(reg)
    /\ \A p \in open : EnvType(p.base) /\ EnvType(p.env)
    /\ \A n \in Nodes :
        /\ EnvType(own[n].env) /\ EnvType(prop[n].env)
        /\ lead[n] \in 0..top
        /\ phase[n] \in {"idle", "barrier", "sweep", "claim", "wait"}
        /\ phase[n] = "wait" <=> prop[n].kind # "none"
    /\ fence \in 0..top
    /\ \A h \in handlers : h.phase \in {"admit", "asked", "gate", "launch"}
    /\ \A k \in DOMAIN jobs : k \in DOMAIN record

(* Work is never forgotten: while a script executes on the worker, the     *)
(* committed receipt of that very attempt is unresolved, so its schedule   *)
(* and its capacity stay held, through takeovers, lost answers,            *)
(* cancellations, retries and crashes of either side.                      *)
ExecutionHeld ==
    \A k \in DOMAIN jobs :
        jobs[k].executing => Holds(reg, [occ |-> k[1], attempt |-> k[2]], ActiveKinds)

(* Executions of one schedule do not overlap on the worker. *)
NoOverlap ==
    \A j, k \in DOMAIN jobs :
        /\ jobs[j].executing /\ jobs[k].executing
        /\ bound[j].sched = bound[k].sched
        /\ reg.st.sched[bound[j].sched].def.overlap # "Concurrent"
        => j = k

(* What a resolved receipt says of an execution is what became of it: a    *)
(* cancellation that lost the race is not reported as one, and a script    *)
(* that was stopped is not reported as a success.                          *)
OutcomeTrue ==
    \A k \in DOMAIN jobs :
        LET kind == reg.st.occ[k[1]].kind IN
        Holds(reg, [occ |-> k[1], attempt |-> k[2]], TerminalKinds \ {"Abandoned"})
            => kind = OutcomeOf(jobs[k].status)

(* An owner that may still transition, on the node that really leads, has  *)
(* the committed envelope: what it decides on is never stale.              *)
OwnerViewCurrent ==
    \A n \in Nodes : Usable(n) /\ lead[n] = top /\ fence = top => own[n].env = reg

(* The worker consumed the permit of an attempt of i and cannot tell what  *)
(* became of it: it crashed, or its handler ended, before the receipt.     *)
OutcomeLost(i) ==
    \E k \in DOMAIN record :
        /\ k[1] = i /\ record[k].consumed
        /\ k \in DOMAIN receipt => receipt[k] # inc

(* The identities occurrences can have: the configured schedules take the  *)
(* first ones, and the last one is never given away.                       *)
OccurrenceIds == {i \in Id : i < MaxId} \ DOMAIN Schedules

InMotion(i) ==
    \/ IsKind(i, "Running")
    \/ IsKind(i, "Cancelling") /\ ~OutcomeLost(i)

(* A receipt that is Running or being cancelled comes to rest: its task    *)
(* reports, a new owner finds it interrupted, or whoever owns the schedule *)
(* by then learns from the worker what became of the execution, unless the *)
(* worker itself cannot tell.                                              *)
ReceiptsSettle == \A i \in OccurrenceIds : InMotion(i) ~> ~InMotion(i)

(* main.rs: "Cleanup remains available after grant expiry. Every owner     *)
(* retries durable cancellation intent": a Cancelling receipt is sent to   *)
(* the worker.                                                             *)
CleanupRetried ==
    \A i \in OccurrenceIds :
        IsKind(i, "Cancelling") ~> \/ ~IsKind(i, "Cancelling")
                                  \/ \E n \in Nodes : \E d \in ending[n] : d.occ = i

(* What the register commits is a history of receipts as ReceiptLedger     *)
(* has it.                                                                 *)
Ledger ==
    INSTANCE ReceiptLedger WITH
        receipts <- [i \in DOMAIN reg.st.occ |-> Receipt(reg.st.occ[i])],
        issued <- reg.st.nextId - 1

ImplementsLedger == Ledger!Spec
=============================================================================

--------------------------- MODULE ScheduledWorker ---------------------------
(***************************************************************************)
(* The scheduled worker (server/src/scheduled_worker.rs) and the runtime   *)
(* it launches executions on (server/src/api.rs ScheduledRuntime, over     *)
(* server/src/engine/execution.rs).                                        *)
(*                                                                         *)
(* An exec request has a handler that lives across awaits: it reserves the *)
(* invocation, asks the runners for admission, waits for the gate, and     *)
(* consumes, submits and records under the gate.  The caller may hang up   *)
(* at any await, which drops the handler.  A flush may fail: the handler   *)
(* returns, and the write stays visible until a crash may undo it.  A      *)
(* crash ends handlers and executions and changes the incarnation.         *)
(*                                                                         *)
(* Which runner is asked next is left open: the list of admission URLs is  *)
(* configuration.                                                          *)
(***************************************************************************)
EXTENDS ScheduledProtocol

CONSTANT
    EndStatuses    \* how scripts end by themselves in this instance

ASSUME EndingsAssumption == EndStatuses \subseteq {"completed", "failed", "timed_out"}

VARIABLES
    inc,        \* Worker::incarnation
    record,     \* invocation/key -> the admission that reserved it, and whether
                \* it has been replaced by "consumed"
    bound,      \* dispatch/key -> dispatch
    cancelled,  \* cancel/key
    receipt,    \* execution/key -> incarnation that launched it
    synced,     \* these four as of the last flush that succeeded
    handlers,   \* exec handlers between two awaits
    jobs        \* the runtime's executions: key -> status

store == <<record, bound, cancelled, receipt>>
workerVars == <<inc, store, synced, handlers, jobs>>

Reserved(a) == [a |-> a, consumed |-> FALSE]
Consumed(a) == [a |-> a, consumed |-> TRUE]

WorkerInit ==
    /\ inc = 1
    /\ record = [k \in {} |-> 0]
    /\ bound = [k \in {} |-> 0]
    /\ cancelled = {}
    /\ receipt = [k \in {} |-> 0]
    /\ synced = <<record, bound, cancelled, receipt>>
    /\ handlers = {}
    /\ jobs = [k \in {} |-> 0]

With(f, k, v) == [x \in DOMAIN f \cup {k} |-> IF x = k THEN v ELSE f[x]]

Handler(a, phase) == [a |-> a, phase |-> phase]

(* Worker::flush. *)
FlushOk == synced' = store' /\ UNCHANGED faults
FlushFails == Fault("flush") /\ UNCHANGED synced
-----------------------------------------------------------------------------
(* POST exec, up to the first await: reserve. *)

CanReserve(d) ==
    /\ ~expired
    /\ Key(d) \notin DOMAIN record

Arrives(d) ==
    /\ d \in execs
    /\ execs' = execs \ {d}
    /\ UNCHANGED <<accepted, gone, calls, asking, answers, cancels, results>>

Reserve(d) ==
    LET a == [d |-> d, inc |-> inc] IN
    /\ Arrives(d)
    /\ CanReserve(d)
    /\ record' = With(record, Key(d), Reserved(a))
    /\ bound' = With(bound, Key(d), d)
    /\ UNCHANGED <<inc, cancelled, receipt, jobs, expired>>
    /\ \/ FlushOk /\ handlers' = handlers \cup {Handler(a, "admit")}
       \/ FlushFails /\ UNCHANGED handlers

ReserveRefused(d) ==
    /\ Arrives(d)
    /\ ~CanReserve(d)
    /\ UNCHANGED <<workerVars, envVars>>

ExecLost(d) ==
    /\ Arrives(d)
    /\ Fault("loss")
    /\ UNCHANGED <<workerVars, expired>>
-----------------------------------------------------------------------------
(* admit_decision: one runner is asked at a time; a conflict means that it *)
(* owns nothing, and another one is asked.                                 *)

Goes(h, phase) == handlers' = (handlers \ {h}) \cup {Handler(h.a, phase)}

Ask(h) ==
    /\ h \in handlers /\ h.phase = "admit"
    /\ Goes(h, "asked")
    /\ calls' = calls \cup {h.a}
    /\ asking' = asking \cup {h.a}
    /\ UNCHANGED <<execs, accepted, gone, answers, cancels, results>>
    /\ UNCHANGED <<inc, store, synced, jobs, envVars>>

Hears(h, kind) ==
    /\ h \in handlers /\ h.phase = "asked"
    /\ [a |-> h.a, kind |-> kind] \in answers
    /\ answers' = {w \in answers : w.a # h.a}
    /\ asking' = asking \ {h.a}
    /\ UNCHANGED <<execs, accepted, calls, cancels, results>>
    /\ UNCHANGED <<inc, store, synced, jobs, envVars>>

HearConflict(h) ==
    /\ Hears(h, "conflict")
    /\ Goes(h, "admit")
    /\ UNCHANGED gone

HearPermit(h) ==
    /\ Hears(h, "permit")
    /\ Goes(h, "gate")
    /\ UNCHANGED gone

HearGone(h) ==
    /\ Hears(h, "gone")
    /\ handlers' = handlers \ {h}
    /\ gone' = gone \cup {h.a.d}

(* The handler ends without an execution: an error, no answer in time,     *)
(* every runner refused, submit failed, or the caller hung up.             *)
HandlerEnds(h) ==
    /\ h \in handlers
    /\ handlers' = handlers \ {h}
    /\ asking' = asking \ {h.a}
    /\ answers' = {w \in answers : w.a # h.a}
    /\ UNCHANGED <<execs, accepted, gone, calls, cancels, results>>
    /\ UNCHANGED <<inc, store, synced, jobs, envVars>>
-----------------------------------------------------------------------------
(* Under the execution gate: consume, submit, record.  The gate is held    *)
(* across the await of submit and released when the handler is dropped.    *)

GateFree == \A h \in handlers : h.phase # "launch"

FaultyCanConsume(a) ==
    /\ a.inc = inc
    /\ record[Key(a.d)] = Reserved(a)

CanConsume(a) ==
    /\ Key(a.d) \notin cancelled
    /\ a.inc = inc
    /\ record[Key(a.d)] = Reserved(a)

Consume(h) ==
    /\ h \in handlers /\ h.phase = "gate"
    /\ GateFree
    /\ CanConsume(h.a)
    /\ record' = With(record, Key(h.a.d), Consumed(h.a))
    /\ UNCHANGED <<net, inc, bound, cancelled, receipt, jobs, expired>>
    /\ \/ FlushOk /\ Goes(h, "launch")
       \/ FlushFails /\ handlers' = handlers \ {h}

ConsumeRefused(h) ==
    /\ h \in handlers /\ h.phase = "gate"
    /\ GateFree
    /\ ~CanConsume(h.a)
    /\ handlers' = handlers \ {h}
    /\ UNCHANGED <<net, inc, store, synced, jobs, envVars>>

NewJob == [status |-> "running", executing |-> TRUE, stopped |-> FALSE]

(* Launch::run succeeds, and in the same poll the receipt is stored.       *)
Submit(h) ==
    LET k == Key(h.a.d) IN
    /\ h \in handlers /\ h.phase = "launch"
    /\ handlers' = handlers \ {h}
    /\ jobs' = With(jobs, k, NewJob)
    /\ receipt' = With(receipt, k, inc)
    /\ UNCHANGED <<execs, gone, calls, asking, answers, cancels, results>>
    /\ UNCHANGED <<inc, record, bound, cancelled, expired>>
    /\ \/ FlushOk /\ accepted' = accepted \cup {[d |-> h.a.d, inc |-> inc]}
       \/ FlushFails /\ UNCHANGED accepted
-----------------------------------------------------------------------------
(* POST cancel.  Nothing in it awaits once it has the gate. *)

(* ExecutionRegistry::cancel: only the status of a running one changes. *)
Cancel(job) == IF job.status = "running" THEN [job EXCEPT !.status = "cancelled"] ELSE job

(* RemoteExecutor::cancel: what the runner makes of a status. *)
OutcomeOf(status) ==
    CASE status = "cancelled" -> "Cancelled"
      [] status = "completed" -> "Succeeded"
      [] status \in {"failed", "timed_out"} -> "Failed"
      [] OTHER -> "Unknown"

FaultyOutcomeUnstopped(k) ==
    IF k \in DOMAIN receipt
    THEN IF receipt[k] = inc THEN OutcomeOf(Cancel(jobs[k]).status) ELSE "Unknown"
    ELSE IF k \in DOMAIN record /\ record[k].consumed THEN "Unknown" ELSE "Cancelled"

FaultyOutcomeAssumed(k) ==
    IF k \in DOMAIN receipt
    THEN IF receipt[k] = inc /\ jobs[k].stopped THEN "Cancelled" ELSE "Unknown"
    ELSE IF k \in DOMAIN record /\ record[k].consumed THEN "Unknown" ELSE "Cancelled"

(* The outcome the caller learns: only an execution that has stopped, or   *)
(* that can no longer be launched, has ended.                              *)
CancelOutcome(k) ==
    IF k \in DOMAIN receipt
    THEN IF receipt[k] = inc /\ jobs[k].stopped
         THEN OutcomeOf(Cancel(jobs[k]).status)
         ELSE "Unknown"
    ELSE IF k \in DOMAIN record /\ record[k].consumed THEN "Unknown" ELSE "Cancelled"

CancelRequest(c) ==
    LET k == Key(c.d)
        ours == k \in DOMAIN bound => bound[k] = c.d
        Result(outcome) == results' = results \cup {[n |-> c.n, d |-> c.d, outcome |-> outcome]}
    IN
    /\ c \in cancels
    /\ GateFree
    /\ cancels' = cancels \ {c}
    /\ UNCHANGED <<execs, accepted, gone, calls, asking, answers>>
    /\ cancelled' = IF ours THEN cancelled \cup {k} ELSE cancelled
    /\ UNCHANGED <<inc, record, bound, receipt, handlers, expired>>
    /\ \/ /\ FlushOk
          /\ jobs' = IF ours /\ k \in DOMAIN receipt /\ receipt[k] = inc
                     THEN [jobs EXCEPT ![k] = Cancel(@)] ELSE jobs
          /\ Result(IF ours THEN CancelOutcome(k) ELSE "Unknown")
       \/ /\ FlushFails
          /\ Result("Unknown")
          /\ UNCHANGED jobs

CancelLost(c) ==
    /\ c \in cancels
    /\ Fault("loss")
    /\ cancels' = cancels \ {c}
    /\ UNCHANGED <<execs, accepted, gone, calls, asking, answers, results>>
    /\ UNCHANGED <<workerVars, expired>>
-----------------------------------------------------------------------------
(* The runtime: a script ends, by itself or because it was terminated, and *)
(* the drop of its last ExecutionActivity marks it stopped.                *)

JobEnds(k, status) ==
    /\ jobs[k].executing
    /\ jobs' = [jobs EXCEPT ![k] =
                  [status    |-> IF @.status = "running" THEN status ELSE @.status,
                   executing |-> FALSE,
                   stopped   |-> FALSE]]
    /\ UNCHANGED <<net, inc, store, synced, handlers, envVars>>

JobStopped(k) ==
    /\ ~jobs[k].executing /\ ~jobs[k].stopped
    /\ jobs' = [jobs EXCEPT ![k].stopped = TRUE]
    /\ UNCHANGED <<net, inc, store, synced, handlers, envVars>>

WorkerCrash ==
    /\ Fault("worker")
    /\ inc' = inc + 1
    /\ handlers' = {}
    /\ jobs' = [k \in {} |-> 0]
    /\ asking' = {}
    /\ answers' = {}
    /\ \E kept \in {store, synced} :
        /\ record' = kept[1]
        /\ bound' = kept[2]
        /\ cancelled' = kept[3]
        /\ receipt' = kept[4]
        /\ synced' = kept
    /\ UNCHANGED <<execs, accepted, gone, calls, cancels, results, expired>>

(* The wall clock passes expires_at of the grant. *)
Expire ==
    /\ GrantExpires /\ ~expired
    /\ expired' = TRUE
    /\ UNCHANGED <<net, workerVars, faults>>

HandlerStep(h) ==
    \/ Ask(h) \/ HearConflict(h) \/ HearPermit(h) \/ HearGone(h)
    \/ Consume(h) \/ ConsumeRefused(h) \/ Submit(h)

JobStep(k) ==
    \/ JobStopped(k)
    \/ \E status \in EndStatuses : JobEnds(k, status)

Worker ==
    \/ \E d \in execs : Reserve(d) \/ ReserveRefused(d) \/ ExecLost(d)
    \/ \E h \in handlers : HandlerStep(h) \/ HandlerEnds(h)
    \/ \E c \in cancels : CancelRequest(c) \/ CancelLost(c)
    \/ \E k \in DOMAIN jobs : JobStep(k)
    \/ WorkerCrash
    \/ Expire
=============================================================================

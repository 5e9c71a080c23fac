-------------------------- MODULE ScheduledProtocol --------------------------
(***************************************************************************)
(* The messages between scheduler runners and the worker:                  *)
(* server/src/scheduled_protocol.rs and the HTTP exchanges of              *)
(* scheduler-runner/src/remote.rs and server/src/scheduled_worker.rs.      *)
(*                                                                         *)
(* An exchange is a request in flight, and an answer as long as somebody   *)
(* waits for it: a request may arrive long after its sender gave up, an    *)
(* answer to nobody is dropped.  Requests may be lost, never repeated: no  *)
(* client retries.                                                         *)
(***************************************************************************)
EXTENDS Naturals, FiniteSets

CONSTANTS
    GrantExpires,  \* whether the operator's grant expires in this instance
    FaultKinds,    \* which faults happen in this instance
    MaxFaults      \* bound on how many happen

(* A leader is replaced, a swap or a barrier is not answered in time, a    *)
(* runner or the worker crashes, a runner is shut down, a flush of the     *)
(* worker's store fails, a request is lost.                                *)
Faults == {"election", "timeout", "runner", "worker", "shutdown", "flush", "loss"}

ASSUME ProtocolAssumption ==
    /\ GrantExpires \in BOOLEAN
    /\ FaultKinds \subseteq Faults
    /\ MaxFaults \in Nat

VARIABLES
    expired,   \* Utc::now() >= expires_at of the grant
    faults,    \* faults so far
    execs,     \* dispatches on their way to the worker
    accepted,  \* dispatches the worker answered with an execution, by whom
    gone,      \* dispatches the worker answered with "not launched"
    calls,     \* admissions queued for a runner
    asking,    \* admissions whose handler still waits for an answer
    answers,   \* answers to them
    cancels,   \* cancellations on their way to the worker, with their sender
    results    \* what it answered, with the sender

envVars == <<expired, faults>>
net == <<execs, accepted, gone, calls, asking, answers, cancels, results>>

NetInit ==
    /\ expired = FALSE
    /\ faults = 0
    /\ execs = {}
    /\ accepted = {}
    /\ gone = {}
    /\ calls = {}
    /\ asking = {}
    /\ answers = {}
    /\ cancels = {}
    /\ results = {}

Fault(kind) ==
    /\ kind \in FaultKinds
    /\ faults < MaxFaults
    /\ faults' = faults + 1

(* Dispatch::key: the epoch is left out, so a takeover makes no new one. *)
Key(d) == <<d.occ, d.attempt>>

(* The answer reaches its handler if there still is one. *)
Answer(a, kind) ==
    answers' = IF a \in asking THEN answers \cup {[a |-> a, kind |-> kind]} ELSE answers
=============================================================================

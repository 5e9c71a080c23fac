------------------------ MODULE MCScheduledExecution ------------------------
(* Instances of ScheduledExecution for TLC. *)
EXTENDS ScheduledExecution, TLC

(* One schedule that queues, retries once, and comes due at instant 1. *)
Retrying ==
    [missed |-> "RunOnce", cap |-> 0, overlap |-> "Queue",
     maxRetries |-> 1, delay |-> 0, slots |-> {1, MaxTime + 1}]

(* The same without retries. *)
Plain == [Retrying EXCEPT !.maxRetries = 0]

OneRetrying == {Retrying}
ConfigRetrying == <<Retrying>>
OnePlain == {Plain}
ConfigPlain == <<Plain>>

(* No configured schedule: every schedule comes from the management API. *)
NoConfig == <<>>

Symmetric == Permutations(Nodes)
=============================================================================

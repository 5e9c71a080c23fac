--------------------------- MODULE MCSchedulerCore ---------------------------
(* Instances of SchedulerCore for TLC. *)
EXTENDS SchedulerCore

Every(n) == {k * n : k \in 0..(MaxTime \div n + 1)}

(* A queueing schedule that catches up two slots and retries once. *)
QueueDef ==
    [missed |-> "CatchUp", cap |-> 2, overlap |-> "Queue",
     maxRetries |-> 1, delay |-> 1, slots |-> Every(1)]

(* The default policy: skip late slots, skip when occupied, no retries. *)
SkipDef ==
    [missed |-> "Skip", cap |-> 0, overlap |-> "Skip",
     maxRetries |-> 0, delay |-> 0, slots |-> Every(1)]

(* Overlapping executions of one schedule, coalescing missed slots. *)
ConcurrentDef ==
    [missed |-> "RunOnce", cap |-> 0, overlap |-> "Concurrent",
     maxRetries |-> 0, delay |-> 0, slots |-> Every(1)]

(* The queueing schedule without a delay: the clock stops at MaxTime. *)
PromptQueue == {[QueueDef EXCEPT !.delay = 0]}
OneQueue == {QueueDef}
SkipAndConcurrent == {SkipDef, ConcurrentDef}
=============================================================================

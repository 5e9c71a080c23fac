------------------------------- MODULE MCEngine -------------------------------
(* Small instances of EngineRuns: two runs and one native write, in the        *)
(* situations that differ in what they share.                                  *)
EXTENDS EngineRuns, TLC

CONSTANTS r1, r2, w1

MCRuns == {r1, r2}
MCWriters == {w1}
MCEffects == MCRuns \cup MCWriters \cup {"seed", "lost"}

Req(ends) == [session |-> "s", heap |-> NoHeap, fs |-> None, ends |-> ends, timeout |-> "short"]
Seed == [session |-> "s", id |-> 0, heap |-> {"seed"}, fs |-> {"seed"}, by |-> "seed"]

Case(a1, a2, heap, permits) ==
    [ask |-> (r1 :> a1 @@ r2 :> a2), writes |-> (w1 :> None), fork |-> None,
     heap |-> heap, fs |-> TRUE, log |-> {Seed}, permits |-> permits,
     faults |-> 0, cancels |-> 0, crashes |-> 0, shutdown |-> FALSE]

MCScenarios ==
    {\* two runs of one session, one permit, something fails
     [Case(Req("ok"), Req("ok"), TRUE, 1) EXCEPT !.faults = 1],
     \* two runs at a time behind one V8 mutex, one is cancelled
     [Case(Req("ok"), Req("error"), TRUE, 2) EXCEPT !.cancels = 1],
     \* a run and a native write to the same session, and a crash
     [Case(Req("ok"), None, TRUE, 1) EXCEPT !.writes = (w1 :> "s"), !.crashes = 1, !.faults = 1],
     \* a native write to a new session, then a run of it
     [Case(Req("ok"), None, TRUE, 1) EXCEPT !.writes = (w1 :> "s"), !.log = {}],
     \* a session forked at start-up
     [Case([Req("ok") EXCEPT !.session = "t"], None, TRUE, 1) EXCEPT
        !.fork = [from |-> "s", to |-> "t"], !.writes = (w1 :> "t")],
     \* without heaps: a script that never ends, and shutdown
     [Case(Req("never"), Req("ok"), FALSE, 1) EXCEPT !.shutdown = TRUE, !.cancels = 1],
     \* shutdown of a run that is about to start behind one that waits on an op
     [Case(Req("parked"), [Req("never") EXCEPT !.timeout = "long"], TRUE, 2) EXCEPT !.shutdown = TRUE],
     \* next to a run that waits on an op, an endless one without any time
     Case(Req("parked"), [Req("never") EXCEPT !.timeout = "zero"], FALSE, 2),
     \* explicit snapshots, one of them unknown, and a run without a session
     Case([Req("ok") EXCEPT !.heap = {"lost"}, !.fs = {"lost"}],
          [Req("ok") EXCEPT !.session = None, !.heap = {"seed"}], TRUE, 2)}

\* A script that never ends, queued behind another one for the V8 mutex.
MCQueued == {Case(Req("ok"), Req("never"), TRUE, 2)}
=============================================================================

------------------------------- MODULE MCRaft -------------------------------
(* Raft with three voters and a learner.  No bound lets everything happen  *)
(* at once: each budget lets some things happen, in any order.             *)
EXTENDS Raft, TLC

CONSTANTS s1, s2

Symmetric == Permutations(Voters) \cup Permutations(Swaps)

B(e, s, c, l, v, f, j) ==
    [elections |-> e, sends |-> s, calls |-> c, stray |-> l, values |-> v, faults |-> f, joins |-> j]

MCBudgets ==
    {B(4, 2, 1, 0, {s1, s2}, 0, 0),        \* leaders take turns
     B(2, 2, 2, 1, {s1, s2}, 0, 0),        \* a call is lost or late
     B(2, 3, 1, 0, {s1, s2}, 1, 0),        \* a node stops and restarts
     B(1, 3, 2, 0, {s1}, 1, 2),            \* a learner joins and leaves
     B(1, 3, 1, 1, {s1, "p", "b"}, 0, 0)}  \* puts, swaps and barriers
=============================================================================

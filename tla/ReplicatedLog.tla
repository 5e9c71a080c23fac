---------------------------- MODULE ReplicatedLog ----------------------------
(***************************************************************************)
(* What the cluster promises the code above it: one sequence of committed  *)
(* entries that only grows, in which every compare-and-set follows the     *)
(* value it compared with, and which holds every entry that was            *)
(* acknowledged to its proposer.                                           *)
(***************************************************************************)
EXTENDS Naturals, Sequences, FiniteSetsExt

VARIABLES
    committed,  \* the entries, in the order they are applied
    acked       \* the values whose proposers were told so

IsPrefix(s, t) == Len(s) <= Len(t) /\ \A i \in 1..Len(s) : s[i] = t[i]

(* The value of the key after the entries of es. *)
Latest(es) ==
    LET writes == {i \in DOMAIN es : es[i].op # "barrier"}
    IN IF writes = {} THEN "none" ELSE es[Max(writes)].val

Chained(es) ==
    \A i \in DOMAIN es : es[i].op = "cas" => es[i].exp = Latest(SubSeq(es, 1, i - 1))

Init == committed = <<>> /\ acked = {}

Next ==
    /\ IsPrefix(committed, committed')
    /\ Chained(committed')
    /\ acked \subseteq acked'
    /\ acked' \subseteq {committed'[i].val : i \in DOMAIN committed'}

Spec == Init /\ [][Next]_<<committed, acked>>
=============================================================================

------------------------------- MODULE RaftLog -------------------------------
(***************************************************************************)
(* What the handlers of server/src/cluster.rs make of a node's record      *)
(* (term, vote, log and commit index), of a vote request and of an append  *)
(* request.                                                                *)
(***************************************************************************)
EXTENDS Naturals, Sequences, FiniteSets, FiniteSetsExt

CONSTANTS
    Voters, Learners,
    Puts, Swaps, Barriers  \* what clients propose: put, cas, scheduler_barrier

None == "none"
Nodes == Voters \cup Learners
Values == Puts \cup Swaps \cup Barriers

ASSUME MembersAssumption ==
    /\ IsFiniteSet(Voters) /\ Voters # {} /\ Voters \cap Learners = {}
    /\ None \notin Nodes

LastTerm(es) == IF es = <<>> THEN 0 ELSE es[Len(es)].term

IsPrefix(s, t) == Len(s) <= Len(t) /\ \A i \in 1..Len(s) : s[i] = t[i]

Majority(S) == 2 * Cardinality(S) > Cardinality(Voters)

Adopts(d, t) == IF t > d.term THEN [d EXCEPT !.term = t, !.vote = None] ELSE d

FaultyLogOk(d, p) == TRUE

LogOk(d, p) ==
    \/ p.last > LastTerm(d.log)
    \/ p.last = LastTerm(d.log) /\ p.index >= Len(d.log)

Grants(d, c, p) ==
    LET a == Adopts(d, p.term) IN a.vote \in {None, c} /\ LogOk(a, p)

(* Truncated at the first entry of another term, then extended. *)
Merge(lg, prev, es) ==
    IF \A i \in DOMAIN es : prev + i <= Len(lg) => lg[prev + i].term = es[i].term
    THEN lg \o SubSeq(es, Len(lg) - prev + 1, Len(es))
    ELSE SubSeq(lg, 1, prev) \o es

(* Never a local suffix that the request did not cover. *)
Matched(req) == Min({req.commit, req.prev + Len(req.entries)})

Consistent(d, req) ==
    /\ req.prev <= Len(d.log)
    /\ LastTerm(SubSeq(d.log, 1, req.prev)) = req.prevTerm
    /\ \A i \in DOMAIN req.entries :
        LET k == req.prev + i IN
        k <= Len(d.log) /\ d.log[k] # req.entries[i] =>
            k > d.commit /\ d.log[k].term # req.entries[i].term

Latest(es) ==
    LET writes == {i \in DOMAIN es : es[i].op # "barrier"}
    IN IF writes = {} THEN None ELSE es[Max(writes)].val
=============================================================================

----------------------------- MODULE RaftHistory -----------------------------
(***************************************************************************)
(* The cluster is safe for every number of voters and learners, and for    *)
(* every schedule of elections, appends, crashes and failed writes.        *)
(*                                                                         *)
(* The proof needs what the nodes no longer remember.  A history has, for  *)
(* every term, the log of its leader (TL), the leader (TO), the votes      *)
(* given (VH), and how much of the leader's log each node has held (AK).   *)
(* The invariant says that there is a history that explains the state; a   *)
(* step of the cluster extends it.  The nodes' records (dk) and the        *)
(* requests on their way (ms) are parameters, so that the lemmas apply     *)
(* before and after a step.                                                *)
(***************************************************************************)
EXTENDS RaftLog, TLAPS

Entry ==
    [term : Nat, val : Values, op : {"put", "cas", "barrier"}, exp : Values \cup {None}]

Disk == [term : Nat, vote : Voters \cup {None}, log : Seq(Entry), commit : Nat]

Request ==
    [awaited : BOOLEAN, from : Nodes, to : Nodes, term : Nat, prev : Nat, prevTerm : Nat,
     entries : Seq(Entry), commit : Nat, learners : SUBSET Learners]

Term(e) == e.term

(* L holds the first i entries of P. *)
Extends(L, P, i) == i <= Len(L) /\ \A k \in 1..i : L[k] = P[k]

(* Every entry was made by the leader of its term, after the same entries. *)
Backed(L, t, TL, TO) ==
    \A i \in 1..Len(L) :
        /\ Term(L[i]) \in 1..t
        /\ TO[Term(L[i])] # None
        /\ Extends(TL[Term(L[i])], L, i)

TermLogs(TL, TO) == \A t \in Nat : Backed(TL[t], t, TL, TO) /\ (TO[t] = None => TL[t] = <<>>)

NodeLogs(tm, lg, TL, TO) == \A n \in Nodes : Backed(lg[n], tm[n], TL, TO)

(* A leader has the votes of a majority, and a node votes once in a term. *)
Elected(tm, TO, VH) ==
    \A t \in Nat : TO[t] # None =>
        /\ 0 < t /\ t <= tm[TO[t]]
        /\ \E Q \in SUBSET Voters : Majority(Q) /\ \A v \in Q : VH[t][v] = TO[t]

Ballots(tm, vt, VH) ==
    \A v \in Nodes :
        /\ VH[tm[v]][v] = vt[v]
        /\ \A t \in Nat : t > tm[v] => VH[t][v] = None

Acks(tm, TL, AK) ==
    \A v \in Nodes, t \in Nat :
        /\ AK[t][v] <= Len(TL[t])
        /\ t > tm[v] => AK[t][v] = 0

(* A majority holds the entry, or may yet come to hold it: whoever has     *)
(* gone on to a later term takes no more entries from the leader of t.     *)
Choosable(tm, t, i, AK) ==
    \E Q \in SUBSET Voters : Majority(Q) /\ \A v \in Q : i <= AK[t][v] \/ tm[v] <= t

Pending(tm, t, i, TL, AK) ==
    i \in 1..Len(TL[t]) /\ Term(TL[t][i]) = t /\ Choosable(tm, t, i, AK)

(* Such an entry is in the log of every later leader, and stays with the   *)
(* nodes that hold it.                                                     *)
LeadersHold(tm, TL, TO, AK) ==
    \A t, u \in Nat : \A i \in Nat :
        t < u /\ TO[u] # None /\ Pending(tm, t, i, TL, AK) => Extends(TL[u], TL[t], i)

NodesHold(tm, lg, TL, AK) ==
    \A v \in Nodes, t \in Nat : \A i \in Nat :
        i <= AK[t][v] /\ Pending(tm, t, i, TL, AK) => Extends(lg[v], TL[t], i)

(* A majority holds the entry: it is committed, with all that precede it. *)
Chosen(t, i, TL, AK) ==
    /\ i \in 1..Len(TL[t]) /\ Term(TL[t][i]) = t
    /\ \E Q \in SUBSET Voters : Majority(Q) /\ \A v \in Q : i <= AK[t][v]

Settled(L, k, u, TL, AK) ==
    /\ k <= Len(L)
    /\ k > 0 => \E t \in 1..u, i \in Nat : k <= i /\ Chosen(t, i, TL, AK) /\ Extends(L, TL[t], k)

Commits(tm, lg, cm, TL, AK) == \A n \in Nodes : Settled(lg[n], cm[n], tm[n], TL, AK)

(* A request repeats a part of the log of its term's leader. *)
Sent(m, TL, TO, AK) ==
    /\ m.from \in Voters /\ m.to # m.from
    /\ TO[m.term] = m.from
    /\ m.prev + Len(m.entries) <= Len(TL[m.term])
    /\ \A k \in 1..Len(m.entries) : m.entries[k] = TL[m.term][m.prev + k]
    /\ m.prevTerm = (IF m.prev = 0 THEN 0 ELSE Term(TL[m.term][m.prev]))
    /\ Settled(TL[m.term], m.commit, m.term, TL, AK)

(* What the argument uses of finite sets: two majorities have a voter in   *)
(* common, and the last write of a log has a place in it.                  *)
FiniteFacts ==
    /\ \A S, R \in SUBSET Voters : Majority(S) /\ Majority(R) => \E v \in S : v \in R
    /\ \A es \in Seq(Entry) : Latest(es) \in Values \cup {None}

Core(tm, vt, lg, cm, TL, TO, VH, AK) ==
    /\ FiniteFacts
    /\ TermLogs(TL, TO)
    /\ NodeLogs(tm, lg, TL, TO)
    /\ Elected(tm, TO, VH)
    /\ Ballots(tm, vt, VH)
    /\ Acks(tm, TL, AK)
    /\ LeadersHold(tm, TL, TO, AK)
    /\ NodesHold(tm, lg, TL, AK)
    /\ Commits(tm, lg, cm, TL, AK)

(* A leader in office, and a candidate with the votes of V. *)
Leading(l, nx, mt, tm, lg, TL, TO, AK) ==
    /\ l \in Voters
    /\ TO[tm[l]] = l /\ TL[tm[l]] = lg[l] /\ AK[tm[l]][l] = Len(lg[l])
    /\ \A p \in Nodes : nx[p] \in 1..(Len(lg[l]) + 1)
    /\ \A p \in Voters : mt[p] <= AK[tm[l]][p]

Standing(c, V, tm, lg, TL, TO, AK) ==
    /\ c \in Voters /\ 0 < tm[c] /\ TO[tm[c]] # c
    /\ \A i \in 1..Len(lg[c]) : Term(lg[c][i]) < tm[c]
    /\ \A v \in V, t \in Nat, i \in Nat :
        t < tm[c] /\ i <= AK[t][v] /\ Pending(tm, t, i, TL, AK) => Extends(lg[c], TL[t], i)

Polled(c, p, tm, VH) ==
    /\ p.term <= tm[c]
    /\ p.open # {} => c \in Voters
    /\ \A v \in p.votes : VH[p.term][v] = c

Current(c, p, tm, lg) ==
    p.term = tm[c] /\ p.index = Len(lg[c]) /\ p.last = LastTerm(lg[c])

RoleOf(n, r, nx, mt, p, tm, lg, TL, TO, VH, AK) ==
    /\ Polled(n, p, tm, VH)
    /\ r = "Leader" => Leading(n, nx, mt, tm, lg, TL, TO, AK)
    /\ r = "Candidate" => Standing(n, p.votes, tm, lg, TL, TO, AK) /\ Current(n, p, tm, lg)

Ballot == [term : Nat, index : Nat, last : Nat, open : SUBSET Voters, votes : SUBSET Voters]

History(TL, TO, VH, AK) ==
    /\ TL \in [Nat -> Seq(Entry)]
    /\ TO \in [Nat -> Voters \cup {None}]
    /\ VH \in [Nat -> [Nodes -> Voters \cup {None}]]
    /\ AK \in [Nat -> [Nodes -> Nat]]

Records(tm, vt, lg, cm) ==
    /\ tm \in [Nodes -> Nat]
    /\ vt \in [Nodes -> Voters \cup {None}]
    /\ lg \in [Nodes -> Seq(Entry)]
    /\ cm \in [Nodes -> Nat]
-----------------------------------------------------------------------------
USE Zenon

(* The types of the parts of the nodes' records and of a history, one by     *)
(* one.                                                                      *)
LEMMA Types ==
    ASSUME NEW tm, NEW vt, NEW lg, NEW cm, Records(tm, vt, lg, cm),
           NEW TL, NEW TO, NEW VH, NEW AK, History(TL, TO, VH, AK)
    PROVE  /\ \A n \in Nodes : tm[n] \in Nat
           /\ \A n \in Nodes : vt[n] \in Voters \cup {None}
           /\ \A n \in Nodes : lg[n] \in Seq(Entry)
           /\ \A n \in Nodes : cm[n] \in Nat
           /\ \A t \in Nat : TL[t] \in Seq(Entry)
           /\ \A t \in Nat : TO[t] \in Voters \cup {None}
           /\ \A t \in Nat, v \in Nodes : VH[t][v] \in Voters \cup {None}
           /\ \A t \in Nat, v \in Nodes : AK[t][v] \in Nat
<1>1. /\ \A n \in Nodes : tm[n] \in Nat
      /\ \A n \in Nodes : vt[n] \in Voters \cup {None}
      /\ \A n \in Nodes : lg[n] \in Seq(Entry)
      /\ \A n \in Nodes : cm[n] \in Nat
  BY DEF Records
<1>2. /\ \A t \in Nat : TL[t] \in Seq(Entry)
      /\ \A t \in Nat : TO[t] \in Voters \cup {None}
      /\ \A t \in Nat : VH[t] \in [Nodes -> Voters \cup {None}]
      /\ \A t \in Nat : AK[t] \in [Nodes -> Nat]
  BY DEF History
<1> QED
  BY <1>1, <1>2

(* A log has a length. *)
LEMMA LenNat ==
    ASSUME NEW s \in Seq(Entry)
    PROVE  Len(s) \in Nat
  BY ONLY s \in Seq(Entry), SMT

(* What a later step finds pending was pending before: acknowledgements    *)
(* are added only in a node's own term, and terms grow.                    *)
LEMMA PendingBefore ==
    ASSUME NEW tm, NEW tm2, NEW TL, NEW AK, NEW AK2, NEW t \in Nat, NEW i \in Nat,
           \A v \in Nodes : tm[v] \in Nat /\ tm2[v] \in Nat /\ tm[v] <= tm2[v],
           \A v \in Nodes : AK2[t][v] # AK[t][v] => t = tm2[v],
           Pending(tm2, t, i, TL, AK2)
    PROVE  Pending(tm, t, i, TL, AK)
<1>1. PICK Q \in SUBSET Voters : Majority(Q) /\ \A v \in Q : i <= AK2[t][v] \/ tm2[v] <= t
  BY DEF Pending, Choosable
<1>2. ASSUME NEW v \in Q PROVE i <= AK[t][v] \/ tm[v] <= t
  <2>1. v \in Nodes
    BY DEF Nodes
  <2> QED
    BY <1>1, <2>1, SMT
<1> QED
  BY <1>1, <1>2 DEF Pending, Choosable

(* A history grows: leaders' logs are extended, leaders stay, and nodes    *)
(* hold more.                                                              *)
Grows(TL, TO, AK, TL2, TO2, AK2) ==
    /\ \A t \in Nat : Extends(TL2[t], TL[t], Len(TL[t]))
    /\ \A t \in Nat : TO[t] # None => TO2[t] = TO[t]
    /\ \A t \in Nat, v \in Nodes : AK[t][v] <= AK2[t][v]

(* Between two states, moreover, terms and votes stay, what is pending was *)
(* pending before, and a node that holds more does so in a term that it    *)
(* had not left.                                                           *)
Evolves(tm, TL, TO, VH, AK, tm2, TL2, TO2, VH2, AK2) ==
    /\ Grows(TL, TO, AK, TL2, TO2, AK2)
    /\ \A v \in Nodes : tm[v] <= tm2[v]
    /\ \A t \in Nat, v \in Nodes : VH[t][v] # None => VH2[t][v] = VH[t][v]
    /\ \A t \in Nat, v \in Nodes : AK2[t][v] # AK[t][v] => tm[v] <= t
    /\ \A t \in Nat, i \in Nat :
        Pending(tm2, t, i, TL2, AK2) /\ i <= Len(TL[t]) => Pending(tm, t, i, TL, AK)

(* A log that holds i entries of P holds the same entries of a P that has    *)
(* grown.                                                                    *)
LEMMA ExtendsKept ==
    ASSUME NEW L, NEW P, NEW P2, NEW i \in Nat, Len(P) \in Nat,
           i <= Len(P), Extends(P2, P, Len(P)), Extends(L, P, i)
    PROVE  Extends(L, P2, i)
  BY SMT DEF Extends

(* Holding the first entries of a log is transitive. *)
LEMMA ExtendsTrans ==
    ASSUME NEW L, NEW P, NEW R, NEW i \in Nat, NEW j \in Nat, Len(L) \in Nat, Len(P) \in Nat,
           Extends(L, P, i), Extends(P, R, j), j <= i
    PROVE  Extends(L, R, j)
  BY SMT DEF Extends

(* A log stays backed by the leaders' logs as those grow: a leader only      *)
(* appends.                                                                  *)
LEMMA BackedKept ==
    ASSUME NEW TL, NEW TO, NEW AK, NEW TL2, NEW TO2, NEW AK2,
           \A t \in Nat : Len(TL[t]) \in Nat /\ Len(TL2[t]) \in Nat,
           Grows(TL, TO, AK, TL2, TO2, AK2),
           NEW L, NEW t \in Nat, Len(L) \in Nat,
           Backed(L, t, TL, TO)
    PROVE  Backed(L, t, TL2, TO2)
<1>1. SUFFICES ASSUME NEW i \in 1..Len(L)
               PROVE  Term(L[i]) \in 1..t /\ TO2[Term(L[i])] # None /\ Extends(TL2[Term(L[i])], L, i)
  BY DEF Backed
<1>2. Term(L[i]) \in 1..t /\ TO[Term(L[i])] # None /\ Extends(TL[Term(L[i])], L, i)
  BY DEF Backed
<1>3. TO2[Term(L[i])] # None
  BY <1>2, SMT DEF Grows
<1>4. Extends(TL2[Term(L[i])], TL[Term(L[i])], Len(TL[Term(L[i])])) /\ Len(TL[Term(L[i])]) \in Nat
  BY <1>2, SMT DEF Grows
<1>5. Extends(TL2[Term(L[i])], L, i)
  BY <1>2, <1>4, SMT DEF Extends
<1> QED
  BY <1>2, <1>3, <1>5

(* A log whose entries are of terms up to t is backed at every later term. *)
LEMMA BackedLater ==
    ASSUME NEW TL, NEW TO, NEW L, NEW t \in Nat, NEW u \in Nat, t <= u, Backed(L, t, TL, TO)
    PROVE  Backed(L, u, TL, TO)
  BY SMT DEF Backed

(* An entry a majority holds is chosen for ever: nothing of a history is     *)
(* taken back.                                                               *)
LEMMA ChosenKept ==
    ASSUME NEW TL, NEW TO, NEW AK, NEW TL2, NEW TO2, NEW AK2,
           \A t \in Nat : Len(TL[t]) \in Nat /\ Len(TL2[t]) \in Nat,
           \A t \in Nat, v \in Nodes : AK[t][v] \in Nat /\ AK2[t][v] \in Nat,
           Grows(TL, TO, AK, TL2, TO2, AK2),
           NEW t \in Nat, NEW i \in Nat, Chosen(t, i, TL, AK)
    PROVE  Chosen(t, i, TL2, AK2)
<1>1. i \in 1..Len(TL2[t]) /\ Term(TL2[t][i]) = t
  <2>1. i \in 1..Len(TL[t]) /\ Term(TL[t][i]) = t
    BY DEF Chosen
  <2>2. Len(TL[t]) <= Len(TL2[t]) /\ \A x \in 1..Len(TL[t]) : TL2[t][x] = TL[t][x]
    BY DEF Grows, Extends
  <2>3. Len(TL[t]) \in Nat /\ Len(TL2[t]) \in Nat
    OBVIOUS
  <2>4. i \in 1..Len(TL2[t])
    BY ONLY <2>1, <2>2, <2>3, SMT
  <2> QED
    BY <2>1, <2>2, <2>4
<1>2. PICK Q \in SUBSET Voters : Majority(Q) /\ \A v \in Q : i <= AK[t][v]
  BY DEF Chosen
<1>3. \A v \in Q : v \in Nodes
  BY DEF Nodes
<1>4. \A v \in Q : i <= AK2[t][v]
  <2> TAKE v \in Q
  <2>1. i <= AK[t][v] /\ AK[t][v] <= AK2[t][v]
    BY <1>2, <1>3 DEF Grows
  <2>2. AK[t][v] \in Nat /\ AK2[t][v] \in Nat
    BY <1>3
  <2> QED
    BY ONLY <2>1, <2>2, i \in Nat, SMT
<1> QED
  BY <1>1, <1>2, <1>4 DEF Chosen

(* What is committed stays committed while the history grows and terms rise. *)
LEMMA SettledKept ==
    ASSUME NEW TL, NEW TO, NEW AK, NEW TL2, NEW TO2, NEW AK2,
           \A t \in Nat : Len(TL[t]) \in Nat /\ Len(TL2[t]) \in Nat,
           \A t \in Nat, v \in Nodes : AK[t][v] \in Nat /\ AK2[t][v] \in Nat,
           Grows(TL, TO, AK, TL2, TO2, AK2),
           NEW L, NEW k \in Nat, NEW u \in Nat, NEW w \in Nat, u <= w, Settled(L, k, u, TL, AK)
    PROVE  Settled(L, k, w, TL2, AK2)
<1>1. SUFFICES ASSUME k > 0
               PROVE  \E t \in 1..w, i \in Nat : k <= i /\ Chosen(t, i, TL2, AK2) /\ Extends(L, TL2[t], k)
  BY DEF Settled
<1>2. PICK t \in 1..u, i \in Nat : k <= i /\ Chosen(t, i, TL, AK) /\ Extends(L, TL[t], k)
  BY <1>1 DEF Settled
<1>3. t \in Nat
  BY SMT
<1>4. Chosen(t, i, TL2, AK2)
  BY <1>2, <1>3, ChosenKept
<1>5. Extends(TL2[t], TL[t], Len(TL[t])) /\ i <= Len(TL[t]) /\ Len(TL[t]) \in Nat
  BY <1>2, <1>3, SMT DEF Chosen, Grows
<1>6. Extends(L, TL2[t], k)
  BY <1>2, <1>5, ExtendsKept, SMT
<1>7. t \in 1..w
  BY SMT
<1> QED
  BY <1>2, <1>4, <1>6, <1>7

(* SettledKept within a term. *)
LEMMA SettledStays ==
    ASSUME NEW TL, NEW TO, NEW AK, NEW TL2, NEW TO2, NEW AK2,
           \A t \in Nat : Len(TL[t]) \in Nat /\ Len(TL2[t]) \in Nat,
           \A t \in Nat, v \in Nodes : AK[t][v] \in Nat /\ AK2[t][v] \in Nat,
           Grows(TL, TO, AK, TL2, TO2, AK2),
           NEW L, NEW k \in Nat, NEW u \in Nat, Settled(L, k, u, TL, AK)
    PROVE  Settled(L, k, u, TL2, AK2)
<1>1. u <= u
  BY SMT
<1> QED
  BY <1>1, SettledKept

(* A request on its way stays a part of its leader's log while the history   *)
(* grows.                                                                    *)
LEMMA SentKept ==
    ASSUME NEW TL, NEW TO, NEW AK, NEW TL2, NEW TO2, NEW AK2,
           \A t \in Nat : Len(TL[t]) \in Nat /\ Len(TL2[t]) \in Nat,
           \A t \in Nat, v \in Nodes : AK[t][v] \in Nat /\ AK2[t][v] \in Nat,
           Grows(TL, TO, AK, TL2, TO2, AK2),
           NEW m \in Request, Sent(m, TL, TO, AK)
    PROVE  Sent(m, TL2, TO2, AK2)
<1>1. m.term \in Nat /\ m.prev \in Nat /\ m.commit \in Nat /\ Len(m.entries) \in Nat
  BY SMT DEF Request
<1>2. Extends(TL2[m.term], TL[m.term], Len(TL[m.term]))
  BY <1>1 DEF Grows
<1>3. m.from \in Voters /\ m.to # m.from /\ TO2[m.term] = m.from
  <2>1. m.from # None
    BY MembersAssumption DEF Sent, Nodes
  <2> QED
    BY <1>1, <2>1 DEF Sent, Grows
<1>4. m.prev + Len(m.entries) <= Len(TL2[m.term])
  <2>1. m.prev + Len(m.entries) <= Len(TL[m.term]) /\ Len(TL[m.term]) <= Len(TL2[m.term])
    BY <1>2 DEF Sent, Extends
  <2>2. Len(TL[m.term]) \in Nat /\ Len(TL2[m.term]) \in Nat
    BY <1>1
  <2> QED
    BY ONLY <1>1, <2>1, <2>2, SMT
<1>5. ASSUME NEW k \in 1..Len(m.entries) PROVE m.entries[k] = TL2[m.term][m.prev + k]
  <2>1. m.entries[k] = TL[m.term][m.prev + k]
    BY DEF Sent
  <2>2. m.prev + k \in 1..Len(TL[m.term])
    <3>1. m.prev + Len(m.entries) <= Len(TL[m.term]) /\ Len(TL[m.term]) \in Nat
      BY <1>1 DEF Sent
    <3> QED
      BY ONLY <1>1, <3>1, k \in 1..Len(m.entries), SMT
  <2> QED
    BY <1>2, <2>1, <2>2 DEF Extends
<1>6. m.prevTerm = (IF m.prev = 0 THEN 0 ELSE Term(TL2[m.term][m.prev]))
  <2>1. m.prev # 0 => m.prev \in 1..Len(TL[m.term])
    <3>1. m.prev + Len(m.entries) <= Len(TL[m.term]) /\ Len(TL[m.term]) \in Nat
      BY <1>1 DEF Sent
    <3> QED
      BY ONLY <1>1, <3>1, SMT
  <2>2. m.prev # 0 => TL2[m.term][m.prev] = TL[m.term][m.prev]
    BY <1>2, <2>1 DEF Extends
  <2> QED
    BY <2>2 DEF Sent
<1>7. Settled(TL2[m.term], m.commit, m.term, TL2, AK2)
  <2>1. Settled(TL[m.term], m.commit, m.term, TL2, AK2)
    <3>1. Settled(TL[m.term], m.commit, m.term, TL, AK)
      BY DEF Sent
    <3>2. m.commit \in Nat /\ m.term \in Nat
      BY <1>1
    <3>3. ASSUME NEW L, NEW k \in Nat, NEW u \in Nat, Settled(L, k, u, TL, AK)
          PROVE  Settled(L, k, u, TL2, AK2)
      BY <3>3, SettledStays
    <3> QED
      BY <3>1, <3>2, <3>3
  <2>2. m.commit <= Len(TL2[m.term])
    <3>1. m.commit <= Len(TL[m.term]) /\ Len(TL[m.term]) <= Len(TL2[m.term])
      BY <1>2, <2>1 DEF Settled, Extends
    <3>2. Len(TL[m.term]) \in Nat /\ Len(TL2[m.term]) \in Nat
      BY <1>1
    <3> QED
      BY ONLY <1>1, <3>1, <3>2, SMT
  <2>3. ASSUME NEW P, Extends(TL[m.term], P, m.commit) PROVE Extends(TL2[m.term], P, m.commit)
    <3>1. m.commit <= Len(TL[m.term]) /\ Len(TL[m.term]) \in Nat
      BY <1>1, <2>1 DEF Settled
    <3> QED
      BY ONLY <1>1, <1>2, <2>2, <2>3, <3>1, SMT DEF Extends
  <2> QED
    BY <2>1, <2>2, <2>3 DEF Settled
<1> QED
  BY <1>3, <1>4, <1>5, <1>6, <1>7 DEF Sent

(* What is chosen is pending. *)
LEMMA ChosenPending ==
    ASSUME NEW tm, NEW t \in Nat, NEW i \in Nat, NEW TL, NEW AK, Chosen(t, i, TL, AK)
    PROVE  Pending(tm, t, i, TL, AK)
  BY SMT DEF Chosen, Pending, Choosable

(* Two logs agree on what is settled in both. *)
LEMMA SettledAgree ==
    ASSUME NEW tm, NEW TL, NEW TO, NEW AK,
           \A t \in Nat : Len(TL[t]) \in Nat,
           TermLogs(TL, TO), LeadersHold(tm, TL, TO, AK),
           NEW L, NEW k \in Nat, NEW u \in Nat, Settled(L, k, u, TL, AK),
           NEW M, NEW j \in Nat, NEW w \in Nat, Settled(M, j, w, TL, AK),
           NEW x \in 1..k, x \in 1..j
    PROVE  L[x] = M[x]
<1>1. PICK t \in 1..u, i \in Nat : k <= i /\ Chosen(t, i, TL, AK) /\ Extends(L, TL[t], k)
  BY SMT DEF Settled
<1>2. PICK s \in 1..w, h \in Nat : j <= h /\ Chosen(s, h, TL, AK) /\ Extends(M, TL[s], j)
  BY SMT DEF Settled
<1>3. t \in Nat /\ s \in Nat
  BY SMT
<1>4. TO[t] # None /\ TO[s] # None
  <2>1. Len(TL[t]) # 0 /\ Len(TL[s]) # 0
    <3>1. i \in 1..Len(TL[t]) /\ h \in 1..Len(TL[s])
      BY <1>1, <1>2 DEF Chosen
    <3> QED
      BY ONLY <3>1, SMT
  <2> QED
    BY <1>3, <2>1, SMT DEF TermLogs
<1>5. Pending(tm, t, i, TL, AK) /\ Pending(tm, s, h, TL, AK)
  BY <1>1, <1>2, <1>3, ChosenPending
<1>6. t < s => Extends(TL[s], TL[t], i)
  BY <1>3, <1>4, <1>5 DEF LeadersHold
<1>7. s < t => Extends(TL[t], TL[s], h)
  BY <1>3, <1>4, <1>5 DEF LeadersHold
<1>8. TL[t][x] = TL[s][x]
  <2>1. x \in 1..i /\ x \in 1..h
    <3>1. k <= i /\ j <= h
      BY <1>1, <1>2
    <3> QED
      BY ONLY <3>1, k \in Nat, j \in Nat, i \in Nat, h \in Nat, x \in 1..k, x \in 1..j, SMT
  <2>2. t < s => TL[s][x] = TL[t][x]
    BY <1>6, <2>1 DEF Extends
  <2>3. s < t => TL[t][x] = TL[s][x]
    BY <1>7, <2>1 DEF Extends
  <2>4. t < s \/ s < t \/ t = s
    BY ONLY <1>3, SMT
  <2> QED
    BY <2>2, <2>3, <2>4
<1> QED
  BY <1>1, <1>2, <1>8 DEF Extends

(* One node's record changes, as in every handler but a leader's proposal. *)
NodeMoves(n, tm, vt, lg, cm, tm2, vt2, lg2, cm2) ==
    /\ \A m \in Nodes \ {n} : tm2[m] = tm[m] /\ vt2[m] = vt[m] /\ lg2[m] = lg[m] /\ cm2[m] = cm[m]
    /\ tm[n] <= tm2[n]
    /\ tm[n] = tm2[n] => vt[n] \in {None, vt2[n]}

VoteNoted(n, tm2, vt2, VH, VH2) ==
    \A t \in Nat, v \in Nodes :
        VH2[t][v] = IF v = n /\ t = tm2[n] THEN vt2[n] ELSE VH[t][v]

AckNoted(n, tm2, lg2, TL, AK, AK2) ==
    /\ \A t \in Nat, v \in Nodes : AK2[t][v] # AK[t][v] =>
        /\ v = n /\ t = tm2[n] /\ AK[t][v] <= AK2[t][v]
        /\ AK2[t][v] <= Len(TL[t]) /\ Extends(lg2[n], TL[t], AK2[t][v])

(* One node writes its record (handle_request_vote, handle_append_entries,   *)
(* update_commit_index): if the new log is backed, keeps every entry that    *)
(* may be committed and its commit index is settled, the history with the    *)
(* vote and the entries noted explains the cluster again.                    *)
LEMMA NodeStep ==
    ASSUME NEW tm, NEW vt, NEW lg, NEW cm, Records(tm, vt, lg, cm),
           NEW tm2, NEW vt2, NEW lg2, NEW cm2, Records(tm2, vt2, lg2, cm2),
           NEW TL, NEW TO, NEW VH, NEW AK, History(TL, TO, VH, AK),
           NEW VH2, NEW AK2, History(TL, TO, VH2, AK2),
           Core(tm, vt, lg, cm, TL, TO, VH, AK),
           NEW n \in Nodes,
           NodeMoves(n, tm, vt, lg, cm, tm2, vt2, lg2, cm2),
           VoteNoted(n, tm2, vt2, VH, VH2),
           AckNoted(n, tm2, lg2, TL, AK, AK2),
           Backed(lg2[n], tm2[n], TL, TO),
           \A t \in Nat, i \in Nat :
               i <= AK[t][n] /\ Pending(tm, t, i, TL, AK) => Extends(lg2[n], TL[t], i),
           Settled(lg2[n], cm2[n], tm2[n], TL, AK2)
    PROVE  /\ Core(tm2, vt2, lg2, cm2, TL, TO, VH2, AK2)
           /\ Evolves(tm, TL, TO, VH, AK, tm2, TL, TO, VH2, AK2)
<1>1. /\ \A m \in Nodes : tm[m] \in Nat /\ tm2[m] \in Nat /\ tm[m] <= tm2[m]
      /\ \A t \in Nat : Len(TL[t]) \in Nat
      /\ \A t \in Nat, v \in Nodes : AK[t][v] \in Nat /\ AK2[t][v] \in Nat
  <2>1. \A m \in Nodes : tm[m] \in Nat /\ tm2[m] \in Nat
    BY Types
  <2>2. \A t \in Nat : TL[t] \in Seq(Entry)
    BY Types
  <2>3. \A t \in Nat, v \in Nodes : AK[t][v] \in Nat /\ AK2[t][v] \in Nat
    BY Types
  <2>4. \A m \in Nodes : tm[m] <= tm2[m]
    BY <2>1, SMT DEF NodeMoves
  <2> QED
    BY <2>1, <2>2, <2>3, <2>4, SMT
<1>2. Grows(TL, TO, AK, TL, TO, AK2)
  BY <1>1, SMT DEF Grows, Extends, AckNoted
<1>3. TermLogs(TL, TO)
  BY DEF Core
<1>4. NodeLogs(tm2, lg2, TL, TO)
  BY DEF Core, NodeLogs, NodeMoves
<1>5. ASSUME NEW t \in Nat, NEW v \in Nodes, VH[t][v] # None PROVE VH2[t][v] = VH[t][v]
  <2>1. CASE v = n /\ t = tm2[n]
    <3>1. tm2[n] = tm[n]
      BY <1>1, <1>5, <2>1, SMT DEF Core, Ballots
    <3>2. VH[t][v] = vt[n]
      BY <2>1, <3>1 DEF Core, Ballots
    <3> QED
      BY <1>5, <2>1, <3>1, <3>2 DEF NodeMoves, VoteNoted
  <2>2. CASE ~(v = n /\ t = tm2[n])
    BY <2>2 DEF VoteNoted
  <2> QED
    BY <2>1, <2>2
<1>6. Elected(tm2, TO, VH2)
  <2>1. SUFFICES ASSUME NEW t \in Nat, TO[t] # None
                 PROVE  /\ 0 < t /\ t <= tm2[TO[t]]
                        /\ \E Q \in SUBSET Voters : Majority(Q) /\ \A v \in Q : VH2[t][v] = TO[t]
    BY DEF Elected
  <2>2. 0 < t /\ t <= tm[TO[t]]
    BY <2>1 DEF Core, Elected
  <2>3. TO[t] \in Nodes
    BY <2>1, Types DEF Nodes
  <2>4. PICK Q \in SUBSET Voters : Majority(Q) /\ \A v \in Q : VH[t][v] = TO[t]
    BY <2>1 DEF Core, Elected
  <2>5. \A v \in Q : VH2[t][v] = TO[t]
    BY <1>5, <2>1, <2>4 DEF Nodes
  <2>6. t <= tm2[TO[t]]
    BY <1>1, <2>2, <2>3, SMT
  <2> QED
    BY <2>2, <2>4, <2>5, <2>6
<1>7. Ballots(tm2, vt2, VH2)
  <2>1. SUFFICES ASSUME NEW v \in Nodes
                 PROVE  /\ VH2[tm2[v]][v] = vt2[v]
                        /\ \A t \in Nat : t > tm2[v] => VH2[t][v] = None
    BY DEF Ballots
  <2>2. VH[tm[v]][v] = vt[v] /\ \A t \in Nat : t > tm[v] => VH[t][v] = None
    BY DEF Core, Ballots
  <2>3. VH2[tm2[v]][v] = vt2[v]
    <3>1. CASE v = n
      BY <1>1, <3>1 DEF VoteNoted
    <3>2. CASE v # n
      <4>1. VH2[tm2[v]][v] = VH[tm2[v]][v]
        BY <1>1, <3>2 DEF VoteNoted
      <4> QED
        BY <2>2, <3>2, <4>1 DEF NodeMoves
    <3> QED
      BY <3>1, <3>2
  <2>4. ASSUME NEW t \in Nat, t > tm2[v] PROVE VH2[t][v] = None
    <3>1. VH2[t][v] = VH[t][v]
      BY <1>1, <2>4, SMT DEF VoteNoted
    <3>2. t > tm[v]
      BY <1>1, <2>4, SMT
    <3> QED
      BY <2>2, <3>1, <3>2
  <2> QED
    BY <2>3, <2>4
<1>8. Acks(tm2, TL, AK2)
  <2>1. SUFFICES ASSUME NEW v \in Nodes, NEW t \in Nat
                 PROVE  AK2[t][v] <= Len(TL[t]) /\ (t > tm2[v] => AK2[t][v] = 0)
    BY DEF Acks
  <2>2. AK[t][v] <= Len(TL[t]) /\ (t > tm[v] => AK[t][v] = 0)
    BY DEF Core, Acks
  <2>3. CASE AK2[t][v] # AK[t][v]
    <3>1. v = n /\ t = tm2[n] /\ AK2[t][v] <= Len(TL[t])
      BY <2>3 DEF AckNoted
    <3>2. ~(t > tm2[v])
      <4>1. tm2[n] \in Nat
        BY <1>1
      <4> QED
        BY ONLY <3>1, <4>1, SMT
    <3> QED
      BY <3>1, <3>2
  <2>4. CASE AK2[t][v] = AK[t][v]
    <3>1. tm[v] \in Nat /\ tm2[v] \in Nat /\ tm[v] <= tm2[v]
      BY <1>1
    <3> QED
      BY ONLY <2>2, <2>4, <3>1, t \in Nat, SMT
  <2> QED
    BY <2>3, <2>4
<1>9. ASSUME NEW t \in Nat, NEW i \in Nat, Pending(tm2, t, i, TL, AK2)
      PROVE  Pending(tm, t, i, TL, AK)
  <2>1. \A v \in Nodes : AK2[t][v] # AK[t][v] => t = tm2[v]
    BY DEF AckNoted
  <2> QED
    BY <1>1, <1>9, <2>1, PendingBefore
<1>10. LeadersHold(tm2, TL, TO, AK2)
  BY <1>9 DEF Core, LeadersHold
<1>11. NodesHold(tm2, lg2, TL, AK2)
  <2>1. SUFFICES ASSUME NEW v \in Nodes, NEW t \in Nat, NEW i \in Nat,
                        i <= AK2[t][v], Pending(tm2, t, i, TL, AK2)
                 PROVE  Extends(lg2[v], TL[t], i)
    BY DEF NodesHold
  <2>2. Pending(tm, t, i, TL, AK)
    BY <1>9, <2>1
  <2>3. CASE AK2[t][v] # AK[t][v]
    <3>1. v = n /\ AK2[t][v] \in Nat /\ Extends(lg2[v], TL[t], AK2[t][v])
      BY <1>1, <2>3 DEF AckNoted
    <3>2. Len(lg2[v]) \in Nat
      BY Types, LenNat
    <3> QED
      BY ONLY <2>1, <3>1, <3>2, i \in Nat, SMT DEF Extends
  <2>4. CASE AK2[t][v] = AK[t][v] /\ v = n
    BY <2>1, <2>2, <2>4
  <2>5. CASE AK2[t][v] = AK[t][v] /\ v # n
    BY <2>1, <2>2, <2>5 DEF Core, NodesHold, NodeMoves
  <2> QED
    BY <2>3, <2>4, <2>5
<1>12. Commits(tm2, lg2, cm2, TL, AK2)
  <2>1. SUFFICES ASSUME NEW m \in Nodes, m # n PROVE Settled(lg2[m], cm2[m], tm2[m], TL, AK2)
    BY DEF Commits
  <2>2. lg2[m] = lg[m] /\ cm2[m] = cm[m] /\ tm2[m] = tm[m]
    BY <2>1 DEF NodeMoves
  <2>3. cm[m] \in Nat
    BY Types
  <2>4. Settled(lg[m], cm[m], tm[m], TL, AK)
    BY DEF Core, Commits
  <2>5. Settled(lg[m], cm[m], tm[m], TL, AK2)
    <3>1. tm[m] \in Nat /\ \A t \in Nat : Len(TL[t]) \in Nat /\ Len(TL[t]) \in Nat
      BY <1>1
    <3> QED
      BY ONLY <1>1, <1>2, <2>3, <2>4, <3>1, SettledStays, Zenon
  <2> QED
    BY <2>2, <2>5
<1>13. Evolves(tm, TL, TO, VH, AK, tm2, TL, TO, VH2, AK2)
  <2>1. \A t \in Nat, v \in Nodes : AK2[t][v] # AK[t][v] => tm[v] <= t
    BY <1>1 DEF AckNoted
  <2> QED
    BY <1>1, <1>2, <1>5, <1>9, <2>1 DEF Evolves
<1> QED
  BY <1>3, <1>4, <1>6, <1>7, <1>8, <1>10, <1>11, <1>12, <1>13 DEF Core

(* A node that voted in a term has reached it. *)
LEMMA VotersReach ==
    ASSUME NEW tm, NEW vt, NEW VH, Ballots(tm, vt, VH), NEW v \in Nodes, tm[v] \in Nat,
           NEW t \in Nat, VH[t][v] # None
    PROVE  t <= tm[v]
  BY SMT DEF Ballots

(* What is pending is held by one of any majority that is past the term. *)
LEMMA PendingHeld ==
    ASSUME NEW tm, NEW TL, NEW AK, NEW t \in Nat, NEW i \in Nat, FiniteFacts,
           \A v \in Nodes : tm[v] \in Nat,
           NEW V \in SUBSET Voters, Majority(V), \A v \in V : t < tm[v],
           Pending(tm, t, i, TL, AK)
    PROVE  \E v \in V : i <= AK[t][v]
<1>1. PICK Q \in SUBSET Voters : Majority(Q) /\ \A v \in Q : i <= AK[t][v] \/ tm[v] <= t
  BY DEF Pending, Choosable
<1>2. PICK v \in V : v \in Q
  BY <1>1 DEF FiniteFacts
<1>3. v \in Nodes
  BY DEF Nodes
<1> QED
  BY <1>1, <1>2, <1>3, SMT

(* A candidate with the votes of V wins term T: its log becomes the        *)
(* leader's log.                                                           *)
Wins(T, c, L, TL, TO, AK, TL2, TO2, AK2) ==
    /\ \A t \in Nat : t # T => TL2[t] = TL[t] /\ TO2[t] = TO[t]
    /\ TL2[T] = L /\ TO2[T] = c
    /\ \A t \in Nat, v \in Nodes : ~(t = T /\ v = c) => AK2[t][v] = AK[t][v]
    /\ AK2[T][c] = Len(L)

(* The candidate c has the votes of V in its term T. *)
Elects(tm, vt, lg, cm, TL, TO, VH, AK, TL2, TO2, AK2, c, T, V) ==
    /\ Records(tm, vt, lg, cm) /\ History(TL, TO, VH, AK) /\ History(TL2, TO2, VH, AK2)
    /\ Core(tm, vt, lg, cm, TL, TO, VH, AK)
    /\ c \in Voters /\ T \in Nat /\ T = tm[c]
    /\ V \in SUBSET Voters /\ Majority(V) /\ \A v \in V : VH[T][v] = c
    /\ Standing(c, V, tm, lg, TL, TO, AK)
    /\ Wins(T, c, lg[c], TL, TO, AK, TL2, TO2, AK2)

(* A candidate with the votes of a majority becomes the leader of its term:  *)
(* no one led the term before, and its log holds every entry that may have   *)
(* been committed in an earlier term.                                        *)
LEMMA WinStep ==
    ASSUME NEW tm, NEW vt, NEW lg, NEW cm, NEW TL, NEW TO, NEW VH, NEW AK,
           NEW TL2, NEW TO2, NEW AK2, NEW c, NEW T, NEW V,
           Elects(tm, vt, lg, cm, TL, TO, VH, AK, TL2, TO2, AK2, c, T, V)
    PROVE  /\ Core(tm, vt, lg, cm, TL2, TO2, VH, AK2)
           /\ Evolves(tm, TL, TO, VH, AK, tm, TL2, TO2, VH, AK2)
           /\ TO[T] = None
<1> SUFFICES ASSUME Records(tm, vt, lg, cm), History(TL, TO, VH, AK), History(TL2, TO2, VH, AK2),
                    Core(tm, vt, lg, cm, TL, TO, VH, AK),
                    c \in Voters, T \in Nat, T = tm[c],
                    V \in SUBSET Voters, Majority(V), \A v \in V : VH[T][v] = c,
                    Standing(c, V, tm, lg, TL, TO, AK),
                    Wins(T, c, lg[c], TL, TO, AK, TL2, TO2, AK2)
             PROVE  /\ Core(tm, vt, lg, cm, TL2, TO2, VH, AK2)
                    /\ Evolves(tm, TL, TO, VH, AK, tm, TL2, TO2, VH, AK2)
                    /\ TO[T] = None
  BY DEF Elects
<1>1. /\ c \in Nodes /\ c # None
      /\ \A m \in Nodes : tm[m] \in Nat /\ Len(lg[m]) \in Nat /\ cm[m] \in Nat
      /\ \A t \in Nat : Len(TL[t]) \in Nat /\ Len(TL2[t]) \in Nat
      /\ \A t \in Nat, v \in Nodes : AK[t][v] \in Nat /\ AK2[t][v] \in Nat
  <2>1. \A m \in Nodes : tm[m] \in Nat /\ lg[m] \in Seq(Entry) /\ cm[m] \in Nat
    BY Types
  <2>2. \A t \in Nat : TL[t] \in Seq(Entry) /\ TL2[t] \in Seq(Entry)
    BY Types
  <2>3. \A t \in Nat, v \in Nodes : AK[t][v] \in Nat /\ AK2[t][v] \in Nat
    BY Types
  <2>4. c \in Nodes /\ c # None
    BY MembersAssumption DEF Nodes
  <2> QED
    BY <2>1, <2>2, <2>3, <2>4, LenNat
<1>0. /\ T > 0 /\ TO[T] # c
      /\ \A i \in 1..Len(lg[c]) : Term(lg[c][i]) < T
      /\ \A v \in V, t \in Nat, i \in Nat :
             t < T /\ i <= AK[t][v] /\ Pending(tm, t, i, TL, AK) => Extends(lg[c], TL[t], i)
  BY DEF Standing
<1>2. TO[T] = None
  <2>1. SUFFICES ASSUME TO[T] # None PROVE FALSE
    OBVIOUS
  <2>2. PICK Q \in SUBSET Voters : Majority(Q) /\ \A v \in Q : VH[T][v] = TO[T]
    BY <2>1 DEF Core, Elected
  <2>3. PICK v \in V : v \in Q
    BY <2>2 DEF Core, FiniteFacts
  <2> QED
    BY <1>0, <2>2, <2>3
<1>3. TL[T] = <<>> /\ Len(TL[T]) = 0
  BY <1>2, SMT DEF Core, TermLogs
<1>4. \A v \in Nodes : AK[T][v] = 0
  BY <1>1, <1>3, SMT DEF Core, Acks
<1>5. Grows(TL, TO, AK, TL2, TO2, AK2)
  <2>1. ASSUME NEW t \in Nat PROVE Extends(TL2[t], TL[t], Len(TL[t]))
    <3>1. CASE t = T
      <4>1. Len(TL[t]) = 0 /\ Len(TL2[t]) \in Nat
        BY <1>1, <1>3, <3>1
      <4> QED
        BY ONLY <4>1, SMT DEF Extends
    <3>2. CASE t # T
      <4>1. TL2[t] = TL[t] /\ Len(TL[t]) \in Nat
        BY <1>1, <3>2 DEF Wins
      <4> QED
        BY ONLY <4>1, SMT DEF Extends
    <3> QED
      BY <3>1, <3>2
  <2>2. ASSUME NEW t \in Nat, TO[t] # None PROVE TO2[t] = TO[t]
    BY <1>2, <2>2 DEF Wins
  <2>3. ASSUME NEW t \in Nat, NEW v \in Nodes PROVE AK[t][v] <= AK2[t][v]
    <3>1. AK[t][v] \in Nat /\ AK2[t][v] \in Nat
      BY <1>1
    <3>2. AK2[t][v] = AK[t][v] \/ AK[t][v] = 0
      BY <1>4 DEF Wins
    <3> QED
      BY ONLY <3>1, <3>2, SMT
  <2> QED
    BY <2>1, <2>2, <2>3 DEF Grows
<1>6. ASSUME NEW L, Len(L) \in Nat, NEW t \in Nat, Backed(L, t, TL, TO)
      PROVE  Backed(L, t, TL2, TO2)
  BY <1>1, <1>5, <1>6, BackedKept
<1>7. Backed(lg[c], T, TL2, TO2)
  BY <1>1, <1>6 DEF Core, NodeLogs
<1>8. TermLogs(TL2, TO2)
  <2>1. SUFFICES ASSUME NEW t \in Nat
                 PROVE  Backed(TL2[t], t, TL2, TO2) /\ (TO2[t] = None => TL2[t] = <<>>)
    BY DEF TermLogs
  <2>2. CASE t = T
    BY <1>1, <1>7, <2>2 DEF Wins
  <2>3. CASE t # T
    BY <1>1, <1>6, <2>3 DEF Wins, Core, TermLogs
  <2> QED
    BY <2>2, <2>3
<1>9. NodeLogs(tm, lg, TL2, TO2)
  BY <1>1, <1>6 DEF Core, NodeLogs
<1>10. Elected(tm, TO2, VH)
  <2>1. SUFFICES ASSUME NEW t \in Nat, TO2[t] # None
                 PROVE  /\ 0 < t /\ t <= tm[TO2[t]]
                        /\ \E Q \in SUBSET Voters : Majority(Q) /\ \A v \in Q : VH[t][v] = TO2[t]
    BY DEF Elected
  <2>2. CASE t = T
    <3>1. TO2[t] = c
      BY <2>2 DEF Wins
    <3>2. \E Q \in SUBSET Voters : Majority(Q) /\ \A v \in Q : VH[t][v] = TO2[t]
      BY <2>2, <3>1
    <3>3. 0 < t /\ t <= tm[TO2[t]]
      BY <1>0, <1>1, <2>2, <3>1, SMT
    <3> QED
      BY <3>2, <3>3
  <2>3. CASE t # T
    BY <2>1, <2>3, SMT DEF Wins, Core, Elected
  <2> QED
    BY <2>2, <2>3
<1>11. Ballots(tm, vt, VH)
  BY DEF Core
<1>12. Acks(tm, TL2, AK2)
  <2>1. SUFFICES ASSUME NEW v \in Nodes, NEW t \in Nat
                 PROVE  AK2[t][v] <= Len(TL2[t]) /\ (t > tm[v] => AK2[t][v] = 0)
    BY DEF Acks
  <2>2. AK[t][v] <= Len(TL[t]) /\ (t > tm[v] => AK[t][v] = 0)
    BY DEF Core, Acks
  <2>3. CASE t = T /\ v = c
    BY <1>1, <2>3, SMT DEF Wins
  <2>4. CASE t = T /\ v # c
    BY <1>1, <1>4, <2>2, <2>4, SMT DEF Wins
  <2>5. CASE t # T
    BY <1>1, <2>2, <2>5 DEF Wins
  <2> QED
    BY <2>3, <2>4, <2>5
<1>13. ASSUME NEW t \in Nat, NEW i \in Nat, Pending(tm, t, i, TL2, AK2)
       PROVE  t # T /\ TL2[t] = TL[t] /\ Pending(tm, t, i, TL, AK)
  <2>1. t # T
    <3>1. SUFFICES ASSUME t = T PROVE FALSE
      OBVIOUS
    <3>2. i \in 1..Len(lg[c]) /\ Term(lg[c][i]) = T
      BY <1>13, <3>1 DEF Pending, Wins
    <3>3. Term(lg[c][i]) < T
      BY <1>0, <3>2
    <3> QED
      BY <3>2, <3>3, SMT
  <2>2. TL2[t] = TL[t]
    BY <2>1 DEF Wins
  <2>3. \A v \in Nodes : AK2[t][v] = AK[t][v]
    BY <2>1 DEF Wins
  <2>4. Pending(tm, t, i, TL, AK2)
    BY <1>13, <2>2 DEF Pending
  <2>5. Pending(tm, t, i, TL, AK)
    BY <2>3, <2>4 DEF Pending, Choosable, Nodes
  <2> QED
    BY <2>1, <2>2, <2>5
<1>14. LeadersHold(tm, TL2, TO2, AK2)
  <2>1. SUFFICES ASSUME NEW t \in Nat, NEW u \in Nat, NEW i \in Nat,
                        t < u, TO2[u] # None, Pending(tm, t, i, TL2, AK2)
                 PROVE  Extends(TL2[u], TL2[t], i)
    BY DEF LeadersHold
  <2>2. TL2[t] = TL[t] /\ Pending(tm, t, i, TL, AK)
    BY <1>13, <2>1
  <2>3. CASE u = T
    <3>1. ASSUME NEW v \in V PROVE t < tm[v]
      <4>1. v \in Nodes /\ VH[T][v] # None
        BY <1>1 DEF Nodes
      <4>2. T <= tm[v]
        BY <1>1, <1>11, <4>1, VotersReach
      <4> QED
        BY <1>1, <2>1, <2>3, <4>1, <4>2, SMT
    <3>2. PICK v \in V : i <= AK[t][v]
      BY <1>1, <2>2, <3>1, PendingHeld DEF Core
    <3>3. Extends(lg[c], TL[t], i)
      BY <1>0, <2>1, <2>2, <2>3, <3>2
    <3> QED
      BY <2>2, <2>3, <3>3 DEF Wins
  <2>4. CASE u # T
    BY <2>1, <2>2, <2>4 DEF Wins, Core, LeadersHold
  <2> QED
    BY <2>3, <2>4
<1>15. NodesHold(tm, lg, TL2, AK2)
  <2>1. SUFFICES ASSUME NEW v \in Nodes, NEW t \in Nat, NEW i \in Nat,
                        i <= AK2[t][v], Pending(tm, t, i, TL2, AK2)
                 PROVE  Extends(lg[v], TL2[t], i)
    BY DEF NodesHold
  <2>2. t # T /\ TL2[t] = TL[t] /\ Pending(tm, t, i, TL, AK)
    BY <1>13, <2>1
  <2>3. AK2[t][v] = AK[t][v]
    BY <2>2 DEF Wins
  <2> QED
    BY <2>1, <2>2, <2>3 DEF Core, NodesHold
<1>16. Commits(tm, lg, cm, TL2, AK2)
  <2>1. SUFFICES ASSUME NEW m \in Nodes PROVE Settled(lg[m], cm[m], tm[m], TL2, AK2)
    BY DEF Commits
  <2>2. Settled(lg[m], cm[m], tm[m], TL, AK)
    BY DEF Core, Commits
  <2> QED
    <3>1. cm[m] \in Nat /\ tm[m] \in Nat
      BY <1>1
    <3> QED
      BY ONLY <1>1, <1>5, <2>2, <3>1, SettledStays, Zenon
<1>17. Evolves(tm, TL, TO, VH, AK, tm, TL2, TO2, VH, AK2)
  <2>1. \A v \in Nodes : tm[v] <= tm[v]
    BY <1>1, SMT
  <2>2. \A t \in Nat, v \in Nodes : AK2[t][v] # AK[t][v] => tm[v] <= t
    BY <1>1, SMT DEF Wins
  <2> QED
    BY <1>5, <1>13, <2>1, <2>2 DEF Evolves
<1> QED
  BY <1>2, <1>8, <1>9, <1>10, <1>11, <1>12, <1>14, <1>15, <1>16, <1>17 DEF Core

(* The leader l of term T appends the entry e to its log. *)
Proposes(T, l, e, lg, TL, AK, lg2, TL2, AK2) ==
    /\ \A m \in Nodes \ {l} : lg2[m] = lg[m]
    /\ lg2[l] = Append(lg[l], e)
    /\ \A t \in Nat : t # T => TL2[t] = TL[t]
    /\ TL2[T] = lg2[l]
    /\ \A t \in Nat, v \in Nodes : ~(t = T /\ v = l) => AK2[t][v] = AK[t][v]
    /\ AK2[T][l] = Len(lg2[l])

(* A leader appends an entry of its own term (put_with, cas_internal): its   *)
(* term's log grows by that entry.                                           *)
LEMMA ProposeStep ==
    ASSUME NEW tm, NEW vt, NEW lg, NEW cm, Records(tm, vt, lg, cm),
           NEW lg2, Records(tm, vt, lg2, cm),
           NEW TL, NEW TO, NEW VH, NEW AK, History(TL, TO, VH, AK),
           NEW TL2, NEW AK2, History(TL2, TO, VH, AK2),
           Core(tm, vt, lg, cm, TL, TO, VH, AK),
           NEW l \in Voters, NEW T \in Nat, T = tm[l], TO[T] = l, TL[T] = lg[l], AK[T][l] = Len(lg[l]),
           NEW e \in Entry, Term(e) = T,
           Proposes(T, l, e, lg, TL, AK, lg2, TL2, AK2)
    PROVE  /\ Core(tm, vt, lg2, cm, TL2, TO, VH, AK2)
           /\ Evolves(tm, TL, TO, VH, AK, tm, TL2, TO, VH, AK2)
<1>1. /\ l \in Nodes /\ l # None
      /\ \A m \in Nodes : tm[m] \in Nat /\ Len(lg[m]) \in Nat /\ Len(lg2[m]) \in Nat /\ cm[m] \in Nat
      /\ \A t \in Nat : Len(TL[t]) \in Nat /\ Len(TL2[t]) \in Nat
      /\ \A t \in Nat, v \in Nodes : AK[t][v] \in Nat /\ AK2[t][v] \in Nat
  <2>1. \A m \in Nodes : tm[m] \in Nat /\ lg[m] \in Seq(Entry) /\ lg2[m] \in Seq(Entry) /\ cm[m] \in Nat
    BY Types
  <2>2. \A t \in Nat : TL[t] \in Seq(Entry) /\ TL2[t] \in Seq(Entry)
    BY Types
  <2>3. \A t \in Nat, v \in Nodes : AK[t][v] \in Nat /\ AK2[t][v] \in Nat
    BY Types
  <2>4. l \in Nodes /\ l # None
    BY MembersAssumption DEF Nodes
  <2> QED
    BY <2>1, <2>2, <2>3, <2>4, LenNat
<1>2. /\ Len(lg2[l]) = Len(lg[l]) + 1 /\ lg2[l][Len(lg[l]) + 1] = e
      /\ Extends(lg2[l], lg[l], Len(lg[l]))
  <2>1. lg[l] \in Seq(Entry)
    BY <1>1, Types
  <2>2. lg2[l] = Append(lg[l], e)
    BY DEF Proposes
  <2>3. Len(lg2[l]) = Len(lg[l]) + 1 /\ lg2[l][Len(lg[l]) + 1] = e
    BY <2>1, <2>2, SMT
  <2>4. \A k \in 1..Len(lg[l]) : lg2[l][k] = lg[l][k]
    BY <2>1, <2>2, SMT
  <2> QED
    BY <1>1, <2>3, <2>4, SMT DEF Extends
<1>3. Grows(TL, TO, AK, TL2, TO, AK2)
  <2>1. ASSUME NEW t \in Nat PROVE Extends(TL2[t], TL[t], Len(TL[t]))
    <3>1. CASE t = T
      BY <1>2, <3>1 DEF Proposes
    <3>2. CASE t # T
      BY <1>1, <3>2, SMT DEF Proposes, Extends
    <3> QED
      BY <3>1, <3>2
  <2>2. ASSUME NEW t \in Nat, NEW v \in Nodes PROVE AK[t][v] <= AK2[t][v]
    <3>1. CASE t = T /\ v = l
      <4>1. AK2[t][v] = Len(lg[l]) + 1 /\ AK[t][v] = Len(lg[l]) /\ Len(lg[l]) \in Nat
        BY <1>1, <1>2, <3>1 DEF Proposes
      <4> QED
        BY ONLY <4>1, SMT
    <3>2. CASE ~(t = T /\ v = l)
      <4>1. AK2[t][v] = AK[t][v] /\ AK[t][v] \in Nat
        BY <1>1, <3>2 DEF Proposes
      <4> QED
        BY ONLY <4>1, SMT
    <3> QED
      BY <3>1, <3>2
  <2> QED
    BY <2>1, <2>2 DEF Grows
<1>4. ASSUME NEW L, Len(L) \in Nat, NEW t \in Nat, Backed(L, t, TL, TO)
      PROVE  Backed(L, t, TL2, TO)
  BY <1>1, <1>3, <1>4, BackedKept
<1>5. Backed(lg2[l], T, TL2, TO)
  <2>1. Backed(lg[l], T, TL2, TO)
    BY <1>1, <1>4 DEF Core, NodeLogs
  <2>2. SUFFICES ASSUME NEW i \in 1..Len(lg2[l])
                 PROVE  /\ Term(lg2[l][i]) \in 1..T
                        /\ TO[Term(lg2[l][i])] # None
                        /\ Extends(TL2[Term(lg2[l][i])], lg2[l], i)
    BY DEF Backed
  <2>3. CASE i <= Len(lg[l])
    <3>1. lg2[l][i] = lg[l][i]
      BY <1>1, <1>2, <2>3, SMT DEF Extends
    <3>2. /\ Term(lg[l][i]) \in 1..T
          /\ TO[Term(lg[l][i])] # None
          /\ Extends(TL2[Term(lg[l][i])], lg[l], i)
      BY <1>1, <2>1, <2>3, SMT DEF Backed
    <3>3. Extends(TL2[Term(lg[l][i])], lg2[l], i)
      BY <1>1, <1>2, <2>3, <3>2, ExtendsKept, SMT
    <3> QED
      BY <3>1, <3>2, <3>3
  <2>4. CASE i = Len(lg[l]) + 1
    <3>1. Term(lg2[l][i]) = T
      BY <1>2, <2>4
    <3>2. T \in 1..T
      <4>1. TO[T] # None
        BY <1>1
      <4>2. 0 < T
        BY <4>1 DEF Core, Elected
      <4> QED
        BY <4>2, SMT
    <3>3. Extends(TL2[T], lg2[l], i)
      BY <1>1, <2>2, SMT DEF Proposes, Extends
    <3> QED
      BY <1>1, <3>1, <3>2, <3>3
  <2> QED
    BY <1>1, <1>2, <2>3, <2>4, SMT
<1>6. TermLogs(TL2, TO)
  <2>1. SUFFICES ASSUME NEW t \in Nat
                 PROVE  Backed(TL2[t], t, TL2, TO) /\ (TO[t] = None => TL2[t] = <<>>)
    BY DEF TermLogs
  <2>2. CASE t = T
    BY <1>1, <1>5, <2>2 DEF Proposes
  <2>3. CASE t # T
    BY <1>1, <1>4, <2>3 DEF Proposes, Core, TermLogs
  <2> QED
    BY <2>2, <2>3
<1>7. NodeLogs(tm, lg2, TL2, TO)
  <2>1. SUFFICES ASSUME NEW m \in Nodes, m # l PROVE Backed(lg2[m], tm[m], TL2, TO)
    BY <1>5 DEF NodeLogs
  <2> QED
    BY <1>1, <1>4, <2>1 DEF Proposes, Core, NodeLogs
<1>8. Acks(tm, TL2, AK2)
  <2>1. SUFFICES ASSUME NEW v \in Nodes, NEW t \in Nat
                 PROVE  AK2[t][v] <= Len(TL2[t]) /\ (t > tm[v] => AK2[t][v] = 0)
    BY DEF Acks
  <2>2. AK[t][v] <= Len(TL[t]) /\ (t > tm[v] => AK[t][v] = 0)
    BY DEF Core, Acks
  <2>3. CASE t = T /\ v = l
    BY <1>1, <2>3, SMT DEF Proposes
  <2>4. CASE t = T /\ v # l
    <3>1. AK2[t][v] = AK[t][v] /\ Len(TL2[t]) = Len(TL[t]) + 1
      BY <1>2, <2>4 DEF Proposes
    <3> QED
      BY <1>1, <2>2, <3>1, SMT
  <2>5. CASE t # T
    BY <1>1, <2>2, <2>5 DEF Proposes
  <2> QED
    BY <2>3, <2>4, <2>5
<1>9. ASSUME NEW t \in Nat, NEW i \in Nat, Pending(tm, t, i, TL2, AK2), i <= Len(TL[t])
      PROVE  Pending(tm, t, i, TL, AK) /\ \A L : Extends(L, TL[t], i) => Extends(L, TL2[t], i)
  <2>1. Extends(TL2[t], TL[t], Len(TL[t]))
    BY <1>3 DEF Grows
  <2>2. TL2[t][i] = TL[t][i]
    BY <1>1, <1>9, <2>1, SMT DEF Extends, Pending
  <2>3. Pending(tm, t, i, TL, AK2)
    BY <1>1, <1>9, <2>2, SMT DEF Pending
  <2>4. \A v \in Nodes : AK2[t][v] # AK[t][v] => t = tm[v]
    BY DEF Proposes
  <2>5. \A v \in Nodes : tm[v] \in Nat /\ tm[v] <= tm[v]
    BY <1>1, SMT
  <2>6. Pending(tm, t, i, TL, AK)
    <3>1. PICK Q \in SUBSET Voters : Majority(Q) /\ \A v \in Q : i <= AK2[t][v] \/ tm[v] <= t
      BY <2>3 DEF Pending, Choosable
    <3>2. \A v \in Q : i <= AK[t][v] \/ tm[v] <= t
      BY <2>4, <2>5, <3>1 DEF Nodes
    <3> QED
      BY <2>3, <3>1, <3>2 DEF Pending, Choosable
  <2>7. ASSUME NEW L, Extends(L, TL[t], i) PROVE Extends(L, TL2[t], i)
    BY <1>1, <1>9, <2>1, <2>7, ExtendsKept
  <2> QED
    BY <2>6, <2>7
<1>10. ASSUME NEW t \in Nat, NEW i \in Nat, Pending(tm, t, i, TL2, AK2), ~(i <= Len(TL[t]))
       PROVE  t = T /\ i = Len(lg2[l])
  <2>1. i \in 1..Len(TL2[t])
    BY <1>10 DEF Pending
  <2>2. Len(TL[t]) \in Nat /\ Len(TL2[t]) \in Nat
    BY <1>1
  <2>3. TL2[t] # TL[t]
    BY ONLY <1>10, <2>1, <2>2, SMT
  <2>4. t = T
    BY <2>3 DEF Proposes
  <2>5. Len(TL2[t]) = Len(lg2[l]) /\ Len(TL2[t]) = Len(TL[t]) + 1
    BY <1>2, <2>4 DEF Proposes
  <2>6. i = Len(TL2[t])
    BY ONLY <1>10, <2>1, <2>2, <2>5, SMT
  <2> QED
    BY <2>4, <2>5, <2>6
<1>11. LeadersHold(tm, TL2, TO, AK2)
  <2>1. SUFFICES ASSUME NEW t \in Nat, NEW u \in Nat, NEW i \in Nat,
                        t < u, TO[u] # None, Pending(tm, t, i, TL2, AK2)
                 PROVE  Extends(TL2[u], TL2[t], i)
    BY DEF LeadersHold
  <2>2. CASE i <= Len(TL[t])
    <3>1. Extends(TL[u], TL[t], i)
      BY <1>9, <2>1, <2>2 DEF Core, LeadersHold
    <3>2. Extends(TL2[u], TL[u], Len(TL[u])) /\ i <= Len(TL[u])
      BY <1>3, <3>1 DEF Grows, Extends
    <3>3. Extends(TL2[u], TL[t], i)
      BY <1>1, <3>1, <3>2, ExtendsTrans
    <3> QED
      BY <1>9, <2>1, <2>2, <3>3
  <2>3. CASE ~(i <= Len(TL[t]))
    <3>1. t = T /\ i = Len(lg2[l])
      BY <1>10, <2>1, <2>3
    <3>2. PICK V \in SUBSET Voters : Majority(V) /\ \A v \in V : VH[u][v] = TO[u]
      BY <2>1 DEF Core, Elected
    <3>3. ASSUME NEW v \in V PROVE t < tm[v]
      <4>1. v \in Nodes /\ VH[u][v] # None
        BY <2>1, <3>2 DEF Nodes
      <4>2. u <= tm[v]
        BY <1>1, <4>1, VotersReach DEF Core
      <4> QED
        BY <1>1, <2>1, <4>1, <4>2, SMT
    <3>4. PICK v \in V : i <= AK2[t][v]
      BY <1>1, <2>1, <3>2, <3>3, PendingHeld DEF Core
    <3>5. v # l /\ v \in Nodes
      BY <1>1, <3>1, <3>3, SMT DEF Nodes
    <3>6. AK2[t][v] = AK[t][v] /\ AK[t][v] <= Len(TL[t])
      BY <3>5 DEF Proposes, Core, Acks
    <3> QED
      BY <1>1, <2>3, <3>4, <3>5, <3>6, SMT
  <2> QED
    BY <2>2, <2>3
<1>12. NodesHold(tm, lg2, TL2, AK2)
  <2>1. SUFFICES ASSUME NEW v \in Nodes, NEW t \in Nat, NEW i \in Nat,
                        i <= AK2[t][v], Pending(tm, t, i, TL2, AK2)
                 PROVE  Extends(lg2[v], TL2[t], i)
    BY DEF NodesHold
  <2>2. CASE v = l /\ t = T
    BY <1>1, <2>1, <2>2 DEF Pending, Proposes, Extends
  <2>3. CASE ~(v = l /\ t = T)
    <3>1. AK2[t][v] = AK[t][v] /\ AK[t][v] <= Len(TL[t])
      BY <2>3 DEF Proposes, Core, Acks
    <3>2. i <= Len(TL[t])
      BY <1>1, <2>1, <3>1, SMT
    <3>3. Extends(lg[v], TL[t], i)
      BY <1>9, <2>1, <3>1, <3>2 DEF Core, NodesHold
    <3>4. Extends(lg[v], TL2[t], i)
      BY <1>9, <2>1, <3>2, <3>3
    <3>5. CASE v # l
      BY <3>4, <3>5 DEF Proposes
    <3>6. CASE v = l
      <4>1. i <= Len(lg[l])
        BY <3>4, <3>6 DEF Extends
      <4> QED
        BY <1>1, <1>2, <3>4, <3>6, <4>1, ExtendsTrans
    <3> QED
      BY <3>5, <3>6
  <2> QED
    BY <2>2, <2>3
<1>13. Commits(tm, lg2, cm, TL2, AK2)
  <2>1. SUFFICES ASSUME NEW m \in Nodes PROVE Settled(lg2[m], cm[m], tm[m], TL2, AK2)
    BY DEF Commits
  <2>2. Settled(lg[m], cm[m], tm[m], TL, AK)
    BY DEF Core, Commits
  <2>3. Settled(lg[m], cm[m], tm[m], TL2, AK2)
    <3>1. cm[m] \in Nat /\ tm[m] \in Nat
      BY <1>1
    <3> QED
      BY ONLY <1>1, <1>3, <2>2, <3>1, SettledStays, Zenon
  <2>4. CASE m = l
    <3>1. cm[m] <= Len(lg[m])
      BY <2>3 DEF Settled
    <3>2. ASSUME NEW P, Len(P) \in Nat, Extends(lg[m], P, cm[m]) PROVE Extends(lg2[m], P, cm[m])
      BY <1>1, <1>2, <2>4, <3>1, <3>2, ExtendsTrans
    <3>3. cm[m] <= Len(lg2[m])
      BY <1>1, <1>2, <2>4, <3>1, SMT
    <3>4. ASSUME cm[m] > 0
          PROVE  \E t \in 1..tm[m], i \in Nat :
                     cm[m] <= i /\ Chosen(t, i, TL2, AK2) /\ Extends(lg2[m], TL2[t], cm[m])
      <4>1. PICK t \in 1..tm[m], i \in Nat :
                cm[m] <= i /\ Chosen(t, i, TL2, AK2) /\ Extends(lg[m], TL2[t], cm[m])
        BY <2>3, <3>4 DEF Settled
      <4>2. t \in Nat
        BY <1>1, SMT
      <4> QED
        BY <1>1, <3>2, <4>1, <4>2
    <3> QED
      BY <3>3, <3>4 DEF Settled
  <2>5. CASE m # l
    BY <2>3, <2>5 DEF Proposes
  <2> QED
    BY <2>4, <2>5
<1>14. Evolves(tm, TL, TO, VH, AK, tm, TL2, TO, VH, AK2)
  <2>1. \A v \in Nodes : tm[v] <= tm[v]
    BY <1>1, SMT
  <2>2. \A t \in Nat, v \in Nodes : AK2[t][v] # AK[t][v] => tm[v] <= t
    BY <1>1, SMT DEF Proposes
  <2> QED
    BY <1>3, <1>9, <2>1, <2>2 DEF Evolves
<1> QED
  BY <1>6, <1>7, <1>8, <1>11, <1>12, <1>13, <1>14 DEF Core

(* Length and entries of a slice of a log. *)
LEMMA SubSeqFacts ==
    ASSUME NEW s \in Seq(Entry), NEW a \in Nat, NEW b \in Nat, 1 <= a, b <= Len(s), a <= b + 1
    PROVE  /\ SubSeq(s, a, b) \in Seq(Entry)
           /\ Len(SubSeq(s, a, b)) = b - a + 1
           /\ \A k \in 1..(b - a + 1) : SubSeq(s, a, b)[k] = s[a + k - 1]
<1>1. Len(SubSeq(s, a, b)) = b - a + 1
  BY SMT
<1>2. SubSeq(s, a, b) \in Seq(Entry)
  BY SMT
<1>3. \A k \in 1..(b - a + 1) : SubSeq(s, a, b)[k] = s[a + k - 1]
  BY SMT
<1> QED
  BY <1>1, <1>2, <1>3

(* Merging entries the log already has adds nothing. *)
LEMMA NothingToAdd ==
    ASSUME NEW L \in Seq(Entry), NEW s \in Seq(Entry), NEW a \in Nat, a > Len(s)
    PROVE  L \o SubSeq(s, a, Len(s)) = L
<1>1. SubSeq(s, a, Len(s)) = <<>>
  BY SMT
<1> QED
  BY <1>1, SMT

(* Length and entries of two logs joined. *)
LEMMA ConcatFacts ==
    ASSUME NEW L \in Seq(Entry), NEW s \in Seq(Entry)
    PROVE  /\ L \o s \in Seq(Entry)
           /\ Len(L \o s) = Len(L) + Len(s)
           /\ \A k \in 1..Len(L) : (L \o s)[k] = L[k]
           /\ \A k \in 1..Len(s) : (L \o s)[Len(L) + k] = s[k]
  BY SMT

(* Two logs with an entry of the same term at the same place are the same  *)
(* up to there.                                                            *)
LEMMA LogsMatch ==
    ASSUME NEW TL, NEW TO, NEW L, NEW t \in Nat, NEW P, NEW u \in Nat,
           Len(L) \in Nat, Len(P) \in Nat,
           Backed(L, t, TL, TO), Backed(P, u, TL, TO),
           NEW k \in Nat, k \in 1..Len(L), k \in 1..Len(P), Term(L[k]) = Term(P[k])
    PROVE  Extends(L, P, k)
<1>1. Extends(TL[Term(L[k])], L, k)
  BY DEF Backed
<1>2. Extends(TL[Term(L[k])], P, k)
  BY DEF Backed
<1> QED
  BY <1>1, <1>2, SMT DEF Extends

(* What a node makes of its log L when it takes entries of the leader's    *)
(* log P: it keeps what the two have in common.                            *)
Follows(L, P, G) ==
    /\ Extends(L, G, Len(G)) \/ Extends(P, G, Len(G))
    /\ \A i \in Nat : i <= Len(P) /\ Extends(L, P, i) => Extends(G, P, i)

(* What handle_append_entries makes of the log (Merge) holds the leader's    *)
(* entries up to the request's last one, and keeps what it held of them.     *)
LEMMA MergeFollows ==
    ASSUME NEW L \in Seq(Entry), NEW es \in Seq(Entry), NEW P \in Seq(Entry), NEW prev \in Nat,
           prev <= Len(L), prev + Len(es) <= Len(P), Extends(L, P, prev),
           \A k \in 1..Len(es) : es[k] = P[prev + k],
           \A k \in 1..Len(es) :
               prev + k <= Len(L) /\ L[prev + k] # es[k] => L[prev + k].term # es[k].term
    PROVE  /\ Merge(L, prev, es) \in Seq(Entry)
           /\ Extends(Merge(L, prev, es), P, prev + Len(es))
           /\ Follows(L, P, Merge(L, prev, es))
<1> DEFINE N == Merge(L, prev, es)
<1> DEFINE e == prev + Len(es)
<1>1. Len(L) \in Nat /\ Len(es) \in Nat /\ Len(P) \in Nat /\ DOMAIN es = 1..Len(es) /\ e \in Nat
  BY SMT
<1>2. CASE \A i \in DOMAIN es : prev + i <= Len(L) => L[prev + i].term = es[i].term
  <2>1. N = L \o SubSeq(es, Len(L) - prev + 1, Len(es))
    BY <1>2 DEF Merge
  <2>2. ASSUME NEW k \in 1..e, k <= Len(L) PROVE L[k] = P[k]
    <3>1. CASE k <= prev
      BY <1>1, <3>1, SMT DEF Extends
    <3>2. CASE k > prev
      <4>1. k - prev \in 1..Len(es) /\ prev + (k - prev) = k
        BY <1>1, <3>2, SMT
      <4>2. L[prev + (k - prev)] = es[k - prev]
        BY <1>1, <1>2, <2>2, <4>1
      <4> QED
        BY <4>1, <4>2
    <3> QED
      BY <1>1, <3>1, <3>2, SMT
  <2>3. CASE Len(L) >= e
    <3>1. Len(L) - prev + 1 \in Nat /\ Len(L) - prev + 1 > Len(es)
      BY <1>1, <2>3, SMT
    <3>2. N = L
      BY <2>1, <3>1, NothingToAdd
    <3>3. Extends(L, P, e)
      BY <1>1, <2>2, <2>3, SMT DEF Extends
    <3>4. Extends(L, L, Len(L))
      BY <1>1, SMT DEF Extends
    <3> QED
      BY <3>2, <3>3, <3>4 DEF Follows
  <2>4. CASE Len(L) < e
    <3> DEFINE S == SubSeq(es, Len(L) - prev + 1, Len(es))
    <3> DEFINE x == Len(L) - prev + 1
    <3>0. x \in Nat /\ 1 <= x /\ x <= Len(es) + 1 /\ Len(es) - x + 1 = e - Len(L)
      BY <1>1, <2>4, SMT
    <3>1. S \in Seq(Entry) /\ Len(S) = Len(es) - x + 1 /\ \A k \in 1..(Len(es) - x + 1) : S[k] = es[x + k - 1]
      <4> HIDE DEF x
      <4> QED
        BY ONLY <1>1, <3>0, es \in Seq(Entry), SubSeqFacts, SMT DEF x
    <3>2. Len(S) = e - Len(L)
      BY <3>0, <3>1
    <3> HIDE DEF S
    <3>c. /\ N \in Seq(Entry) /\ Len(N) = Len(L) + Len(S)
          /\ \A k \in 1..Len(L) : N[k] = L[k]
          /\ \A k \in 1..Len(S) : N[Len(L) + k] = S[k]
      <4>1. N = L \o S
        BY <2>1 DEF S
      <4> HIDE DEF N
      <4> QED
        BY ONLY <3>1, <4>1, L \in Seq(Entry), ConcatFacts, Zenon
    <3>3. N \in Seq(Entry) /\ Len(N) = e
      BY <1>1, <3>2, <3>c, SMT
    <3>4. ASSUME NEW k \in 1..e PROVE N[k] = P[k]
      <4>1. CASE k <= Len(L)
        <5>1. N[k] = L[k]
          BY <3>c, <4>1, SMT
        <5> QED
          BY <2>2, <4>1, <5>1
      <4>2. CASE k > Len(L)
        <5>1. k - Len(L) \in 1..Len(S) /\ Len(L) + (k - Len(L)) = k
          BY <1>1, <3>2, <4>2, SMT
        <5>2. N[k] = S[k - Len(L)]
          BY <3>c, <5>1
        <5>3. k - prev \in 1..Len(es) /\ x + (k - Len(L)) - 1 = k - prev /\ prev + (k - prev) = k
          BY <1>1, <4>2, SMT
        <5>4. S[k - Len(L)] = es[x + (k - Len(L)) - 1]
          BY <3>1, <5>1
        <5> QED
          BY <5>2, <5>3, <5>4
      <4> QED
        BY <1>1, <4>1, <4>2, SMT
    <3> HIDE DEF N, e
    <3>5. Extends(N, P, e)
      BY <1>1, <3>3, <3>4, SMT DEF Extends
    <3>6. Extends(P, N, Len(N))
      BY <1>1, <3>3, <3>4 DEF Extends, e
    <3>7. ASSUME NEW i \in Nat, i <= Len(P), Extends(L, P, i) PROVE Extends(N, P, i)
      BY <1>1, <2>4, <3>5, <3>7, SMT DEF Extends
    <3> QED
      BY <3>3, <3>5, <3>6, <3>7 DEF Follows, N, e
  <2> QED
    BY <1>1, <2>3, <2>4, SMT
<1>3. CASE ~\A i \in DOMAIN es : prev + i <= Len(L) => L[prev + i].term = es[i].term
  <2>1. N = SubSeq(L, 1, prev) \o es
    BY <1>3 DEF Merge
  <2>2. PICK j \in DOMAIN es : prev + j <= Len(L) /\ L[prev + j].term # es[j].term
    BY <1>3
  <2> DEFINE S == SubSeq(L, 1, prev)
  <2>3. S \in Seq(Entry) /\ Len(S) = prev /\ \A k \in 1..prev : S[k] = L[k]
    <3>1. 1 \in Nat /\ 1 <= prev + 1 /\ prev - 1 + 1 = prev /\ \A k \in 1..prev : 1 + k - 1 = k
      BY SMT
    <3> QED
      BY <1>1, <3>1, SubSeqFacts, SMT
  <2> HIDE DEF S
  <2>c. /\ N \in Seq(Entry) /\ Len(N) = prev + Len(es)
        /\ \A k \in 1..prev : N[k] = S[k]
        /\ \A k \in 1..Len(es) : N[prev + k] = es[k]
    <3>1. N = S \o es
      BY <2>1 DEF S
    <3>2. /\ S \o es \in Seq(Entry) /\ Len(S \o es) = Len(S) + Len(es)
          /\ \A k \in 1..Len(S) : (S \o es)[k] = S[k]
          /\ \A k \in 1..Len(es) : (S \o es)[Len(S) + k] = es[k]
      BY ONLY <2>3, es \in Seq(Entry), ConcatFacts, Zenon
    <3> HIDE DEF N
    <3> QED
      BY ONLY <2>3, <3>1, <3>2, Zenon
  <2>4. N \in Seq(Entry) /\ Len(N) = e
    BY <2>c
  <2>5. ASSUME NEW k \in 1..e PROVE N[k] = P[k]
    <3>1. CASE k <= prev
      <4>1. k \in 1..prev
        BY ONLY <1>1, <3>1, k \in 1..e, prev \in Nat, SMT
      <4> QED
        BY <2>3, <2>c, <4>1 DEF Extends
    <3>2. CASE k > prev
      <4>1. k - prev \in 1..Len(es) /\ prev + (k - prev) = k
        BY <1>1, <3>2, SMT
      <4> QED
        BY <2>c, <4>1, ZenonT(60)
    <3> QED
      BY <1>1, <3>1, <3>2, SMT
  <2>6. j \in 1..Len(es) /\ prev + j \in Nat /\ prev + j <= e /\ L[prev + j] # P[prev + j]
    BY <1>1, <2>2, SMT
  <2> HIDE DEF N, e
  <2>7. Extends(N, P, e)
    BY <1>1, <2>4, <2>5, SMT DEF Extends
  <2>8. Extends(P, N, Len(N))
    BY <1>1, <2>4, <2>5 DEF Extends, e
  <2>9. ASSUME NEW i \in Nat, i <= Len(P), Extends(L, P, i) PROVE Extends(N, P, i)
    <3>1. i < prev + j
      BY ONLY <1>1, <2>6, <2>9, i \in Nat, prev \in Nat, SMT DEF Extends
    <3>2. i <= e
      BY ONLY <1>1, <2>6, <3>1, i \in Nat, SMT
    <3> QED
      BY ONLY <1>1, <2>4, <2>5, <3>2, i \in Nat, SMT DEF Extends
  <2> QED
    BY <2>4, <2>7, <2>8, <2>9 DEF Follows, N, e
<1> QED
  BY <1>2, <1>3

(* A write that failed kept at least what L and N have in common. *)
LEMMA TornFollows ==
    ASSUME NEW L \in Seq(Entry), NEW N \in Seq(Entry), NEW P \in Seq(Entry), Follows(L, P, N),
           NEW k \in 0..Len(N),
           \A j \in 1..Len(L) : IsPrefix(SubSeq(L, 1, j), N) => j <= k
    PROVE  SubSeq(N, 1, k) \in Seq(Entry) /\ Follows(L, P, SubSeq(N, 1, k))
<1> DEFINE G == SubSeq(N, 1, k)
<1>1. Len(L) \in Nat /\ Len(N) \in Nat /\ Len(P) \in Nat
  BY SMT
<1>2. G \in Seq(Entry) /\ Len(G) = k /\ \A x \in 1..k : G[x] = N[x]
  BY <1>1, SMT
<1> HIDE DEF G
<1>3. Extends(L, G, Len(G)) \/ Extends(P, G, Len(G))
  <2>1. \A x \in 1..k : x \in 1..Len(N)
    BY <1>1, SMT
  <2> QED
    <3>1. Len(G) = k /\ k \in Nat /\ k <= Len(N)
      BY ONLY <1>1, <1>2, k \in 0..Len(N), SMT
    <3>2. ASSUME NEW R, Len(R) \in Nat, Extends(R, N, Len(N)) PROVE Extends(R, G, Len(G))
      <4>1. Len(N) <= Len(R) /\ \A x \in 1..Len(N) : R[x] = N[x]
        BY <3>2 DEF Extends
      <4>2. k <= Len(R)
        BY ONLY <1>1, <3>1, <3>2, <4>1, SMT
      <4> QED
        BY <1>2, <2>1, <3>1, <4>1, <4>2 DEF Extends
    <3> QED
      BY <1>1, <3>2 DEF Follows
<1>4. ASSUME NEW i \in Nat, i <= Len(P), Extends(L, P, i) PROVE Extends(G, P, i)
  <2>1. Extends(N, P, i)
    BY <1>4 DEF Follows
  <2>2. CASE i = 0
    BY <1>2, <2>2, SMT DEF Extends
  <2>3. CASE i # 0
    <3>1. i \in 1..Len(L) /\ i <= Len(N)
      BY <1>1, <1>4, <2>1, <2>3, SMT DEF Extends
    <3>2. Len(SubSeq(L, 1, i)) = i /\ \A x \in 1..i : SubSeq(L, 1, i)[x] = L[x]
      BY <1>1, <3>1, SMT
    <3>3. \A x \in 1..i : L[x] = N[x]
      BY <1>4, <2>1 DEF Extends
    <3>4. IsPrefix(SubSeq(L, 1, i), N)
      BY <3>1, <3>2, <3>3 DEF IsPrefix
    <3>5. i <= k
      BY <3>1, <3>4
    <3> QED
      BY <1>2, <2>1, <3>5, SMT DEF Extends
  <2> QED
    BY <2>2, <2>3
<1> QED
  BY <1>2, <1>3, <1>4 DEF Follows, G

(* A node of term u that takes a part of the leader's log P of term T      *)
(* keeps what it must not lose.                                            *)
LEMMA FollowsKeeps ==
    ASSUME NEW tm, NEW vt, NEW lg, NEW cm, Records(tm, vt, lg, cm),
           NEW TL, NEW TO, NEW VH, NEW AK, History(TL, TO, VH, AK),
           Core(tm, vt, lg, cm, TL, TO, VH, AK),
           NEW n \in Nodes, NEW T \in Nat, tm[n] <= T, TO[T] # None,
           NEW G \in Seq(Entry), Follows(lg[n], TL[T], G)
    PROVE  /\ Backed(G, T, TL, TO)
           /\ \A t \in Nat, i \in Nat :
                  i <= AK[t][n] /\ Pending(tm, t, i, TL, AK) => Extends(G, TL[t], i)
           /\ Settled(G, cm[n], T, TL, AK)
<1>1. /\ tm[n] \in Nat /\ cm[n] \in Nat /\ Len(lg[n]) \in Nat /\ Len(G) \in Nat
      /\ \A t \in Nat : Len(TL[t]) \in Nat
      /\ \A t \in Nat : AK[t][n] \in Nat
  <2>1. tm[n] \in Nat /\ cm[n] \in Nat /\ lg[n] \in Seq(Entry)
    BY Types
  <2>2. \A t \in Nat : TL[t] \in Seq(Entry)
    BY Types
  <2>3. \A t \in Nat : AK[t][n] \in Nat
    BY Types
  <2> QED
    BY <2>1, <2>2, <2>3, SMT
<1>2. Backed(G, T, TL, TO)
  <2>1. ASSUME NEW L, Len(L) \in Nat, Backed(L, T, TL, TO), Extends(L, G, Len(G))
        PROVE  Backed(G, T, TL, TO)
    <3>1. SUFFICES ASSUME NEW i \in 1..Len(G)
                   PROVE  Term(G[i]) \in 1..T /\ TO[Term(G[i])] # None /\ Extends(TL[Term(G[i])], G, i)
      BY DEF Backed
    <3>0. i \in Nat /\ \A k \in 1..i : k \in 1..Len(G)
      BY <1>1, SMT
    <3>2. i \in 1..Len(L) /\ \A k \in 1..i : L[k] = G[k]
      BY <1>1, <2>1, <3>0, SMT DEF Extends
    <3>3. L[i] = G[i]
      BY <1>1, <3>2, SMT
    <3>4. Term(L[i]) \in 1..T /\ TO[Term(L[i])] # None /\ Extends(TL[Term(L[i])], L, i)
      BY <2>1, <3>2 DEF Backed
    <3>5. Extends(TL[Term(L[i])], G, i)
      BY <3>2, <3>4 DEF Extends
    <3> QED
      BY <3>3, <3>4, <3>5
  <2>2. Backed(lg[n], T, TL, TO)
    BY <1>1, BackedLater DEF Core, NodeLogs
  <2>3. Backed(TL[T], T, TL, TO)
    BY DEF Core, TermLogs
  <2> QED
    BY <1>1, <2>1, <2>2, <2>3 DEF Follows
<1>3. ASSUME NEW t \in Nat, NEW i \in Nat, NEW k \in Nat, t <= T, k <= i,
             Pending(tm, t, i, TL, AK), Extends(lg[n], TL[t], k)
      PROVE  Extends(G, TL[t], k)
  <2>1. Extends(TL[T], TL[t], i)
    <3>1. CASE t = T
      BY <1>1, <1>3, <3>1, SMT DEF Pending, Extends
    <3>2. CASE t < T
      BY <1>3, <3>2 DEF Core, LeadersHold
    <3> QED
      BY <1>3, <3>1, <3>2, SMT
  <2>2. Extends(TL[T], TL[t], k) /\ k <= Len(TL[T])
    BY <1>1, <1>3, <2>1, SMT DEF Extends
  <2>3. Extends(lg[n], TL[T], k)
    BY <1>3, <2>2 DEF Extends
  <2>4. Extends(G, TL[T], k)
    BY <2>2, <2>3 DEF Follows
  <2> QED
    BY <2>2, <2>4 DEF Extends
<1>4. ASSUME NEW t \in Nat, NEW i \in Nat, i <= AK[t][n], Pending(tm, t, i, TL, AK)
      PROVE  Extends(G, TL[t], i)
  <2>1. Extends(lg[n], TL[t], i)
    BY <1>4 DEF Core, NodesHold
  <2>2. t <= T
    <3>1. i # 0
      BY <1>1, <1>4, SMT DEF Pending
    <3>2. ~(t > tm[n])
      BY <1>1, <1>4, <3>1, SMT DEF Core, Acks
    <3> QED
      BY <1>1, <3>2, SMT
  <2>3. i <= i
    BY SMT
  <2> QED
    BY <1>3, <1>4, <2>1, <2>2, <2>3
<1>5. Settled(G, cm[n], T, TL, AK)
  <2>1. Settled(lg[n], cm[n], tm[n], TL, AK)
    BY DEF Core, Commits
  <2>2. CASE cm[n] = 0
    BY <1>1, <2>2, SMT DEF Settled
  <2>3. CASE cm[n] > 0
    <3>1. PICK t \in 1..tm[n], i \in Nat :
              cm[n] <= i /\ Chosen(t, i, TL, AK) /\ Extends(lg[n], TL[t], cm[n])
      BY <2>1, <2>3 DEF Settled
    <3>2. t \in Nat /\ t <= T /\ t \in 1..T
      BY <1>1, SMT
    <3>3. Pending(tm, t, i, TL, AK)
      BY <3>1, <3>2, ChosenPending
    <3>4. Extends(G, TL[t], cm[n])
      BY <1>1, <1>3, <3>1, <3>2, <3>3
    <3>5. cm[n] <= Len(G)
      BY <3>4 DEF Extends
    <3> QED
      BY <3>1, <3>2, <3>4, <3>5 DEF Settled
  <2> QED
    BY <1>1, <2>2, <2>3, SMT
<1> QED
  BY <1>2, <1>4, <1>5

(* What is settled of the leader's log is settled of a log that holds it. *)
LEMMA SettledCopy ==
    ASSUME NEW P, NEW G, NEW k \in Nat, NEW j \in Nat, NEW e \in Nat, NEW T, NEW TL, NEW AK,
           Len(G) \in Nat, Settled(P, k, T, TL, AK), Extends(G, P, e), j <= k, j <= e
    PROVE  Settled(G, j, T, TL, AK)
<1>1. j <= Len(G)
  BY SMT DEF Extends
<1>2. ASSUME j > 0
      PROVE  \E t \in 1..T, i \in Nat : j <= i /\ Chosen(t, i, TL, AK) /\ Extends(G, TL[t], j)
  <2>1. k > 0
    BY <1>2, SMT
  <2>2. PICK t \in 1..T, i \in Nat : k <= i /\ Chosen(t, i, TL, AK) /\ Extends(P, TL[t], k)
    BY <2>1 DEF Settled
  <2>3. Extends(G, TL[t], j)
    BY <1>1, <2>2, SMT DEF Extends
  <2>4. j <= i
    BY <2>2, SMT
  <2> QED
    BY <2>2, <2>3, <2>4
<1> QED
  BY <1>1, <1>2 DEF Settled

(* A voter that holds no more of any log of a term before t. *)
Past(v, t, tm, AK, AK2) == t <= tm[v] \/ \A s \in Nat : AK2[s][v] = AK[s][v]

(* A log that holds what a voter had to hold before the step holds what the  *)
(* voter has to hold after it, of the terms before u.                        *)
LEMMA HoldingKept ==
    ASSUME NEW tm, NEW TL, NEW TO, NEW VH, NEW AK,
           NEW tm2, NEW TL2, NEW TO2, NEW VH2, NEW AK2,
           \A v \in Nodes : tm[v] \in Nat,
           \A t \in Nat : Len(TL[t]) \in Nat /\ Len(TL2[t]) \in Nat,
           \A t \in Nat, v \in Nodes : AK[t][v] \in Nat /\ AK2[t][v] \in Nat,
           Acks(tm, TL, AK),
           Evolves(tm, TL, TO, VH, AK, tm2, TL2, TO2, VH2, AK2),
           NEW L, NEW u \in Nat, NEW v \in Nodes, Past(v, u, tm, AK, AK2),
           NEW t \in Nat, NEW i \in Nat, t < u,
           i <= AK[t][v] /\ Pending(tm, t, i, TL, AK) => Extends(L, TL[t], i),
           i <= AK2[t][v], Pending(tm2, t, i, TL2, AK2)
    PROVE  Extends(L, TL2[t], i)
<1>2. tm[v] \in Nat
  OBVIOUS
<1>3. AK2[t][v] = AK[t][v]
  <2>1. CASE u <= tm[v]
    <3>1. ~(tm[v] <= t)
      BY <1>2, <2>1, SMT
    <3> QED
      BY <1>2, <3>1 DEF Evolves
  <2> QED
    BY <2>1 DEF Past
<1>4. i <= Len(TL[t])
  BY <1>2, <1>3, SMT DEF Acks
<1>5. Pending(tm, t, i, TL, AK)
  BY <1>4 DEF Evolves
<1>6. Extends(L, TL[t], i)
  BY <1>3, <1>5
<1>7. Extends(TL2[t], TL[t], Len(TL[t]))
  BY DEF Evolves, Grows
<1> QED
  BY <1>4, <1>6, <1>7, ExtendsKept

(* A node whose term and log stay keeps its role. *)
Spared(m, r, tm, lg, TL, AK, tm2, lg2, TL2, TO2, AK2) ==
    /\ tm2[m] = tm[m] /\ lg2[m] = lg[m]
    /\ r = "Leader" => TL2[tm[m]] = TL[tm[m]] /\ AK2[tm[m]][m] = AK[tm[m]][m]
    /\ r = "Candidate" => TO2[tm[m]] # m

(* A leader stays the leader of its log, and a candidate a candidate,        *)
(* through a step that spares it.                                            *)
LEMMA RoleKept ==
    ASSUME NEW tm, NEW vt, NEW lg, NEW cm, Records(tm, vt, lg, cm),
           NEW tm2, NEW vt2, NEW lg2, NEW cm2, Records(tm2, vt2, lg2, cm2),
           NEW TL, NEW TO, NEW VH, NEW AK, History(TL, TO, VH, AK),
           NEW TL2, NEW TO2, NEW VH2, NEW AK2, History(TL2, TO2, VH2, AK2),
           Core(tm, vt, lg, cm, TL, TO, VH, AK),
           Evolves(tm, TL, TO, VH, AK, tm2, TL2, TO2, VH2, AK2),
           NEW m \in Nodes, NEW r, NEW nx, NEW mt \in [Nodes -> Nat], NEW p \in Ballot,
           RoleOf(m, r, nx, mt, p, tm, lg, TL, TO, VH, AK),
           Spared(m, r, tm, lg, TL, AK, tm2, lg2, TL2, TO2, AK2)
    PROVE  RoleOf(m, r, nx, mt, p, tm2, lg2, TL2, TO2, VH2, AK2)
<1>1. /\ \A v \in Nodes : tm[v] \in Nat
      /\ \A t \in Nat : Len(TL[t]) \in Nat /\ Len(TL2[t]) \in Nat
      /\ \A t \in Nat, v \in Nodes : AK[t][v] \in Nat /\ AK2[t][v] \in Nat
  <2>1. \A v \in Nodes : tm[v] \in Nat
    BY Types
  <2>2. \A t \in Nat : TL[t] \in Seq(Entry) /\ TL2[t] \in Seq(Entry)
    BY Types
  <2>3. \A t \in Nat, v \in Nodes : AK[t][v] \in Nat /\ AK2[t][v] \in Nat
    BY Types
  <2> QED
    BY <2>1, <2>2, <2>3, SMT
<1>2. p.term \in Nat /\ p.votes \subseteq Voters /\ m # None /\ tm[m] \in Nat
  BY <1>1, MembersAssumption DEF Ballot
<1>3. ASSUME NEW v \in p.votes
      PROVE  v \in Nodes /\ VH[p.term][v] = m /\ VH[p.term][v] # None
  BY <1>2 DEF RoleOf, Polled, Nodes
<1>4. Polled(m, p, tm2, VH2)
  <2>1. p.term <= tm2[m] /\ (p.open # {} => m \in Voters)
    BY DEF RoleOf, Polled, Spared
  <2>2. ASSUME NEW v \in p.votes PROVE VH2[p.term][v] = m
    <3>1. v \in Nodes /\ VH[p.term][v] = m /\ VH[p.term][v] # None
      BY <1>3
    <3>2. p.term \in Nat
      BY <1>2
    <3>3. \A t \in Nat, w \in Nodes : VH[t][w] # None => VH2[t][w] = VH[t][w]
      BY DEF Evolves
    <3>4. VH2[p.term][v] = VH[p.term][v]
      BY ONLY <3>1, <3>2, <3>3, Zenon
    <3> QED
      BY ONLY <3>1, <3>4, Zenon
  <2> QED
    BY <2>1, <2>2 DEF Polled
<1>5. ASSUME r = "Leader" PROVE Leading(m, nx, mt, tm2, lg2, TL2, TO2, AK2)
  <2>1. Leading(m, nx, mt, tm, lg, TL, TO, AK)
    BY <1>5 DEF RoleOf
  <2>2. TO2[tm[m]] = m
    BY <1>2, <2>1 DEF Leading, Evolves, Grows
  <2>3. ASSUME NEW q \in Voters PROVE mt[q] <= AK2[tm[m]][q]
    <3>1. q \in Nodes /\ mt[q] \in Nat /\ AK[tm[m]][q] \in Nat /\ AK2[tm[m]][q] \in Nat
      BY <1>1, <1>2 DEF Nodes
    <3>2. mt[q] <= AK[tm[m]][q] /\ AK[tm[m]][q] <= AK2[tm[m]][q]
      BY <1>2, <2>1, <3>1 DEF Leading, Evolves, Grows
    <3> QED
      BY <3>1, <3>2, SMT
  <2> QED
    BY <1>5, <2>1, <2>2, <2>3 DEF Leading, Spared
<1>6. ASSUME r = "Candidate"
      PROVE  Standing(m, p.votes, tm2, lg2, TL2, TO2, AK2) /\ Current(m, p, tm2, lg2)
  <2>1. Standing(m, p.votes, tm, lg, TL, TO, AK) /\ Current(m, p, tm, lg)
    BY <1>6 DEF RoleOf
  <2>2. tm2[m] = tm[m] /\ lg2[m] = lg[m] /\ TO2[tm[m]] # m
    BY <1>6 DEF Spared
  <2>3. ASSUME NEW v \in p.votes PROVE tm[m] <= tm[v]
    <3>1. p.term <= tm[v]
      BY <1>1, <1>2, <1>3, VotersReach DEF Core
    <3> QED
      BY <2>1, <3>1 DEF Current
  <2>4. Standing(m, p.votes, tm2, lg2, TL2, TO2, AK2)
    <3>2. SUFFICES ASSUME NEW v \in p.votes, NEW t \in Nat, NEW i \in Nat,
                          t < tm[m], i <= AK2[t][v], Pending(tm2, t, i, TL2, AK2)
                   PROVE  Extends(lg[m], TL2[t], i)
      BY <2>1, <2>2 DEF Standing
    <3>3. v \in Nodes /\ Past(v, tm[m], tm, AK, AK2) /\ tm[m] \in Nat
      BY <1>2, <1>3, <2>3 DEF Past
    <3>4. i <= AK[t][v] /\ Pending(tm, t, i, TL, AK) => Extends(lg[m], TL[t], i)
      BY <2>1, <3>2 DEF Standing
    <3>5. Acks(tm, TL, AK)
      BY DEF Core
    <3>6. Evolves(tm, TL, TO, VH, AK, tm2, TL2, TO2, VH2, AK2)
      OBVIOUS
    <3> QED
      BY ONLY <1>1, <3>2, <3>3, <3>4, <3>5, <3>6, t \in Nat, i \in Nat, HoldingKept, Zenon
  <2>5. Current(m, p, tm2, lg2)
    BY <2>1, <2>2 DEF Current
  <2> QED
    BY <2>4, <2>5
<1> QED
  BY <1>4, <1>5, <1>6 DEF RoleOf

(* The term of the last entry. *)
LEMMA LastTermOf ==
    ASSUME NEW L \in Seq(Entry)
    PROVE  /\ Len(L) = 0 => LastTerm(L) = 0
           /\ Len(L) # 0 => LastTerm(L) = Term(L[Len(L)])
  BY SMT DEF LastTerm, Term

(* Terms never decrease along a log. *)
LEMMA TermsAscend ==
    ASSUME NEW TL, NEW TO, TermLogs(TL, TO), \A s \in Nat : Len(TL[s]) \in Nat,
           NEW L, Len(L) \in Nat, NEW t \in Nat, Backed(L, t, TL, TO),
           NEW i \in 1..Len(L), NEW j \in 1..Len(L), i <= j
    PROVE  Term(L[i]) <= Term(L[j]) /\ Term(L[i]) \in Nat /\ Term(L[j]) \in Nat
<1>1. Term(L[j]) \in 1..t /\ Extends(TL[Term(L[j])], L, j) /\ Term(L[i]) \in 1..t
  BY DEF Backed
<1>2. i \in 1..Len(TL[Term(L[j])]) /\ TL[Term(L[j])][i] = L[i]
  BY <1>1, SMT DEF Extends
<1>3. Backed(TL[Term(L[j])], Term(L[j]), TL, TO)
  BY <1>1, SMT DEF TermLogs
<1>4. Term(L[i]) \in 1..Term(L[j])
  BY <1>2, <1>3 DEF Backed
<1> QED
  BY <1>1, <1>4, SMT

(* A voter that grants its vote holds nothing pending that the candidate   *)
(* lacks.                                                                  *)
LEMMA GrantSound ==
    ASSUME NEW tm, NEW vt, NEW lg, NEW cm, Records(tm, vt, lg, cm),
           NEW TL, NEW TO, NEW VH, NEW AK, History(TL, TO, VH, AK),
           Core(tm, vt, lg, cm, TL, TO, VH, AK),
           NEW c \in Nodes, NEW v \in Nodes,
           \/ LastTerm(lg[c]) > LastTerm(lg[v])
           \/ LastTerm(lg[c]) = LastTerm(lg[v]) /\ Len(lg[c]) >= Len(lg[v]),
           NEW t \in Nat, NEW i \in Nat, i <= AK[t][v], Pending(tm, t, i, TL, AK)
    PROVE  Extends(lg[c], TL[t], i)
<1>1. /\ tm[c] \in Nat /\ tm[v] \in Nat
      /\ lg[c] \in Seq(Entry) /\ lg[v] \in Seq(Entry)
      /\ \A s \in Nat : Len(TL[s]) \in Nat
  <2>1. tm[c] \in Nat /\ tm[v] \in Nat /\ lg[c] \in Seq(Entry) /\ lg[v] \in Seq(Entry)
    BY Types
  <2>2. \A s \in Nat : TL[s] \in Seq(Entry)
    BY Types
  <2> QED
    BY <2>1, <2>2, SMT
<1> DEFINE L == lg[c]
<1> DEFINE M == lg[v]
<1>2. Len(L) \in Nat /\ Len(M) \in Nat
  BY <1>1, SMT
<1>3. Extends(M, TL[t], i) /\ i \in 1..Len(TL[t]) /\ Term(TL[t][i]) = t
  BY DEF Core, NodesHold, Pending
<1>4. /\ Len(L) = 0 => LastTerm(L) = 0
      /\ Len(L) # 0 => LastTerm(L) = Term(L[Len(L)])
      /\ Len(M) # 0 => LastTerm(M) = Term(M[Len(M)])
  BY <1>1, LastTermOf
<1>5. /\ Backed(L, tm[c], TL, TO) /\ Backed(M, tm[v], TL, TO) /\ Backed(TL[t], t, TL, TO)
      /\ TermLogs(TL, TO)
  BY DEF Core, NodeLogs, TermLogs
<1> HIDE DEF L, M
<1>6. i \in 1..Len(M) /\ M[i] = TL[t][i] /\ Len(M) # 0 /\ Len(M) \in 1..Len(M)
  BY <1>2, <1>3, SMT DEF Extends
<1>7. Term(M[i]) <= Term(M[Len(M)]) /\ Term(M[Len(M)]) \in Nat
  BY ONLY <1>1, <1>2, <1>5, <1>6, TermsAscend, SMT
<1>8. t <= LastTerm(M) /\ LastTerm(M) \in Nat
  BY <1>3, <1>4, <1>6, <1>7
<1>9. 1 <= t
  BY <1>1, <1>3, <1>5, SMT DEF Backed
<1>10. /\ Len(L) # 0 /\ Len(L) \in 1..Len(L)
       /\ LastTerm(L) \in 1..tm[c]
       /\ TO[LastTerm(L)] # None
       /\ Extends(TL[LastTerm(L)], L, Len(L))
  <2>1. Len(L) # 0
    <3>1. Len(L) = 0 => LastTerm(L) = 0
      BY <1>4
    <3> QED
      BY <1>8, <1>9, <3>1, SMT DEF L, M
  <2>2. Len(L) \in 1..Len(L) /\ LastTerm(L) = Term(L[Len(L)])
    BY <1>2, <1>4, <2>1, SMT
  <2> QED
    BY <1>5, <2>1, <2>2 DEF Backed
<1>11. LastTerm(L) \in Nat /\ LastTerm(L) >= LastTerm(M)
  BY <1>1, <1>8, <1>10, SMT DEF L, M
<1>12. CASE LastTerm(L) = t
  <2>1. LastTerm(M) = t
    BY <1>8, <1>11, <1>12, SMT
  <2>2. Len(L) >= Len(M)
    BY <1>8, <1>12, <2>1, SMT DEF L, M
  <2>3. i <= Len(L)
    BY <1>2, <1>6, <2>2, SMT
  <2> QED
    BY <1>2, <1>10, <1>12, <2>3, SMT DEF Extends, L
<1>13. CASE LastTerm(L) > t
  <2>1. Extends(TL[LastTerm(L)], TL[t], i)
    BY <1>10, <1>11, <1>13 DEF Core, LeadersHold
  <2>2. i <= Len(L)
    <3>1. SUFFICES ASSUME Len(L) < i PROVE FALSE
      BY <1>2, SMT
    <3>2. Len(L) \in 1..Len(TL[t]) /\ L[Len(L)] = TL[t][Len(L)]
      BY <1>1, <1>2, <1>3, <1>10, <2>1, <3>1, SMT DEF Extends
    <3>3. Term(L[Len(L)]) \in 1..t
      BY <1>5, <3>2 DEF Backed
    <3> QED
      BY <1>4, <1>10, <1>11, <1>13, <3>3, SMT
  <2> QED
    BY <1>2, <1>10, <2>1, <2>2, SMT DEF Extends, L
<1> QED
  BY <1>8, <1>11, <1>12, <1>13, SMT

(* The parts of the nodes' records. *)
TermOf(dk) == [n \in Nodes |-> dk[n].term]

VoteOf(dk) == [n \in Nodes |-> dk[n].vote]

LogOf(dk) == [n \in Nodes |-> dk[n].log]

CommitOf(dk) == [n \in Nodes |-> dk[n].commit]

Sound(dk, TL, TO, VH, AK) ==
    /\ dk \in [Nodes -> Disk]
    /\ History(TL, TO, VH, AK)
    /\ Core(TermOf(dk), VoteOf(dk), LogOf(dk), CommitOf(dk), TL, TO, VH, AK)

Succeeds(dk, TL, TO, VH, AK, dk2, TL2, TO2, VH2, AK2) ==
    Evolves(TermOf(dk), TL, TO, VH, AK, TermOf(dk2), TL2, TO2, VH2, AK2)

(* The four parts of the nodes' records, taken apart. *)
LEMMA RecordsOf ==
    ASSUME NEW dk \in [Nodes -> Disk]
    PROVE  /\ Records(TermOf(dk), VoteOf(dk), LogOf(dk), CommitOf(dk))
           /\ \A n \in Nodes : TermOf(dk)[n] = dk[n].term
           /\ \A n \in Nodes : VoteOf(dk)[n] = dk[n].vote
           /\ \A n \in Nodes : LogOf(dk)[n] = dk[n].log
           /\ \A n \in Nodes : CommitOf(dk)[n] = dk[n].commit
<1>1. /\ \A n \in Nodes : TermOf(dk)[n] = dk[n].term
      /\ \A n \in Nodes : VoteOf(dk)[n] = dk[n].vote
      /\ \A n \in Nodes : LogOf(dk)[n] = dk[n].log
      /\ \A n \in Nodes : CommitOf(dk)[n] = dk[n].commit
  BY DEF TermOf, VoteOf, LogOf, CommitOf
<1>2. /\ \A n \in Nodes : dk[n].term \in Nat
      /\ \A n \in Nodes : dk[n].vote \in Voters \cup {None}
      /\ \A n \in Nodes : dk[n].log \in Seq(Entry)
      /\ \A n \in Nodes : dk[n].commit \in Nat
  BY DEF Disk
<1>3. TermOf(dk) \in [Nodes -> Nat] /\ VoteOf(dk) \in [Nodes -> Voters \cup {None}]
  BY <1>2 DEF TermOf, VoteOf
<1>4. LogOf(dk) \in [Nodes -> Seq(Entry)] /\ CommitOf(dk) \in [Nodes -> Nat]
  BY <1>2 DEF LogOf, CommitOf
<1> QED
  BY <1>1, <1>3, <1>4 DEF Records

(* The types of a state that a history explains. *)
LEMMA SoundTypes ==
    ASSUME NEW dk, NEW TL, NEW TO, NEW VH, NEW AK, Sound(dk, TL, TO, VH, AK)
    PROVE  /\ \A n \in Nodes : /\ dk[n] \in Disk
                               /\ dk[n].term \in Nat /\ dk[n].commit \in Nat
                               /\ dk[n].log \in Seq(Entry) /\ Len(dk[n].log) \in Nat
                               /\ dk[n].vote \in Voters \cup {None}
           /\ \A t \in Nat : TL[t] \in Seq(Entry) /\ Len(TL[t]) \in Nat
           /\ \A t \in Nat, v \in Nodes : AK[t][v] \in Nat
           /\ \A t \in Nat : TO[t] \in Voters \cup {None}
<1>1. \A n \in Nodes : /\ dk[n] \in Disk
                       /\ dk[n].term \in Nat /\ dk[n].commit \in Nat
                       /\ dk[n].log \in Seq(Entry) /\ Len(dk[n].log) \in Nat
                       /\ dk[n].vote \in Voters \cup {None}
  BY SMT DEF Sound, Disk
<1>2. Records(TermOf(dk), VoteOf(dk), LogOf(dk), CommitOf(dk))
  BY RecordsOf DEF Sound
<1>3. \A t \in Nat : TL[t] \in Seq(Entry)
  BY <1>2, Types DEF Sound
<1>4. \A t \in Nat : TL[t] \in Seq(Entry) /\ Len(TL[t]) \in Nat
  BY <1>3, SMT
<1>5. \A t \in Nat, v \in Nodes : AK[t][v] \in Nat
  BY <1>2, Types DEF Sound
<1>6. \A t \in Nat : TO[t] \in Voters \cup {None}
  BY <1>2, Types DEF Sound
<1> QED
  BY <1>1, <1>4, <1>5, <1>6

(* The record of n becomes d. *)
Rewrites(n, d, dk, dk2) ==
    /\ dk2 = [dk EXCEPT ![n] = d]
    /\ dk[n].term <= d.term
    /\ dk[n].term = d.term => dk[n].vote \in {None, d.vote}

(* It may acknowledge more of the log of its leader. *)
Acknowledges(n, d, TL, AK, AK2) ==
    /\ AK2 \in [Nat -> [Nodes -> Nat]]
    /\ \A t \in Nat, v \in Nodes : AK2[t][v] # AK[t][v] =>
        /\ v = n /\ t = d.term /\ AK[t][v] <= AK2[t][v]
        /\ AK2[t][v] <= Len(TL[t]) /\ Extends(d.log, TL[t], AK2[t][v])

Retains(n, d, dk, TL, AK) ==
    \A t \in Nat, i \in Nat :
        i <= AK[t][n] /\ Pending(TermOf(dk), t, i, TL, AK) => Extends(d.log, TL[t], i)

(* The record d can be written by n, and the history notes it. *)
Recordable(n, d, dk, dk2, TL, TO, VH, AK, AK2) ==
    /\ Sound(dk, TL, TO, VH, AK)
    /\ n \in Nodes /\ d \in Disk /\ Rewrites(n, d, dk, dk2)
    /\ Acknowledges(n, d, TL, AK, AK2)
    /\ Backed(d.log, d.term, TL, TO)
    /\ Retains(n, d, dk, TL, AK)
    /\ Settled(d.log, d.commit, d.term, TL, AK2)

Recorded(n, d, dk, dk2, TL, TO, VH, AK, AK2) ==
    \E VH2 : /\ Sound(dk2, TL, TO, VH2, AK2)
             /\ Succeeds(dk, TL, TO, VH, AK, dk2, TL, TO, VH2, AK2)
             /\ VH2[d.term][n] = d.vote

(* NodeStep for a whole record: the votes of the new history are those of    *)
(* the records.                                                              *)
LEMMA RecordStep ==
    ASSUME NEW n, NEW d, NEW dk, NEW dk2, NEW TL, NEW TO, NEW VH, NEW AK, NEW AK2,
           Recordable(n, d, dk, dk2, TL, TO, VH, AK, AK2)
    PROVE  Recorded(n, d, dk, dk2, TL, TO, VH, AK, AK2)
<1> SUFFICES ASSUME Sound(dk, TL, TO, VH, AK), n \in Nodes, d \in Disk, Rewrites(n, d, dk, dk2),
                    Acknowledges(n, d, TL, AK, AK2),
                    Backed(d.log, d.term, TL, TO),
                    Retains(n, d, dk, TL, AK),
                    Settled(d.log, d.commit, d.term, TL, AK2)
             PROVE  \E VH2 : /\ Sound(dk2, TL, TO, VH2, AK2)
                             /\ Succeeds(dk, TL, TO, VH, AK, dk2, TL, TO, VH2, AK2)
                             /\ VH2[d.term][n] = d.vote
  BY DEF Recordable, Recorded
<1> DEFINE tm == TermOf(dk)
<1> DEFINE vt == VoteOf(dk)
<1> DEFINE lg == LogOf(dk)
<1> DEFINE cm == CommitOf(dk)
<1> DEFINE tm2 == TermOf(dk2)
<1> DEFINE vt2 == VoteOf(dk2)
<1> DEFINE lg2 == LogOf(dk2)
<1> DEFINE cm2 == CommitOf(dk2)
<1>1. dk \in [Nodes -> Disk] /\ dk2 \in [Nodes -> Disk]
  BY DEF Sound, Rewrites
<1>2. Records(tm, vt, lg, cm) /\ Records(tm2, vt2, lg2, cm2)
  BY <1>1, RecordsOf
<1>3. \A m \in Nodes : tm[m] = dk[m].term /\ vt[m] = dk[m].vote /\ lg[m] = dk[m].log /\ cm[m] = dk[m].commit
  BY <1>1, RecordsOf
<1>4. \A m \in Nodes : tm2[m] = dk2[m].term /\ vt2[m] = dk2[m].vote /\ lg2[m] = dk2[m].log /\ cm2[m] = dk2[m].commit
  BY <1>1, RecordsOf
<1>5. dk2[n] = d /\ \A m \in Nodes \ {n} : dk2[m] = dk[m]
  BY <1>1 DEF Rewrites
<1>6. tm2[n] = d.term /\ vt2[n] = d.vote /\ lg2[n] = d.log /\ cm2[n] = d.commit
  BY <1>4, <1>5
<1>7. \A m \in Nodes \ {n} : tm2[m] = tm[m] /\ vt2[m] = vt[m] /\ lg2[m] = lg[m] /\ cm2[m] = cm[m]
  <2> HIDE DEF tm, vt, lg, cm, tm2, vt2, lg2, cm2
  <2> TAKE m \in Nodes \ {n}
  <2>1. m \in Nodes /\ dk2[m] = dk[m]
    BY <1>5
  <2>2. tm[m] = dk[m].term /\ vt[m] = dk[m].vote /\ lg[m] = dk[m].log /\ cm[m] = dk[m].commit
    BY <1>3, <2>1
  <2>3. tm2[m] = dk2[m].term /\ vt2[m] = dk2[m].vote /\ lg2[m] = dk2[m].log /\ cm2[m] = dk2[m].commit
    BY <1>4, <2>1
  <2> QED
    BY <2>1, <2>2, <2>3
<1>8. d.term \in Nat /\ d.vote \in Voters \cup {None}
  BY DEF Disk
<1> DEFINE VH2 == [t \in Nat |-> [v \in Nodes |-> IF v = n /\ t = d.term THEN d.vote ELSE VH[t][v]]]
<1>9. History(TL, TO, VH, AK) /\ Core(tm, vt, lg, cm, TL, TO, VH, AK)
  BY DEF Sound
<1>10. History(TL, TO, VH2, AK2)
  <2>1. \A t \in Nat, v \in Nodes : VH[t][v] \in Voters \cup {None}
    BY <1>2, <1>9, Types
  <2>2. VH2 \in [Nat -> [Nodes -> Voters \cup {None}]]
    BY <1>8, <2>1
  <2> QED
    BY <1>9, <2>2 DEF History, Acknowledges
<1>11. VoteNoted(n, tm2, vt2, VH, VH2)
  BY <1>6 DEF VoteNoted
<1> HIDE DEF tm, vt, lg, cm, tm2, vt2, lg2, cm2, VH2
<1>12. NodeMoves(n, tm, vt, lg, cm, tm2, vt2, lg2, cm2)
  BY <1>3, <1>6, <1>7 DEF NodeMoves, Rewrites
<1>13. AckNoted(n, tm2, lg2, TL, AK, AK2)
  BY <1>6 DEF AckNoted, Acknowledges
<1>14. Backed(lg2[n], tm2[n], TL, TO) /\ Settled(lg2[n], cm2[n], tm2[n], TL, AK2)
  BY <1>6
<1>15. \A t \in Nat, i \in Nat :
           i <= AK[t][n] /\ Pending(tm, t, i, TL, AK) => Extends(lg2[n], TL[t], i)
  BY <1>6 DEF tm, Retains
<1>16. /\ Core(tm2, vt2, lg2, cm2, TL, TO, VH2, AK2)
       /\ Evolves(tm, TL, TO, VH, AK, tm2, TL, TO, VH2, AK2)
  BY ONLY <1>2, <1>9, <1>10, <1>11, <1>12, <1>13, <1>14, <1>15, n \in Nodes, NodeStep, Zenon
<1>17. VH2[d.term][n] = d.vote
  BY <1>8 DEF VH2
<1>18. Sound(dk2, TL, TO, VH2, AK2) /\ Succeeds(dk, TL, TO, VH, AK, dk2, TL, TO, VH2, AK2)
  BY <1>1, <1>10, <1>16 DEF Sound, Succeeds, tm, tm2, vt2, lg2, cm2
<1> QED
  BY <1>17, <1>18

(* The log of n stays. *)
LEMMA MetaStep ==
    ASSUME NEW dk, NEW dk2, NEW TL, NEW TO, NEW VH, NEW AK,
           Sound(dk, TL, TO, VH, AK),
           NEW n \in Nodes, NEW d \in Disk, Rewrites(n, d, dk, dk2),
           d.log = dk[n].log,
           d.commit = dk[n].commit \/ Settled(d.log, d.commit, d.term, TL, AK)
    PROVE  \E VH2 : /\ Sound(dk2, TL, TO, VH2, AK)
                    /\ Succeeds(dk, TL, TO, VH, AK, dk2, TL, TO, VH2, AK)
                    /\ VH2[d.term][n] = d.vote
<1>1. /\ dk \in [Nodes -> Disk] /\ d.term \in Nat /\ dk[n].term \in Nat /\ dk[n].commit \in Nat
      /\ Len(dk[n].log) \in Nat
      /\ \A t \in Nat : Len(TL[t]) \in Nat
      /\ \A t \in Nat, v \in Nodes : AK[t][v] \in Nat
  <2>1. d.term \in Nat
    BY DEF Disk
  <2> QED
    BY <2>1, SoundTypes DEF Sound
<1>2. /\ \A m \in Nodes : TermOf(dk)[m] = dk[m].term /\ LogOf(dk)[m] = dk[m].log /\ CommitOf(dk)[m] = dk[m].commit
  BY <1>1, RecordsOf
<1>3. Core(TermOf(dk), VoteOf(dk), LogOf(dk), CommitOf(dk), TL, TO, VH, AK)
  BY DEF Sound
<1>4. Backed(d.log, dk[n].term, TL, TO)
  BY <1>2, <1>3 DEF Core, NodeLogs
<1>5. Backed(d.log, d.term, TL, TO)
  BY <1>1, <1>4, BackedLater DEF Rewrites
<1>6. Retains(n, d, dk, TL, AK)
  BY <1>2, <1>3 DEF Core, NodesHold, Retains
<1>7. Settled(d.log, d.commit, d.term, TL, AK)
  <2>1. Settled(d.log, dk[n].commit, dk[n].term, TL, AK)
    BY <1>2, <1>3 DEF Core, Commits
  <2>2. Settled(d.log, dk[n].commit, d.term, TL, AK)
    <3>1. dk[n].term <= d.term /\ d.log = dk[n].log
      BY DEF Rewrites
    <3>2. \A t \in 1..dk[n].term : t \in 1..d.term
      BY ONLY <1>1, <3>1, SMT
    <3> QED
      BY <2>1, <3>2 DEF Settled
  <2> QED
    BY <2>2
<1>8. Acknowledges(n, d, TL, AK, AK)
  BY DEF Sound, History, Acknowledges
<1>9. Recordable(n, d, dk, dk2, TL, TO, VH, AK, AK)
  BY <1>5, <1>6, <1>7, <1>8 DEF Recordable
<1>10. Recorded(n, d, dk, dk2, TL, TO, VH, AK, AK)
  BY ONLY <1>9, RecordStep, Zenon
<1> QED
  BY <1>10 DEF Recorded

(* The record of n becomes d, whose log follows the log of the leader of its *)
(* term, and d commits no more than is settled.                              *)
Appends(n, d, dk, dk2, TL, TO, VH, AK, AK2) ==
    /\ Sound(dk, TL, TO, VH, AK)
    /\ n \in Nodes /\ d \in Disk /\ Rewrites(n, d, dk, dk2)
    /\ Acknowledges(n, d, TL, AK, AK2)
    /\ TO[d.term] # None
    /\ Follows(dk[n].log, TL[d.term], d.log)
    /\ d.commit = dk[n].commit \/ Settled(d.log, d.commit, d.term, TL, AK)

(* A node takes a part of the log of the leader of T. *)
LEMMA AppendStep ==
    ASSUME NEW n, NEW d, NEW dk, NEW dk2, NEW TL, NEW TO, NEW VH, NEW AK, NEW AK2,
           Appends(n, d, dk, dk2, TL, TO, VH, AK, AK2)
    PROVE  Recorded(n, d, dk, dk2, TL, TO, VH, AK, AK2)
<1> USE DEF Appends
<1>1. /\ dk \in [Nodes -> Disk] /\ d.term \in Nat /\ d.log \in Seq(Entry) /\ d.commit \in Nat
      /\ \A t \in Nat : Len(TL[t]) \in Nat
      /\ \A t \in Nat, v \in Nodes : AK[t][v] \in Nat /\ AK2[t][v] \in Nat
  <2>1. d.term \in Nat /\ d.log \in Seq(Entry) /\ d.commit \in Nat
    BY DEF Disk
  <2>2. \A t \in Nat, v \in Nodes : AK2[t][v] \in Nat
    BY DEF Acknowledges
  <2> QED
    BY <2>1, <2>2, SoundTypes DEF Sound
<1>2. TermOf(dk)[n] = dk[n].term /\ LogOf(dk)[n] = dk[n].log /\ CommitOf(dk)[n] = dk[n].commit
  BY <1>1, RecordsOf
<1>r. Records(TermOf(dk), VoteOf(dk), LogOf(dk), CommitOf(dk))
  BY <1>1, RecordsOf
<1>t. n \in Nodes /\ d.term \in Nat /\ d.log \in Seq(Entry) /\ TO[d.term] # None
  BY <1>1
<1>3. /\ Core(TermOf(dk), VoteOf(dk), LogOf(dk), CommitOf(dk), TL, TO, VH, AK)
      /\ History(TL, TO, VH, AK)
  BY DEF Sound
<1>4. TermOf(dk)[n] <= d.term /\ Follows(LogOf(dk)[n], TL[d.term], d.log)
  BY <1>2 DEF Rewrites
<1>5. /\ Backed(d.log, d.term, TL, TO)
      /\ \A t \in Nat, i \in Nat :
             i <= AK[t][n] /\ Pending(TermOf(dk), t, i, TL, AK) => Extends(d.log, TL[t], i)
      /\ Settled(d.log, CommitOf(dk)[n], d.term, TL, AK)
  BY ONLY <1>r, <1>t, <1>3, <1>4, FollowsKeeps, Zenon
<1>6. Settled(d.log, d.commit, d.term, TL, AK)
  BY <1>2, <1>5
<1>7. Grows(TL, TO, AK, TL, TO, AK2)
  <2>0. \A t \in Nat, v \in Nodes : AK2[t][v] # AK[t][v] => AK[t][v] <= AK2[t][v]
    BY DEF Acknowledges
  <2>1. \A t \in Nat, v \in Nodes : AK[t][v] <= AK2[t][v]
    BY ONLY <1>1, <2>0
  <2>2. \A t \in Nat : Extends(TL[t], TL[t], Len(TL[t]))
    BY <1>1, SMT DEF Extends
  <2> QED
    BY <2>1, <2>2 DEF Grows
<1>8. Settled(d.log, d.commit, d.term, TL, AK2)
  <2>1. d.term <= d.term
    BY <1>1, SMT
  <2> QED
    BY <1>1, <1>6, <1>7, <2>1, SettledKept
<1>9. Retains(n, d, dk, TL, AK)
  BY <1>5 DEF Retains
<1>10. Recordable(n, d, dk, dk2, TL, TO, VH, AK, AK2)
  BY <1>5, <1>8, <1>9 DEF Recordable
<1> QED
  BY ONLY <1>10, RecordStep, Zenon

(* A candidate with the votes of a majority becomes the leader. *)
LEMMA ElectionStep ==
    ASSUME NEW dk, NEW TL, NEW TO, NEW VH, NEW AK,
           Sound(dk, TL, TO, VH, AK),
           NEW c \in Voters, NEW V \in SUBSET Voters, Majority(V),
           \A v \in V : VH[dk[c].term][v] = c,
           Standing(c, V, TermOf(dk), LogOf(dk), TL, TO, AK)
    PROVE  /\ TO[dk[c].term] = None
           /\ \E TL2, TO2, AK2 :
                  /\ Sound(dk, TL2, TO2, VH, AK2)
                  /\ Succeeds(dk, TL, TO, VH, AK, dk, TL2, TO2, VH, AK2)
                  /\ Wins(dk[c].term, c, dk[c].log, TL, TO, AK, TL2, TO2, AK2)
<1> DEFINE T == dk[c].term
<1> DEFINE L == dk[c].log
<1> DEFINE TL2 == [t \in Nat |-> IF t = T THEN L ELSE TL[t]]
<1> DEFINE TO2 == [t \in Nat |-> IF t = T THEN c ELSE TO[t]]
<1> DEFINE AK2 == [t \in Nat |-> [v \in Nodes |-> IF t = T /\ v = c THEN Len(L) ELSE AK[t][v]]]
<1>1. c \in Nodes /\ T \in Nat /\ L \in Seq(Entry) /\ Len(L) \in Nat
  BY SoundTypes DEF Nodes
<1>2. /\ Records(TermOf(dk), VoteOf(dk), LogOf(dk), CommitOf(dk))
      /\ TermOf(dk)[c] = T /\ LogOf(dk)[c] = L
  BY <1>1, RecordsOf DEF Sound
<1>3. /\ History(TL, TO, VH, AK)
      /\ Core(TermOf(dk), VoteOf(dk), LogOf(dk), CommitOf(dk), TL, TO, VH, AK)
  BY DEF Sound
<1> HIDE DEF T, L
<1>4. Wins(T, c, L, TL, TO, AK, TL2, TO2, AK2)
  BY <1>1 DEF Wins
<1>5. History(TL2, TO2, VH, AK2)
  <2>1. TL2 \in [Nat -> Seq(Entry)]
    BY <1>1, SoundTypes
  <2>2. TO2 \in [Nat -> Voters \cup {None}]
    BY <1>1, SoundTypes
  <2>3. AK2 \in [Nat -> [Nodes -> Nat]]
    BY <1>1, SoundTypes
  <2> QED
    BY <1>3, <2>1, <2>2, <2>3 DEF History
<1> HIDE DEF TL2, TO2, AK2
<1>6. T = TermOf(dk)[c] /\ (\A v \in V : VH[T][v] = c) /\ Standing(c, V, TermOf(dk), LogOf(dk), TL, TO, AK)
  BY <1>2 DEF T
<1>7. Wins(T, c, LogOf(dk)[c], TL, TO, AK, TL2, TO2, AK2)
  BY <1>2, <1>4
<1>8. c \in Voters /\ T \in Nat /\ V \in SUBSET Voters /\ Majority(V)
  BY <1>1
<1>9. /\ Core(TermOf(dk), VoteOf(dk), LogOf(dk), CommitOf(dk), TL2, TO2, VH, AK2)
      /\ Evolves(TermOf(dk), TL, TO, VH, AK, TermOf(dk), TL2, TO2, VH, AK2)
      /\ TO[T] = None
  <2>1. Records(TermOf(dk), VoteOf(dk), LogOf(dk), CommitOf(dk))
    BY <1>2
  <2>2. T = TermOf(dk)[c] /\ Standing(c, V, TermOf(dk), LogOf(dk), TL, TO, AK)
    BY <1>6
  <2>3. \A v \in V : VH[T][v] = c
    BY <1>6
  <2>4. Elects(TermOf(dk), VoteOf(dk), LogOf(dk), CommitOf(dk), TL, TO, VH, AK, TL2, TO2, AK2, c, T, V)
    BY <1>3, <1>5, <1>7, <1>8, <2>1, <2>2, <2>3 DEF Elects
  <2> QED
    BY ONLY <2>4, WinStep, Zenon
<1>10. Sound(dk, TL2, TO2, VH, AK2)
  BY <1>5, <1>9 DEF Sound
<1>11. Succeeds(dk, TL, TO, VH, AK, dk, TL2, TO2, VH, AK2)
  BY <1>9 DEF Succeeds
<1>12. Wins(dk[c].term, c, dk[c].log, TL, TO, AK, TL2, TO2, AK2)
  BY <1>4 DEF T, L
<1>13. TO[dk[c].term] = None
  BY <1>9 DEF T
<1> QED
  BY ONLY <1>10, <1>11, <1>12, <1>13, Zenon

(* A leader appends an entry to its log. *)
LEMMA ProposalStep ==
    ASSUME NEW dk, NEW dk2, NEW TL, NEW TO, NEW VH, NEW AK,
           Sound(dk, TL, TO, VH, AK),
           NEW l \in Nodes, NEW nx, NEW mt, Leading(l, nx, mt, TermOf(dk), LogOf(dk), TL, TO, AK),
           NEW e \in Entry, e.term = dk[l].term,
           dk2 = [dk EXCEPT ![l] = [dk[l] EXCEPT !.log = Append(dk[l].log, e)]]
    PROVE  \E TL2, AK2 :
               /\ Sound(dk2, TL2, TO, VH, AK2)
               /\ Succeeds(dk, TL, TO, VH, AK, dk2, TL2, TO, VH, AK2)
               /\ Proposes(dk[l].term, l, e, LogOf(dk), TL, AK, LogOf(dk2), TL2, AK2)
<1> DEFINE T == dk[l].term
<1> DEFINE L == Append(dk[l].log, e)
<1> DEFINE TL2 == [t \in Nat |-> IF t = T THEN L ELSE TL[t]]
<1> DEFINE AK2 == [t \in Nat |-> [v \in Nodes |-> IF t = T /\ v = l THEN Len(L) ELSE AK[t][v]]]
<1>1. /\ dk \in [Nodes -> Disk] /\ dk[l] \in Disk /\ T \in Nat
      /\ dk[l].log \in Seq(Entry) /\ Len(dk[l].log) \in Nat
  BY SoundTypes DEF Sound
<1>2. L \in Seq(Entry) /\ Len(L) \in Nat
  BY <1>1, SMT
<1> HIDE DEF L
<1>3. dk2[l] = [dk[l] EXCEPT !.log = L] /\ \A m \in Nodes \ {l} : dk2[m] = dk[m]
  BY <1>1 DEF L
<1>4. /\ dk2[l] \in Disk /\ dk2[l].term = dk[l].term /\ dk2[l].vote = dk[l].vote
      /\ dk2[l].commit = dk[l].commit /\ dk2[l].log = L
  BY <1>1, <1>2, <1>3 DEF Disk
<1>5. dk2 \in [Nodes -> Disk]
  BY <1>1, <1>2 DEF Disk, L
<1>6. /\ Records(TermOf(dk), VoteOf(dk), LogOf(dk), CommitOf(dk))
      /\ \A n \in Nodes : LogOf(dk)[n] = dk[n].log /\ TermOf(dk)[n] = dk[n].term
  BY <1>1, RecordsOf
<1>7. /\ Records(TermOf(dk2), VoteOf(dk2), LogOf(dk2), CommitOf(dk2))
      /\ \A n \in Nodes : LogOf(dk2)[n] = dk2[n].log
  BY <1>5, RecordsOf
<1>8. TermOf(dk2) = TermOf(dk) /\ VoteOf(dk2) = VoteOf(dk) /\ CommitOf(dk2) = CommitOf(dk)
  <2>1. \A n \in Nodes : dk2[n].term = dk[n].term /\ dk2[n].vote = dk[n].vote /\ dk2[n].commit = dk[n].commit
    BY <1>3, <1>4
  <2> QED
    BY <2>1 DEF TermOf, VoteOf, CommitOf
<1>9. /\ History(TL, TO, VH, AK)
      /\ Core(TermOf(dk), VoteOf(dk), LogOf(dk), CommitOf(dk), TL, TO, VH, AK)
  BY DEF Sound
<1> HIDE DEF T
<1>10. Proposes(T, l, e, LogOf(dk), TL, AK, LogOf(dk2), TL2, AK2)
  <2>1. \A m \in Nodes \ {l} : LogOf(dk2)[m] = LogOf(dk)[m]
    BY ONLY <1>3, <1>6, <1>7
  <2>2. LogOf(dk2)[l] = L /\ L = Append(LogOf(dk)[l], e)
    BY <1>4, <1>6, <1>7 DEF L
  <2>3. T \in Nat
    BY <1>1 DEF T
  <2>4. TL2[T] = L /\ AK2[T][l] = Len(L) /\ \A t \in Nat : t # T => TL2[t] = TL[t]
    BY <1>1, <2>3
  <2>5. \A t \in Nat, v \in Nodes : ~(t = T /\ v = l) => AK2[t][v] = AK[t][v]
    OBVIOUS
  <2> HIDE DEF TL2, AK2
  <2> QED
    BY <2>1, <2>2, <2>4, <2>5 DEF Proposes
<1>11. History(TL2, TO, VH, AK2)
  <2>1. TL2 \in [Nat -> Seq(Entry)]
    BY <1>2, SoundTypes
  <2>2. AK2 \in [Nat -> [Nodes -> Nat]]
    BY <1>2, SoundTypes
  <2> QED
    BY <1>9, <2>1, <2>2 DEF History
<1> HIDE DEF TL2, AK2
<1>12. /\ l \in Voters /\ T \in Nat /\ T = TermOf(dk)[l] /\ TO[T] = l /\ TL[T] = LogOf(dk)[l]
       /\ AK[T][l] = Len(LogOf(dk)[l]) /\ e \in Entry /\ Term(e) = T
  BY <1>1, <1>6 DEF Leading, T, Term
<1>13. Records(TermOf(dk), VoteOf(dk), LogOf(dk2), CommitOf(dk))
  BY <1>7, <1>8
<1>14. /\ Core(TermOf(dk), VoteOf(dk), LogOf(dk2), CommitOf(dk), TL2, TO, VH, AK2)
       /\ Evolves(TermOf(dk), TL, TO, VH, AK, TermOf(dk), TL2, TO, VH, AK2)
  BY ONLY <1>6, <1>9, <1>10, <1>11, <1>12, <1>13, ProposeStep, ZenonT(60)
<1>15. Sound(dk2, TL2, TO, VH, AK2)
  BY <1>5, <1>8, <1>11, <1>14 DEF Sound
<1>16. Succeeds(dk, TL, TO, VH, AK, dk2, TL2, TO, VH, AK2)
  BY <1>8, <1>14 DEF Succeeds
<1>17. Proposes(dk[l].term, l, e, LogOf(dk), TL, AK, LogOf(dk2), TL2, AK2)
  BY <1>10 DEF T
<1> QED
  BY <1>15, <1>16, <1>17

Roles(dk, rl, nx, mt, pl, TL, TO, VH, AK) ==
    \A n \in Nodes :
        RoleOf(n, rl[n], nx[n], mt[n], pl[n], TermOf(dk), LogOf(dk), TL, TO, VH, AK)

(* A node whose term and log stay keeps its role. *)
LEMMA Undisturbed ==
    ASSUME NEW dk, NEW TL, NEW TO, NEW VH, NEW AK, Sound(dk, TL, TO, VH, AK),
           NEW dk2, NEW TL2, NEW TO2, NEW VH2, NEW AK2, Sound(dk2, TL2, TO2, VH2, AK2),
           Succeeds(dk, TL, TO, VH, AK, dk2, TL2, TO2, VH2, AK2),
           NEW m \in Nodes, NEW r, NEW nx, NEW mt \in [Nodes -> Nat], NEW p \in Ballot,
           RoleOf(m, r, nx, mt, p, TermOf(dk), LogOf(dk), TL, TO, VH, AK),
           dk2[m].term = dk[m].term, dk2[m].log = dk[m].log,
           r = "Leader" => /\ TL2[dk[m].term] = TL[dk[m].term]
                           /\ AK2[dk[m].term][m] = AK[dk[m].term][m],
           r = "Candidate" => TO2[dk[m].term] # m
    PROVE  RoleOf(m, r, nx, mt, p, TermOf(dk2), LogOf(dk2), TL2, TO2, VH2, AK2)
<1> DEFINE tm == TermOf(dk)
<1> DEFINE lg == LogOf(dk)
<1> DEFINE tm2 == TermOf(dk2)
<1> DEFINE lg2 == LogOf(dk2)
<1>1. /\ Records(tm, VoteOf(dk), lg, CommitOf(dk)) /\ Records(tm2, VoteOf(dk2), lg2, CommitOf(dk2))
      /\ \A n \in Nodes : tm[n] = dk[n].term /\ lg[n] = dk[n].log
      /\ \A n \in Nodes : tm2[n] = dk2[n].term /\ lg2[n] = dk2[n].log
  <2>1. dk \in [Nodes -> Disk] /\ dk2 \in [Nodes -> Disk]
    BY DEF Sound
  <2> QED
    BY <2>1, RecordsOf
<1>2. /\ Core(tm, VoteOf(dk), lg, CommitOf(dk), TL, TO, VH, AK)
      /\ History(TL, TO, VH, AK) /\ History(TL2, TO2, VH2, AK2)
  BY DEF Sound
<1>3. Evolves(tm, TL, TO, VH, AK, tm2, TL2, TO2, VH2, AK2)
  BY DEF Succeeds
<1>4. tm2[m] = tm[m] /\ lg2[m] = lg[m] /\ tm[m] = dk[m].term /\ tm[m] \in Nat
  <2>1. dk[m].term \in Nat
    BY SoundTypes
  <2> QED
    BY <1>1, <2>1
<1> HIDE DEF tm, lg, tm2, lg2
<1>5. RoleOf(m, r, nx, mt, p, tm, lg, TL, TO, VH, AK)
  BY DEF tm, lg
<1>6. Spared(m, r, tm, lg, TL, AK, tm2, lg2, TL2, TO2, AK2)
  BY <1>4 DEF Spared
<1>7. m \in Nodes /\ p \in Ballot /\ mt \in [Nodes -> Nat]
  OBVIOUS
<1>8. RoleOf(m, r, nx, mt, p, tm2, lg2, TL2, TO2, VH2, AK2)
  BY ONLY <1>1, <1>2, <1>3, <1>5, <1>6, <1>7, RoleKept, Zenon
<1> QED
  BY <1>8 DEF tm2, lg2

(* A node that follows has only its old vote requests to account for. *)
LEMMA Resigned ==
    ASSUME NEW dk, NEW TL, NEW TO, NEW VH, NEW AK, Sound(dk, TL, TO, VH, AK),
           NEW dk2, NEW TL2, NEW TO2, NEW VH2, NEW AK2, Sound(dk2, TL2, TO2, VH2, AK2),
           Succeeds(dk, TL, TO, VH, AK, dk2, TL2, TO2, VH2, AK2),
           NEW m \in Nodes, NEW p \in Ballot, NEW p2 \in Ballot, Polled(m, p, TermOf(dk), VH),
           p2.term = p.term, p2.open \subseteq p.open, p2.votes \subseteq p.votes
    PROVE  Polled(m, p2, TermOf(dk2), VH2)
<1>1. /\ dk[m].term \in Nat /\ dk2[m].term \in Nat
      /\ TermOf(dk)[m] = dk[m].term /\ TermOf(dk2)[m] = dk2[m].term
      /\ p.term \in Nat /\ p2.term = p.term /\ p2.votes \subseteq Nodes
  <2>1. dk \in [Nodes -> Disk] /\ dk2 \in [Nodes -> Disk]
    BY DEF Sound
  <2>2. p.term \in Nat /\ p2.votes \subseteq Nodes
    BY DEF Ballot, Nodes
  <2> QED
    BY <2>1, <2>2, RecordsOf, SoundTypes
<1>2. p2.term <= TermOf(dk2)[m]
  <2>1. p.term <= TermOf(dk)[m]
    BY DEF Polled
  <2>2. TermOf(dk)[m] <= TermOf(dk2)[m]
    BY DEF Succeeds, Evolves
  <2> QED
    BY ONLY <1>1, <2>1, <2>2
<1>3. p2.open # {} => m \in Voters
  BY DEF Polled
<1>4. ASSUME NEW v \in p2.votes PROVE VH2[p2.term][v] = m
  <2>1. v \in Nodes /\ VH[p.term][v] = m /\ m # None
    BY <1>1, MembersAssumption DEF Polled
  <2> QED
    BY <1>1, <2>1, SMT DEF Succeeds, Evolves
<1> QED
  BY <1>2, <1>3, <1>4 DEF Polled

(* The requests on their way survive every step: they repeat a log that only *)
(* grows.                                                                    *)
LEMMA RequestsKept ==
    ASSUME NEW dk, NEW TL, NEW TO, NEW VH, NEW AK, Sound(dk, TL, TO, VH, AK),
           NEW dk2, NEW TL2, NEW TO2, NEW VH2, NEW AK2, Sound(dk2, TL2, TO2, VH2, AK2),
           Succeeds(dk, TL, TO, VH, AK, dk2, TL2, TO2, VH2, AK2),
           NEW m \in Request, Sent(m, TL, TO, AK)
    PROVE  Sent(m, TL2, TO2, AK2)
<1>1. /\ \A t \in Nat : Len(TL[t]) \in Nat /\ Len(TL2[t]) \in Nat
      /\ \A t \in Nat, v \in Nodes : AK[t][v] \in Nat /\ AK2[t][v] \in Nat
  <2>1. \A t \in Nat : Len(TL[t]) \in Nat
    BY SoundTypes
  <2>2. \A t \in Nat : Len(TL2[t]) \in Nat
    BY SoundTypes
  <2>3. \A t \in Nat, v \in Nodes : AK[t][v] \in Nat
    BY SoundTypes
  <2>4. \A t \in Nat, v \in Nodes : AK2[t][v] \in Nat
    BY SoundTypes
  <2> QED
    BY <2>1, <2>2, <2>3, <2>4
<1>2. Grows(TL, TO, AK, TL2, TO2, AK2)
  BY DEF Succeeds, Evolves
<1> QED
  BY <1>1, <1>2, SentKept

Counts(p2, p, v) ==
    p2.term = p.term /\ p2.index = p.index /\ p2.last = p.last /\ p2.votes = p.votes \cup {v}

(* The vote of v counts for c. *)
LEMMA VoteCounts ==
    ASSUME NEW dk, NEW TL, NEW TO, NEW VH, NEW AK, Sound(dk, TL, TO, VH, AK),
           NEW dk2, NEW VH2, Sound(dk2, TL, TO, VH2, AK),
           Succeeds(dk, TL, TO, VH, AK, dk2, TL, TO, VH2, AK),
           NEW c \in Nodes, NEW v \in Voters, NEW r, NEW nx, NEW mt \in [Nodes -> Nat], NEW p \in Ballot,
           RoleOf(c, r, nx, mt, p, TermOf(dk), LogOf(dk), TL, TO, VH, AK),
           dk2[c].term = dk[c].term, dk2[c].log = dk[c].log,
           LogOk(dk[v], p), VH2[p.term][v] = c, v \in p.open,
           NEW p2 \in Ballot, Counts(p2, p, v)
    PROVE  RoleOf(c, r, nx, mt, p2, TermOf(dk2), LogOf(dk2), TL, TO, VH2, AK)
<1>1. /\ dk \in [Nodes -> Disk] /\ dk2 \in [Nodes -> Disk] /\ v \in Nodes
      /\ \A n \in Nodes : TermOf(dk)[n] = dk[n].term /\ LogOf(dk)[n] = dk[n].log
      /\ \A n \in Nodes : TermOf(dk2)[n] = dk2[n].term /\ LogOf(dk2)[n] = dk2[n].log
      /\ Records(TermOf(dk), VoteOf(dk), LogOf(dk), CommitOf(dk))
  <2>1. dk \in [Nodes -> Disk] /\ dk2 \in [Nodes -> Disk]
    BY DEF Sound
  <2>2. v \in Nodes
    BY DEF Nodes
  <2> QED
    BY <2>1, <2>2, RecordsOf
<1>2. RoleOf(c, r, nx, mt, p, TermOf(dk2), LogOf(dk2), TL, TO, VH2, AK)
  <2>1. r = "Candidate" => TO[dk[c].term] # c
    BY <1>1 DEF RoleOf, Standing
  <2>2. /\ Sound(dk, TL, TO, VH, AK) /\ Sound(dk2, TL, TO, VH2, AK)
        /\ Succeeds(dk, TL, TO, VH, AK, dk2, TL, TO, VH2, AK)
        /\ c \in Nodes /\ mt \in [Nodes -> Nat] /\ p \in Ballot
        /\ RoleOf(c, r, nx, mt, p, TermOf(dk), LogOf(dk), TL, TO, VH, AK)
        /\ dk2[c].term = dk[c].term /\ dk2[c].log = dk[c].log
    OBVIOUS
  <2> QED
    BY ONLY <2>1, <2>2, Undisturbed, Zenon
<1>3. Polled(c, p2, TermOf(dk2), VH2)
  <2>1. Polled(c, p, TermOf(dk2), VH2)
    BY <1>2 DEF RoleOf
  <2>2. c \in Voters
    BY <2>1 DEF Polled
  <2> QED
    BY <2>1, <2>2 DEF Polled, Counts
<1>4. ASSUME r = "Candidate"
      PROVE  /\ Standing(c, p2.votes, TermOf(dk2), LogOf(dk2), TL, TO, AK)
             /\ Current(c, p2, TermOf(dk2), LogOf(dk2))
  <2>1. /\ Standing(c, p.votes, TermOf(dk2), LogOf(dk2), TL, TO, AK)
        /\ Current(c, p, TermOf(dk2), LogOf(dk2))
    BY <1>2, <1>4 DEF RoleOf
  <2>2. ASSUME NEW t \in Nat, NEW i \in Nat,
               i <= AK[t][v], Pending(TermOf(dk2), t, i, TL, AK)
        PROVE  Extends(LogOf(dk2)[c], TL[t], i)
    <3>1. i <= Len(TL[t])
      <4>1. Len(TL[t]) \in Nat
        BY SoundTypes
      <4>2. i \in 1 .. Len(TL[t])
        BY <2>2 DEF Pending
      <4> QED
        BY ONLY <4>1, <4>2
    <3>2. Pending(TermOf(dk), t, i, TL, AK)
      BY <2>2, <3>1 DEF Succeeds, Evolves
    <3>3. Current(c, p, TermOf(dk), LogOf(dk))
      BY <1>4 DEF RoleOf
    <3>4. \/ LastTerm(LogOf(dk)[c]) > LastTerm(LogOf(dk)[v])
          \/ LastTerm(LogOf(dk)[c]) = LastTerm(LogOf(dk)[v]) /\ Len(LogOf(dk)[c]) >= Len(LogOf(dk)[v])
      BY <1>1, <3>3 DEF LogOk, Current
    <3>5. /\ History(TL, TO, VH, AK)
          /\ Core(TermOf(dk), VoteOf(dk), LogOf(dk), CommitOf(dk), TL, TO, VH, AK)
      BY DEF Sound
    <3>6. Extends(LogOf(dk)[c], TL[t], i)
      BY ONLY <1>1, <2>2, <3>2, <3>4, <3>5, t \in Nat, i \in Nat, c \in Nodes, GrantSound, Zenon
    <3> QED
      BY <1>1, <3>6
  <2>3. Standing(c, p2.votes, TermOf(dk2), LogOf(dk2), TL, TO, AK)
    <3>1. \A w \in p2.votes, t \in Nat, i \in Nat :
              /\ t < TermOf(dk2)[c] /\ i <= AK[t][w] /\ Pending(TermOf(dk2), t, i, TL, AK)
              => Extends(LogOf(dk2)[c], TL[t], i)
      BY <2>1, <2>2 DEF Standing, Counts
    <3> QED
      BY <2>1, <3>1 DEF Standing
  <2>4. Current(c, p2, TermOf(dk2), LogOf(dk2))
    BY <2>1 DEF Current, Counts
  <2> QED
    BY <2>3, <2>4
<1> QED
  BY <1>2, <1>3, <1>4 DEF RoleOf

(* A node that campaigns stands, with its own vote. *)
LEMMA Campaigned ==
    ASSUME NEW dk, NEW TL, NEW TO, NEW VH, NEW AK, Sound(dk, TL, TO, VH, AK),
           NEW dk2, NEW VH2, Sound(dk2, TL, TO, VH2, AK),
           Succeeds(dk, TL, TO, VH, AK, dk2, TL, TO, VH2, AK),
           NEW c \in Voters, dk2[c].term = dk[c].term + 1, dk2[c].log = dk[c].log,
           VH2[dk2[c].term][c] = c,
           NEW nx, NEW mt, NEW p \in Ballot,
           p.term = dk2[c].term, p.index = Len(dk[c].log), p.last = LastTerm(dk[c].log),
           p.votes = {c}
    PROVE  RoleOf(c, "Candidate", nx, mt, p, TermOf(dk2), LogOf(dk2), TL, TO, VH2, AK)
<1>1. /\ c \in Nodes /\ c # None
      /\ dk[c].term \in Nat /\ dk2[c].term \in Nat /\ Len(dk[c].log) \in Nat
      /\ TermOf(dk)[c] = dk[c].term /\ LogOf(dk)[c] = dk[c].log
      /\ TermOf(dk2)[c] = dk2[c].term /\ LogOf(dk2)[c] = dk[c].log
  <2>1. dk \in [Nodes -> Disk] /\ dk2 \in [Nodes -> Disk]
    BY DEF Sound
  <2>2. c \in Nodes /\ c # None
    BY MembersAssumption DEF Nodes
  <2>3. dk[c].term \in Nat /\ dk2[c].term \in Nat /\ Len(dk[c].log) \in Nat
    BY <2>2, SoundTypes
  <2> QED
    BY <2>1, <2>2, <2>3, RecordsOf
<1>2. Core(TermOf(dk), VoteOf(dk), LogOf(dk), CommitOf(dk), TL, TO, VH, AK)
  BY DEF Sound
<1>3. TO[dk2[c].term] # c
  <2>1. SUFFICES ASSUME TO[dk2[c].term] = c PROVE FALSE
    OBVIOUS
  <2>2. dk2[c].term <= TermOf(dk)[c]
    BY <1>1, <1>2, <2>1 DEF Core, Elected
  <2> QED
    BY <1>1, <2>2, SMT
<1>4. ASSUME NEW i \in 1..Len(dk[c].log) PROVE Term(dk[c].log[i]) < dk2[c].term
  <2>1. Term(dk[c].log[i]) \in 1..dk[c].term
    BY <1>1, <1>2 DEF Core, NodeLogs, Backed
  <2> QED
    BY <1>1, <2>1, SMT
<1>5. ASSUME NEW t \in Nat, NEW i \in Nat, i <= AK[t][c], Pending(TermOf(dk2), t, i, TL, AK)
      PROVE  Extends(dk[c].log, TL[t], i)
  <2>1. i <= Len(TL[t])
    <3>1. Len(TL[t]) \in Nat
      BY SoundTypes
    <3> QED
      BY <1>5, <3>1, SMT DEF Pending
  <2>2. Pending(TermOf(dk), t, i, TL, AK)
    BY <1>5, <2>1 DEF Succeeds, Evolves
  <2> QED
    BY <1>1, <1>2, <1>5, <2>2 DEF Core, NodesHold
<1>6. 0 < dk2[c].term
  BY <1>1, SMT
<1>7. Standing(c, p.votes, TermOf(dk2), LogOf(dk2), TL, TO, AK)
  BY <1>1, <1>3, <1>4, <1>5, <1>6 DEF Standing
<1>8. Polled(c, p, TermOf(dk2), VH2)
  BY <1>1, SMT DEF Polled
<1>9. Current(c, p, TermOf(dk2), LogOf(dk2))
  BY <1>1 DEF Current
<1> QED
  BY <1>7, <1>8, <1>9 DEF RoleOf

(* The winner leads; every other node keeps its role. *)
LEMMA Crowned ==
    ASSUME NEW dk, NEW TL, NEW TO, NEW VH, NEW AK, Sound(dk, TL, TO, VH, AK),
           NEW TL2, NEW TO2, NEW AK2, Sound(dk, TL2, TO2, VH, AK2),
           NEW c \in Voters, Wins(dk[c].term, c, dk[c].log, TL, TO, AK, TL2, TO2, AK2),
           NEW nx, NEW mt, NEW p, Polled(c, p, TermOf(dk), VH),
           \A q \in Nodes : nx[q] = Len(dk[c].log) + 1 /\ mt[q] = 0
    PROVE  RoleOf(c, "Leader", nx, mt, p, TermOf(dk), LogOf(dk), TL2, TO2, VH, AK2)
<1>1. /\ c \in Nodes /\ dk[c].term \in Nat /\ Len(dk[c].log) \in Nat
      /\ TermOf(dk)[c] = dk[c].term /\ LogOf(dk)[c] = dk[c].log
      /\ \A t \in Nat, v \in Nodes : AK2[t][v] \in Nat
  <2>1. dk \in [Nodes -> Disk]
    BY DEF Sound
  <2>2. c \in Nodes
    BY DEF Nodes
  <2>3. \A t \in Nat, v \in Nodes : AK2[t][v] \in Nat
    BY SoundTypes
  <2> QED
    BY <2>1, <2>2, <2>3, RecordsOf, SoundTypes
<1>2. /\ TO2[dk[c].term] = c /\ TL2[dk[c].term] = dk[c].log /\ AK2[dk[c].term][c] = Len(dk[c].log)
  BY DEF Wins
<1>3. \A q \in Nodes : nx[q] \in 1..(Len(dk[c].log) + 1)
  BY <1>1, SMT
<1>4. \A q \in Voters : mt[q] <= AK2[dk[c].term][q]
  BY <1>1, SMT DEF Nodes
<1>5. Leading(c, nx, mt, TermOf(dk), LogOf(dk), TL2, TO2, AK2)
  BY <1>1, <1>2, <1>3, <1>4 DEF Leading
<1> QED
  BY <1>5 DEF RoleOf

(* The election of c leaves every other node's role as it is. *)
LEMMA OthersKeep ==
    ASSUME NEW dk, NEW TL, NEW TO, NEW VH, NEW AK, Sound(dk, TL, TO, VH, AK),
           NEW TL2, NEW TO2, NEW AK2, Sound(dk, TL2, TO2, VH, AK2),
           Succeeds(dk, TL, TO, VH, AK, dk, TL2, TO2, VH, AK2),
           NEW c \in Voters, Wins(dk[c].term, c, dk[c].log, TL, TO, AK, TL2, TO2, AK2),
           TO[dk[c].term] = None,
           NEW m \in Nodes, m # c, NEW r, NEW nx, NEW mt \in [Nodes -> Nat], NEW p \in Ballot,
           RoleOf(m, r, nx, mt, p, TermOf(dk), LogOf(dk), TL, TO, VH, AK)
    PROVE  RoleOf(m, r, nx, mt, p, TermOf(dk), LogOf(dk), TL2, TO2, VH, AK2)
<1>1. dk[m].term \in Nat /\ TermOf(dk)[m] = dk[m].term /\ m # None
  BY SoundTypes, RecordsOf, MembersAssumption DEF Sound
<1>2. r = "Leader" => /\ TL2[dk[m].term] = TL[dk[m].term]
                      /\ AK2[dk[m].term][m] = AK[dk[m].term][m]
  <2>1. SUFFICES ASSUME r = "Leader"
                 PROVE  TL2[dk[m].term] = TL[dk[m].term] /\ AK2[dk[m].term][m] = AK[dk[m].term][m]
    OBVIOUS
  <2>2. TO[dk[m].term] = m
    BY <1>1, <2>1 DEF RoleOf, Leading
  <2> QED
    BY <1>1, <2>2 DEF Wins
<1>3. r = "Candidate" => TO2[dk[m].term] # m
  <2>1. SUFFICES ASSUME r = "Candidate" PROVE TO2[dk[m].term] # m
    OBVIOUS
  <2>2. TO[dk[m].term] # m
    BY <1>1, <2>1 DEF RoleOf, Standing
  <2> QED
    BY <1>1, <2>2 DEF Wins
<1> QED
  BY <1>2, <1>3, Undisturbed, ZenonT(60)

(* The larger of two numbers. *)
LEMMA MaxPair ==
    ASSUME NEW a \in Nat, NEW b \in Nat
    PROVE  /\ Max({a, b}) = (IF a >= b THEN a ELSE b)
           /\ Max({a, b}) \in Nat
<1> DEFINE x == IF a >= b THEN a ELSE b
<1>1. x \in {a, b} /\ \A y \in {a, b} : x >= y
  BY SMT
<1>2. \A z \in {a, b} : (\A y \in {a, b} : z >= y) => z = x
  BY SMT
<1> HIDE DEF x
<1>3. Max({a, b}) = x
  BY <1>1, <1>2 DEF Max
<1> QED
  BY <1>3 DEF x

(* The smaller of two numbers. *)
LEMMA MinPair ==
    ASSUME NEW a \in Nat, NEW b \in Nat
    PROVE  /\ Min({a, b}) = (IF a <= b THEN a ELSE b)
           /\ Min({a, b}) \in Nat
<1> DEFINE x == IF a <= b THEN a ELSE b
<1>1. x \in {a, b} /\ \A y \in {a, b} : x <= y
  BY SMT
<1>2. \A z \in {a, b} : (\A y \in {a, b} : z <= y) => z = x
  BY SMT
<1> HIDE DEF x
<1>3. Min({a, b}) = x
  BY <1>1, <1>2 DEF Min
<1> QED
  BY <1>3 DEF x

(* A swap in es follows the value that it compared with. *)
Chained(es) ==
    \A i \in DOMAIN es : es[i].op = "cas" => es[i].exp = Latest(SubSeq(es, 1, i - 1))

Chains(TL) == \A t \in Nat : Chained(TL[t])

(* Logs that agree have the same prefixes. *)
LEMMA SamePrefix ==
    ASSUME NEW L \in Seq(Entry), NEW es \in Seq(Entry), Extends(es, L, Len(L)), NEW k \in Nat, k <= Len(L)
    PROVE  SubSeq(L, 1, k) = SubSeq(es, 1, k)
<1> DEFINE A == SubSeq(L, 1, k)
<1> DEFINE B == SubSeq(es, 1, k)
<1>0. k <= Len(es) /\ Len(L) \in Nat /\ Len(es) \in Nat
  BY SMT DEF Extends
<1>1. A \in Seq(Entry) /\ Len(A) = k /\ \A j \in 1..k : A[j] = L[j]
  BY SubSeqFacts, SMT
<1>2. B \in Seq(Entry) /\ Len(B) = k /\ \A j \in 1..k : B[j] = es[j]
  BY <1>0, SubSeqFacts, SMT
<1> HIDE DEF A, B
<1>3. \A j \in 1..k : A[j] = B[j]
  <2>1. \A j \in 1..k : j \in 1..Len(L)
    BY ONLY <1>0, k \in Nat, k <= Len(L), SMT
  <2> QED
    BY <1>1, <1>2, <2>1 DEF Extends
<1>4. A = B
  BY <1>1, <1>2, <1>3, SMT
<1> QED
  BY <1>4 DEF A, B

(* A prefix of a log whose compare-and-swaps all succeed is such a log. *)
LEMMA ChainedPrefix ==
    ASSUME NEW L \in Seq(Entry), NEW es \in Seq(Entry), Extends(es, L, Len(L)), Chained(es)
    PROVE  Chained(L)
<1>1. SUFFICES ASSUME NEW i \in DOMAIN L, L[i].op = "cas"
               PROVE  L[i].exp = Latest(SubSeq(L, 1, i - 1))
  BY DEF Chained
<1>2. /\ i \in 1..Len(L) /\ i \in DOMAIN es /\ L[i] = es[i] /\ i - 1 \in Nat /\ i - 1 <= Len(L)
  BY SMT DEF Extends
<1>3. es[i].exp = Latest(SubSeq(es, 1, i - 1))
  BY <1>1, <1>2 DEF Chained
<1>4. SubSeq(L, 1, i - 1) = SubSeq(es, 1, i - 1)
  BY <1>2, SamePrefix
<1> QED
  BY <1>2, <1>3, <1>4

(* An entry appended with the value it expects keeps the log chained         *)
(* (cas_internal compares before it appends).                                *)
LEMMA ChainedAppend ==
    ASSUME NEW L \in Seq(Entry), NEW e \in Entry, Chained(L),
           e.op = "cas" => e.exp = Latest(L)
    PROVE  Chained(Append(L, e))
<1> DEFINE es == Append(L, e)
<1>1. /\ es \in Seq(Entry) /\ Len(es) = Len(L) + 1 /\ Len(L) \in Nat
      /\ es[Len(L) + 1] = e /\ \A i \in 1..Len(L) : es[i] = L[i]
      /\ DOMAIN es = 1..(Len(L) + 1) /\ DOMAIN L = 1..Len(L)
  BY SMT
<1> HIDE DEF es
<1>2. Extends(es, L, Len(L))
  BY <1>1, SMT DEF Extends
<1>3. SUFFICES ASSUME NEW i \in DOMAIN es, es[i].op = "cas"
               PROVE  es[i].exp = Latest(SubSeq(es, 1, i - 1))
  BY DEF Chained, es
<1>4. i - 1 \in Nat /\ i - 1 <= Len(L)
  BY <1>1, SMT
<1>5. SubSeq(L, 1, i - 1) = SubSeq(es, 1, i - 1)
  BY <1>1, <1>2, <1>4, SamePrefix
<1>6. CASE i \in DOMAIN L
  <2>1. L[i].op = "cas" /\ L[i] = es[i]
    BY <1>1, <1>3, <1>6
  <2>2. L[i].exp = Latest(SubSeq(L, 1, i - 1))
    BY <1>6, <2>1 DEF Chained
  <2> QED
    BY <1>5, <2>1, <2>2
<1>7. CASE i = Len(L) + 1
  <2>1. SubSeq(L, 1, i - 1) = L
    <3>1. i - 1 = Len(L)
      BY <1>1, <1>7, SMT
    <3>2. SubSeq(L, 1, Len(L)) = L
      BY SMT
    <3> QED
      BY <3>1, <3>2
  <2>3. es[i] = e
    BY <1>1, <1>7
  <2>4. es[i].exp = Latest(L)
    BY <1>3, <2>3
  <2>5. SubSeq(es, 1, i - 1) = L
    BY <1>5, <2>1
  <2> QED
    BY ONLY <2>4, <2>5, Zenon
<1> QED
  BY <1>1, <1>6, <1>7, SMT

(* Every node's log is chained, because the leaders' logs are. *)
LEMMA ChainedBacked ==
    ASSUME NEW L \in Seq(Entry), NEW t \in Nat, NEW TL \in [Nat -> Seq(Entry)], NEW TO,
           Backed(L, t, TL, TO), Chains(TL)
    PROVE  Chained(L)
<1>1. CASE L = <<>>
  BY <1>1, SMT DEF Chained
<1>2. CASE L # <<>>
  <2> DEFINE u == Term(L[Len(L)])
  <2>1. Len(L) \in 1..Len(L) /\ Len(L) \in Nat
    <3>1. Len(L) \in Nat /\ Len(L) # 0
      BY ONLY <1>2, L \in Seq(Entry), SMT
    <3> QED
      BY ONLY <3>1, SMT
  <2>2. u \in Nat /\ Extends(TL[u], L, Len(L))
    <3>1. u \in 1..t /\ Extends(TL[u], L, Len(L))
      BY <2>1 DEF Backed
    <3> QED
      BY <3>1, SMT
  <2> HIDE DEF u
  <2>3. TL[u] \in Seq(Entry) /\ Chained(TL[u])
    BY <2>2 DEF Chains
  <2> QED
    BY <2>2, <2>3, ChainedPrefix
<1> QED
  BY <1>1, <1>2

(* Elections and proposals keep the leaders' logs so. *)
LEMMA ChainsElected ==
    ASSUME NEW dk, NEW TL, NEW TO, NEW VH, NEW AK, Sound(dk, TL, TO, VH, AK), Chains(TL),
           NEW TL2, NEW TO2, NEW AK2, NEW c \in Nodes,
           Wins(dk[c].term, c, dk[c].log, TL, TO, AK, TL2, TO2, AK2)
    PROVE  Chains(TL2)
<1>1. dk[c].log \in Seq(Entry) /\ dk[c].term \in Nat /\ TL \in [Nat -> Seq(Entry)]
  BY SoundTypes DEF Sound, History
<1>2. Backed(dk[c].log, dk[c].term, TL, TO)
  BY RecordsOf DEF Sound, Core, NodeLogs
<1>3. Chained(dk[c].log)
  BY <1>1, <1>2, ChainedBacked
<1> QED
  BY <1>1, <1>3 DEF Chains, Wins

(* A leader's append keeps the leaders' logs chained. *)
LEMMA ChainsProposed ==
    ASSUME NEW dk, NEW TL, NEW TO, NEW VH, NEW AK, Sound(dk, TL, TO, VH, AK), Chains(TL),
           NEW dk2, NEW TL2, NEW AK2, NEW l \in Nodes, NEW e \in Entry,
           TL[dk[l].term] = dk[l].log, e.op = "cas" => e.exp = Latest(dk[l].log),
           Proposes(dk[l].term, l, e, LogOf(dk), TL, AK, LogOf(dk2), TL2, AK2)
    PROVE  Chains(TL2)
<1>1. dk[l].log \in Seq(Entry) /\ dk[l].term \in Nat /\ LogOf(dk)[l] = dk[l].log
  BY SoundTypes, RecordsOf DEF Sound
<1>2. Chained(dk[l].log)
  BY <1>1 DEF Chains
<1>3. Chained(Append(dk[l].log, e))
  BY <1>1, <1>2, ChainedAppend
<1>4. TL2[dk[l].term] = Append(dk[l].log, e) /\ \A t \in Nat : t # dk[l].term => TL2[t] = TL[t]
  BY <1>1 DEF Proposes
<1> QED
  BY <1>1, <1>3, <1>4 DEF Chains
-----------------------------------------------------------------------------
(* Only the record of n changes, and what the history says of it. *)
Local(n, dk, TL, TO, AK, dk2, TL2, AK2) ==
    /\ \A m \in Nodes \ {n} : dk2[m] = dk[m]
    /\ \A t \in Nat : TO[t] # n => TL2[t] = TL[t]
    /\ \A t \in Nat, v \in Nodes \ {n} : AK2[t][v] = AK[t][v]

(* The nodes other than n keep their roles when n's record changes. *)
LEMMA OthersUndisturbed ==
    ASSUME NEW dk, NEW TL, NEW TO, NEW VH, NEW AK, Sound(dk, TL, TO, VH, AK),
           NEW dk2, NEW TL2, NEW VH2, NEW AK2, Sound(dk2, TL2, TO, VH2, AK2),
           Succeeds(dk, TL, TO, VH, AK, dk2, TL2, TO, VH2, AK2),
           NEW rl, NEW nx, NEW mt \in [Nodes -> [Nodes -> Nat]], NEW pl \in [Nodes -> Ballot],
           Roles(dk, rl, nx, mt, pl, TL, TO, VH, AK),
           NEW n, Local(n, dk, TL, TO, AK, dk2, TL2, AK2)
    PROVE  \A m \in Nodes \ {n} :
               RoleOf(m, rl[m], nx[m], mt[m], pl[m], TermOf(dk2), LogOf(dk2), TL2, TO, VH2, AK2)
<1> TAKE m \in Nodes \ {n}
<1>1. /\ Sound(dk, TL, TO, VH, AK) /\ Sound(dk2, TL2, TO, VH2, AK2)
      /\ Succeeds(dk, TL, TO, VH, AK, dk2, TL2, TO, VH2, AK2)
      /\ m \in Nodes /\ mt[m] \in [Nodes -> Nat] /\ pl[m] \in Ballot
      /\ dk2[m].term = dk[m].term /\ dk2[m].log = dk[m].log
  BY DEF Local
<1>2. RoleOf(m, rl[m], nx[m], mt[m], pl[m], TermOf(dk), LogOf(dk), TL, TO, VH, AK)
  BY DEF Roles
<1>3. dk[m].term \in Nat /\ TermOf(dk)[m] = dk[m].term
  BY SoundTypes, RecordsOf DEF Sound
<1>4. rl[m] = "Leader" => /\ TL2[dk[m].term] = TL[dk[m].term]
                          /\ AK2[dk[m].term][m] = AK[dk[m].term][m]
  BY <1>2, <1>3 DEF RoleOf, Leading, Local
<1>5. rl[m] = "Candidate" => TO[dk[m].term] # m
  BY <1>2, <1>3 DEF RoleOf, Standing
<1> QED
  BY ONLY <1>1, <1>2, <1>4, <1>5, Undisturbed, Zenon

(* What seeing term t makes of a record: the term never falls, and the vote  *)
(* is kept unless the term rises.                                            *)
LEMMA AdoptsFacts ==
    ASSUME NEW d \in Disk, NEW t \in Nat
    PROVE  /\ Adopts(d, t) \in Disk
           /\ Adopts(d, t).log = d.log /\ Adopts(d, t).commit = d.commit
           /\ d.term <= Adopts(d, t).term /\ t <= Adopts(d, t).term
           /\ t >= d.term => Adopts(d, t).term = t
           /\ Adopts(d, t).term = d.term => Adopts(d, t).vote = d.vote
           /\ Adopts(d, t).vote \in {d.vote, None}
<1>1. d.term \in Nat /\ d.vote \in Voters \cup {None} /\ d.log \in Seq(Entry) /\ d.commit \in Nat
  BY DEF Disk
<1>2. CASE t > d.term
  <2>1. Adopts(d, t) = [d EXCEPT !.term = t, !.vote = None]
    BY <1>2 DEF Adopts
  <2>2. /\ Adopts(d, t).term = t /\ Adopts(d, t).vote = None
        /\ Adopts(d, t).log = d.log /\ Adopts(d, t).commit = d.commit
    BY <2>1 DEF Disk
  <2>3. Adopts(d, t) \in Disk
    BY <2>1 DEF Disk
  <2> QED
    BY <1>1, <1>2, <2>2, <2>3, SMT
<1>3. CASE ~(t > d.term)
  <2>1. Adopts(d, t) = d
    BY <1>3 DEF Adopts
  <2> QED
    BY <1>1, <1>3, <2>1, SMT
<1> QED
  BY <1>2, <1>3

(* The numbers of a state that a history explains are naturals. *)
LEMMA SoundNats ==
    ASSUME NEW dk, NEW TL, NEW TO, NEW VH, NEW AK, Sound(dk, TL, TO, VH, AK)
    PROVE  /\ \A n \in Nodes : TermOf(dk)[n] \in Nat
           /\ \A t \in Nat : Len(TL[t]) \in Nat
           /\ \A t \in Nat, v \in Nodes : AK[t][v] \in Nat
<1>1. \A n \in Nodes : dk[n].term \in Nat
  BY SoundTypes
<1>2. \A n \in Nodes : TermOf(dk)[n] = dk[n].term
  BY RecordsOf DEF Sound
<1> QED
  BY <1>1, <1>2, SoundTypes

(* One history's growing into another is transitive. *)
LEMMA SucceedsTrans ==
    ASSUME NEW dk, NEW TL, NEW TO, NEW VH, NEW AK, Sound(dk, TL, TO, VH, AK),
           NEW dk2, NEW TL2, NEW TO2, NEW VH2, NEW AK2, Sound(dk2, TL2, TO2, VH2, AK2),
           NEW dk3, NEW TL3, NEW TO3, NEW VH3, NEW AK3, Sound(dk3, TL3, TO3, VH3, AK3),
           Succeeds(dk, TL, TO, VH, AK, dk2, TL2, TO2, VH2, AK2),
           Succeeds(dk2, TL2, TO2, VH2, AK2, dk3, TL3, TO3, VH3, AK3)
    PROVE  Succeeds(dk, TL, TO, VH, AK, dk3, TL3, TO3, VH3, AK3)
<1> DEFINE tm == TermOf(dk)
<1> DEFINE tm2 == TermOf(dk2)
<1> DEFINE tm3 == TermOf(dk3)
<1>1. /\ \A n \in Nodes : tm[n] \in Nat /\ tm2[n] \in Nat /\ tm3[n] \in Nat
      /\ \A t \in Nat : Len(TL[t]) \in Nat /\ Len(TL2[t]) \in Nat /\ Len(TL3[t]) \in Nat
      /\ \A t \in Nat, v \in Nodes : AK[t][v] \in Nat /\ AK2[t][v] \in Nat /\ AK3[t][v] \in Nat
  BY SoundNats
<1>2. /\ Evolves(tm, TL, TO, VH, AK, tm2, TL2, TO2, VH2, AK2)
      /\ Evolves(tm2, TL2, TO2, VH2, AK2, tm3, TL3, TO3, VH3, AK3)
  BY DEF Succeeds
<1> HIDE DEF tm, tm2, tm3
<1>3. Grows(TL, TO, AK, TL3, TO3, AK3)
  <2>1. Grows(TL, TO, AK, TL2, TO2, AK2) /\ Grows(TL2, TO2, AK2, TL3, TO3, AK3)
    BY <1>2 DEF Evolves
  <2>2. ASSUME NEW t \in Nat PROVE Extends(TL3[t], TL[t], Len(TL[t]))
    <3>1. Extends(TL2[t], TL[t], Len(TL[t])) /\ Extends(TL3[t], TL2[t], Len(TL2[t]))
      BY <2>1 DEF Grows
    <3>2. Len(TL[t]) <= Len(TL2[t])
      BY <3>1 DEF Extends
    <3>3. Len(TL[t]) \in Nat /\ Len(TL2[t]) \in Nat /\ Len(TL3[t]) \in Nat
      BY <1>1
    <3> QED
      BY ONLY <3>1, <3>2, <3>3 DEF Extends
  <2>3. \A t \in Nat : TO[t] # None => TO3[t] = TO[t]
    BY <2>1 DEF Grows
  <2>4. \A t \in Nat, v \in Nodes : AK[t][v] <= AK3[t][v]
    <3> TAKE t \in Nat, v \in Nodes
    <3>1. AK[t][v] <= AK2[t][v] /\ AK2[t][v] <= AK3[t][v]
      BY <2>1 DEF Grows
    <3>2. AK[t][v] \in Nat /\ AK2[t][v] \in Nat /\ AK3[t][v] \in Nat
      BY <1>1
    <3> QED
      BY <3>1, <3>2, SMT
  <2> QED
    BY <2>2, <2>3, <2>4 DEF Grows
<1>4. \A v \in Nodes : tm[v] <= tm3[v]
  <2> TAKE v \in Nodes
  <2>1. tm[v] <= tm2[v] /\ tm2[v] <= tm3[v]
    BY <1>2 DEF Evolves
  <2>2. tm[v] \in Nat /\ tm2[v] \in Nat /\ tm3[v] \in Nat
    BY <1>1
  <2> QED
    BY ONLY <2>1, <2>2, SMT
<1>5. \A t \in Nat, v \in Nodes : VH[t][v] # None => VH3[t][v] = VH[t][v]
  <2> TAKE t \in Nat, v \in Nodes
  <2>1. VH[t][v] # None => VH2[t][v] = VH[t][v]
    BY <1>2 DEF Evolves
  <2>2. VH2[t][v] # None => VH3[t][v] = VH2[t][v]
    BY <1>2 DEF Evolves
  <2> QED
    BY <2>1, <2>2
<1>6. \A t \in Nat, v \in Nodes : AK3[t][v] # AK[t][v] => tm[v] <= t
  <2> TAKE t \in Nat, v \in Nodes
  <2>1. /\ AK2[t][v] # AK[t][v] => tm[v] <= t
        /\ AK3[t][v] # AK2[t][v] => tm2[v] <= t
        /\ tm[v] <= tm2[v]
    BY <1>2 DEF Evolves
  <2>2. tm[v] \in Nat /\ tm2[v] \in Nat
    BY <1>1
  <2> QED
    BY ONLY <2>1, <2>2, t \in Nat, SMT
<1>7. ASSUME NEW t \in Nat, NEW i \in Nat, Pending(tm3, t, i, TL3, AK3), i <= Len(TL[t])
      PROVE  Pending(tm, t, i, TL, AK)
  <2>1. i <= Len(TL2[t])
    <3>1. Extends(TL2[t], TL[t], Len(TL[t]))
      BY <1>2 DEF Evolves, Grows
    <3> QED
      BY <1>1, <1>7, <3>1, SMT DEF Extends
  <2>2. Pending(tm2, t, i, TL2, AK2)
    BY <1>2, <1>7, <2>1 DEF Evolves
  <2> QED
    BY <1>2, <1>7, <2>2 DEF Evolves
<1>8. Evolves(tm, TL, TO, VH, AK, tm3, TL3, TO3, VH3, AK3)
  BY <1>3, <1>4, <1>5, <1>6, <1>7 DEF Evolves
<1> QED
  BY <1>8 DEF Succeeds, tm, tm3

(* A history grows into itself. *)
LEMMA SucceedsRefl ==
    ASSUME NEW dk, NEW TL, NEW TO, NEW VH, NEW AK, Sound(dk, TL, TO, VH, AK)
    PROVE  Succeeds(dk, TL, TO, VH, AK, dk, TL, TO, VH, AK)
  BY SoundNats, SMT DEF Succeeds, Evolves, Grows, Extends

(* Candidate c becomes the leader, and the others stay what they are. *)
Crowns(c, L, rl, nx, mt, pl, rl2, nx2, mt2, pl2) ==
    /\ rl[c] = "Candidate" /\ rl2[c] = "Leader"
    /\ \A q \in Nodes : nx2[c][q] = Len(L) + 1 /\ mt2[c][q] = 0
    /\ pl2[c].term = pl[c].term
    /\ pl2[c].open \subseteq pl[c].open /\ pl2[c].votes \subseteq pl[c].votes
    /\ \A m \in Nodes \ {c} :
        rl2[m] = rl[m] /\ nx2[m] = nx[m] /\ mt2[m] = mt[m] /\ pl2[m] = pl[m]

(* A candidate whose votes are a majority becomes leader (the end of         *)
(* start_election): the history that records its election explains the       *)
(* cluster.                                                                  *)
LEMMA CrownStep ==
    ASSUME NEW dk, NEW TL, NEW TO, NEW VH, NEW AK, Sound(dk, TL, TO, VH, AK), Chains(TL),
           NEW rl, NEW nx, NEW mt \in [Nodes -> [Nodes -> Nat]], NEW pl \in [Nodes -> Ballot],
           Roles(dk, rl, nx, mt, pl, TL, TO, VH, AK),
           NEW c \in Nodes, Majority(pl[c].votes),
           NEW rl2, NEW nx2, NEW mt2, NEW pl2,
           Crowns(c, dk[c].log, rl, nx, mt, pl, rl2, nx2, mt2, pl2)
    PROVE  \E TL2, TO2, AK2 :
               /\ Sound(dk, TL2, TO2, VH, AK2) /\ Chains(TL2)
               /\ Succeeds(dk, TL, TO, VH, AK, dk, TL2, TO2, VH, AK2)
               /\ Roles(dk, rl2, nx2, mt2, pl2, TL2, TO2, VH, AK2)
<1>1. /\ RoleOf(c, "Candidate", nx[c], mt[c], pl[c], TermOf(dk), LogOf(dk), TL, TO, VH, AK)
      /\ pl[c] \in Ballot /\ TermOf(dk)[c] = dk[c].term
  BY RecordsOf DEF Roles, Crowns, Sound
<1>2. /\ Standing(c, pl[c].votes, TermOf(dk), LogOf(dk), TL, TO, AK)
      /\ Polled(c, pl[c], TermOf(dk), VH)
      /\ pl[c].term = dk[c].term
  BY <1>1 DEF RoleOf, Current
<1>3. c \in Voters /\ pl[c].votes \in SUBSET Voters /\ \A v \in pl[c].votes : VH[dk[c].term][v] = c
  BY <1>1, <1>2 DEF Standing, Polled, Ballot
<1>4. /\ TO[dk[c].term] = None
      /\ \E TL2, TO2, AK2 : /\ Sound(dk, TL2, TO2, VH, AK2)
                            /\ Succeeds(dk, TL, TO, VH, AK, dk, TL2, TO2, VH, AK2)
                            /\ Wins(dk[c].term, c, dk[c].log, TL, TO, AK, TL2, TO2, AK2)
  BY <1>2, <1>3, ElectionStep
<1>5. PICK TL2, TO2, AK2 : /\ Sound(dk, TL2, TO2, VH, AK2)
                           /\ Succeeds(dk, TL, TO, VH, AK, dk, TL2, TO2, VH, AK2)
                           /\ Wins(dk[c].term, c, dk[c].log, TL, TO, AK, TL2, TO2, AK2)
  BY <1>4
<1>6. Chains(TL2)
  BY <1>5, ChainsElected
<1>7. RoleOf(c, rl2[c], nx2[c], mt2[c], pl2[c], TermOf(dk), LogOf(dk), TL2, TO2, VH, AK2)
  <2>1. Polled(c, pl2[c], TermOf(dk), VH)
    BY <1>2 DEF Polled, Crowns
  <2>2. \A q \in Nodes : nx2[c][q] = Len(dk[c].log) + 1 /\ mt2[c][q] = 0
    BY DEF Crowns
  <2>3. Sound(dk, TL, TO, VH, AK)
    OBVIOUS
  <2>4. RoleOf(c, "Leader", nx2[c], mt2[c], pl2[c], TermOf(dk), LogOf(dk), TL2, TO2, VH, AK2)
    BY ONLY <1>3, <1>5, <2>1, <2>2, <2>3, Crowned, Zenon
  <2> QED
    BY <2>4 DEF Crowns
<1>8. ASSUME NEW m \in Nodes, m # c
      PROVE  RoleOf(m, rl2[m], nx2[m], mt2[m], pl2[m], TermOf(dk), LogOf(dk), TL2, TO2, VH, AK2)
  <2>1. /\ RoleOf(m, rl[m], nx[m], mt[m], pl[m], TermOf(dk), LogOf(dk), TL, TO, VH, AK)
        /\ mt[m] \in [Nodes -> Nat] /\ pl[m] \in Ballot /\ Sound(dk, TL, TO, VH, AK)
        /\ m \in Nodes /\ m # c
    BY <1>8 DEF Roles
  <2>2. RoleOf(m, rl[m], nx[m], mt[m], pl[m], TermOf(dk), LogOf(dk), TL2, TO2, VH, AK2)
    BY ONLY <1>3, <1>4, <1>5, <2>1, OthersKeep, Zenon
  <2> QED
    BY <1>8, <2>2 DEF Crowns
<1>9. Roles(dk, rl2, nx2, mt2, pl2, TL2, TO2, VH, AK2)
  BY <1>7, <1>8 DEF Roles
<1> QED
  BY ONLY <1>5, <1>6, <1>9, Zenon

Stamp(d, t, v) == [d EXCEPT !.term = t, !.vote = v]

Vote(d, v) == [d EXCEPT !.vote = v]

Log(d, L) == [d EXCEPT !.log = L]

Commit(d, k) == [d EXCEPT !.commit = k]

Write(d, L, k) == [d EXCEPT !.log = L, !.commit = k]

(* The record with a new term and vote. *)
LEMMA StampFields ==
    ASSUME NEW d \in Disk, NEW t \in Nat, NEW v \in Voters \cup {None}
    PROVE  /\ Stamp(d, t, v) \in Disk
           /\ Stamp(d, t, v).term = t
           /\ Stamp(d, t, v).vote = v
           /\ Stamp(d, t, v).log = d.log
           /\ Stamp(d, t, v).commit = d.commit
  BY DEF Disk, Stamp

(* The record with a new vote. *)
LEMMA VoteFields ==
    ASSUME NEW d \in Disk, NEW v \in Voters \cup {None}
    PROVE  /\ Vote(d, v) \in Disk
           /\ Vote(d, v).term = d.term
           /\ Vote(d, v).vote = v
           /\ Vote(d, v).log = d.log
           /\ Vote(d, v).commit = d.commit
  BY DEF Disk, Vote

(* The record with a new log. *)
LEMMA LogFields ==
    ASSUME NEW d \in Disk, NEW L \in Seq(Entry)
    PROVE  /\ Log(d, L) \in Disk
           /\ Log(d, L).term = d.term
           /\ Log(d, L).vote = d.vote
           /\ Log(d, L).log = L
           /\ Log(d, L).commit = d.commit
  BY DEF Disk, Log

(* The record with a new commit index. *)
LEMMA CommitFields ==
    ASSUME NEW d \in Disk, NEW k \in Nat
    PROVE  /\ Commit(d, k) \in Disk
           /\ Commit(d, k).term = d.term
           /\ Commit(d, k).vote = d.vote
           /\ Commit(d, k).log = d.log
           /\ Commit(d, k).commit = k
  BY DEF Disk, Commit

(* The record with a new log and commit index. *)
LEMMA WriteFields ==
    ASSUME NEW d \in Disk, NEW L \in Seq(Entry), NEW k \in Nat
    PROVE  /\ Write(d, L, k) \in Disk
           /\ Write(d, L, k).term = d.term
           /\ Write(d, L, k).vote = d.vote
           /\ Write(d, L, k).log = L
           /\ Write(d, L, k).commit = k
  BY DEF Disk, Write

(* A ballot is its five fields. *)
LEMMA SameBallot ==
    ASSUME NEW p \in Ballot, NEW q \in Ballot, p.term = q.term, p.index = q.index, p.last = q.last,
           p.open = q.open, p.votes = q.votes
    PROVE  p = q
  BY SMT DEF Ballot

(* What l knows of its peer x changes, and stays within bounds. *)
Revises(l, x, nx, mt, nx2, mt2, tm, lg, AK) ==
    /\ x \in Nodes
    /\ \A q \in Nodes \ {x} : nx2[q] = nx[q] /\ mt2[q] = mt[q]
    /\ nx2[x] \in 1..(Len(lg[l]) + 1)
    /\ x \in Voters => mt2[x] <= AK[tm[l]][x]

(* A leader in office changes what it knows of one peer. *)
LEMMA Progressed ==
    ASSUME NEW l, NEW nx, NEW mt, NEW p, NEW tm, NEW lg, NEW TL, NEW TO, NEW VH, NEW AK,
           RoleOf(l, "Leader", nx, mt, p, tm, lg, TL, TO, VH, AK),
           NEW nx2, NEW mt2, NEW x, Revises(l, x, nx, mt, nx2, mt2, tm, lg, AK)
    PROVE  RoleOf(l, "Leader", nx2, mt2, p, tm, lg, TL, TO, VH, AK)
<1>1. Leading(l, nx, mt, tm, lg, TL, TO, AK)
  BY DEF RoleOf
<1>2. \A q \in Nodes : nx2[q] \in 1..(Len(lg[l]) + 1)
  BY <1>1 DEF Leading, Revises
<1>3. \A q \in Voters : mt2[q] <= AK[tm[l]][q]
  BY <1>1 DEF Leading, Nodes, Revises
<1>4. Leading(l, nx2, mt2, tm, lg, TL, TO, AK)
  BY <1>1, <1>2, <1>3 DEF Leading
<1> QED
  BY <1>4 DEF RoleOf

(* The last term of a log's beginning. *)
LEMMA TermBefore ==
    ASSUME NEW L \in Seq(Entry), NEW k \in Nat, k <= Len(L)
    PROVE  LastTerm(SubSeq(L, 1, k)) = (IF k = 0 THEN 0 ELSE Term(L[k]))
<1> DEFINE s == SubSeq(L, 1, k)
<1>1. s \in Seq(Entry) /\ Len(s) = k /\ \A j \in 1..k : s[j] = L[j]
  <2>1. /\ s \in Seq(Entry) /\ Len(s) = k - 1 + 1
        /\ \A j \in 1..(k - 1 + 1) : s[j] = L[1 + j - 1]
    BY SubSeqFacts, SMT
  <2> QED
    BY <2>1, SMT
<1> HIDE DEF s
<1>2. LastTerm(s) = (IF k = 0 THEN 0 ELSE Term(L[k]))
  BY <1>1, LastTermOf, SMT
<1> QED
  BY <1>2 DEF s

(* What an answer tells a leader stays within its log. *)
LEMMA ProgressBounds ==
    ASSUME NEW len \in Nat, NEW x \in 1..(len + 1), NEW y \in Nat, NEW e \in Nat
    PROVE  /\ e <= len => Max({x, e + 1}) \in 1..(len + 1)
           /\ Max({y, e}) \in {y, e}
           /\ Max({x \div 2, 1}) \in 1..(len + 1)
<1>1. Max({x, e + 1}) = (IF x >= e + 1 THEN x ELSE e + 1)
  BY MaxPair, SMT
<1>2. Max({y, e}) = (IF y >= e THEN y ELSE e)
  BY MaxPair
<1> DEFINE h == x \div 2
<1>3. h \in Nat /\ h <= x
  BY SMT
<1> HIDE DEF h
<1>4. Max({h, 1}) = (IF h >= 1 THEN h ELSE 1)
  BY <1>3, MaxPair
<1>5. Max({h, 1}) \in 1..(len + 1)
  BY <1>3, <1>4, SMT
<1> QED
  BY <1>1, <1>2, <1>5, SMT DEF h
=============================================================================

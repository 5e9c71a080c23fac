----------------------------- MODULE RaftProofs -----------------------------
(***************************************************************************)
(* What follows from the invariant of the cluster: nodes apply the same    *)
(* entries in the same order, a leader has every committed entry, and the  *)
(* cluster implements the replicated log.                                  *)
(***************************************************************************)
EXTENDS RaftInvariant, FiniteSetTheorems, WellFoundedInduction

USE Zenon

(* Two majorities have a voter in common. *)
LEMMA MajoritiesMeet ==
    ASSUME NEW S \in SUBSET Voters, NEW R \in SUBSET Voters, Majority(S), Majority(R)
    PROVE  \E v \in S : v \in R
<1>1. Cardinality(S) \in Nat /\ Cardinality(R) \in Nat /\ Cardinality(Voters) \in Nat
  BY FS_Subset, FS_CardinalityType, MembersAssumption
<1>2. Cardinality(S) + Cardinality(R) > Cardinality(Voters)
  BY <1>1, SMT DEF Majority
<1>3. IsFiniteSet(Voters)
  BY MembersAssumption
<1>4. S \subseteq Voters /\ R \subseteq Voters
  OBVIOUS
<1>5. S \cap R # {}
  BY ONLY <1>2, <1>3, <1>4, FS_MajoritiesIntersect, Zenon
<1> QED
  BY <1>5

(* A set of numbers up to n has a greatest. *)
LEMMA MaxIn ==
    ASSUME NEW n \in Nat, NEW S \in SUBSET (1..n), S # {}
    PROVE  Max(S) \in S
<1> DEFINE R == {n - x : x \in S}
<1>1. R \in SUBSET Nat /\ R # {}
  <2>1. \A x \in S : n - x \in Nat
    BY SMT
  <2>2. PICK x \in S : TRUE
    OBVIOUS
  <2>3. n - x \in R
    OBVIOUS
  <2> QED
    BY <2>1, <2>3
<1>2. PICK r \in R : \A y \in R : ~(<<y, r>> \in OpToRel(<, Nat))
  <2> HIDE DEF R
  <2> QED
    BY <1>1, NatLessThanWellFounded, WFMin
<1>3. \A y \in R : ~(y < r)
  <2> HIDE DEF R
  <2>1. OpToRel(<, Nat) = {p \in Nat \X Nat : p[1] < p[2]}
    BY DEF OpToRel
  <2> QED
    BY <1>1, <1>2, <2>1
<1>4. PICK x \in S : r = n - x
  OBVIOUS
<1>5. \A y \in S : x >= y
  <2> TAKE y \in S
  <2>1. ~(n - y < n - x)
    BY <1>3, <1>4
  <2> QED
    BY <2>1, SMT
<1> QED
  BY <1>5 DEF Max

(* What a swap compares with is a value, or nothing. *)
LEMMA LatestType ==
    ASSUME NEW es \in Seq(Entry)
    PROVE  Latest(es) \in Values \cup {None}
<1> DEFINE W == {i \in DOMAIN es : es[i].op # "barrier"}
<1>1. W \in SUBSET (1..Len(es)) /\ Len(es) \in Nat
  BY SMT
<1>2. CASE W = {}
  BY <1>2 DEF Latest
<1>3. CASE W # {}
  <2>1. Max(W) \in 1..Len(es)
    <3> HIDE DEF W
    <3> QED
      BY <1>1, <1>3, MaxIn
  <2>2. es[Max(W)] \in Entry
    BY <2>1, SMT
  <2>3. Latest(es) = es[Max(W)].val
    BY <1>3 DEF Latest
  <2> QED
    BY <2>2, <2>3 DEF Entry
<1> QED
  BY <1>2, <1>3

(* What the history takes for granted of finite sets is true. *)
LEMMA FiniteFactsHold == FiniteFacts
<1>1. \A S, R \in SUBSET Voters : Majority(S) /\ Majority(R) => \E v \in S : v \in R
  BY MajoritiesMeet
<1>2. \A es \in Seq(Entry) : Latest(es) \in Values \cup {None}
  BY LatestType
<1> QED
  BY <1>1, <1>2 DEF FiniteFacts

(* A history explains every state that the cluster reaches. *)
THEOREM Invariance == Spec => []Inv
<1>1. Init => Inv
  BY FiniteFactsHold, InvInit
<1>2. Inv /\ [Next]_vars => Inv'
  BY InvNext, InvStutter
<1> QED
  BY <1>1, <1>2, PTL DEF Spec

(* Whatever two nodes have applied is the same. *)
THEOREM AppliedAgreeTheorem == Spec => []AppliedAgree
<1>1. Inv => AppliedAgree
  <2> SUFFICES ASSUME Inv, NEW m \in Nodes, NEW n \in Nodes,
                      NEW i \in 1..Min({disk[m].commit, disk[n].commit})
               PROVE  disk[m].log[i] = disk[n].log[i]
    BY DEF AppliedAgree
  <2>1. PICK TL, TO, VH, AK : Sound(disk, TL, TO, VH, AK)
    BY DEF Inv, Explained, Now, Explains
  <2>2. disk[m].commit \in Nat /\ disk[n].commit \in Nat
    BY DiskTypes DEF Inv
  <2>3. Min({disk[m].commit, disk[n].commit}) =
            (IF disk[m].commit <= disk[n].commit THEN disk[m].commit ELSE disk[n].commit)
    BY <2>2, MinPair
  <2>4. i \in 1..disk[m].commit /\ i \in 1..disk[n].commit
    BY <2>2, <2>3, SMT
  <2> QED
    BY <2>1, <2>4, AppliedSame, SMT
<1> QED
  BY <1>1, Invariance, PTL

(* A leader of the latest term has every entry that was applied. *)
THEOREM LeaderCompleteTheorem == Spec => []LeaderComplete
<1>1. Inv => LeaderComplete
  <2> SUFFICES ASSUME Inv, NEW l \in Voters, Leads(l), \A n \in Nodes : disk[n].term <= disk[l].term
               PROVE  IsPrefix(Committed, disk[l].log)
    BY DEF LeaderComplete
  <2>1. PICK TL, TO, VH, AK : Now(TL, TO, VH, AK)
    BY DEF Inv, Explained
  <2>2. Sound(disk, TL, TO, VH, AK) /\ TypeOK /\ Top(disk)
    BY <2>1 DEF Inv, Now, Explains
  <2>3. Committed = CommittedOf(disk)
    BY DEF Committed, CommittedOf
  <2>4. PICK n \in Nodes :
            /\ Len(Committed) = disk[n].commit
            /\ disk[n].commit \in Nat
            /\ \A i \in 1..disk[n].commit : Committed[i] = disk[n].log[i]
    BY <2>2, <2>3, CommittedFacts
  <2>5. l \in Nodes /\ role[l] = "Leader"
    BY DEF Leads, Nodes
  <2>6. TO[disk[l].term] = l /\ TL[disk[l].term] = disk[l].log /\ l # None
    BY <2>1, <2>2, <2>5, LeaderFacts, RaftAssumption, MembersAssumption, SMT
  <2>7. disk[n].term \in Nat /\ disk[l].term \in Nat /\ Len(disk[l].log) \in Nat
    BY <2>2, <2>5, DiskTypes
  <2>8. Settled(disk[n].log, disk[n].commit, disk[n].term, TL, AK)
    BY <2>2, RecordsOf DEF Sound, Core, Commits
  <2>9. Extends(disk[l].log, disk[n].log, disk[n].commit)
    <3>1. CASE disk[n].commit = 0
      BY <2>7, <3>1, SMT DEF Extends
    <3>2. CASE disk[n].commit # 0
      <4>1. PICK t \in 1..disk[n].term, i \in Nat :
                disk[n].commit <= i /\ Chosen(t, i, TL, AK) /\ Extends(disk[n].log, TL[t], disk[n].commit)
        BY <2>4, <2>8, <3>2, SMT DEF Settled
      <4>2. t \in Nat /\ t <= disk[l].term
        BY <2>7, SMT
      <4>3. i <= Len(TL[t]) /\ Len(TL[t]) \in Nat
        BY <2>2, <4>1, <4>2, SoundTypes, SMT DEF Chosen
      <4>4. Extends(disk[l].log, TL[t], i)
        <5>1. CASE t = disk[l].term
          BY <2>6, <4>3, <5>1 DEF Extends
        <5>2. CASE t < disk[l].term
          <6>1. Pending(TermOf(disk), t, i, TL, AK)
            BY <4>1, <4>2, ChosenPending
          <6>2. LeadersHold(TermOf(disk), TL, TO, AK)
            BY <2>2 DEF Sound, Core
          <6>3. Extends(TL[disk[l].term], TL[t], i)
            BY <2>6, <2>7, <4>2, <5>2, <6>1, <6>2 DEF LeadersHold
          <6> QED
            BY <2>6, <6>3
        <5> QED
          BY <2>7, <4>2, <5>1, <5>2, SMT
      <4> QED
        BY <2>4, <2>7, <4>1, <4>4, SMT DEF Extends
    <3> QED
      BY <3>1, <3>2
  <2> QED
    BY <2>4, <2>9 DEF Extends, IsPrefix
<1> QED
  BY <1>1, Invariance, PTL

(* A step of the cluster is a step of the log that it replicates. *)
LEMMA ContractStep ==
    ASSUME Inv, Next, Inv'
    PROVE  Contract!Next
<1>1. PICK TL, TO, VH, AK : Now(TL, TO, VH, AK)
  BY DEF Inv, Explained
<1>2. TypeOK /\ Top(disk) /\ Held(disk, acked)
  BY DEF Inv
<1>3. StepOf(TL, TO, VH, AK) /\ Keeps /\ Tells
  BY <1>1, <1>2, NextStep
<1>4. PICK TL2, TO2, VH2, AK2 : Later(TL, TO, VH, AK, TL2, TO2, VH2, AK2)
  BY <1>3 DEF StepOf
<1>5. /\ Sound(disk, TL, TO, VH, AK) /\ Sound(disk', TL2, TO2, VH2, AK2) /\ Chains(TL2)
  BY <1>1, <1>4 DEF Now, Later, Explains
<1>6. Top(disk') /\ Held(disk', acked')
  BY DEF Inv, Top, Held
<1> DEFINE C == CommittedOf(disk)
<1> DEFINE C2 == CommittedOf(disk')
<1>7. Committed = C /\ Committed' = C2
  BY DEF Committed, CommittedOf
<1>8. PICK n \in Nodes :
          /\ \A m \in Nodes : disk[m].commit <= disk[n].commit
          /\ Len(C) = disk[n].commit /\ disk[n].commit \in Nat
          /\ \A i \in 1..disk[n].commit : C[i] = disk[n].log[i]
  BY <1>2, <1>5, CommittedFacts
<1>9. PICK p \in Nodes :
          /\ \A m \in Nodes : disk'[m].commit <= disk'[p].commit
          /\ C2 \in Seq(Entry) /\ Len(C2) = disk'[p].commit /\ disk'[p].commit \in Nat
          /\ disk'[p].commit <= Len(disk'[p].log)
          /\ \A i \in 1..disk'[p].commit : C2[i] = disk'[p].log[i]
  BY <1>5, <1>6, CommittedFacts
<1> HIDE DEF C, C2
<1>10. \A m \in Nodes : /\ disk[m].commit <= disk'[m].commit
                        /\ \A i \in 1..disk[m].commit : disk'[m].log[i] = disk[m].log[i]
  BY <1>1, <1>2, <1>3, CommitsStep
<1>11. \A m \in Nodes : disk'[m].commit \in Nat
  BY <1>5, SoundTypes
<1>12. \A m \in Nodes : \A i : i \in 1..disk'[m].commit => C2[i] = disk'[m].log[i] /\ i \in 1..Len(C2)
  <2> TAKE m \in Nodes
  <2> SUFFICES ASSUME NEW i, i \in 1..disk'[m].commit PROVE C2[i] = disk'[m].log[i] /\ i \in 1..Len(C2)
    OBVIOUS
  <2>1. disk'[m].commit <= disk'[p].commit /\ disk'[m].commit \in Nat
    BY <1>9, <1>11
  <2>2. i \in 1..disk'[p].commit
    BY <1>9, <2>1, SMT
  <2>3. disk'[m].log[i] = disk'[p].log[i]
    <3>1. i \in 1..disk'[m].commit
      OBVIOUS
    <3> QED
      BY ONLY <1>5, <2>2, <3>1, m \in Nodes, p \in Nodes, AppliedSame
  <2> QED
    BY <1>9, <2>2, <2>3
<1>13. Contract!IsPrefix(C, C2)
  <2>1. Len(C) <= Len(C2)
    BY <1>8, <1>9, <1>10, <1>11, SMT
  <2>2. ASSUME NEW i \in 1..Len(C) PROVE C[i] = C2[i]
    <3>1. i \in 1..disk[n].commit
      BY <1>8
    <3>2. disk'[n].log[i] = disk[n].log[i] /\ C[i] = disk[n].log[i]
      BY <1>8, <1>10, <3>1
    <3>3. i \in 1..disk'[n].commit
      BY <1>8, <1>10, <1>11, <3>1, SMT
    <3> QED
      BY <1>12, <3>2, <3>3
  <2> QED
    BY <2>1, <2>2 DEF Contract!IsPrefix
<1>14. Chained(C2)
  <2> DEFINE L == disk'[p].log
  <2>1. L \in Seq(Entry) /\ disk'[p].term \in Nat /\ TL2 \in [Nat -> Seq(Entry)]
    BY <1>5, SoundTypes DEF Sound, History
  <2>2. Backed(L, disk'[p].term, TL2, TO2)
    BY <1>5, RecordsOf DEF Sound, Core, NodeLogs
  <2>3. Chained(L)
    BY <1>5, <2>1, <2>2, ChainedBacked
  <2>4. Extends(L, C2, Len(C2))
    BY <1>9 DEF Extends
  <2> HIDE DEF L
  <2> QED
    BY <1>9, <2>1, <2>3, <2>4, ChainedPrefix
<1>17. Contract!Chained(C2)
  BY <1>14 DEF Chained, Contract!Chained, Latest, Contract!Latest, Max, Contract!Max, None
<1>15. acked \subseteq acked'
  BY <1>3 DEF Tells
<1>16. acked' \subseteq {C2[i].val : i \in DOMAIN C2}
  <2>1. ASSUME NEW v \in acked' PROVE \E i \in DOMAIN C2 : C2[i].val = v
    <3>1. PICK m \in Nodes : \E i \in 1..disk'[m].commit : disk'[m].log[i].val = v
      BY <1>6 DEF Held
    <3>2. PICK i \in 1..disk'[m].commit : disk'[m].log[i].val = v
      BY <3>1
    <3>3. C2[i] = disk'[m].log[i] /\ i \in 1..Len(C2)
      BY <1>12
    <3>4. DOMAIN C2 = 1..Len(C2)
      BY <1>9, SMT
    <3> QED
      BY <3>2, <3>3, <3>4
  <2> QED
    BY <2>1
<1> QED
  BY <1>7, <1>13, <1>17, <1>15, <1>16 DEF Contract!Next

(* The cluster implements the replicated log. *)
THEOREM ImplementsLogTheorem == Spec => ImplementsLog
<1>1. Init => Contract!Init
  <2> SUFFICES ASSUME Init PROVE Committed = <<>> /\ acked = {}
    BY DEF Contract!Init
  <2>1. Inv
    BY FiniteFactsHold, InvInit
  <2>2. PICK TL, TO, VH, AK : Sound(disk, TL, TO, VH, AK)
    BY <2>1 DEF Inv, Explained, Now, Explains
  <2>3. Top(disk) /\ Committed = CommittedOf(disk)
    BY <2>1 DEF Inv, Committed, CommittedOf
  <2>4. PICK n \in Nodes : Committed \in Seq(Entry) /\ Len(Committed) = disk[n].commit
    BY <2>2, <2>3, CommittedFacts
  <2>5. disk[n].commit = 0 /\ acked = {}
    BY DEF Init
  <2> QED
    BY <2>4, <2>5, SMT
<1>2. Inv /\ Inv' /\ [Next]_vars => [Contract!Next]_<<Committed, acked>>
  <2>1. ASSUME Inv, Inv', Next PROVE Contract!Next
    BY <2>1, ContractStep
  <2>2. ASSUME UNCHANGED vars PROVE Committed' = Committed /\ acked' = acked
    <3>1. disk' = disk /\ acked' = acked
      BY <2>2 DEF vars
    <3> QED
      BY <3>1 DEF Committed
  <2> QED
    BY <2>1, <2>2
<1> QED
  BY <1>1, <1>2, Invariance, PTL DEF Spec, ImplementsLog, Contract!Spec
=============================================================================

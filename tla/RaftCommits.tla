---------------------------- MODULE RaftCommits -----------------------------
(***************************************************************************)
(* Commits, proposals, failing stores, crashes and restarts extend the     *)
(* history too.  Then, for elections and appends: the types are kept, and  *)
(* no commit index falls.                                                  *)
(***************************************************************************)
EXTENDS RaftMessages

USE Zenon

(* A leader commits what a majority has acknowledged. *)
LEMMA CommittableSettled ==
    ASSUME TypeOK, NEW TL, NEW TO, NEW VH, NEW AK, Now(TL, TO, VH, AK),
           NEW l \in Nodes, role[l] = "Leader", NEW k \in Committable(l)
    PROVE  /\ k \in Nat /\ disk[l].commit < k
           /\ \A i \in disk[l].commit..k :
                  i = disk[l].commit \/ Settled(disk[l].log, i, disk[l].term, TL, AK)
<1> DEFINE T == disk[l].term
<1>1. /\ l \in Voters /\ TL[T] = disk[l].log /\ AK[T][l] = Len(disk[l].log) /\ 0 < T
      /\ \A p \in Voters : match[l][p] <= AK[T][p]
  BY LeaderFacts, SMT
<1>2. T \in Nat /\ Len(disk[l].log) \in Nat /\ disk[l].commit \in Nat
  BY DiskTypes
<1>3. /\ k \in disk[l].commit + 1..Len(disk[l].log)
      /\ Majority(Replicated(l, k)) /\ disk[l].log[k].term = T
  BY DEF Committable
<1>4. k \in Nat /\ disk[l].commit < k /\ k \in 1..Len(disk[l].log)
  BY <1>2, <1>3, SMT
<1> HIDE DEF T
<1>5. Chosen(T, k, TL, AK)
  <2>1. Replicated(l, k) \in SUBSET Voters /\ \A v \in Replicated(l, k) : k <= AK[T][v]
    <3>1. \A v \in Voters : match[l][v] \in Nat /\ AK[T][v] \in Nat
      <4>1. Sound(disk, TL, TO, VH, AK)
        BY DEF Now, Explains
      <4>2. \A v \in Nodes : AK[T][v] \in Nat
        BY <1>2, <4>1, SoundNats
      <4> QED
        BY <4>2, SMT DEF TypeOK, Nodes
    <3>2. ASSUME NEW v \in Voters, match[l][v] >= k PROVE k <= AK[T][v]
      BY <1>1, <1>4, <3>1, <3>2, SMT
    <3>3. k <= AK[T][l]
      BY <1>1, <1>4, SMT
    <3> QED
      BY <1>1, <3>2, <3>3 DEF Replicated
  <2>2. k \in 1..Len(TL[T]) /\ Term(TL[T][k]) = T
    BY <1>1, <1>3, <1>4 DEF Term
  <2> QED
    BY <1>3, <2>1, <2>2 DEF Chosen
<1>6. ASSUME NEW i \in disk[l].commit..k
      PROVE  Settled(disk[l].log, i, T, TL, AK)
  <2>1. i \in Nat /\ i <= k /\ i <= Len(disk[l].log)
    BY <1>2, <1>4, SMT
  <2>2. T \in 1..T
    BY <1>1, <1>2, SMT
  <2>3. Extends(disk[l].log, TL[T], i)
    BY <1>1, <2>1 DEF Extends
  <2> QED
    BY <1>4, <1>5, <2>1, <2>2, <2>3 DEF Settled
<1> QED
  BY <1>4, <1>6 DEF T

(* update_commit_index extends the history: the leader commits only entries  *)
(* of its own term that a majority holds.                                    *)
LEMMA UpdateCommitIndexStep ==
    ASSUME TypeOK, NEW TL, NEW TO, NEW VH, NEW AK, Now(TL, TO, VH, AK),
           NEW l \in Nodes, UpdateCommitIndex(l)
    PROVE  StepOf(TL, TO, VH, AK)
<1>1. PICK N \in Committable(l) : disk' = [disk EXCEPT ![l] = [disk[l] EXCEPT !.commit = N]]
  BY DEF UpdateCommitIndex, Stored
<1>2. /\ role[l] = "Leader"
      /\ role' = role /\ next' = next /\ match' = match /\ poll' = poll /\ rpc' = rpc
  BY DEF UpdateCommitIndex, Leads, volatile
<1>3. /\ Sound(disk, TL, TO, VH, AK) /\ Chains(TL)
      /\ Roles(disk, role, next, match, poll, TL, TO, VH, AK)
  BY DEF Now, Explains
<1>4. N \in Nat /\ disk[l].commit < N /\ Settled(disk[l].log, N, disk[l].term, TL, AK)
  <2>1. N \in Nat /\ disk[l].commit < N /\ disk[l].commit \in Nat
    BY <1>2, CommittableSettled, DiskTypes
  <2>2. N \in disk[l].commit..N /\ N # disk[l].commit
    BY <2>1, SMT
  <2> QED
    BY <1>2, <2>1, <2>2, CommittableSettled
<1> DEFINE d == Commit(disk[l], N)
<1>5. /\ d \in Disk /\ d.term = disk[l].term /\ d.vote = disk[l].vote /\ d.log = disk[l].log
      /\ d.commit = N
  BY <1>4, DiskTypes, CommitFields
<1>6. disk' = [disk EXCEPT ![l] = d]
  BY <1>1 DEF Commit
<1> HIDE DEF d
<1>7. Rewrites(l, d, disk, disk')
  BY <1>5, <1>6, DiskTypes, SMT DEF Rewrites
<1>8. PICK VH2 : /\ Sound(disk', TL, TO, VH2, AK)
                 /\ Succeeds(disk, TL, TO, VH, AK, disk', TL, TO, VH2, AK)
  BY <1>3, <1>4, <1>5, <1>7, MetaStep
<1>9. disk'[l] = d /\ \A q \in Nodes \ {l} : disk'[q] = disk[q]
  BY <1>6 DEF TypeOK
<1>10. match \in [Nodes -> [Nodes -> Nat]] /\ poll \in [Nodes -> Ballot]
  BY DEF TypeOK
<1>11. \A q \in Nodes \ {l} :
          RoleOf(q, role[q], next[q], match[q], poll[q], TermOf(disk'), LogOf(disk'), TL, TO, VH2, AK)
  <2>1. Local(l, disk, TL, TO, AK, disk', TL, AK)
    BY <1>9 DEF Local
  <2> QED
    BY ONLY <1>3, <1>8, <1>10, <2>1, OthersUndisturbed, Zenon
<1>12. RoleOf(l, role[l], next[l], match[l], poll[l], TermOf(disk'), LogOf(disk'), TL, TO, VH2, AK)
  <2>1. /\ RoleOf(l, role[l], next[l], match[l], poll[l], TermOf(disk), LogOf(disk), TL, TO, VH, AK)
        /\ l \in Nodes /\ match[l] \in [Nodes -> Nat] /\ poll[l] \in Ballot
        /\ disk'[l].term = disk[l].term /\ disk'[l].log = disk[l].log
        /\ (role[l] = "Candidate" => TO[disk[l].term] # l)
    BY <1>2, <1>3, <1>5, <1>9, <1>10 DEF Roles
  <2> QED
    BY ONLY <1>3, <1>8, <2>1, Undisturbed, Zenon
<1>13. Roles(disk', role', next', match', poll', TL, TO, VH2, AK)
  BY <1>2, <1>11, <1>12 DEF Roles
<1>14. rpc' \in SUBSET rpc
  BY <1>2
<1> QED
  BY <1>3, <1>8, <1>13, <1>14, LaterFrom

(* The entry that a leader appends. *)
Proposed(l, v) ==
    [term |-> disk[l].term, val |-> v,
     op   |-> IF v \in Puts THEN "put" ELSE IF v \in Swaps THEN "cas" ELSE "barrier",
     exp  |-> IF v \in Swaps THEN Latest(disk[l].log) ELSE None]

(* The history of a leader's append: its term's log has one more entry,      *)
(* which the leader holds.                                                   *)
LEMMA ProposalHistory ==
    ASSUME TypeOK, NEW TL, NEW TO, NEW VH, NEW AK, Now(TL, TO, VH, AK),
           NEW l \in Nodes, role[l] = "Leader", NEW v \in Values,
           disk' = [disk EXCEPT ![l] = Proposal(l, v)]
    PROVE  \E TL2, AK2 :
               /\ Sound(disk', TL2, TO, VH, AK2) /\ Chains(TL2)
               /\ Succeeds(disk, TL, TO, VH, AK, disk', TL2, TO, VH, AK2)
               /\ Local(l, disk, TL, TO, AK, disk', TL2, AK2)
               /\ TL2[disk[l].term] = Append(disk[l].log, Proposed(l, v))
               /\ AK2[disk[l].term][l] = Len(disk[l].log) + 1
               /\ disk'[l].log = Append(disk[l].log, Proposed(l, v)) /\ disk'[l].term = disk[l].term
<1> DEFINE e == Proposed(l, v)
<1>1. /\ disk[l] \in Disk /\ disk[l].log \in Seq(Entry) /\ disk[l].term \in Nat /\ Len(disk[l].log) \in Nat
  BY DiskTypes
<1>2. e \in Entry /\ e.term = disk[l].term /\ (e.op = "cas" => e.exp = Latest(disk[l].log))
  <2>1. Latest(disk[l].log) \in Values \cup {None}
    BY <1>1 DEF Now, Explains, Sound, Core, FiniteFacts
  <2>2. e \in Entry
    BY <1>1, <2>1 DEF Entry, Proposed
  <2>3. e.term = disk[l].term
    BY DEF Proposed
  <2>4. e.op = "cas" => e.exp = Latest(disk[l].log)
    BY DEF Proposed
  <2> QED
    BY <2>2, <2>3, <2>4
<1>3. disk' = [disk EXCEPT ![l] = [disk[l] EXCEPT !.log = Append(disk[l].log, e)]]
  BY DEF Proposal, Proposed
<1> HIDE DEF e
<1>4. /\ Sound(disk, TL, TO, VH, AK) /\ Chains(TL)
      /\ Leading(l, next[l], match[l], TermOf(disk), LogOf(disk), TL, TO, AK)
      /\ TO[disk[l].term] = l /\ TL[disk[l].term] = disk[l].log
  BY LeaderFacts, SMT DEF Now, Explains
<1>5. PICK TL2, AK2 :
          /\ Sound(disk', TL2, TO, VH, AK2)
          /\ Succeeds(disk, TL, TO, VH, AK, disk', TL2, TO, VH, AK2)
          /\ Proposes(disk[l].term, l, e, LogOf(disk), TL, AK, LogOf(disk'), TL2, AK2)
  BY <1>2, <1>3, <1>4, ProposalStep
<1>6. Chains(TL2)
  BY <1>2, <1>4, <1>5, ChainsProposed
<1>7. LogOf(disk)[l] = disk[l].log /\ LogOf(disk')[l] = disk'[l].log
  <2>1. disk \in [Nodes -> Disk] /\ disk' \in [Nodes -> Disk]
    BY <1>4, <1>5 DEF Sound
  <2> QED
    BY <2>1, RecordsOf
<1>8. /\ disk'[l] = [disk[l] EXCEPT !.log = Append(disk[l].log, e)]
      /\ \A m \in Nodes \ {l} : disk'[m] = disk[m]
  BY <1>3 DEF TypeOK
<1>9. disk'[l].log = Append(disk[l].log, e) /\ disk'[l].term = disk[l].term
  BY <1>1, <1>8, SMT DEF Disk
<1>10. /\ TL2[disk[l].term] = Append(disk[l].log, e)
       /\ AK2[disk[l].term][l] = Len(disk[l].log) + 1
  <2>1. TL2[disk[l].term] = Append(disk[l].log, e) /\ AK2[disk[l].term][l] = Len(Append(disk[l].log, e))
    BY <1>5, <1>7, <1>9 DEF Proposes
  <2>2. Len(Append(disk[l].log, e)) = Len(disk[l].log) + 1
    BY <1>1, SMT
  <2> QED
    BY <2>1, <2>2
<1>11. Local(l, disk, TL, TO, AK, disk', TL2, AK2)
  <2>1. \A t \in Nat : TO[t] # l => TL2[t] = TL[t]
    BY <1>4, <1>5 DEF Proposes
  <2>2. \A t \in Nat, w \in Nodes \ {l} : AK2[t][w] = AK[t][w]
    BY <1>5 DEF Proposes
  <2> QED
    BY <1>8, <2>1, <2>2 DEF Local
<1>12. /\ TL2[disk[l].term] = Append(disk[l].log, Proposed(l, v))
       /\ disk'[l].log = Append(disk[l].log, Proposed(l, v))
  BY <1>9, <1>10 DEF e
<1> QED
  BY ONLY <1>5, <1>6, <1>9, <1>10, <1>11, <1>12, Zenon

(* A proposal (put_with, cas_internal) extends the history. *)
LEMMA ProposeExplained ==
    ASSUME TypeOK, NEW TL, NEW TO, NEW VH, NEW AK, Now(TL, TO, VH, AK),
           NEW l \in Nodes, NEW v \in Values, Propose(l, v)
    PROVE  StepOf(TL, TO, VH, AK)
<1>1. /\ role[l] = "Leader" /\ disk' = [disk EXCEPT ![l] = Proposal(l, v)]
      /\ role' = role /\ next' = next /\ match' = match /\ poll' = poll /\ rpc' = rpc
  BY DEF Propose, Leads, volatile
<1>2. PICK TL2, AK2 :
          /\ Sound(disk', TL2, TO, VH, AK2) /\ Chains(TL2)
          /\ Succeeds(disk, TL, TO, VH, AK, disk', TL2, TO, VH, AK2)
          /\ Local(l, disk, TL, TO, AK, disk', TL2, AK2)
          /\ TL2[disk[l].term] = Append(disk[l].log, Proposed(l, v))
          /\ AK2[disk[l].term][l] = Len(disk[l].log) + 1
          /\ disk'[l].log = Append(disk[l].log, Proposed(l, v)) /\ disk'[l].term = disk[l].term
  BY <1>1, ProposalHistory
<1>3. /\ Sound(disk, TL, TO, VH, AK)
      /\ Roles(disk, role, next, match, poll, TL, TO, VH, AK)
  BY DEF Now, Explains
<1>4. match \in [Nodes -> [Nodes -> Nat]] /\ poll \in [Nodes -> Ballot]
  BY DEF TypeOK
<1>5. \A q \in Nodes \ {l} :
          RoleOf(q, role[q], next[q], match[q], poll[q], TermOf(disk'), LogOf(disk'), TL2, TO, VH, AK2)
  BY ONLY <1>2, <1>3, <1>4, OthersUndisturbed, Zenon
<1>6. RoleOf(l, role[l], next[l], match[l], poll[l], TermOf(disk'), LogOf(disk'), TL2, TO, VH, AK2)
  <2> DEFINE T == disk[l].term
  <2>1. /\ l \in Voters /\ TO[T] = l /\ TL[T] = disk[l].log
        /\ \A p \in Nodes : next[l][p] \in 1..(Len(disk[l].log) + 1)
        /\ \A p \in Voters : match[l][p] <= AK[T][p]
    BY <1>1, LeaderFacts, SMT
  <2>2. /\ Len(disk[l].log) \in Nat /\ Len(disk'[l].log) = Len(disk[l].log) + 1 /\ T \in Nat
    <3>1. disk[l].log \in Seq(Entry) /\ T \in Nat
      BY DiskTypes
    <3> QED
      BY <1>2, <3>1, SMT
  <2>3. /\ TermOf(disk')[l] = T /\ LogOf(disk')[l] = disk'[l].log
        /\ TermOf(disk)[l] = T
    <3>1. disk \in [Nodes -> Disk] /\ disk' \in [Nodes -> Disk]
      BY <1>2, <1>3 DEF Sound
    <3> QED
      BY <1>2, <3>1, RecordsOf
  <2>4. \A p \in Nodes : next[l][p] \in 1..(Len(disk'[l].log) + 1)
    BY <2>1, <2>2, SMT
  <2>5. \A p \in Voters : match[l][p] <= AK2[T][p]
    <3> TAKE p \in Voters
    <3>1. AK[T][p] \in Nat /\ AK2[T][p] \in Nat /\ p \in Nodes
      BY <1>2, <1>3, <2>2, SoundNats DEF Nodes
    <3>2. AK[T][p] <= AK2[T][p]
      BY <1>2, <2>2, <3>1 DEF Succeeds, Evolves, Grows
    <3>3. match[l][p] \in Nat /\ match[l][p] <= AK[T][p]
      BY <1>4, <2>1, <3>1
    <3> QED
      BY <3>1, <3>2, <3>3, SMT
  <2>6. Leading(l, next[l], match[l], TermOf(disk'), LogOf(disk'), TL2, TO, AK2)
    BY <1>2, <2>1, <2>2, <2>3, <2>4, <2>5 DEF Leading
  <2>7. Polled(l, poll[l], TermOf(disk'), VH)
    <3>1. Polled(l, poll[l], TermOf(disk), VH)
      BY <1>3 DEF Roles, RoleOf
    <3> QED
      BY <2>3, <3>1 DEF Polled
  <2> QED
    BY <1>1, <2>6, <2>7 DEF RoleOf
<1>7. Roles(disk', role', next', match', poll', TL2, TO, VH, AK2)
  BY <1>1, <1>5, <1>6 DEF Roles
<1>8. rpc' \in SUBSET rpc
  BY <1>1
<1> QED
  BY <1>2, <1>7, <1>8, LaterFrom
-----------------------------------------------------------------------------
(* A node that stops follows, forgets the votes that it counted, and       *)
(* leaves one of the records that its writes pass through.                 *)
LEMMA StopsFacts ==
    ASSUME TypeOK, NEW n \in Nodes, NEW S, Stops(n, S)
    PROVE  /\ \E d \in S : disk' = [disk EXCEPT ![n] = d]
           /\ Become({}, {}, {n}) /\ Recalls(n) /\ rpc' \in SUBSET rpc
<1>1. /\ \E d \in S : disk' = [disk EXCEPT ![n] = d]
      /\ Become({}, {}, {n}) /\ rpc' = rpc /\ poll' = [poll EXCEPT ![n].votes = {}]
  BY DEF Stops
<1>2. Recalls(n)
  <2>1. poll[n] \in Ballot /\ poll \in [Nodes -> Ballot]
    BY DEF TypeOK
  <2>2. poll'[n] = [poll[n] EXCEPT !.votes = {}]
    BY <1>1, <2>1
  <2>3. /\ [poll[n] EXCEPT !.votes = {}] \in Ballot
        /\ [poll[n] EXCEPT !.votes = {}].term = poll[n].term
        /\ [poll[n] EXCEPT !.votes = {}].open = poll[n].open
        /\ [poll[n] EXCEPT !.votes = {}].votes = {}
    BY <2>1 DEF Ballot
  <2>4. poll' \in [Nodes -> Ballot] /\ \A m \in Nodes \ {n} : poll'[m] = poll[m]
    BY <1>1, <2>1, <2>3
  <2> QED
    BY <2>2, <2>3, <2>4 DEF Recalls
<1> QED
  BY <1>1, <1>2

(* A node that stops after one known write. *)
LEMMA StopsAt ==
    ASSUME TypeOK, NEW n \in Nodes, NEW S, Stops(n, S), NEW d, S = {d}
    PROVE  /\ disk' = [disk EXCEPT ![n] = d]
           /\ Become({}, {}, {n}) /\ Recalls(n) /\ rpc' \in SUBSET rpc
<1>1. /\ \E x \in S : disk' = [disk EXCEPT ![n] = x]
      /\ Become({}, {}, {n}) /\ Recalls(n) /\ rpc' \in SUBSET rpc
  BY StopsFacts
<1> QED
  BY ONLY <1>1, S = {d}, Zenon

(* A node stops with a record of a later term, a new vote or a later       *)
(* commit index.                                                           *)
LEMMA StopsWith ==
    ASSUME TypeOK, NEW TL, NEW TO, NEW VH, NEW AK, Now(TL, TO, VH, AK),
           NEW n \in Nodes, NEW d \in Disk, disk' = [disk EXCEPT ![n] = d],
           disk[n].term <= d.term, disk[n].term = d.term => disk[n].vote \in {None, d.vote},
           d.log = disk[n].log,
           d.commit = disk[n].commit \/ Settled(d.log, d.commit, d.term, TL, AK),
           Become({}, {}, {n}), Recalls(n), rpc' \in SUBSET rpc
    PROVE  StepOf(TL, TO, VH, AK)
<1>1. Rewrites(n, d, disk, disk')
  BY DEF Rewrites
<1> QED
  BY <1>1, MetaDown

(* A node stops while it cuts and extends its log.  What it has written is *)
(* not acknowledged.                                                       *)
LEMMA StopsAppending ==
    ASSUME TypeOK, NEW TL, NEW TO, NEW VH, NEW AK, Now(TL, TO, VH, AK),
           NEW n \in Nodes, NEW d \in Disk, disk' = [disk EXCEPT ![n] = d],
           disk[n].term <= d.term, disk[n].term = d.term => disk[n].vote \in {None, d.vote},
           TO[d.term] # None, Follows(disk[n].log, TL[d.term], d.log),
           d.commit = disk[n].commit \/ Settled(d.log, d.commit, d.term, TL, AK),
           Become({}, {}, {n}), Recalls(n), rpc' \in SUBSET rpc
    PROVE  StepOf(TL, TO, VH, AK)
<1>1. Rewrites(n, d, disk, disk')
  BY DEF Rewrites
<1>2. Sound(disk, TL, TO, VH, AK) /\ Chains(TL)
  BY DEF Now, Explains
<1>3. Acknowledges(n, d, TL, AK, AK)
  BY <1>2 DEF Acknowledges, Sound, History
<1>4. PICK VH2 : /\ Sound(disk', TL, TO, VH2, AK)
                 /\ Succeeds(disk, TL, TO, VH, AK, disk', TL, TO, VH2, AK)
  <2>1. Appends(n, d, disk, disk', TL, TO, VH, AK, AK)
    BY <1>1, <1>2, <1>3 DEF Appends
  <2> QED
    BY <2>1, AppendStep DEF Recorded
<1>5. Local(n, disk, TL, TO, AK, disk', TL, AK)
  BY DEF Local, TypeOK
<1>6. Later(TL, TO, VH, AK, TL, TO, VH2, AK)
  BY <1>2, <1>4, <1>5, FollowerStep
<1> QED
  BY <1>6 DEF StepOf

(* The writes of an append that failed. *)
LEMMA TornAppendStep ==
    ASSUME TypeOK, NEW TL, NEW TO, NEW VH, NEW AK, Now(TL, TO, VH, AK),
           NEW m \in rpc, NEW n \in Nodes, m.to = n, disk[n].term <= m.term,
           NEW d \in TornAppend(n, m), disk' = [disk EXCEPT ![n] = d],
           Become({}, {}, {n}), Recalls(n), rpc' \in SUBSET rpc
    PROVE  StepOf(TL, TO, VH, AK)
<1> DEFINE a == Adopts(disk[n], m.term)
<1> DEFINE f == Appended(n, m)
<1>1. /\ disk[n] \in Disk /\ disk[n].term \in Nat /\ m.term \in Nat /\ disk[n].commit \in Nat
      /\ disk[n].log \in Seq(Entry)
  BY DiskTypes, RequestTypes
<1>2. /\ a \in Disk /\ a.log = disk[n].log /\ a.commit = disk[n].commit /\ a.term = m.term
      /\ (disk[n].term = m.term => a.vote = disk[n].vote)
  <2>1. /\ a \in Disk /\ a.log = disk[n].log /\ a.commit = disk[n].commit
        /\ (m.term >= disk[n].term => a.term = m.term)
        /\ (a.term = disk[n].term => a.vote = disk[n].vote)
    BY ONLY <1>1, AdoptsFacts, Zenon
  <2>2. m.term >= disk[n].term
    BY <1>1
  <2> HIDE DEF a
  <2> QED
    BY <2>1, <2>2
<1>3. /\ f \in Disk /\ f.term = m.term /\ f.vote = a.vote
      /\ TO[m.term] # None /\ Follows(disk[n].log, TL[m.term], f.log)
      /\ disk[n].commit <= f.commit
      /\ \A k \in disk[n].commit..f.commit : k = disk[n].commit \/ Settled(f.log, k, m.term, TL, AK)
  BY AppendedFacts, SMT
<1> DEFINE Reached(k) == \A j \in 1..Len(a.log) : IsPrefix(SubSeq(a.log, 1, j), f.log) => j <= k
<1> DEFINE K == {k \in 0..Len(f.log) : Reached(k)}
<1> DEFINE A == {Log(a, SubSeq(f.log, 1, k)) : k \in K}
<1> DEFINE B == {Commit(f, k) : k \in a.commit..f.commit}
<1>4. \/ d \in {disk[n], a} \/ d \in A \/ d \in B
  BY DEF TornAppend, Log, Commit
<1> HIDE DEF a, f
<1>5. CASE d = disk[n]
  <2>1. /\ disk[n].term <= d.term /\ (disk[n].term = d.term => disk[n].vote \in {None, d.vote})
        /\ d.log = disk[n].log /\ d.commit = disk[n].commit /\ d \in Disk
    BY <1>1, <1>5, SMT
  <2> QED
    BY <2>1, StopsWith
<1>6. CASE d = a
  BY <1>1, <1>2, <1>6, StopsWith
<1>7. ASSUME NEW k \in 0..Len(f.log),
             \A j \in 1..Len(a.log) : IsPrefix(SubSeq(a.log, 1, j), f.log) => j <= k,
             d = Log(a, SubSeq(f.log, 1, k))
      PROVE  StepOf(TL, TO, VH, AK)
  <2>1. f.log \in Seq(Entry) /\ TL[m.term] \in Seq(Entry)
    <3>1. Sound(disk, TL, TO, VH, AK)
      BY DEF Now, Explains
    <3> QED
      BY <1>1, <1>3, <3>1, SoundTypes DEF Disk
  <2>2. SubSeq(f.log, 1, k) \in Seq(Entry) /\ Follows(disk[n].log, TL[m.term], SubSeq(f.log, 1, k))
    BY <1>1, <1>2, <1>3, <1>7, <2>1, TornFollows
  <2>3. /\ d \in Disk /\ d.term = m.term /\ d.vote = a.vote /\ d.log = SubSeq(f.log, 1, k)
        /\ d.commit = disk[n].commit
    BY <1>2, <1>7, <2>2, LogFields
  <2>4. /\ disk[n].term <= d.term /\ (disk[n].term = d.term => disk[n].vote \in {None, d.vote})
        /\ TO[d.term] # None /\ Follows(disk[n].log, TL[d.term], d.log)
    BY <1>2, <1>3, <2>2, <2>3
  <2> QED
    BY <2>3, <2>4, StopsAppending
<1>8. ASSUME NEW k \in a.commit..f.commit, d = Commit(f, k)
      PROVE  StepOf(TL, TO, VH, AK)
  <2>1. k \in Nat /\ k \in disk[n].commit..f.commit
    BY <1>1, <1>2, SMT
  <2>2. /\ d \in Disk /\ d.term = m.term /\ d.vote = a.vote /\ d.log = f.log /\ d.commit = k
    BY <1>3, <1>8, <2>1, CommitFields
  <2>3. /\ disk[n].term <= d.term /\ (disk[n].term = d.term => disk[n].vote \in {None, d.vote})
        /\ TO[d.term] # None /\ Follows(disk[n].log, TL[d.term], d.log)
        /\ (d.commit = disk[n].commit \/ Settled(d.log, d.commit, d.term, TL, AK))
    BY <1>2, <1>3, <2>1, <2>2
  <2> QED
    BY <2>2, <2>3, StopsAppending
<1> QED
  BY <1>4, <1>5, <1>6, <1>7, <1>8 DEF A, B, K, Reached

(* A write the store refuses extends the history, wherever in a handler it   *)
(* fails: what reached the store is a record the handler could have left.    *)
LEMMA StoreFailsStep ==
    ASSUME TypeOK, NEW TL, NEW TO, NEW VH, NEW AK, Now(TL, TO, VH, AK),
           NEW n \in Nodes, StoreFails(n)
    PROVE  StepOf(TL, TO, VH, AK)
<1>1. ASSUME MayCampaign(n), Stops(n, {Campaign(n)}) PROVE StepOf(TL, TO, VH, AK)
  <2> DEFINE d == Campaign(n)
  <2>1. /\ disk' = [disk EXCEPT ![n] = d]
        /\ Become({}, {}, {n}) /\ Recalls(n) /\ rpc' \in SUBSET rpc
    BY <1>1, StopsAt
  <2>2. n \in Voters
    BY <1>1 DEF MayCampaign
  <2>3. /\ d \in Disk /\ d.term = disk[n].term + 1 /\ d.vote = n /\ d.log = disk[n].log
        /\ d.commit = disk[n].commit
    BY <2>2, CampaignFacts
  <2>4. disk[n].term \in Nat
    BY DiskTypes
  <2> HIDE DEF d
  <2>5. disk[n].term <= d.term /\ disk[n].term # d.term
    BY <2>3, <2>4, SMT
  <2> QED
    BY <2>1, <2>3, <2>5, StopsWith
<1>2. ASSUME NEW c \in Voters, Asked(n, c), Stops(n, {Voted(n, c)}) PROVE StepOf(TL, TO, VH, AK)
  <2> DEFINE d == Voted(n, c)
  <2>1. /\ disk' = [disk EXCEPT ![n] = d]
        /\ Become({}, {}, {n}) /\ Recalls(n) /\ rpc' \in SUBSET rpc
    BY <1>2, StopsAt
  <2>2. c \in Nodes /\ disk[n].term <= poll[c].term
    BY <1>2 DEF Asked, Nodes
  <2>3. /\ d \in Disk /\ d.term = poll[c].term /\ d.log = disk[n].log /\ d.commit = disk[n].commit
        /\ (disk[n].term = d.term => disk[n].vote \in {None, d.vote})
    BY <2>2, VotedFacts
  <2> HIDE DEF d
  <2> QED
    BY <2>1, <2>2, <2>3, StopsWith
<1>3. ASSUME NEW m \in rpc, m.to = n, m.term >= disk[n].term, Stops(n, TornAppend(n, m))
      PROVE  StepOf(TL, TO, VH, AK)
  <2>1. PICK d \in TornAppend(n, m) : disk' = [disk EXCEPT ![n] = d]
    BY <1>3, StopsFacts
  <2>2. Become({}, {}, {n}) /\ Recalls(n) /\ rpc' \in SUBSET rpc
    BY <1>3, StopsFacts
  <2>3. disk[n].term <= m.term
    BY <1>3, DiskTypes, RequestTypes
  <2> QED
    BY <1>3, <2>1, <2>2, <2>3, TornAppendStep
<1>4. ASSUME Leads(n), NEW v \in budget.values, Stops(n, {Proposal(n, v)})
      PROVE  StepOf(TL, TO, VH, AK)
  <2>1. /\ disk' = [disk EXCEPT ![n] = Proposal(n, v)]
        /\ Become({}, {}, {n}) /\ Recalls(n) /\ rpc' \in SUBSET rpc
    BY <1>4, StopsAt
  <2>2. role[n] = "Leader" /\ v \in Values
    BY <1>4 DEF Leads, TypeOK
  <2>3. PICK TL2, AK2 :
            /\ Sound(disk', TL2, TO, VH, AK2) /\ Chains(TL2)
            /\ Succeeds(disk, TL, TO, VH, AK, disk', TL2, TO, VH, AK2)
            /\ Local(n, disk, TL, TO, AK, disk', TL2, AK2)
    BY <2>1, <2>2, ProposalHistory
  <2>4. Later(TL, TO, VH, AK, TL2, TO, VH, AK2)
    BY <2>1, <2>3, FollowerStep
  <2> QED
    BY <2>4 DEF StepOf
<1>5. ASSUME Leads(n), NEW k \in Committable(n),
             Stops(n, {[disk[n] EXCEPT !.commit = i] : i \in disk[n].commit..k})
      PROVE  StepOf(TL, TO, VH, AK)
  <2> DEFINE S == {[disk[n] EXCEPT !.commit = i] : i \in disk[n].commit..k}
  <2>0. Stops(n, S)
    BY <1>5
  <2> HIDE DEF S
  <2>2. /\ Become({}, {}, {n}) /\ Recalls(n) /\ rpc' \in SUBSET rpc
        /\ \E d \in S : disk' = [disk EXCEPT ![n] = d]
    BY <2>0, StopsFacts
  <2>1. PICK i \in disk[n].commit..k : disk' = [disk EXCEPT ![n] = Commit(disk[n], i)]
    BY <2>2 DEF S, Commit
  <2>3. role[n] = "Leader"
    BY <1>5 DEF Leads
  <2>4. k \in Nat /\ (i = disk[n].commit \/ Settled(disk[n].log, i, disk[n].term, TL, AK))
    BY <2>3, CommittableSettled
  <2> DEFINE d == Commit(disk[n], i)
  <2>5. disk[n] \in Disk /\ disk[n].commit \in Nat /\ disk[n].term \in Nat /\ i \in Nat
    BY <2>4, DiskTypes, SMT
  <2>6. /\ d \in Disk /\ d.term = disk[n].term /\ d.vote = disk[n].vote /\ d.log = disk[n].log
        /\ d.commit = i
    BY <2>5, CommitFields
  <2> HIDE DEF d
  <2>7. disk' = [disk EXCEPT ![n] = d]
    BY <2>1 DEF d
  <2>8. disk[n].term <= d.term /\ (d.commit = disk[n].commit \/ Settled(d.log, d.commit, d.term, TL, AK))
    BY <2>4, <2>5, <2>6, SMT
  <2> QED
    BY <2>2, <2>6, <2>7, <2>8, StopsWith
<1> QED
  BY <1>1, <1>2, <1>3, <1>4, <1>5 DEF StoreFails

(* A crash leaves the history as it is: the record is in the store. *)
LEMMA CrashStep ==
    ASSUME TypeOK, NEW TL, NEW TO, NEW VH, NEW AK, Now(TL, TO, VH, AK),
           NEW n \in Nodes, Crash(n)
    PROVE  StepOf(TL, TO, VH, AK)
<1>1. PICK d : d = disk[n]
  OBVIOUS
<1>2. /\ disk' = [disk EXCEPT ![n] = d]
      /\ Become({}, {}, {n}) /\ Recalls(n) /\ rpc' \in SUBSET rpc
  BY <1>1, StopsAt DEF Crash
<1>3. /\ d \in Disk /\ disk[n].term <= d.term /\ (disk[n].term = d.term => disk[n].vote \in {None, d.vote})
      /\ d.log = disk[n].log /\ d.commit = disk[n].commit
  BY <1>1, DiskTypes, SMT
<1> QED
  BY <1>2, <1>3, StopsWith

(* A restart reads the record back and leaves the history as it is. *)
LEMMA RestartStep ==
    ASSUME TypeOK, NEW TL, NEW TO, NEW VH, NEW AK, Now(TL, TO, VH, AK),
           NEW n \in Nodes, Restart(n)
    PROVE  StepOf(TL, TO, VH, AK)
<1>1. disk' = disk /\ role' = role /\ next' = next /\ match' = match /\ poll' = poll /\ rpc' = rpc
  BY DEF Restart, volatile
<1>2. /\ Roles(disk, role', next', match', poll', TL, TO, VH, AK)
      /\ \A m \in rpc' : Sent(m, TL, TO, AK)
  BY <1>1 DEF Now, Explains
<1> QED
  BY <1>1, <1>2, SameHistory

(* A refused vote or append extends the history by a newer term at most. *)
LEMMA RefusedSteps ==
    ASSUME TypeOK, NEW TL, NEW TO, NEW VH, NEW AK, Now(TL, TO, VH, AK)
    PROVE  /\ \A v, c \in Nodes : VoteRefused(v, c) => StepOf(TL, TO, VH, AK)
           /\ \A m \in rpc : AppendRefused(m) => StepOf(TL, TO, VH, AK)
<1>1. ASSUME NEW v \in Nodes, NEW c \in Nodes, VoteRefused(v, c) PROVE StepOf(TL, TO, VH, AK)
  <2>1. StepsDown(c, disk[v].term) /\ poll' = poll /\ rpc' \in SUBSET rpc /\ disk[v].term \in Nat
    BY <1>1, DiskTypes DEF VoteRefused
  <2> QED
    BY <2>1, StepsDownStep
<1>2. ASSUME NEW m \in rpc, AppendRefused(m) PROVE StepOf(TL, TO, VH, AK)
  <2>1. m.to \in Nodes /\ m.from \in Nodes
    BY RequestTypes
  <2>2. /\ StepsDown(m.from, disk[m.to].term) /\ poll' = poll /\ rpc' \in SUBSET rpc
        /\ disk[m.to].term \in Nat
    BY <1>2, <2>1, DiskTypes DEF AppendRefused
  <2> QED
    BY <2>1, <2>2, StepsDownStep
<1> QED
  BY <1>1, <1>2
-----------------------------------------------------------------------------
BudgetType ==
    [elections : Nat, sends : Nat, calls : Nat, stray : Nat, values : SUBSET Values,
     faults : Nat, joins : Nat]

(* All that is not stored has its type. *)
MemoryOK ==
    /\ up \in [Nodes -> BOOLEAN]
    /\ role \in [Nodes -> {"Leader", "Candidate", "Follower"}]
    /\ next \in [Nodes -> [Nodes -> Nat]]
    /\ match \in [Nodes -> [Nodes -> Nat]]
    /\ learners \in [Nodes -> SUBSET Learners]
    /\ poll \in [Nodes -> Ballot]
    /\ rpc \in SUBSET Request
    /\ acked \in SUBSET Values
    /\ budget \in BudgetType

(* One node's record changes, and it has applied no less than before. *)
Applies(n) ==
    /\ \A m \in Nodes \ {n} : disk'[m] = disk[m]
    /\ disk[n].commit <= disk'[n].commit

(* What every step does: types stay, and no node unlearns a commit. *)
Keeps == MemoryOK' /\ \E n \in Nodes : Applies(n)

(* A write of one node's record changes no other's, and does not lower its   *)
(* commit index.                                                             *)
LEMMA AppliesRecord ==
    ASSUME TypeOK, NEW n \in Nodes, NEW d, disk' = [disk EXCEPT ![n] = d], disk[n].commit <= d.commit
    PROVE  \E m \in Nodes : Applies(m)
  BY DEF TypeOK, Applies

(* A step that writes no record lowers no commit index. *)
LEMMA AppliesNone ==
    ASSUME TypeOK, disk' = disk
    PROVE  \E m \in Nodes : Applies(m)
<1>1. PICK n \in Nodes : TRUE
  BY RaftAssumption, MembersAssumption DEF Nodes
<1>2. disk[n].commit \in Nat
  BY DiskTypes
<1> QED
  BY <1>2, SMT DEF Applies

(* The bounds of a behaviour are spent one at a time. *)
LEMMA BudgetSpent ==
    ASSUME TypeOK
    PROVE  /\ Strays => budget' \in BudgetType
           /\ \A heard \in BOOLEAN : Arrives(heard) => budget' \in BudgetType
           /\ budget.faults > 0 /\ budget' = [budget EXCEPT !.faults = @ - 1] => budget' \in BudgetType
           /\ budget.elections > 0 /\ budget' = [budget EXCEPT !.elections = @ - 1] => budget' \in BudgetType
           /\ budget.sends > 0 /\ budget' = [budget EXCEPT !.sends = @ - 1] => budget' \in BudgetType
           /\ budget.joins > 0 /\ budget' = [budget EXCEPT !.joins = @ - 1] => budget' \in BudgetType
           /\ \A v : budget' = [budget EXCEPT !.values = @ \ {v}] => budget' \in BudgetType
<1>0. budget \in BudgetType
  BY DEF TypeOK, BudgetType
<1>1. Strays => budget' \in BudgetType
  BY <1>0, SMT DEF Strays, BudgetType
<1>2. \A heard \in BOOLEAN : Arrives(heard) => budget' \in BudgetType
  BY <1>0, <1>1 DEF Arrives
<1>3. budget.faults > 0 /\ budget' = [budget EXCEPT !.faults = @ - 1] => budget' \in BudgetType
  BY <1>0, SMT DEF BudgetType
<1>4. budget.elections > 0 /\ budget' = [budget EXCEPT !.elections = @ - 1] => budget' \in BudgetType
  BY <1>0, SMT DEF BudgetType
<1>5. budget.sends > 0 /\ budget' = [budget EXCEPT !.sends = @ - 1] => budget' \in BudgetType
  BY <1>0, SMT DEF BudgetType
<1>6. budget.joins > 0 /\ budget' = [budget EXCEPT !.joins = @ - 1] => budget' \in BudgetType
  BY <1>0, SMT DEF BudgetType
<1>7. \A v : budget' = [budget EXCEPT !.values = @ \ {v}] => budget' \in BudgetType
  BY <1>0 DEF BudgetType
<1> QED
  BY <1>1, <1>2, <1>3, <1>4, <1>5, <1>6, <1>7

(* The term of the last entry is a natural. *)
LEMMA LastTermType ==
    ASSUME NEW L \in Seq(Entry)
    PROVE  LastTerm(L) \in Nat
<1>1. CASE L = <<>>
  BY <1>1 DEF LastTerm
<1>2. CASE L # <<>>
  <2>1. Len(L) \in 1..Len(L)
    BY <1>2, SMT
  <2>2. L[Len(L)] \in Entry
    BY <2>1, SMT
  <2> QED
    BY <1>2, <2>2 DEF LastTerm, Entry
<1> QED
  BY <1>1, <1>2

(* start_election keeps the types and takes no committed entry back. *)
LEMMA StartElectionKeeps ==
    ASSUME TypeOK, NEW n \in Nodes, StartElection(n)
    PROVE  Keeps
<1> DEFINE b == [term |-> disk[n].term + 1, index |-> Len(disk[n].log),
                 last |-> LastTerm(disk[n].log), open |-> Voters \ {n}, votes |-> {n}]
<1>1. /\ n \in Voters /\ budget.elections > 0 /\ disk' = [disk EXCEPT ![n] = Campaign(n)]
      /\ budget' = [budget EXCEPT !.elections = @ - 1]
      /\ \E lead, stand : Become(lead, stand, {})
      /\ poll' = [poll EXCEPT ![n] = b]
      /\ up' = up /\ learners' = learners /\ rpc' = rpc /\ acked' = acked
  BY DEF StartElection, MayCampaign
<1>2. /\ disk[n].term \in Nat /\ disk[n].log \in Seq(Entry) /\ disk[n].commit \in Nat
      /\ Len(disk[n].log) \in Nat
  BY DiskTypes
<1>3. b \in Ballot
  BY <1>1, <1>2, LastTermType, SMT DEF Ballot
<1> HIDE DEF b
<1>4. poll' \in [Nodes -> Ballot]
  BY <1>1, <1>3 DEF TypeOK
<1>5. /\ role' \in [Nodes -> {"Leader", "Candidate", "Follower"}]
      /\ next' \in [Nodes -> [Nodes -> Nat]] /\ match' \in [Nodes -> [Nodes -> Nat]]
  BY <1>1, BecomeFacts
<1>6. budget' \in BudgetType
  BY <1>1, BudgetSpent
<1>7. MemoryOK'
  BY <1>1, <1>4, <1>5, <1>6 DEF MemoryOK, TypeOK
<1>8. \E m \in Nodes : Applies(m)
  <2>1. disk[n].commit <= Campaign(n).commit
    BY <1>1, <1>2, CampaignFacts, SMT
  <2> QED
    BY <1>1, <2>1, AppliesRecord
<1> QED
  BY <1>7, <1>8 DEF Keeps

(* handle_request_vote keeps the types and takes no committed entry back. *)
LEMMA HandleRequestVoteKeeps ==
    ASSUME TypeOK, NEW TL, NEW TO, NEW VH, NEW AK, Now(TL, TO, VH, AK),
           NEW v \in Nodes, NEW c \in Nodes, NEW heard \in BOOLEAN, HandleRequestVote(v, c, heard)
    PROVE  Keeps
<1>1. /\ v \in poll[c].open /\ disk[v].term <= poll[c].term
      /\ disk' = [disk EXCEPT ![v] = Voted(v, c)] /\ up' = up
      /\ Arrives(heard)
      /\ \E lead, follow : Become(lead, {}, follow)
      /\ learners' = learners /\ rpc' = rpc /\ acked' = acked
  BY DEF HandleRequestVote, Asked, Stored
<1>2. \E V \in SUBSET Voters, O \in SUBSET Voters : poll' = [poll EXCEPT ![c].votes = V, ![c].open = O]
  <2> DEFINE votes == poll[c].votes \cup IF heard /\ Grants(disk[v], c, poll[c]) THEN {v} ELSE {}
  <2> DEFINE wins == role[c] = "Candidate" /\ disk[c].term = poll[c].term /\ up[c] /\ Majority(votes)
  <2> DEFINE V == IF wins THEN {} ELSE votes
  <2> DEFINE O == IF wins /\ budget.stray = 0 THEN {} ELSE poll[c].open \ {v}
  <2>1. poll' = [poll EXCEPT ![c].votes = V, ![c].open = O]
    BY DEF HandleRequestVote
  <2>2. V \in SUBSET Voters /\ O \in SUBSET Voters
    BY <1>1, PollTypes
  <2> HIDE DEF V, O
  <2> QED
    BY <2>1, <2>2
<1>3. poll' \in [Nodes -> Ballot]
  <2>1. PICK V \in SUBSET Voters, O \in SUBSET Voters : poll' = [poll EXCEPT ![c].votes = V, ![c].open = O]
    BY <1>2
  <2>2. poll \in [Nodes -> Ballot]
    BY DEF TypeOK
  <2> QED
    BY <2>1, <2>2 DEF Ballot
<1>4. /\ role' \in [Nodes -> {"Leader", "Candidate", "Follower"}]
      /\ next' \in [Nodes -> [Nodes -> Nat]] /\ match' \in [Nodes -> [Nodes -> Nat]]
  BY <1>1, BecomeFacts
<1>5. budget' \in BudgetType
  BY <1>1, BudgetSpent
<1>6. MemoryOK'
  BY <1>1, <1>3, <1>4, <1>5 DEF MemoryOK, TypeOK
<1>7. \E m \in Nodes : Applies(m)
  <2>1. c \in Voters
    <3>1. Polled(c, poll[c], TermOf(disk), VH)
      BY DEF Now, Explains, Roles, RoleOf
    <3> QED
      BY <1>1, <3>1 DEF Polled
  <2>2. disk[v].commit <= Voted(v, c).commit
    BY <1>1, <2>1, VotedFacts, DiskTypes, SMT
  <2> QED
    BY <1>1, <2>2, AppliesRecord
<1> QED
  BY <1>6, <1>7 DEF Keeps

(* Stepping down keeps the types and takes no committed entry back. *)
LEMMA StepsDownKeeps ==
    ASSUME TypeOK, NEW n \in Nodes, NEW t \in Nat, StepsDown(n, t),
           learners' = learners, poll' = poll, rpc' \in SUBSET rpc, acked' = acked
    PROVE  Keeps
<1>1. /\ disk' = [disk EXCEPT ![n] = Adopts(disk[n], t)] /\ up' = up /\ budget' = budget
      /\ Become({}, {}, {n})
  BY DEF StepsDown, Stored
<1>2. /\ role' \in [Nodes -> {"Leader", "Candidate", "Follower"}]
      /\ next' \in [Nodes -> [Nodes -> Nat]] /\ match' \in [Nodes -> [Nodes -> Nat]]
  BY <1>1, BecomeFacts
<1>3. MemoryOK'
  BY <1>1, <1>2 DEF MemoryOK, TypeOK, BudgetType
<1>4. disk[n].commit <= Adopts(disk[n], t).commit
  BY DiskTypes, AdoptsFacts, SMT
<1> QED
  BY <1>1, <1>3, <1>4, AppliesRecord DEF Keeps

(* Refused votes and appends keep the types and take no committed entry      *)
(* back.                                                                     *)
LEMMA RefusedKeeps ==
    ASSUME TypeOK
    PROVE  /\ \A v, c \in Nodes : VoteRefused(v, c) => Keeps
           /\ \A m \in rpc : AppendRefused(m) => Keeps
<1>1. ASSUME NEW v \in Nodes, NEW c \in Nodes, VoteRefused(v, c) PROVE Keeps
  <2>1. /\ StepsDown(c, disk[v].term) /\ poll' = poll /\ rpc' \in SUBSET rpc /\ disk[v].term \in Nat
        /\ learners' = learners /\ acked' = acked
    BY <1>1, DiskTypes DEF VoteRefused
  <2> QED
    BY <2>1, StepsDownKeeps
<1>2. ASSUME NEW m \in rpc, AppendRefused(m) PROVE Keeps
  <2>1. m.to \in Nodes /\ m.from \in Nodes
    BY RequestTypes
  <2>2. /\ StepsDown(m.from, disk[m.to].term) /\ poll' = poll /\ rpc' \in SUBSET rpc
        /\ disk[m.to].term \in Nat /\ learners' = learners /\ acked' = acked
    BY <1>2, <2>1, DiskTypes DEF AppendRefused
  <2> QED
    BY <2>1, <2>2, StepsDownKeeps
<1> QED
  BY <1>1, <1>2

(* Sending an append request keeps the types and takes no committed entry    *)
(* back.                                                                     *)
LEMMA SendAppendEntriesKeeps ==
    ASSUME TypeOK, NEW TL, NEW TO, NEW VH, NEW AK, Now(TL, TO, VH, AK),
           NEW l \in Nodes, NEW p \in Nodes, SendAppendEntries(l, p)
    PROVE  Keeps
<1> DEFINE lg == disk[l].log
<1> DEFINE from == next[l][p]
<1> DEFINE to == Min({Len(lg), from + MaxBatch - 1})
<1> DEFINE m == [awaited |-> TRUE, from |-> l, to |-> p,
                 term |-> disk[l].term, prev |-> from - 1,
                 prevTerm |-> LastTerm(SubSeq(lg, 1, from - 1)), entries |-> SubSeq(lg, from, to),
                 commit |-> disk[l].commit, learners |-> learners[l]]
<1>1. /\ role[l] = "Leader" /\ rpc' = rpc \cup {m} /\ up' = up
      /\ disk' = disk /\ role' = role /\ next' = next /\ match' = match /\ poll' = poll
      /\ learners' = learners /\ acked' = acked
      /\ budget.sends > 0 /\ budget' = [budget EXCEPT !.sends = @ - 1]
  BY DEF SendAppendEntries, Leads, volatile
<1>2. from \in 1..(Len(lg) + 1)
  BY <1>1, LeaderFacts
<1>3. /\ lg \in Seq(Entry) /\ Len(lg) \in Nat /\ MaxBatch \in Nat \ {0}
      /\ disk[l].term \in Nat /\ disk[l].commit \in Nat /\ learners[l] \in SUBSET Learners
  BY DiskTypes, RaftAssumption, MembersAssumption DEF TypeOK
<1> HIDE DEF lg, from
<1>4. to \in Nat /\ to <= Len(lg) /\ from <= to + 1
  <2>1. from + MaxBatch - 1 \in Nat
    BY <1>2, <1>3, SMT
  <2>2. to = (IF Len(lg) <= from + MaxBatch - 1 THEN Len(lg) ELSE from + MaxBatch - 1)
    BY <1>3, <2>1, MinPair
  <2> QED
    BY <1>2, <1>3, <2>1, <2>2, SMT
<1> HIDE DEF to
<1>5. SubSeq(lg, from, to) \in Seq(Entry)
  BY <1>2, <1>3, <1>4, SubSeqFacts, SMT
<1>6. from - 1 \in Nat /\ LastTerm(SubSeq(lg, 1, from - 1)) \in Nat
  <2>1. from - 1 \in Nat /\ from - 1 <= Len(lg)
    BY <1>2, <1>3, SMT
  <2>2. SubSeq(lg, 1, from - 1) \in Seq(Entry)
    BY <1>3, <2>1, SubSeqFacts, SMT
  <2> QED
    BY <2>1, <2>2, LastTermType
<1>7. m \in Request
  BY <1>3, <1>5, <1>6 DEF Request
<1> HIDE DEF m
<1>8. budget' \in BudgetType
  BY <1>1, BudgetSpent
<1>9. MemoryOK'
  BY <1>1, <1>7, <1>8 DEF MemoryOK, TypeOK
<1> QED
  BY <1>1, <1>9, AppliesNone DEF Keeps
-----------------------------------------------------------------------------
(* A failed call keeps the types and takes no committed entry back. *)
LEMMA CallFailsKeeps ==
    ASSUME TypeOK, NEW m \in rpc, CallFails(m)
    PROVE  Keeps
<1> DEFINE q == [m EXCEPT !.awaited = FALSE]
<1>1. /\ disk' = disk /\ role' = role /\ next' = next /\ match' = match /\ poll' = poll /\ up' = up
      /\ learners' = learners /\ acked' = acked /\ Strays
      /\ rpc' \in {rpc \ {m}, (rpc \ {m}) \cup {q}}
  BY DEF CallFails, volatile
<1>2. q \in Request
  <2>1. m \in Request
    BY RequestTypes
  <2> QED
    BY <2>1 DEF Request
<1> HIDE DEF q
<1>3. rpc' \in SUBSET Request
  BY <1>1, <1>2 DEF TypeOK
<1>4. budget' \in BudgetType
  BY <1>1, BudgetSpent
<1>5. MemoryOK'
  BY <1>1, <1>3, <1>4 DEF MemoryOK, TypeOK
<1> QED
  BY <1>1, <1>5, AppliesNone DEF Keeps

(* A table of numbers with one of them changed. *)
LEMMA NestedNat ==
    ASSUME NEW f \in [Nodes -> [Nodes -> Nat]], NEW a \in Nodes, NEW b \in Nodes, NEW k \in Nat,
           NEW g, g = [f EXCEPT ![a][b] = k]
    PROVE  g \in [Nodes -> [Nodes -> Nat]]
  OBVIOUS

(* handle_append_entries keeps the types and takes no committed entry back. *)
LEMMA HandleAppendEntriesKeeps ==
    ASSUME TypeOK, NEW TL, NEW TO, NEW VH, NEW AK, Now(TL, TO, VH, AK),
           NEW m \in rpc, NEW heard \in BOOLEAN, HandleAppendEntries(m, heard)
    PROVE  Keeps
<1> DEFINE n == m.to
<1> DEFINE l == m.from
<1>1. /\ l \in Nodes /\ n \in Nodes /\ m.term \in Nat /\ m.learners \in SUBSET Learners
      /\ m.prev \in Nat /\ Len(m.entries) \in Nat
  BY RequestTypes
<1>2. /\ disk[n].term <= m.term /\ disk' = [disk EXCEPT ![n] = Appended(n, m)] /\ up' = up
      /\ Arrives(heard)
      /\ role' = [role EXCEPT ![n] = "Follower"] /\ rpc' = rpc \ {m} /\ poll' = poll /\ acked' = acked
      /\ learners' = [learners EXCEPT ![n] = IF Consistent(disk[n], m) THEN m.learners ELSE learners[n]]
  BY <1>1, DiskTypes DEF HandleAppendEntries, Stored
<1>3. learners' \in [Nodes -> SUBSET Learners]
  BY <1>1, <1>2 DEF TypeOK
<1>4. match' \in [Nodes -> [Nodes -> Nat]] /\ next' \in [Nodes -> [Nodes -> Nat]]
  <2>1. match \in [Nodes -> [Nodes -> Nat]] /\ next \in [Nodes -> [Nodes -> Nat]]
    BY DEF TypeOK
  <2> DEFINE x == next[l][n]
  <2> DEFINE y == match[l][n]
  <2> DEFINE e == m.prev + Len(m.entries)
  <2> DEFINE h == x \div 2
  <2> DEFINE P == Progress(m, Consistent(disk[n], m))
  <2>2. \/ match' = match /\ next' = next
        \/ /\ match' = [match EXCEPT ![l][n] = P.match]
           /\ next' = [next EXCEPT ![l][n] = P.next]
    BY DEF HandleAppendEntries
  <2>3. \/ P = [match |-> Max({y, e}), next |-> Max({x, e + 1})]
        \/ P = [match |-> y, next |-> Max({h, 1})]
        \/ P = [match |-> y, next |-> x]
    <3>1. CASE Consistent(disk[n], m)
      <4>1. P = [match |-> Max({y, e}), next |-> Max({x, e + 1})]
        BY <3>1 DEF Progress
      <4> QED
        BY ONLY <4>1, Zenon
    <3>2. CASE ~Consistent(disk[n], m) /\ x = m.prev + 1 /\ x > 1
      <4>1. P = [match |-> y, next |-> Max({h, 1})]
        BY <3>2 DEF Progress
      <4> QED
        BY ONLY <4>1, Zenon
    <3>3. CASE ~Consistent(disk[n], m) /\ ~(x = m.prev + 1 /\ x > 1)
      <4>1. P = [match |-> y, next |-> x]
        BY <3>3 DEF Progress
      <4> QED
        BY ONLY <4>1, Zenon
    <3> QED
      BY <3>1, <3>2, <3>3
  <2>4. x \in Nat /\ y \in Nat /\ e \in Nat
    <3>1. e \in Nat
      BY <1>1, SMT
    <3> HIDE DEF n, l, e
    <3>2. next[l] \in [Nodes -> Nat] /\ match[l] \in [Nodes -> Nat]
      BY <1>1, <2>1
    <3> QED
      BY <1>1, <3>1, <3>2
  <2>5. e + 1 \in Nat /\ h \in Nat
    BY <2>4, SMT
  <2> HIDE DEF x, y, e, h, P
  <2>6. Max({y, e}) \in Nat /\ Max({x, e + 1}) \in Nat /\ Max({h, 1}) \in Nat
    BY <2>4, <2>5, MaxPair
  <2>7. P.match \in Nat /\ P.next \in Nat
    BY <2>3, <2>4, <2>6, SMT
  <2> HIDE DEF n, l
  <2> QED
    BY ONLY <1>1, <2>1, <2>2, <2>7, NestedNat, Zenon
<1>5. budget' \in BudgetType
  BY <1>2, BudgetSpent
<1>6. role' \in [Nodes -> {"Leader", "Candidate", "Follower"}]
  BY <1>2 DEF TypeOK
<1>7. MemoryOK'
  BY <1>2, <1>3, <1>4, <1>5, <1>6 DEF MemoryOK, TypeOK
<1>8. disk[n].commit <= Appended(n, m).commit
  BY <1>1, <1>2, AppendedFacts
<1> QED
  BY <1>1, <1>2, <1>7, <1>8, AppliesRecord DEF Keeps
=============================================================================

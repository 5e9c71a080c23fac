---------------------------- MODULE RaftInvariant ----------------------------
(***************************************************************************)
(* The other steps keep the types too, and lower no commit index.  Then    *)
(* the invariant of the cluster: a history explains its state, some node   *)
(* has applied the most, and what a client was told has been applied.  It  *)
(* holds at the start, given two facts about finite sets, and every step   *)
(* keeps it.                                                               *)
(***************************************************************************)
EXTENDS RaftCommits

USE Zenon

(* update_commit_index keeps the types, and answers only clients whose       *)
(* entries it has committed.                                                 *)
LEMMA UpdateCommitIndexKeeps ==
    ASSUME TypeOK, NEW TL, NEW TO, NEW VH, NEW AK, Now(TL, TO, VH, AK),
           NEW l \in Nodes, UpdateCommitIndex(l)
    PROVE  Keeps /\ \A v \in acked' : v \in acked \/ \E i \in 1..disk'[l].commit : disk'[l].log[i].val = v
<1>1. PICK N \in Committable(l) :
          /\ disk' = [disk EXCEPT ![l] = [disk[l] EXCEPT !.commit = N]] /\ up' = up
          /\ acked' = acked \cup {disk[l].log[i].val : i \in {i \in 1..N : disk[l].log[i].term = disk[l].term}}
  BY DEF UpdateCommitIndex, Stored
<1>2. /\ role[l] = "Leader" /\ learners' = learners
      /\ role' = role /\ next' = next /\ match' = match /\ poll' = poll /\ rpc' = rpc /\ budget' = budget
  BY DEF UpdateCommitIndex, Leads, volatile
<1>3. N \in Nat /\ disk[l].commit < N /\ N <= Len(disk[l].log)
  BY <1>2, CommittableSettled, DiskTypes, SMT DEF Committable
<1>4. disk[l] \in Disk /\ disk[l].log \in Seq(Entry) /\ disk[l].commit \in Nat /\ Len(disk[l].log) \in Nat
  BY DiskTypes
<1> DEFINE d == Commit(disk[l], N)
<1>5. d.commit = N /\ d.log = disk[l].log /\ disk' = [disk EXCEPT ![l] = d] /\ disk[l].commit <= d.commit
  <2>1. d.commit = N /\ d.log = disk[l].log
    BY <1>3, <1>4, CommitFields
  <2>2. disk' = [disk EXCEPT ![l] = d]
    BY <1>1 DEF Commit
  <2> HIDE DEF d
  <2> QED
    BY <1>3, <1>4, <2>1, <2>2, SMT
<1> HIDE DEF d
<1>6. disk'[l] = d
  BY <1>5 DEF TypeOK
<1>7. ASSUME NEW v \in acked', v \notin acked
      PROVE  v \in Values /\ \E i \in 1..N : disk[l].log[i].val = v
  <2>1. PICK i \in 1..N : v = disk[l].log[i].val
    BY <1>1, <1>7
  <2>2. disk[l].log[i] \in Entry
    BY <1>3, <1>4, SMT
  <2> QED
    BY <2>1, <2>2 DEF Entry
<1>8. acked' \in SUBSET Values
  BY <1>7 DEF TypeOK
<1>9. MemoryOK'
  BY <1>1, <1>2, <1>8 DEF MemoryOK, TypeOK, BudgetType
<1>10. Keeps
  BY <1>5, <1>9, AppliesRecord DEF Keeps
<1> QED
  BY <1>5, <1>6, <1>7, <1>10, SMT

(* A proposal does not lower the commit index. *)
LEMMA ProposalCommit ==
    ASSUME TypeOK, NEW n \in Nodes, NEW v \in Values
    PROVE  disk[n].commit <= Proposal(n, v).commit
<1>1. disk[n] \in Disk /\ disk[n].commit \in Nat
  BY DiskTypes
<1>2. Proposal(n, v).commit = disk[n].commit
  BY <1>1 DEF Proposal, Disk
<1> QED
  BY <1>1, <1>2, SMT

(* A proposal keeps the types and takes no committed entry back. *)
LEMMA ProposeKeeps ==
    ASSUME TypeOK, NEW n \in Nodes, NEW v \in Values, Propose(n, v)
    PROVE  Keeps
<1>1. /\ disk' = [disk EXCEPT ![n] = Proposal(n, v)] /\ up' = up /\ learners' = learners
      /\ role' = role /\ next' = next /\ match' = match /\ poll' = poll /\ rpc' = rpc /\ acked' = acked
      /\ budget' = [budget EXCEPT !.values = @ \ {v}]
  BY DEF Propose, volatile
<1>2. budget' \in BudgetType
  BY <1>1, BudgetSpent
<1>3. MemoryOK'
  BY <1>1, <1>2 DEF MemoryOK, TypeOK
<1>4. disk[n].commit <= Proposal(n, v).commit
  BY ProposalCommit
<1> QED
  BY <1>1, <1>3, <1>4, AppliesRecord DEF Keeps

(* A change of the learners keeps the types and takes no committed entry     *)
(* back.                                                                     *)
LEMMA ChangeLearnersKeeps ==
    ASSUME TypeOK, NEW l \in Nodes, NEW x \in Nodes, NEW S \in SUBSET Learners, NEW i \in Nat,
           ChangeLearners(l, x, S, i)
    PROVE  Keeps
<1>1. /\ next' = [next EXCEPT ![l][x] = i] /\ match' = [match EXCEPT ![l][x] = 0]
      /\ disk' = disk /\ role' = role /\ poll' = poll /\ rpc' = rpc /\ up' = up /\ acked' = acked
      /\ learners' = [learners EXCEPT ![l] = S]
      /\ budget.joins > 0 /\ budget' = [budget EXCEPT !.joins = @ - 1]
  BY DEF ChangeLearners
<1>2. budget' \in BudgetType
  BY <1>1, BudgetSpent
<1>3. next' \in [Nodes -> [Nodes -> Nat]] /\ match' \in [Nodes -> [Nodes -> Nat]]
  <2>1. next \in [Nodes -> [Nodes -> Nat]] /\ match \in [Nodes -> [Nodes -> Nat]]
    BY DEF TypeOK
  <2> QED
    BY <1>1, <2>1
<1>4. MemoryOK'
  BY <1>1, <1>2, <1>3 DEF MemoryOK, TypeOK
<1> QED
  BY <1>1, <1>4, AppliesNone DEF Keeps

(* add_peer and remove_peer extend the history and keep the types. *)
LEMMA PeersKeep ==
    ASSUME TypeOK, NEW TL, NEW TO, NEW VH, NEW AK, Now(TL, TO, VH, AK),
           NEW l \in Nodes, NEW x \in Nodes, AddPeer(l, x) \/ RemovePeer(l, x)
    PROVE  StepOf(TL, TO, VH, AK) /\ Keeps
<1>1. learners[l] \in SUBSET Learners /\ Len(disk[l].log) + 1 \in Nat
  <2>1. Len(disk[l].log) \in Nat
    BY DiskTypes
  <2>2. Len(disk[l].log) + 1 \in Nat
    BY ONLY <2>1, SMT
  <2> QED
    BY <2>2 DEF TypeOK
<1>2. CASE AddPeer(l, x)
  <2>1. PICK S \in SUBSET Learners, i \in {1, Len(disk[l].log) + 1} : i \in Nat /\ ChangeLearners(l, x, S, i)
    BY <1>1, <1>2 DEF AddPeer
  <2> QED
    BY <2>1, ChangeLearnersStep, ChangeLearnersKeeps
<1>3. CASE RemovePeer(l, x)
  <2>1. PICK S \in SUBSET Learners, i \in {1, Len(disk[l].log) + 1} : i \in Nat /\ ChangeLearners(l, x, S, i)
    BY <1>1, <1>3 DEF RemovePeer
  <2> QED
    BY <2>1, ChangeLearnersStep, ChangeLearnersKeeps
<1> QED
  BY <1>2, <1>3

(* A node that stops keeps the types, if no record it may leave has a lower  *)
(* commit index.                                                             *)
LEMMA StopsKeeps ==
    ASSUME TypeOK, NEW n \in Nodes, NEW S, Stops(n, S),
           \A d \in S : disk[n].commit <= d.commit
    PROVE  Keeps
<1>1. PICK d \in S : disk' = [disk EXCEPT ![n] = d]
  BY DEF Stops
<1>2. /\ up' = [up EXCEPT ![n] = FALSE] /\ Become({}, {}, {n})
      /\ learners' = learners /\ rpc' = rpc /\ acked' = acked
      /\ budget.faults > 0 /\ budget' = [budget EXCEPT !.faults = @ - 1]
  BY DEF Stops
<1>3. poll' \in [Nodes -> Ballot]
  BY StopsFacts DEF Recalls
<1>4. /\ role' \in [Nodes -> {"Leader", "Candidate", "Follower"}]
      /\ next' \in [Nodes -> [Nodes -> Nat]] /\ match' \in [Nodes -> [Nodes -> Nat]]
  BY <1>2, BecomeFacts
<1>5. budget' \in BudgetType
  BY <1>2, BudgetSpent
<1>6. up' \in [Nodes -> BOOLEAN]
  BY <1>2 DEF TypeOK
<1>7. MemoryOK'
  BY <1>2, <1>3, <1>4, <1>5, <1>6 DEF MemoryOK, TypeOK
<1> QED
  BY <1>1, <1>7, AppliesRecord DEF Keeps

(* A write the store refuses keeps the types and takes no committed entry    *)
(* back.                                                                     *)
LEMMA StoreFailsKeeps ==
    ASSUME TypeOK, NEW TL, NEW TO, NEW VH, NEW AK, Now(TL, TO, VH, AK),
           NEW n \in Nodes, StoreFails(n)
    PROVE  Keeps
<1>0. disk[n] \in Disk /\ disk[n].commit \in Nat
  BY DiskTypes
<1>1. ASSUME MayCampaign(n), Stops(n, {Campaign(n)}) PROVE Keeps
  <2>1. disk[n].commit <= Campaign(n).commit
    BY <1>0, <1>1, CampaignFacts, SMT DEF MayCampaign
  <2> DEFINE S == {Campaign(n)}
  <2>2. Stops(n, S) /\ \A d \in S : disk[n].commit <= d.commit
    BY <1>1, <2>1
  <2> HIDE DEF S
  <2> QED
    BY <2>2, StopsKeeps
<1>2. ASSUME NEW c \in Voters, Asked(n, c), Stops(n, {Voted(n, c)}) PROVE Keeps
  <2>1. disk[n].commit <= Voted(n, c).commit
    <3>1. c \in Nodes /\ disk[n].term <= poll[c].term
      BY <1>2 DEF Asked, Nodes
    <3> QED
      BY <1>0, <3>1, VotedFacts, SMT
  <2> DEFINE S == {Voted(n, c)}
  <2>2. Stops(n, S) /\ \A d \in S : disk[n].commit <= d.commit
    BY <1>2, <2>1
  <2> HIDE DEF S
  <2> QED
    BY <2>2, StopsKeeps
<1>3. ASSUME NEW m \in rpc, m.to = n, m.term >= disk[n].term, Stops(n, TornAppend(n, m))
      PROVE  Keeps
  <2> DEFINE a == Adopts(disk[n], m.term)
  <2> DEFINE f == Appended(n, m)
  <2> DEFINE Reached(k) == \A j \in 1..Len(a.log) : IsPrefix(SubSeq(a.log, 1, j), f.log) => j <= k
  <2> DEFINE K == {k \in 0..Len(f.log) : Reached(k)}
  <2> DEFINE A == {Log(a, SubSeq(f.log, 1, k)) : k \in K}
  <2> DEFINE B == {Commit(f, k) : k \in a.commit..f.commit}
  <2>1. m.term \in Nat /\ disk[n].term <= m.term
    BY <1>3, RequestTypes, DiskTypes
  <2>2. a \in Disk /\ a.commit = disk[n].commit
    BY ONLY <1>0, <2>1, AdoptsFacts, Zenon
  <2>3. f \in Disk
    BY <1>3, <2>1, AppendedFacts
  <2>4. ASSUME NEW d \in TornAppend(n, m) PROVE disk[n].commit <= d.commit
    <3>1. d \in {disk[n], a} \/ d \in A \/ d \in B
      BY DEF TornAppend, Log, Commit
    <3> HIDE DEF a, f, K
    <3>2. CASE d \in {disk[n], a}
      BY <1>0, <2>2, <3>2, SMT
    <3>3. CASE d \in A
      <4>1. PICK k : d = Log(a, SubSeq(f.log, 1, k))
        BY <3>3
      <4>2. d.commit = a.commit
        BY <2>2, <4>1 DEF Log, Disk
      <4> QED
        BY <1>0, <2>2, <4>2, SMT
    <3>4. CASE d \in B
      <4>1. PICK k \in a.commit..f.commit : d = Commit(f, k)
        BY <3>4
      <4>2. d.commit = k
        BY <2>3, <4>1 DEF Commit, Disk
      <4> QED
        BY <1>0, <2>2, <2>3, <4>1, <4>2, SMT DEF Disk
    <3> QED
      BY <3>1, <3>2, <3>3, <3>4
  <2> QED
    BY <1>3, <2>4, StopsKeeps
<1>4. ASSUME NEW v \in budget.values, Stops(n, {Proposal(n, v)}) PROVE Keeps
  <2>1. disk[n].commit <= Proposal(n, v).commit
    BY ProposalCommit DEF TypeOK
  <2> DEFINE S == {Proposal(n, v)}
  <2>2. Stops(n, S) /\ \A d \in S : disk[n].commit <= d.commit
    BY <1>4, <2>1
  <2> HIDE DEF S
  <2> QED
    BY <2>2, StopsKeeps
<1>5. ASSUME Leads(n), NEW k \in Committable(n),
             Stops(n, {[disk[n] EXCEPT !.commit = i] : i \in disk[n].commit..k})
      PROVE  Keeps
  <2> DEFINE S == {Commit(disk[n], i) : i \in disk[n].commit..k}
  <2>1. Stops(n, S)
    BY <1>5 DEF Commit
  <2>2. ASSUME NEW d \in S PROVE disk[n].commit <= d.commit
    <3>1. PICK i \in disk[n].commit..k : d = Commit(disk[n], i)
      OBVIOUS
    <3>2. k \in Nat
      BY <1>5, CommittableSettled DEF Leads
    <3>3. d.commit = i
      BY <1>0, <3>1 DEF Commit, Disk
    <3> QED
      BY <1>0, <3>1, <3>2, <3>3, SMT
  <2> HIDE DEF S
  <2> QED
    BY <2>1, <2>2, StopsKeeps
<1> QED
  BY <1>1, <1>2, <1>3, <1>4, <1>5 DEF StoreFails

(* A crash keeps the types and takes no committed entry back. *)
LEMMA CrashKeeps ==
    ASSUME TypeOK, NEW n \in Nodes, Crash(n)
    PROVE  Keeps
<1>1. PICK S : S = {disk[n]}
  OBVIOUS
<1>2. Stops(n, S) /\ \A d \in S : disk[n].commit <= d.commit
  BY <1>1, DiskTypes, SMT DEF Crash
<1> QED
  BY <1>2, StopsKeeps

(* A restart keeps the types and takes no committed entry back. *)
LEMMA RestartKeeps ==
    ASSUME TypeOK, NEW n \in Nodes, Restart(n)
    PROVE  Keeps
<1>1. /\ disk' = disk /\ role' = role /\ next' = next /\ match' = match /\ poll' = poll /\ rpc' = rpc
      /\ learners' = learners /\ acked' = acked /\ budget' = budget /\ up' = [up EXCEPT ![n] = TRUE]
  BY DEF Restart, volatile
<1>2. MemoryOK'
  BY <1>1 DEF MemoryOK, TypeOK, BudgetType
<1> QED
  BY <1>1, <1>2, AppliesNone DEF Keeps
-----------------------------------------------------------------------------
(* Some node has applied the most. *)
Top(dk) == \E n \in Nodes : \A m \in Nodes : dk[m].commit <= dk[n].commit

(* What was acknowledged has been applied by some node. *)
Held(dk, ak) == \A v \in ak : \E n \in Nodes : \E i \in 1..dk[n].commit : dk[n].log[i].val = v

Explained == \E TL, TO, VH, AK : Now(TL, TO, VH, AK)

Inv == TypeOK /\ Explained /\ Top(disk) /\ Held(disk, acked)

(* Acknowledgements are not taken back, and only commits add to them. *)
Tells ==
    /\ acked \subseteq acked'
    /\ \A v \in acked' : v \in acked \/ \E n \in Nodes : \E i \in 1..disk'[n].commit : disk'[n].log[i].val = v

(* A step that answers no client tells none a falsehood. *)
LEMMA TellsNothing == ASSUME acked' = acked PROVE Tells
  BY DEF Tells

(* A node that stops answers no client. *)
LEMMA StopsSilent == ASSUME NEW n, NEW S, Stops(n, S) PROVE acked' = acked
  BY DEF Stops

(* A write the store refuses answers no client. *)
LEMMA StoreFailsSilent == ASSUME NEW n, StoreFails(n) PROVE acked' = acked
  BY StopsSilent DEF StoreFails

(* Every step extends the history. *)
LEMMA NextStep ==
    ASSUME TypeOK, NEW TL, NEW TO, NEW VH, NEW AK, Now(TL, TO, VH, AK), Next
    PROVE  StepOf(TL, TO, VH, AK) /\ Keeps /\ Tells
<1>1. ASSUME NEW n \in Nodes, StartElection(n) PROVE StepOf(TL, TO, VH, AK) /\ Keeps /\ Tells
  <2>1. acked' = acked
    BY <1>1 DEF StartElection
  <2> QED
    BY <1>1, <2>1, StartElectionStep, StartElectionKeeps, TellsNothing
<1>2. ASSUME NEW n \in Nodes, UpdateCommitIndex(n) PROVE StepOf(TL, TO, VH, AK) /\ Keeps /\ Tells
  <2>1. acked \subseteq acked'
    BY <1>2 DEF UpdateCommitIndex
  <2>2. Keeps /\ \A v \in acked' : v \in acked \/ \E i \in 1..disk'[n].commit : disk'[n].log[i].val = v
    BY <1>2, UpdateCommitIndexKeeps
  <2>3. Tells
    BY <2>1, <2>2 DEF Tells
  <2> QED
    BY <1>2, <2>2, <2>3, UpdateCommitIndexStep
<1>3. ASSUME NEW n \in Nodes, StoreFails(n) PROVE StepOf(TL, TO, VH, AK) /\ Keeps /\ Tells
  BY <1>3, StoreFailsStep, StoreFailsKeeps, StoreFailsSilent, TellsNothing
<1>4. ASSUME NEW n \in Nodes, Crash(n) PROVE StepOf(TL, TO, VH, AK) /\ Keeps /\ Tells
  <2>1. acked' = acked
    BY <1>4 DEF Crash, Stops
  <2> QED
    BY <1>4, <2>1, CrashStep, CrashKeeps, TellsNothing
<1>5. ASSUME NEW n \in Nodes, Restart(n) PROVE StepOf(TL, TO, VH, AK) /\ Keeps /\ Tells
  <2>1. acked' = acked
    BY <1>5 DEF Restart
  <2> QED
    BY <1>5, <2>1, RestartStep, RestartKeeps, TellsNothing
<1>6. ASSUME NEW n \in Nodes, NEW v \in Values, Propose(n, v)
      PROVE  StepOf(TL, TO, VH, AK) /\ Keeps /\ Tells
  <2>1. acked' = acked
    BY <1>6 DEF Propose
  <2> QED
    BY <1>6, <2>1, ProposeExplained, ProposeKeeps, TellsNothing
<1>7. ASSUME NEW n \in Nodes, NEW p \in Nodes \ {n}, NEW heard \in BOOLEAN, HandleRequestVote(n, p, heard)
      PROVE  StepOf(TL, TO, VH, AK) /\ Keeps /\ Tells
  <2>1. acked' = acked
    BY <1>7 DEF HandleRequestVote
  <2>2. p \in Nodes /\ n # p
    OBVIOUS
  <2> QED
    BY <1>7, <2>1, <2>2, HandleRequestVoteStep, HandleRequestVoteKeeps, TellsNothing
<1>8. ASSUME NEW n \in Nodes, NEW p \in Nodes \ {n}, VoteRefused(n, p)
      PROVE  StepOf(TL, TO, VH, AK) /\ Keeps /\ Tells
  <2>1. acked' = acked
    BY <1>8 DEF VoteRefused
  <2> QED
    BY <1>8, <2>1, RefusedSteps, RefusedKeeps, TellsNothing
<1>9. ASSUME NEW n \in Nodes, NEW p \in Nodes \ {n}, SendAppendEntries(n, p)
      PROVE  StepOf(TL, TO, VH, AK) /\ Keeps /\ Tells
  <2>1. acked' = acked
    BY <1>9 DEF SendAppendEntries
  <2>2. p \in Nodes /\ n # p
    OBVIOUS
  <2> QED
    BY <1>9, <2>1, <2>2, SendAppendEntriesStep, SendAppendEntriesKeeps, TellsNothing
<1>10. ASSUME NEW n \in Nodes, NEW p \in Nodes \ {n}, AddPeer(n, p) \/ RemovePeer(n, p)
       PROVE  StepOf(TL, TO, VH, AK) /\ Keeps /\ Tells
  <2>1. acked' = acked
    BY <1>10 DEF AddPeer, RemovePeer, ChangeLearners
  <2> QED
    BY <1>10, <2>1, PeersKeep, TellsNothing
<1>11. ASSUME NEW m \in rpc, NEW heard \in BOOLEAN, HandleAppendEntries(m, heard)
       PROVE  StepOf(TL, TO, VH, AK) /\ Keeps /\ Tells
  <2>1. acked' = acked
    BY <1>11 DEF HandleAppendEntries
  <2> QED
    BY <1>11, <2>1, HandleAppendEntriesStep, HandleAppendEntriesKeeps, TellsNothing
<1>12. ASSUME NEW m \in rpc, AppendRefused(m)
       PROVE  StepOf(TL, TO, VH, AK) /\ Keeps /\ Tells
  <2>1. acked' = acked
    BY <1>12 DEF AppendRefused
  <2> QED
    BY <1>12, <2>1, RefusedSteps, RefusedKeeps, TellsNothing
<1>13. ASSUME NEW m \in rpc, CallFails(m)
       PROVE  StepOf(TL, TO, VH, AK) /\ Keeps /\ Tells
  <2>1. acked' = acked
    BY <1>13 DEF CallFails
  <2> QED
    BY <1>13, <2>1, CallFailsStep, CallFailsKeeps, TellsNothing
<1>14. ASSUME NEW n \in Nodes,
              \/ StartElection(n) \/ UpdateCommitIndex(n)
              \/ StoreFails(n) \/ Crash(n) \/ Restart(n)
              \/ \E v \in Values : Propose(n, v)
       PROVE  StepOf(TL, TO, VH, AK) /\ Keeps /\ Tells
  BY ONLY <1>1, <1>2, <1>3, <1>4, <1>5, <1>6, <1>14, Zenon
<1>16. ASSUME NEW n \in Nodes, NEW p \in Nodes \ {n},
              \/ \E heard \in BOOLEAN : HandleRequestVote(n, p, heard)
              \/ VoteRefused(n, p)
              \/ SendAppendEntries(n, p)
              \/ AddPeer(n, p) \/ RemovePeer(n, p)
       PROVE  StepOf(TL, TO, VH, AK) /\ Keeps /\ Tells
  <2>1. CASE \E heard \in BOOLEAN : HandleRequestVote(n, p, heard)
    BY <1>7, <2>1
  <2>2. CASE VoteRefused(n, p)
    BY <1>8, <2>2
  <2>3. CASE SendAppendEntries(n, p)
    BY <1>9, <2>3
  <2>4. CASE AddPeer(n, p) \/ RemovePeer(n, p)
    BY <1>10, <2>4
  <2> QED
    BY ONLY <1>16, <2>1, <2>2, <2>3, <2>4, Zenon
<1>15. CASE \E m \in rpc :
              \/ \E heard \in BOOLEAN : HandleAppendEntries(m, heard)
              \/ AppendRefused(m) \/ CallFails(m)
  BY <1>11, <1>12, <1>13, <1>15
<1> QED
  BY <1>14, <1>15, <1>16 DEF Next

(* Two logs agree on every entry that is settled in both. *)
LEMMA SettledSame ==
    ASSUME NEW dk, NEW TL, NEW TO, NEW VH, NEW AK, Sound(dk, TL, TO, VH, AK),
           NEW L, NEW M, NEW u \in Nat, NEW w \in Nat, NEW k \in Nat, NEW j \in Nat,
           Settled(L, k, u, TL, AK), Settled(M, j, w, TL, AK), NEW i, i \in 1..k, i \in 1..j
    PROVE  L[i] = M[i]
<1>1. \A t \in Nat : Len(TL[t]) \in Nat
  BY SoundTypes
<1>2. TermLogs(TL, TO) /\ LeadersHold(TermOf(dk), TL, TO, AK)
  BY DEF Sound, Core
<1> QED
  BY <1>1, <1>2, SettledAgree, SMT

(* Whatever two nodes have applied, they agree on it. *)
LEMMA AppliedSame ==
    ASSUME NEW dk, NEW TL, NEW TO, NEW VH, NEW AK, Sound(dk, TL, TO, VH, AK),
           NEW m \in Nodes, NEW n \in Nodes, NEW i, i \in 1..dk[m].commit, i \in 1..dk[n].commit
    PROVE  dk[m].log[i] = dk[n].log[i]
<1>1. /\ \A t \in Nat : Len(TL[t]) \in Nat
      /\ dk[m].commit \in Nat /\ dk[n].commit \in Nat /\ dk[m].term \in Nat /\ dk[n].term \in Nat
  BY SoundTypes
<1>2. TermLogs(TL, TO) /\ LeadersHold(TermOf(dk), TL, TO, AK)
  BY DEF Sound, Core
<1>3. /\ Settled(dk[m].log, dk[m].commit, dk[m].term, TL, AK)
      /\ Settled(dk[n].log, dk[n].commit, dk[n].term, TL, AK)
  BY RecordsOf DEF Sound, Core, Commits
<1> QED
  BY ONLY <1>1, <1>2, <1>3, i \in 1..dk[m].commit, i \in 1..dk[n].commit, SettledAgree, SMTT(30)

(* A node keeps what it has applied. *)
LEMMA AppliedKept ==
    ASSUME NEW dk, NEW TL, NEW TO, NEW VH, NEW AK, Sound(dk, TL, TO, VH, AK),
           NEW dk2, NEW TL2, NEW TO2, NEW VH2, NEW AK2, Sound(dk2, TL2, TO2, VH2, AK2),
           Succeeds(dk, TL, TO, VH, AK, dk2, TL2, TO2, VH2, AK2),
           NEW n \in Nodes, dk[n].commit <= dk2[n].commit, NEW i, i \in 1..dk[n].commit
    PROVE  dk2[n].log[i] = dk[n].log[i]
<1>1. /\ \A t \in Nat : Len(TL[t]) \in Nat /\ Len(TL2[t]) \in Nat
      /\ \A t \in Nat, v \in Nodes : AK[t][v] \in Nat /\ AK2[t][v] \in Nat
      /\ dk[n].commit \in Nat /\ dk2[n].commit \in Nat /\ dk[n].term \in Nat /\ dk2[n].term \in Nat
  BY SoundTypes
<1>2. Grows(TL, TO, AK, TL2, TO2, AK2)
  BY DEF Succeeds, Evolves
<1>3. Sound(dk2, TL2, TO2, VH2, AK2)
  OBVIOUS
<1>4. /\ Settled(dk[n].log, dk[n].commit, dk[n].term, TL, AK)
      /\ Settled(dk2[n].log, dk2[n].commit, dk2[n].term, TL2, AK2)
  BY RecordsOf DEF Sound, Core, Commits
<1>5. \A u, w, k \in Nat : \A L : u <= w /\ Settled(L, k, u, TL, AK) => Settled(L, k, w, TL2, AK2)
  BY ONLY <1>1, <1>2, SettledKept, Zenon
<1>6. Settled(dk[n].log, dk[n].commit, dk[n].term + 1, TL2, AK2)
  <2>1. dk[n].term <= dk[n].term + 1 /\ dk[n].term + 1 \in Nat
    BY <1>1, SMT
  <2> QED
    BY ONLY <1>1, <1>4, <1>5, <2>1, Zenon
<1>7. i \in 1..dk2[n].commit /\ dk[n].term + 1 \in Nat
  BY <1>1, SMT
<1> DEFINE L == dk2[n].log
<1> DEFINE M == dk[n].log
<1> DEFINE u == dk2[n].term
<1> DEFINE w == dk[n].term + 1
<1> DEFINE k == dk2[n].commit
<1> DEFINE j == dk[n].commit
<1>8. /\ u \in Nat /\ w \in Nat /\ k \in Nat /\ j \in Nat
      /\ Settled(L, k, u, TL2, AK2) /\ Settled(M, j, w, TL2, AK2) /\ i \in 1..k /\ i \in 1..j
  BY <1>1, <1>4, <1>6, <1>7
<1> HIDE DEF L, M, u, w, k, j
<1>9. L[i] = M[i]
  BY ONLY <1>3, <1>8, SettledSame
<1> QED
  BY <1>9 DEF L, M

(* A step of the cluster, seen from the applied entries. *)
LEMMA CommitsStep ==
    ASSUME TypeOK, NEW TL, NEW TO, NEW VH, NEW AK, Now(TL, TO, VH, AK),
           StepOf(TL, TO, VH, AK), Keeps
    PROVE  \A n \in Nodes :
               /\ disk[n].commit <= disk'[n].commit
               /\ \A i \in 1..disk[n].commit : disk'[n].log[i] = disk[n].log[i]
<1>1. PICK n \in Nodes : Applies(n)
  BY DEF Keeps
<1>2. \A m \in Nodes : disk[m].commit <= disk'[m].commit
  <2>1. TAKE m \in Nodes
  <2>2. disk[m].commit \in Nat
    BY DiskTypes
  <2> QED
    BY <1>1, <2>2, SMT DEF Applies
<1>3. PICK TL2, TO2, VH2, AK2 : Later(TL, TO, VH, AK, TL2, TO2, VH2, AK2)
  BY DEF StepOf
<1>4. /\ Sound(disk, TL, TO, VH, AK) /\ Sound(disk', TL2, TO2, VH2, AK2)
      /\ Succeeds(disk, TL, TO, VH, AK, disk', TL2, TO2, VH2, AK2)
  BY <1>3 DEF Now, Later, Explains
<1>5. ASSUME NEW m \in Nodes, NEW i, i \in 1..disk[m].commit PROVE disk'[m].log[i] = disk[m].log[i]
  <2>1. disk[m].commit <= disk'[m].commit
    BY <1>2
  <2> QED
    BY ONLY <1>4, <1>5, <2>1, AppliedKept
<1> QED
  BY <1>2, <1>5

(* The empty history explains the cluster at its start. *)
LEMMA InvInit ==
    ASSUME FiniteFacts, Init
    PROVE  Inv
<1> DEFINE TL == [t \in Nat |-> <<>>]
<1> DEFINE TO == [t \in Nat |-> None]
<1> DEFINE VH == [t \in Nat |-> [v \in Nodes |-> None]]
<1> DEFINE AK == [t \in Nat |-> [v \in Nodes |-> 0]]
<1> DEFINE d0 == [term |-> 0, vote |-> None, log |-> <<>>, commit |-> 0]
<1>1. /\ \A n \in Nodes : disk[n] = d0 /\ role[n] = "Follower" /\ poll[n] = NoPoll
      /\ disk = [n \in Nodes |-> d0] /\ poll = [n \in Nodes |-> NoPoll] /\ rpc = {} /\ acked = {}
  BY DEF Init
<1>2. d0 \in Disk /\ d0.term = 0 /\ d0.vote = None /\ d0.log = <<>> /\ d0.commit = 0
  BY SMT DEF Disk
<1>3. NoPoll \in Ballot /\ NoPoll.term = 0 /\ NoPoll.open = {} /\ NoPoll.votes = {}
  BY DEF NoPoll, Ballot
<1> HIDE DEF d0
<1>4. disk \in [Nodes -> Disk] /\ poll \in [Nodes -> Ballot]
  BY <1>1, <1>2, <1>3
<1>5. TypeOK
  <2>1. /\ up \in [Nodes -> BOOLEAN] /\ role \in [Nodes -> {"Leader", "Candidate", "Follower"}]
        /\ learners \in [Nodes -> SUBSET Learners]
    BY DEF Init
  <2>2. next \in [Nodes -> [Nodes -> Nat]] /\ match \in [Nodes -> [Nodes -> Nat]]
    BY DEF Init
  <2>3. budget \in [elections : Nat, sends : Nat, calls : Nat, stray : Nat, values : SUBSET Values,
                    faults : Nat, joins : Nat]
    BY RaftAssumption, MembersAssumption DEF Init
  <2> QED
    BY <1>1, <1>4, <2>1, <2>2, <2>3 DEF TypeOK
<1>6. /\ \A n \in Nodes : TermOf(disk)[n] = 0
      /\ \A n \in Nodes : VoteOf(disk)[n] = None
      /\ \A n \in Nodes : LogOf(disk)[n] = <<>>
      /\ \A n \in Nodes : CommitOf(disk)[n] = 0
  BY <1>1, <1>2, <1>4, RecordsOf
<1>7. /\ \A t \in Nat : TL[t] = <<>>
      /\ \A t \in Nat : TO[t] = None
      /\ \A t \in Nat : \A v \in Nodes : VH[t][v] = None
      /\ \A t \in Nat : \A v \in Nodes : AK[t][v] = 0
      /\ History(TL, TO, VH, AK)
  BY SMT DEF History
<1> HIDE DEF TL, TO, VH, AK
<1>8. Core(TermOf(disk), VoteOf(disk), LogOf(disk), CommitOf(disk), TL, TO, VH, AK)
  <2>0. \A L, t : L = <<>> => Backed(L, t, TL, TO)
    BY SMT DEF Backed
  <2>1. TermLogs(TL, TO)
    BY <1>7, <2>0 DEF TermLogs
  <2>2. NodeLogs(TermOf(disk), LogOf(disk), TL, TO)
    BY <1>6, <2>0 DEF NodeLogs
  <2>3. Elected(TermOf(disk), TO, VH)
    BY <1>7 DEF Elected
  <2>4. Ballots(TermOf(disk), VoteOf(disk), VH)
    BY <1>6, <1>7, SMT DEF Ballots
  <2>5. Acks(TermOf(disk), TL, AK)
    BY <1>6, <1>7, SMT DEF Acks
  <2>7. LeadersHold(TermOf(disk), TL, TO, AK)
    BY <1>7 DEF LeadersHold
  <2>8. NodesHold(TermOf(disk), LogOf(disk), TL, AK)
    BY <1>7, SMT DEF NodesHold, Pending
  <2>9. Commits(TermOf(disk), LogOf(disk), CommitOf(disk), TL, AK)
    BY <1>6, SMT DEF Commits, Settled
  <2> QED
    BY <2>1, <2>2, <2>3, <2>4, <2>5, <2>7, <2>8, <2>9 DEF Core
<1>9. Roles(disk, role, next, match, poll, TL, TO, VH, AK)
  BY <1>1, <1>3, <1>6, SMT DEF Roles, RoleOf, Polled
<1>10. Chains(TL)
  BY <1>7, SMT DEF Chains, Chained
<1>11. Now(TL, TO, VH, AK)
  BY <1>1, <1>4, <1>7, <1>8, <1>9, <1>10 DEF Now, Explains, Sound
<1>12. Explained
  BY <1>11 DEF Explained
<1>13. Top(disk) /\ Held(disk, acked)
  <2>1. PICK n \in Nodes : TRUE
    BY RaftAssumption, MembersAssumption DEF Nodes
  <2> QED
    BY <1>1, <1>2, SMT DEF Top, Held
<1> QED
  BY <1>5, <1>12, <1>13 DEF Inv
-----------------------------------------------------------------------------
(* Every step of the cluster keeps the invariant: the history that explained *)
(* it has one that explains it after the step.                               *)
LEMMA InvNext ==
    ASSUME Inv, Next
    PROVE  Inv'
<1>1. PICK TL, TO, VH, AK : Now(TL, TO, VH, AK)
  BY DEF Inv, Explained
<1>2. TypeOK /\ Top(disk) /\ Held(disk, acked)
  BY DEF Inv
<1>3. StepOf(TL, TO, VH, AK) /\ Keeps /\ Tells
  BY <1>1, <1>2, NextStep
<1>4. PICK TL2, TO2, VH2, AK2 : Later(TL, TO, VH, AK, TL2, TO2, VH2, AK2)
  BY <1>3 DEF StepOf
<1>5. Explained'
  BY <1>4 DEF Explained, Now, Later
<1>6. disk' \in [Nodes -> Disk]
  BY <1>4 DEF Later, Explains, Sound
<1>7. TypeOK'
  BY <1>3, <1>6 DEF Keeps, MemoryOK, TypeOK, BudgetType
<1>8. \A n \in Nodes : /\ disk[n].commit <= disk'[n].commit
                       /\ \A i \in 1..disk[n].commit : disk'[n].log[i] = disk[n].log[i]
  BY <1>1, <1>2, <1>3, CommitsStep
<1>9. \A n \in Nodes : disk[n].commit \in Nat /\ disk'[n].commit \in Nat
  BY <1>2, <1>6, DiskTypes DEF Disk
<1>10. Top(disk')
  <2>1. PICK n \in Nodes : Applies(n)
    BY <1>3 DEF Keeps
  <2>2. PICK p \in Nodes : \A m \in Nodes : disk[m].commit <= disk[p].commit
    BY <1>2 DEF Top
  <2>3. \A m \in Nodes \ {n} : disk'[m].commit = disk[m].commit
    BY <2>1 DEF Applies
  <2>4. CASE disk'[p].commit <= disk'[n].commit
    <3>1. \A m \in Nodes : disk'[m].commit <= disk'[n].commit
      <4> TAKE m \in Nodes
      <4>1. CASE m = n
        BY <1>9, <4>1, SMT
      <4>2. CASE m # n
        <5>1. disk'[m].commit = disk[m].commit /\ disk[m].commit <= disk[p].commit
          BY <2>2, <2>3, <4>2
        <5>2. disk[p].commit <= disk'[p].commit
          BY <1>8
        <5> QED
          BY <1>9, <2>4, <5>1, <5>2, SMT
      <4> QED
        BY <4>1, <4>2
    <3> QED
      BY <3>1 DEF Top
  <2>5. CASE ~(disk'[p].commit <= disk'[n].commit)
    <3>1. \A m \in Nodes : disk'[m].commit <= disk'[p].commit
      <4> TAKE m \in Nodes
      <4>1. CASE m = n
        BY <1>9, <2>5, <4>1, SMT
      <4>2. CASE m # n
        <5>1. disk'[m].commit = disk[m].commit /\ disk[m].commit <= disk[p].commit
          BY <2>2, <2>3, <4>2
        <5>2. disk[p].commit <= disk'[p].commit
          BY <1>8
        <5> QED
          BY <1>9, <5>1, <5>2, SMT
      <4> QED
        BY <4>1, <4>2
    <3> QED
      BY <3>1 DEF Top
  <2> QED
    BY <2>4, <2>5
<1>11. Held(disk', acked')
  <2>1. ASSUME NEW v \in acked'
        PROVE  \E n \in Nodes : \E i \in 1..disk'[n].commit : disk'[n].log[i].val = v
    <3>1. CASE v \in acked
      <4>1. PICK n \in Nodes : \E i \in 1..disk[n].commit : disk[n].log[i].val = v
        BY <1>2, <3>1 DEF Held
      <4>2. PICK i \in 1..disk[n].commit : disk[n].log[i].val = v
        BY <4>1
      <4>3. i \in 1..disk'[n].commit /\ disk'[n].log[i] = disk[n].log[i]
        BY <1>8, <1>9, SMT
      <4> QED
        BY <4>2, <4>3
    <3>2. CASE v \notin acked
      BY <1>3, <3>2 DEF Tells
    <3> QED
      BY <3>1, <3>2
  <2> QED
    BY <2>1 DEF Held
<1>12. Inv' = (TypeOK' /\ Explained' /\ Top(disk') /\ Held(disk', acked'))
  BY DEF Inv, Top, Held
<1> QED
  BY ONLY <1>5, <1>7, <1>10, <1>11, <1>12, Zenon

(* A step that changes nothing keeps the invariant. *)
LEMMA InvStutter ==
    ASSUME Inv, UNCHANGED vars
    PROVE  Inv'
<1>1. /\ up' = up /\ disk' = disk /\ role' = role /\ next' = next /\ match' = match
      /\ learners' = learners /\ poll' = poll /\ rpc' = rpc /\ acked' = acked /\ budget' = budget
  BY DEF vars, volatile
<1>2. TypeOK'
  BY <1>1 DEF Inv, TypeOK
<1>3. Explained'
  BY <1>1 DEF Inv, Explained, Now
<1>4. Top(disk') /\ Held(disk', acked')
  BY <1>1 DEF Inv
<1>5. Inv' = (TypeOK' /\ Explained' /\ Top(disk') /\ Held(disk', acked'))
  BY DEF Inv, Top, Held
<1> QED
  BY ONLY <1>2, <1>3, <1>4, <1>5, Zenon

(* The entries applied, as a function of the records. *)
CommittedOf(dk) ==
    LET n == CHOOSE n \in Nodes : \A m \in Nodes : dk[m].commit <= dk[n].commit
    IN SubSeq(dk[n].log, 1, dk[n].commit)

(* The committed log is the log of the node with the highest commit index,   *)
(* up to that index.                                                         *)
LEMMA CommittedFacts ==
    ASSUME NEW dk, NEW TL, NEW TO, NEW VH, NEW AK, Sound(dk, TL, TO, VH, AK), Top(dk)
    PROVE  \E n \in Nodes :
               /\ \A m \in Nodes : dk[m].commit <= dk[n].commit
               /\ CommittedOf(dk) \in Seq(Entry) /\ Len(CommittedOf(dk)) = dk[n].commit
               /\ dk[n].commit \in Nat /\ dk[n].commit <= Len(dk[n].log)
               /\ \A i \in 1..dk[n].commit : CommittedOf(dk)[i] = dk[n].log[i]
<1> DEFINE n == CHOOSE n \in Nodes : \A m \in Nodes : dk[m].commit <= dk[n].commit
<1>1. n \in Nodes /\ \A m \in Nodes : dk[m].commit <= dk[n].commit
  BY DEF Top
<1>2. CommittedOf(dk) = SubSeq(dk[n].log, 1, dk[n].commit)
  BY DEF CommittedOf
<1> HIDE DEF n
<1>3. dk[n].commit \in Nat /\ dk[n].log \in Seq(Entry) /\ Len(dk[n].log) \in Nat /\ dk[n].term \in Nat
  BY <1>1, SoundTypes
<1>4. dk[n].commit <= Len(dk[n].log)
  <2>1. Settled(dk[n].log, dk[n].commit, dk[n].term, TL, AK)
    BY <1>1, RecordsOf DEF Sound, Core, Commits
  <2> QED
    BY <2>1 DEF Settled
<1> DEFINE L == dk[n].log
<1> DEFINE c == dk[n].commit
<1>5. L \in Seq(Entry) /\ c \in Nat /\ c <= Len(L) /\ 1 <= c + 1
  BY <1>3, <1>4, SMT
<1> HIDE DEF L, c
<1>6. /\ SubSeq(L, 1, c) \in Seq(Entry) /\ Len(SubSeq(L, 1, c)) = c - 1 + 1
      /\ \A k \in 1..(c - 1 + 1) : SubSeq(L, 1, c)[k] = L[1 + k - 1]
  BY <1>5, SubSeqFacts, SMT
<1>7. /\ Len(SubSeq(L, 1, c)) = c
      /\ \A k \in 1..c : SubSeq(L, 1, c)[k] = L[k]
  BY <1>5, <1>6, SMT
<1>8. /\ CommittedOf(dk) \in Seq(Entry) /\ Len(CommittedOf(dk)) = dk[n].commit
      /\ \A i \in 1..dk[n].commit : CommittedOf(dk)[i] = dk[n].log[i]
  BY <1>2, <1>6, <1>7 DEF L, c
<1> QED
  BY ONLY <1>1, <1>3, <1>4, <1>8, Zenon
=============================================================================

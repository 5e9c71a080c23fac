---------------------------- MODULE RaftMessages ----------------------------
(***************************************************************************)
(* Elections, votes and append requests: each of these steps of the cluster *)
(* extends the history that explains its state.                            *)
(***************************************************************************)
EXTENDS Raft, RaftHistory

Explains(dk, rl, nx, mt, pl, ms, TL, TO, VH, AK) ==
    /\ Sound(dk, TL, TO, VH, AK)
    /\ Roles(dk, rl, nx, mt, pl, TL, TO, VH, AK)
    /\ \A m \in ms : Sent(m, TL, TO, AK)
    /\ Chains(TL)

TypeOK ==
    /\ up \in [Nodes -> BOOLEAN]
    /\ disk \in [Nodes -> Disk]
    /\ role \in [Nodes -> {"Leader", "Candidate", "Follower"}]
    /\ next \in [Nodes -> [Nodes -> Nat]]
    /\ match \in [Nodes -> [Nodes -> Nat]]
    /\ learners \in [Nodes -> SUBSET Learners]
    /\ poll \in [Nodes -> Ballot]
    /\ rpc \in SUBSET Request
    /\ acked \in SUBSET Values
    /\ budget \in [elections : Nat, sends : Nat, calls : Nat, stray : Nat, values : SUBSET Values,
                   faults : Nat, joins : Nat]

USE Zenon

Now(TL, TO, VH, AK) == Explains(disk, role, next, match, poll, rpc, TL, TO, VH, AK)

Later(TL, TO, VH, AK, TL2, TO2, VH2, AK2) ==
    /\ Explains(disk', role', next', match', poll', rpc', TL2, TO2, VH2, AK2)
    /\ Succeeds(disk, TL, TO, VH, AK, disk', TL2, TO2, VH2, AK2)

StepOf(TL, TO, VH, AK) == \E TL2, TO2, VH2, AK2 : Later(TL, TO, VH, AK, TL2, TO2, VH2, AK2)

(* Roles and progress after a step that makes leaders, candidates and        *)
(* followers of some nodes.                                                  *)
LEMMA BecomeFacts ==
    ASSUME TypeOK, NEW lead, NEW stand, NEW follow, Become(lead, stand, follow)
    PROVE  /\ role' \in [Nodes -> {"Leader", "Candidate", "Follower"}]
           /\ next' \in [Nodes -> [Nodes -> Nat]]
           /\ match' \in [Nodes -> [Nodes -> Nat]]
           /\ \A n \in Nodes :
                /\ n \in lead => /\ role'[n] = "Leader"
                                 /\ \A p \in Nodes : next'[n][p] = Len(disk[n].log) + 1 /\ match'[n][p] = 0
                /\ n \notin lead /\ n \in stand => role'[n] = "Candidate"
                /\ n \notin lead /\ n \notin stand /\ n \in follow => role'[n] = "Follower"
                /\ n \notin lead /\ n \notin stand /\ n \notin follow =>
                     role'[n] = role[n] /\ next'[n] = next[n] /\ match'[n] = match[n]
<1>1. \A n \in Nodes : Len(disk[n].log) \in Nat
  BY SMT DEF TypeOK, Disk
<1>2. role' \in [Nodes -> {"Leader", "Candidate", "Follower"}]
  BY DEF Become, TypeOK
<1>3. next' \in [Nodes -> [Nodes -> Nat]]
  <2>1. \A n \in Nodes : /\ [p \in Nodes |-> Len(disk[n].log) + 1] \in [Nodes -> Nat]
                         /\ [p \in Nodes |-> 1] \in [Nodes -> Nat]
                         /\ next[n] \in [Nodes -> Nat]
    <3> TAKE n \in Nodes
    <3>1. Len(disk[n].log) + 1 \in Nat /\ 1 \in Nat
      BY ONLY <1>1, n \in Nodes, SMT
    <3>2. next[n] \in [Nodes -> Nat]
      BY DEF TypeOK
    <3> QED
      BY <3>1, <3>2
  <2> QED
    BY <2>1 DEF Become
<1>4. match' \in [Nodes -> [Nodes -> Nat]]
  <2>1. \A n \in Nodes : [p \in Nodes |-> 0] \in [Nodes -> Nat] /\ match[n] \in [Nodes -> Nat]
    BY DEF TypeOK
  <2> QED
    BY <2>1 DEF Become
<1>5. ASSUME NEW n \in Nodes, n \in lead
      PROVE  /\ role'[n] = "Leader"
             /\ \A p \in Nodes : next'[n][p] = Len(disk[n].log) + 1 /\ match'[n][p] = 0
  BY <1>5 DEF Become
<1>6. ASSUME NEW n \in Nodes, n \notin lead
      PROVE  /\ n \in stand => role'[n] = "Candidate"
             /\ n \notin stand /\ n \in follow => role'[n] = "Follower"
             /\ n \notin stand /\ n \notin follow =>
                    role'[n] = role[n] /\ next'[n] = next[n] /\ match'[n] = match[n]
  BY <1>6 DEF Become
<1> QED
  BY <1>2, <1>3, <1>4, <1>5, <1>6

(* No node asks for more votes, and n may forget those that it has. *)
Recalls(n) ==
    /\ poll' \in [Nodes -> Ballot]
    /\ \A m \in Nodes \ {n} : poll'[m] = poll[m]
    /\ poll'[n].term = poll[n].term
    /\ poll'[n].open \subseteq poll[n].open
    /\ poll'[n].votes \subseteq poll[n].votes

(* A node stops or steps down, whatever it left in its record. *)
LEMMA FollowerStep ==
    ASSUME TypeOK, NEW TL, NEW TO, NEW VH, NEW AK, Now(TL, TO, VH, AK),
           NEW TL2, NEW VH2, NEW AK2, Sound(disk', TL2, TO, VH2, AK2), Chains(TL2),
           Succeeds(disk, TL, TO, VH, AK, disk', TL2, TO, VH2, AK2),
           NEW n \in Nodes, Local(n, disk, TL, TO, AK, disk', TL2, AK2),
           Become({}, {}, {n}),
           Recalls(n), rpc' \in SUBSET rpc
    PROVE  Later(TL, TO, VH, AK, TL2, TO, VH2, AK2)
<1>1. /\ Sound(disk, TL, TO, VH, AK) /\ Roles(disk, role, next, match, poll, TL, TO, VH, AK)
      /\ \A m \in rpc : Sent(m, TL, TO, AK)
  BY DEF Now, Explains
<1>2. match \in [Nodes -> [Nodes -> Nat]] /\ poll \in [Nodes -> Ballot] /\ rpc \in SUBSET Request
  BY DEF TypeOK
<1>3. \A m \in Nodes \ {n} :
          RoleOf(m, role[m], next[m], match[m], poll[m], TermOf(disk'), LogOf(disk'), TL2, TO, VH2, AK2)
  <2>1. /\ Sound(disk', TL2, TO, VH2, AK2)
        /\ Succeeds(disk, TL, TO, VH, AK, disk', TL2, TO, VH2, AK2)
        /\ Local(n, disk, TL, TO, AK, disk', TL2, AK2)
    OBVIOUS
  <2> QED
    BY ONLY <1>1, <1>2, <2>1, OthersUndisturbed, Zenon
<1>4. /\ role'[n] = "Follower"
      /\ \A m \in Nodes \ {n} : role'[m] = role[m] /\ next'[m] = next[m] /\ match'[m] = match[m]
  BY DEF Become
<1>5. RoleOf(n, role'[n], next'[n], match'[n], poll'[n], TermOf(disk'), LogOf(disk'), TL2, TO, VH2, AK2)
  <2>1. Polled(n, poll[n], TermOf(disk), VH)
    BY <1>1 DEF Roles, RoleOf
  <2>2. poll[n] \in Ballot /\ poll'[n] \in Ballot
    BY <1>2 DEF Recalls
  <2>3. /\ Sound(disk', TL2, TO, VH2, AK2) /\ n \in Nodes
        /\ Succeeds(disk, TL, TO, VH, AK, disk', TL2, TO, VH2, AK2)
        /\ poll'[n].term = poll[n].term /\ poll'[n].open \subseteq poll[n].open
        /\ poll'[n].votes \subseteq poll[n].votes
    BY DEF Recalls
  <2>4. Polled(n, poll'[n], TermOf(disk'), VH2)
    BY ONLY <1>1, <2>1, <2>2, <2>3, Resigned, Zenon
  <2> QED
    BY <1>4, <2>4 DEF RoleOf
<1>6. Roles(disk', role', next', match', poll', TL2, TO, VH2, AK2)
  BY <1>3, <1>4, <1>5 DEF Roles, Recalls
<1>7. \A m \in rpc' : Sent(m, TL2, TO, AK2)
  <2>1. /\ Sound(disk', TL2, TO, VH2, AK2)
        /\ Succeeds(disk, TL, TO, VH, AK, disk', TL2, TO, VH2, AK2)
    OBVIOUS
  <2>2. TAKE m \in rpc'
  <2>3. m \in Request /\ Sent(m, TL, TO, AK)
    BY <1>1, <1>2
  <2> QED
    BY ONLY <1>1, <2>1, <2>3, RequestsKept, Zenon
<1> QED
  BY <1>6, <1>7 DEF Later, Explains

(* A node's record changes in its term and vote, or in its commit index,   *)
(* and the node follows.                                                   *)
LEMMA MetaDown ==
    ASSUME TypeOK, NEW TL, NEW TO, NEW VH, NEW AK, Now(TL, TO, VH, AK),
           NEW n \in Nodes, NEW d \in Disk, Rewrites(n, d, disk, disk'), d.log = disk[n].log,
           d.commit = disk[n].commit \/ Settled(d.log, d.commit, d.term, TL, AK),
           Become({}, {}, {n}), Recalls(n), rpc' \in SUBSET rpc
    PROVE  StepOf(TL, TO, VH, AK)
<1>1. Sound(disk, TL, TO, VH, AK) /\ Chains(TL)
  BY DEF Now, Explains
<1>2. PICK VH2 : /\ Sound(disk', TL, TO, VH2, AK)
                 /\ Succeeds(disk, TL, TO, VH, AK, disk', TL, TO, VH2, AK)
  BY <1>1, MetaStep
<1>3. Local(n, disk, TL, TO, AK, disk', TL, AK)
  BY DEF Local, Rewrites, TypeOK
<1>4. Later(TL, TO, VH, AK, TL, TO, VH2, AK)
  BY <1>1, <1>2, <1>3, FollowerStep
<1> QED
  BY <1>4 DEF StepOf

(* The types of a node's record. *)
LEMMA DiskTypes ==
    ASSUME TypeOK, NEW n \in Nodes
    PROVE  /\ disk[n] \in Disk
           /\ disk[n].term \in Nat /\ disk[n].vote \in Voters \cup {None}
           /\ disk[n].log \in Seq(Entry) /\ Len(disk[n].log) \in Nat /\ disk[n].commit \in Nat
  BY SMT DEF TypeOK, Disk

(* The types of a node's ballot. *)
LEMMA PollTypes ==
    ASSUME TypeOK, NEW n \in Nodes
    PROVE  /\ poll[n] \in Ballot
           /\ poll[n].term \in Nat /\ poll[n].index \in Nat /\ poll[n].last \in Nat
           /\ poll[n].open \in SUBSET Voters /\ poll[n].votes \in SUBSET Voters
  BY DEF TypeOK, Ballot

(* The types of an append request on its way. *)
LEMMA RequestTypes ==
    ASSUME TypeOK, NEW m \in rpc
    PROVE  /\ m \in Request /\ m.from \in Nodes /\ m.to \in Nodes /\ m.term \in Nat /\ m.prev \in Nat
           /\ m.prevTerm \in Nat /\ m.entries \in Seq(Entry) /\ Len(m.entries) \in Nat
           /\ m.commit \in Nat /\ m.learners \in SUBSET Learners /\ m.awaited \in BOOLEAN
<1>1. m \in Request
  BY DEF TypeOK
<1>2. /\ m.from \in Nodes /\ m.to \in Nodes /\ m.term \in Nat /\ m.prev \in Nat /\ m.prevTerm \in Nat
      /\ m.entries \in Seq(Entry) /\ m.commit \in Nat /\ m.learners \in SUBSET Learners
      /\ m.awaited \in BOOLEAN
  BY <1>1 DEF Request
<1>3. Len(m.entries) \in Nat
  BY <1>2, SMT
<1> QED
  BY <1>1, <1>2, <1>3

(* A node that hears of a later term steps down. *)
LEMMA StepsDownStep ==
    ASSUME TypeOK, NEW TL, NEW TO, NEW VH, NEW AK, Now(TL, TO, VH, AK),
           NEW n \in Nodes, NEW t \in Nat, StepsDown(n, t), poll' = poll, rpc' \in SUBSET rpc
    PROVE  StepOf(TL, TO, VH, AK)
<1> DEFINE d == Adopts(disk[n], t)
<1>1. d \in Disk /\ d.log = disk[n].log /\ d.commit = disk[n].commit
  BY AdoptsFacts, DiskTypes
<1>2. Rewrites(n, d, disk, disk')
  <2>1. disk' = [disk EXCEPT ![n] = d]
    BY DEF StepsDown, Stored
  <2>2. disk[n].term <= d.term /\ (disk[n].term = d.term => d.vote = disk[n].vote)
    BY AdoptsFacts, DiskTypes
  <2> HIDE DEF d
  <2> QED
    BY <2>1, <2>2 DEF Rewrites
<1>3. Become({}, {}, {n})
  BY DEF StepsDown
<1>4. Recalls(n)
  BY DEF Recalls, TypeOK
<1> HIDE DEF d
<1> QED
  BY <1>1, <1>2, <1>3, <1>4, MetaDown
-----------------------------------------------------------------------------
(* The whole step, from a Roles fact of the next state. *)
LEMMA LaterFrom ==
    ASSUME TypeOK, NEW TL, NEW TO, NEW VH, NEW AK, Now(TL, TO, VH, AK),
           NEW TL2, NEW TO2, NEW VH2, NEW AK2, Sound(disk', TL2, TO2, VH2, AK2), Chains(TL2),
           Succeeds(disk, TL, TO, VH, AK, disk', TL2, TO2, VH2, AK2),
           Roles(disk', role', next', match', poll', TL2, TO2, VH2, AK2),
           rpc' \in SUBSET rpc
    PROVE  StepOf(TL, TO, VH, AK)
<1>1. /\ Sound(disk, TL, TO, VH, AK) /\ Sound(disk', TL2, TO2, VH2, AK2)
      /\ Succeeds(disk, TL, TO, VH, AK, disk', TL2, TO2, VH2, AK2)
      /\ \A m \in rpc : Sent(m, TL, TO, AK)
  BY DEF Now, Explains
<1>2. \A m \in rpc' : Sent(m, TL2, TO2, AK2)
  <2>1. TAKE m \in rpc'
  <2>2. m \in Request /\ Sent(m, TL, TO, AK)
    BY <1>1 DEF TypeOK
  <2> QED
    BY ONLY <1>1, <2>2, RequestsKept, Zenon
<1>3. Later(TL, TO, VH, AK, TL2, TO2, VH2, AK2)
  BY <1>2 DEF Later, Explains
<1> QED
  BY <1>3 DEF StepOf

(* The record of a node that starts an election: one term on, voting for     *)
(* itself.                                                                   *)
LEMMA CampaignFacts ==
    ASSUME TypeOK, NEW n \in Nodes, n \in Voters
    PROVE  /\ Campaign(n) \in Disk /\ Campaign(n).term = disk[n].term + 1 /\ Campaign(n).vote = n
           /\ Campaign(n).log = disk[n].log /\ Campaign(n).commit = disk[n].commit
<1>1. disk[n] \in Disk /\ disk[n].term + 1 \in Nat /\ n \in Voters \cup {None}
  BY DiskTypes, SMT
<1>2. Campaign(n) = Stamp(disk[n], disk[n].term + 1, n)
  BY DEF Campaign, Stamp
<1> QED
  BY ONLY <1>1, <1>2, StampFields, SMTT(30)

(* start_election extends the history: the candidate's vote is noted, and a  *)
(* voter alone in its cluster leads at once.                                 *)
LEMMA StartElectionStep ==
    ASSUME TypeOK, NEW TL, NEW TO, NEW VH, NEW AK, Now(TL, TO, VH, AK),
           NEW n \in Nodes, StartElection(n)
    PROVE  StepOf(TL, TO, VH, AK)
<1> DEFINE d == Campaign(n)
<1>1. Sound(disk, TL, TO, VH, AK) /\ Chains(TL) /\ Roles(disk, role, next, match, poll, TL, TO, VH, AK)
  BY DEF Now, Explains
<1>2. n \in Voters
  BY DEF StartElection, MayCampaign
<1>3. /\ d \in Disk /\ d.term = disk[n].term + 1 /\ d.vote = n /\ d.log = disk[n].log
      /\ d.commit = disk[n].commit
  BY <1>2, CampaignFacts
<1>4. disk' = [disk EXCEPT ![n] = d]
  BY DEF StartElection
<1> HIDE DEF d
<1>5. Rewrites(n, d, disk, disk')
  BY <1>3, <1>4, DiskTypes, SMT DEF Rewrites
<1>6. PICK VH2 : /\ Sound(disk', TL, TO, VH2, AK)
                 /\ Succeeds(disk, TL, TO, VH, AK, disk', TL, TO, VH2, AK)
                 /\ VH2[d.term][n] = n
  BY <1>1, <1>3, <1>5, MetaStep, SMT
<1>7. disk'[n] = d /\ \A m \in Nodes \ {n} : disk'[m] = disk[m]
  BY <1>4 DEF TypeOK
<1>8. match \in [Nodes -> [Nodes -> Nat]] /\ poll \in [Nodes -> Ballot]
  BY DEF TypeOK
<1>9. \A m \in Nodes \ {n} :
          RoleOf(m, role[m], next[m], match[m], poll[m], TermOf(disk'), LogOf(disk'), TL, TO, VH2, AK)
  <2>1. Local(n, disk, TL, TO, AK, disk', TL, AK)
    BY <1>7 DEF Local
  <2> QED
    BY ONLY <1>1, <1>6, <1>8, <2>1, OthersUndisturbed, Zenon
<1>10. /\ poll' \in [Nodes -> Ballot]
       /\ \A m \in Nodes \ {n} : poll'[m] = poll[m]
       /\ poll'[n].term = d.term /\ poll'[n].index = Len(disk[n].log)
       /\ poll'[n].last = LastTerm(disk[n].log) /\ poll'[n].votes = {n}
  <2> DEFINE p == [term |-> disk[n].term + 1, index |-> Len(disk[n].log),
                   last |-> LastTerm(disk[n].log), open |-> Voters \ {n}, votes |-> {n}]
  <2>1. LastTerm(disk[n].log) \in Nat
    <3>1. CASE Len(disk[n].log) = 0
      BY <3>1, DiskTypes, LastTermOf
    <3>2. CASE Len(disk[n].log) # 0
      <4>1. disk[n].log[Len(disk[n].log)] \in Entry
        BY <3>2, DiskTypes, SMT
      <4> QED
        BY <3>2, <4>1, DiskTypes, LastTermOf DEF Entry, Term
    <3> QED
      BY <3>1, <3>2
  <2>2. p \in Ballot
    BY <1>2, <2>1, DiskTypes, SMT DEF Ballot
  <2>3. poll' = [poll EXCEPT ![n] = p]
    BY DEF StartElection
  <2>4. p.term = d.term /\ p.index = Len(disk[n].log) /\ p.last = LastTerm(disk[n].log) /\ p.votes = {n}
    BY <1>3
  <2> HIDE DEF p
  <2>5. poll'[n] = p /\ poll' \in [Nodes -> Ballot] /\ \A m \in Nodes \ {n} : poll'[m] = poll[m]
    BY <1>8, <2>2, <2>3
  <2> QED
    BY <2>4, <2>5
<1>11. ASSUME NEW nx, NEW mt
       PROVE  RoleOf(n, "Candidate", nx, mt, poll'[n], TermOf(disk'), LogOf(disk'), TL, TO, VH2, AK)
  <2>1. /\ poll'[n] \in Ballot /\ poll'[n].term = disk'[n].term
        /\ poll'[n].index = Len(disk[n].log) /\ poll'[n].last = LastTerm(disk[n].log)
        /\ poll'[n].votes = {n}
    BY <1>7, <1>10
  <2>2. /\ disk'[n].term = disk[n].term + 1 /\ disk'[n].log = disk[n].log
        /\ VH2[disk'[n].term][n] = n
    BY <1>3, <1>6, <1>7
  <2> QED
    BY ONLY <1>1, <1>2, <1>6, <2>1, <2>2, Campaigned, Zenon
<1>12. rpc' \in SUBSET rpc
  BY DEF StartElection
<1>13. CASE ~Majority({n})
  <2>1. /\ role'[n] = "Candidate"
        /\ \A m \in Nodes \ {n} : role'[m] = role[m] /\ next'[m] = next[m] /\ match'[m] = match[m]
    BY <1>13 DEF StartElection, Become
  <2>2. Roles(disk', role', next', match', poll', TL, TO, VH2, AK)
    BY <1>9, <1>10, <1>11, <2>1 DEF Roles
  <2> QED
    BY <1>1, <1>6, <1>12, <2>2, LaterFrom
<1>14. CASE Majority({n})
  <2> DEFINE rl == [role EXCEPT ![n] = "Candidate"]
  <2>1. Become({n}, {}, {})
    BY <1>14 DEF StartElection
  <2>2. /\ role'[n] = "Leader"
        /\ \A q \in Nodes : next'[n][q] = Len(disk[n].log) + 1 /\ match'[n][q] = 0
        /\ \A m \in Nodes \ {n} : role'[m] = role[m] /\ next'[m] = next[m] /\ match'[m] = match[m]
    BY <2>1 DEF Become
  <2>3. rl[n] = "Candidate" /\ \A m \in Nodes \ {n} : rl[m] = role[m]
    BY DEF TypeOK
  <2> HIDE DEF rl
  <2>4. Roles(disk', rl, next, match, poll', TL, TO, VH2, AK)
    BY <1>9, <1>10, <1>11, <2>3 DEF Roles
  <2>5. Crowns(n, disk'[n].log, rl, next, match, poll', role', next', match', poll')
    BY <1>3, <1>7, <2>2, <2>3, SMT DEF Crowns
  <2>6. Majority(poll'[n].votes)
    BY <1>10, <1>14
  <2>7. poll' \in [Nodes -> Ballot] /\ n \in Nodes
    BY <1>10
  <2>8. PICK TL2, TO2, AK2 :
            /\ Sound(disk', TL2, TO2, VH2, AK2) /\ Chains(TL2)
            /\ Succeeds(disk', TL, TO, VH2, AK, disk', TL2, TO2, VH2, AK2)
            /\ Roles(disk', role', next', match', poll', TL2, TO2, VH2, AK2)
    BY ONLY <1>1, <1>6, <1>8, <2>4, <2>5, <2>6, <2>7, CrownStep, Zenon
  <2>9. Succeeds(disk, TL, TO, VH, AK, disk', TL2, TO2, VH2, AK2)
    BY ONLY <1>1, <1>6, <2>8, SucceedsTrans, Zenon
  <2> QED
    BY <1>12, <2>8, <2>9, LaterFrom
<1> QED
  BY <1>13, <1>14
-----------------------------------------------------------------------------
(* What a vote request makes of a node. *)
LEMMA VotedFacts ==
    ASSUME TypeOK, NEW v \in Nodes, NEW c \in Nodes, c \in Voters, disk[v].term <= poll[c].term
    PROVE  /\ Voted(v, c) \in Disk /\ Voted(v, c).term = poll[c].term
           /\ Voted(v, c).log = disk[v].log /\ Voted(v, c).commit = disk[v].commit
           /\ Grants(disk[v], c, poll[c]) => Voted(v, c).vote = c /\ LogOk(disk[v], poll[c])
           /\ disk[v].term = Voted(v, c).term => disk[v].vote \in {None, Voted(v, c).vote}
<1> DEFINE a == Adopts(disk[v], poll[c].term)
<1>1. disk[v] \in Disk /\ poll[c].term \in Nat /\ disk[v].term \in Nat
  BY DiskTypes, PollTypes
<1>2. /\ a \in Disk /\ a.log = disk[v].log /\ a.commit = disk[v].commit /\ a.term = poll[c].term
      /\ a.term = disk[v].term => a.vote = disk[v].vote
  BY <1>1, AdoptsFacts
<1> HIDE DEF a
<1>3. CASE Grants(disk[v], c, poll[c])
  <2>1. Voted(v, c) = Vote(a, c)
    BY <1>3 DEF Voted, Vote, a
  <2>2. a.vote \in {None, c} /\ LogOk(a, poll[c])
    BY <1>3 DEF Grants, a
  <2>3. c \in Voters \cup {None}
    OBVIOUS
  <2>4. /\ Vote(a, c) \in Disk /\ Vote(a, c).term = a.term /\ Vote(a, c).vote = c
        /\ Vote(a, c).log = a.log /\ Vote(a, c).commit = a.commit
    BY ONLY <1>2, <2>3, VoteFields, Zenon
  <2>5. LogOk(disk[v], poll[c])
    BY <1>2, <2>2 DEF LogOk
  <2> QED
    BY <1>2, <2>1, <2>2, <2>4, <2>5
<1>4. CASE ~Grants(disk[v], c, poll[c])
  <2>1. Voted(v, c) = a
    BY <1>4 DEF Voted, a
  <2> QED
    BY <1>2, <1>4, <2>1
<1> QED
  BY <1>3, <1>4

(* handle_request_vote extends the history, whether the answer is heard or   *)
(* lost: a vote is given only to a log that holds all the voter may have     *)
(* helped to commit.                                                         *)
LEMMA HandleRequestVoteStep ==
    ASSUME TypeOK, NEW TL, NEW TO, NEW VH, NEW AK, Now(TL, TO, VH, AK),
           NEW v \in Nodes, NEW c \in Nodes, v # c, NEW heard \in BOOLEAN, HandleRequestVote(v, c, heard)
    PROVE  StepOf(TL, TO, VH, AK)
<1> DEFINE d == Voted(v, c)
<1> DEFINE g == heard /\ Grants(disk[v], c, poll[c])
<1> DEFINE votes == poll[c].votes \cup IF g THEN {v} ELSE {}
<1> DEFINE wins == role[c] = "Candidate" /\ disk[c].term = poll[c].term /\ up[c] /\ Majority(votes)
<1> DEFINE rises == poll[c].term > disk[v].term
<1>1. /\ Sound(disk, TL, TO, VH, AK) /\ Chains(TL) /\ Roles(disk, role, next, match, poll, TL, TO, VH, AK)
  BY DEF Now, Explains
<1>2. /\ v \in poll[c].open /\ disk[v].term <= poll[c].term
      /\ disk' = [disk EXCEPT ![v] = d] /\ rpc' = rpc
      /\ poll' = [poll EXCEPT ![c].votes = IF wins THEN {} ELSE votes,
                              ![c].open = IF wins /\ budget.stray = 0 THEN {} ELSE @ \ {v}]
      /\ Become(IF wins THEN {c} ELSE {}, {}, IF rises THEN {v} ELSE {})
  BY DEF HandleRequestVote, Asked, Stored
<1>3. v \in Voters /\ c \in Voters
  <2>1. RoleOf(c, role[c], next[c], match[c], poll[c], TermOf(disk), LogOf(disk), TL, TO, VH, AK)
    BY <1>1 DEF Roles
  <2>2. v \in Voters
    BY <1>2, PollTypes
  <2> QED
    BY <1>2, <2>1, <2>2 DEF RoleOf, Polled
<1>4. /\ d \in Disk /\ d.term = poll[c].term /\ d.log = disk[v].log /\ d.commit = disk[v].commit
      /\ g => d.vote = c /\ LogOk(disk[v], poll[c])
      /\ disk[v].term = d.term => disk[v].vote \in {None, d.vote}
  BY <1>2, <1>3, VotedFacts
<1> HIDE DEF d, g
<1>5. Rewrites(v, d, disk, disk')
  BY <1>2, <1>4 DEF Rewrites
<1>6. PICK VH2 : /\ Sound(disk', TL, TO, VH2, AK)
                 /\ Succeeds(disk, TL, TO, VH, AK, disk', TL, TO, VH2, AK)
                 /\ VH2[d.term][v] = d.vote
  BY <1>1, <1>4, <1>5, MetaStep, SMT
<1>7. disk'[v] = d /\ \A m \in Nodes \ {v} : disk'[m] = disk[m]
  BY <1>2 DEF TypeOK
<1>8. match \in [Nodes -> [Nodes -> Nat]] /\ poll \in [Nodes -> Ballot] /\ next \in [Nodes -> [Nodes -> Nat]]
  BY DEF TypeOK
<1>9. \A m \in Nodes \ {v} :
          RoleOf(m, role[m], next[m], match[m], poll[m], TermOf(disk'), LogOf(disk'), TL, TO, VH2, AK)
  <2>1. Local(v, disk, TL, TO, AK, disk', TL, AK)
    BY <1>7 DEF Local
  <2> QED
    BY ONLY <1>1, <1>6, <1>8, <2>1, OthersUndisturbed, Zenon
<1>10. votes \in SUBSET Voters
  BY <1>3, PollTypes
<1> HIDE DEF votes
(* The ballots before an election is decided. *)
<1> DEFINE p1 == [term |-> poll[c].term, index |-> poll[c].index, last |-> poll[c].last,
                  open |-> poll[c].open \ {v}, votes |-> votes]
<1>11. p1 \in Ballot
  BY <1>10, PollTypes DEF Ballot
<1>12. /\ p1.term = poll[c].term /\ p1.index = poll[c].index /\ p1.last = poll[c].last
       /\ p1.open = poll[c].open \ {v} /\ p1.votes = votes
  OBVIOUS
<1> HIDE DEF p1
<1>13. RoleOf(c, role[c], next[c], match[c], p1, TermOf(disk'), LogOf(disk'), TL, TO, VH2, AK)
  <2>1. CASE g
    <3>1. p1.votes = poll[c].votes \cup {v}
      BY <1>12, <2>1 DEF votes
    <3>2. /\ disk'[c].term = disk[c].term /\ disk'[c].log = disk[c].log
      BY <1>7
    <3>3. LogOk(disk[v], poll[c]) /\ VH2[poll[c].term][v] = c /\ v \in poll[c].open
      BY <1>2, <1>4, <1>6, <2>1
    <3>4. /\ RoleOf(c, role[c], next[c], match[c], poll[c], TermOf(disk), LogOf(disk), TL, TO, VH, AK)
          /\ match[c] \in [Nodes -> Nat] /\ poll[c] \in Ballot /\ c \in Nodes
      BY <1>1, <1>8 DEF Roles
    <3>5. Counts(p1, poll[c], v)
      BY <1>12, <3>1 DEF Counts
    <3> QED
      BY ONLY <1>1, <1>3, <1>6, <1>11, <3>2, <3>3, <3>4, <3>5, VoteCounts, Zenon
  <2>2. CASE ~g
    <3>1. p1.votes = poll[c].votes
      BY <1>12, <2>2 DEF votes
    <3>2. RoleOf(c, role[c], next[c], match[c], poll[c], TermOf(disk'), LogOf(disk'), TL, TO, VH2, AK)
      BY <1>9
    <3> QED
      BY <1>2, <1>12, <3>1, <3>2 DEF RoleOf, Polled, Current
  <2> QED
    BY <2>1, <2>2
<1>14. /\ rises => RoleOf(v, "Follower", next'[v], match'[v], poll[v], TermOf(disk'), LogOf(disk'), TL, TO, VH2, AK)
       /\ ~rises => RoleOf(v, role[v], next[v], match[v], poll[v], TermOf(disk'), LogOf(disk'), TL, TO, VH2, AK)
  <2>1. /\ RoleOf(v, role[v], next[v], match[v], poll[v], TermOf(disk), LogOf(disk), TL, TO, VH, AK)
        /\ match[v] \in [Nodes -> Nat] /\ poll[v] \in Ballot /\ v \in Nodes
    BY <1>1, <1>8 DEF Roles
  <2>2. RoleOf(v, "Follower", next'[v], match'[v], poll[v], TermOf(disk'), LogOf(disk'), TL, TO, VH2, AK)
    <3>1. /\ poll[v].open \subseteq poll[v].open /\ poll[v].votes \subseteq poll[v].votes
          /\ Polled(v, poll[v], TermOf(disk), VH)
      BY <2>1 DEF RoleOf
    <3>2. Polled(v, poll[v], TermOf(disk'), VH2)
      BY ONLY <1>1, <1>6, <2>1, <3>1, Resigned, Zenon
    <3> QED
      BY <3>2 DEF RoleOf
  <2>3. ASSUME ~rises
        PROVE  RoleOf(v, role[v], next[v], match[v], poll[v], TermOf(disk'), LogOf(disk'), TL, TO, VH2, AK)
    <3>1. disk'[v].term = disk[v].term /\ disk'[v].log = disk[v].log
      BY <1>2, <1>4, <1>7, <2>3, DiskTypes, PollTypes, SMT
    <3>2. role[v] = "Candidate" => TO[disk[v].term] # v
      <4>1. TermOf(disk)[v] = disk[v].term
        BY <1>1, RecordsOf DEF Sound
      <4> QED
        BY <2>1, <4>1 DEF RoleOf, Standing
    <3> QED
      BY ONLY <1>1, <1>6, <2>1, <3>1, <3>2, Undisturbed, Zenon
  <2> QED
    BY <2>2, <2>3
<1> DEFINE rl == [m \in Nodes |-> IF m = v /\ rises THEN "Follower" ELSE role[m]]
<1> DEFINE nx == [m \in Nodes |-> IF m = v /\ rises THEN next'[v] ELSE next[m]]
<1> DEFINE mt == [m \in Nodes |-> IF m = v /\ rises THEN match'[v] ELSE match[m]]
<1> DEFINE pl == [m \in Nodes |-> IF m = c THEN p1 ELSE poll[m]]
<1>15. Roles(disk', rl, nx, mt, pl, TL, TO, VH2, AK)
  <2> SUFFICES ASSUME NEW m \in Nodes
               PROVE  RoleOf(m, rl[m], nx[m], mt[m], pl[m], TermOf(disk'), LogOf(disk'), TL, TO, VH2, AK)
    BY DEF Roles
  <2> HIDE DEF rises
  <2>1. CASE m = c
    <3>1. rl[m] = role[c] /\ nx[m] = next[c] /\ mt[m] = match[c] /\ pl[m] = p1
      BY <2>1
    <3> QED
      BY <1>13, <2>1, <3>1
  <2>2. CASE m = v
    <3>1. pl[m] = poll[v]
      BY <2>2
    <3>2. CASE rises
      <4>1. rl[m] = "Follower" /\ nx[m] = next'[v] /\ mt[m] = match'[v]
        BY <2>2, <3>2
      <4> QED
        BY <1>14, <2>2, <3>1, <3>2, <4>1
    <3>3. CASE ~rises
      <4>1. rl[m] = role[v] /\ nx[m] = next[v] /\ mt[m] = match[v]
        BY <2>2, <3>3
      <4> QED
        BY <1>14, <2>2, <3>1, <3>3, <4>1
    <3> QED
      BY <3>2, <3>3
  <2>3. CASE m # c /\ m # v
    <3>1. rl[m] = role[m] /\ nx[m] = next[m] /\ mt[m] = match[m] /\ pl[m] = poll[m]
      BY <2>3
    <3> QED
      BY <1>9, <2>3, <3>1
  <2> QED
    BY <2>1, <2>2, <2>3
<1>16. /\ \A m \in Nodes \ {c} : poll'[m] = poll[m]
       /\ poll'[c].term = poll[c].term /\ poll'[c].index = poll[c].index /\ poll'[c].last = poll[c].last
       /\ poll'[c].votes = (IF wins THEN {} ELSE votes)
       /\ poll'[c].open = (IF wins /\ budget.stray = 0 THEN {} ELSE poll[c].open \ {v})
       /\ poll'[c] \in Ballot
  <2> HIDE DEF wins
  <2>1. poll[c] \in Ballot
    BY PollTypes
  <2>2. poll'[c] = [poll[c] EXCEPT !.votes = IF wins THEN {} ELSE votes,
                                   !.open = IF wins /\ budget.stray = 0 THEN {} ELSE @ \ {v}]
    BY <1>2, <1>8
  <2>3. \A m \in Nodes \ {c} : poll'[m] = poll[m]
    BY <1>2, <1>8
  <2>4. /\ poll'[c].term = poll[c].term /\ poll'[c].index = poll[c].index /\ poll'[c].last = poll[c].last
        /\ poll'[c].votes = (IF wins THEN {} ELSE votes)
        /\ poll'[c].open = (IF wins /\ budget.stray = 0 THEN {} ELSE poll[c].open \ {v})
    BY <2>1, <2>2 DEF Ballot
  <2>5. poll'[c] \in Ballot
    BY <1>10, <2>1, <2>2 DEF Ballot
  <2> QED
    BY <2>3, <2>4, <2>5
<1>17. rpc' \in SUBSET rpc
  BY <1>2
<1>18. CASE ~wins
  <2>1. Become({}, {}, IF rises THEN {v} ELSE {})
    BY <1>2, <1>18
  <2>2. \A m \in Nodes : role'[m] = rl[m] /\ next'[m] = nx[m] /\ match'[m] = mt[m]
    <3>1. CASE rises
      BY <2>1, <3>1 DEF Become
    <3>2. CASE ~rises
      BY <2>1, <3>2 DEF Become
    <3> QED
      BY <3>1, <3>2
  <2>3. poll'[c] = p1
    BY <1>11, <1>12, <1>16, <1>18, SameBallot
  <2>4. \A m \in Nodes : poll'[m] = pl[m]
    BY <1>16, <2>3
  <2> HIDE DEF rl, nx, mt, pl
  <2>5. Roles(disk', role', next', match', poll', TL, TO, VH2, AK)
    BY <1>15, <2>2, <2>4 DEF Roles
  <2> QED
    BY <1>1, <1>6, <1>17, <2>5, LaterFrom
<1>19. CASE wins
  <2>1. Become({c}, {}, IF rises THEN {v} ELSE {})
    BY <1>2, <1>19
  <2>2. /\ role'[c] = "Leader"
        /\ \A q \in Nodes : next'[c][q] = Len(disk[c].log) + 1 /\ match'[c][q] = 0
    BY <2>1 DEF Become
  <2>3. \A m \in Nodes \ {c} : role'[m] = rl[m] /\ next'[m] = nx[m] /\ match'[m] = mt[m]
    <3>1. CASE rises
      BY <2>1, <3>1 DEF Become
    <3>2. CASE ~rises
      BY <2>1, <3>2 DEF Become
    <3> QED
      BY <3>1, <3>2
  <2>4. pl[c] = p1 /\ rl[c] = "Candidate" /\ \A m \in Nodes \ {c} : poll'[m] = pl[m]
    BY <1>16, <1>19
  <2>5. /\ pl \in [Nodes -> Ballot]
    BY <1>8, <1>11
  <2>6. mt \in [Nodes -> [Nodes -> Nat]]
    <3>1. match'[v] \in [Nodes -> Nat]
      BY <2>1, BecomeFacts
    <3> HIDE DEF rises
    <3> QED
      BY <1>8, <3>1
  <2> HIDE DEF rl, nx, mt, pl
  <2>7. Crowns(c, disk'[c].log, rl, nx, mt, pl, role', next', match', poll')
    <3>1. disk'[c].log = disk[c].log
      BY <1>7
    <3>2. /\ poll'[c].term = p1.term /\ poll'[c].votes \subseteq p1.votes /\ poll'[c].open \subseteq p1.open
      BY <1>12, <1>16, <1>19
    <3> QED
      BY <2>2, <2>3, <2>4, <3>1, <3>2 DEF Crowns
  <2>8. Majority(pl[c].votes) /\ c \in Nodes
    BY <1>12, <1>19, <2>4
  <2>9. PICK TL2, TO2, AK2 :
            /\ Sound(disk', TL2, TO2, VH2, AK2) /\ Chains(TL2)
            /\ Succeeds(disk', TL, TO, VH2, AK, disk', TL2, TO2, VH2, AK2)
            /\ Roles(disk', role', next', match', poll', TL2, TO2, VH2, AK2)
    BY ONLY <1>1, <1>6, <1>15, <2>5, <2>6, <2>7, <2>8, CrownStep, Zenon
  <2>10. Succeeds(disk, TL, TO, VH, AK, disk', TL2, TO2, VH2, AK2)
    BY ONLY <1>1, <1>6, <2>9, SucceedsTrans, Zenon
  <2> QED
    BY <1>17, <2>9, <2>10, LaterFrom
<1> QED
  BY <1>18, <1>19
-----------------------------------------------------------------------------
(* A step that leaves the records leaves the history. *)
LEMMA SameHistory ==
    ASSUME TypeOK, NEW TL, NEW TO, NEW VH, NEW AK, Now(TL, TO, VH, AK), disk' = disk,
           Roles(disk, role', next', match', poll', TL, TO, VH, AK),
           \A m \in rpc' : Sent(m, TL, TO, AK)
    PROVE  StepOf(TL, TO, VH, AK)
<1>1. Sound(disk, TL, TO, VH, AK) /\ Chains(TL)
  BY DEF Now, Explains
<1>2. Succeeds(disk, TL, TO, VH, AK, disk', TL, TO, VH, AK)
  BY <1>1, SucceedsRefl
<1>3. Later(TL, TO, VH, AK, TL, TO, VH, AK)
  BY <1>1, <1>2 DEF Later, Explains
<1> QED
  BY <1>3 DEF StepOf

(* What a leader in office has. *)
LEMMA LeaderFacts ==
    ASSUME TypeOK, NEW TL, NEW TO, NEW VH, NEW AK, Now(TL, TO, VH, AK),
           NEW l \in Nodes, role[l] = "Leader"
    PROVE  /\ l \in Voters /\ TO[disk[l].term] = l /\ TL[disk[l].term] = disk[l].log
           /\ AK[disk[l].term][l] = Len(disk[l].log)
           /\ \A p \in Nodes : next[l][p] \in 1..(Len(disk[l].log) + 1)
           /\ \A p \in Voters : match[l][p] <= AK[disk[l].term][p]
           /\ Settled(disk[l].log, disk[l].commit, disk[l].term, TL, AK)
           /\ Leading(l, next[l], match[l], TermOf(disk), LogOf(disk), TL, TO, AK)
           /\ 0 < disk[l].term
<1>1. Sound(disk, TL, TO, VH, AK) /\ Roles(disk, role, next, match, poll, TL, TO, VH, AK)
  BY DEF Now, Explains
<1>2. TermOf(disk)[l] = disk[l].term /\ LogOf(disk)[l] = disk[l].log /\ CommitOf(disk)[l] = disk[l].commit
  BY <1>1, RecordsOf DEF Sound
<1>3. Leading(l, next[l], match[l], TermOf(disk), LogOf(disk), TL, TO, AK)
  BY <1>1 DEF Roles, RoleOf
<1>4. Settled(disk[l].log, disk[l].commit, disk[l].term, TL, AK)
  BY <1>1, <1>2 DEF Sound, Core, Commits
<1>5. l # None /\ disk[l].term \in Nat
  BY RaftAssumption, MembersAssumption, DiskTypes
<1>6. 0 < disk[l].term
  BY <1>1, <1>2, <1>3, <1>5 DEF Sound, Core, Elected, Leading
<1> QED
  BY <1>2, <1>3, <1>4, <1>6 DEF Leading

(* Sending an append request leaves the history as it is: the request        *)
(* repeats the leader's log.                                                 *)
LEMMA SendAppendEntriesStep ==
    ASSUME TypeOK, NEW TL, NEW TO, NEW VH, NEW AK, Now(TL, TO, VH, AK),
           NEW l \in Nodes, NEW p \in Nodes, l # p, SendAppendEntries(l, p)
    PROVE  StepOf(TL, TO, VH, AK)
<1> DEFINE lg == disk[l].log
<1> DEFINE from == next[l][p]
<1> DEFINE to == Min({Len(lg), from + MaxBatch - 1})
<1> DEFINE m == [awaited |-> TRUE, from |-> l, to |-> p,
                 term |-> disk[l].term, prev |-> from - 1,
                 prevTerm |-> LastTerm(SubSeq(lg, 1, from - 1)), entries |-> SubSeq(lg, from, to),
                 commit |-> disk[l].commit, learners |-> learners[l]]
<1>1. /\ role[l] = "Leader" /\ rpc' = rpc \cup {m}
      /\ disk' = disk /\ role' = role /\ next' = next /\ match' = match /\ poll' = poll
  BY DEF SendAppendEntries, Leads, volatile
<1>2. /\ l \in Voters /\ TO[disk[l].term] = l /\ TL[disk[l].term] = lg
      /\ from \in 1..(Len(lg) + 1)
      /\ Settled(lg, disk[l].commit, disk[l].term, TL, AK)
  BY <1>1, LeaderFacts, SMT
<1>3. lg \in Seq(Entry) /\ Len(lg) \in Nat /\ MaxBatch \in Nat \ {0}
  BY DiskTypes, RaftAssumption, MembersAssumption
<1> HIDE DEF lg, from
<1>4. to \in Nat /\ to <= Len(lg) /\ from <= to + 1
  <2>1. from + MaxBatch - 1 \in Nat
    BY <1>2, <1>3, SMT
  <2>2. to = (IF Len(lg) <= from + MaxBatch - 1 THEN Len(lg) ELSE from + MaxBatch - 1)
    BY <1>3, <2>1, MinPair
  <2> QED
    BY <1>2, <1>3, <2>1, <2>2, SMT
<1> HIDE DEF to
<1>5. /\ Len(SubSeq(lg, from, to)) = to - from + 1
      /\ \A k \in 1..(to - from + 1) : SubSeq(lg, from, to)[k] = lg[from + k - 1]
  BY <1>2, <1>3, <1>4, SubSeqFacts, SMT
<1>6. LastTerm(SubSeq(lg, 1, from - 1)) = (IF from - 1 = 0 THEN 0 ELSE Term(lg[from - 1]))
  <2> DEFINE s == SubSeq(lg, 1, from - 1)
  <2>1. s \in Seq(Entry) /\ Len(s) = from - 1 /\ \A k \in 1..(from - 1) : s[k] = lg[k]
    <3>1. from - 1 \in Nat /\ from - 1 <= Len(lg)
      BY <1>2, <1>3, SMT
    <3>2. /\ s \in Seq(Entry) /\ Len(s) = (from - 1) - 1 + 1
          /\ \A k \in 1..((from - 1) - 1 + 1) : s[k] = lg[1 + k - 1]
      BY <1>3, <3>1, SubSeqFacts, SMT
    <3> QED
      BY <3>1, <3>2, SMT
  <2> HIDE DEF s
  <2>2. LastTerm(s) = (IF from - 1 = 0 THEN 0 ELSE Term(lg[from - 1]))
    BY <1>2, <1>3, <2>1, LastTermOf, SMT
  <2> QED
    BY <2>2 DEF s
<1>7. /\ m.from = l /\ m.to = p /\ m.term = disk[l].term /\ m.prev = from - 1
      /\ m.prevTerm = LastTerm(SubSeq(lg, 1, from - 1)) /\ m.entries = SubSeq(lg, from, to)
      /\ m.commit = disk[l].commit
  OBVIOUS
<1> HIDE DEF m
<1>8. Sent(m, TL, TO, AK)
  <2>1. m.prev + Len(m.entries) <= Len(TL[m.term])
    BY <1>2, <1>3, <1>4, <1>5, <1>7, SMT
  <2>2. \A k \in 1..Len(m.entries) : m.entries[k] = TL[m.term][m.prev + k]
    BY <1>2, <1>3, <1>4, <1>5, <1>7, SMT
  <2>3. m.prevTerm = (IF m.prev = 0 THEN 0 ELSE Term(TL[m.term][m.prev]))
    BY <1>2, <1>6, <1>7
  <2>4. Settled(TL[m.term], m.commit, m.term, TL, AK)
    BY <1>2, <1>7
  <2> QED
    BY <1>2, <1>7, <2>1, <2>2, <2>3, <2>4 DEF Sent
<1>9. /\ Roles(disk, role', next', match', poll', TL, TO, VH, AK)
      /\ \A r \in rpc' : Sent(r, TL, TO, AK)
  BY <1>1, <1>8 DEF Now, Explains
<1> QED
  BY <1>1, <1>9, SameHistory

(* A call that fails leaves the history as it is. *)
LEMMA CallFailsStep ==
    ASSUME TypeOK, NEW TL, NEW TO, NEW VH, NEW AK, Now(TL, TO, VH, AK),
           NEW m \in rpc, CallFails(m)
    PROVE  StepOf(TL, TO, VH, AK)
<1> DEFINE q == [m EXCEPT !.awaited = FALSE]
<1>1. /\ disk' = disk /\ role' = role /\ next' = next /\ match' = match /\ poll' = poll
      /\ rpc' \in {rpc \ {m}, (rpc \ {m}) \cup {q}}
  BY DEF CallFails, volatile
<1>2. /\ q.from = m.from /\ q.to = m.to /\ q.term = m.term /\ q.prev = m.prev
      /\ q.prevTerm = m.prevTerm /\ q.entries = m.entries /\ q.commit = m.commit
  <2>1. m \in Request
    BY RequestTypes
  <2> QED
    BY <2>1 DEF Request
<1> HIDE DEF q
<1>3. Sent(m, TL, TO, AK)
  BY DEF Now, Explains
<1>4. Sent(q, TL, TO, AK)
  BY <1>2, <1>3 DEF Sent
<1>5. /\ Roles(disk, role', next', match', poll', TL, TO, VH, AK)
      /\ \A r \in rpc' : Sent(r, TL, TO, AK)
  BY <1>1, <1>4 DEF Now, Explains
<1> QED
  BY <1>1, <1>5, SameHistory

(* Adding or removing a learner leaves the history as it is: learners have   *)
(* no votes.                                                                 *)
LEMMA ChangeLearnersStep ==
    ASSUME TypeOK, NEW TL, NEW TO, NEW VH, NEW AK, Now(TL, TO, VH, AK),
           NEW l \in Nodes, NEW x \in Nodes, NEW S, NEW i \in {1, Len(disk[l].log) + 1},
           ChangeLearners(l, x, S, i)
    PROVE  StepOf(TL, TO, VH, AK)
<1>1. /\ role[l] = "Leader"
      /\ next' = [next EXCEPT ![l][x] = i] /\ match' = [match EXCEPT ![l][x] = 0]
      /\ disk' = disk /\ role' = role /\ poll' = poll /\ rpc' = rpc
  BY DEF ChangeLearners, Leads
<1>2. next \in [Nodes -> [Nodes -> Nat]] /\ match \in [Nodes -> [Nodes -> Nat]]
  BY DEF TypeOK
<1>3. \A m \in Nodes \ {l} : next'[m] = next[m] /\ match'[m] = match[m]
  BY <1>1, <1>2
<1>4. /\ next'[l][x] = i /\ match'[l][x] = 0
      /\ \A q \in Nodes \ {x} : next'[l][q] = next[l][q] /\ match'[l][q] = match[l][q]
  BY <1>1, <1>2
<1>5. Sound(disk, TL, TO, VH, AK) /\ Roles(disk, role, next, match, poll, TL, TO, VH, AK)
  BY DEF Now, Explains
<1>6. RoleOf(l, "Leader", next'[l], match'[l], poll[l], TermOf(disk), LogOf(disk), TL, TO, VH, AK)
  <2>1. RoleOf(l, "Leader", next[l], match[l], poll[l], TermOf(disk), LogOf(disk), TL, TO, VH, AK)
    BY <1>1, <1>5 DEF Roles
  <2>2. TermOf(disk)[l] = disk[l].term /\ LogOf(disk)[l] = disk[l].log
    BY <1>5, RecordsOf DEF Sound
  <2>3. next'[l][x] \in 1..(Len(LogOf(disk)[l]) + 1)
    <3>1. Len(disk[l].log) \in Nat
      BY DiskTypes
    <3>2. i \in 1..(Len(disk[l].log) + 1)
      BY <3>1, SMT
    <3> QED
      BY <1>4, <2>2, <3>2
  <2>4. x \in Voters => match'[l][x] <= AK[TermOf(disk)[l]][x]
    <3>1. AK[disk[l].term][x] \in Nat
      BY <1>5, DiskTypes, SoundTypes
    <3> QED
      BY <1>4, <2>2, <3>1, SMT
  <2>5. \A q \in Nodes \ {x} : next'[l][q] = next[l][q] /\ match'[l][q] = match[l][q]
    BY <1>4
  <2> QED
    <3>1. Revises(l, x, next[l], match[l], next'[l], match'[l], TermOf(disk), LogOf(disk), AK)
      BY <2>3, <2>4, <2>5 DEF Revises
    <3> QED
      BY ONLY <2>1, <3>1, Progressed, Zenon
<1>7. Roles(disk, role', next', match', poll', TL, TO, VH, AK)
  BY <1>1, <1>3, <1>5, <1>6 DEF Roles
<1>8. \A r \in rpc' : Sent(r, TL, TO, AK)
  BY <1>1 DEF Now, Explains
<1> QED
  BY <1>1, <1>7, <1>8, SameHistory
-----------------------------------------------------------------------------
(* What a request makes of a node, whole. *)
LEMMA AppendedFacts ==
    ASSUME TypeOK, NEW TL, NEW TO, NEW VH, NEW AK, Now(TL, TO, VH, AK),
           NEW m \in rpc, NEW n \in Nodes, n = m.to, disk[n].term <= m.term
    PROVE  /\ Appended(n, m) \in Disk /\ Appended(n, m).term = m.term
           /\ Appended(n, m).vote = Adopts(disk[n], m.term).vote
           /\ TO[m.term] # None
           /\ Follows(disk[n].log, TL[m.term], Appended(n, m).log)
           /\ Consistent(disk[n], m) => /\ m.prev + Len(m.entries) <= Len(TL[m.term])
                                        /\ Extends(Appended(n, m).log, TL[m.term], m.prev + Len(m.entries))
           /\ ~Consistent(disk[n], m) => Appended(n, m) = Adopts(disk[n], m.term)
           /\ disk[n].commit <= Appended(n, m).commit
           /\ \A k \in disk[n].commit..Appended(n, m).commit :
                  k = disk[n].commit \/ Settled(Appended(n, m).log, k, m.term, TL, AK)
<1> DEFINE a == Adopts(disk[n], m.term)
<1> DEFINE f == Appended(n, m)
<1> DEFINE P == TL[m.term]
<1> DEFINE e == m.prev + Len(m.entries)
<1>1. /\ m.from \in Nodes /\ m.term \in Nat /\ m.prev \in Nat /\ m.prevTerm \in Nat
      /\ m.entries \in Seq(Entry) /\ Len(m.entries) \in Nat /\ m.commit \in Nat
  BY RequestTypes
<1>2. /\ disk[n] \in Disk /\ disk[n].log \in Seq(Entry) /\ Len(disk[n].log) \in Nat
      /\ disk[n].commit \in Nat /\ disk[n].term \in Nat
  BY DiskTypes
<1>3. /\ a \in Disk /\ a.log = disk[n].log /\ a.commit = disk[n].commit /\ a.term = m.term
  BY <1>1, <1>2, AdoptsFacts
<1>4. Sound(disk, TL, TO, VH, AK) /\ Sent(m, TL, TO, AK)
  BY DEF Now, Explains
<1>5. P \in Seq(Entry) /\ Len(P) \in Nat
  BY <1>1, <1>4, SoundTypes
<1>6. TO[m.term] # None
  BY <1>1, <1>4, RaftAssumption, MembersAssumption DEF Sent
<1>7. Consistent(a, m) <=> Consistent(disk[n], m)
  BY <1>3 DEF Consistent
<1> HIDE DEF a
<1>8. CASE ~Consistent(disk[n], m)
  <2>1. f = a
    BY <1>7, <1>8 DEF Appended, a
  <2>2. Follows(disk[n].log, P, disk[n].log)
    BY <1>2, SMT DEF Follows, Extends
  <2>3. \A k \in disk[n].commit..f.commit : k = disk[n].commit
    BY <1>2, <1>3, <2>1, SMT
  <2> QED
    BY <1>2, <1>3, <1>6, <1>8, <2>1, <2>2, <2>3, SMT DEF a
<1>9. CASE Consistent(disk[n], m)
  <2> DEFINE L == disk[n].log
  <2> DEFINE G == Merge(L, m.prev, m.entries)
  <2> DEFINE k2 == Max({disk[n].commit, Matched(m)})
  <2>1. /\ m.prev <= Len(L) /\ LastTerm(SubSeq(L, 1, m.prev)) = m.prevTerm
        /\ \A i \in DOMAIN m.entries :
             m.prev + i <= Len(L) /\ L[m.prev + i] # m.entries[i] =>
                 L[m.prev + i].term # m.entries[i].term
    BY <1>9 DEF Consistent
  <2>2. /\ e <= Len(P) /\ \A k \in 1..Len(m.entries) : m.entries[k] = P[m.prev + k]
        /\ m.prevTerm = (IF m.prev = 0 THEN 0 ELSE Term(P[m.prev]))
        /\ Settled(P, m.commit, m.term, TL, AK)
    BY <1>4 DEF Sent
  <2>3. Extends(L, P, m.prev)
    <3>1. CASE m.prev = 0
      BY <1>2, <3>1, SMT DEF Extends
    <3>2. CASE m.prev # 0
      <4>1. Term(L[m.prev]) = Term(P[m.prev])
        <5>1. LastTerm(SubSeq(L, 1, m.prev)) = Term(L[m.prev])
          BY <1>1, <1>2, <2>1, <3>2, TermBefore
        <5> QED
          BY <2>1, <2>2, <3>2, <5>1
      <4>2. Backed(L, disk[n].term, TL, TO) /\ Backed(P, m.term, TL, TO)
        <5>1. /\ Core(TermOf(disk), VoteOf(disk), LogOf(disk), CommitOf(disk), TL, TO, VH, AK)
              /\ disk \in [Nodes -> Disk]
          BY <1>4 DEF Sound
        <5>2. TermOf(disk)[n] = disk[n].term /\ LogOf(disk)[n] = disk[n].log
          BY <5>1, RecordsOf
        <5> QED
          BY <1>1, <5>1, <5>2 DEF Core, NodeLogs, TermLogs
      <4>3. m.prev \in 1..Len(L) /\ m.prev \in 1..Len(P)
        <5>1. m.prev \in Nat /\ Len(m.entries) \in Nat /\ Len(L) \in Nat /\ Len(P) \in Nat
          BY <1>1, <1>2, <1>5, SMT
        <5>2. m.prev <= Len(L) /\ m.prev + Len(m.entries) <= Len(P)
          BY <2>1, <2>2
        <5> QED
          BY ONLY <3>2, <5>1, <5>2, SMT
      <4> QED
        BY <1>1, <1>2, <1>5, <4>1, <4>2, <4>3, LogsMatch
    <3> QED
      BY <3>1, <3>2
  <2>4. \A k \in 1..Len(m.entries) :
            m.prev + k <= Len(L) /\ L[m.prev + k] # m.entries[k] => L[m.prev + k].term # m.entries[k].term
    <3>1. DOMAIN m.entries = 1..Len(m.entries)
      BY <1>1, SMT
    <3> QED
      BY <2>1, <3>1
  <2>5. /\ L \in Seq(Entry) /\ m.entries \in Seq(Entry) /\ P \in Seq(Entry) /\ m.prev \in Nat
        /\ m.prev <= Len(L) /\ m.prev + Len(m.entries) <= Len(P)
        /\ \A k \in 1..Len(m.entries) : m.entries[k] = P[m.prev + k]
    BY <1>1, <1>2, <1>5, <2>1, <2>2
  <2> HIDE DEF L, P
  <2>6. G \in Seq(Entry) /\ Extends(G, P, m.prev + Len(m.entries)) /\ Follows(L, P, G)
    BY ONLY <2>3, <2>4, <2>5, MergeFollows, Zenon
  <2> HIDE DEF G
  <2>7. Len(G) \in Nat
    BY <2>6, SMT
  <2>8. /\ Matched(m) \in Nat /\ Matched(m) <= m.commit /\ Matched(m) <= e
    <3>1. e \in Nat
      BY <1>1, SMT
    <3> HIDE DEF e
    <3>2. Matched(m) = Min({m.commit, e})
      BY DEF Matched, e
    <3> QED
      BY <1>1, <3>1, <3>2, MinPair, SMT
  <2>9. /\ k2 \in Nat /\ disk[n].commit <= k2 /\ (k2 = disk[n].commit \/ k2 = Matched(m))
    BY <1>2, <2>8, MaxPair, SMT
  <2> HIDE DEF k2
  <2>10. f = Write(a, G, k2)
    BY <1>3, <1>7, <1>9 DEF Appended, Write, a, G, L, k2
  <2>11. f \in Disk /\ f.term = m.term /\ f.vote = a.vote /\ f.log = G /\ f.commit = k2
    BY <1>3, <2>6, <2>9, <2>10, WriteFields, SMT
  <2>12. ASSUME NEW k \in disk[n].commit..k2, k # disk[n].commit
         PROVE  Settled(G, k, m.term, TL, AK)
    <3>1. k \in Nat /\ k <= m.commit /\ k <= m.prev + Len(m.entries)
      <4>1. disk[n].commit \in Nat /\ m.commit \in Nat /\ m.prev + Len(m.entries) \in Nat
        BY <1>1, <1>2, SMT
      <4> QED
        BY ONLY <2>8, <2>9, <2>12, <4>1, SMT
    <3>2. m.prev + Len(m.entries) \in Nat
      BY <1>1, SMT
    <3>3. Settled(P, m.commit, m.term, TL, AK)
      BY <2>2 DEF P
    <3> QED
      BY <1>1, <2>6, <2>7, <3>1, <3>2, <3>3, SettledCopy
  <2> HIDE DEF f
  <2> QED
    BY <1>6, <1>9, <2>2, <2>6, <2>9, <2>11, <2>12 DEF f, L, P, a, e
<1> QED
  BY <1>8, <1>9
-----------------------------------------------------------------------------
(* handle_append_entries extends the history, whether the answer is heard or *)
(* lost: the follower's log follows the leader's, and the leader counts only *)
(* what the follower holds.                                                  *)
LEMMA HandleAppendEntriesStep ==
    ASSUME TypeOK, NEW TL, NEW TO, NEW VH, NEW AK, Now(TL, TO, VH, AK),
           NEW m \in rpc, NEW heard \in BOOLEAN, HandleAppendEntries(m, heard)
    PROVE  StepOf(TL, TO, VH, AK)
<1> DEFINE n == m.to
<1> DEFINE l == m.from
<1> DEFINE T == m.term
<1> DEFINE e == m.prev + Len(m.entries)
<1> DEFINE ok == Consistent(disk[n], m)
<1> DEFINE f == Appended(n, m)
<1> DEFINE told == heard /\ m.awaited /\ Leads(l) /\ disk[l].term = T
<1>1. /\ m \in Request /\ l \in Nodes /\ n \in Nodes /\ T \in Nat /\ e \in Nat
      /\ disk[n].term \in Nat /\ disk[n] \in Disk
  <2>1. /\ m \in Request /\ m.from \in Nodes /\ m.to \in Nodes /\ m.term \in Nat
        /\ m.prev \in Nat /\ Len(m.entries) \in Nat
    BY RequestTypes
  <2> QED
    BY <2>1, DiskTypes, SMT
<1>2. /\ disk[n].term <= T /\ disk' = [disk EXCEPT ![n] = f]
      /\ role' = [role EXCEPT ![n] = "Follower"] /\ rpc' = rpc \ {m} /\ poll' = poll
      /\ told /\ ok => /\ match' = [match EXCEPT ![l][n] = Max({match[l][n], e})]
                       /\ next' = [next EXCEPT ![l][n] = Max({next[l][n], e + 1})]
      /\ told /\ ~ok => /\ match' = [match EXCEPT ![l][n] = match[l][n]]
                        /\ next' = [next EXCEPT ![l][n] = IF next[l][n] = m.prev + 1 /\ next[l][n] > 1
                                                        THEN Max({next[l][n] \div 2, 1}) ELSE next[l][n]]
      /\ ~told => match' = match /\ next' = next
  BY <1>1 DEF HandleAppendEntries, Stored, Progress
<1>3. /\ Sound(disk, TL, TO, VH, AK) /\ Chains(TL) /\ Sent(m, TL, TO, AK)
      /\ Roles(disk, role, next, match, poll, TL, TO, VH, AK)
  BY DEF Now, Explains
<1>4. /\ f \in Disk /\ f.term = T /\ f.vote = Adopts(disk[n], T).vote
      /\ TO[T] # None /\ Follows(disk[n].log, TL[T], f.log)
      /\ ok => e <= Len(TL[T]) /\ Extends(f.log, TL[T], e)
      /\ disk[n].commit <= f.commit
      /\ \A k \in disk[n].commit..f.commit : k = disk[n].commit \/ Settled(f.log, k, T, TL, AK)
  BY <1>1, <1>2, AppendedFacts, SMT
<1>5. l # n
  BY <1>3 DEF Sent
<1> HIDE DEF f, ok, T, n, l, e
<1>6. Rewrites(n, f, disk, disk')
  <2>1. disk[n].term = T => Adopts(disk[n], T).vote = disk[n].vote
    BY <1>1, AdoptsFacts, SMT
  <2> QED
    BY <1>2, <1>4, <2>1 DEF Rewrites
<1> DEFINE AK2 == [t \in Nat |-> [v \in Nodes |-> IF ok /\ t = T /\ v = n /\ AK[t][v] < e THEN e ELSE AK[t][v]]]
<1>7. /\ \A t \in Nat, v \in Nodes : AK[t][v] \in Nat
      /\ \A t \in Nat : Len(TL[t]) \in Nat
  BY <1>3, SoundNats
<1>8. /\ \A t \in Nat, v \in Nodes : v # n => AK2[t][v] = AK[t][v]
      /\ \A t \in Nat, v \in Nodes : AK2[t][v] # AK[t][v] =>
            ok /\ v = n /\ t = T /\ AK2[t][v] = e /\ AK[t][v] <= e
      /\ AK2 \in [Nat -> [Nodes -> Nat]]
      /\ AK[T][n] <= AK2[T][n] /\ (ok => e <= AK2[T][n])
  <2>1. \A t \in Nat, v \in Nodes : AK2[t][v] = (IF ok /\ t = T /\ v = n /\ AK[t][v] < e THEN e ELSE AK[t][v])
    OBVIOUS
  <2>2. AK2 \in [Nat -> [Nodes -> Nat]]
    BY <1>1, <1>7
  <2> HIDE DEF AK2
  <2>3. AK[T][n] <= AK2[T][n] /\ (ok => e <= AK2[T][n])
    <3>1. AK[T][n] \in Nat
      BY <1>1, <1>7
    <3> QED
      BY <1>1, <2>1, <3>1, SMT
  <2> QED
    BY <1>1, <1>7, <2>1, <2>2, <2>3
<1> HIDE DEF AK2
<1>9. Acknowledges(n, f, TL, AK, AK2)
  BY <1>4, <1>8 DEF Acknowledges
<1>10. f.commit = disk[n].commit \/ Settled(f.log, f.commit, f.term, TL, AK)
  <2>1. f.commit \in disk[n].commit..f.commit
    BY <1>1, <1>4, SMT DEF Disk
  <2> QED
    BY <1>4, <2>1
<1>11. TO[f.term] # None /\ Follows(disk[n].log, TL[f.term], f.log)
  BY <1>4
<1>12. PICK VH2 : /\ Sound(disk', TL, TO, VH2, AK2)
                  /\ Succeeds(disk, TL, TO, VH, AK, disk', TL, TO, VH2, AK2)
  <2>1. Appends(n, f, disk, disk', TL, TO, VH, AK, AK2)
    BY <1>1, <1>3, <1>4, <1>6, <1>9, <1>10, <1>11 DEF Appends
  <2> QED
    BY <2>1, AppendStep DEF Recorded
<1>13. disk'[n] = f /\ \A q \in Nodes \ {n} : disk'[q] = disk[q]
  BY <1>1, <1>2 DEF TypeOK
<1>14. /\ match \in [Nodes -> [Nodes -> Nat]] /\ poll \in [Nodes -> Ballot]
       /\ next \in [Nodes -> [Nodes -> Nat]] /\ role \in [Nodes -> {"Leader", "Candidate", "Follower"}]
  BY DEF TypeOK
<1>15. \A q \in Nodes \ {n} :
          RoleOf(q, role[q], next[q], match[q], poll[q], TermOf(disk'), LogOf(disk'), TL, TO, VH2, AK2)
  <2>1. Local(n, disk, TL, TO, AK, disk', TL, AK2)
    BY <1>8, <1>13 DEF Local
  <2> QED
    BY ONLY <1>3, <1>12, <1>14, <2>1, OthersUndisturbed, Zenon
<1>16. RoleOf(n, role'[n], next'[n], match'[n], poll'[n], TermOf(disk'), LogOf(disk'), TL, TO, VH2, AK2)
  <2>1. /\ Polled(n, poll[n], TermOf(disk), VH) /\ poll[n] \in Ballot /\ n \in Nodes
        /\ poll[n].open \subseteq poll[n].open /\ poll[n].votes \subseteq poll[n].votes
    BY <1>1, <1>3, <1>14 DEF Roles, RoleOf
  <2>2. Polled(n, poll[n], TermOf(disk'), VH2)
    BY ONLY <1>3, <1>12, <2>1, Resigned, Zenon
  <2>3. role'[n] = "Follower" /\ poll'[n] = poll[n]
    BY <1>1, <1>2, <1>14
  <2> QED
    BY <2>2, <2>3 DEF RoleOf
<1>17. \A q \in Nodes \ {n} : role'[q] = role[q] /\ poll'[q] = poll[q]
  BY <1>2, <1>14
<1>18. rpc' \in SUBSET rpc
  BY <1>2
<1>19. CASE ~told
  <2>1. Roles(disk', role', next', match', poll', TL, TO, VH2, AK2)
    BY <1>2, <1>15, <1>16, <1>17, <1>19 DEF Roles
  <2> QED
    BY <1>3, <1>12, <1>18, <2>1, LaterFrom
<1>20. CASE told
  <2>1. role[l] = "Leader" /\ disk[l].term = T
    BY <1>20 DEF Leads
  <2>2. /\ TL[T] = disk[l].log /\ next[l][n] \in 1..(Len(disk[l].log) + 1)
        /\ n \in Voters => match[l][n] <= AK[T][n]
    BY <1>1, <2>1, LeaderFacts, SMT
  <2>3. PICK x : x = (IF ok THEN Max({next[l][n], e + 1})
                      ELSE IF next[l][n] = m.prev + 1 /\ next[l][n] > 1
                      THEN Max({next[l][n] \div 2, 1}) ELSE next[l][n])
    OBVIOUS
  <2>4. PICK y : y = (IF ok THEN Max({match[l][n], e}) ELSE match[l][n])
    OBVIOUS
  <2>12. next' = [next EXCEPT ![l][n] = x] /\ match' = [match EXCEPT ![l][n] = y]
    <3>1. CASE ok
      BY <1>2, <1>20, <2>3, <2>4, <3>1
    <3>2. CASE ~ok
      BY <1>2, <1>20, <2>3, <2>4, <3>2
    <3> QED
      BY <3>1, <3>2
  <2>13. x \in 1..(Len(disk[l].log) + 1) /\ (y = match[l][n] \/ (ok /\ y = e))
    <3> DEFINE len == Len(disk[l].log)
    <3>1. len \in Nat /\ match[l][n] \in Nat /\ next[l][n] \in 1..(len + 1)
      BY <1>1, <1>14, <2>2, DiskTypes
    <3>2. ok => e <= len
      BY <1>4, <2>2
    <3> HIDE DEF len
    <3>3. /\ e <= len => Max({next[l][n], e + 1}) \in 1..(len + 1)
          /\ Max({match[l][n], e}) \in {match[l][n], e}
          /\ Max({next[l][n] \div 2, 1}) \in 1..(len + 1)
      BY <1>1, <3>1, ProgressBounds
    <3>4. x \in 1..(len + 1)
      <4>1. CASE ok
        <5>1. x = Max({next[l][n], e + 1})
          BY <2>3, <4>1
        <5> QED
          BY <3>2, <3>3, <4>1, <5>1
      <4>2. CASE ~ok
        <5>1. x \in {Max({next[l][n] \div 2, 1}), next[l][n]}
          BY <2>3, <4>2
        <5> QED
          BY <3>1, <3>3, <5>1
      <4> QED
        BY <4>1, <4>2
    <3>5. y = match[l][n] \/ (ok /\ y = e)
      BY <2>4, <3>3
    <3> QED
      BY <3>4, <3>5 DEF len
  <2>14. /\ \A q \in Nodes \ {l} : next'[q] = next[q] /\ match'[q] = match[q]
         /\ next'[l][n] = x /\ match'[l][n] = y
         /\ \A q \in Nodes \ {n} : next'[l][q] = next[l][q] /\ match'[l][q] = match[l][q]
    BY <1>1, <1>14, <2>12
  <2>5. TermOf(disk')[l] = T /\ LogOf(disk')[l] = disk[l].log
    <3>1. disk'[l] = disk[l]
      BY <1>1, <1>5, <1>13
    <3> QED
      BY <1>1, <1>12, <2>1, <3>1, RecordsOf DEF Sound
  <2>6. n \in Voters => match'[l][n] <= AK2[T][n]
    <3>1. AK[T][n] \in Nat /\ AK2[T][n] \in Nat /\ match[l][n] \in Nat /\ AK[T][n] <= AK2[T][n]
      <4>1. AK[T][n] \in Nat /\ AK2[T][n] \in Nat
        BY <1>1, <1>7, <1>8
      <4>2. match[l][n] \in Nat
        BY <1>1, <1>14
      <4> QED
        BY <1>8, <4>1, <4>2
    <3>2. match'[l][n] = y
      BY <1>1, <2>14
    <3>3. CASE y = match[l][n]
      BY <2>2, <3>1, <3>2, <3>3, SMT
    <3>4. CASE ok /\ y = e
      BY <1>8, <3>2, <3>4
    <3> QED
      BY <2>13, <3>3, <3>4
  <2>7. Revises(l, n, next[l], match[l], next'[l], match'[l], TermOf(disk'), LogOf(disk'), AK2)
    BY <1>1, <2>5, <2>6, <2>13, <2>14 DEF Revises
  <2>8. RoleOf(l, "Leader", next[l], match[l], poll[l], TermOf(disk'), LogOf(disk'), TL, TO, VH2, AK2)
    BY <1>1, <1>5, <1>15, <2>1
  <2>9. RoleOf(l, "Leader", next'[l], match'[l], poll[l], TermOf(disk'), LogOf(disk'), TL, TO, VH2, AK2)
    BY ONLY <2>7, <2>8, Progressed, Zenon
  <2>10. RoleOf(l, role'[l], next'[l], match'[l], poll'[l], TermOf(disk'), LogOf(disk'), TL, TO, VH2, AK2)
    BY <1>1, <1>5, <1>17, <2>1, <2>9
  <2>11. Roles(disk', role', next', match', poll', TL, TO, VH2, AK2)
    <3> SUFFICES ASSUME NEW q \in Nodes
                 PROVE  RoleOf(q, role'[q], next'[q], match'[q], poll'[q], TermOf(disk'), LogOf(disk'), TL, TO, VH2, AK2)
      BY DEF Roles
    <3>1. CASE q = n
      BY <1>16, <3>1
    <3>2. CASE q = l
      BY <2>10, <3>2
    <3>3. CASE q # n /\ q # l
      BY <1>15, <1>17, <2>14, <3>3
    <3> QED
      BY <3>1, <3>2, <3>3
  <2> QED
    BY <1>3, <1>12, <1>18, <2>11, LaterFrom
<1> QED
  BY <1>19, <1>20
=============================================================================

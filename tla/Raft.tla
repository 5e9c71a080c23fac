-------------------------------- MODULE Raft --------------------------------
(***************************************************************************)
(* The cluster of server/src/cluster.rs: elections, replication of the     *)
(* log, commitment, the leader's writes and swaps, learners, and the store *)
(* that may fail.                                                          *)
(*                                                                         *)
(* Every handler runs under the state lock and writes what it changes to   *)
(* sled before it returns; commit_index and last_applied are equal         *)
(* whenever the lock is free.  So one record per node, disk, holds what    *)
(* both the memory and the store have.  A handler whose write fails leaves *)
(* some of its writes behind and stops its node.                           *)
(*                                                                         *)
(* The voters are fixed (new_fixed); learners come and go.  The key-value  *)
(* map is one key; each value is proposed once.                            *)
(***************************************************************************)
EXTENDS RaftLog

CONSTANTS
    MaxBatch,  \* MAX_APPEND_ENTRIES
    Budgets    \* bounds: elections, append calls, calls out at once, late and
               \* lost calls, values proposed, crashes and failed writes,
               \* changes of the learners

ASSUME RaftAssumption ==
    /\ MaxBatch \in Nat \ {0}
    /\ Budgets \subseteq [elections : Nat, sends : Nat, calls : Nat, stray : Nat,
                          values : SUBSET Values, faults : Nat, joins : Nat]

VARIABLES
    up,        \* the process runs and its store has not failed
    disk,      \* current_term, voted_for, log and last_applied
    role,
    next,      \* next_index
    match,     \* match_index
    learners,  \* the learners a node knows of
    poll,      \* the vote requests of a node's last election, and the votes
    rpc,       \* append-entries requests and answers on their way
    acked,     \* values acknowledged to whoever proposed and still waits
    budget     \* what is left of the bounds of this behaviour

volatile == <<role, next, match>>
vars == <<up, disk, volatile, learners, poll, rpc, acked, budget>>

NoPoll == [term |-> 0, index |-> 0, last |-> 0, open |-> {}, votes |-> {}]

Init ==
    /\ up = [n \in Nodes |-> TRUE]
    /\ disk = [n \in Nodes |-> [term |-> 0, vote |-> None, log |-> <<>>, commit |-> 0]]
    /\ role = [n \in Nodes |-> "Follower"]
    /\ next = [n \in Nodes |-> [p \in Nodes |-> 1]]
    /\ match = [n \in Nodes |-> [p \in Nodes |-> 0]]
    /\ learners = [n \in Nodes |-> {}]
    /\ poll = [n \in Nodes |-> NoPoll]
    /\ rpc = {}
    /\ acked = {}
    /\ budget \in Budgets
-----------------------------------------------------------------------------
(* Some nodes lead, stand or follow from now on; a leader starts with      *)
(* next_index past its own log.                                            *)
Become(lead, stand, follow) ==
    /\ role' = [n \in Nodes |-> IF n \in lead THEN "Leader"
                               ELSE IF n \in stand THEN "Candidate"
                               ELSE IF n \in follow THEN "Follower" ELSE role[n]]
    /\ match' = [n \in Nodes |-> IF n \in lead \cup stand \cup follow
                                THEN [p \in Nodes |-> 0] ELSE match[n]]
    /\ next' = [n \in Nodes |-> IF n \in lead THEN [p \in Nodes |-> Len(disk[n].log) + 1]
                               ELSE IF n \in stand \cup follow THEN [p \in Nodes |-> 1]
                               ELSE next[n]]

(* A node that must not go on leaves one of the states that its writes     *)
(* pass through.                                                           *)
Stops(n, states) ==
    /\ up[n]
    /\ budget.faults > 0
    /\ budget' = [budget EXCEPT !.faults = @ - 1]
    /\ up' = [up EXCEPT ![n] = FALSE]
    /\ \E d \in states : disk' = [disk EXCEPT ![n] = d]
    /\ Become({}, {}, {n})
    /\ poll' = [poll EXCEPT ![n].votes = {}]
    /\ UNCHANGED <<learners, rpc, acked>>

Stored(n, d) ==
    /\ up[n]
    /\ disk' = [disk EXCEPT ![n] = d]
    /\ UNCHANGED up

(* The network loses or delays a message. *)
Strays == budget.stray > 0 /\ budget' = [budget EXCEPT !.stray = @ - 1]

Arrives(heard) == IF heard THEN UNCHANGED budget ELSE Strays

(* A node hears of a later term in an answer. *)
StepsDown(n, t) ==
    /\ Stored(n, Adopts(disk[n], t))
    /\ UNCHANGED budget
    /\ Become({}, {}, {n})
-----------------------------------------------------------------------------
(* Elections. *)

Campaign(n) == [disk[n] EXCEPT !.term = @ + 1, !.vote = n]

MayCampaign(n) == n \in Voters /\ role[n] # "Leader" /\ budget.elections > 0

StartElection(n) ==
    /\ up[n] /\ MayCampaign(n)
    /\ disk' = [disk EXCEPT ![n] = Campaign(n)]
    /\ budget' = [budget EXCEPT !.elections = @ - 1]
    /\ IF Majority({n}) THEN Become({n}, {}, {}) ELSE Become({}, {n}, {})
    /\ poll' = [poll EXCEPT ![n] =
                  [term |-> disk[n].term + 1, index |-> Len(disk[n].log),
                   last |-> LastTerm(disk[n].log), open |-> Voters \ {n}, votes |-> {n}]]
    /\ UNCHANGED <<up, learners, rpc, acked>>

(* What the vote request of c makes of v. *)
Voted(v, c) ==
    LET a == Adopts(disk[v], poll[c].term)
    IN IF Grants(disk[v], c, poll[c]) THEN [a EXCEPT !.vote = c] ELSE a

Asked(v, c) == v \in poll[c].open /\ disk[v].term <= poll[c].term

(* v handles the request of c, and c counts the answer if it gets it: the  *)
(* vote that makes a majority makes a leader.  An answer on its way is the *)
(* same as one that has arrived, or as one that is lost.  The requests     *)
(* still out are dropped then, and only a stray one is handled.            *)
HandleRequestVote(v, c, heard) ==
    LET votes == poll[c].votes \cup IF heard /\ Grants(disk[v], c, poll[c]) THEN {v} ELSE {}
        wins  == role[c] = "Candidate" /\ disk[c].term = poll[c].term /\ up[c] /\ Majority(votes)
    IN /\ Asked(v, c)
       /\ Stored(v, Voted(v, c))
       /\ Arrives(heard)
       /\ poll' = [poll EXCEPT ![c].votes = IF wins THEN {} ELSE votes,
                               ![c].open = IF wins /\ budget.stray = 0 THEN {} ELSE @ \ {v}]
       /\ Become(IF wins THEN {c} ELSE {}, {}, IF poll[c].term > disk[v].term THEN {v} ELSE {})
       /\ UNCHANGED <<learners, rpc, acked>>

(* The request is out of date, and its answer makes the candidate step down. *)
VoteRefused(v, c) ==
    /\ up[v] /\ v \in poll[c].open
    /\ poll[c].votes # {} /\ role[c] # "Leader"
    /\ disk[v].term > Max({poll[c].term, disk[c].term})
    /\ StepsDown(c, disk[v].term)
    /\ UNCHANGED <<learners, poll, rpc, acked>>
-----------------------------------------------------------------------------
(* Replication: a leader awaits at most one call per peer, and one of an   *)
(* earlier leadership does not count.                                      *)

Leads(n) == up[n] /\ role[n] = "Leader"

SendAppendEntries(l, p) ==
    LET lg   == disk[l].log
        from == next[l][p]
        to   == Min({Len(lg), from + MaxBatch - 1})
    IN /\ Leads(l)
       /\ p \in (Voters \cup learners[l]) \ {l}
       /\ Cardinality(rpc) < budget.calls /\ budget.sends > 0
       /\ budget' = [budget EXCEPT !.sends = @ - 1]
       /\ ~\E m \in rpc : m.awaited /\ m.from = l /\ m.to = p /\ m.term = disk[l].term
       /\ rpc' = rpc \cup
            {[awaited |-> TRUE, from |-> l, to |-> p,
              term |-> disk[l].term, prev |-> from - 1,
              prevTerm |-> LastTerm(SubSeq(lg, 1, from - 1)), entries |-> SubSeq(lg, from, to),
              commit |-> disk[l].commit, learners |-> learners[l]]}
       /\ UNCHANGED <<up, disk, volatile, learners, poll, acked>>

(* The leader gives up on a call: a request may still arrive. *)
CallFails(m) ==
    /\ Strays
    /\ rpc' \in {rpc \ {m}, (rpc \ {m}) \cup {[m EXCEPT !.awaited = FALSE]}}
    /\ UNCHANGED <<up, disk, volatile, learners, poll, acked>>

Appended(n, req) ==
    LET a == Adopts(disk[n], req.term)
    IN IF Consistent(a, req)
       THEN [a EXCEPT !.log = Merge(@, req.prev, req.entries), !.commit = Max({@, Matched(req)})]
       ELSE a

FaultyProgress(m, ok) ==
    LET i == m.prev + Len(m.entries) + 1 IN [match |-> i, next |-> i]

(* accept_append_response: what the answer to m tells its leader. *)
Progress(m, ok) ==
    LET n == next[m.from][m.to] IN
    IF ok THEN [match |-> Max({match[m.from][m.to], m.prev + Len(m.entries)}),
                next  |-> Max({n, m.prev + Len(m.entries) + 1})]
    ELSE [match |-> match[m.from][m.to],
          next  |-> IF n = m.prev + 1 /\ n > 1 THEN Max({n \div 2, 1}) ELSE n]

HandleAppendEntries(m, heard) ==
    LET n  == m.to
        l  == m.from
        ok == Consistent(disk[n], m)
    IN /\ m.term >= disk[n].term
       /\ Stored(n, Appended(n, m))
       /\ Arrives(heard)
       /\ role' = [role EXCEPT ![n] = "Follower"]
       /\ learners' = [learners EXCEPT ![n] = IF ok THEN m.learners ELSE @]
       /\ rpc' = rpc \ {m}
       /\ IF heard /\ m.awaited /\ Leads(l) /\ disk[l].term = m.term
          THEN /\ match' = [match EXCEPT ![l][n] = Progress(m, ok).match]
               /\ next' = [next EXCEPT ![l][n] = Progress(m, ok).next]
          ELSE UNCHANGED <<match, next>>
       /\ UNCHANGED <<poll, acked>>

(* The request is out of date, and its answer makes the leader step down. *)
AppendRefused(m) ==
    /\ up[m.to] /\ m.awaited
    /\ disk[m.to].term > Max({m.term, disk[m.from].term})
    /\ StepsDown(m.from, disk[m.to].term)
    /\ rpc' = rpc \ {m}
    /\ UNCHANGED <<learners, poll, acked>>

Replicated(l, i) == {l} \cup {p \in Voters : match[l][p] >= i}

FaultyCommittable(l) == {i \in disk[l].commit + 1..Len(disk[l].log) : Majority(Replicated(l, i))}

Committable(l) ==
    {i \in disk[l].commit + 1..Len(disk[l].log) :
        Majority(Replicated(l, i)) /\ disk[l].log[i].term = disk[l].term}

(* commit_notify: every proposer of this term up to the new index is told, *)
(* if it still waits (await_commit).                                       *)
UpdateCommitIndex(l) ==
    /\ Leads(l)
    /\ \E N \in Committable(l) :
       /\ \A i \in Committable(l) : i <= N
       /\ Stored(l, [disk[l] EXCEPT !.commit = N])
       /\ acked' = acked \cup {disk[l].log[i].val : i \in {i \in 1..N : disk[l].log[i].term = disk[l].term}}
    /\ UNCHANGED <<volatile, learners, poll, rpc, budget>>
-----------------------------------------------------------------------------
(* What the leader proposes.  A swap compares with the last value in the   *)
(* log, committed or not.  A follower forwards to the leader it knows.     *)

Proposal(l, v) ==
    [disk[l] EXCEPT !.log = Append(@,
        [term |-> disk[l].term, val |-> v,
         op   |-> IF v \in Puts THEN "put" ELSE IF v \in Swaps THEN "cas" ELSE "barrier",
         exp  |-> IF v \in Swaps THEN Latest(@) ELSE None])]

Propose(l, v) ==
    /\ Leads(l)
    /\ v \in budget.values
    /\ up[l]
    /\ disk' = [disk EXCEPT ![l] = Proposal(l, v)]
    /\ budget' = [budget EXCEPT !.values = @ \ {v}]
    /\ UNCHANGED <<up, volatile, learners, poll, rpc, acked>>
-----------------------------------------------------------------------------
(* Learners join and leave at the leader, and others hear of it with the   *)
(* next append.                                                            *)

ChangeLearners(l, x, S, i) ==
    /\ Leads(l) /\ budget.joins > 0
    /\ budget' = [budget EXCEPT !.joins = @ - 1]
    /\ learners' = [learners EXCEPT ![l] = S]
    /\ next' = [next EXCEPT ![l][x] = i]
    /\ match' = [match EXCEPT ![l][x] = 0]
    /\ UNCHANGED <<up, disk, role, poll, rpc, acked>>

(* add_peer and remove_peer of a cluster whose voters are fixed            *)
(* (new_fixed): a join as a voter and the removal of a voter are refused.  *)
(* Without fixed voters the same calls change the quorum; that branch is   *)
(* not modelled.                                                           *)
AddPeer(l, x) ==
    /\ x \in Learners \ learners[l]
    /\ ChangeLearners(l, x, learners[l] \cup {x}, Len(disk[l].log) + 1)

RemovePeer(l, x) ==
    /\ x \in learners[l]
    /\ ChangeLearners(l, x, learners[l] \ {x}, 1)
-----------------------------------------------------------------------------
(* A handler's writes: the metadata, then the log cut and extended entry   *)
(* by entry, then each applied entry.                                      *)
TornAppend(n, req) ==
    LET a == Adopts(disk[n], req.term)
        f == Appended(n, req)
        Reached(k) == \A j \in 1..Len(a.log) : IsPrefix(SubSeq(a.log, 1, j), f.log) => j <= k
    IN {disk[n], a}
       \cup {[a EXCEPT !.log = SubSeq(f.log, 1, k)] : k \in {k \in 0..Len(f.log) : Reached(k)}}
       \cup {[f EXCEPT !.commit = k] : k \in a.commit..f.commit}

StoreFails(n) ==
    \/ MayCampaign(n) /\ Stops(n, {Campaign(n)})
    \/ \E c \in Voters : Asked(n, c) /\ Stops(n, {Voted(n, c)})
    \/ \E m \in rpc :
        /\ m.to = n /\ m.term >= disk[n].term
        /\ Stops(n, TornAppend(n, m))
    \/ /\ Leads(n)
       /\ \/ \E v \in budget.values : Stops(n, {Proposal(n, v)})
          \/ \E k \in Committable(n) : Stops(n, {[disk[n] EXCEPT !.commit = i] : i \in disk[n].commit..k})

Crash(n) == Stops(n, {disk[n]})

(* ClusterNode::new: what was applied is known to be committed. *)
Restart(n) ==
    /\ ~up[n]
    /\ up' = [up EXCEPT ![n] = TRUE]
    /\ UNCHANGED <<disk, volatile, learners, poll, rpc, acked, budget>>

Next ==
    \/ \E n \in Nodes :
        \/ StartElection(n) \/ UpdateCommitIndex(n)
        \/ StoreFails(n) \/ Crash(n) \/ Restart(n)
        \/ \E v \in Values : Propose(n, v)
        \/ \E p \in Nodes \ {n} :
            \/ \E heard \in BOOLEAN : HandleRequestVote(n, p, heard)
            \/ VoteRefused(n, p)
            \/ SendAppendEntries(n, p)
            \/ AddPeer(n, p) \/ RemovePeer(n, p)
    \/ \E m \in rpc :
        \/ \E heard \in BOOLEAN : HandleAppendEntries(m, heard)
        \/ AppendRefused(m) \/ CallFails(m)

Spec == Init /\ [][Next]_vars
-----------------------------------------------------------------------------
(* Whatever two nodes have applied, they have applied the same entries in  *)
(* the same order, learners and stopped nodes included.                    *)
AppliedAgree ==
    \A m, n \in Nodes :
        \A i \in 1..Min({disk[m].commit, disk[n].commit}) : disk[m].log[i] = disk[n].log[i]

(* The entries that some node has applied. *)
Committed ==
    LET n == CHOOSE n \in Nodes : \A m \in Nodes : disk[m].commit <= disk[n].commit
    IN SubSeq(disk[n].log, 1, disk[n].commit)

(* A leader of the latest term holds every entry that any node has         *)
(* applied, so no election undoes a commit, not even one after entries of  *)
(* an earlier term have reached a majority (update_commit_index counts     *)
(* only entries of its own term).                                          *)
LeaderComplete ==
    \A l \in Voters :
        Leads(l) /\ (\A n \in Nodes : disk[n].term <= disk[l].term) =>
            IsPrefix(Committed, disk[l].log)

Contract == INSTANCE ReplicatedLog WITH committed <- Committed

(* The cluster keeps its promise: what is committed is only extended,      *)
(* swaps are atomic, and an acknowledged write is never lost, through      *)
(* elections, crashes and failing stores.                                  *)
ImplementsLog == Contract!Spec
=============================================================================

------------------------- MODULE ReplicatedScheduler -------------------------
(***************************************************************************)
(* The scheduler runners: scheduler-runner/src/main.rs (the loop),         *)
(* replicated.rs (an owner's transitions) and management.rs, over the      *)
(* replicated register that server/src/cluster.rs gives them.              *)
(*                                                                         *)
(* The loop of a runner is one task: while it waits for a compare-and-swap *)
(* it does nothing else.  The swap is a proposal in the leader's log: it   *)
(* may commit whether or not the runner learns of it, and until a barrier  *)
(* of a later term has committed even after its leader was deposed.        *)
(*                                                                         *)
(* The revision of an envelope is left out: epochs, and the order in which *)
(* one leader's log commits, already keep envelopes apart.                 *)
(***************************************************************************)
EXTENDS SchedulerState, ScheduledProtocol

CONSTANTS
    Nodes,      \* the runners, which are the voters of the cluster
    MaxTerm,    \* bound on elections
    Schedules,  \* the definitions in the configuration, in order
    Commands    \* the management commands the operator uses

ASSUME RunnersAssumption ==
    /\ MaxTerm \in Nat
    /\ Commands \subseteq {"create", "cancel", "acknowledge", "disable", "delete"}
    /\ \E k \in 0..MaxSchedules : Schedules \in [1..k -> Definitions]

VARIABLES
    clock,     \* Utc::now()
    reg,       \* the committed envelope
    open,      \* proposals that may still commit
    top,       \* the latest term with a leader
    fence,     \* the latest term whose barrier has committed
    lead,      \* the term a node believes it leads, or 0
    own,       \* main: owner
    phase,     \* main: where the loop is
    prop,      \* the compare-and-swap it waits for
    running,   \* main: running, the tasks of execute_authorized
    ending,    \* main: cancelling and cancellation_pending
    stopping   \* main: stopping

register == <<reg, open, top, fence, lead>>
loopVars == <<own, phase, prop, running, ending, stopping>>
runnersVars == <<clock, register, loopVars>>

(* No envelope has been stored yet. *)
Absent ==
    [epoch      |-> 0,
     owner      |-> "nobody",
     term       |-> 0,
     st         |-> EmptyState,
     claims     |-> [k \in {} |-> 0],
     admissions |-> [k \in {} |-> 0]]

NoOwner == [held |-> FALSE, valid |-> FALSE, env |-> Absent]
NoProp == [kind |-> "none", env |-> Absent, arg |-> {}, done |-> FALSE]

RunnersInit ==
    /\ clock = 0
    /\ reg = Absent
    /\ open = {}
    /\ top = 0
    /\ fence = 0
    /\ lead = [n \in Nodes |-> 0]
    /\ own = [n \in Nodes |-> NoOwner]
    /\ phase = [n \in Nodes |-> "idle"]
    /\ prop = [n \in Nodes |-> NoProp]
    /\ running = [n \in Nodes |-> {}]
    /\ ending = [n \in Nodes |-> {}]
    /\ stopping = [n \in Nodes |-> FALSE]
-----------------------------------------------------------------------------
(* The register.  What happens inside the cluster is abstracted to its     *)
(* results: an election is won, a leader hears of a later term, an entry   *)
(* commits.  A leader compares with the last entry of its own log; at a    *)
(* barrier every surviving entry of an earlier term commits or is lost.    *)

Elect(n) ==
    /\ lead[n] = 0
    /\ top < MaxTerm
    /\ top' = top + 1
    /\ lead' = [lead EXCEPT ![n] = top + 1]
    /\ IF \E m \in Nodes : lead[m] = top /\ top > 0 THEN Fault("election") ELSE UNCHANGED faults
    /\ UNCHANGED <<clock, reg, open, fence, loopVars, net, expired>>

StepDown(n) ==
    /\ lead[n] \notin {0, top}
    /\ lead' = [lead EXCEPT ![n] = 0]
    /\ UNCHANGED <<clock, reg, open, top, fence, loopVars, net, envVars>>

(* An entry reaches a majority and is applied. *)
Commit(p) ==
    /\ p \in open
    /\ p.base = reg
    /\ reg' = p.env
    /\ open' = open \ {p}
    /\ prop' = [n \in Nodes |->
                  IF prop[n].env = p.env THEN [prop[n] EXCEPT !.done = TRUE] ELSE prop[n]]
    /\ UNCHANGED <<clock, top, fence, lead, own, phase, running, ending, stopping, net, envVars>>
-----------------------------------------------------------------------------
(* transition_state.  An owner is usable while no commit of its own failed *)
(* and the node still leads the term it acquired the register in.          *)

Usable(n) == own[n].valid /\ lead[n] = own[n].env.term

FaultyPrune(env) ==
    LET kept == {k \in DOMAIN env.claims :
                    /\ k[1] \in DOMAIN env.st.occ
                    /\ env.st.occ[k[1]].attempt = k[2]}
    IN [env EXCEPT !.claims = [k \in kept |-> env.claims[k]]]

(* prune_receipts: a claim stays as long as the receipt of its attempt. *)
Prune(env) ==
    LET kept == {k \in DOMAIN env.claims :
                    /\ k[1] \in DOMAIN env.st.occ
                    /\ env.st.occ[k[1]].attempt = k[2]}
    IN [env EXCEPT
          !.claims     = [k \in kept |-> env.claims[k]],
          !.admissions = [k \in kept \cap DOMAIN env.admissions |-> env.admissions[k]]]

Await(n, kind, base, env, arg) ==
    /\ open' = (IF kind = "acquire" THEN {} ELSE open)
               \cup (IF lead[n] >= fence THEN {[base |-> base, env |-> env]} ELSE {})
    /\ phase' = [phase EXCEPT ![n] = "wait"]
    /\ prop' = [prop EXCEPT ![n] = [kind |-> kind, env |-> env, arg |-> arg, done |-> FALSE]]
    /\ UNCHANGED <<reg, top, lead>>

(* The owner is invalid from here until the commit is known. *)
Propose(n, kind, env, arg) ==
    /\ Usable(n)
    /\ own' = [own EXCEPT ![n].valid = FALSE]
    /\ Await(n, kind, own[n].env, Prune(env), arg)
    /\ UNCHANGED fence

ProposeState(n, kind, st) == Propose(n, kind, [own[n].env EXCEPT !.st = st], {})

(* It returns an error before the commit: a caller that keeps the owner,   *)
(* and one that drops it.                                                  *)
Refused503(n) == own' = [own EXCEPT ![n].valid = @ /\ Usable(n)]
Dropped(n) == own' = [own EXCEPT ![n] = NoOwner]
-----------------------------------------------------------------------------
(* The pulse: lose, acquire or use the ownership.                          *)

Idle(n) == phase[n] = "idle"
Pulse(n) == Idle(n) /\ ~stopping[n]

PulseFollower(n) ==
    /\ Pulse(n)
    /\ lead[n] = 0
    /\ Dropped(n)
    /\ UNCHANGED <<clock, register, phase, prop, running, ending, stopping, net, envVars>>

Owns(n) == own[n].held /\ own[n].env.term = lead[n]

PulseAcquires(n) ==
    /\ Pulse(n)
    /\ lead[n] > 0
    /\ ~Owns(n)
    /\ phase' = [phase EXCEPT ![n] = "barrier"]
    /\ UNCHANGED <<clock, register, own, prop, running, ending, stopping, net, envVars>>

Fold == INSTANCE Folds
Greatest(S) == CHOOSE x \in S : \A y \in S : x >= y

(* Apply Op(acc, x) to the members of S in increasing order. *)
InOrder(Op(_, _), base, S) ==
    Fold!MapThenFoldSet(LAMBDA x, acc : Op(acc, x), base, LAMBDA x : x, Greatest, S)

(* Core::from_checkpoint with recovery; the first owner creates the        *)
(* configured schedules.                                                   *)
Recovered(old) ==
    IF old.epoch = 0
    THEN InOrder(LAMBDA st, i : CreateSchedule(st, Schedules[i], clock),
                 EmptyState, DOMAIN Schedules)
    ELSE InterruptRunning(old.st)

Acquired(n, old) ==
    Prune([epoch      |-> old.epoch + 1,
           owner      |-> n,
           term       |-> lead[n],
           st         |-> Recovered(old),
           claims     |-> old.claims,
           admissions |-> old.admissions])

(* The barrier has committed, and with it the leader's earlier entries.    *)
Acquire(n) ==
    /\ phase[n] = "barrier"
    /\ lead[n] = top
    /\ \A p \in open : p.env.term # lead[n]
    /\ Await(n, "acquire", reg, Acquired(n, reg), {})
    /\ fence' = lead[n]
    /\ UNCHANGED <<clock, own, running, ending, stopping, net, envVars>>

(* Leadership was lost, or the wait was too long. *)
BarrierFails(n) ==
    /\ phase[n] = "barrier"
    /\ phase' = [phase EXCEPT ![n] = "idle"]
    /\ IF lead[n] = top THEN Fault("timeout") ELSE UNCHANGED faults
    /\ UNCHANGED <<clock, register, own, prop, running, ending, stopping, net, expired>>

FaultyCancellations(env) ==
    {env.claims[k] : k \in {c \in DOMAIN env.claims :
                              /\ c[1] \in DOMAIN env.st.occ
                              /\ env.st.occ[c[1]].kind = "Cancelling"
                              /\ env.claims[c].epoch = env.epoch}}

(* Replicated::cancellations. *)
Cancellations(env) ==
    {env.claims[k] : k \in {c \in DOMAIN env.claims :
                              /\ c[1] \in DOMAIN env.st.occ
                              /\ env.st.occ[c[1]].kind = "Cancelling"
                              /\ env.st.occ[c[1]].attempt = c[2]}}

(* Core::observe; ok is FALSE when identities ran out. *)
ObserveSlots(acc, s, now) ==
    InOrder(LAMBDA a, due :
                IF ~a.ok \/ IdExhausted(a.st, s)
                THEN [a EXCEPT !.ok = FALSE]
                ELSE [a EXCEPT !.st = AdmitSlot(a.st, s, due, now)],
            [acc EXCEPT !.st = AdvanceCursor(acc.st, s, now)],
            Admissible(acc.st.sched[s], now))

Observed(st, now) ==
    LET all == InOrder(LAMBDA acc, s : ObserveSlots(acc, s, now),
                       [ok |-> TRUE, st |-> st], DueSchedules(st, now))
    IN IF now <= st.watermark
       THEN [ok |-> TRUE, st |-> st]
       ELSE [all EXCEPT !.st.watermark = now]

(* Spawn the cancellations that are due, then observe unless the grant has *)
(* expired.                                                                *)
Sweep(n) ==
    LET due == {d \in Cancellations(own[n].env) : \A e \in ending[n] : e.occ # d.occ}
        view == Observed(own[n].env.st, clock)
    IN
    /\ (Pulse(n) /\ lead[n] > 0 /\ Owns(n)) \/ phase[n] = "sweep"
    /\ ending' = [ending EXCEPT ![n] = @ \cup due]
    /\ cancels' = cancels \cup {[n |-> n, d |-> d] : d \in due}
    /\ UNCHANGED <<clock, running, stopping>>
    /\ UNCHANGED <<execs, accepted, gone, calls, asking, answers, results, envVars>>
    /\ \/ /\ expired
          /\ phase' = [phase EXCEPT ![n] = "idle"]
          /\ UNCHANGED <<register, own, prop>>
       \/ /\ ~expired
          /\ view.ok
          /\ ProposeState(n, "observe", view.st)
       \/ /\ ~expired
          /\ ~Usable(n) \/ ~view.ok
          /\ Dropped(n)
          /\ phase' = [phase EXCEPT ![n] = "idle"]
          /\ UNCHANGED <<register, prop>>

(* claim_for_worker. *)
DispatchOf(n, i) ==
    [occ     |-> i,
     sched   |-> own[n].env.st.occ[i].sched,
     attempt |-> own[n].env.st.occ[i].attempt,
     owner   |-> n,
     epoch   |-> own[n].env.epoch]

ClaimEnv(n, i) ==
    LET d == DispatchOf(n, i) IN
    [own[n].env EXCEPT
       !.st     = ClaimOccurrence(@, i),
       !.claims = Put(@, Key(d), d)]

Fresh(n, i) == Key(DispatchOf(n, i)) \notin DOMAIN own[n].env.claims

ClaimNext(n) ==
    LET st == own[n].env.st IN
    /\ phase[n] = "claim"
    /\ UNCHANGED <<clock, running, ending, stopping, net, envVars>>
    /\ \/ \E i \in DOMAIN st.occ :
            /\ IsCandidate(st, i, clock)
            /\ Fresh(n, i)
            /\ Propose(n, "claim", ClaimEnv(n, i), {DispatchOf(n, i)})
       \/ /\ Claimable(st, clock) = {}
          /\ ProposeState(n, "claim", st)
       \/ /\ Usable(n) => \E i \in DOMAIN st.occ : IsCandidate(st, i, clock) /\ ~Fresh(n, i)
          /\ Dropped(n)
          /\ phase' = [phase EXCEPT ![n] = "idle"]
          /\ UNCHANGED <<register, prop>>
-----------------------------------------------------------------------------
(* admit_classified. *)

CanAdmit(env, a) ==
    LET d == a.d IN
    /\ d.occ \in DOMAIN env.st.occ
    /\ env.st.occ[d.occ].kind = "Running"
    /\ env.st.occ[d.occ].attempt = d.attempt
    /\ d.epoch = env.epoch
    /\ ~expired
    /\ Key(d) \in DOMAIN env.claims /\ env.claims[Key(d)] = d
    /\ Key(d) \notin DOMAIN env.admissions

(* Only an attempt that no permit was ever committed for is certified as   *)
(* not launched.                                                           *)
NeverAdmitted(env, a) ==
    /\ Key(a.d) \notin DOMAIN env.admissions
    /\ Key(a.d) \in DOMAIN env.claims /\ env.claims[Key(a.d)] = a.d
    /\ CanReject(env.st, a.d.occ, a.d.attempt)

ServeAdmission(n, a) ==
    LET env == own[n].env IN
    /\ Idle(n)
    /\ a \in calls
    /\ calls' = calls \ {a}
    /\ UNCHANGED <<clock, running, ending, stopping>>
    /\ UNCHANGED <<execs, accepted, gone, asking, cancels, results, envVars>>
    /\ \/ /\ ~own[n].held
          /\ Answer(a, "conflict")
          /\ UNCHANGED <<register, own, phase, prop>>
       \/ /\ own[n].held
          /\ CanAdmit(env, a)
          /\ Propose(n, "admit", [env EXCEPT !.admissions = Put(@, Key(a.d), a.inc)], {a})
          /\ UNCHANGED answers
       \/ /\ own[n].held
          /\ ~CanAdmit(env, a) /\ NeverAdmitted(env, a)
          /\ Propose(n, "reject", [env EXCEPT !.st = RejectUnadmitted(@, a.d.occ)], {a})
          /\ UNCHANGED answers
       \/ /\ own[n].held
          /\ ~Usable(n) \/ (~CanAdmit(env, a) /\ ~NeverAdmitted(env, a))
          /\ Refused503(n)
          /\ UNCHANGED <<register, phase, prop, answers>>
-----------------------------------------------------------------------------
(* Results of the tasks. *)

Holds(env, d, kinds) ==
    /\ d.occ \in DOMAIN env.st.occ
    /\ env.st.occ[d.occ].kind \in kinds
    /\ env.st.occ[d.occ].attempt = d.attempt

Finished(env, d, outcome) ==
    FinishInvocation(env.st, Invocation(env.st, d.occ), outcome, clock)

(* running.join_next: the result counts only for the owner of that term.   *)
TaskDone(n, t) ==
    LET counts == /\ own[n].held
                  /\ own[n].env.term = t.term
                  /\ Holds(own[n].env, t.d, {"Running", "Cancelling"})
    IN
    /\ Idle(n)
    /\ t \in running[n] /\ t.step = "done"
    /\ running' = [running EXCEPT ![n] = @ \ {t}]
    /\ UNCHANGED <<clock, ending, stopping, net, envVars>>
    /\ \/ /\ ~counts
          /\ UNCHANGED <<register, own, phase, prop>>
       \/ /\ counts
          /\ ProposeState(n, "finish", Finished(own[n].env, t.d, t.outcome))
       \/ /\ counts /\ ~Usable(n)
          /\ Dropped(n)
          /\ UNCHANGED <<register, phase, prop>>

(* cancelling.join_next and finish_cancellation.  A cancellation that gets *)
(* no answer is Unknown.                                                   *)
CancellationDone(n, d, outcome) ==
    LET counts == own[n].held /\ Holds(own[n].env, d, {"Cancelling"}) IN
    /\ Idle(n)
    /\ d \in ending[n]
    /\ outcome = "Unknown" \/ [n |-> n, d |-> d, outcome |-> outcome] \in results
    /\ ending' = [ending EXCEPT ![n] = @ \ {d}]
    /\ results' = {r \in results : r.n # n \/ r.d # d}
    /\ UNCHANGED <<clock, running, stopping>>
    /\ UNCHANGED <<execs, accepted, gone, calls, asking, answers, cancels, envVars>>
    /\ \/ /\ ~counts
          /\ UNCHANGED <<register, own, phase, prop>>
       \/ /\ counts
          /\ ProposeState(n, "finish", Finished(own[n].env, d, outcome))
       \/ /\ counts /\ ~Usable(n)
          /\ Dropped(n)
          /\ UNCHANGED <<register, phase, prop>>
-----------------------------------------------------------------------------
(* management::execute.  An error leaves the owner where it is. *)

Manage(n, st) ==
    /\ Pulse(n)
    /\ own[n].held
    /\ UNCHANGED <<clock, running, ending, stopping, net, envVars>>
    /\ \/ ProposeState(n, "manage", st)
       \/ /\ ~Usable(n)
          /\ Refused503(n)
          /\ UNCHANGED <<register, phase, prop>>

RequestCancelOf(n, i) ==
    LET st == own[n].env.st IN
    /\ i \in DOMAIN st.occ
    /\ Manage(n, IF CanRequestCancel(st, i) THEN RequestCancel(st, i) ELSE st)

AcknowledgeOf(n, i) ==
    /\ CanAcknowledge(own[n].env.st, i)
    /\ Manage(n, AcknowledgeStopped(own[n].env.st, i))

StopScheduleOf(n, s, delete) ==
    /\ s \in DOMAIN own[n].env.st.sched
    /\ Manage(n, StopSchedule(own[n].env.st, s, delete))

CreateOf(n, d) ==
    /\ CanCreate(own[n].env.st, d, clock)
    /\ Manage(n, CreateSchedule(own[n].env.st, d, clock))
-----------------------------------------------------------------------------
(* The compare-and-swap returns. *)

Back(n, to) ==
    /\ phase' = [phase EXCEPT ![n] = to]
    /\ prop' = [prop EXCEPT ![n] = NoProp]

NewTask(n, d) == [term |-> own[n].env.term, d |-> d, step |-> "new", inc |-> 0, outcome |-> "none"]

(* await_commit sees the entry applied and the node still leading. *)
Learn(n) ==
    LET p == prop[n] IN
    /\ phase[n] = "wait"
    /\ p.done
    /\ lead[n] = p.env.term
    /\ own' = [own EXCEPT ![n] = [held |-> TRUE, valid |-> TRUE, env |-> p.env]]
    /\ UNCHANGED <<clock, register, ending, stopping, envVars>>
    /\ UNCHANGED <<execs, accepted, gone, calls, asking, cancels, results>>
    /\ \/ /\ p.kind = "acquire"
          /\ Back(n, "sweep")
          /\ UNCHANGED <<running, answers>>
       \/ /\ p.kind = "observe"
          /\ Back(n, "claim")
          /\ UNCHANGED <<running, answers>>
       \/ /\ p.kind = "claim"
          /\ Back(n, IF p.arg = {} THEN "idle" ELSE "claim")
          /\ running' = [running EXCEPT ![n] = @ \cup {NewTask(n, d) : d \in p.arg}]
          /\ UNCHANGED answers
       \/ /\ p.kind \in {"admit", "reject"}
          /\ \E a \in p.arg : Answer(a, IF p.kind = "admit" THEN "permit" ELSE "gone")
          /\ Back(n, "idle")
          /\ UNCHANGED running
       \/ /\ p.kind \in {"finish", "manage"}
          /\ Back(n, "idle")
          /\ UNCHANGED <<running, answers>>

(* The outcome stays unknown: leadership was lost, or the wait was too     *)
(* long, which costs a fault when the entry can still commit.              *)
FaultyAfterFailure(n, kind) == [own[n] EXCEPT !.valid = TRUE]

AfterFailure(n, kind) ==
    IF kind \in {"observe", "claim", "finish"} THEN NoOwner ELSE own[n]

Fail(n) ==
    LET p == prop[n] IN
    /\ phase[n] = "wait"
    /\ IF lead[n] = p.env.term /\ lead[n] = top THEN Fault("timeout") ELSE UNCHANGED faults
    /\ own' = [own EXCEPT ![n] = AfterFailure(n, p.kind)]
    /\ Back(n, "idle")
    /\ UNCHANGED <<clock, register, running, ending, stopping, net, expired>>
-----------------------------------------------------------------------------
(* The process. *)

Shutdown(n) ==
    /\ Pulse(n)
    /\ Fault("shutdown")
    /\ stopping' = [stopping EXCEPT ![n] = TRUE]
    /\ UNCHANGED <<clock, register, own, phase, prop, running, ending, net, expired>>

(* The process ends, and the node starts again as a follower.  Requests of *)
(* its tasks stay on their way.                                            *)
Restarted(n) ==
    /\ lead' = [lead EXCEPT ![n] = 0]
    /\ own' = [own EXCEPT ![n] = NoOwner]
    /\ phase' = [phase EXCEPT ![n] = "idle"]
    /\ prop' = [prop EXCEPT ![n] = NoProp]
    /\ running' = [running EXCEPT ![n] = {}]
    /\ ending' = [ending EXCEPT ![n] = {}]
    /\ stopping' = [stopping EXCEPT ![n] = FALSE]
    /\ results' = {r \in results : r.n # n}
    /\ UNCHANGED <<clock, reg, open, top, fence, expired>>
    /\ UNCHANGED <<execs, accepted, gone, calls, asking, answers, cancels>>

Drained(n) ==
    /\ Idle(n)
    /\ stopping[n] /\ running[n] = {} /\ ending[n] = {}
    /\ Restarted(n)
    /\ UNCHANGED faults

RunnerCrash(n) ==
    /\ Fault("runner")
    /\ Restarted(n)

Tick ==
    /\ clock < MaxTime
    /\ clock' = clock + 1
    /\ UNCHANGED <<register, loopVars, net, envVars>>
=============================================================================

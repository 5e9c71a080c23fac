--------------------------- MODULE SchedulerState ---------------------------
(***************************************************************************)
(* The state a scheduler core keeps (scheduler-core/src/core.rs, struct    *)
(* State) and the transitions of Core as operators from one such state to  *)
(* the next.  Nothing here stores anything: SchedulerCore commits these    *)
(* states to a local store.                                                *)
(*                                                                         *)
(* Operators named Faulty... are variants of the definition after them     *)
(* with one defect, to show that a property notices it; nothing uses them. *)
(*                                                                         *)
(* Abstractions.  Time is a bounded set of instants.  A cron expression    *)
(* with its timezone is the set of instants it fires at.  Names, code and  *)
(* failure details are left out: no transition reads them.                 *)
(***************************************************************************)
EXTENDS Integers, FiniteSets

CONSTANTS
    Definitions,     \* schedule definitions a client may submit
    MaxTime,         \* last instant of the wall clock
    MaxId,           \* largest identity: u64::MAX in the code
    MaxRejected,     \* where the rejection counter saturates: u64::MAX
    MaxSchedules,    \* Limits::schedules
    MaxRecords,      \* Limits::records
    MaxOutstanding,  \* Limits::outstanding
    MaxRunning,      \* Limits::running
    Grace            \* Limits::grace_seconds

Time == 0..MaxTime
Id == 1..MaxId

(* What a Definition says that Core reads: struct Policy and the calendar. *)
DefinitionType ==
    [missed     : {"Skip", "RunOnce", "CatchUp"},
     cap        : Nat,
     overlap    : {"Skip", "Queue", "Concurrent"},
     maxRetries : Nat,
     delay      : Nat,
     slots      : SUBSET Nat]

ASSUME BoundsAssumption ==
    /\ MaxTime \in Nat
    /\ MaxId \in Nat \ {0}
    /\ MaxRejected \in Nat

(* Limits::validate. *)
ASSUME LimitsAssumption ==
    /\ MaxSchedules \in Nat \ {0}
    /\ MaxRecords \in Nat \ {0}
    /\ MaxOutstanding \in 1..MaxRecords
    /\ MaxRunning \in 1..MaxOutstanding
    /\ Grace \in Nat

(* The calendar of a definition that parsed always has a later slot. *)
ASSUME DefinitionsAssumption ==
    /\ Definitions \subseteq DefinitionType
    /\ \A d \in Definitions : \A t \in Time : \E s \in d.slots : s > t

-----------------------------------------------------------------------------
(* Status: the kind of an occurrence; every kind carries an attempt, and   *)
(* Pending also the instant at which it may be claimed.                    *)

TerminalKinds == {"Succeeded", "Failed", "Abandoned", "Cancelled"}
ActiveKinds == {"Running", "Unknown", "Cancelling"}
Kinds == {"Pending"} \cup ActiveKinds \cup TerminalKinds

ScheduleType ==
    [def      : Definitions,
     enabled  : BOOLEAN,
     deleted  : BOOLEAN,
     nextDue  : Nat,
     rejected : 0..MaxRejected]

OccurrenceType ==
    [sched   : Id,
     due     : Nat,
     kind    : Kinds,
     attempt : Nat \ {0},
     readyAt : Nat]

NoWatermark == -1

(* struct State; schedules and occurrences draw identities from one counter. *)
EmptyState ==
    [nextId    |-> 1,
     watermark |-> NoWatermark,
     sched     |-> [i \in {} |-> 0],
     occ       |-> [i \in {} |-> 0]]

IsMap(f, D, R) ==
    /\ DOMAIN f \in SUBSET D
    /\ f \in [DOMAIN f -> R]

IsState(st) ==
    /\ st = [nextId    |-> st.nextId,
             watermark |-> st.watermark,
             sched     |-> st.sched,
             occ       |-> st.occ]
    /\ st.nextId \in Id
    /\ st.watermark \in Time \cup {NoWatermark}
    /\ IsMap(st.sched, Id, ScheduleType)
    /\ IsMap(st.occ, Id, OccurrenceType)

Put(f, k, v) == [x \in DOMAIN f \cup {k} |-> IF x = k THEN v ELSE f[x]]
Remove(f, k) == [x \in DOMAIN f \ {k} |-> f[x]]

Unresolved(st) == {i \in DOMAIN st.occ : st.occ[i].kind \notin TerminalKinds}
Active(st) == {i \in DOMAIN st.occ : st.occ[i].kind \in ActiveKinds}
Terminal(st) == {i \in DOMAIN st.occ : st.occ[i].kind \in TerminalKinds}

(* What a receipt says of an occurrence: its status and its attempt. *)
Receipt(o) == [kind |-> o.kind, attempt |-> o.attempt]

DefOf(st, i) == st.sched[st.occ[i].sched].def
Overlap(st, i) == DefOf(st, i).overlap

Least(S) == CHOOSE x \in S : \A y \in S : x <= y

SetStatus(st, i, kind, attempt, readyAt) ==
    [st EXCEPT !.occ[i] = [sched   |-> st.occ[i].sched,
                           due     |-> st.occ[i].due,
                           kind    |-> kind,
                           attempt |-> attempt,
                           readyAt |-> readyAt]]

SetKind(st, i, kind) == SetStatus(st, i, kind, st.occ[i].attempt, 0)
-----------------------------------------------------------------------------
(* create, stop_schedule (disable and delete).                             *)

(* fn next: the first slot strictly after t. *)
NextSlot(d, t) == Least({s \in d.slots : s > t})

FaultyCanCreate(st, d, now) ==
    /\ now >= st.watermark
    /\ d.missed = "CatchUp" => d.cap \in 1..MaxOutstanding
    /\ Cardinality({s \in DOMAIN st.sched : ~st.sched[s].deleted}) < MaxSchedules
    /\ st.nextId < MaxId

CanCreate(st, d, now) ==
    /\ now >= st.watermark
    /\ d.missed = "CatchUp" => d.cap \in 1..MaxOutstanding
    /\ Cardinality(DOMAIN st.sched) < MaxSchedules
    /\ st.nextId < MaxId

NewSchedule(d, now) ==
    [def      |-> d,
     enabled  |-> TRUE,
     deleted  |-> FALSE,
     nextDue  |-> NextSlot(d, now),
     rejected |-> 0]

CreateSchedule(st, d, now) ==
    [nextId    |-> st.nextId + 1,
     watermark |-> st.watermark,
     sched     |-> Put(st.sched, st.nextId, NewSchedule(d, now)),
     occ       |-> st.occ]

StopSchedule(st, s, delete) ==
    [st EXCEPT !.sched[s].enabled = FALSE, !.sched[s].deleted = @ \/ delete]
-----------------------------------------------------------------------------
(* observe: one iteration per schedule, in identity order, and one per     *)
(* selected slot, in chronological order.                                  *)

Cap(d) == IF d.missed = "CatchUp" THEN d.cap ELSE 1

(* The newest Cap slots of [first, now]; under Skip only those on time. *)
Selected(d, first, now) ==
    {s \in d.slots :
        /\ first <= s /\ s <= now
        /\ Cardinality({u \in d.slots : s < u /\ u <= now}) < Cap(d)
        /\ d.missed = "Skip" => now - s <= Grace}

FaultyAdmissible(sch, now) == Selected(sch.def, sch.nextDue, now)

(* A disabled schedule selects nothing; its cursor moves all the same. *)
Admissible(sch, now) ==
    IF sch.enabled THEN Selected(sch.def, sch.nextDue, now) ELSE {}

FaultyDueSchedules(st, now) == {s \in DOMAIN st.sched : st.sched[s].nextDue < now}

DueSchedules(st, now) == {s \in DOMAIN st.sched : st.sched[s].nextDue <= now}

FaultyAdvanceCursor(st, s, now) ==
    [st EXCEPT !.sched[s].nextDue = NextSlot(st.sched[s].def, @)]

AdvanceCursor(st, s, now) ==
    [st EXCEPT !.sched[s].nextDue = NextSlot(st.sched[s].def, now)]

Reject(st, s) ==
    [st EXCEPT !.sched[s].rejected = IF @ < MaxRejected THEN @ + 1 ELSE @]

Occupied(st, s) == \E i \in Unresolved(st) : st.occ[i].sched = s

Refused(st, s) ==
    \/ st.sched[s].def.overlap = "Skip" /\ Occupied(st, s)
    \/ Cardinality(Unresolved(st)) >= MaxOutstanding

RecordsFull(st) == Cardinality(DOMAIN st.occ) >= MaxRecords

FaultyEvictNothing(st) == st

FaultyEvict(st) ==
    IF RecordsFull(st) THEN [st EXCEPT !.occ = Remove(@, Least(DOMAIN st.occ))] ELSE st

(* At the record limit the oldest terminal receipt makes room. *)
Evict(st) ==
    IF RecordsFull(st) THEN [st EXCEPT !.occ = Remove(@, Least(Terminal(st)))] ELSE st

NewOccurrence(s, due, now) ==
    [sched   |-> s,
     due     |-> due,
     kind    |-> "Pending",
     attempt |-> 1,
     readyAt |-> now]

Insert(st, s, due, now) ==
    [nextId    |-> st.nextId + 1,
     watermark |-> st.watermark,
     sched     |-> st.sched,
     occ       |-> Put(st.occ, st.nextId, NewOccurrence(s, due, now))]

AdmitSlot(st, s, due, now) ==
    IF \/ Refused(st, s)
       \/ RecordsFull(st) /\ Terminal(st) = {}
    THEN Reject(st, s)
    ELSE Insert(Evict(st), s, due, now)

FaultyIdExhausted(st, s) == FALSE

(* Inserting the slot would run out of identities: observe fails. *)
IdExhausted(st, s) ==
    /\ ~Refused(st, s)
    /\ RecordsFull(st) => Terminal(st) # {}
    /\ st.nextId = MaxId
-----------------------------------------------------------------------------
(* claim and finish.                                                       *)

FaultyBlocked(st, i) ==
    /\ Overlap(st, i) # "Concurrent"
    /\ \E j \in Active(st) \ {i} : st.occ[j].sched = st.occ[i].sched

(* Queue order: an earlier unresolved occurrence of the schedule, or any   *)
(* active one, holds this one back.                                        *)
Blocked(st, i) ==
    /\ Overlap(st, i) # "Concurrent"
    /\ \E j \in Unresolved(st) \ {i} :
        /\ st.occ[j].sched = st.occ[i].sched
        /\ j \in Active(st) \/ j < i

FaultyClaimable(st, now) ==
    {i \in DOMAIN st.occ :
        /\ st.occ[i].kind = "Pending"
        /\ st.occ[i].readyAt <= now
        /\ ~Blocked(st, i)}

Claimable(st, now) ==
    {i \in DOMAIN st.occ :
        /\ Cardinality(Active(st)) < MaxRunning
        /\ st.occ[i].kind = "Pending"
        /\ st.occ[i].readyAt <= now
        /\ ~Blocked(st, i)}

(* find_map over the ordered map: the lowest identity wins. *)
IsCandidate(st, i, now) ==
    /\ i \in Claimable(st, now)
    /\ \A j \in Claimable(st, now) : i <= j

ClaimOccurrence(st, i) == SetKind(st, i, "Running")

Outcomes == {"Succeeded", "Cancelled", "Failed", "Unknown"}

Invocation(st, i) ==
    [occ     |-> i,
     sched   |-> st.occ[i].sched,
     due     |-> st.occ[i].due,
     attempt |-> st.occ[i].attempt]

InvocationType == [occ : Id, sched : Id, due : Nat, attempt : Nat \ {0}]

CanFinish(st, inv) ==
    /\ inv.occ \in DOMAIN st.occ
    /\ st.occ[inv.occ].kind \in {"Running", "Cancelling"}
    /\ inv = Invocation(st, inv.occ)

FaultyRetries(st, inv, outcome) ==
    /\ outcome = "Failed"
    /\ inv.attempt <= DefOf(st, inv.occ).maxRetries

Retries(st, inv, outcome) ==
    /\ outcome = "Failed"
    /\ st.occ[inv.occ].kind # "Cancelling"
    /\ inv.attempt <= DefOf(st, inv.occ).maxRetries

Requeue(st, i, ready) == SetStatus(st, i, "Pending", st.occ[i].attempt + 1, ready)

FinishInvocation(st, inv, outcome, now) ==
    LET i == inv.occ IN
    IF Retries(st, inv, outcome)
    THEN Requeue(st, i, now + DefOf(st, i).delay)
    ELSE IF outcome = "Unknown" /\ st.occ[i].kind = "Cancelling"
    THEN st
    ELSE SetKind(st, i, outcome)
-----------------------------------------------------------------------------
(* request_cancel, acknowledge_stopped, reject_unadmitted, recovery.       *)

CanRequestCancel(st, i) ==
    /\ i \in DOMAIN st.occ
    /\ st.occ[i].kind \in {"Pending", "Running", "Unknown"}

FaultyRequestCancel(st, i) == SetKind(st, i, "Cancelled")

RequestCancel(st, i) ==
    SetKind(st, i, IF st.occ[i].kind = "Pending" THEN "Cancelled" ELSE "Cancelling")

CanAcknowledge(st, i) ==
    /\ i \in DOMAIN st.occ
    /\ st.occ[i].kind \in {"Unknown", "Cancelling"}

AcknowledgeStopped(st, i) == SetKind(st, i, "Abandoned")

CanReject(st, i, attempt) ==
    /\ i \in DOMAIN st.occ
    /\ st.occ[i].kind \in ActiveKinds
    /\ st.occ[i].attempt = attempt

RejectUnadmitted(st, i) ==
    SetKind(st, i, IF st.occ[i].kind = "Cancelling" THEN "Cancelled" ELSE "Failed")

FaultyInterruptFails(st) ==
    [st EXCEPT !.occ = [i \in DOMAIN st.occ |->
        IF st.occ[i].kind = "Running" THEN [st.occ[i] EXCEPT !.kind = "Failed"] ELSE st.occ[i]]]

FaultyInterruptRequeues(st) ==
    [st EXCEPT !.occ = [i \in DOMAIN st.occ |->
        IF st.occ[i].kind = "Running" THEN [st.occ[i] EXCEPT !.kind = "Pending"] ELSE st.occ[i]]]

FaultyInterruptNothing(st) == st

(* interrupt_running, and the loop of from_config. *)
InterruptRunning(st) ==
    [st EXCEPT !.occ = [i \in DOMAIN st.occ |->
        IF st.occ[i].kind = "Running" THEN [st.occ[i] EXCEPT !.kind = "Unknown"] ELSE st.occ[i]]]

(* The limits of SchedulerState hold of a state: retained receipts,        *)
(* unresolved occurrences (a failure that becomes a retry included), and   *)
(* active ones (Unknown and Cancelling included).                          *)
Within(st) ==
    /\ Cardinality(DOMAIN st.sched) <= MaxSchedules
    /\ Cardinality(DOMAIN st.occ) <= MaxRecords
    /\ Cardinality(Unresolved(st)) <= MaxOutstanding
    /\ Cardinality(Active(st)) <= MaxRunning
=============================================================================

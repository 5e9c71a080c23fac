------------------------- MODULE SchedulerStateProofs ------------------------
(***************************************************************************)
(* What the transitions of SchedulerState preserve, for every value of the *)
(* constants.                                                              *)
(*                                                                         *)
(* Sound(st, H, L) is what is true of every state st the scheduler holds,  *)
(* given the invocations H that claim has returned and the executions L    *)
(* that are alive.  Most transitions are Tame: they drop receipts or move  *)
(* them towards a terminal status, and Tame steps preserve Sound.          *)
(* Insertion, claim and requeue are treated one by one.                    *)
(***************************************************************************)
EXTENDS SchedulerState, FiniteSetTheorems, NaturalsInduction, WellFoundedInduction, TLAPS

SchedOf(st, i) == st.sched[st.occ[i].sched]

(* Identities are below the counter and receipts name known schedules. *)
Linked(st) ==
    /\ \A s \in DOMAIN st.sched : s < st.nextId
    /\ \A i \in DOMAIN st.occ : i < st.nextId /\ st.occ[i].sched \in DOMAIN st.sched

(* A schedule that is not Concurrent has one active receipt at most. *)
Exclusive(st) ==
    \A i, j \in Active(st) :
        st.occ[i].sched = st.occ[j].sched /\ i # j => Overlap(st, i) = "Concurrent"

(* What claim returned earlier agrees with the receipt, if it is kept, and *)
(* a receipt that is Pending has a newer attempt.                          *)
History(st, H) ==
    \A inv \in H :
        /\ inv.occ < st.nextId
        /\ inv.occ \in DOMAIN st.occ =>
            /\ inv.sched = st.occ[inv.occ].sched
            /\ inv.due = st.occ[inv.occ].due
            /\ inv.attempt <= st.occ[inv.occ].attempt
            /\ st.occ[inv.occ].kind = "Pending" => inv.attempt < st.occ[inv.occ].attempt

(* What is executing is the current attempt of an active receipt. *)
Alive(st, L) ==
    \A inv \in L : inv.occ \in Active(st) /\ inv = Invocation(st, inv.occ)

Ordered(st, H) ==
    \A inv \in H : \A i \in Unresolved(st) :
        st.occ[i].sched = inv.sched /\ i < inv.occ => Overlap(st, i) = "Concurrent"

(* Cursors are past every admitted slot, and slots name their occurrence. *)
Slotted(st, H) ==
    /\ \A i \in DOMAIN st.occ : st.occ[i].due < SchedOf(st, i).nextDue
    /\ \A i, j \in DOMAIN st.occ :
        st.occ[i].sched = st.occ[j].sched /\ st.occ[i].due = st.occ[j].due => i = j
    /\ \A inv \in H :
        /\ inv.sched \in DOMAIN st.sched
        /\ inv.due < st.sched[inv.sched].nextDue
        /\ \A i \in DOMAIN st.occ :
            st.occ[i].sched = inv.sched /\ st.occ[i].due = inv.due => i = inv.occ

Sound(st, H, L) ==
    /\ IsState(st)
    /\ Within(st)
    /\ Linked(st)
    /\ Exclusive(st)
    /\ History(st, H)
    /\ Alive(st, L)
    /\ Ordered(st, H)
    /\ Slotted(st, H)

(* The slots still to be admitted are new, and below the cursor. *)
Fresh(st, s, dues, H) ==
    \A d \in dues :
        /\ s \in DOMAIN st.sched
        /\ d < st.sched[s].nextDue
        /\ \A i \in DOMAIN st.occ : st.occ[i].sched = s => st.occ[i].due # d
        /\ \A inv \in H : inv.sched = s => inv.due # d
-----------------------------------------------------------------------------
USE Zenon

(* Least is a minimum of every non-empty set of naturals (used for cursors *)
(* and for the receipt that is evicted).                                   *)
LEMMA LeastIsMinimum ==
    ASSUME NEW S \in SUBSET Nat, S # {}
    PROVE  Least(S) \in S /\ \A y \in S : Least(S) <= y
<1>1. \E x \in S : \A y \in S : ~(<<y, x>> \in OpToRel(<, Nat))
  BY NatLessThanWellFounded, WFMin
<1>2. PICK x \in S : \A y \in S : ~(<<y, x>> \in OpToRel(<, Nat))
  BY <1>1
<1>3. \A y \in S : ~(y < x)
  <2>1. OpToRel(<, Nat) = {p \in Nat \X Nat : p[1] < p[2]}
    BY DEF OpToRel
  <2> QED
    BY <1>2, <2>1
<1>4. \A y \in S : x <= y
  BY <1>3, SMT
<1> QED
  BY <1>4 DEF Least

(* The cursor fn next computes is a slot strictly after the instant. *)
LEMMA NextSlotLater ==
    ASSUME NEW d \in Definitions, NEW t \in Time
    PROVE  NextSlot(d, t) \in Nat /\ NextSlot(d, t) > t
<1> DEFINE S == {x \in d.slots : x > t}
<1>1. S \in SUBSET Nat /\ S # {}
  BY DefinitionsAssumption DEF DefinitionType
<1>2. Least(S) \in S
  BY <1>1, LeastIsMinimum
<1> QED
  BY <1>1, <1>2 DEF NextSlot

(* A state has finitely many schedules and receipts. *)
LEMMA StateFinite ==
    ASSUME NEW st, IsState(st)
    PROVE  /\ IsFiniteSet(DOMAIN st.sched)
           /\ IsFiniteSet(DOMAIN st.occ)
           /\ IsFiniteSet(Unresolved(st))
           /\ IsFiniteSet(Active(st))
<1>1. IsFiniteSet(Id)
  BY FS_Interval, BoundsAssumption, SMT DEF Id
<1> QED
  BY <1>1, FS_Subset DEF IsState, IsMap, Unresolved, Active
-----------------------------------------------------------------------------
(* Tame transitions. *)
Tame(st, t) ==
    /\ IsState(t)
    /\ st.nextId <= t.nextId
    /\ Cardinality(DOMAIN t.sched) <= MaxSchedules
    /\ \A s \in DOMAIN t.sched : s < t.nextId
    /\ \A s \in DOMAIN st.sched :
        /\ s \in DOMAIN t.sched
        /\ t.sched[s].def = st.sched[s].def
        /\ st.sched[s].nextDue <= t.sched[s].nextDue
    /\ \A i \in DOMAIN t.occ :
        /\ i \in DOMAIN st.occ
        /\ t.occ[i].sched = st.occ[i].sched
        /\ t.occ[i].due = st.occ[i].due
        /\ t.occ[i].attempt = st.occ[i].attempt
        /\ t.occ[i].kind \in ActiveKinds => st.occ[i].kind \in ActiveKinds
        /\ t.occ[i].kind = "Pending" => st.occ[i].kind = "Pending"

(* A Tame transition that loses no live execution preserves Sound. *)
LEMMA TameSound ==
    ASSUME NEW st, NEW t, NEW H \in SUBSET InvocationType, NEW L \in SUBSET InvocationType,
           Sound(st, H, L), Tame(st, t),
           \A inv \in L : inv.occ \in Active(t)
    PROVE  Sound(t, H, L)
<1> USE DEF Sound
<1>1. IsState(st) /\ IsState(t)
  BY DEF Tame
<1>2. /\ DOMAIN t.occ \subseteq DOMAIN st.occ
      /\ Active(t) \subseteq Active(st)
      /\ Unresolved(t) \subseteq Unresolved(st)
  BY <1>1 DEF Tame, Active, Unresolved, ActiveKinds, TerminalKinds, Kinds, IsState, IsMap, OccurrenceType
<1>3. \A i \in DOMAIN t.occ : Overlap(t, i) = Overlap(st, i)
  BY DEF Tame, Linked, Overlap, DefOf
<1>4. Within(t)
  <2>1. /\ Cardinality(DOMAIN t.occ) <= Cardinality(DOMAIN st.occ)
        /\ Cardinality(Unresolved(t)) <= Cardinality(Unresolved(st))
        /\ Cardinality(Active(t)) <= Cardinality(Active(st))
    BY <1>1, <1>2, StateFinite, FS_Subset
  <2>2. /\ Cardinality(DOMAIN t.occ) \in Nat /\ Cardinality(DOMAIN st.occ) \in Nat
        /\ Cardinality(Unresolved(t)) \in Nat /\ Cardinality(Unresolved(st)) \in Nat
        /\ Cardinality(Active(t)) \in Nat /\ Cardinality(Active(st)) \in Nat
    BY <1>1, StateFinite, FS_CardinalityType
  <2> QED
    BY <2>1, <2>2, LimitsAssumption, SMT DEF Within, Tame
<1>5. Linked(t)
  BY <1>1, SMT DEF Linked, Tame, IsState, IsMap, Id
<1>6. Exclusive(t)
  BY <1>2, <1>3 DEF Exclusive, Tame, Active
<1>7. History(t, H)
  BY <1>1, SMTT(30) DEF History, Tame, IsState, Id, InvocationType
<1>8. Alive(t, L)
  BY <1>2 DEF Alive, Tame, Active, Invocation
<1>9. Ordered(t, H)
  BY <1>2, <1>3 DEF Ordered, Tame, Unresolved
<1>10. Slotted(t, H)
  <2>1. \A s \in DOMAIN st.sched : st.sched[s].nextDue \in Nat /\ t.sched[s].nextDue \in Nat
    BY <1>1 DEF Tame, IsState, IsMap, ScheduleType
  <2>2. \A i \in DOMAIN st.occ : st.occ[i].due \in Nat
    BY <1>1 DEF IsState, IsMap, OccurrenceType
  <2>3. \A inv \in H : inv.due \in Nat
    BY DEF InvocationType
  <2> QED
    BY <2>1, <2>2, <2>3, SMT DEF Slotted, Tame, Linked, SchedOf
<1> QED
  BY <1>1, <1>4, <1>5, <1>6, <1>7, <1>8, <1>9, <1>10
-----------------------------------------------------------------------------
(* What the transitions change.  Settled(st) is the part of Sound they rest on. *)
Settled(st) == IsState(st) /\ Within(st) /\ Linked(st)

(* A new status for one receipt. *)
LEMMA SetStatusEffect ==
    ASSUME NEW st, IsState(st), NEW i \in DOMAIN st.occ,
           NEW kind \in Kinds, NEW attempt \in Nat \ {0}, NEW readyAt \in Nat
    PROVE  LET t == SetStatus(st, i, kind, attempt, readyAt) IN
           /\ IsState(t)
           /\ t.nextId = st.nextId
           /\ t.sched = st.sched
           /\ DOMAIN t.occ = DOMAIN st.occ
           /\ \A j \in DOMAIN st.occ : j # i => t.occ[j] = st.occ[j]
           /\ t.occ[i].sched = st.occ[i].sched
           /\ t.occ[i].due = st.occ[i].due
           /\ t.occ[i].kind = kind
           /\ t.occ[i].attempt = attempt
<1> DEFINE t == SetStatus(st, i, kind, attempt, readyAt)
           o == [sched |-> st.occ[i].sched, due |-> st.occ[i].due, kind |-> kind,
                 attempt |-> attempt, readyAt |-> readyAt]
<1>1. /\ t.nextId = st.nextId
      /\ t.watermark = st.watermark
      /\ t.sched = st.sched
      /\ t.occ = [st.occ EXCEPT ![i] = o]
      /\ t = [nextId |-> t.nextId, watermark |-> t.watermark, sched |-> t.sched, occ |-> t.occ]
  BY SMT DEF SetStatus, IsState
<1>2. o \in OccurrenceType
  BY DEF IsState, IsMap, OccurrenceType
<1>3. /\ DOMAIN t.occ = DOMAIN st.occ
      /\ \A j \in DOMAIN st.occ : j # i => t.occ[j] = st.occ[j]
      /\ t.occ[i] = o
  BY <1>1 DEF IsState, IsMap
<1>4. IsState(t)
  BY <1>1, <1>2, <1>3 DEF IsState, IsMap
<1> QED
  BY <1>1, <1>3, <1>4, SMT

(* A receipt that leaves Pending or Running for good. *)
LEMMA SetKindTame ==
    ASSUME NEW st, Settled(st), NEW i \in DOMAIN st.occ, NEW k \in Kinds \ {"Pending"},
           k \in ActiveKinds => st.occ[i].kind \in ActiveKinds
    PROVE  LET t == SetKind(st, i, k) IN
           /\ Tame(st, t)
           /\ t.occ[i].kind = k
           /\ \A j \in DOMAIN st.occ : j # i => t.occ[j] = st.occ[j]
           /\ DOMAIN t.occ = DOMAIN st.occ
<1> DEFINE t == SetKind(st, i, k)
<1>1. /\ IsState(t)
      /\ t.nextId = st.nextId
      /\ t.sched = st.sched
      /\ DOMAIN t.occ = DOMAIN st.occ
      /\ \A j \in DOMAIN st.occ : j # i => t.occ[j] = st.occ[j]
      /\ t.occ[i].sched = st.occ[i].sched
      /\ t.occ[i].due = st.occ[i].due
      /\ t.occ[i].kind = k
      /\ t.occ[i].attempt = st.occ[i].attempt
  <2>1. st.occ[i].attempt \in Nat \ {0}
    BY DEF Settled, IsState, IsMap, OccurrenceType
  <2> QED
    BY <2>1, SetStatusEffect, SMT DEF SetKind, Settled
<1> HIDE DEF t
<1>2. Tame(st, t)
  BY <1>1, SMT DEF Tame, Settled, IsState, IsMap, Id, Within, Linked, ScheduleType
<1> QED
  BY <1>1, <1>2 DEF t

(* Recovery and the end of a runner keep every active receipt active. *)
LEMMA InterruptTame ==
    ASSUME NEW st, Settled(st)
    PROVE  /\ Tame(st, InterruptRunning(st))
           /\ Active(InterruptRunning(st)) = Active(st)
<1> DEFINE t == InterruptRunning(st)
<1>1. /\ t.nextId = st.nextId
      /\ t.watermark = st.watermark
      /\ t.sched = st.sched
      /\ t.occ = [i \in DOMAIN st.occ |->
            IF st.occ[i].kind = "Running" THEN [st.occ[i] EXCEPT !.kind = "Unknown"] ELSE st.occ[i]]
      /\ t = [nextId |-> t.nextId, watermark |-> t.watermark, sched |-> t.sched, occ |-> t.occ]
  BY SMT DEF InterruptRunning, Settled, IsState
<1>2. \A i \in DOMAIN st.occ :
        /\ t.occ[i] \in OccurrenceType
        /\ t.occ[i].sched = st.occ[i].sched
        /\ t.occ[i].due = st.occ[i].due
        /\ t.occ[i].attempt = st.occ[i].attempt
        /\ t.occ[i].kind \in ActiveKinds <=> st.occ[i].kind \in ActiveKinds
        /\ t.occ[i].kind = "Pending" => st.occ[i].kind = "Pending"
  <2> TAKE i \in DOMAIN st.occ
  <2>1. st.occ[i] \in OccurrenceType
    BY DEF Settled, IsState, IsMap
  <2>2. t.occ[i] = IF st.occ[i].kind = "Running" THEN [st.occ[i] EXCEPT !.kind = "Unknown"] ELSE st.occ[i]
    BY <1>1
  <2> QED
    BY <2>1, <2>2 DEF OccurrenceType, Kinds, ActiveKinds
<1>3. DOMAIN t.occ = DOMAIN st.occ
  BY <1>1
<1>4. IsState(t)
  BY <1>1, <1>2, <1>3 DEF Settled, IsState, IsMap
<1> HIDE DEF t
<1>5. Tame(st, t)
  BY <1>1, <1>2, <1>3, <1>4, SMT DEF Tame, Settled, IsState, IsMap, Id, Within, Linked, ScheduleType
<1>6. Active(t) = Active(st)
  BY <1>2, <1>3 DEF Active
<1> QED
  BY <1>5, <1>6 DEF t

(* A schedule that keeps its definition and does not move its cursor back. *)
LEMMA ScheduleTame ==
    ASSUME NEW st, Settled(st), NEW s \in DOMAIN st.sched, NEW r \in ScheduleType,
           r.def = st.sched[s].def, st.sched[s].nextDue <= r.nextDue
    PROVE  LET t == [st EXCEPT !.sched[s] = r] IN
           /\ Tame(st, t)
           /\ t.occ = st.occ
           /\ t.sched[s] = r
           /\ DOMAIN t.sched = DOMAIN st.sched
           /\ \A u \in DOMAIN st.sched : u # s => t.sched[u] = st.sched[u]
<1> DEFINE t == [st EXCEPT !.sched[s] = r]
<1>1. /\ t.nextId = st.nextId
      /\ t.watermark = st.watermark
      /\ t.sched = [st.sched EXCEPT ![s] = r]
      /\ t.occ = st.occ
      /\ t = [nextId |-> t.nextId, watermark |-> t.watermark, sched |-> t.sched, occ |-> t.occ]
  BY SMT DEF Settled, IsState
<1> HIDE DEF t
<1>2. /\ DOMAIN t.sched = DOMAIN st.sched
      /\ t.sched[s] = r
      /\ \A u \in DOMAIN st.sched : u # s => t.sched[u] = st.sched[u]
  BY <1>1 DEF Settled, IsState, IsMap
<1>3. IsState(t)
  BY <1>1, <1>2 DEF Settled, IsState, IsMap
<1>4. \A u \in DOMAIN st.sched : st.sched[u].nextDue \in Nat
  BY DEF Settled, IsState, IsMap, ScheduleType
<1>5. Tame(st, t)
  BY <1>1, <1>2, <1>3, <1>4, SMT DEF Tame, Settled, IsState, IsMap, Id, Within, Linked
<1> QED
  BY <1>1, <1>2, <1>5 DEF t

(* disable and delete. *)
LEMMA StopTame ==
    ASSUME NEW st, Settled(st), NEW s \in DOMAIN st.sched, NEW delete \in BOOLEAN
    PROVE  LET t == StopSchedule(st, s, delete) IN
           Tame(st, t) /\ t.occ = st.occ
<1> DEFINE r == [st.sched[s] EXCEPT !.enabled = FALSE, !.deleted = @ \/ delete]
<1>1. st.sched[s] \in ScheduleType
  BY DEF Settled, IsState, IsMap
<1>2. r \in ScheduleType /\ r.def = st.sched[s].def /\ r.nextDue = st.sched[s].nextDue
  BY <1>1 DEF ScheduleType
<1>3. StopSchedule(st, s, delete) = [st EXCEPT !.sched[s] = r]
  BY DEF StopSchedule, Settled, IsState, IsMap
<1>4. st.sched[s].nextDue <= r.nextDue
  BY <1>1, <1>2, SMT DEF ScheduleType
<1> HIDE DEF r
<1> QED
  BY <1>2, <1>3, <1>4, ScheduleTame, SMT

(* The cursor of a due schedule moves past the observation. *)
LEMMA AdvanceTame ==
    ASSUME NEW st, Settled(st), NEW s \in DOMAIN st.sched, NEW now \in Time,
           st.sched[s].nextDue <= now
    PROVE  LET t == AdvanceCursor(st, s, now) IN
           /\ Tame(st, t)
           /\ t.occ = st.occ
           /\ DOMAIN t.sched = DOMAIN st.sched
           /\ t.sched[s].nextDue \in Nat
           /\ t.sched[s].nextDue > now
           /\ \A u \in DOMAIN st.sched : u # s => t.sched[u] = st.sched[u]
<1> DEFINE r == [st.sched[s] EXCEPT !.nextDue = NextSlot(st.sched[s].def, now)]
<1>1. st.sched[s] \in ScheduleType
  BY DEF Settled, IsState, IsMap
<1>2. st.sched[s].def \in Definitions
  BY <1>1 DEF ScheduleType
<1>3. NextSlot(st.sched[s].def, now) \in Nat /\ NextSlot(st.sched[s].def, now) > now
  BY <1>2, NextSlotLater
<1>4. /\ r \in ScheduleType
      /\ r.def = st.sched[s].def
      /\ r.nextDue = NextSlot(st.sched[s].def, now)
  BY <1>1, <1>3 DEF ScheduleType
<1>5. AdvanceCursor(st, s, now) = [st EXCEPT !.sched[s] = r]
  BY DEF AdvanceCursor, Settled, IsState, IsMap
<1>6. st.sched[s].nextDue <= r.nextDue
  BY <1>1, <1>3, <1>4, BoundsAssumption, SMT DEF ScheduleType, Time
<1> HIDE DEF r
<1> QED
  BY <1>3, <1>4, <1>5, <1>6, ScheduleTame, SMT

(* A rejected slot is only counted. *)
LEMMA RejectTame ==
    ASSUME NEW st, Settled(st), NEW s \in DOMAIN st.sched
    PROVE  LET t == Reject(st, s) IN
           /\ Tame(st, t)
           /\ t.occ = st.occ
           /\ DOMAIN t.sched = DOMAIN st.sched
           /\ \A u \in DOMAIN st.sched : t.sched[u].nextDue = st.sched[u].nextDue
<1> DEFINE n == IF st.sched[s].rejected < MaxRejected THEN st.sched[s].rejected + 1 ELSE st.sched[s].rejected
           r == [st.sched[s] EXCEPT !.rejected = n]
<1>1. st.sched[s] \in ScheduleType
  BY DEF Settled, IsState, IsMap
<1>2. n \in 0..MaxRejected
  BY <1>1, BoundsAssumption, SMT DEF ScheduleType
<1>3. Reject(st, s) = [st EXCEPT !.sched[s] = r]
  BY DEF Reject, Settled, IsState, IsMap
<1> HIDE DEF n
<1>4. r \in ScheduleType /\ r.def = st.sched[s].def /\ r.nextDue = st.sched[s].nextDue
  BY <1>1, <1>2 DEF ScheduleType
<1>5. st.sched[s].nextDue <= r.nextDue
  BY <1>1, <1>4, SMT DEF ScheduleType
<1> HIDE DEF r
<1> QED
  BY <1>3, <1>4, <1>5, ScheduleTame, SMT

(* The watermark is not constrained. *)
LEMMA WatermarkTame ==
    ASSUME NEW st, Settled(st), NEW now \in Time
    PROVE  LET t == [st EXCEPT !.watermark = now] IN
           Tame(st, t) /\ t.occ = st.occ
<1> DEFINE t == [st EXCEPT !.watermark = now]
<1>1. /\ t.nextId = st.nextId
      /\ t.watermark = now
      /\ t.sched = st.sched
      /\ t.occ = st.occ
      /\ t = [nextId |-> t.nextId, watermark |-> t.watermark, sched |-> t.sched, occ |-> t.occ]
  BY SMT DEF Settled, IsState
<1> HIDE DEF t
<1>2. IsState(t)
  BY <1>1 DEF Settled, IsState
<1>3. Tame(st, t)
  BY <1>1, <1>2, SMT DEF Tame, Settled, IsState, IsMap, Id, Within, Linked, ScheduleType
<1> QED
  BY <1>1, <1>3 DEF t

(* create adds a schedule under a new identity. *)
LEMMA CreateTame ==
    ASSUME NEW st, Settled(st), NEW d \in Definitions, NEW now \in Time, CanCreate(st, d, now)
    PROVE  LET t == CreateSchedule(st, d, now) IN
           Tame(st, t) /\ t.occ = st.occ
<1> DEFINE t == CreateSchedule(st, d, now)
           r == NewSchedule(d, now)
           n == st.nextId
<1>1. n \in Id /\ n + 1 \in Id /\ n \notin DOMAIN st.sched
  BY BoundsAssumption, SMT DEF CanCreate, Settled, IsState, IsMap, Linked, Id
<1>2. r \in ScheduleType
  BY NextSlotLater, BoundsAssumption, SMT DEF ScheduleType, NewSchedule
<1>3. /\ t.nextId = n + 1
      /\ t.watermark = st.watermark
      /\ t.sched = Put(st.sched, n, r)
      /\ t.occ = st.occ
      /\ t = [nextId |-> t.nextId, watermark |-> t.watermark, sched |-> t.sched, occ |-> t.occ]
  BY DEF CreateSchedule, Settled, IsState
<1> HIDE DEF t, r
<1>4. /\ DOMAIN t.sched = DOMAIN st.sched \cup {n}
      /\ t.sched[n] = r
      /\ \A s \in DOMAIN st.sched : t.sched[s] = st.sched[s]
  BY <1>1, <1>3 DEF Put
<1>5. t.sched \in [DOMAIN t.sched -> ScheduleType]
  BY <1>2, <1>3, <1>4 DEF Settled, IsState, IsMap, Put
<1>6. IsState(t)
  BY <1>1, <1>3, <1>4, <1>5 DEF Settled, IsState, IsMap
<1>7. Cardinality(DOMAIN t.sched) <= MaxSchedules
  <2>1. Cardinality(DOMAIN t.sched) = Cardinality(DOMAIN st.sched) + 1
    BY <1>1, <1>4, StateFinite, FS_AddElement DEF Settled
  <2>2. Cardinality(DOMAIN st.sched) \in Nat
    BY StateFinite, FS_CardinalityType DEF Settled
  <2> QED
    BY <2>1, <2>2, LimitsAssumption, SMT DEF CanCreate
<1>8. \A s \in DOMAIN st.sched : s \in Nat /\ st.sched[s].nextDue \in Nat
  BY SMT DEF Settled, IsState, IsMap, Id, ScheduleType
<1>9. Tame(st, t)
  BY <1>1, <1>3, <1>4, <1>6, <1>7, <1>8, SMT DEF Tame, Settled, Linked, Id
<1> QED
  BY <1>3, <1>9 DEF t

(* Eviction removes one terminal receipt, and makes room at the limit. *)
LEMMA EvictTame ==
    ASSUME NEW st, Settled(st), RecordsFull(st) => Terminal(st) # {}
    PROVE  /\ Tame(st, Evict(st))
           /\ Active(Evict(st)) = Active(st)
           /\ Unresolved(Evict(st)) = Unresolved(st)
           /\ Cardinality(DOMAIN Evict(st).occ) < MaxRecords
           /\ Evict(st).sched = st.sched
           /\ Evict(st).nextId = st.nextId
<1> DEFINE t == Evict(st)
           n == Least(Terminal(st))
<1>0. IsFiniteSet(DOMAIN st.occ) /\ Cardinality(DOMAIN st.occ) \in Nat
  BY StateFinite, FS_CardinalityType DEF Settled
<1>1. CASE ~RecordsFull(st)
  <2>1. t = st
    BY <1>1 DEF Evict
  <2>2. Tame(st, st)
    BY SMT DEF Tame, Settled, IsState, IsMap, Id, Within, Linked, ScheduleType
  <2> QED
    BY <1>0, <1>1, <2>1, <2>2, LimitsAssumption, SMT DEF RecordsFull
<1>2. CASE RecordsFull(st)
  <2>1. n \in Terminal(st)
    <3>1. Terminal(st) \in SUBSET Nat
      BY SMT DEF Terminal, Settled, IsState, IsMap, Id
    <3> QED
      BY <1>2, <3>1, LeastIsMinimum
  <2>2. /\ t.nextId = st.nextId
        /\ t.watermark = st.watermark
        /\ t.sched = st.sched
        /\ t.occ = Remove(st.occ, n)
        /\ t = [nextId |-> t.nextId, watermark |-> t.watermark, sched |-> t.sched, occ |-> t.occ]
    BY <1>2 DEF Evict, Settled, IsState
  <2> HIDE DEF t, n
  <2>3. /\ DOMAIN t.occ = DOMAIN st.occ \ {n}
        /\ \A i \in DOMAIN t.occ : t.occ[i] = st.occ[i]
    BY <2>2 DEF Remove
  <2>4. IsState(t)
    BY <2>2, <2>3 DEF Settled, IsState, IsMap, Remove
  <2>5. Tame(st, t)
    BY <2>2, <2>3, <2>4, SMT DEF Tame, Settled, IsState, IsMap, Id, Within, Linked, ScheduleType
  <2>6. Cardinality(DOMAIN t.occ) < MaxRecords
    <3>1. n \in DOMAIN st.occ
      BY <2>1 DEF Terminal
    <3>2. Cardinality(DOMAIN t.occ) = Cardinality(DOMAIN st.occ) - 1
      BY <1>0, <2>3, <3>1, FS_RemoveElement
    <3> QED
      BY <1>0, <3>2, LimitsAssumption, SMT DEF Settled, Within
  <2>7. Active(t) = Active(st) /\ Unresolved(t) = Unresolved(st)
    BY <2>1, <2>3 DEF Active, Unresolved, Terminal, ActiveKinds, TerminalKinds
  <2> QED
    BY <2>2, <2>5, <2>6, <2>7 DEF t
<1> QED
  BY <1>1, <1>2
-----------------------------------------------------------------------------
(* The transitions that are not Tame. *)

(* Admitting a new slot below the limits preserves Sound. *)
LEMMA InsertSound ==
    ASSUME NEW st, NEW H \in SUBSET InvocationType, NEW L \in SUBSET InvocationType,
           Sound(st, H, L), NEW s \in DOMAIN st.sched, NEW due \in Nat, NEW now \in Nat,
           st.nextId < MaxId,
           Cardinality(DOMAIN st.occ) < MaxRecords,
           Cardinality(Unresolved(st)) < MaxOutstanding,
           Fresh(st, s, {due}, H)
    PROVE  LET t == Insert(st, s, due, now) IN
           /\ Sound(t, H, L)
           /\ t.sched = st.sched
           /\ \A i \in DOMAIN t.occ :
                (i \in DOMAIN st.occ /\ t.occ[i] = st.occ[i]) \/ t.occ[i].due = due
<1> DEFINE t == Insert(st, s, due, now)
           o == NewOccurrence(s, due, now)
           n == st.nextId
<1> USE DEF Sound
<1>1. n \in Id /\ n + 1 \in Id /\ n \notin DOMAIN st.occ
  BY BoundsAssumption, SMT DEF IsState, IsMap, Linked, Id
<1>2. /\ o \in OccurrenceType
      /\ o.sched = s /\ o.due = due /\ o.kind = "Pending" /\ o.attempt = 1
  BY SMT DEF IsState, IsMap, OccurrenceType, NewOccurrence, Kinds
<1>3. /\ t.nextId = n + 1
      /\ t.watermark = st.watermark
      /\ t.sched = st.sched
      /\ t.occ = Put(st.occ, n, o)
      /\ t = [nextId |-> t.nextId, watermark |-> t.watermark, sched |-> t.sched, occ |-> t.occ]
  BY DEF Insert
<1> HIDE DEF t, o
<1>4. /\ DOMAIN t.occ = DOMAIN st.occ \cup {n}
      /\ t.occ[n] = o
      /\ \A i \in DOMAIN st.occ : t.occ[i] = st.occ[i]
  BY <1>1, <1>3 DEF Put
<1>5. IsState(t)
  <2>1. t.occ \in [DOMAIN t.occ -> OccurrenceType]
    BY <1>2, <1>3, <1>4, SMT DEF IsState, IsMap, Put
  <2> QED
    BY <1>1, <1>3, <1>4, <2>1 DEF IsState, IsMap
<1>6. /\ Active(t) = Active(st)
      /\ Unresolved(t) = Unresolved(st) \cup {n}
  BY <1>1, <1>2, <1>4 DEF Active, Unresolved, ActiveKinds, TerminalKinds
<1>7. Within(t)
  <2>1. /\ IsFiniteSet(DOMAIN st.occ) /\ IsFiniteSet(Unresolved(st))
        /\ Cardinality(DOMAIN st.occ) \in Nat /\ Cardinality(Unresolved(st)) \in Nat
    BY StateFinite, FS_CardinalityType
  <2>2. n \notin Unresolved(st)
    BY <1>1 DEF Unresolved
  <2>3. /\ Cardinality(DOMAIN t.occ) = Cardinality(DOMAIN st.occ) + 1
        /\ Cardinality(Unresolved(t)) = Cardinality(Unresolved(st)) + 1
    BY <1>1, <1>4, <1>6, <2>1, <2>2, FS_AddElement, ZenonT(30)
  <2> QED
    BY <1>3, <1>6, <2>1, <2>3, LimitsAssumption, SMT DEF Within
<1>8. Linked(t)
  BY <1>2, <1>3, <1>4, SMT DEF Linked, IsState, IsMap, Id
<1>9. Exclusive(t)
  BY <1>3, <1>4, <1>6 DEF Exclusive, Active, Overlap, DefOf
<1>10. History(t, H)
  BY <1>1, <1>3, <1>4, SMT DEF History, InvocationType, Id
<1>11. Alive(t, L)
  BY <1>4, <1>6 DEF Alive, Invocation, Active
<1>12. Ordered(t, H)
  <2>1. \A inv \in H : inv.occ \in Nat /\ inv.occ < n
    BY SMT DEF History, InvocationType, Id
  <2>2. n \in Nat
    BY <1>1, SMTT(30) DEF Id
  <2> QED
    BY <1>3, <1>4, <1>6, <2>1, <2>2, SMT DEF Ordered, Unresolved, Overlap, DefOf
<1>13. Slotted(t, H)
  BY <1>1, <1>2, <1>3, <1>4, SMTT(30) DEF Slotted, Fresh, SchedOf
<1> QED
  BY <1>2, <1>3, <1>4, <1>5, <1>7, <1>8, <1>9, <1>10, <1>11, <1>12, <1>13 DEF t

(* The receipt i may be claimed in a sound state. *)
MayClaim(st, H, L, i, now) ==
    /\ H \in SUBSET InvocationType /\ L \in SUBSET InvocationType
    /\ Sound(st, H, L) /\ now \in Time /\ IsCandidate(st, i, now)

(* What is claimed is well-formed, the state stays sound before and after it *)
(* is handed out, and its slot was not handed out for another receipt.       *)
HandsOut(st, H, L, i) ==
    /\ Invocation(st, i) \in InvocationType
    /\ Sound(ClaimOccurrence(st, i), H, L)
    /\ Sound(ClaimOccurrence(st, i), H \cup {Invocation(st, i)}, L \cup {Invocation(st, i)})
    /\ \A a \in H :
         a.sched = Invocation(st, i).sched /\ a.due = Invocation(st, i).due
         => a.occ = Invocation(st, i).occ

(* Claiming the candidate, before and after its invocation is handed out. *)
LEMMA ClaimSound ==
    ASSUME NEW st, NEW H, NEW L, NEW i, NEW now, MayClaim(st, H, L, i, now)
    PROVE  HandsOut(st, H, L, i)
<1> SUFFICES ASSUME H \in SUBSET InvocationType, L \in SUBSET InvocationType,
                    Sound(st, H, L), now \in Time, IsCandidate(st, i, now)
             PROVE  /\ Invocation(st, i) \in InvocationType
                    /\ Sound(ClaimOccurrence(st, i), H, L)
                    /\ Sound(ClaimOccurrence(st, i), H \cup {Invocation(st, i)}, L \cup {Invocation(st, i)})
                    /\ \A a \in H :
                         a.sched = Invocation(st, i).sched /\ a.due = Invocation(st, i).due
                         => a.occ = Invocation(st, i).occ
  BY DEF MayClaim, HandsOut
<1> DEFINE t == ClaimOccurrence(st, i)
           inv == Invocation(st, i)
<1> USE DEF Sound
<1>1. /\ i \in DOMAIN st.occ
      /\ st.occ[i].kind = "Pending"
      /\ ~Blocked(st, i)
      /\ Cardinality(Active(st)) < MaxRunning
  BY DEF IsCandidate, Claimable
<1>2. st.occ[i] \in OccurrenceType /\ i \in Id
  BY <1>1 DEF IsState, IsMap
<1>3. /\ IsState(t)
      /\ t.nextId = st.nextId
      /\ t.sched = st.sched
      /\ DOMAIN t.occ = DOMAIN st.occ
      /\ \A j \in DOMAIN st.occ : j # i => t.occ[j] = st.occ[j]
      /\ t.occ[i].sched = st.occ[i].sched
      /\ t.occ[i].due = st.occ[i].due
      /\ t.occ[i].kind = "Running"
      /\ t.occ[i].attempt = st.occ[i].attempt
  <2>1. st.occ[i].attempt \in Nat \ {0} /\ "Running" \in Kinds
    BY <1>2 DEF OccurrenceType, Kinds, ActiveKinds
  <2> QED
    BY <1>1, <2>1, SetStatusEffect, SMT DEF ClaimOccurrence, SetKind
<1> HIDE DEF t
<1>4. /\ Active(t) = Active(st) \cup {i}
      /\ i \notin Active(st)
      /\ Unresolved(t) = Unresolved(st)
      /\ i \in Unresolved(st)
  BY <1>1, <1>3 DEF Active, Unresolved, ActiveKinds, TerminalKinds
<1>5. Within(t)
  <2>1. IsFiniteSet(Active(st)) /\ Cardinality(Active(st)) \in Nat
    BY StateFinite, FS_CardinalityType
  <2>2. Cardinality(Active(t)) = Cardinality(Active(st)) + 1
    BY <1>4, <2>1, FS_AddElement
  <2> QED
    BY <1>1, <1>3, <1>4, <2>1, <2>2, LimitsAssumption, SMTT(30) DEF Within
<1>6. Linked(t)
  BY <1>3 DEF Linked
<1>7. \A j \in DOMAIN st.occ : Overlap(t, j) = Overlap(st, j) /\ t.occ[j].sched = st.occ[j].sched
                              /\ t.occ[j].due = st.occ[j].due
  BY <1>3 DEF Overlap, DefOf
<1>8. Exclusive(t)
  <2>1. \A j \in Active(st) : st.occ[j].sched = st.occ[i].sched => Overlap(st, i) = "Concurrent"
    BY <1>1, <1>4 DEF Blocked, Active, Unresolved, ActiveKinds, TerminalKinds
  <2>2. \A j \in Active(st) : st.occ[j].sched = st.occ[i].sched => Overlap(st, j) = Overlap(st, i)
    BY DEF Overlap, DefOf
  <2>3. \A j \in Active(st) : j \in DOMAIN st.occ
    BY DEF Active
  <2> QED
    BY <1>1, <1>4, <1>7, <2>1, <2>2, <2>3 DEF Exclusive
<1>9. /\ inv \in InvocationType
      /\ inv.occ = i /\ inv.sched = st.occ[i].sched
      /\ inv.due = st.occ[i].due /\ inv.attempt = st.occ[i].attempt
  BY <1>2 DEF Invocation, InvocationType, OccurrenceType
<1>10. inv = Invocation(t, i)
  BY <1>3 DEF Invocation
<1> HIDE DEF inv
<1>11. History(t, H) /\ History(t, H \cup {inv})
  <2>1. i < st.nextId
    BY <1>1 DEF Linked
  <2>2. st.occ[i].attempt \in Nat
    BY <1>2 DEF OccurrenceType
  <2> QED
    BY <1>1, <1>3, <1>9, <2>1, <2>2, SMT DEF History
<1>12. Alive(t, L) /\ Alive(t, L \cup {inv})
  <2>1. \A a \in L : a.occ \in Active(st) /\ a.occ # i /\ a = Invocation(st, a.occ)
    BY <1>4 DEF Alive
  <2>2. \A a \in L : a = Invocation(t, a.occ)
    BY <1>3, <2>1 DEF Invocation, Active
  <2> QED
    BY <1>4, <1>9, <1>10, <2>1, <2>2 DEF Alive
<1>13. Ordered(t, H) /\ Ordered(t, H \cup {inv})
  <2>1. \A j \in Unresolved(st) : j \in DOMAIN st.occ
    BY DEF Unresolved
  <2>2. Ordered(t, H)
    BY <1>4, <1>7, <2>1 DEF Ordered
  <2>3. \A j \in Unresolved(st) :
          st.occ[j].sched = st.occ[i].sched /\ j < i => Overlap(st, j) = "Concurrent"
    <3>1. \A j \in Unresolved(st) : st.occ[j].sched = st.occ[i].sched => Overlap(st, j) = Overlap(st, i)
      BY DEF Overlap, DefOf
    <3>2. ~(i < i)
      BY <1>2, SMTT(30) DEF Id
    <3> QED
      BY <1>1, <3>1, <3>2 DEF Blocked
  <2> QED
    BY <1>4, <1>7, <1>9, <2>1, <2>2, <2>3 DEF Ordered
<1>14. Slotted(t, H) /\ Slotted(t, H \cup {inv})
  <2>1. Slotted(t, H)
    BY <1>3, <1>7, SMTT(30) DEF Slotted, SchedOf
  <2>2. /\ inv.sched \in DOMAIN t.sched
        /\ inv.due < t.sched[inv.sched].nextDue
    BY <1>1, <1>3, <1>9 DEF Slotted, SchedOf, Linked
  <2>3. \A j \in DOMAIN t.occ :
          t.occ[j].sched = inv.sched /\ t.occ[j].due = inv.due => j = inv.occ
    BY <1>1, <1>3, <1>7, <1>9, SMTT(30) DEF Slotted
  <2> QED
    BY <2>1, <2>2, <2>3 DEF Slotted
<1>15. \A a \in H : a.sched = inv.sched /\ a.due = inv.due => a.occ = inv.occ
  BY <1>1, <1>9 DEF Slotted
<1> QED
  BY <1>3, <1>5, <1>6, <1>8, <1>9, <1>11, <1>12, <1>13, <1>14, <1>15 DEF t, inv

(* A confirmed failure goes back to Pending with the next attempt. *)
LEMMA RequeueSound ==
    ASSUME NEW st, NEW H \in SUBSET InvocationType, NEW L \in SUBSET InvocationType,
           Sound(st, H, L), NEW i \in Active(st), NEW ready \in Nat,
           \A inv \in L : inv.occ # i
    PROVE  Sound(Requeue(st, i, ready), H, L)
<1> DEFINE t == Requeue(st, i, ready)
           n == st.occ[i].attempt + 1
<1> USE DEF Sound
<1>1. i \in DOMAIN st.occ /\ st.occ[i] \in OccurrenceType
  BY DEF Active, IsState, IsMap
<1>2. n \in Nat \ {0} /\ "Pending" \in Kinds /\ st.occ[i].attempt < n
  BY <1>1, SMTT(30) DEF OccurrenceType, Kinds
<1>3. /\ IsState(t)
      /\ t.nextId = st.nextId
      /\ t.sched = st.sched
      /\ DOMAIN t.occ = DOMAIN st.occ
      /\ \A j \in DOMAIN st.occ : j # i => t.occ[j] = st.occ[j]
      /\ t.occ[i].sched = st.occ[i].sched
      /\ t.occ[i].due = st.occ[i].due
      /\ t.occ[i].kind = "Pending"
      /\ t.occ[i].attempt = n
  BY <1>1, <1>2, SetStatusEffect, SMTT(30) DEF Requeue
<1> HIDE DEF t
<1>4. /\ Active(t) \subseteq Active(st)
      /\ \A j \in Active(st) : j # i => j \in Active(t)
      /\ Unresolved(t) = Unresolved(st)
  BY <1>1, <1>3 DEF Active, Unresolved, ActiveKinds, TerminalKinds
<1>5. Within(t)
  <2>1. /\ IsFiniteSet(Active(st)) /\ Cardinality(Active(st)) \in Nat
        /\ IsFiniteSet(Active(t)) /\ Cardinality(Active(t)) \in Nat
    BY <1>3, StateFinite, FS_CardinalityType
  <2>2. Cardinality(Active(t)) <= Cardinality(Active(st))
    BY <1>4, <2>1, FS_Subset
  <2> QED
    BY <1>3, <1>4, <2>1, <2>2, LimitsAssumption, SMTT(30) DEF Within
<1>6. \A j \in DOMAIN st.occ : Overlap(t, j) = Overlap(st, j) /\ t.occ[j].sched = st.occ[j].sched
                              /\ t.occ[j].due = st.occ[j].due
  BY <1>3 DEF Overlap, DefOf
<1>7. Linked(t)
  BY <1>3, <1>6 DEF Linked
<1>8. Exclusive(t)
  BY <1>3, <1>4, <1>6 DEF Exclusive, Active
<1>9. History(t, H)
  <2>1. \A inv \in H : inv.attempt \in Nat
    BY DEF InvocationType
  <2>2. st.occ[i].attempt \in Nat
    BY <1>1 DEF OccurrenceType
  <2> QED
    BY <1>2, <1>3, <2>1, <2>2, SMT DEF History
<1>10. Alive(t, L)
  <2>1. \A a \in L : a.occ \in Active(st) /\ a.occ # i /\ a = Invocation(st, a.occ)
    BY DEF Alive
  <2>2. \A a \in L : a = Invocation(t, a.occ)
    BY <1>3, <2>1 DEF Invocation, Active
  <2> QED
    BY <1>4, <2>1, <2>2 DEF Alive
<1>11. Ordered(t, H)
  BY <1>4, <1>6 DEF Ordered, Unresolved
<1>12. Slotted(t, H)
  BY <1>3, <1>6, SMT DEF Slotted, SchedOf
<1> QED
  BY <1>3, <1>5, <1>7, <1>8, <1>9, <1>10, <1>11, <1>12 DEF t

(* finish: any outcome of an invocation that is current; only Unknown is   *)
(* reported of an execution that may still be alive.                       *)
LEMMA FinishSound ==
    ASSUME NEW st, NEW H \in SUBSET InvocationType, NEW L \in SUBSET InvocationType,
           Sound(st, H, L), NEW inv, NEW outcome \in Outcomes, NEW now \in Time,
           CanFinish(st, inv), outcome # "Unknown" => inv \notin L
    PROVE  Sound(FinishInvocation(st, inv, outcome, now), H, L)
<1> DEFINE i == inv.occ
           t == FinishInvocation(st, inv, outcome, now)
<1>1. /\ i \in DOMAIN st.occ
      /\ st.occ[i].kind \in {"Running", "Cancelling"}
      /\ inv = Invocation(st, i)
  BY DEF CanFinish
<1>2. i \in Active(st) /\ Settled(st)
  BY <1>1 DEF Active, ActiveKinds, Sound, Settled
<1>3. \A a \in L : a.occ \in Active(st) /\ (a.occ = i => a = inv)
  BY <1>1 DEF Sound, Alive
<1>4. CASE Retries(st, inv, outcome)
  <2>1. \A a \in L : a.occ # i
    BY <1>3, <1>4 DEF Retries
  <2>2. now + DefOf(st, i).delay \in Nat
    <3>1. st.sched[st.occ[i].sched] \in ScheduleType
      BY <1>1 DEF Sound, IsState, IsMap, Linked
    <3>2. DefOf(st, i) \in DefinitionType
      BY <3>1, DefinitionsAssumption DEF DefOf, ScheduleType
    <3> QED
      BY <3>2, BoundsAssumption, SMT DEF DefinitionType, Time
  <2>3. t = Requeue(st, i, now + DefOf(st, i).delay)
    BY <1>4 DEF FinishInvocation
  <2> QED
    BY <1>2, <2>1, <2>2, <2>3, RequeueSound
<1>5. CASE ~Retries(st, inv, outcome) /\ outcome = "Unknown" /\ st.occ[i].kind = "Cancelling"
  BY <1>5 DEF FinishInvocation
<1>6. CASE /\ ~Retries(st, inv, outcome)
           /\ ~(outcome = "Unknown" /\ st.occ[i].kind = "Cancelling")
  <2>1. t = SetKind(st, i, outcome)
    BY <1>6 DEF FinishInvocation
  <2>2. /\ outcome \in Kinds \ {"Pending"}
        /\ st.occ[i].kind \in ActiveKinds
        /\ outcome = "Unknown" => outcome \in ActiveKinds
    BY <1>1 DEF Outcomes, Kinds, ActiveKinds, TerminalKinds
  <2>3. /\ Tame(st, t)
        /\ t.occ[i].kind = outcome
        /\ \A j \in DOMAIN st.occ : j # i => t.occ[j] = st.occ[j]
        /\ DOMAIN t.occ = DOMAIN st.occ
    BY <1>1, <1>2, <2>1, <2>2, SetKindTame, SMTT(30)
  <2> HIDE DEF t, i
  <2>4. \A a \in L : a.occ \in Active(t)
    BY <1>1, <1>3, <2>2, <2>3 DEF Active
  <2> QED
    BY <2>3, <2>4, TameSound DEF t
<1> QED
  BY <1>4, <1>5, <1>6

(* One slot of observe: rejected, or admitted after an eviction. *)
LEMMA AdmitSound ==
    ASSUME NEW st, NEW H \in SUBSET InvocationType, NEW L \in SUBSET InvocationType,
           Sound(st, H, L), NEW s \in DOMAIN st.sched, NEW dues \in SUBSET Nat,
           NEW due \in dues, NEW now \in Time,
           Fresh(st, s, dues, H), ~IdExhausted(st, s)
    PROVE  LET t == AdmitSlot(st, s, due, now) IN
           /\ Sound(t, H, L)
           /\ DOMAIN t.sched = DOMAIN st.sched
           /\ \A u \in DOMAIN st.sched : t.sched[u].nextDue = st.sched[u].nextDue
           /\ Fresh(t, s, dues \ {due}, H)
<1> DEFINE t == AdmitSlot(st, s, due, now)
<1>1. Settled(st)
  BY DEF Sound, Settled
<1>2. \A a \in L : a.occ \in Active(st)
  BY DEF Sound, Alive
<1>3. CASE Refused(st, s) \/ (RecordsFull(st) /\ Terminal(st) = {})
  <2>1. t = Reject(st, s)
    BY <1>3 DEF AdmitSlot
  <2> HIDE DEF t
  <2>2. /\ Tame(st, t)
        /\ t.occ = st.occ
        /\ DOMAIN t.sched = DOMAIN st.sched
        /\ \A u \in DOMAIN st.sched : t.sched[u].nextDue = st.sched[u].nextDue
    BY <1>1, <2>1, RejectTame
  <2>3. \A a \in L : a.occ \in Active(t)
    BY <1>2, <2>2 DEF Active
  <2>4. Fresh(t, s, dues \ {due}, H)
    BY <2>2 DEF Fresh
  <2> QED
    BY <2>2, <2>3, <2>4, TameSound DEF t
<1>4. CASE ~Refused(st, s) /\ ~(RecordsFull(st) /\ Terminal(st) = {})
  <2> DEFINE e == Evict(st)
  <2>1. t = Insert(e, s, due, now)
    BY <1>4 DEF AdmitSlot
  <2>2. /\ Tame(st, e)
        /\ Active(e) = Active(st)
        /\ Unresolved(e) = Unresolved(st)
        /\ Cardinality(DOMAIN e.occ) < MaxRecords
        /\ e.sched = st.sched
        /\ e.nextId = st.nextId
    BY <1>1, <1>4, EvictTame
  <2> HIDE DEF e, t
  <2>3. Sound(e, H, L)
    BY <1>2, <2>2, TameSound
  <2>4. e.nextId < MaxId
    BY <1>4, <2>2, BoundsAssumption, SMTT(30) DEF IdExhausted, Sound, IsState, Id
  <2>5. Cardinality(Unresolved(e)) < MaxOutstanding
    <3>1. Cardinality(Unresolved(st)) \in Nat
      BY <1>1, StateFinite, FS_CardinalityType DEF Settled
    <3> QED
      BY <1>4, <2>2, <3>1, LimitsAssumption, SMTT(30) DEF Refused
  <2>6. Fresh(e, s, dues, H)
    BY <2>2 DEF Fresh, Tame
  <2>7. Fresh(e, s, {due}, H)
    BY <2>6 DEF Fresh
  <2>8. now \in Nat /\ due \in Nat /\ s \in DOMAIN e.sched
    BY <2>2, BoundsAssumption, SMTT(30) DEF Time
  <2>9. /\ Sound(t, H, L)
        /\ t.sched = e.sched
        /\ \A i \in DOMAIN t.occ :
             (i \in DOMAIN e.occ /\ t.occ[i] = e.occ[i]) \/ t.occ[i].due = due
    <3> DEFINE u == Insert(e, s, due, now)
    <3>1. Cardinality(DOMAIN e.occ) < MaxRecords
      BY <2>2
    <3>2. /\ Sound(u, H, L)
          /\ u.sched = e.sched
          /\ \A i \in DOMAIN u.occ :
               (i \in DOMAIN e.occ /\ u.occ[i] = e.occ[i]) \/ u.occ[i].due = due
      BY ONLY <2>3, <2>4, <2>5, <2>7, <2>8, <3>1, H \in SUBSET InvocationType,
              L \in SUBSET InvocationType, InsertSound, ZenonT(60)
    <3> QED
      BY <2>1, <3>2
  <2>10. Fresh(t, s, dues \ {due}, H)
    <3> SUFFICES ASSUME NEW d \in dues, d # due
                 PROVE  /\ s \in DOMAIN t.sched
                        /\ d < t.sched[s].nextDue
                        /\ \A i \in DOMAIN t.occ :
                             t.occ[i].sched = s => t.occ[i].due # d
                        /\ \A inv \in H : inv.sched = s => inv.due # d
      BY DEF Fresh
    <3>1. /\ s \in DOMAIN e.sched
          /\ d < e.sched[s].nextDue
          /\ \A i \in DOMAIN e.occ : e.occ[i].sched = s => e.occ[i].due # d
          /\ \A inv \in H : inv.sched = s => inv.due # d
      BY <2>6 DEF Fresh
    <3>2. s \in DOMAIN t.sched /\ d < t.sched[s].nextDue
      BY <2>9, <3>1
    <3>3. ASSUME NEW i \in DOMAIN t.occ, t.occ[i].sched = s
          PROVE  t.occ[i].due # d
      <4>1. CASE i \in DOMAIN e.occ /\ t.occ[i] = e.occ[i]
        BY <3>1, <3>3, <4>1
      <4>2. CASE t.occ[i].due = due
        BY <4>2
      <4> QED
        BY <2>9, <4>1, <4>2
    <3> QED
      BY <3>1, <3>2, <3>3
  <2> QED
    BY <2>2, <2>9, <2>10 DEF t
<1> QED
  BY <1>3, <1>4
=============================================================================

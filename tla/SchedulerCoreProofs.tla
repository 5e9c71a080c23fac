------------------------- MODULE SchedulerCoreProofs -------------------------
(***************************************************************************)
(* Proofs about SchedulerCore for every value of its constants: IInv says  *)
(* that the durable, the in-memory and the staged state are all Sound, and *)
(* is preserved by every step.  The second part is about single steps, and *)
(* shows that the receipts implement ReceiptLedger.                        *)
(***************************************************************************)
EXTENDS SchedulerCore, SchedulerStateProofs

Observing ==
    /\ up /\ ~poisoned
    /\ Sound(obs.st, handed, live)
    /\ \A s \in obs.todo : s \in DOMAIN obs.st.sched /\ obs.st.sched[s].nextDue <= obs.now
    /\ Fresh(obs.st, obs.cur, obs.dues, handed)

ObsType(o) ==
    /\ o = [on |-> o.on, now |-> o.now, st |-> o.st, todo |-> o.todo, cur |-> o.cur, dues |-> o.dues]
    /\ o.on \in BOOLEAN
    /\ o.now \in Time
    /\ o.todo \subseteq Id
    /\ o.cur \in Id
    /\ o.dues \subseteq Nat

Types ==
    /\ up \in BOOLEAN
    /\ poisoned \in BOOLEAN
    /\ clock \in Time
    /\ runner \in {"off", "start", "claim", "select"}
    /\ stopping \in BOOLEAN
    /\ tasks \subseteq InvocationType
    /\ ObsType(obs)
    /\ live \subseteq InvocationType
    /\ handed \subseteq InvocationType
    /\ faults \in 0..MaxFaults

(* Memory is what is durable unless a commit failed. *)
Kept ==
    /\ Sound(disk, handed, live)
    /\ Sound(mem, handed, live)
    /\ ~poisoned => mem = disk

Staged ==
    /\ obs.on => Observing
    /\ ~obs.on => obs.st = EmptyState

(* The inductive invariant. *)
IInv == Types /\ Kept /\ Staged /\ SlotOnce
-----------------------------------------------------------------------------
(* The steps of SchedulerCore. *)

USE Zenon

(* The empty state of a new store is sound. *)
LEMMA EmptySound == IsState(EmptyState) /\ Sound(EmptyState, {}, {})
<1> DEFINE e == EmptyState
<1>1. /\ e.nextId = 1 /\ e.watermark = NoWatermark
      /\ e.sched = [i \in {} |-> 0] /\ e.occ = [i \in {} |-> 0]
      /\ DOMAIN e.sched = {} /\ DOMAIN e.occ = {}
      /\ e = [nextId |-> e.nextId, watermark |-> e.watermark, sched |-> e.sched, occ |-> e.occ]
  BY DEF EmptyState
<1> HIDE DEF e
<1>2. e.sched \in [{} -> ScheduleType] /\ e.occ \in [{} -> OccurrenceType]
  BY <1>1
<1>3. IsState(e)
  BY <1>1, <1>2, BoundsAssumption, SMT DEF IsState, IsMap, Id
<1>4. Active(e) = {} /\ Unresolved(e) = {}
  BY <1>1 DEF Active, Unresolved
<1>5. Within(e)
  BY <1>1, <1>4, FS_EmptySet, LimitsAssumption, SMT DEF Within
<1>6. /\ Linked(e) /\ Exclusive(e) /\ History(e, {}) /\ Alive(e, {})
      /\ Ordered(e, {}) /\ Slotted(e, {})
  BY <1>1, <1>4 DEF Linked, Exclusive, History, Alive, Ordered, Slotted
<1> QED
  BY <1>3, <1>5, <1>6 DEF e, Sound

(* The value of obs while no observation runs. *)
LEMMA NotObservingType ==
    ObsType(NotObserving) /\ ~NotObserving.on /\ NotObserving.st = EmptyState
  BY BoundsAssumption, SMT DEF ObsType, NotObserving, Time, Id

(* The initial state satisfies the inductive invariant. *)
LEMMA InitIInv == Init => IInv
<1> SUFFICES ASSUME Init PROVE IInv
  OBVIOUS
<1>1. Types
  <2>1. clock \in Time /\ faults \in 0..MaxFaults
    BY BoundsAssumption, FaultsAssumption, SMT DEF Init, Time
  <2>2. ObsType(obs)
    BY NotObservingType DEF Init
  <2> QED
    BY <2>1, <2>2 DEF Init, Types
<1>2. Kept
  BY EmptySound DEF Init, Kept
<1>3. Staged
  BY NotObservingType DEF Init, Staged
<1>4. SlotOnce
  BY DEF Init, SlotOnce
<1> QED
  BY <1>1, <1>2, <1>3, <1>4 DEF IInv

(* A commit of a sound state, successful or not. *)
LEMMA CommitKept ==
    ASSUME Types, Kept, NEW t, Sound(t, handed, live), Stored(t) \/ Torn(t),
           handed' = handed, live' = live
    PROVE  /\ Kept'
           /\ up' = up
           /\ poisoned' \in BOOLEAN
  BY DEF Types, Kept, Stored, Torn

(* A commit is stored or torn, and a torn one is a fault. *)
LEMMA CommitFaults ==
    ASSUME Types, NEW t, Commit(t)
    PROVE  (Stored(t) \/ Torn(t)) /\ faults' \in 0..MaxFaults
  BY FaultsAssumption, SMT DEF Types, Commit, Fault

(* The state behind an accepted operation. *)
LEMMA ReadyState ==
    ASSUME IInv, Ready
    PROVE  /\ Types /\ Kept /\ SlotOnce
           /\ Sound(mem, handed, live) /\ Settled(mem) /\ ~obs.on /\ obs.st = EmptyState
           /\ handed \in SUBSET InvocationType /\ live \in SUBSET InvocationType
           /\ \A a \in live : a.occ \in Active(mem)
  BY DEF IInv, Ready, Staged, Kept, Types, Sound, Settled, Alive

(* A management operation that commits a sound state. *)
LEMMA ManageStep ==
    ASSUME IInv, Ready, NEW t, Sound(t, handed, live), Manage(t)
    PROVE  IInv'
<1>1. Types /\ Kept /\ SlotOnce /\ ~obs.on /\ obs.st = EmptyState
  BY ReadyState
<1>2. /\ Commit(t) /\ UNCHANGED <<runner, stopping, tasks, obs, clock, live, handed>>
  BY DEF Manage, runnerVars
<1>3. (Stored(t) \/ Torn(t)) /\ faults' \in 0..MaxFaults
  BY <1>1, <1>2, CommitFaults
<1>4. Kept' /\ up' = up /\ poisoned' \in BOOLEAN
  BY <1>1, <1>2, <1>3, CommitKept
<1>5. Types'
  BY <1>1, <1>2, <1>3, <1>4 DEF Types
<1>6. Staged' /\ SlotOnce'
  BY <1>1, <1>2 DEF Staged, SlotOnce
<1> QED
  BY <1>4, <1>5, <1>6 DEF IInv

(* Changes to one receipt that keep live executions active. *)
LEMMA SetKindSound ==
    ASSUME NEW st, NEW H \in SUBSET InvocationType, NEW L \in SUBSET InvocationType,
           Sound(st, H, L), NEW i \in DOMAIN st.occ, NEW k \in Kinds \ {"Pending"},
           k \in ActiveKinds => st.occ[i].kind \in ActiveKinds,
           k \notin ActiveKinds => \A a \in L : a.occ # i
    PROVE  Sound(SetKind(st, i, k), H, L)
<1> DEFINE t == SetKind(st, i, k)
<1>1. Settled(st)
  BY DEF Sound, Settled
<1>2. /\ Tame(st, t)
      /\ t.occ[i].kind = k
      /\ \A j \in DOMAIN st.occ : j # i => t.occ[j] = st.occ[j]
      /\ DOMAIN t.occ = DOMAIN st.occ
  BY <1>1, SetKindTame, SMT
<1> HIDE DEF t
<1>3. \A a \in L : a.occ \in Active(st)
  BY DEF Sound, Alive
<1>4. \A a \in L : a.occ \in Active(t)
  BY <1>2, <1>3 DEF Active
<1> QED
  BY <1>2, <1>4, TameSound DEF t

(* create, disable, delete, request_cancel and acknowledge_stopped. *)
LEMMA ManagementStep == IInv /\ Management => IInv'
<1> SUFFICES ASSUME IInv, Management PROVE IInv'
  OBVIOUS
<1>1. ASSUME NEW d \in Definitions, Create(d) PROVE IInv'
  <2> DEFINE t == CreateSchedule(mem, d, clock)
  <2>1. Ready /\ CanCreate(mem, d, clock) /\ Manage(t)
    BY <1>1 DEF Create
  <2>2. /\ Sound(mem, handed, live) /\ Settled(mem) /\ clock \in Time
        /\ handed \in SUBSET InvocationType /\ live \in SUBSET InvocationType
        /\ \A a \in live : a.occ \in Active(mem)
    BY <2>1, ReadyState DEF Types
  <2>3. Tame(mem, t) /\ t.occ = mem.occ
    BY <2>1, <2>2, CreateTame
  <2> HIDE DEF t
  <2>4. Sound(t, handed, live)
    BY <2>2, <2>3, TameSound DEF Active
  <2> QED
    BY <2>1, <2>4, ManageStep
<1>2. ASSUME NEW s \in Id, NEW delete \in BOOLEAN, Ready, s \in DOMAIN mem.sched,
             Manage(StopSchedule(mem, s, delete))
      PROVE  IInv'
  <2> DEFINE t == StopSchedule(mem, s, delete)
  <2>1. /\ Sound(mem, handed, live) /\ Settled(mem)
        /\ handed \in SUBSET InvocationType /\ live \in SUBSET InvocationType
        /\ \A a \in live : a.occ \in Active(mem)
    BY <1>2, ReadyState
  <2>2. Tame(mem, t) /\ t.occ = mem.occ
    BY <1>2, <2>1, StopTame
  <2>3. Manage(t)
    BY <1>2
  <2> HIDE DEF t
  <2>4. Sound(t, handed, live)
    BY <2>1, <2>2, TameSound DEF Active
  <2> QED
    BY <1>2, <2>3, <2>4, ManageStep
<1>3. ASSUME NEW i \in Id, Cancel(i) PROVE IInv'
  <2> DEFINE k == IF mem.occ[i].kind = "Pending" THEN "Cancelled" ELSE "Cancelling"
  <2>1. /\ Ready /\ i \in DOMAIN mem.occ
        /\ mem.occ[i].kind \in {"Pending", "Running", "Unknown"}
        /\ Manage(SetKind(mem, i, k))
    BY <1>3 DEF Cancel, CanRequestCancel, RequestCancel
  <2>2. /\ Sound(mem, handed, live)
        /\ handed \in SUBSET InvocationType /\ live \in SUBSET InvocationType
        /\ \A a \in live : a.occ \in Active(mem)
    BY <2>1, ReadyState
  <2>3. /\ k \in Kinds \ {"Pending"}
        /\ k \in ActiveKinds => mem.occ[i].kind \in ActiveKinds
        /\ k \notin ActiveKinds => \A a \in live : a.occ # i
    BY <2>1, <2>2 DEF Kinds, ActiveKinds, TerminalKinds, Active
  <2> HIDE DEF k
  <2>4. Sound(SetKind(mem, i, k), handed, live)
    BY <2>1, <2>2, <2>3, SetKindSound
  <2> QED
    BY <2>1, <2>4, ManageStep
<1>4. ASSUME NEW i \in Id, Acknowledge(i) PROVE IInv'
  <2>1. /\ Ready /\ i \in DOMAIN mem.occ
        /\ \A a \in live : a.occ # i
        /\ Manage(SetKind(mem, i, "Abandoned"))
    BY <1>4 DEF Acknowledge, CanAcknowledge, AcknowledgeStopped
  <2>2. /\ Sound(mem, handed, live)
        /\ handed \in SUBSET InvocationType /\ live \in SUBSET InvocationType
    BY <2>1, ReadyState
  <2>3. "Abandoned" \in Kinds \ {"Pending"} /\ "Abandoned" \notin ActiveKinds
    BY DEF Kinds, TerminalKinds, ActiveKinds
  <2>4. Sound(SetKind(mem, i, "Abandoned"), handed, live)
    BY <2>1, <2>2, <2>3, SetKindSound
  <2> QED
    BY <2>1, <2>4, ManageStep
<1> QED
  BY <1>1, <1>2, <1>3, <1>4 DEF Management, Disable, Delete

(* Interrupting the running receipts loses no execution. *)
LEMMA InterruptSound ==
    ASSUME NEW st, NEW H \in SUBSET InvocationType, NEW L \in SUBSET InvocationType,
           Sound(st, H, L)
    PROVE  Sound(InterruptRunning(st), H, L)
<1>1. Settled(st) /\ \A a \in L : a.occ \in Active(st)
  BY DEF Sound, Settled, Alive
<1>2. Tame(st, InterruptRunning(st)) /\ Active(InterruptRunning(st)) = Active(st)
  BY <1>1, InterruptTame
<1> QED
  BY <1>1, <1>2, TameSound

(* The runner leaves with a commit that interrupts its receipts. *)
LEMMA LeaseDropped ==
    ASSUME IInv, RunnerGone, Stored(InterruptRunning(mem)) \/ Torn(InterruptRunning(mem)),
           faults' \in 0..MaxFaults, UNCHANGED <<clock, live, handed>>
    PROVE  IInv'
<1> DEFINE t == InterruptRunning(mem)
<1>1. /\ Types /\ Kept /\ SlotOnce
      /\ handed \in SUBSET InvocationType /\ live \in SUBSET InvocationType
  BY DEF IInv, Types
<1>2. Sound(t, handed, live)
  BY <1>1, InterruptSound DEF Kept
<1> HIDE DEF t
<1>3. Kept' /\ up' = up /\ poisoned' \in BOOLEAN
  BY <1>1, <1>2, CommitKept DEF t
<1>4. runner' = "off" /\ stopping' = FALSE /\ tasks' = {} /\ obs' = NotObserving
  BY DEF RunnerGone
<1>5. ObsType(obs') /\ ~obs'.on /\ obs'.st = EmptyState
  BY <1>4, NotObservingType
<1>6. Types'
  BY <1>1, <1>3, <1>4, <1>5 DEF Types
<1>7. Staged' /\ SlotOnce'
  BY <1>1, <1>5 DEF Staged, SlotOnce
<1> QED
  BY <1>3, <1>6, <1>7 DEF IInv

(* Steps that change only the position of the runner. *)
LEMMA RunnerMoves ==
    ASSUME IInv, runner' \in {"off", "start", "claim", "select"}, stopping' \in BOOLEAN,
           faults' \in 0..MaxFaults, clock' \in Time,
           UNCHANGED <<coreVars, tasks, obs, live, handed>>
    PROVE  IInv'
<1>1. UNCHANGED <<disk, mem, up, poisoned>>
  BY DEF coreVars
<1>2. Types'
  BY <1>1 DEF IInv, Types
<1>3. Kept' /\ Staged' /\ SlotOnce'
  BY <1>1 DEF IInv, Kept, Staged, Observing, SlotOnce
<1> QED
  BY <1>2, <1>3 DEF IInv

(* observe begins: nothing is staged but what is in memory. *)
LEMMA ObserveBeginStep == IInv /\ ObserveBegin => IInv'
<1> SUFFICES ASSUME IInv, ObserveBegin PROVE IInv'
  OBVIOUS
<1>1. /\ Ready /\ up /\ ~poisoned
      /\ obs' = [on |-> TRUE, now |-> clock, st |-> mem,
                 todo |-> DueSchedules(mem, clock), cur |-> 1, dues |-> {}]
      /\ UNCHANGED <<disk, mem, up, poisoned, runner, stopping, tasks, clock, live, handed, faults>>
  BY DEF ObserveBegin, Ready, coreVars, envVars
<1>2. Types /\ Kept /\ SlotOnce /\ Sound(mem, handed, live)
  BY <1>1, ReadyState
<1>3. /\ obs'.on = TRUE /\ obs'.now = clock /\ obs'.st = mem
      /\ obs'.todo = DueSchedules(mem, clock) /\ obs'.cur = 1 /\ obs'.dues = {}
      /\ obs' = [on |-> obs'.on, now |-> obs'.now, st |-> obs'.st,
                 todo |-> obs'.todo, cur |-> obs'.cur, dues |-> obs'.dues]
  BY <1>1
<1>4. \A s \in DueSchedules(mem, clock) :
        s \in DOMAIN mem.sched /\ s \in Id /\ mem.sched[s].nextDue <= clock
  BY <1>2 DEF DueSchedules, Sound, IsState, IsMap
<1>5. ObsType(obs')
  <2>0. obs'.on \in BOOLEAN
    BY <1>3
  <2>1. obs'.cur \in Id /\ obs'.now \in Time
    BY <1>2, <1>3, BoundsAssumption, SMT DEF Types, Id
  <2>2. obs'.todo \subseteq Id /\ obs'.dues \subseteq Nat
    BY <1>3, <1>4
  <2> QED
    BY <1>3, <2>0, <2>1, <2>2 DEF ObsType
<1>6. Types'
  BY <1>1, <1>2, <1>5 DEF Types
<1>7. Fresh(obs'.st, obs'.cur, obs'.dues, handed)
  BY <1>3 DEF Fresh
<1>8. Staged'
  BY <1>1, <1>2, <1>3, <1>4, <1>7 DEF Staged, Observing
<1>9. Kept' /\ SlotOnce'
  BY <1>1, <1>2 DEF Kept, SlotOnce
<1> QED
  BY <1>6, <1>8, <1>9 DEF IInv

(* observe takes up a schedule: its cursor moves past every slot selected, *)
(* and the slots selected are at or after the old cursor, hence new.       *)
LEMMA ObserveScheduleStep ==
    ASSUME IInv, NEW s \in Id, ObserveSchedule(s)
    PROVE  IInv'
<1> DEFINE t == AdvanceCursor(obs.st, s, obs.now)
           dues == Admissible(obs.st.sched[s], obs.now)
<1>1. /\ obs.on /\ s \in obs.todo
      /\ obs' = [obs EXCEPT !.st = t, !.todo = @ \ {s}, !.cur = s, !.dues = dues]
      /\ UNCHANGED <<disk, mem, up, poisoned, runner, stopping, tasks, clock, live, handed, faults>>
  BY DEF ObserveSchedule, coreVars, envVars
<1>2. /\ Types /\ Kept /\ SlotOnce /\ Observing /\ ObsType(obs)
      /\ handed \in SUBSET InvocationType /\ live \in SUBSET InvocationType
  BY <1>1 DEF IInv, Staged, Types
<1>3. /\ Sound(obs.st, handed, live) /\ Settled(obs.st)
      /\ s \in DOMAIN obs.st.sched /\ obs.st.sched[s].nextDue <= obs.now /\ obs.now \in Time
      /\ \A a \in live : a.occ \in Active(obs.st)
  BY <1>1, <1>2 DEF Observing, Sound, Settled, Alive, ObsType
<1>4. /\ Tame(obs.st, t)
      /\ t.occ = obs.st.occ
      /\ DOMAIN t.sched = DOMAIN obs.st.sched
      /\ t.sched[s].nextDue \in Nat
      /\ t.sched[s].nextDue > obs.now
      /\ \A u \in DOMAIN obs.st.sched : u # s => t.sched[u] = obs.st.sched[u]
  BY <1>3, AdvanceTame
<1>5. \A d \in dues : d \in Nat /\ obs.st.sched[s].nextDue <= d /\ d <= obs.now
  <2>1. obs.st.sched[s].def \in DefinitionType
    BY <1>3, DefinitionsAssumption DEF Settled, IsState, IsMap, ScheduleType
  <2> QED
    BY <2>1 DEF Admissible, Selected, DefinitionType
<1> HIDE DEF t, dues
<1>6. /\ obs'.on = TRUE /\ obs'.now = obs.now /\ obs'.st = t
      /\ obs'.todo = obs.todo \ {s} /\ obs'.cur = s /\ obs'.dues = dues
      /\ obs' = [on |-> obs'.on, now |-> obs'.now, st |-> obs'.st,
                 todo |-> obs'.todo, cur |-> obs'.cur, dues |-> obs'.dues]
  BY <1>1, <1>2, ZenonT(30) DEF ObsType
<1>7. Sound(t, handed, live)
  <2>1. \A a \in live : a.occ \in Active(t)
    BY <1>3, <1>4 DEF Active
  <2> QED
    BY <1>2, <1>3, <1>4, <2>1, TameSound
<1>8. Fresh(t, s, dues, handed)
  <2>1. \A i \in DOMAIN obs.st.occ :
          obs.st.occ[i].sched = s => obs.st.occ[i].due < obs.st.sched[s].nextDue
    BY <1>3 DEF Sound, Slotted, SchedOf
  <2>2. \A a \in handed : a.sched = s => a.due < obs.st.sched[s].nextDue
    BY <1>3 DEF Sound, Slotted
  <2>3. /\ \A i \in DOMAIN obs.st.occ : obs.st.occ[i].due \in Nat
        /\ \A a \in handed : a.due \in Nat
        /\ obs.st.sched[s].nextDue \in Nat /\ obs.now \in Nat
    BY <1>2, <1>3, BoundsAssumption, SMTT(30)
       DEF Settled, IsState, IsMap, OccurrenceType, ScheduleType, InvocationType, Time
  <2> QED
    BY <1>3, <1>4, <1>5, <2>1, <2>2, <2>3, SMTT(30) DEF Fresh
<1>9. ObsType(obs')
  BY <1>2, <1>5, <1>6, ZenonT(30) DEF ObsType
<1>10. Types'
  BY <1>1, <1>2, <1>9 DEF Types
<1>11. Staged'
  BY <1>1, <1>2, <1>4, <1>6, <1>7, <1>8, SMT DEF Staged, Observing
<1>12. Kept' /\ SlotOnce'
  BY <1>1, <1>2 DEF Kept, SlotOnce
<1> QED
  BY <1>10, <1>11, <1>12 DEF IInv

(* observe decides on one slot. *)
LEMMA ObserveSlotStep ==
    ASSUME IInv, NEW due \in obs.dues, ObserveSlot(due)
    PROVE  IInv'
<1> DEFINE t == AdmitSlot(obs.st, obs.cur, due, obs.now)
<1>1. /\ obs.on /\ ~IdExhausted(obs.st, obs.cur)
      /\ obs' = [obs EXCEPT !.st = t, !.dues = @ \ {due}]
      /\ UNCHANGED <<disk, mem, up, poisoned, runner, stopping, tasks, clock, live, handed, faults>>
  BY DEF ObserveSlot, coreVars, envVars
<1>2. /\ Types /\ Kept /\ SlotOnce /\ Observing /\ ObsType(obs)
      /\ handed \in SUBSET InvocationType /\ live \in SUBSET InvocationType
  BY <1>1 DEF IInv, Staged, Types
<1>3. /\ Sound(obs.st, handed, live) /\ Fresh(obs.st, obs.cur, obs.dues, handed)
      /\ obs.dues \in SUBSET Nat /\ obs.now \in Time
  BY <1>2 DEF Observing, ObsType
<1>4. obs.cur \in DOMAIN obs.st.sched
  BY <1>3 DEF Fresh
<1>5. /\ Sound(t, handed, live)
      /\ DOMAIN t.sched = DOMAIN obs.st.sched
      /\ \A u \in DOMAIN obs.st.sched : t.sched[u].nextDue = obs.st.sched[u].nextDue
      /\ Fresh(t, obs.cur, obs.dues \ {due}, handed)
  BY <1>1, <1>2, <1>3, <1>4, AdmitSound
<1> HIDE DEF t
<1>6. /\ obs'.on = obs.on /\ obs'.now = obs.now /\ obs'.st = t
      /\ obs'.todo = obs.todo /\ obs'.cur = obs.cur /\ obs'.dues = obs.dues \ {due}
      /\ obs' = [on |-> obs'.on, now |-> obs'.now, st |-> obs'.st,
                 todo |-> obs'.todo, cur |-> obs'.cur, dues |-> obs'.dues]
  BY <1>1, <1>2, ZenonT(30) DEF ObsType
<1>7. ObsType(obs')
  BY <1>2, <1>6 DEF ObsType
<1>8. Types'
  BY <1>1, <1>2, <1>7 DEF Types
<1>9. Staged'
  BY <1>1, <1>2, <1>5, <1>6, SMT DEF Staged, Observing
<1>10. Kept' /\ SlotOnce'
  BY <1>1, <1>2 DEF Kept, SlotOnce
<1> QED
  BY <1>8, <1>9, <1>10 DEF IInv

(* observe commits what it staged. *)
LEMMA ObserveCommitStep == IInv /\ ObserveCommit => IInv'
<1> SUFFICES ASSUME IInv, ObserveCommit PROVE IInv'
  OBVIOUS
<1> DEFINE t == [obs.st EXCEPT !.watermark = obs.now]
<1>1. /\ obs.on /\ Commit(t) /\ obs' = NotObserving /\ runner' = "claim"
      /\ UNCHANGED <<stopping, tasks, clock, live, handed>>
  BY DEF ObserveCommit
<1>2. /\ Types /\ Kept /\ SlotOnce /\ Observing
      /\ handed \in SUBSET InvocationType /\ live \in SUBSET InvocationType
  BY <1>1 DEF IInv, Staged, Types
<1>3. /\ Sound(obs.st, handed, live) /\ Settled(obs.st) /\ obs.now \in Time
      /\ \A a \in live : a.occ \in Active(obs.st)
  BY <1>2 DEF Observing, Sound, Settled, Alive, Types, ObsType
<1>4. Tame(obs.st, t) /\ t.occ = obs.st.occ
  BY <1>3, WatermarkTame
<1> HIDE DEF t
<1>5. Sound(t, handed, live)
  <2>1. \A a \in live : a.occ \in Active(t)
    BY <1>3, <1>4 DEF Active
  <2> QED
    BY <1>2, <1>3, <1>4, <2>1, TameSound
<1>6. (Stored(t) \/ Torn(t)) /\ faults' \in 0..MaxFaults
  BY <1>1, <1>2, CommitFaults
<1>7. Kept' /\ up' = up /\ poisoned' \in BOOLEAN
  BY <1>1, <1>2, <1>5, <1>6, CommitKept
<1>8. ObsType(obs') /\ ~obs'.on /\ obs'.st = EmptyState
  BY <1>1, NotObservingType
<1>9. Types'
  BY <1>1, <1>2, <1>6, <1>7, <1>8 DEF Types
<1>10. Staged' /\ SlotOnce'
  BY <1>1, <1>2, <1>8 DEF Staged, SlotOnce
<1> QED
  BY <1>7, <1>9, <1>10 DEF IInv

(* A claim: durable before the invocation is handed out, or torn. *)
LEMMA ClaimStep ==
    ASSUME IInv, NEW i \in Id, Claim(i)
    PROVE  IInv'
<1> DEFINE t == ClaimOccurrence(mem, i)
           inv == Invocation(mem, i)
<1>1. /\ Ready /\ IsCandidate(mem, i, clock)
      /\ UNCHANGED <<runner, stopping, obs, clock>>
  BY DEF Claim
<1>2. /\ Types /\ Kept /\ SlotOnce /\ Sound(mem, handed, live) /\ ~obs.on /\ obs.st = EmptyState
      /\ handed \in SUBSET InvocationType /\ live \in SUBSET InvocationType /\ clock \in Time
  BY <1>1, ReadyState DEF Types
<1>3. /\ inv \in InvocationType
      /\ Sound(t, handed, live)
      /\ Sound(t, handed \cup {inv}, live \cup {inv})
      /\ \A a \in handed : a.sched = inv.sched /\ a.due = inv.due => a.occ = inv.occ
  <2>1. IsCandidate(mem, i, clock) /\ Sound(mem, handed, live) /\ clock \in Time
    BY <1>1, <1>2
  <2>2. handed \in SUBSET InvocationType /\ live \in SUBSET InvocationType
    BY <1>2
  <2> HIDE DEF t, inv
  <2>3. MayClaim(mem, handed, live, i, clock)
    BY <2>1, <2>2 DEF MayClaim
  <2>4. HandsOut(mem, handed, live, i)
    BY ONLY <2>3, ClaimSound, Zenon
  <2> QED
    BY <2>4 DEF HandsOut, t, inv
<1>4. Staged'
  BY <1>1, <1>2 DEF Staged
<1>5. CASE /\ Stored(t) /\ UNCHANGED faults
           /\ tasks' = tasks \cup {inv}
           /\ live' = live \cup {inv}
           /\ handed' = handed \cup {inv}
  <2> HIDE DEF t, inv
  <2>1. Kept' /\ up' = up /\ poisoned' = poisoned
    BY <1>3, <1>5 DEF Stored, Kept
  <2>2. Types'
    BY <1>1, <1>2, <1>3, <1>5, <2>1 DEF Types
  <2>3. SlotOnce'
    BY <1>2, <1>3, <1>5 DEF SlotOnce
  <2> QED
    BY <1>4, <2>1, <2>2, <2>3 DEF IInv
<1>6. CASE Torn(t) /\ Fault /\ UNCHANGED <<tasks, live, handed>>
  <2> HIDE DEF t, inv
  <2>1. Kept' /\ up' = up /\ poisoned' \in BOOLEAN
    BY <1>2, <1>3, <1>6, CommitKept
  <2>2. faults' \in 0..MaxFaults
    BY <1>2, <1>6, FaultsAssumption, SMT DEF Types, Fault
  <2>3. Types' /\ SlotOnce'
    BY <1>1, <1>2, <1>6, <2>1, <2>2 DEF Types, SlotOnce
  <2> QED
    BY <1>4, <2>1, <2>3 DEF IInv
<1> QED
  BY <1>5, <1>6 DEF Claim

(* A completion that is current. *)
LEMMA FinishStep ==
    ASSUME IInv, NEW inv \in tasks, NEW outcome \in Outcomes, Finish(inv, outcome)
    PROVE  IInv'
<1> DEFINE t == FinishInvocation(mem, inv, outcome, clock)
<1>1. /\ Ready /\ CanFinish(mem, inv)
      /\ outcome # "Unknown" => inv \notin live
      /\ Commit(t) /\ tasks' = tasks \ {inv} /\ runner' = "claim"
      /\ UNCHANGED <<stopping, obs, clock, live, handed>>
  BY DEF Finish
<1>2. /\ Types /\ Kept /\ SlotOnce /\ Sound(mem, handed, live) /\ ~obs.on /\ obs.st = EmptyState
      /\ handed \in SUBSET InvocationType /\ live \in SUBSET InvocationType /\ clock \in Time
  BY <1>1, ReadyState DEF Types
<1>3. Sound(t, handed, live)
  BY <1>1, <1>2, FinishSound
<1> HIDE DEF t
<1>4. (Stored(t) \/ Torn(t)) /\ faults' \in 0..MaxFaults
  BY <1>1, <1>2, CommitFaults
<1>5. Kept' /\ up' = up /\ poisoned' \in BOOLEAN
  BY <1>1, <1>2, <1>3, <1>4, CommitKept
<1>6. Types'
  BY <1>1, <1>2, <1>4, <1>5 DEF Types
<1>7. Staged' /\ SlotOnce'
  BY <1>1, <1>2 DEF Staged, SlotOnce
<1> QED
  BY <1>5, <1>6, <1>7 DEF IInv

(* run_until, from its start to its exits. *)
LEMMA RunnerStep == IInv /\ Runner => IInv'
<1> SUFFICES ASSUME IInv, Runner PROVE IInv'
  OBVIOUS
<1>0. Types /\ clock \in Time /\ stopping \in BOOLEAN /\ faults \in 0..MaxFaults
  BY DEF IInv, Types
<1>1. CASE RunnerStart
  BY <1>0, <1>1, RunnerMoves DEF RunnerStart, envVars
<1>2. CASE RunnerExit
  <2>1. faults' \in 0..MaxFaults /\ (Stored(InterruptRunning(mem)) \/ Torn(InterruptRunning(mem)))
    BY <1>0, <1>2, CommitFaults DEF RunnerExit
  <2> QED
    BY <1>2, <2>1, LeaseDropped DEF RunnerExit
<1>3. CASE RunnerFails
  <2>1. /\ runner' = "off" /\ stopping' = FALSE /\ tasks' = {} /\ obs' = NotObserving
        /\ UNCHANGED <<disk, mem, up, poisoned, clock, live, handed, faults>>
    BY <1>3 DEF RunnerFails, RunnerGone, coreVars, envVars
  <2>2. ObsType(obs') /\ ~obs'.on /\ obs'.st = EmptyState
    BY <2>1, NotObservingType
  <2>3. Types'
    BY <1>0, <2>1, <2>2 DEF Types
  <2>4. Kept' /\ Staged' /\ SlotOnce'
    BY <2>1, <2>2 DEF IInv, Kept, Staged, SlotOnce
  <2> QED
    BY <2>3, <2>4 DEF IInv
<1>4. CASE ObserveStale
  BY <1>0, <1>4, RunnerMoves DEF ObserveStale, envVars
<1>5. CASE ObserveExhausted
  <2>1. faults' \in 0..MaxFaults /\ (Stored(InterruptRunning(mem)) \/ Torn(InterruptRunning(mem)))
    BY <1>0, <1>5, CommitFaults DEF ObserveExhausted
  <2> QED
    BY <1>5, <2>1, LeaseDropped DEF ObserveExhausted
<1>6. CASE ClaimNone
  BY <1>0, <1>6, RunnerMoves DEF ClaimNone, envVars
<1>7. CASE Completion
  <2>1. ASSUME NEW inv \in tasks, FinishStale(inv) PROVE IInv'
    <3>1. faults' \in 0..MaxFaults /\ (Stored(InterruptRunning(mem)) \/ Torn(InterruptRunning(mem)))
      BY <1>0, <2>1, CommitFaults DEF FinishStale
    <3> QED
      BY <2>1, <3>1, LeaseDropped DEF FinishStale
  <2> QED
    BY <1>7, <2>1, FinishStep DEF Completion
<1> QED
  BY <1>1, <1>2, <1>3, <1>4, <1>5, <1>6, <1>7, ObserveBeginStep, ObserveScheduleStep,
     ObserveSlotStep, ObserveCommitStep, ClaimStep DEF Runner

(* Executions end, the clock moves, the process comes and goes. *)
LEMMA EnvironmentStep == IInv /\ Environment => IInv'
<1> SUFFICES ASSUME IInv, Environment PROVE IInv'
  OBVIOUS
<1>0. /\ Types /\ Kept /\ SlotOnce
      /\ clock \in Time /\ stopping \in BOOLEAN /\ faults \in 0..MaxFaults
      /\ handed \in SUBSET InvocationType /\ live \in SUBSET InvocationType
      /\ runner \in {"off", "start", "claim", "select"}
  BY DEF IInv, Types
<1>f. Fault => faults' \in 0..MaxFaults
  BY <1>0, FaultsAssumption, SMT DEF Fault
<1>1. CASE RunnerStop
  BY <1>0, <1>1, <1>f, RunnerMoves DEF RunnerStop
<1>2. CASE RunnerAbort
  BY <1>2, <1>f, LeaseDropped DEF RunnerAbort
<1>3. ASSUME NEW inv \in live, ExecutionStops(inv) PROVE IInv'
  <2>1. /\ live' = live \ {inv}
        /\ UNCHANGED <<disk, mem, up, poisoned, runner, stopping, tasks, obs, clock, handed, faults>>
    BY <1>3 DEF ExecutionStops, coreVars, runnerVars
  <2>2. ASSUME NEW st, Sound(st, handed, live) PROVE Sound(st, handed, live')
    BY <2>1, <2>2 DEF Sound, Alive
  <2>3. Types'
    BY <1>0, <2>1 DEF Types
  <2>4. Kept' /\ SlotOnce'
    BY <1>0, <2>1, <2>2 DEF Kept, SlotOnce
  <2>5. Staged'
    BY <2>1, <2>2 DEF IInv, Staged, Observing
  <2> QED
    BY <2>3, <2>4, <2>5 DEF IInv
<1>4. CASE Tick
  <2>1. clock' \in Time
    BY <1>0, <1>4, BoundsAssumption, SMT DEF Tick, Time
  <2> QED
    BY <1>0, <1>4, <2>1, RunnerMoves DEF Tick, runnerVars
<1>5. CASE ClockStepsBack
  <2>1. clock' \in Time
    BY <1>0, <1>5, BoundsAssumption, SMT DEF ClockStepsBack, Time
  <2> QED
    BY <1>0, <1>5, <1>f, <2>1, RunnerMoves DEF ClockStepsBack, runnerVars
<1>6. CASE Down /\ faults' \in 0..MaxFaults
  <2>1. /\ up' = FALSE /\ poisoned' = FALSE /\ mem' = disk
        /\ runner' = "off" /\ stopping' = FALSE /\ tasks' = {} /\ obs' = NotObserving
        /\ UNCHANGED <<disk, clock, live, handed>>
    BY <1>6 DEF Down, RunnerGone
  <2>2. ObsType(obs') /\ ~obs'.on /\ obs'.st = EmptyState
    BY <2>1, NotObservingType
  <2>3. Types'
    BY <1>0, <1>6, <2>1, <2>2 DEF Types
  <2>4. Kept' /\ Staged' /\ SlotOnce'
    BY <1>0, <2>1, <2>2 DEF Kept, Staged, SlotOnce
  <2> QED
    BY <2>3, <2>4 DEF IInv
<1>7. CASE Reopen
  <2> DEFINE t == InterruptRunning(disk)
  <2>1. Sound(t, handed, live)
    BY <1>0, InterruptSound DEF Kept
  <2>2. /\ disk' \in {disk, t} /\ mem' = disk' /\ faults' \in 0..MaxFaults
        /\ UNCHANGED <<poisoned, runner, stopping, tasks, obs, clock, live, handed>>
    BY <1>0, <1>7, <1>f DEF Reopen, runnerVars
  <2>3. ~up /\ up' \in BOOLEAN
    <3>1. ~up /\ (up' = TRUE \/ up' = up)
      BY <1>7 DEF Reopen
    <3> QED
      BY <1>0, <3>1 DEF Types
  <2> HIDE DEF t
  <2>4. Kept' /\ SlotOnce'
    BY <1>0, <2>1, <2>2 DEF Kept, SlotOnce
  <2>5. Types'
    BY <1>0, <2>2, <2>3 DEF Types
  <2>6. Staged'
    BY <2>2, <2>3 DEF IInv, Staged, Observing
  <2> QED
    BY <2>4, <2>5, <2>6 DEF IInv
<1> QED
  BY <1>0, <1>1, <1>2, <1>3, <1>4, <1>5, <1>6, <1>7, <1>f DEF Environment, Crash, Close

(* Every step preserves the inductive invariant. *)
LEMMA NextIInv == IInv /\ [Next]_vars => IInv'
<1> SUFFICES ASSUME IInv, [Next]_vars PROVE IInv'
  OBVIOUS
<1>1. CASE Next
  BY <1>1, ManagementStep, RunnerStep, EnvironmentStep DEF Next
<1>2. CASE UNCHANGED vars
  BY <1>2 DEF vars, coreVars, runnerVars, envVars, IInv, Types, Kept, Staged, Observing, SlotOnce
<1> QED
  BY <1>1, <1>2

(* The inductive invariant holds of every reachable state of the core, its *)
(* runner and the executions they started.                                 *)
THEOREM Inductive == Spec => []IInv
  BY InitIInv, NextIInv, PTL DEF Spec
-----------------------------------------------------------------------------
(* Every state the core holds, durable, in memory or staged, is sound; a   *)
(* staged state exists only while observe runs.                            *)
LEMMA StatesSound ==
    ASSUME IInv, NEW st \in States
    PROVE  IsState(st) /\ Within(st)
  BY EmptySound DEF IInv, Kept, Staged, Observing, Sound, States

(* What is persisted, held in memory or staged by observe is well-formed,  *)
(* and so are the variables of the runner.                                 *)
THEOREM TypeCorrect == Spec => []TypeOK
<1>1. IInv => TypeOK
  BY StatesSound DEF IInv, Types, ObsType, TypeOK
<1> QED
  BY <1>1, Inductive, PTL

(* No interleaving of observations, claims, completions, failed commits    *)
(* and recoveries exceeds the limits that were persisted with the store.   *)
THEOREM CapacityHolds == Spec => []Capacity
<1>1. IInv => Capacity
  BY StatesSound DEF Capacity
<1> QED
  BY <1>1, Inductive, PTL

(* Executions of a schedule that is not Concurrent never overlap, those of *)
(* aborted runners and crashed processes included.                         *)
THEOREM NoOverlapHolds == Spec => []NoOverlap
<1>1. IInv => NoOverlap
  <2> SUFFICES ASSUME IInv, NEW a \in live, NEW b \in live,
                      a.sched = b.sched, disk.sched[a.sched].def.overlap # "Concurrent"
               PROVE  a = b
    BY DEF NoOverlap
  <2>1. Alive(disk, live) /\ Exclusive(disk)
    BY DEF IInv, Kept, Sound
  <2>2. /\ a.occ \in Active(disk) /\ a = Invocation(disk, a.occ)
        /\ b.occ \in Active(disk) /\ b = Invocation(disk, b.occ)
    BY <2>1 DEF Alive
  <2>3. a.sched = disk.occ[a.occ].sched /\ b.sched = disk.occ[b.occ].sched
    BY <2>2, SMTT(30) DEF Invocation
  <2>4. a.occ = b.occ
    BY <2>1, <2>2, <2>3 DEF Exclusive, Overlap, DefOf
  <2> QED
    BY <2>2, <2>4
<1> QED
  BY <1>1, Inductive, PTL

(* No more than Limits::running executions exist at once, counting those   *)
(* whose runner is gone: each one is the current attempt of its own active *)
(* receipt.                                                                *)
THEOREM ExecutionsBoundedHolds == Spec => []ExecutionsBounded
<1>1. IInv => ExecutionsBounded
  <2> SUFFICES ASSUME IInv PROVE Cardinality(live) <= MaxRunning
    BY DEF ExecutionsBounded
  <2> DEFINE f == [inv \in live |-> inv.occ]
  <2>1. IsState(disk) /\ Within(disk) /\ Alive(disk, live)
    BY DEF IInv, Kept, Sound
  <2>2. f \in [live -> Active(disk)] /\ \A a, b \in live : f[a] = f[b] => a = b
    BY <2>1 DEF Alive
  <2>3. f \in Injection(live, Active(disk))
    BY <2>2 DEF Injection, IsInjective
  <2>4. IsFiniteSet(Active(disk))
    BY <2>1, StateFinite
  <2> HIDE DEF f
  <2>5. IsFiniteSet(live) /\ Cardinality(live) <= Cardinality(Active(disk))
    BY <2>3, <2>4, FS_Injection
  <2>6. Cardinality(live) \in Nat /\ Cardinality(Active(disk)) \in Nat
    BY <2>4, <2>5, FS_CardinalityType
  <2> QED
    BY <2>1, <2>5, <2>6, LimitsAssumption, SMT DEF Within
<1> QED
  BY <1>1, Inductive, PTL

(* No receipt that claim may still take carries an attempt that claim has  *)
(* returned before, whatever was lost or recovered in between.             *)
THEOREM NeverHandedTwiceHolds == Spec => []NeverHandedTwice
<1>1. IInv => NeverHandedTwice
  BY ZenonT(30) DEF IInv, Kept, Sound, History, NeverHandedTwice
<1> QED
  BY <1>1, Inductive, PTL

(* Occurrences of a schedule that is not Concurrent are handed out in the  *)
(* order of their slots, each after the earlier ones are resolved.         *)
THEOREM QueueOrderHolds == Spec => []QueueOrder
<1>1. IInv => QueueOrder
  BY DEF IInv, Kept, Sound, Ordered, QueueOrder
<1> QED
  BY <1>1, Inductive, PTL

(* No calendar slot is executed as two occurrences. *)
THEOREM SlotOnceHolds == Spec => []SlotOnce
<1>1. IInv => SlotOnce
  BY DEF IInv
<1> QED
  BY <1>1, Inductive, PTL
-----------------------------------------------------------------------------
(***************************************************************************)
(* What one step may do to the durable receipts and schedules: the action  *)
(* properties of SchedulerCore.  A commit replaces the durable state by    *)
(* one that Evolves from it.  For observe, which stages its state over     *)
(* many steps, the staged state is Grown from memory all along.            *)
(***************************************************************************)

(* What ReceiptLedger asks of two durable states, but for what disappears. *)
Advances(a, b) ==
    /\ a.nextId <= b.nextId
    /\ \A i \in DOMAIN a.occ \cap DOMAIN b.occ :
        Ledger!Moves(Receipt(a.occ[i]), Receipt(b.occ[i]))
    /\ \A i \in DOMAIN b.occ \ DOMAIN a.occ :
        i >= a.nextId /\ Receipt(b.occ[i]) = [kind |-> "Pending", attempt |-> 1]

Evolves(a, b) ==
    /\ Advances(a, b)
    /\ Unresolved(a) \subseteq DOMAIN b.occ
    /\ \A i \in Terminal(a) : i \in DOMAIN b.occ => b.occ[i] = a.occ[i]
    /\ \A i \in DOMAIN a.occ \cap DOMAIN b.occ :
        a.occ[i].kind \in {"Unknown", "Cancelling"} => b.occ[i].kind \notin {"Pending", "Running"}
    /\ \A s \in DOMAIN a.sched :
        ~a.sched[s].enabled =>
            /\ ~b.sched[s].enabled
            /\ \A i \in DOMAIN b.occ \ DOMAIN a.occ : b.occ[i].sched # s

Grown(a, b) ==
    /\ a.nextId <= b.nextId
    /\ Unresolved(a) \subseteq DOMAIN b.occ
    /\ \A i \in DOMAIN b.occ :
        \/ i \in DOMAIN a.occ /\ b.occ[i] = a.occ[i]
        \/ /\ i >= a.nextId
           /\ Receipt(b.occ[i]) = [kind |-> "Pending", attempt |-> 1]
           /\ a.sched[b.occ[i].sched].enabled
    /\ \A s \in DOMAIN a.sched : b.sched[s].enabled = a.sched[s].enabled

(* While observe runs, what it has staged is grown from memory, and it     *)
(* only admits slots of enabled schedules.                                 *)
Growing ==
    obs.on =>
        /\ Grown(mem, obs.st)
        /\ DOMAIN obs.st.sched = DOMAIN mem.sched
        /\ obs.dues # {} => obs.st.sched[obs.cur].enabled
-----------------------------------------------------------------------------
(* A receipt may stay as it is. *)
LEMMA StayMoves == \A r : Ledger!Moves(r, r)
  BY DEF Ledger!Moves

(* A state whose receipts are the same and whose identities are no fewer   *)
(* advances.                                                               *)
LEMMA SameAdvances ==
    ASSUME NEW a, NEW b, b.occ = a.occ, a.nextId <= b.nextId
    PROVE  Advances(a, b)
  BY StayMoves DEF Advances

(* A receipt that was not terminal takes a new status. *)
LEMMA SetStatusEvolves ==
    ASSUME NEW st, IsState(st), NEW i \in Unresolved(st),
           NEW kind \in Kinds, NEW attempt \in Nat \ {0}, NEW readyAt \in Nat,
           Ledger!Moves(Receipt(st.occ[i]), [kind |-> kind, attempt |-> attempt]),
           st.occ[i].kind \in {"Unknown", "Cancelling"} => kind \notin {"Pending", "Running"}
    PROVE  Evolves(st, SetStatus(st, i, kind, attempt, readyAt))
<1> DEFINE t == SetStatus(st, i, kind, attempt, readyAt)
<1>1. i \in DOMAIN st.occ
  BY DEF Unresolved
<1>2. /\ t.sched = st.sched
      /\ DOMAIN t.occ = DOMAIN st.occ
      /\ \A j \in DOMAIN st.occ : j # i => t.occ[j] = st.occ[j]
      /\ t.occ[i].kind = kind
      /\ Receipt(t.occ[i]) = [kind |-> kind, attempt |-> attempt]
      /\ t.nextId = st.nextId
  BY <1>1, SetStatusEffect, SMT DEF Receipt
<1> HIDE DEF t
<1>3. i \notin Terminal(st)
  BY DEF Unresolved, Terminal
<1>4. /\ Unresolved(st) \subseteq DOMAIN t.occ
      /\ \A j \in Terminal(st) : t.occ[j] = st.occ[j]
  BY <1>2, <1>3 DEF Unresolved, Terminal
<1>5. \A j \in DOMAIN st.occ : 
        st.occ[j].kind \in {"Unknown", "Cancelling"} => t.occ[j].kind \notin {"Pending", "Running"}
  BY <1>2
<1>6. Advances(st, t)
  <2>1. \A j \in DOMAIN st.occ : Ledger!Moves(Receipt(st.occ[j]), Receipt(t.occ[j]))
    BY <1>2, StayMoves
  <2>2. st.nextId <= t.nextId
    BY <1>2, SMT DEF IsState, Id
  <2> QED
    BY <1>2, <2>1, <2>2 DEF Advances
<1> QED
  BY <1>2, <1>4, <1>5, <1>6 DEF t, Evolves

(* The same for a status that keeps the attempt. *)
LEMMA SetKindEvolves ==
    ASSUME NEW st, IsState(st), NEW i \in Unresolved(st), NEW kind \in Kinds,
           kind \in Ledger!MayBecome(st.occ[i].kind)
    PROVE  Evolves(st, SetKind(st, i, kind))
<1>1. st.occ[i].attempt \in Nat \ {0}
  BY DEF IsState, IsMap, OccurrenceType, Unresolved
<1>2. Ledger!Moves(Receipt(st.occ[i]), [kind |-> kind, attempt |-> st.occ[i].attempt])
  BY DEF Ledger!Moves, Receipt
<1>3. st.occ[i].kind \in {"Unknown", "Cancelling"} => kind \notin {"Pending", "Running"}
  BY DEF Ledger!MayBecome, Ledger!Settled
<1> QED
  BY <1>1, <1>2, <1>3, SetStatusEvolves DEF SetKind

(* Nothing changes. *)
LEMMA SameEvolves ==
    ASSUME NEW st, IsState(st)
    PROVE  Evolves(st, st)
<1>1. Advances(st, st)
  BY SameAdvances, SMTT(30) DEF IsState, Id
<1> QED
  BY <1>1 DEF Evolves, Unresolved, Terminal

(* Recovery and the end of a runner. *)
LEMMA InterruptEvolves ==
    ASSUME NEW st, IsState(st)
    PROVE  Evolves(st, InterruptRunning(st))
<1> DEFINE t == InterruptRunning(st)
<1>1. /\ t.sched = st.sched /\ t.nextId = st.nextId
      /\ t.occ = [i \in DOMAIN st.occ |->
            IF st.occ[i].kind = "Running" THEN [st.occ[i] EXCEPT !.kind = "Unknown"] ELSE st.occ[i]]
  BY DEF InterruptRunning, IsState
<1> HIDE DEF t
<1>2. DOMAIN t.occ = DOMAIN st.occ
  BY <1>1
<1>3. \A i \in DOMAIN st.occ : st.occ[i].kind # "Running" => t.occ[i] = st.occ[i]
  BY <1>1
<1>4. Advances(st, t)
  <2>1. st.nextId <= t.nextId
    BY <1>1, SMT DEF IsState, Id
  <2>2. ASSUME NEW i \in DOMAIN st.occ, st.occ[i].kind = "Running"
        PROVE  Ledger!Moves(Receipt(st.occ[i]), Receipt(t.occ[i]))
    <3>1. t.occ[i].kind = "Unknown" /\ t.occ[i].attempt = st.occ[i].attempt
      BY <1>1, <2>2, SMT DEF IsState, IsMap, OccurrenceType
    <3> QED
      BY <2>2, <3>1 DEF Ledger!Moves, Ledger!MayBecome, Receipt
  <2> QED
    BY <1>2, <1>3, <2>1, <2>2, StayMoves DEF Advances
<1> QED
  BY <1>1, <1>2, <1>3, <1>4 DEF t, Evolves, Unresolved, Terminal, TerminalKinds

(* A schedule is changed without being enabled. *)
LEMMA ScheduleEvolves ==
    ASSUME NEW st, NEW t, t.occ = st.occ, st.nextId <= t.nextId,
           \A s \in DOMAIN st.sched : ~st.sched[s].enabled => ~t.sched[s].enabled
    PROVE  Evolves(st, t)
  BY SameAdvances DEF Evolves, Unresolved, Terminal

(* What is grown from a state evolves from it. *)
LEMMA GrownEvolves ==
    ASSUME NEW a, NEW b, IsState(a), Linked(a), Grown(a, b)
    PROVE  Evolves(a, b)
<1>1. \A i \in DOMAIN a.occ : i < a.nextId /\ i \in Nat /\ a.nextId \in Nat
  BY SMT DEF Linked, IsState, IsMap, Id
<1>2. \A i \in DOMAIN a.occ \cap DOMAIN b.occ : b.occ[i] = a.occ[i]
  BY <1>1, SMT DEF Grown
<1>3. \A i \in DOMAIN b.occ \ DOMAIN a.occ : a.sched[b.occ[i].sched].enabled
  BY DEF Grown
<1>4. \A i \in DOMAIN b.occ \ DOMAIN a.occ :
        i >= a.nextId /\ Receipt(b.occ[i]) = [kind |-> "Pending", attempt |-> 1]
  BY DEF Grown
<1>5. Advances(a, b)
  BY <1>2, <1>4, StayMoves DEF Grown, Advances
<1>6. \A i \in DOMAIN a.occ \cap DOMAIN b.occ :
        a.occ[i].kind \in {"Unknown", "Cancelling"} => b.occ[i].kind \notin {"Pending", "Running"}
  BY <1>2
<1> QED
  BY <1>2, <1>3, <1>5, <1>6 DEF Evolves, Grown, Terminal
-----------------------------------------------------------------------------
(* The steps of observe. *)

(* Moving a cursor or counting a rejection leaves the receipts alone. *)
LEMMA ScheduleGrown ==
    ASSUME NEW a, NEW st, NEW t, Grown(a, st), DOMAIN a.sched = DOMAIN st.sched,
           t.nextId = st.nextId, t.occ = st.occ,
           \A s \in DOMAIN st.sched : t.sched[s].enabled = st.sched[s].enabled
    PROVE  Grown(a, t)
  BY DEF Grown

(* The cursor is the only thing AdvanceCursor changes. *)
LEMMA AdvanceGrown ==
    ASSUME NEW a, NEW st, IsState(st), Grown(a, st), DOMAIN a.sched = DOMAIN st.sched,
           NEW s \in DOMAIN st.sched, NEW now
    PROVE  LET t == AdvanceCursor(st, s, now) IN
           /\ Grown(a, t)
           /\ DOMAIN t.sched = DOMAIN st.sched
           /\ \A u \in DOMAIN st.sched : t.sched[u].enabled = st.sched[u].enabled
<1> DEFINE t == AdvanceCursor(st, s, now)
           r == [st.sched[s] EXCEPT !.nextDue = NextSlot(st.sched[s].def, now)]
<1>1. /\ t.nextId = st.nextId /\ t.occ = st.occ
      /\ t.sched = [st.sched EXCEPT ![s] = r]
  BY DEF AdvanceCursor, IsState
<1>2. r.enabled = st.sched[s].enabled
  BY DEF IsState, IsMap, ScheduleType
<1> HIDE DEF t, r
<1>3. /\ DOMAIN t.sched = DOMAIN st.sched
      /\ \A u \in DOMAIN st.sched : t.sched[u].enabled = st.sched[u].enabled
  BY <1>1, <1>2 DEF IsState, IsMap
<1>4. Grown(a, t)
  BY <1>1, <1>3, ScheduleGrown
<1> QED
  BY <1>3, <1>4 DEF t

(* Eviction removes a receipt that was terminal before observe began. *)
LEMMA EvictGrown ==
    ASSUME NEW a, NEW st, IsState(a), Linked(a), IsState(st), Grown(a, st),
           RecordsFull(st) => Terminal(st) # {}
    PROVE  Grown(a, Evict(st))
<1> DEFINE t == Evict(st)
           n == Least(Terminal(st))
<1>1. CASE ~RecordsFull(st)
  BY <1>1 DEF Evict
<1>2. CASE RecordsFull(st)
  <2>1. n \in Terminal(st)
    <3>1. Terminal(st) \in SUBSET Nat
      BY SMT DEF Terminal, IsState, IsMap, Id
    <3> QED
      BY <1>2, <3>1, LeastIsMinimum
  <2>2. t.nextId = st.nextId /\ t.sched = st.sched /\ t.occ = Remove(st.occ, n)
    BY <1>2 DEF Evict, IsState
  <2> HIDE DEF t, n
  <2>3. /\ DOMAIN t.occ = DOMAIN st.occ \ {n}
        /\ \A i \in DOMAIN t.occ : t.occ[i] = st.occ[i]
    BY <2>2 DEF Remove
  <2>4. n \notin Unresolved(a)
    <3>1. SUFFICES ASSUME n \in Unresolved(a) PROVE FALSE
      OBVIOUS
    <3>2. n \in DOMAIN a.occ /\ a.occ[n].kind \notin TerminalKinds
      BY <3>1 DEF Unresolved
    <3>3. n < a.nextId /\ n \in Nat /\ a.nextId \in Nat
      BY <3>2, SMT DEF Linked, IsState, IsMap, Id
    <3>4. n \in DOMAIN st.occ /\ st.occ[n].kind \in TerminalKinds
      BY <2>1 DEF Terminal
    <3>5. st.occ[n] = a.occ[n]
      BY <3>3, <3>4, SMTT(30) DEF Grown
    <3> QED
      BY <3>2, <3>4, <3>5
  <2> QED
    BY <2>2, <2>3, <2>4 DEF t, Grown
<1> QED
  BY <1>1, <1>2

(* One slot: rejected, or admitted under a new identity. *)
LEMMA AdmitGrown ==
    ASSUME NEW a, NEW st, IsState(a), Linked(a), Settled(st), Grown(a, st),
           DOMAIN a.sched = DOMAIN st.sched,
           NEW s \in DOMAIN st.sched, st.sched[s].enabled, NEW due, NEW now
    PROVE  LET t == AdmitSlot(st, s, due, now) IN
           /\ Grown(a, t)
           /\ DOMAIN t.sched = DOMAIN st.sched
           /\ \A u \in DOMAIN st.sched : t.sched[u].enabled = st.sched[u].enabled
<1> DEFINE t == AdmitSlot(st, s, due, now)
<1>0. IsState(st)
  BY DEF Settled
<1>1. CASE Refused(st, s) \/ (RecordsFull(st) /\ Terminal(st) = {})
  <2> DEFINE n == IF st.sched[s].rejected < MaxRejected THEN st.sched[s].rejected + 1 ELSE st.sched[s].rejected
             r == [st.sched[s] EXCEPT !.rejected = n]
  <2>1. t = Reject(st, s)
    BY <1>1 DEF AdmitSlot
  <2>2. /\ t.nextId = st.nextId /\ t.occ = st.occ
        /\ t.sched = [st.sched EXCEPT ![s] = r]
    BY <1>0, <2>1 DEF Reject, IsState
  <2>3. r.enabled = st.sched[s].enabled
    BY <1>0 DEF IsState, IsMap, ScheduleType
  <2> HIDE DEF t, r
  <2>4. /\ DOMAIN t.sched = DOMAIN st.sched
        /\ \A u \in DOMAIN st.sched : t.sched[u].enabled = st.sched[u].enabled
    BY <1>0, <2>2, <2>3 DEF IsState, IsMap
  <2>5. Grown(a, t)
    BY <2>2, <2>4, ScheduleGrown
  <2> QED
    BY <2>4, <2>5 DEF t
<1>2. CASE ~Refused(st, s) /\ ~(RecordsFull(st) /\ Terminal(st) = {})
  <2> DEFINE e == Evict(st)
             o == NewOccurrence(s, due, now)
             n == e.nextId
  <2>1. t = Insert(e, s, due, now)
    BY <1>2 DEF AdmitSlot
  <2>2. e.sched = st.sched /\ n = st.nextId /\ Tame(st, e)
    BY <1>2, EvictTame
  <2>3. Grown(a, e)
    BY <1>0, <1>2, EvictGrown
  <2>4. /\ t.nextId = n + 1 /\ t.sched = st.sched /\ t.occ = Put(e.occ, n, o)
        /\ Receipt(o) = [kind |-> "Pending", attempt |-> 1] /\ o.sched = s
    BY <2>1, <2>2, SMT DEF Insert, NewOccurrence, Receipt
  <2>5. n \in Nat /\ a.nextId \in Nat
    BY <1>0, <2>2, SMT DEF IsState, Id
  <2> HIDE DEF e, t, o
  <2>6. /\ DOMAIN t.occ = DOMAIN e.occ \cup {n}
        /\ t.occ[n] = o
        /\ \A i \in DOMAIN e.occ \ {n} : t.occ[i] = e.occ[i]
    BY <2>4 DEF Put
  <2>7. a.sched[s].enabled /\ a.nextId <= n
    BY <2>2, <2>3 DEF Grown
  <2>8. Grown(a, t)
    <3>1. a.nextId <= t.nextId
      BY ONLY <2>4, <2>5, <2>7, SMTT(30)
    <3>2. Unresolved(a) \subseteq DOMAIN t.occ
      BY ONLY <2>3, <2>6, Zenon DEF Grown
    <3>3. ASSUME NEW i \in DOMAIN t.occ
          PROVE  \/ i \in DOMAIN a.occ /\ t.occ[i] = a.occ[i]
                 \/ /\ i >= a.nextId
                    /\ Receipt(t.occ[i]) = [kind |-> "Pending", attempt |-> 1]
                    /\ a.sched[t.occ[i].sched].enabled
      <4>1. CASE i = n
        BY ONLY <4>1, <2>4, <2>5, <2>6, <2>7, Zenon
      <4>2. CASE i # n
        <5>1. i \in DOMAIN e.occ /\ t.occ[i] = e.occ[i]
          BY ONLY <4>2, <3>3, <2>6, Zenon
        <5> QED
          BY ONLY <5>1, <2>3, Zenon DEF Grown
      <4> QED
        BY <4>1, <4>2
    <3>4. \A u \in DOMAIN a.sched : t.sched[u].enabled = a.sched[u].enabled
      BY ONLY <2>2, <2>3, <2>4, Zenon DEF Grown
    <3> QED
      BY ONLY <3>1, <3>2, <3>3, <3>4, Zenon DEF Grown
  <2> QED
    BY <2>4, <2>8 DEF t
<1> QED
  BY <1>1, <1>2
-----------------------------------------------------------------------------
(* A step that is not one of observe leaves what is staged alone, or ends  *)
(* it.                                                                     *)
Bystander == ~obs'.on \/ (obs' = obs /\ (obs.on => mem' = mem))

(* Only the steps of observe stage anything. *)
LEMMA OthersStandBy ==
    ASSUME IInv, Next, ~ObserveBegin, ~(\E s \in Id : ObserveSchedule(s)),
           ~(\E due \in obs.dues : ObserveSlot(due))
    PROVE  Bystander
<1>0. ~NotObserving.on
  BY NotObservingType
<1>1. CASE Management
  BY <1>1 DEF Management, Create, Disable, Delete, Cancel, Acknowledge, Ready, Manage,
       runnerVars, Bystander
<1>2. CASE Runner
  <2>1. CASE Completion
    BY <1>0, <2>1 DEF Completion, Finish, FinishStale, RunnerGone, Ready, Bystander
  <2>2. CASE \E i \in Id : Claim(i)
    BY <2>2 DEF Claim, Ready, Bystander
  <2>3. CASE RunnerStart \/ ObserveStale \/ ClaimNone
    BY <2>3 DEF RunnerStart, ObserveStale, ClaimNone, coreVars, Bystander
  <2>4. CASE RunnerExit \/ RunnerFails \/ ObserveExhausted \/ ObserveCommit
    BY <1>0, <2>4 DEF RunnerExit, RunnerFails, ObserveExhausted, ObserveCommit, RunnerGone, Bystander
  <2> QED
    BY <1>2, <2>1, <2>2, <2>3, <2>4 DEF Runner
<1>3. CASE Environment
  <2>1. CASE \E inv \in live : ExecutionStops(inv)
    BY <2>1 DEF ExecutionStops, coreVars, runnerVars, Bystander
  <2>2. CASE RunnerStop \/ Tick \/ ClockStepsBack
    BY <2>2 DEF RunnerStop, Tick, ClockStepsBack, coreVars, runnerVars, Bystander
  <2>3. CASE RunnerAbort \/ Crash \/ Close
    BY <1>0, <2>3 DEF RunnerAbort, Crash, Close, Down, RunnerGone, Bystander
  <2>4. CASE Reopen
    BY <2>4 DEF Reopen, runnerVars, Bystander, IInv, Staged, Observing
  <2> QED
    BY <1>3, <2>1, <2>2, <2>3, <2>4 DEF Environment
<1> QED
  BY <1>1, <1>2, <1>3 DEF Next

(* Every step preserves Growing. *)
LEMMA NextGrowing == IInv /\ Growing /\ [Next]_vars => Growing'
<1> SUFFICES ASSUME IInv, Growing, [Next]_vars PROVE Growing'
  OBVIOUS
<1>0. IsState(mem) /\ Linked(mem)
  BY DEF IInv, Kept, Sound
<1>1. CASE ObserveBegin
  <2>1. obs'.st = mem /\ obs'.dues = {} /\ mem' = mem
    BY <1>1 DEF ObserveBegin, coreVars
  <2>2. mem.nextId <= mem.nextId
    BY <1>0, SMTT(30) DEF IsState, Id
  <2> QED
    BY <2>1, <2>2 DEF Growing, Grown, Unresolved
<1>2. ASSUME NEW s \in Id, ObserveSchedule(s) PROVE Growing'
  <2> DEFINE t == AdvanceCursor(obs.st, s, obs.now)
  <2>1. /\ obs.on /\ s \in obs.todo
        /\ obs'.st = t /\ obs'.on = obs.on /\ obs'.cur = s /\ mem' = mem
        /\ obs'.dues = Admissible(obs.st.sched[s], obs.now)
    BY <1>2, ZenonT(30) DEF ObserveSchedule, coreVars, IInv, Types, ObsType
  <2>2. IsState(obs.st) /\ s \in DOMAIN obs.st.sched
    BY <2>1 DEF IInv, Staged, Observing, Sound
  <2>3. Grown(mem, obs.st) /\ DOMAIN obs.st.sched = DOMAIN mem.sched
    BY <2>1 DEF Growing
  <2>4. /\ Grown(mem, t)
        /\ DOMAIN t.sched = DOMAIN obs.st.sched
        /\ \A u \in DOMAIN obs.st.sched : t.sched[u].enabled = obs.st.sched[u].enabled
    BY <2>2, <2>3, AdvanceGrown, SMT
  <2> HIDE DEF t
  <2> QED
    BY <2>1, <2>2, <2>3, <2>4 DEF Growing, Admissible
<1>3. ASSUME NEW due \in obs.dues, ObserveSlot(due) PROVE Growing'
  <2> DEFINE t == AdmitSlot(obs.st, obs.cur, due, obs.now)
  <2>1. /\ obs.on
        /\ obs'.st = t /\ obs'.on = obs.on /\ obs'.cur = obs.cur /\ mem' = mem
        /\ obs'.dues = obs.dues \ {due}
    BY <1>3, ZenonT(30) DEF ObserveSlot, coreVars, IInv, Types, ObsType
  <2>2. Settled(obs.st) /\ obs.cur \in DOMAIN obs.st.sched
    BY <2>1 DEF IInv, Staged, Observing, Sound, Settled, Fresh
  <2>3. /\ Grown(mem, obs.st) /\ DOMAIN obs.st.sched = DOMAIN mem.sched
        /\ obs.st.sched[obs.cur].enabled
    BY <2>1 DEF Growing
  <2>4. /\ Grown(mem, t)
        /\ DOMAIN t.sched = DOMAIN obs.st.sched
        /\ \A u \in DOMAIN obs.st.sched : t.sched[u].enabled = obs.st.sched[u].enabled
    BY <1>0, <2>2, <2>3, AdmitGrown, SMT
  <2> HIDE DEF t
  <2> QED
    BY <2>1, <2>2, <2>3, <2>4 DEF Growing
<1>4. CASE Bystander
  BY <1>4 DEF Bystander, Growing
<1>5. CASE UNCHANGED vars
  BY <1>5 DEF vars, runnerVars, coreVars, Growing
<1> QED
  BY <1>1, <1>2, <1>3, <1>4, <1>5, OthersStandBy
-----------------------------------------------------------------------------
(* A commit of what evolves from memory. *)
LEMMA CommitEvolves ==
    ASSUME IInv, ~poisoned, NEW t, Evolves(mem, t), Stored(t) \/ Torn(t) \/ Commit(t)
    PROVE  Evolves(disk, disk')
<1>1. mem = disk
  BY DEF IInv, Kept
<1>2. disk' = disk \/ disk' = t
  BY DEF Commit, Stored, Torn
<1> QED
  BY <1>1, <1>2, SameEvolves DEF IInv, Kept, Sound

(* Every step replaces the durable state by one that evolves from it. *)
LEMMA StepEvolves == IInv /\ Growing /\ [Next]_vars => Evolves(disk, disk')
<1> SUFFICES ASSUME IInv, Growing, [Next]_vars PROVE Evolves(disk, disk')
  OBVIOUS
<1>0. IsState(mem) /\ Linked(mem) /\ IsState(disk)
  BY DEF IInv, Kept, Sound
<1>1. Evolves(mem, InterruptRunning(mem)) /\ Evolves(disk, InterruptRunning(disk))
  BY <1>0, InterruptEvolves
<1>2. CASE UNCHANGED disk
  BY <1>0, <1>2, SameEvolves
<1>3. ASSUME Management PROVE Evolves(disk, disk')
  <2>1. ASSUME NEW d \in Definitions, Create(d) PROVE Evolves(disk, disk')
    <3> DEFINE t == CreateSchedule(mem, d, clock)
    <3>1. /\ t.nextId = mem.nextId + 1 /\ t.occ = mem.occ
          /\ t.sched = Put(mem.sched, mem.nextId, NewSchedule(d, clock))
      BY DEF CreateSchedule
    <3>2. \A s \in DOMAIN mem.sched : s # mem.nextId
      BY <1>0, SMT DEF IsState, IsMap, Id, Linked
    <3> HIDE DEF t
    <3>3. \A s \in DOMAIN mem.sched : t.sched[s] = mem.sched[s]
      BY <3>1, <3>2 DEF Put
    <3>4. Evolves(mem, t)
      <4>1. mem.nextId <= t.nextId
        BY <1>0, <3>1, SMT DEF IsState, Id
      <4> QED
        BY <3>1, <3>3, <4>1, ScheduleEvolves, SMTT(30)
    <3>5. ~poisoned /\ Commit(t)
      BY <2>1 DEF Create, Ready, Manage, t
    <3> QED
      BY <3>4, <3>5, CommitEvolves
  <2>2. ASSUME NEW s \in Id, NEW delete \in BOOLEAN, Ready, s \in DOMAIN mem.sched,
               Manage(StopSchedule(mem, s, delete))
        PROVE  Evolves(disk, disk')
    <3> DEFINE t == StopSchedule(mem, s, delete)
               r == [mem.sched[s] EXCEPT !.enabled = FALSE, !.deleted = @ \/ delete]
    <3>1. t.nextId = mem.nextId /\ t.occ = mem.occ /\ t.sched = [mem.sched EXCEPT ![s] = r]
      BY <1>0, ZenonT(30) DEF StopSchedule, IsState, IsMap
    <3>2. ~r.enabled
      BY <1>0, <2>2 DEF IsState, IsMap, ScheduleType
    <3> HIDE DEF t, r
    <3>3. \A u \in DOMAIN mem.sched : ~mem.sched[u].enabled => ~t.sched[u].enabled
      BY <1>0, <3>1, <3>2 DEF IsState, IsMap
    <3>4. Evolves(mem, t)
      <4>1. mem.nextId <= t.nextId
        BY <1>0, <3>1, SMT DEF IsState, Id
      <4> QED
        BY <3>1, <3>3, <4>1, ScheduleEvolves
    <3>5. ~poisoned /\ Commit(t)
      BY <2>2 DEF Ready, Manage, t
    <3> QED
      BY <3>4, <3>5, CommitEvolves
  <2>3. ASSUME NEW i \in Id, Cancel(i) PROVE Evolves(disk, disk')
    <3>1. i \in Unresolved(mem)
      BY <2>3 DEF Cancel, CanRequestCancel, Unresolved, TerminalKinds
    <3>2. Evolves(mem, RequestCancel(mem, i))
      <4> DEFINE k == IF mem.occ[i].kind = "Pending" THEN "Cancelled" ELSE "Cancelling"
      <4>1. k \in Kinds /\ k \in Ledger!MayBecome(mem.occ[i].kind)
        BY <2>3 DEF Cancel, CanRequestCancel, Kinds, ActiveKinds, TerminalKinds, Ledger!MayBecome
      <4> HIDE DEF k
      <4> QED
        BY <1>0, <3>1, <4>1, SetKindEvolves DEF RequestCancel, k
    <3> QED
      BY <2>3, <3>2, CommitEvolves DEF Cancel, Ready, Manage
  <2>4. ASSUME NEW i \in Id, Acknowledge(i) PROVE Evolves(disk, disk')
    <3>1. i \in Unresolved(mem)
      BY <2>4 DEF Acknowledge, CanAcknowledge, Unresolved, TerminalKinds
    <3>2. Evolves(mem, AcknowledgeStopped(mem, i))
      <4>1. "Abandoned" \in Kinds /\ "Abandoned" \in Ledger!MayBecome(mem.occ[i].kind)
        BY <2>4 DEF Acknowledge, CanAcknowledge, Kinds, TerminalKinds, Ledger!MayBecome, Ledger!Settled
      <4> QED
        BY <1>0, <3>1, <4>1, SetKindEvolves DEF AcknowledgeStopped
    <3> QED
      BY <2>4, <3>2, CommitEvolves DEF Acknowledge, Ready, Manage
  <2> QED
    BY <1>3, <2>1, <2>2, <2>3, <2>4, ZenonT(30) DEF Management, Disable, Delete
<1>4. ASSUME Runner PROVE Evolves(disk, disk')
  <2>1. ASSUME NEW inv \in tasks, NEW outcome \in Outcomes, Finish(inv, outcome)
        PROVE  Evolves(disk, disk')
    <3> DEFINE i == inv.occ
               t == FinishInvocation(mem, inv, outcome, clock)
    <3>1. /\ ~poisoned /\ i \in DOMAIN mem.occ
          /\ mem.occ[i].kind \in {"Running", "Cancelling"} /\ Commit(t)
      BY <2>1 DEF Finish, Ready, CanFinish
    <3>2. i \in Unresolved(mem)
      BY <3>1 DEF Unresolved, TerminalKinds
    <3>3. CASE Retries(mem, inv, outcome)
      <4>1. mem.occ[i].kind = "Running" /\ t = Requeue(mem, i, clock + DefOf(mem, i).delay)
        BY <3>1, <3>3 DEF Retries, FinishInvocation
      <4>2. mem.occ[i].attempt + 1 \in Nat \ {0}
        BY <1>0, <3>1, SMT DEF IsState, IsMap, OccurrenceType
      <4>3. clock + DefOf(mem, i).delay \in Nat
        <5>1. mem.occ[i].sched \in DOMAIN mem.sched
          BY <1>0, <3>1 DEF Linked
        <5>2. DefOf(mem, i) \in DefinitionType
          BY <1>0, <5>1, DefinitionsAssumption DEF DefOf, IsState, IsMap, ScheduleType
        <5>3. clock \in Nat
          BY BoundsAssumption, SMTT(30) DEF IInv, Types, Time
        <5> QED
          BY <5>2, <5>3, SMTT(30) DEF DefinitionType
      <4>4. Ledger!Moves(Receipt(mem.occ[i]), [kind |-> "Pending", attempt |-> mem.occ[i].attempt + 1])
        BY <4>1 DEF Ledger!Moves, Receipt
      <4>5. Evolves(mem, t)
        BY <1>0, <3>2, <4>1, <4>2, <4>3, <4>4, SetStatusEvolves DEF Requeue, Kinds
      <4> QED
        BY <3>1, <4>5, CommitEvolves
    <3>4. CASE t = mem
      BY <1>0, <3>1, <3>4, SameEvolves, CommitEvolves
    <3>5. CASE /\ ~(outcome = "Unknown" /\ mem.occ[i].kind = "Cancelling")
               /\ t = SetKind(mem, i, outcome)
      <4>1. outcome \in Kinds /\ outcome \in Ledger!MayBecome(mem.occ[i].kind)
        BY <3>1, <3>5 DEF Outcomes, Kinds, ActiveKinds, TerminalKinds, Ledger!MayBecome, Ledger!Settled
      <4>2. Evolves(mem, t)
        BY <1>0, <3>2, <3>5, <4>1, SetKindEvolves
      <4> QED
        BY <3>1, <4>2, CommitEvolves
    <3> QED
      BY <3>3, <3>4, <3>5 DEF FinishInvocation
  <2>2. ASSUME NEW i \in Id, Claim(i) PROVE Evolves(disk, disk')
    <3>1. /\ ~poisoned /\ i \in DOMAIN mem.occ /\ mem.occ[i].kind = "Pending"
          /\ Stored(ClaimOccurrence(mem, i)) \/ Torn(ClaimOccurrence(mem, i))
      BY <2>2 DEF Claim, Ready, IsCandidate, Claimable
    <3>2. i \in Unresolved(mem)
      BY <3>1 DEF Unresolved, TerminalKinds
    <3>3. Evolves(mem, ClaimOccurrence(mem, i))
      <4>1. "Running" \in Kinds /\ "Running" \in Ledger!MayBecome(mem.occ[i].kind)
        BY <3>1 DEF Kinds, ActiveKinds, Ledger!MayBecome
      <4> QED
        BY <1>0, <3>2, <4>1, SetKindEvolves DEF ClaimOccurrence
    <3> QED
      BY <3>1, <3>3, CommitEvolves
  <2>3. ASSUME ObserveCommit PROVE Evolves(disk, disk')
    <3> DEFINE t == [obs.st EXCEPT !.watermark = obs.now]
    <3>1. ~poisoned /\ obs.on /\ Commit(t)
      BY <2>3 DEF ObserveCommit, IInv, Staged, Observing
    <3>2. Grown(mem, obs.st) /\ IsState(obs.st)
      BY <3>1 DEF Growing, IInv, Staged, Observing, Sound
    <3>3. t.nextId = obs.st.nextId /\ t.sched = obs.st.sched /\ t.occ = obs.st.occ
      BY <3>2 DEF IsState
    <3> HIDE DEF t
    <3>4. Grown(mem, t)
      BY <3>2, <3>3, ZenonT(30) DEF Grown
    <3>5. Evolves(mem, t)
      BY <1>0, <3>4, GrownEvolves
    <3> QED
      BY <3>1, <3>5, CommitEvolves
  <2>4. ASSUME RunnerExit \/ ObserveExhausted \/ (\E inv \in tasks : FinishStale(inv))
        PROVE  Evolves(disk, disk')
    <3>1. ~poisoned /\ Commit(InterruptRunning(mem))
      BY <2>4 DEF RunnerExit, ObserveExhausted, FinishStale, Ready, IInv, Staged, Observing
    <3> QED
      BY <1>1, <3>1, CommitEvolves
  <2>5. ASSUME RunnerStart \/ RunnerFails \/ ObserveStale \/ ObserveBegin \/ ClaimNone
               \/ (\E s \in Id : ObserveSchedule(s)) \/ (\E due \in obs.dues : ObserveSlot(due))
        PROVE  UNCHANGED disk
    BY <2>5, ZenonT(30) DEF RunnerStart, RunnerFails, ObserveStale, ObserveBegin, ObserveSchedule,
         ObserveSlot, ClaimNone, coreVars
  <2> QED
    BY <1>2, <1>4, <2>1, <2>2, <2>3, <2>4, <2>5 DEF Runner, Completion
<1>5. ASSUME Environment PROVE Evolves(disk, disk')
  <2>1. CASE RunnerAbort
    BY <1>1, <2>1, CommitEvolves DEF RunnerAbort, Ready
  <2>2. CASE Reopen
    BY <1>0, <1>1, <2>2, SameEvolves DEF Reopen
  <2>3. CASE RunnerStop \/ Tick \/ ClockStepsBack \/ Crash \/ Close
             \/ (\E inv \in live : ExecutionStops(inv))
    BY <1>2, <2>3 DEF RunnerStop, Tick, ClockStepsBack, Crash, Close, Down, ExecutionStops, coreVars
  <2> QED
    BY <1>5, <2>1, <2>2, <2>3 DEF Environment
<1> QED
  BY <1>2, <1>3, <1>4, <1>5 DEF Next, vars, coreVars

(* Along every behaviour the durable state evolves. *)
LEMMA DiskEvolves == Spec => [][Evolves(disk, disk')]_vars
<1>1. Init => Growing
  BY NotObservingType DEF Init, Growing
<1>2. IInv /\ Growing /\ [Next]_vars => [Evolves(disk, disk')]_vars
  BY StepEvolves
<1> QED
  BY <1>1, <1>2, NextGrowing, Inductive, PTL DEF Spec

(* An uncertain or cancelled attempt is never claimable or running again.  *)
THEOREM UncertainNeverRetriedHolds == Spec => UncertainNeverRetried
<1>1. Evolves(disk, disk') =>
        \A i \in DOMAIN disk.occ \cap DOMAIN disk'.occ :
            disk.occ[i].kind \in {"Unknown", "Cancelling"}
            => disk'.occ[i].kind \notin {"Pending", "Running"}
  BY DEF Evolves
<1> QED
  BY <1>1, DiskEvolves, PTL DEF UncertainNeverRetried

(* Unresolved receipts are never lost and terminal ones never rewritten.   *)
THEOREM ReceiptsKeptHolds == Spec => ReceiptsKept
<1>1. Evolves(disk, disk') =>
        /\ Unresolved(disk) \subseteq DOMAIN disk'.occ
        /\ \A i \in Terminal(disk) : i \in DOMAIN disk'.occ => disk'.occ[i] = disk.occ[i]
  BY DEF Evolves
<1> QED
  BY <1>1, DiskEvolves, PTL DEF ReceiptsKept

(* A stopped schedule stays stopped and admits nothing.                    *)
THEOREM StoppedStaysStoppedHolds == Spec => StoppedStaysStopped
<1>1. Evolves(disk, disk') =>
        \A s \in DOMAIN disk.sched :
            ~disk.sched[s].enabled =>
                /\ ~disk'.sched[s].enabled
                /\ \A i \in DOMAIN disk'.occ \ DOMAIN disk.occ : disk'.occ[i].sched # s
  BY DEF Evolves
<1> QED
  BY <1>1, DiskEvolves, PTL DEF StoppedStaysStopped

(* Two durable states of which the second evolves from the first are a     *)
(* step of the ledger.                                                     *)
LEMMA EvolvesIsLedgerStep ==
    ASSUME IsState(disk), IsState(disk'), Linked(disk'), Evolves(disk, disk')
    PROVE  Ledger!Next
<1> DEFINE r == [i \in DOMAIN disk.occ |-> Receipt(disk.occ[i])]
           s == [i \in DOMAIN disk'.occ |-> Receipt(disk'.occ[i])]
<1>0. Advances(disk, disk') /\ Unresolved(disk) \subseteq DOMAIN disk'.occ
  BY DEF Evolves
<1>1. disk.nextId \in Nat /\ disk'.nextId \in Nat /\ DOMAIN disk'.occ \subseteq Nat
  BY SMTT(30) DEF IsState, IsMap, Id
<1>2. \A i \in DOMAIN r \cap DOMAIN s : Ledger!Moves(r[i], s[i])
  BY <1>0 DEF Advances
<1>3. \A i \in DOMAIN r \ DOMAIN s : r[i].kind \in Ledger!Settled
  BY <1>0 DEF Unresolved, TerminalKinds, Ledger!Settled, Receipt
<1>4. \A i \in DOMAIN s \ DOMAIN r :
        i > disk.nextId - 1 /\ s[i] = [kind |-> "Pending", attempt |-> 1]
  BY <1>0, <1>1, SMTT(30) DEF Advances
<1>5. disk'.nextId - 1 >= disk.nextId - 1
  BY <1>0, <1>1, SMT DEF Advances
<1>6. \A i \in DOMAIN s : i <= disk'.nextId - 1
  BY <1>1, SMTT(30) DEF Linked
<1> HIDE DEF r, s
<1>7. /\ \A i \in DOMAIN r \cap DOMAIN s : Ledger!Moves(r[i], s[i])
      /\ \A i \in DOMAIN r \ DOMAIN s : r[i].kind \in Ledger!Settled
      /\ \A i \in DOMAIN s \ DOMAIN r :
            /\ i > disk.nextId - 1
            /\ s[i] = [kind |-> "Pending", attempt |-> 1]
      /\ disk'.nextId - 1 >= disk.nextId - 1
      /\ \A i \in DOMAIN s : i <= disk'.nextId - 1
  BY <1>2, <1>3, <1>4, <1>5, <1>6
<1> QED
  BY <1>7 DEF Ledger!Next, r, s

(* The durable receipts are a history of the abstract ledger: what the     *)
(* local core stores implements ReceiptLedger.                             *)
THEOREM ImplementsLedgerHolds == Spec => ImplementsLedger
<1>1. Init => Ledger!Init
  BY SMT DEF Init, EmptyState, Ledger!Init
<1>2. IInv => IsState(disk) /\ Linked(disk)
  BY DEF IInv, Kept, Sound
<1>3. IInv /\ IInv' /\ [Evolves(disk, disk')]_vars
        => [Ledger!Next]_<<[i \in DOMAIN disk.occ |-> Receipt(disk.occ[i])], disk.nextId - 1>>
  <2> SUFFICES ASSUME IInv, IInv', [Evolves(disk, disk')]_vars
               PROVE  [Ledger!Next]_<<[i \in DOMAIN disk.occ |-> Receipt(disk.occ[i])], disk.nextId - 1>>
    OBVIOUS
  <2>1. IsState(disk) /\ IsState(disk') /\ Linked(disk')
    <3>1. (IsState(disk) /\ Linked(disk))'
      BY <1>2, PTL
    <3> QED
      BY <1>2, <3>1
  <2>2. CASE Evolves(disk, disk')
    <3>1. Ledger!Next
      BY ONLY <2>1, <2>2, EvolvesIsLedgerStep, Zenon
    <3> QED
      BY ONLY <3>1, Zenon
  <2>3. CASE disk' = disk
    BY ONLY <2>3, Zenon
  <2> QED
    BY <2>2, <2>3 DEF vars, coreVars
<1> QED
  BY <1>1, <1>3, DiskEvolves, Inductive, PTL DEF Spec, ImplementsLedger, Ledger!Spec
=============================================================================

-------------------------- MODULE EngineRunsProofs --------------------------
(***************************************************************************)
(* The safety properties of EngineRuns, for every set of runs, native      *)
(* writes and scenarios.  The inductive invariant follows each driver from *)
(* stage to stage: what it has stored, what its record says of it, and who *)
(* holds the lifecycle lock meanwhile.  A second one follows a live task,  *)
(* its publisher and its timer, and says which isolates shutdown reaches.  *)
(***************************************************************************)
EXTENDS EngineRuns, WellFoundedInduction, FiniteSetTheorems, TLAPS

-----------------------------------------------------------------------------
(* The inductive invariant *)

\* The stages of a driver under the lifecycle lock, after its heap is stored,
\* and after its filesystem is pushed.
Submitting == {"registered", "resolved", "inputs"}
Written == {"stored", "pushed", "numbered", "logged"}
Flushed == {"pushed", "numbered", "logged"}
\* The stages without a record: before submission, and after a restart.
Absent == {"idle", "gone"}
Drivers == Absent \cup Submitting \cup Written \cup
           {"spawned", "refused", "mounted", "awaiting", "late", "joined", "done"}
\* The stages in which a native operation holds the lifecycle lock.
Opened == {"opened", "pushed", "numbered"}

RunFields == {"driver", "task", "publisher", "killed", "timer", "outcome", "heap",
              "base", "fs", "id"}
RecordFields == {"status", "handle", "stopped", "heap", "fs"}

\* What the record of a completed run says is in the stores and in the log.
Recorded(r, x, rec, heap, hs, rs, lg) ==
    /\ rec.heap \in hs \cup {NoHeap} /\ (heap <=> r \in rec.heap)
    /\ rec.fs \in rs \cup {None} /\ (x.base # None <=> rec.fs # None)
    /\ x.id # 0 => \E e \in lg : e.by = r /\ e.fs = rec.fs /\ e.heap = rec.heap

\* A stopped run has nothing left that could write.
Final(x, rec) ==
    /\ x.driver = "done" /\ x.task \in {"none", "ended"}
    /\ rec.status # "running" /\ rec.handle = FALSE

\* What the driver of a run has written at each of its stages.
Progress(r, x, heap, hs, rs, lg, top) ==
    /\ x.driver \in Written => x.heap \in hs \cup {NoHeap} /\ (heap <=> r \in x.heap)
    /\ x.driver \in Flushed => x.fs \in rs \cup {None} /\ (x.base # None <=> x.fs # None)
    /\ x.driver \notin {"numbered", "logged", "done"} => x.id = 0
    /\ x.driver = "numbered" => x.id \in 0..(top - 1)
    /\ x.driver = "logged" /\ x.id # 0 =>
         \E e \in lg : e.by = r /\ e.fs = x.fs /\ e.heap = x.heap

\* The record of a submitted run.
Filed(r, x, rec, heap, hs, rs, lg) ==
    /\ DOMAIN rec = RecordFields
    /\ rec.stopped \in BOOLEAN
    /\ rec.stopped => Final(x, rec)
    /\ rec.status = "completed" => x.driver = "done" /\ Recorded(r, x, rec, heap, hs, rs, lg)
    /\ x.driver \in Flushed => rec.fs = x.fs

Shape(x) ==
    /\ DOMAIN x = RunFields
    /\ x.driver \in Drivers
    /\ x.driver \in Absent => x.task = "none" /\ x.publisher = "none"
    /\ Snapshot(x.base)

RunOK(r, x, rec, heap, hs, rs, lg, top) ==
    /\ Shape(x)
    /\ Progress(r, x, heap, hs, rs, lg, top)
    /\ x.driver \in Absent => rec = Unknown
    /\ x.driver \notin Absent => Filed(r, x, rec, heap, hs, rs, lg)

NativeOK(y, rs, lg, top) ==
    /\ DOMAIN y = {"stage", "latest", "fs", "id"}
    /\ y.stage \in Opened => y.latest \in lg \cup {None}
    /\ y.stage \in {"pushed", "numbered"} => y.fs \in rs
    /\ y.stage = "numbered" => y.id \in 0..(top - 1)

\* The log: its entries resolve, and ids are below the next one.
LogOK(hs, rs, lg, top) ==
    /\ top \in Nat
    /\ \A x \in rs : x \subseteq Effects
    /\ \A e \in lg : /\ e.heap \in hs \cup {NoHeap} /\ e.fs \in rs \cup {None}
                     /\ e.id \in 0..(top - 1)

WorldOK ==
    /\ {"ask", "heap"} \subseteq DOMAIN world
    /\ world.heap \in BOOLEAN
    /\ \A r \in Runs : world.ask[r] # None => Snapshot(world.ask[r].fs)

\* The lifecycle lock has one holder, and shutdown waits for it.
LockOK ==
    /\ \A r \in Runs : run[r].driver \in Submitting => lock = r
    /\ \A w \in Writers : native[w].stage \in Opened => lock = w
    /\ lifecycle \in {"running", "shutting_down", "shutdown"}
    /\ lifecycle = "shutting_down" => lock = "shutdown"
    /\ lifecycle = "shutdown" => lock = None

Quiet == lifecycle # "running" =>
    \A r \in Runs : record[r].status # "running"

RunsOK == \A r \in Runs : RunOK(r, run[r], record[r], world.heap, heaps, roots, log, nextId)
AskedOK == \A r \in Runs : run[r].driver \notin Absent => world.ask[r] # None

EngineInv ==
    /\ run = [r \in Runs |-> run[r]] /\ record = [r \in Runs |-> record[r]]
    /\ native = [w \in Writers |-> native[w]]
    /\ WorldOK /\ LockOK /\ Quiet /\ RunsOK /\ AskedOK
    /\ \A w \in Writers : NativeOK(native[w], roots, log, nextId)
    /\ LogOK(heaps, roots, log, nextId)

-----------------------------------------------------------------------------
USE Zenon

(* The stores only grow, and what was true of a run or of the log stays true *)

(* get_latest has an answer: ids are bounded by the generator, so a session   *)
(* with an entry has one with the highest id, and that entry is in the log.   *)
LEMMA LatestIn ==
    ASSUME LogOK(heaps, roots, log, nextId), NEW s
    PROVE  Latest(s) \in log \cup {None}
<1>1. CASE Entries(s) = {}
  BY <1>1 DEF Latest
<1>2. CASE Entries(s) # {}
  <2> DEFINE R == {nextId - e.id : e \in Entries(s)}
  <2>1. nextId \in Nat /\ \A e \in Entries(s) : e \in log /\ e.id \in 0..(nextId - 1)
    BY DEF LogOK, Entries
  <2>2. R \in SUBSET Nat /\ R # {}
    BY <1>2, <2>1, SMT
  <2>3. PICK k \in R : \A y \in R : ~(<<y, k>> \in OpToRel(<, Nat))
    <3> HIDE DEF R
    <3> QED
      BY <2>2, NatLessThanWellFounded, WFMin
  <2>4. \A y \in R : ~(y < k)
    <3> HIDE DEF R
    <3>1. OpToRel(<, Nat) = {p \in Nat \X Nat : p[1] < p[2]}
      BY DEF OpToRel
    <3>2. \A y \in R : y \in Nat /\ k \in Nat
      BY <2>2, <2>3
    <3> QED
      BY <2>3, <3>1, <3>2
  <2>5. PICK e \in Entries(s) : k = nextId - e.id
    BY <2>3
  <2>6. ASSUME NEW f \in Entries(s) PROVE f.id <= e.id
    <3>1. ~(nextId - f.id < nextId - e.id)
      BY <2>4, <2>5
    <3> QED
      BY <2>1, <3>1, SMT
  <2>7. \E g \in Entries(s) : \A f \in Entries(s) : f.id <= g.id
    BY <2>5, <2>6
  <2>8. Latest(s) \in Entries(s)
    BY <1>2, <2>7 DEF Latest
  <2> QED
    BY <2>1, <2>8
<1> QED
  BY <1>1, <1>2

(* What a driver has stored is never taken away: put never deletes, so the    *)
(* stages of one run stay explained while the others write.                   *)
LEMMA RunKept ==
    ASSUME NEW r, NEW x, NEW rec, NEW heap, NEW hs, NEW rs, NEW lg, NEW top \in Nat,
           NEW hs2, NEW rs2, NEW lg2, NEW top2 \in Nat,
           RunOK(r, x, rec, heap, hs, rs, lg, top),
           hs \subseteq hs2, rs \subseteq rs2, lg \subseteq lg2, top <= top2
    PROVE  RunOK(r, x, rec, heap, hs2, rs2, lg2, top2)
<1>1. Progress(r, x, heap, hs2, rs2, lg2, top2)
  BY SMT DEF RunOK, Progress
<1>2. ASSUME Recorded(r, x, rec, heap, hs, rs, lg)
      PROVE  Recorded(r, x, rec, heap, hs2, rs2, lg2)
  BY <1>2 DEF Recorded
<1>3. ASSUME Filed(r, x, rec, heap, hs, rs, lg) PROVE Filed(r, x, rec, heap, hs2, rs2, lg2)
  BY <1>2, <1>3 DEF Filed
<1> QED
  BY <1>1, <1>3 DEF RunOK

(* The same for a native operation between its read and its append.           *)
LEMMA NativeKept ==
    ASSUME NEW y, NEW rs, NEW lg, NEW top \in Nat, NEW rs2, NEW lg2, NEW top2 \in Nat,
           NativeOK(y, rs, lg, top), rs \subseteq rs2, lg \subseteq lg2, top <= top2
    PROVE  NativeOK(y, rs2, lg2, top2)
  BY SMT DEF NativeOK

\* A step keeps the configuration and what was stored.
Grows ==
    /\ world'.heap = world.heap /\ world'.ask = world.ask /\ DOMAIN world' = DOMAIN world
    /\ heaps \subseteq heaps' /\ roots \subseteq roots' /\ log \subseteq log'
    /\ nextId <= nextId'
    /\ LogOK(heaps', roots', log', nextId')

(* A step that leaves the stores alone.                                       *)
LEMMA StoresSame ==
    ASSUME EngineInv, UNCHANGED stores, Sound \/ Fault PROVE Grows
  BY SMT DEF EngineInv, WorldOK, LogOK, Grows, stores, Sound, Fault

(* What remains to be shown of a step of one run: that its driver's new stage *)
(* is explained, and that it respects the lifecycle lock.                     *)
LEMMA RunStep ==
    ASSUME EngineInv, Grows, NEW r \in Runs, NEW x, NEW rec,
           run' = [run EXCEPT ![r] = x], record' = [record EXCEPT ![r] = rec],
           UNCHANGED <<native, lifecycle>>,
           RunOK(r, x, rec, world.heap, heaps', roots', log', nextId'),
           x.driver \notin Absent => world.ask[r] # None,
           x.driver \in Submitting => lock' = r,
           lock' = lock \/ (lock = None /\ lifecycle = "running") \/ (lock = r /\ lock' = None),
           lifecycle # "running" /\ rec.status = "running" => record[r].status = "running"
    PROVE  EngineInv'
<1>1. /\ run' = [q \in Runs |-> run'[q]] /\ record' = [q \in Runs |-> record'[q]]
      /\ native' = [w \in Writers |-> native'[w]]
  BY DEF EngineInv
<1>2. run'[r] = x /\ record'[r] = rec
  BY DEF EngineInv
<1>3. \A q \in Runs : q # r => run'[q] = run[q] /\ record'[q] = record[q]
  BY DEF EngineInv
<1>4. WorldOK'
  BY DEF EngineInv, WorldOK, Grows
<1>5. LockOK'
  <2>1. \A q \in Runs : run'[q].driver \in Submitting => lock' = q
    BY <1>2, <1>3, EngineAssumption, SMT DEF EngineInv, LockOK
  <2>2. \A w \in Writers : native[w].stage \in Opened => lock' = w
    BY EngineAssumption DEF EngineInv, LockOK
  <2>3. /\ lifecycle = "shutting_down" => lock' = "shutdown"
        /\ lifecycle = "shutdown" => lock' = None
    BY EngineAssumption DEF EngineInv, LockOK
  <2> QED
    BY <2>1, <2>2, <2>3 DEF EngineInv, LockOK
<1>6. Quiet'
  BY <1>2, <1>3 DEF EngineInv, Quiet
<1>7. AskedOK'
  BY <1>2, <1>3 DEF EngineInv, AskedOK, Grows
<1>8. nextId \in Nat /\ nextId' \in Nat
  BY DEF EngineInv, Grows, LogOK
<1>9. ASSUME NEW q \in Runs
      PROVE  RunOK(q, run'[q], record'[q], world'.heap, heaps', roots', log', nextId')
  <2>1. CASE q = r
    BY <1>2, <2>1 DEF Grows
  <2>2. CASE q # r
    <3>1. RunOK(q, run[q], record[q], world.heap, heaps, roots, log, nextId)
      BY DEF EngineInv, RunsOK
    <3>2. heaps \subseteq heaps' /\ roots \subseteq roots' /\ log \subseteq log'
          /\ nextId <= nextId' /\ world'.heap = world.heap
      BY DEF Grows
    <3>3. RunOK(q, run[q], record[q], world.heap, heaps', roots', log', nextId')
      BY ONLY <1>8, <3>1, <3>2, RunKept, Zenon
    <3> QED
      BY <1>3, <2>2, <3>2, <3>3
  <2> QED
    BY <2>1, <2>2
<1>10. ASSUME NEW w \in Writers PROVE NativeOK(native'[w], roots', log', nextId')
  <2>1. NativeOK(native[w], roots, log, nextId)
    BY DEF EngineInv
  <2>2. roots \subseteq roots' /\ log \subseteq log' /\ nextId <= nextId'
    BY DEF Grows
  <2> QED
    BY <1>8, <2>1, <2>2, NativeKept
<1> QED
  BY <1>1, <1>4, <1>5, <1>6, <1>7, <1>9, <1>10 DEF EngineInv, RunsOK, Grows

-----------------------------------------------------------------------------
(* The changes of a driver's state and of its record *)

(* Changing the stage of a driver leaves what it carries as it is.            *)
LEMMA DriverField ==
    ASSUME NEW x, DOMAIN x = RunFields, NEW d, NEW y, y = [x EXCEPT !.driver = d]
    PROVE  /\ DOMAIN y = RunFields /\ y.driver = d /\ y.task = x.task
           /\ y.publisher = x.publisher /\ y.heap = x.heap /\ y.base = x.base
           /\ y.fs = x.fs /\ y.id = x.id
  BY DEF RunFields

(* A driver that has stored nothing yet moves on without writing anything.    *)
LEMMA Advances ==
    ASSUME NEW r, NEW x, NEW rec, NEW heap, NEW hs, NEW rs, NEW lg, NEW top,
           RunOK(r, x, rec, heap, hs, rs, lg, top), NEW y,
           x.driver \in Drivers \ (Absent \cup Written \cup {"done"}),
           DOMAIN y = RunFields, Snapshot(y.base), y.id = x.id,
           y.driver \in Drivers \ (Absent \cup Written \cup {"done"})
    PROVE  RunOK(r, y, rec, heap, hs, rs, lg, top)
<1>1. Shape(y)
  BY DEF RunOK, Shape
<1>2. Progress(r, y, heap, hs, rs, lg, top)
  BY DEF RunOK, Progress, Written, Flushed, Drivers, Absent, Submitting
<1>3. Filed(r, y, rec, heap, hs, rs, lg)
  BY DEF RunOK, Filed, Final, Written, Flushed, Drivers, Absent, Submitting
<1> QED
  BY <1>1, <1>2, <1>3 DEF RunOK

\* The record after complete, fail or timed_out.
SettledAs(rec, status, heap) ==
    IF rec.status = "running"
    THEN [rec EXCEPT !.status = status, !.handle = FALSE, !.heap = heap] ELSE rec

(* A driver that ends without completing: its record, if it still says        *)
(* running, says so no longer, and nothing of it is claimed to be stored.     *)
LEMMA Ends ==
    ASSUME NEW r, NEW x, NEW rec, NEW heap, NEW hs, NEW rs, NEW lg, NEW top,
           RunOK(r, x, rec, heap, hs, rs, lg, top), NEW y, NEW new, NEW status,
           x.driver \in Drivers \ (Absent \cup {"done"}),
           y = [x EXCEPT !.driver = "done"], status \in {"failed", "timed_out"},
           new = SettledAs(rec, status, NoHeap)
    PROVE  RunOK(r, y, new, heap, hs, rs, lg, top) /\ new.status # "running"
<1>0. DOMAIN x = RunFields /\ DOMAIN rec = RecordFields /\ Snapshot(x.base)
  BY DEF RunOK, Shape, Filed
<1>1. /\ DOMAIN y = RunFields /\ y.driver = "done" /\ y.task = x.task
      /\ y.publisher = x.publisher /\ y.heap = x.heap /\ y.base = x.base
      /\ y.fs = x.fs /\ y.id = x.id
  BY <1>0, DriverField, SMT
<1>2. rec.stopped = FALSE /\ rec.status # "completed"
  BY DEF RunOK, Filed, Final
<1>3. DOMAIN new = RecordFields /\ new.stopped = FALSE
      /\ new.status \notin {"completed", "running"}
  BY <1>0, <1>2 DEF SettledAs, RecordFields
<1>4. Shape(y)
  BY <1>0, <1>1 DEF Shape, Drivers, Absent, Submitting, Written
<1>5. Progress(r, y, heap, hs, rs, lg, top)
  BY <1>1 DEF Progress, Written, Flushed
<1>6. Filed(r, y, new, heap, hs, rs, lg)
  BY <1>1, <1>3 DEF Filed, Flushed
<1> QED
  BY <1>1, <1>3, <1>4, <1>5, <1>6 DEF RunOK, Absent

(* What EngineInv says of one run.                                            *)
LEMMA RunFacts ==
    ASSUME EngineInv, NEW r \in Runs
    PROVE  /\ RunOK(r, run[r], record[r], world.heap, heaps, roots, log, nextId)
           /\ DOMAIN run[r] = RunFields /\ run[r].driver \in Drivers
           /\ run[r].driver \notin Absent =>
                DOMAIN record[r] = RecordFields /\ world.ask[r] # None
           /\ run = [run EXCEPT ![r] = run[r]] /\ record = [record EXCEPT ![r] = record[r]]
           /\ run[r].driver \in Submitting => lock = r
           /\ Snapshot(run[r].base)
  BY DEF EngineInv, RunsOK, RunOK, Filed, Shape, AskedOK, LockOK

(* A step of a driver that writes nothing and leaves its record alone.        *)
LEMMA AdvanceStep ==
    ASSUME EngineInv, NEW r \in Runs, NEW x, Set(r, x),
           run[r].driver \in Drivers \ (Absent \cup Written \cup {"done"}),
           x.driver \in Drivers \ (Absent \cup Written \cup {"done"}),
           DOMAIN x = RunFields, Snapshot(x.base), x.id = run[r].id,
           UNCHANGED <<lifecycle, record, native, stores>>, Sound \/ Fault,
           x.driver \in Submitting => lock' = r,
           lock' = lock \/ (lock = r /\ lock' = None)
    PROVE  EngineInv'
<1>1. Grows /\ UNCHANGED <<heaps, roots, log, nextId>>
  BY StoresSame DEF stores
<1>2. RunOK(r, x, record[r], world.heap, heaps, roots, log, nextId)
  BY ONLY RunFacts, Advances, EngineInv, r \in Runs, 
          run[r].driver \in Drivers \ (Absent \cup Written \cup {"done"}),
          x.driver \in Drivers \ (Absent \cup Written \cup {"done"}),
          DOMAIN x = RunFields, Snapshot(x.base), x.id = run[r].id, Zenon
<1>3. run' = [run EXCEPT ![r] = x] /\ record' = [record EXCEPT ![r] = record[r]]
  BY RunFacts DEF Set
<1>4. RunOK(r, x, record[r], world.heap, heaps', roots', log', nextId')
  BY <1>1, <1>2
<1>5. world.ask[r] # None
  BY RunFacts
<1> QED
  BY <1>1, <1>3, <1>4, <1>5, RunStep

(* A driver that ends without completing.                                     *)
LEMMA EndStep ==
    ASSUME EngineInv, NEW r \in Runs, NEW status \in {"failed", "timed_out"},
           DriverTo(r, "done"), Settled(r, status),
           run[r].driver \in Drivers \ (Absent \cup {"done"}),
           UNCHANGED <<lifecycle, lock, native, stores>>, Sound \/ Fault
    PROVE  EngineInv'
<1> DEFINE x == [run[r] EXCEPT !.driver = "done"]
<1> DEFINE rec == SettledAs(record[r], status, NoHeap)
<1>1. Grows /\ UNCHANGED <<heaps, roots, log, nextId>>
  BY StoresSame DEF stores
<1>2. run' = [run EXCEPT ![r] = x] /\ record' = [record EXCEPT ![r] = rec]
  BY DEF DriverTo, Set, Settled, Settle, SettledAs
<1>3. DOMAIN x = RunFields /\ x.driver = "done"
  BY RunFacts, DriverField, SMT
<1>4. RunOK(r, x, rec, world.heap, heaps, roots, log, nextId) /\ rec.status # "running"
  BY RunFacts, Ends, SMT
<1>5. x.driver \notin Submitting /\ world.ask[r] # None
  BY <1>3, RunFacts DEF Submitting
<1> HIDE DEF x, rec
<1>6. RunOK(r, x, rec, world.heap, heaps', roots', log', nextId')
  BY <1>1, <1>4
<1> QED
  BY <1>1, <1>2, <1>4, <1>5, <1>6, RunStep

-----------------------------------------------------------------------------
(* The steps of a run *)

(* Submission registers the record under the lifecycle lock.                  *)
LEMMA SubmitStep ==
    ASSUME EngineInv, NEW r \in Runs, Submit(r) PROVE EngineInv'
<1> DEFINE x == [run[r] EXCEPT !.driver = "registered"]
<1>1. Grows /\ UNCHANGED <<heaps, roots, log, nextId>>
  BY StoresSame DEF Submit, Sound, stores
<1>2. run[r].driver = "idle" /\ lock = None /\ lifecycle = "running" /\ lock' = r
      /\ world.ask[r] # None
  BY DEF Submit, Ask
<1>3. run' = [run EXCEPT ![r] = x] /\ record' = [record EXCEPT ![r] = Registered]
  BY DEF Submit, DriverTo, Set
<1>4. /\ DOMAIN x = RunFields /\ x.driver = "registered" /\ x.id = run[r].id
      /\ x.base = run[r].base
  BY RunFacts, DriverField, SMT
<1>5. run[r].id = 0 /\ Snapshot(run[r].base)
  BY <1>2, RunFacts DEF RunOK, Progress
<1> HIDE DEF x
<1>6. RunOK(r, x, Registered, world.heap, heaps, roots, log, nextId)
  <2>1. Shape(x)
    BY <1>4, <1>5 DEF Shape, Drivers, Absent, Submitting
  <2>2. Progress(r, x, world.heap, heaps, roots, log, nextId)
    BY <1>4, <1>5 DEF Progress, Written, Flushed
  <2>3. Filed(r, x, Registered, world.heap, heaps, roots, log)
    BY <1>4 DEF Filed, Registered, Unknown, RecordFields, Flushed
  <2> QED
    BY <1>4, <2>1, <2>2, <2>3 DEF RunOK, Absent
<1>7. RunOK(r, x, Registered, world.heap, heaps', roots', log', nextId')
  BY <1>1, <1>6
<1>8. UNCHANGED <<native, lifecycle>>
  BY DEF Submit
<1> QED
  BY <1>1, <1>2, <1>3, <1>7, <1>8, RunStep

(* The two reads of the session log give snapshots, whatever the log holds.   *)
LEMMA ResolveHeapStep ==
    ASSUME EngineInv, NEW r \in Runs, ResolveHeap(r) PROVE EngineInv'
<1>1. run[r].driver = "registered" /\ (Sound \/ Fault)
      /\ UNCHANGED <<lifecycle, lock, record, native, stores>>
  BY DEF ResolveHeap
<1>2. ASSUME NEW x, Set(r, x), x.driver = "resolved", DOMAIN x = RunFields,
             x.base = run[r].base, x.id = run[r].id
      PROVE  EngineInv'
  <2>1. /\ run[r].driver \in Drivers \ (Absent \cup Written \cup {"done"})
        /\ x.driver \in Drivers \ (Absent \cup Written \cup {"done"})
    BY <1>1, <1>2 DEF Drivers, Absent, Written, Submitting
  <2>2. lock = r /\ Snapshot(x.base)
    BY <1>1, <1>2, RunFacts DEF Submitting
  <2> QED
    BY <1>1, <1>2, <2>1, <2>2, AdvanceStep
<1>3. ASSUME NEW h, Set(r, [run[r] EXCEPT !.driver = "resolved", !.heap = h])
      PROVE  EngineInv'
  <2> DEFINE x == [run[r] EXCEPT !.driver = "resolved", !.heap = h]
  <2>1. /\ x.driver = "resolved" /\ DOMAIN x = RunFields
        /\ x.base = run[r].base /\ x.id = run[r].id
    BY RunFacts DEF RunFields
  <2> QED
    BY <1>2, <1>3, <2>1
<1>4. ASSUME DriverTo(r, "resolved") PROVE EngineInv'
  <2> DEFINE x == [run[r] EXCEPT !.driver = "resolved"]
  <2>1. /\ x.driver = "resolved" /\ DOMAIN x = RunFields
        /\ x.base = run[r].base /\ x.id = run[r].id
    BY RunFacts, DriverField, SMT
  <2> QED
    BY <1>2, <1>4, <2>1 DEF DriverTo
<1> QED
  BY <1>3, <1>4 DEF ResolveHeap

(* Resolving the filesystem reads the mount of the session's newest entry: a    *)
(* snapshot that is stored.                                                     *)
LEMMA ResolveFsStep ==
    ASSUME EngineInv, NEW r \in Runs, ResolveFs(r) PROVE EngineInv'
<1> DEFINE latest == Latest(Ask(r).session)
<1>0. run[r].driver = "resolved" /\ (Sound \/ Fault)
      /\ UNCHANGED <<lifecycle, lock, record, native, stores>>
  BY DEF ResolveFs
<1>1. latest \in log \cup {None}
  BY LatestIn DEF EngineInv
<1>2. latest \in log => Snapshot(latest.fs)
  BY EngineAssumption DEF EngineInv, LogOK, Snapshot
<1>3. world.ask[r] # None /\ Snapshot(Ask(r).fs)
  BY <1>0, RunFacts DEF EngineInv, WorldOK, Absent, Ask
<1>4. Snapshot({}) /\ Snapshot(None)
  BY DEF Snapshot
<1> HIDE DEF latest
<1>5. \E b : Snapshot(b) /\ Set(r, [run[r] EXCEPT !.driver = "inputs", !.base = b])
  <2> DEFINE empty == IF world.fs /\ Ask(r).session # None THEN {} ELSE None
  <2>1. Snapshot(empty)
    BY <1>4
  <2>2. Snapshot(IF Ask(r).fs # None THEN Ask(r).fs
               ELSE IF empty # None /\ latest # None /\ latest.fs # None THEN latest.fs
               ELSE empty)
    <3> HIDE DEF empty
    <3> QED
      BY <1>1, <1>2, <1>3, <2>1
  <2> QED
    BY <2>1, <2>2 DEF ResolveFs, latest
<1>6. PICK b : Snapshot(b) /\ Set(r, [run[r] EXCEPT !.driver = "inputs", !.base = b])
  BY <1>5
<1> DEFINE x == [run[r] EXCEPT !.driver = "inputs", !.base = b]
<1>7. /\ Set(r, x) /\ x.driver = "inputs" /\ DOMAIN x = RunFields
      /\ x.base = b /\ x.id = run[r].id
  BY <1>6, RunFacts DEF RunFields
<1> HIDE DEF x
<1>8. /\ run[r].driver \in Drivers \ (Absent \cup Written \cup {"done"})
      /\ x.driver \in Drivers \ (Absent \cup Written \cup {"done"})
  BY <1>0, <1>7 DEF Drivers, Absent, Written, Submitting
<1>9. lock = r /\ Snapshot(x.base)
  BY <1>0, <1>6, <1>7, RunFacts DEF Submitting
<1> QED
  BY <1>0, <1>7, <1>8, <1>9, AdvanceStep

(* The lifecycle lock is released once the heap is loaded, or is damaged.     *)
LEMMA LoadStep ==
    ASSUME EngineInv, NEW r \in Runs, Load(r) PROVE EngineInv'
<1>1. PICK d \in {"spawned", "refused"} : DriverTo(r, d)
  BY DEF Load
<1> DEFINE x == [run[r] EXCEPT !.driver = d]
<1>2. /\ Set(r, x) /\ x.driver = d /\ DOMAIN x = RunFields
      /\ x.base = run[r].base /\ x.id = run[r].id
  BY <1>1, RunFacts, DriverField, SMT DEF DriverTo
<1> HIDE DEF x
<1>3. run[r].driver = "inputs" /\ (Sound \/ Fault) /\ lock' = None
      /\ UNCHANGED <<lifecycle, record, native, stores>>
  BY DEF Load
<1>4. /\ run[r].driver \in Drivers \ (Absent \cup Written \cup {"done"})
      /\ x.driver \in Drivers \ (Absent \cup Written \cup {"done"})
      /\ x.driver \notin Submitting
  BY <1>1, <1>2, <1>3 DEF Drivers, Absent, Written, Submitting
<1>5. lock = r /\ Snapshot(x.base)
  BY <1>2, <1>3, RunFacts DEF Submitting
<1> QED
  BY <1>2, <1>3, <1>4, <1>5, AdvanceStep

(* A filesystem that cannot be mounted fails the run before V8 is started.    *)
LEMMA MountStep ==
    ASSUME EngineInv, NEW r \in Runs, Mount(r) PROVE EngineInv'
<1>0. run[r].driver = "spawned" /\ (Sound \/ Fault)
      /\ UNCHANGED <<lifecycle, lock, native, stores>>
  BY DEF Mount
<1>00. /\ run[r].driver \in Drivers \ (Absent \cup Written \cup {"done"})
       /\ run[r].driver \in Drivers \ (Absent \cup {"done"})
  BY <1>0 DEF Drivers, Absent, Written, Submitting
<1>1. CASE DriverTo(r, "mounted") /\ UNCHANGED record
  <2> DEFINE x == [run[r] EXCEPT !.driver = "mounted"]
  <2>1. /\ Set(r, x) /\ x.driver = "mounted" /\ DOMAIN x = RunFields
        /\ x.base = run[r].base /\ x.id = run[r].id
    BY <1>1, RunFacts, DriverField, SMT DEF DriverTo
  <2> HIDE DEF x
  <2>2. /\ x.driver \in Drivers \ (Absent \cup Written \cup {"done"})
        /\ x.driver \notin Submitting /\ Snapshot(x.base)
    BY <2>1, RunFacts DEF Drivers, Absent, Written, Submitting
  <2> QED
    BY <1>0, <1>00, <1>1, <2>1, <2>2, AdvanceStep
<1>2. CASE DriverTo(r, "done") /\ Settled(r, "failed")
  BY <1>0, <1>00, <1>2, EndStep
<1> QED
  BY <1>1, <1>2 DEF Mount

(* The driver enters the execution slot and starts the task and the publisher.  *)
LEMMA AdmitStep ==
    ASSUME EngineInv, NEW r \in Runs, Admit(r) PROVE EngineInv'
<1>0. run[r].driver = "mounted" /\ Sound
      /\ UNCHANGED <<lifecycle, lock, record, native, stores>>
  BY DEF Admit, Sound
<1> DEFINE x == [run[r] EXCEPT !.driver = "awaiting", !.task = "queued", !.publisher = "polling"]
<1>1. /\ Set(r, x) /\ x.driver = "awaiting" /\ DOMAIN x = RunFields
      /\ x.base = run[r].base /\ x.id = run[r].id
  BY RunFacts DEF Admit, RunFields
<1> HIDE DEF x
<1>2. /\ run[r].driver \in Drivers \ (Absent \cup Written \cup {"done"})
      /\ x.driver \in Drivers \ (Absent \cup Written \cup {"done"})
      /\ x.driver \notin Submitting /\ Snapshot(x.base)
  BY <1>0, <1>1, RunFacts DEF Drivers, Absent, Written, Submitting
<1> QED
  BY <1>0, <1>1, <1>2, AdvanceStep

(* The timer terminates the isolate; the driver still waits for the task.     *)
LEMMA TimeoutStep ==
    ASSUME EngineInv, NEW r \in Runs, Timeout(r) PROVE EngineInv'
<1>0. run[r].driver = "awaiting" /\ Sound
      /\ UNCHANGED <<lifecycle, lock, record, native, stores>>
  BY DEF Timeout, Sound
<1> DEFINE k == run[r].killed \/ run[r].task = "isolate"
<1> DEFINE t == IF run[r].task = "isolate" THEN "fired" ELSE "missed"
<1> DEFINE x == [run[r] EXCEPT !.driver = "late", !.timer = t, !.killed = k]
<1>1. Set(r, x)
  BY DEF Timeout
<1> HIDE DEF k, t
<1>2. /\ x.driver = "late" /\ DOMAIN x = RunFields
      /\ x.base = run[r].base /\ x.id = run[r].id
  BY <1>1, RunFacts DEF RunFields
<1> HIDE DEF x
<1>3. /\ run[r].driver \in Drivers \ (Absent \cup Written \cup {"done"})
      /\ x.driver \in Drivers \ (Absent \cup Written \cup {"done"})
      /\ x.driver \notin Submitting /\ Snapshot(x.base)
  BY <1>0, <1>2, RunFacts DEF Drivers, Absent, Written, Submitting
<1> QED
  BY <1>0, <1>1, <1>2, <1>3, AdvanceStep

(* The driver takes the task's outcome when the task has ended.                 *)
LEMMA JoinStep ==
    ASSUME EngineInv, NEW r \in Runs, Join(r) PROVE EngineInv'
<1>0. run[r].driver \in {"awaiting", "late"} /\ Sound
      /\ UNCHANGED <<lifecycle, lock, native, stores>>
  BY DEF Join, Sound
<1>00. /\ run[r].driver \in Drivers \ (Absent \cup Written \cup {"done"})
       /\ run[r].driver \in Drivers \ (Absent \cup {"done"})
  BY <1>0 DEF Drivers, Absent, Written, Submitting
<1>1. CASE DriverTo(r, "joined") /\ UNCHANGED record
  <2> DEFINE x == [run[r] EXCEPT !.driver = "joined"]
  <2>1. /\ Set(r, x) /\ x.driver = "joined" /\ DOMAIN x = RunFields
        /\ x.base = run[r].base /\ x.id = run[r].id
    BY <1>1, RunFacts, DriverField, SMT DEF DriverTo
  <2> HIDE DEF x
  <2>2. /\ x.driver \in Drivers \ (Absent \cup Written \cup {"done"})
        /\ x.driver \notin Submitting /\ Snapshot(x.base)
    BY <2>1, RunFacts DEF Drivers, Absent, Written, Submitting
  <2> QED
    BY <1>0, <1>00, <1>1, <2>1, <2>2, AdvanceStep
<1>2. CASE DriverTo(r, "done")
           /\ Settled(r, IF run[r].driver = "late" THEN "timed_out" ELSE "failed")
  <2>1. PICK s \in {"failed", "timed_out"} : Settled(r, s)
    BY <1>2
  <2> QED
    BY <1>0, <1>00, <1>2, <2>1, EndStep
<1> QED
  BY <1>1, <1>2 DEF Join

(* The task, the publisher and cancel: none of them takes a written output    *)
(* back, and none of them touches a run that has stopped.                     *)
LEMMA Works ==
    ASSUME NEW r, NEW x, NEW rec, NEW heap, NEW hs, NEW rs, NEW lg, NEW top,
           RunOK(r, x, rec, heap, hs, rs, lg, top), NEW y, NEW new,
           x.driver \notin Absent, DOMAIN y = RunFields, DOMAIN new = RecordFields,
           y.driver = x.driver, y.heap = x.heap, y.base = x.base, y.fs = x.fs, y.id = x.id,
           rec.stopped => y.task \in {"none", "ended"} /\ new = rec,
           new.stopped = rec.stopped, new.heap = rec.heap, new.fs = rec.fs,
           new.status = "completed" => rec.status = "completed"
    PROVE  RunOK(r, y, new, heap, hs, rs, lg, top)
<1>1. Shape(y)
  BY DEF RunOK, Shape
<1>2. Progress(r, y, heap, hs, rs, lg, top)
  BY DEF RunOK, Progress
<1>3. Filed(r, y, new, heap, hs, rs, lg)
  <2>1. new.stopped \in BOOLEAN /\ (y.driver \in Flushed => new.fs = y.fs)
    BY DEF RunOK, Filed
  <2>2. new.stopped => Final(y, new)
    BY DEF RunOK, Filed, Final
  <2>3. new.status = "completed" => y.driver = "done" /\ Recorded(r, y, new, heap, hs, rs, lg)
    BY DEF RunOK, Filed, Recorded
  <2> QED
    BY <2>1, <2>2, <2>3 DEF Filed
<1> QED
  BY <1>1, <1>2, <1>3 DEF RunOK

(* A step that changes only the task, the publisher or the status of a run    *)
(* keeps the invariant.                                                       *)
LEMMA WorkStep ==
    ASSUME EngineInv, NEW r \in Runs, NEW x, NEW rec,
           run' = [run EXCEPT ![r] = x], record' = [record EXCEPT ![r] = rec],
           run[r].driver \notin Absent, DOMAIN x = RunFields, DOMAIN rec = RecordFields,
           x.driver = run[r].driver, x.heap = run[r].heap, x.base = run[r].base,
           x.fs = run[r].fs, x.id = run[r].id,
           record[r].stopped => x.task \in {"none", "ended"} /\ rec = record[r],
           rec.stopped = record[r].stopped, rec.heap = record[r].heap,
           rec.fs = record[r].fs,
           rec.status = record[r].status \/ rec.status = "cancelled",
           UNCHANGED <<lifecycle, lock, native, stores>>, Grows
    PROVE  EngineInv'
<1>1. UNCHANGED <<heaps, roots, log, nextId>>
  BY DEF stores
<1>2. RunOK(r, run[r], record[r], world.heap, heaps, roots, log, nextId)
  BY RunFacts
<1>3. rec.status = "completed" => record[r].status = "completed"
  OBVIOUS
<1>4. RunOK(r, x, rec, world.heap, heaps, roots, log, nextId)
  BY <1>2, <1>3, Works
<1>5. RunOK(r, x, rec, world.heap, heaps', roots', log', nextId')
  BY <1>1, <1>4
<1>6. world.ask[r] # None /\ (x.driver \in Submitting => lock' = r)
  BY RunFacts
<1> QED
  BY <1>5, <1>6, RunStep

(* The isolate starts and ends only while the run has not stopped.            *)
LEMMA TaskStep ==
    ASSUME EngineInv, NEW r \in Runs, Task(r) PROVE EngineInv'
<1>0. run[r].task # "none" /\ UNCHANGED <<lifecycle, lock, record, native, stores>> /\ Sound
  BY DEF Task, StartIsolate, ScriptEnds, Sound
<1>1. run[r].driver \notin Absent
  BY <1>0, RunFacts DEF RunOK, Shape
<1>2. DOMAIN record[r] = RecordFields /\ record' = [record EXCEPT ![r] = record[r]] /\ Grows
  BY <1>0, <1>1, RunFacts, StoresSame
<1>3. run[r].task \in {"queued", "isolate"} => record[r].stopped = FALSE
  BY <1>1, RunFacts DEF RunOK, Filed, Final
<1>4. ASSUME StartIsolate(r) PROVE EngineInv'
  <2> DEFINE x == [run[r] EXCEPT !.task = "isolate"]
  <2>1. /\ DOMAIN x = RunFields /\ x.driver = run[r].driver /\ x.heap = run[r].heap
        /\ x.base = run[r].base /\ x.fs = run[r].fs /\ x.id = run[r].id
    BY RunFacts DEF RunFields
  <2>2. run' = [run EXCEPT ![r] = x] /\ run[r].task = "queued"
    BY <1>4 DEF StartIsolate, Set
  <2> HIDE DEF x
  <2> QED
    BY <1>0, <1>1, <1>2, <1>3, <2>1, <2>2, WorkStep
<1>5. ASSUME ScriptEnds(r) PROVE EngineInv'
  <2>0. PICK out : Set(r, [run[r] EXCEPT !.task = "ended", !.outcome = out])
    BY <1>5 DEF ScriptEnds
  <2> DEFINE x == [run[r] EXCEPT !.task = "ended", !.outcome = out]
  <2>1. /\ DOMAIN x = RunFields /\ x.driver = run[r].driver /\ x.heap = run[r].heap
        /\ x.base = run[r].base /\ x.fs = run[r].fs /\ x.id = run[r].id
        /\ x.task = "ended"
    BY RunFacts DEF RunFields
  <2>2. run' = [run EXCEPT ![r] = x]
    BY <2>0 DEF Set
  <2> HIDE DEF x
  <2> QED
    BY <1>0, <1>1, <1>2, <2>1, <2>2, WorkStep
<1> QED
  BY <1>4, <1>5 DEF Task

(* The publisher never files a handle for a stopped run.                      *)
LEMMA PublisherStep ==
    ASSUME EngineInv, NEW r \in Runs, Publisher(r) PROVE EngineInv'
<1>0. run[r].publisher # "none" /\ UNCHANGED <<lifecycle, lock, native, stores>> /\ Sound
  BY DEF Publisher, Grab, Publish, PublisherGivesUp, Sound
<1>1. run[r].driver \notin Absent
  BY <1>0, RunFacts DEF RunOK, Shape
<1>2. /\ DOMAIN record[r] = RecordFields /\ record = [record EXCEPT ![r] = record[r]]
      /\ Grows
  BY <1>0, <1>1, RunFacts, StoresSame
<1>3. record[r].stopped => run[r].task \in {"none", "ended"}
  BY <1>1, RunFacts DEF RunOK, Filed, Final
<1>4. ASSUME NEW p, Set(r, [run[r] EXCEPT !.publisher = p]), UNCHANGED record
      PROVE  EngineInv'
  <2> DEFINE x == [run[r] EXCEPT !.publisher = p]
  <2>1. /\ DOMAIN x = RunFields /\ x.driver = run[r].driver /\ x.heap = run[r].heap
        /\ x.base = run[r].base /\ x.fs = run[r].fs /\ x.id = run[r].id
        /\ x.task = run[r].task
    BY RunFacts DEF RunFields
  <2>2. run' = [run EXCEPT ![r] = x] /\ record' = [record EXCEPT ![r] = record[r]]
    BY <1>2, <1>4 DEF Set
  <2> HIDE DEF x
  <2> QED
    BY <1>0, <1>1, <1>2, <1>3, <2>1, <2>2, WorkStep
<1>5. ASSUME Publish(r) PROVE EngineInv'
  <2> DEFINE k == run[r].killed \/ record[r].status = "cancelled"
  <2> DEFINE x == [run[r] EXCEPT !.publisher = "filed", !.killed = k]
  <2> DEFINE rec == Published(r)
  <2>0. run' = [run EXCEPT ![r] = x] /\ record' = [record EXCEPT ![r] = rec]
    BY <1>5 DEF Publish, Set
  <2> HIDE DEF k
  <2>1. /\ DOMAIN x = RunFields /\ x.driver = run[r].driver /\ x.heap = run[r].heap
        /\ x.base = run[r].base /\ x.fs = run[r].fs /\ x.id = run[r].id
        /\ x.task = run[r].task
    BY RunFacts DEF RunFields
  <2>2. /\ DOMAIN rec = RecordFields /\ rec.stopped = record[r].stopped
        /\ rec.heap = record[r].heap /\ rec.fs = record[r].fs
        /\ rec.status = record[r].status /\ (record[r].stopped => rec = record[r])
    BY <1>2 DEF Published, RecordFields
  <2> HIDE DEF x, rec
  <2> QED
    BY <1>0, <1>1, <1>2, <1>3, <2>0, <2>1, <2>2, WorkStep
<1> QED
  BY <1>4, <1>5 DEF Publisher, Grab, PublisherGivesUp

\* A run and its record after cancel: the isolate is terminated if its handle was filed.
Terminated(r) == IF record[r].handle THEN [run[r] EXCEPT !.killed = TRUE] ELSE run[r]
Withdrawn(r) == [record[r] EXCEPT !.status = "cancelled", !.handle = FALSE]

Withdraws(r) ==
    /\ run[r].driver \notin Absent /\ DOMAIN Terminated(r) = RunFields
    /\ DOMAIN Withdrawn(r) = RecordFields
    /\ Terminated(r).driver = run[r].driver /\ Terminated(r).heap = run[r].heap
    /\ Terminated(r).base = run[r].base /\ Terminated(r).fs = run[r].fs
    /\ Terminated(r).id = run[r].id
    /\ record[r].stopped = FALSE /\ Withdrawn(r).stopped = FALSE
    /\ Withdrawn(r).heap = record[r].heap /\ Withdrawn(r).fs = record[r].fs
    /\ Withdrawn(r).status = "cancelled"

(* cancel takes nothing back that a run has written, and a run that is        *)
(* cancelled has not stopped.                                                 *)
LEMMA CancelFacts ==
    ASSUME EngineInv, NEW r \in Running PROVE Withdraws(r)
<1>1. r \in Runs /\ record[r].status = "running"
  BY DEF Running
<1>2. run[r].driver \notin Absent
  BY <1>1, RunFacts, SMT DEF RunOK, Unknown
<1>3. DOMAIN record[r] = RecordFields /\ DOMAIN run[r] = RunFields
  BY <1>1, <1>2, RunFacts
<1>4. record[r].stopped = FALSE
  BY <1>1, <1>2, RunFacts DEF RunOK, Filed, Final
<1>5. /\ DOMAIN Terminated(r) = RunFields
      /\ Terminated(r).driver = run[r].driver /\ Terminated(r).heap = run[r].heap
      /\ Terminated(r).base = run[r].base /\ Terminated(r).fs = run[r].fs
      /\ Terminated(r).id = run[r].id
  BY <1>3 DEF RunFields, Terminated
<1>6. /\ DOMAIN Withdrawn(r) = RecordFields /\ Withdrawn(r).stopped = record[r].stopped
      /\ Withdrawn(r).heap = record[r].heap /\ Withdrawn(r).fs = record[r].fs
      /\ Withdrawn(r).status = "cancelled"
  BY <1>3 DEF RecordFields, Withdrawn
<1> QED
  BY <1>2, <1>4, <1>5, <1>6 DEF Withdraws

(* A cancelled run stays explained: its driver goes on to its end.            *)
LEMMA CancelStep ==
    ASSUME EngineInv, NEW r \in Runs, Cancel(r) PROVE EngineInv'
<1>1. /\ run' = [run EXCEPT ![r] = Terminated(r)]
      /\ record' = [record EXCEPT ![r] = Withdrawn(r)]
  BY DEF Cancel, Cancelled, EngineInv, Terminated, Withdrawn
<1>2. r \in Running
  BY DEF Cancel
<1>3. Grows /\ UNCHANGED <<lifecycle, lock, native, stores>>
  BY SMT DEF Cancel, EngineInv, WorldOK, Grows, stores, LogOK
<1>4. Withdraws(r)
  BY <1>2, CancelFacts
<1> QED
  BY <1>1, <1>3, <1>4, WorkStep DEF Withdraws

(* The heap is stored before the driver says so.                              *)
LEMMA StoreHeapStep ==
    ASSUME EngineInv, NEW r \in Runs, StoreHeap(r) PROVE EngineInv'
<1>0. run[r].driver = "joined" /\ (Sound \/ Fault)
      /\ UNCHANGED <<lifecycle, lock, native, log, nextId, roots>>
  BY DEF StoreHeap
<1>00. run[r].driver \in Drivers \ (Absent \cup {"done"})
  BY <1>0 DEF Drivers, Absent
<1>1. CASE DriverTo(r, "done") /\ Settled(r, "failed") /\ UNCHANGED heaps
  BY <1>0, <1>00, <1>1, EndStep DEF stores
<1>2. CASE /\ Sound /\ heaps' = heaps \cup ({OutputHeap(r)} \ {NoHeap})
           /\ Set(r, [run[r] EXCEPT !.driver = "stored", !.heap = OutputHeap(r)])
           /\ UNCHANGED record
  <2> DEFINE h == OutputHeap(r)
  <2> DEFINE x == [run[r] EXCEPT !.driver = "stored", !.heap = h]
  <2>0. world.heap \in BOOLEAN
    BY DEF EngineInv, WorldOK
  <2>1. (world.heap <=> r \in h) /\ h \in heaps' \cup {NoHeap}
    BY <1>2, <2>0 DEF OutputHeap, NoHeap
  <2>2. run' = [run EXCEPT ![r] = x] /\ record' = [record EXCEPT ![r] = record[r]]
    BY <1>2, RunFacts DEF Set
  <2> HIDE DEF h
  <2>3. /\ DOMAIN x = RunFields /\ x.driver = "stored" /\ x.heap = h
        /\ x.base = run[r].base /\ x.fs = run[r].fs /\ x.id = run[r].id
    BY RunFacts DEF RunFields
  <2> HIDE DEF x
  <2>4. Grows
    <3>1. heaps \subseteq heaps'
      BY <1>2
    <3> HIDE <1>2
    <3> QED
      BY <1>0, <1>2, <3>1, SMT DEF EngineInv, Grows, LogOK, Sound
  <2>5. RunOK(r, x, record[r], world.heap, heaps', roots', log', nextId')
    <3>1. run[r].id = 0 /\ Snapshot(run[r].base)
      BY <1>0, RunFacts DEF RunOK, Progress
    <3>2. Shape(x)
      BY <2>3, <3>1 DEF Shape, Drivers, Absent, Written
    <3>3. Progress(r, x, world.heap, heaps', roots', log', nextId')
      BY <2>1, <2>3, <3>1 DEF Progress, Flushed
    <3>4. record[r].stopped = FALSE /\ record[r].status # "completed"
          /\ DOMAIN record[r] = RecordFields
      BY <1>0, <1>00, RunFacts DEF RunOK, Filed, Final
    <3>5. Filed(r, x, record[r], world.heap, heaps', roots', log')
      BY <2>3, <3>4 DEF Filed, Flushed
    <3> QED
      BY <2>3, <3>2, <3>3, <3>5 DEF RunOK, Absent
  <2>6. x.driver \notin Submitting /\ world.ask[r] # None
    BY <1>00, <2>3, RunFacts DEF Submitting
  <2> QED
    BY <1>0, <2>2, <2>4, <2>5, <2>6, RunStep
<1> QED
  BY <1>1, <1>2 DEF StoreHeap

(* The filesystem is pushed before the record names it.                       *)
LEMMA PushMountStep ==
    ASSUME EngineInv, NEW r \in Runs, PushMount(r) PROVE EngineInv'
<1>0. run[r].driver = "stored" /\ (Sound \/ Fault)
      /\ UNCHANGED <<lifecycle, lock, native, log, nextId, heaps>>
  BY DEF PushMount
<1>00. run[r].driver \in Drivers \ (Absent \cup {"done"})
  BY <1>0 DEF Drivers, Absent, Written
<1>1. CASE DriverTo(r, "done") /\ Settled(r, "failed") /\ UNCHANGED roots
  BY <1>0, <1>00, <1>1, EndStep DEF stores
<1> DEFINE out == IF run[r].base = None THEN None ELSE run[r].base \cup {r}
<1>2. CASE /\ Sound /\ roots' = roots \cup ({out} \ {None})
           /\ record' = [record EXCEPT ![r].fs = out]
           /\ Set(r, [run[r] EXCEPT !.driver = "pushed", !.fs = out])
  <2>0. /\ run[r].base # None <=> out # None
        /\ out # None => out \subseteq Effects
        /\ out \in roots' \cup {None}
    BY <1>2, RunFacts, EngineAssumption DEF Snapshot
  <2> DEFINE x == [run[r] EXCEPT !.driver = "pushed", !.fs = out]
  <2> DEFINE rec == [record[r] EXCEPT !.fs = out]
  <2> HIDE DEF out
  <2>1. run' = [run EXCEPT ![r] = x] /\ record' = [record EXCEPT ![r] = rec]
    BY <1>2 DEF Set
  <2>2. /\ DOMAIN x = RunFields /\ x.driver = "pushed" /\ x.heap = run[r].heap
        /\ x.base = run[r].base /\ x.fs = out /\ x.id = run[r].id
    BY RunFacts DEF RunFields
  <2>3. /\ DOMAIN rec = RecordFields /\ rec.stopped = record[r].stopped
        /\ rec.status = record[r].status /\ rec.fs = out
    BY <1>00, RunFacts DEF RecordFields
  <2> HIDE DEF x, rec
  <2>4. Grows
    <3>1. roots \subseteq roots' /\ \A y \in roots' : y \subseteq Effects
      BY <1>2, <2>0 DEF EngineInv, LogOK
    <3>2. Sound
      BY <1>2
    <3> QED
      BY <1>0, <3>1, <3>2, SMT DEF EngineInv, Grows, LogOK, Sound
  <2>5. RunOK(r, x, rec, world.heap, heaps', roots', log', nextId')
    <3>1. run[r].id = 0 /\ Snapshot(run[r].base)
          /\ run[r].heap \in heaps \cup {NoHeap} /\ (world.heap <=> r \in run[r].heap)
      BY <1>0, RunFacts DEF RunOK, Progress, Written
    <3>2. Shape(x)
      BY <2>2, <3>1 DEF Shape, Drivers, Absent, Written
    <3>3. Progress(r, x, world.heap, heaps', roots', log', nextId')
      BY <1>0, <2>0, <2>2, <3>1 DEF Progress
    <3>4. record[r].stopped = FALSE /\ record[r].status # "completed"
      BY <1>0, <1>00, RunFacts DEF RunOK, Filed, Final
    <3>5. Filed(r, x, rec, world.heap, heaps', roots', log')
      BY <2>2, <2>3, <3>4 DEF Filed
    <3> QED
      BY <2>2, <3>2, <3>3, <3>5 DEF RunOK, Absent
  <2>6. x.driver \notin Submitting /\ world.ask[r] # None
    BY <1>00, <2>2, RunFacts DEF Submitting
  <2> QED
    BY <1>0, <2>1, <2>3, <2>4, <2>5, <2>6, RunStep
<1> QED
  BY <1>1, <1>2 DEF PushMount

(* A driver past its push keeps what it has stored while it writes the log.   *)
LEMMA FlushedFacts ==
    ASSUME EngineInv, NEW r \in Runs, run[r].driver \in Flushed
    PROVE  /\ run[r].heap \in heaps \cup {NoHeap} /\ (world.heap <=> r \in run[r].heap)
           /\ run[r].fs \in roots \cup {None} /\ (run[r].base # None <=> run[r].fs # None)
           /\ record[r].fs = run[r].fs /\ record[r].stopped = FALSE
           /\ record[r].status # "completed" /\ DOMAIN record[r] = RecordFields
           /\ world.ask[r] # None /\ run[r].driver \notin Absent
<1>1. run[r].driver \notin Absent /\ run[r].driver \in Written /\ run[r].driver # "done"
  BY DEF Flushed, Absent, Written
<1>2. Progress(r, run[r], world.heap, heaps, roots, log, nextId)
  BY RunFacts DEF RunOK
<1>3. Filed(r, run[r], record[r], world.heap, heaps, roots, log)
  BY <1>1, RunFacts DEF RunOK
<1>4. world.ask[r] # None
  BY <1>1, RunFacts
<1> QED
  BY <1>1, <1>2, <1>3, <1>4 DEF Progress, Filed, Final

(* A driver that moves on after its push, and leaves its record alone.        *)
LEMMA FlushedStep ==
    ASSUME EngineInv, NEW r \in Runs, run[r].driver \in Flushed, Grows, NEW x, Set(r, x),
           DOMAIN x = RunFields, x.driver \in Flushed, x.heap = run[r].heap,
           x.base = run[r].base, x.fs = run[r].fs,
           x.driver = "pushed" => x.id = 0,
           x.driver = "numbered" => x.id \in 0..(nextId' - 1),
           x.driver = "logged" /\ x.id # 0 =>
               \E e \in log' : e.by = r /\ e.fs = x.fs /\ e.heap = x.heap,
           UNCHANGED <<lifecycle, lock, record, native>>
    PROVE  EngineInv'
<1>1. heaps \subseteq heaps' /\ roots \subseteq roots'
  BY DEF Grows
<1>2. Shape(x)
  BY RunFacts DEF Shape, Drivers, Absent, Written, Flushed
<1>3. Progress(r, x, world.heap, heaps', roots', log', nextId')
  BY <1>1, FlushedFacts DEF Progress, Flushed
<1>4. Filed(r, x, record[r], world.heap, heaps', roots', log')
  BY FlushedFacts DEF Filed
<1>5. RunOK(r, x, record[r], world.heap, heaps', roots', log', nextId')
  BY <1>2, <1>3, <1>4 DEF RunOK, Flushed, Absent
<1>6. run' = [run EXCEPT ![r] = x] /\ record' = [record EXCEPT ![r] = record[r]]
  BY RunFacts DEF Set
<1>7. x.driver \notin Submitting /\ world.ask[r] # None
  BY FlushedFacts DEF Submitting, Flushed
<1> QED
  BY <1>5, <1>6, <1>7, RunStep

(* generate_id never gives an id twice.                                       *)
LEMMA NumberEntryStep ==
    ASSUME EngineInv, NEW r \in Runs, NumberEntry(r) PROVE EngineInv'
<1>0. run[r].driver = "pushed" /\ (Sound \/ Fault)
      /\ UNCHANGED <<lifecycle, lock, record, native, log, heaps, roots>>
  BY DEF NumberEntry
<1>1. run[r].id = 0 /\ run[r].driver \in Flushed /\ DOMAIN run[r] = RunFields
  BY <1>0, RunFacts DEF RunOK, Progress, Flushed
<1>2. CASE DriverTo(r, "logged") /\ UNCHANGED nextId
  <2> DEFINE x == [run[r] EXCEPT !.driver = "logged"]
  <2>1. /\ DOMAIN x = RunFields /\ x.driver = "logged" /\ x.heap = run[r].heap
        /\ x.base = run[r].base /\ x.fs = run[r].fs /\ x.id = run[r].id
    BY <1>1, DriverField, SMT
  <2>2. Grows
    BY <1>0, <1>2, StoresSame DEF stores
  <2>3. Set(r, x) /\ x.driver \in Flushed
    BY <1>2, <2>1 DEF DriverTo, Flushed
  <2> HIDE DEF x
  <2> QED
    BY <1>0, <1>1, <2>1, <2>2, <2>3, FlushedStep
<1>3. CASE /\ Sound /\ GenerateId
           /\ Set(r, [run[r] EXCEPT !.driver = "numbered", !.id = nextId])
  <2> DEFINE x == [run[r] EXCEPT !.driver = "numbered", !.id = nextId]
  <2>1. /\ DOMAIN x = RunFields /\ x.driver = "numbered" /\ x.heap = run[r].heap
        /\ x.base = run[r].base /\ x.fs = run[r].fs /\ x.id = nextId
    BY <1>1 DEF RunFields
  <2>2. nextId \in Nat /\ nextId' = nextId + 1
    BY <1>3 DEF EngineInv, LogOK, GenerateId
  <2>3. Grows
    BY <1>0, <1>3, <2>2, SMT DEF EngineInv, Grows, LogOK, Sound
  <2>4. Set(r, x) /\ x.driver \in Flushed
    BY <1>3, <2>1 DEF Flushed
  <2> HIDE DEF x
  <2>5. x.id \in 0..(nextId' - 1)
    BY <2>1, <2>2, SMT
  <2> QED
    BY <1>0, <1>1, <2>1, <2>3, <2>4, <2>5, FlushedStep
<1> QED
  BY <1>2, <1>3 DEF NumberEntry

(* The entry names what the run has stored, and its id was generated for it.  *)
LEMMA PutEntryStep ==
    ASSUME EngineInv, NEW r \in Runs, PutEntry(r) PROVE EngineInv'
<1>0. run[r].driver = "numbered" /\ Sound
      /\ UNCHANGED <<lifecycle, lock, record, native, nextId, heaps, roots>>
  BY DEF PutEntry, Sound
<1>1. run[r].driver \in Flushed /\ DOMAIN run[r] = RunFields /\ run[r].id \in 0..(nextId - 1)
  BY <1>0, RunFacts DEF RunOK, Progress, Flushed
<1> DEFINE e == [session |-> Ask(r).session, id |-> run[r].id, heap |-> run[r].heap,
                 fs |-> run[r].fs, by |-> r]
<1>2. log' = log \cup {e}
  BY DEF PutEntry, Put
<1>3. e.id = run[r].id /\ e.heap = run[r].heap /\ e.fs = run[r].fs /\ e.by = r
  OBVIOUS
<1> HIDE DEF e
<1>4. Grows
  <2>1. e.heap \in heaps \cup {NoHeap} /\ e.fs \in roots \cup {None} /\ e.id \in 0..(nextId - 1)
    BY <1>1, <1>3, FlushedFacts
  <2>2. LogOK(heaps, roots, log, nextId) /\ world' = world
    BY <1>0 DEF EngineInv, Sound
  <2>3. LogOK(heaps', roots', log', nextId')
    BY ONLY <1>0, <1>2, <2>1, <2>2, Zenon DEF LogOK
  <2> QED
    BY <1>0, <1>2, <2>2, <2>3, SMT DEF Grows, LogOK
<1> DEFINE x == [run[r] EXCEPT !.driver = "logged"]
<1>5. /\ DOMAIN x = RunFields /\ x.driver = "logged" /\ x.heap = run[r].heap
      /\ x.base = run[r].base /\ x.fs = run[r].fs /\ x.id = run[r].id
  BY <1>1, DriverField, SMT
<1>6. Set(r, x) /\ x.driver \in Flushed
  BY <1>5 DEF PutEntry, DriverTo, Flushed
<1> HIDE DEF x
<1>7. \E f \in log' : f.by = r /\ f.fs = x.fs /\ f.heap = x.heap
  BY <1>2, <1>3, <1>5
<1> QED
  BY <1>0, <1>1, <1>4, <1>5, <1>6, <1>7, FlushedStep

(* A run completes with everything it has written; a cancelled one stays so.  *)
LEMMA CompleteStep ==
    ASSUME EngineInv, NEW r \in Runs, Complete(r) PROVE EngineInv'
<1>0. run[r].driver = "logged" /\ Sound /\ UNCHANGED <<lifecycle, lock, native, stores>>
  BY DEF Complete, Sound
<1>1. Grows /\ UNCHANGED <<heaps, roots, log, nextId>>
  BY <1>0, StoresSame DEF stores
<1>2. run[r].driver \in Flushed /\ DOMAIN run[r] = RunFields /\ Snapshot(run[r].base)
  BY <1>0, RunFacts DEF Flushed
<1>3. run[r].id # 0 => \E e \in log : e.by = r /\ e.fs = run[r].fs /\ e.heap = run[r].heap
  BY <1>0, RunFacts DEF RunOK, Progress
<1> DEFINE x == [run[r] EXCEPT !.driver = "done"]
<1> DEFINE rec == SettledAs(record[r], "completed", run[r].heap)
<1>4. run' = [run EXCEPT ![r] = x] /\ record' = [record EXCEPT ![r] = rec]
  BY DEF Complete, DriverTo, Set, Settle, SettledAs
<1>5. /\ DOMAIN x = RunFields /\ x.driver = "done" /\ x.heap = run[r].heap
      /\ x.base = run[r].base /\ x.fs = run[r].fs /\ x.id = run[r].id
  BY <1>2, DriverField, SMT
<1>6. /\ DOMAIN rec = RecordFields /\ rec.stopped = FALSE /\ rec.fs = run[r].fs
      /\ rec.status = "completed" => rec.heap = run[r].heap
      /\ rec.status # "running"
  BY <1>2, FlushedFacts DEF SettledAs, RecordFields
<1> HIDE DEF x, rec
<1>7. Recorded(r, x, rec, world.heap, heaps, roots, log) \/ rec.status # "completed"
  BY <1>2, <1>3, <1>5, <1>6, FlushedFacts DEF Recorded
<1>8. Shape(x)
  BY <1>2, <1>5 DEF Shape, Drivers, Absent
<1>9. Progress(r, x, world.heap, heaps, roots, log, nextId)
  BY <1>5 DEF Progress, Written, Flushed
<1>10. Filed(r, x, rec, world.heap, heaps, roots, log)
  BY <1>5, <1>6, <1>7 DEF Filed, Flushed
<1>11. RunOK(r, x, rec, world.heap, heaps', roots', log', nextId')
  BY <1>1, <1>5, <1>8, <1>9, <1>10 DEF RunOK, Absent
<1>12. x.driver \notin Submitting /\ world.ask[r] # None
  BY <1>2, <1>5, FlushedFacts DEF Submitting
<1> QED
  BY <1>0, <1>1, <1>4, <1>6, <1>11, <1>12, RunStep

(* The last holder of the activity marks the record: its driver is done and   *)
(* its task has ended, so nothing can still write.                            *)
LEMMA StopStep ==
    ASSUME EngineInv, NEW r \in Runs, Stop(r) PROVE EngineInv'
<1>0. run[r].driver = "done" /\ run[r].task \in {"none", "ended"} /\ Sound
      /\ UNCHANGED <<lifecycle, lock, run, native, stores>>
  BY DEF Stop, Sound
<1>1. Grows /\ UNCHANGED <<heaps, roots, log, nextId>>
  BY <1>0, StoresSame DEF stores
<1>2. run[r].driver \notin Absent /\ run[r].driver \notin Submitting \cup Flushed
  BY <1>0 DEF Absent, Submitting, Flushed
<1>3. /\ Shape(run[r]) /\ Progress(r, run[r], world.heap, heaps, roots, log, nextId)
      /\ Filed(r, run[r], record[r], world.heap, heaps, roots, log)
      /\ world.ask[r] # None /\ run' = [run EXCEPT ![r] = run[r]]
  BY <1>0, <1>2, RunFacts DEF RunOK
<1> DEFINE s == SettledAs(record[r], "failed", NoHeap)
<1> DEFINE rec == [s EXCEPT !.stopped = TRUE, !.handle = FALSE]
<1>4. record' = [record EXCEPT ![r] = rec]
  BY DEF Stop, Settle, SettledAs
<1>5. /\ DOMAIN s = RecordFields /\ s.fs = record[r].fs /\ s.status # "running"
      /\ s.status = "completed" => record[r].status = "completed" /\ s.heap = record[r].heap
  BY <1>3 DEF Filed, SettledAs, RecordFields
<1> HIDE DEF s
<1>6. /\ DOMAIN rec = RecordFields /\ rec.stopped = TRUE /\ rec.handle = FALSE
      /\ rec.heap = s.heap /\ rec.fs = s.fs /\ rec.status = s.status
  BY <1>5 DEF RecordFields
<1> HIDE DEF rec
<1>7. Final(run[r], rec)
  BY <1>0, <1>5, <1>6 DEF Final
<1>8. rec.status = "completed" => Recorded(r, run[r], rec, world.heap, heaps, roots, log)
  BY <1>3, <1>5, <1>6 DEF Filed, Recorded
<1>9. Filed(r, run[r], rec, world.heap, heaps, roots, log)
  BY <1>0, <1>2, <1>6, <1>7, <1>8 DEF Filed
<1>10. RunOK(r, run[r], rec, world.heap, heaps', roots', log', nextId')
  BY <1>1, <1>2, <1>3, <1>9 DEF RunOK
<1> QED
  BY <1>0, <1>1, <1>2, <1>3, <1>4, <1>5, <1>6, <1>10, RunStep

-----------------------------------------------------------------------------
(* The steps of the native operations, of shutdown and of a restart *)

(* A step that leaves the runs and their records alone.                       *)
LEMMA OtherStep ==
    ASSUME EngineInv, Grows, UNCHANGED <<run, record>>,
           native' = [w \in Writers |-> native'[w]],
           \A w \in Writers : NativeOK(native'[w], roots', log', nextId'),
           LockOK', Quiet'
    PROVE  EngineInv'
<1>1. WorldOK' /\ AskedOK'
  BY DEF EngineInv, WorldOK, AskedOK, Grows
<1>2. nextId \in Nat /\ nextId' \in Nat
  BY DEF EngineInv, Grows, LogOK
<1>3. ASSUME NEW q \in Runs
      PROVE  RunOK(q, run'[q], record'[q], world'.heap, heaps', roots', log', nextId')
  <2>1. RunOK(q, run[q], record[q], world.heap, heaps, roots, log, nextId)
    BY DEF EngineInv, RunsOK
  <2>2. heaps \subseteq heaps' /\ roots \subseteq roots' /\ log \subseteq log'
        /\ nextId <= nextId' /\ world'.heap = world.heap
    BY DEF Grows
  <2>3. RunOK(q, run[q], record[q], world.heap, heaps', roots', log', nextId')
    BY ONLY <1>2, <2>1, <2>2, RunKept, Zenon
  <2> QED
    BY <2>2, <2>3
<1> QED
  BY <1>1, <1>3 DEF EngineInv, RunsOK, Grows

(* A step of one native operation: its stage is explained by the stores, and  *)
(* it holds the lifecycle lock until it is done.                              *)
LEMMA NativeChange ==
    ASSUME EngineInv, Grows, NEW w \in Writers, NEW y, Change(w, y),
           UNCHANGED <<run, record, lifecycle>>,
           NativeOK(y, roots', log', nextId'),
           y.stage \in Opened => lock' = w,
           lock' = lock \/ (lock = None /\ lifecycle = "running") \/ (lock = w /\ lock' = None)
    PROVE  EngineInv'
<1>1. /\ native'[w] = y /\ native' = [v \in Writers |-> native'[v]]
      /\ \A v \in Writers : v # w => native'[v] = native[v]
  BY DEF EngineInv, Change
<1>2. ASSUME NEW v \in Writers PROVE NativeOK(native'[v], roots', log', nextId')
  <2>1. NativeOK(native[v], roots, log, nextId) /\ nextId \in Nat /\ nextId' \in Nat
    BY DEF EngineInv, LogOK, Grows
  <2>2. roots \subseteq roots' /\ log \subseteq log' /\ nextId <= nextId'
    BY DEF Grows
  <2>3. NativeOK(native[v], roots', log', nextId')
    BY <2>1, <2>2, NativeKept
  <2> QED
    BY <1>1, <2>3
<1>3. LockOK'
  <2>1. \A q \in Runs : run[q].driver \in Submitting => lock' = q
    BY EngineAssumption DEF EngineInv, LockOK
  <2>2. \A v \in Writers : native'[v].stage \in Opened => lock' = v
    BY <1>1, EngineAssumption DEF EngineInv, LockOK
  <2>3. /\ lifecycle = "shutting_down" => lock' = "shutdown"
        /\ lifecycle = "shutdown" => lock' = None
    BY EngineAssumption DEF EngineInv, LockOK
  <2> QED
    BY <2>1, <2>2, <2>3 DEF EngineInv, LockOK
<1>4. Quiet'
  BY DEF EngineInv, Quiet
<1> QED
  BY <1>1, <1>2, <1>3, <1>4, OtherStep

(* What EngineInv says of one native operation.                               *)
LEMMA NativeFacts ==
    ASSUME EngineInv, NEW w \in Writers
    PROVE  /\ NativeOK(native[w], roots, log, nextId)
           /\ DOMAIN native[w] = {"stage", "latest", "fs", "id"}
           /\ native[w].stage \in Opened => lock = w
           /\ w \in Effects /\ nextId \in Nat /\ LogOK(heaps, roots, log, nextId)
  BY EngineAssumption DEF EngineInv, NativeOK, LockOK, LogOK

(* A native operation opens on the session's latest entry, under the lock.    *)
LEMMA NativeOpenStep ==
    ASSUME EngineInv, NEW w \in Writers, NativeOpen(w) PROVE EngineInv'
<1>0. /\ lock = None /\ lifecycle = "running" /\ lock' = w
      /\ UNCHANGED <<lifecycle, record, run, stores>> /\ Sound
  BY DEF NativeOpen, Sound
<1>1. Grows /\ UNCHANGED <<roots, log, nextId>>
  BY <1>0, StoresSame DEF stores
<1> DEFINE l == Latest(Target(w))
<1>2. l \in log \cup {None}
  BY LatestIn DEF EngineInv
<1> HIDE DEF l
<1> DEFINE y == [native[w] EXCEPT !.stage = "opened", !.latest = l]
<1>3. Change(w, y)
  BY DEF NativeOpen, l
<1>4. /\ DOMAIN y = {"stage", "latest", "fs", "id"} /\ y.stage = "opened" /\ y.latest = l
  BY NativeFacts
<1> HIDE DEF y
<1>5. NativeOK(y, roots', log', nextId')
  BY <1>1, <1>2, <1>4 DEF NativeOK
<1> QED
  BY <1>0, <1>1, <1>3, <1>5, NativeChange

(* A native operation that is done holds nothing.                             *)
LEMMA NativeDone ==
    ASSUME EngineInv, NEW w \in Writers, native[w].stage \in Opened, Grows,
           StageTo(w, "done"), lock' = None, UNCHANGED <<run, record, lifecycle>>
    PROVE  EngineInv'
<1> DEFINE y == [native[w] EXCEPT !.stage = "done"]
<1>1. Change(w, y)
  BY DEF StageTo
<1>2. DOMAIN y = {"stage", "latest", "fs", "id"} /\ y.stage = "done" /\ lock = w
  BY NativeFacts
<1> HIDE DEF y
<1>3. NativeOK(y, roots', log', nextId') /\ y.stage \notin Opened
  BY <1>2 DEF NativeOK, Opened
<1> QED
  BY <1>1, <1>2, <1>3, NativeChange

(* The overlay is pushed before an entry names it.                            *)
LEMMA NativePushStep ==
    ASSUME EngineInv, NEW w \in Writers, NativePush(w) PROVE EngineInv'
<1>0. /\ native[w].stage = "opened" /\ native[w].stage \in Opened
      /\ UNCHANGED <<lifecycle, record, run, log, nextId, heaps>> /\ (Sound \/ Fault)
  BY DEF NativePush, Opened
<1> DEFINE old == IF Base(w) = None THEN {} ELSE Base(w)
<1>1. old \subseteq Effects
  <2>1. native[w].latest \in log \cup {None}
    BY <1>0, NativeFacts DEF NativeOK
  <2>2. native[w].latest \in log => native[w].latest.fs \in roots \cup {None}
    BY NativeFacts DEF LogOK
  <2>3. Base(w) \in roots \cup {None}
    BY <2>1, <2>2 DEF Base
  <2> QED
    BY <2>3, NativeFacts DEF LogOK
<1>2. CASE Fault /\ lock' = None /\ StageTo(w, "done") /\ UNCHANGED roots
  BY <1>0, <1>2, StoresSame, NativeDone DEF stores
<1>3. ASSUME NEW out \in {old, old \cup {w}}, Sound, roots' = roots \cup {out},
             \/ lock' = None /\ StageTo(w, "done")
             \/ lock' = lock /\ Change(w, [native[w] EXCEPT !.stage = "pushed", !.fs = out])
      PROVE  EngineInv'
  <2>1. out \subseteq Effects
    BY <1>1, <1>3, NativeFacts
  <2> HIDE DEF old
  <2>2. Grows
    <3>1. LogOK(heaps, roots, log, nextId) /\ world' = world
      BY <1>3 DEF EngineInv, Sound
    <3>2. LogOK(heaps', roots', log', nextId')
      BY ONLY <1>0, <1>3, <2>1, <3>1, Zenon DEF LogOK
    <3> QED
      BY <1>0, <1>3, <3>1, <3>2, SMT DEF Grows, LogOK
  <2>3. CASE lock' = None /\ StageTo(w, "done")
    BY <1>0, <2>2, <2>3, NativeDone
  <2>4. CASE lock' = lock /\ Change(w, [native[w] EXCEPT !.stage = "pushed", !.fs = out])
    <3> DEFINE y == [native[w] EXCEPT !.stage = "pushed", !.fs = out]
    <3>1. /\ DOMAIN y = {"stage", "latest", "fs", "id"} /\ y.stage = "pushed"
          /\ y.fs = out /\ y.latest = native[w].latest
      BY NativeFacts
    <3>2. native[w].latest \in log \cup {None} /\ lock = w
      BY <1>0, NativeFacts DEF NativeOK
    <3>3. Change(w, y)
      BY <2>4
    <3> HIDE DEF y
    <3>4. NativeOK(y, roots', log', nextId')
      BY <1>0, <1>3, <3>1, <3>2 DEF NativeOK
    <3> QED
      BY <1>0, <2>2, <2>4, <3>2, <3>3, <3>4, NativeChange
  <2> QED
    BY <1>3, <2>3, <2>4
<1> QED
  BY <1>2, <1>3 DEF NativePush

(* generate_id, for a native operation.                                       *)
LEMMA NativeNumberStep ==
    ASSUME EngineInv, NEW w \in Writers, NativeNumber(w) PROVE EngineInv'
<1>0. /\ native[w].stage = "pushed" /\ nextId' = nextId + 1 /\ world' = world
      /\ UNCHANGED <<lifecycle, lock, record, run, log, heaps, roots>>
  BY DEF NativeNumber, GenerateId
<1>1. Grows
  <2>1. LogOK(heaps', roots', log', nextId')
    BY <1>0, SMT DEF EngineInv, LogOK
  <2> QED
    BY <1>0, <2>1, NativeFacts, SMT DEF Grows
<1> DEFINE y == [native[w] EXCEPT !.stage = "numbered", !.id = nextId]
<1>2. /\ DOMAIN y = {"stage", "latest", "fs", "id"} /\ y.stage = "numbered" /\ y.id = nextId
      /\ y.fs = native[w].fs /\ y.latest = native[w].latest
  BY NativeFacts
<1>3. Change(w, y)
  BY DEF NativeNumber
<1>4. /\ native[w].latest \in log \cup {None} /\ native[w].fs \in roots /\ lock = w
      /\ nextId \in Nat
  BY <1>0, NativeFacts DEF NativeOK, Opened
<1> HIDE DEF y
<1>5. NativeOK(y, roots', log', nextId')
  BY <1>0, <1>2, <1>4, SMT DEF NativeOK
<1> QED
  BY <1>0, <1>1, <1>3, <1>4, <1>5, NativeChange

(* The entry of a native operation names its push, and the heap of the entry  *)
(* that the operation was opened on.                                          *)
LEMMA NativeAppendStep ==
    ASSUME EngineInv, NEW w \in Writers, NativeAppend(w) PROVE EngineInv'
<1>0. /\ native[w].stage = "numbered" /\ native[w].stage \in Opened
      /\ world' = world /\ lock' = None /\ StageTo(w, "done")
      /\ UNCHANGED <<lifecycle, record, run, nextId, heaps, roots>>
  BY DEF NativeAppend, Opened
<1> DEFINE h == IF native[w].latest = None THEN NoHeap ELSE native[w].latest.heap
<1> DEFINE e == [session |-> Target(w), id |-> native[w].id, heap |-> h,
                 fs |-> native[w].fs, by |-> w]
<1>1. log' = log \cup {e}
  BY DEF NativeAppend, Put
<1>2. /\ native[w].latest \in log \cup {None} /\ native[w].fs \in roots
      /\ native[w].id \in 0..(nextId - 1)
  BY <1>0, NativeFacts DEF NativeOK
<1>3. h \in heaps \cup {NoHeap}
  BY <1>2, NativeFacts DEF LogOK
<1> HIDE DEF h
<1>4. e.id \in 0..(nextId - 1) /\ e.heap \in heaps \cup {NoHeap} /\ e.fs \in roots \cup {None}
  BY <1>2, <1>3
<1> HIDE DEF e
<1>5. Grows
  <2>1. LogOK(heaps', roots', log', nextId')
    BY <1>0, <1>1, <1>4, NativeFacts DEF LogOK
  <2> QED
    BY <1>0, <1>1, <2>1, SMT DEF Grows, LogOK
<1> QED
  BY <1>0, <1>5, NativeDone

(* Session fork at start-up copies an entry that resolves.                    *)
LEMMA ForkStep ==
    ASSUME EngineInv, Fork PROVE EngineInv'
<1>0. /\ UNCHANGED <<lifecycle, lock, record, run, native, heaps, roots>>
      /\ world' = [world EXCEPT !.fork = None]
  BY DEF Fork
<1>1. world'.heap = world.heap /\ world'.ask = world.ask /\ DOMAIN world' = DOMAIN world
  BY <1>0 DEF EngineInv, WorldOK
<1>2. LogOK(heaps, roots, log, nextId) /\ nextId \in Nat
  BY DEF EngineInv, LogOK
<1>3. Grows
  <2>1. CASE UNCHANGED <<log, nextId>>
    BY <1>0, <1>1, <1>2, <2>1, SMT DEF Grows
  <2> DEFINE src == Latest(world.fork.from)
  <2>2. CASE /\ src # None /\ GenerateId
             /\ Put(world.fork.to, nextId, src.heap, src.fs, "fork")
    <3>1. src \in log
      BY <1>2, <2>2, LatestIn
    <3> HIDE DEF src
    <3> DEFINE e == [session |-> world.fork.to, id |-> nextId, heap |-> src.heap,
                     fs |-> src.fs, by |-> "fork"]
    <3>2. log' = log \cup {e} /\ nextId' = nextId + 1
      BY <2>2 DEF Put, GenerateId
    <3>3. e.id = nextId /\ e.heap = src.heap /\ e.fs = src.fs
      OBVIOUS
    <3> HIDE DEF e
    <3>4. LogOK(heaps', roots', log', nextId')
      BY <1>0, <1>2, <3>1, <3>2, <3>3, SMT DEF LogOK
    <3> QED
      BY <1>0, <1>1, <1>2, <3>2, <3>4, SMT DEF Grows
  <2> QED
    BY <2>1, <2>2 DEF Fork
<1>4. \A w \in Writers : NativeOK(native'[w], roots', log', nextId')
  BY <1>0, <1>2, <1>3, NativeKept DEF EngineInv, Grows, LogOK
<1>5. LockOK' /\ Quiet' /\ native' = [w \in Writers |-> native'[w]]
  BY <1>0 DEF EngineInv, LockOK, Quiet
<1> QED
  BY <1>0, <1>3, <1>4, <1>5, OtherStep

(* shutdown returns, and gives the lifecycle lock back.                       *)
LEMMA EndShutdownStep ==
    ASSUME EngineInv, EndShutdown PROVE EngineInv'
<1>0. /\ lifecycle = "shutting_down" /\ lifecycle' = "shutdown" /\ lock' = None
      /\ UNCHANGED <<record, run, native, stores>> /\ Sound
  BY DEF EndShutdown, Sound
<1>1. Grows /\ UNCHANGED <<roots, log, nextId>>
  BY <1>0, StoresSame DEF stores
<1>2. lock = "shutdown"
  BY <1>0 DEF EngineInv, LockOK
<1>3. LockOK'
  BY <1>0, <1>2, EngineAssumption DEF EngineInv, LockOK
<1>4. Quiet' /\ native' = [w \in Writers |-> native'[w]]
      /\ \A w \in Writers : NativeOK(native'[w], roots', log', nextId')
  BY <1>0, <1>1 DEF EngineInv, Quiet
<1> QED
  BY <1>0, <1>1, <1>3, <1>4, OtherStep

(* shutdown takes the lifecycle lock, so no submission is half done, and      *)
(* cancels whatever counts as running.                                        *)
LEMMA BeginShutdownStep ==
    ASSUME EngineInv, BeginShutdown PROVE EngineInv'
<1>0. /\ lock = None /\ lock' = "shutdown" /\ lifecycle' = "shutting_down"
      /\ UNCHANGED <<world, native, stores>>
  BY DEF BeginShutdown
<1>1. UNCHANGED <<heaps, roots, log, nextId>>
  BY <1>0 DEF stores
<1>2. /\ run' = [r \in Runs |-> IF r \in Running THEN Terminated(r) ELSE run[r]]
      /\ record' = [r \in Runs |-> IF r \in Running THEN Withdrawn(r) ELSE record[r]]
  <2>1. \A r \in Runs : (IF r \in Running /\ record[r].handle
                         THEN [run[r] EXCEPT !.killed = TRUE] ELSE run[r])
                        = IF r \in Running THEN Terminated(r) ELSE run[r]
    BY DEF Terminated
  <2> QED
    BY <2>1 DEF BeginShutdown, Cancelled, Withdrawn
<1>3. ASSUME NEW r \in Runs
      PROVE  /\ RunOK(r, run'[r], record'[r], world.heap, heaps, roots, log, nextId)
             /\ run'[r].driver = run[r].driver /\ record'[r].status # "running"
  <2>1. CASE r \in Running
    <3>1. run'[r] = Terminated(r) /\ record'[r] = Withdrawn(r)
      BY <1>2, <2>1
    <3>2. RunOK(r, run[r], record[r], world.heap, heaps, roots, log, nextId)
      BY RunFacts
    <3>3. RunOK(r, Terminated(r), Withdrawn(r), world.heap, heaps, roots, log, nextId)
      <4>1. Withdraws(r)
        BY <2>1, CancelFacts
      <4> QED
        BY <3>2, <4>1, Works DEF Withdraws
    <3> QED
      BY <2>1, <3>1, <3>3, CancelFacts DEF Withdraws
  <2>2. CASE r \notin Running
    <3>1. run'[r] = run[r] /\ record'[r] = record[r]
      BY <1>2, <2>2
    <3> QED
      BY <2>2, <3>1, RunFacts DEF Running
  <2> QED
    BY <2>1, <2>2
<1>4. RunsOK' /\ AskedOK'
  BY <1>0, <1>1, <1>3 DEF EngineInv, RunsOK, AskedOK
<1>5. LockOK'
  BY <1>0, <1>3, EngineAssumption DEF EngineInv, LockOK
<1>6. Quiet' /\ WorldOK'
  BY <1>0, <1>3 DEF EngineInv, Quiet, WorldOK
<1>7. /\ run' = [r \in Runs |-> run'[r]] /\ record' = [r \in Runs |-> record'[r]]
      /\ native' = [w \in Writers |-> native'[w]]
  BY <1>0, <1>2 DEF EngineInv
<1> QED
  BY <1>0, <1>1, <1>4, <1>5, <1>6, <1>7 DEF EngineInv

(* The process dies at any step: what is left of a run is what it has stored. *)
LEMMA RestartStep ==
    ASSUME EngineInv, Restart PROVE EngineInv'
<1>0. /\ lock' = None /\ lifecycle' = "running" /\ UNCHANGED stores
      /\ world' = [world EXCEPT !.crashes = @ - 1]
      /\ record' = [r \in Runs |-> Unknown]
  BY DEF Restart
<1>1. UNCHANGED <<heaps, roots, log, nextId>> /\ world'.heap = world.heap
      /\ world'.ask = world.ask /\ WorldOK'
  BY <1>0 DEF stores, EngineInv, WorldOK
<1> DEFINE gone == [NotStarted EXCEPT !.driver = "gone"]
<1>2. /\ DOMAIN gone = RunFields /\ gone.driver = "gone" /\ gone.task = "none"
      /\ gone.publisher = "none" /\ gone.base = None /\ gone.id = 0
  BY DEF NotStarted, RunFields
<1>3. run' = [r \in Runs |-> IF run[r].driver = "idle" THEN run[r] ELSE gone]
  BY DEF Restart
<1> HIDE DEF gone
<1>4. ASSUME NEW r \in Runs
      PROVE  /\ RunOK(r, run'[r], record'[r], world.heap, heaps, roots, log, nextId)
             /\ run'[r].driver \in Absent
  <2>1. CASE run[r].driver = "idle"
    <3>1. run'[r] = run[r] /\ record[r] = Unknown /\ record'[r] = Unknown
      BY <1>0, <1>3, <2>1, RunFacts DEF RunOK, Absent
    <3> QED
      BY <2>1, <3>1, RunFacts DEF Absent
  <2>2. CASE run[r].driver # "idle"
    <3>1. run'[r] = gone /\ record'[r] = Unknown
      BY <1>0, <1>3, <2>2
    <3>2. Shape(gone)
      BY <1>2 DEF Shape, Drivers, Absent, Snapshot
    <3>3. Progress(r, gone, world.heap, heaps, roots, log, nextId)
      BY <1>2 DEF Progress, Written, Flushed
    <3> QED
      BY <1>2, <3>1, <3>2, <3>3 DEF RunOK, Absent
  <2> QED
    BY <2>1, <2>2
<1>5. RunsOK' /\ AskedOK'
  BY <1>1, <1>4 DEF RunsOK, AskedOK
<1>6. native' = [w \in Writers |-> IF native[w].stage = "idle" THEN native[w]
                                   ELSE [Unopened EXCEPT !.stage = "gone"]]
  BY DEF Restart
<1>7. ASSUME NEW w \in Writers
      PROVE  native'[w].stage \notin Opened /\ NativeOK(native'[w], roots, log, nextId)
  <2>1. CASE native[w].stage = "idle"
    <3>1. native'[w] = native[w]
      BY <1>6, <2>1
    <3> QED
      BY <2>1, <3>1, NativeFacts DEF Opened
  <2>2. CASE native[w].stage # "idle"
    <3> DEFINE y == [Unopened EXCEPT !.stage = "gone"]
    <3>1. native'[w] = y
      BY <1>6, <2>2
    <3>2. DOMAIN y = {"stage", "latest", "fs", "id"} /\ y.stage = "gone"
      BY DEF Unopened
    <3> HIDE DEF y
    <3> QED
      BY <3>1, <3>2 DEF NativeOK, Opened
  <2> QED
    BY <2>1, <2>2
<1>8. LockOK' /\ Quiet'
  BY <1>0, <1>4, <1>7 DEF LockOK, Quiet, Submitting, Absent
<1>9. /\ run' = [r \in Runs |-> run'[r]] /\ record' = [r \in Runs |-> record'[r]]
      /\ native' = [w \in Writers |-> native'[w]]
  BY <1>0, <1>3, <1>6
<1> QED
  BY <1>1, <1>5, <1>7, <1>8, <1>9 DEF EngineInv

-----------------------------------------------------------------------------
(* The theorems *)

(* The state of a process that has just started on the stores of an earlier   *)
(* one.                                                                       *)
LEMMA EngineInit ==
    ASSUME Init PROVE EngineInv
<1>0. /\ lifecycle = "running" /\ lock = None /\ log = world.log
      /\ nextId = 1 + Cardinality(world.log)
      /\ heaps = {e.heap : e \in world.log} \ {NoHeap}
      /\ roots = {e.fs : e \in world.log} \ {None}
  BY DEF Init
<1>1. Possible(world)
  BY EngineAssumption DEF Init
<1>2. WorldOK
  BY <1>1 DEF WorldOK, Possible
<1>3. LogOK(heaps, roots, log, nextId)
  <2>1. Cardinality(world.log) \in Nat
    BY <1>1, FS_CardinalityType DEF Possible
  <2>2. nextId \in Nat /\ \A e \in log : e.id \in 0..(nextId - 1)
    BY <1>0, <1>1, <2>1, SMT DEF Possible
  <2>3. \A e \in log : e.heap \in heaps \cup {NoHeap} /\ e.fs \in roots \cup {None}
    BY <1>0
  <2>4. \A x \in roots : x \subseteq Effects
    BY <1>0, <1>1 DEF Possible, Snapshot
  <2> QED
    BY <2>2, <2>3, <2>4 DEF LogOK
<1>4. ASSUME NEW r \in Runs
      PROVE  /\ RunOK(r, run[r], record[r], world.heap, heaps, roots, log, nextId)
             /\ run[r].driver \in Absent /\ record[r].status = "unknown"
  <2>1. run[r] = NotStarted /\ record[r] = Unknown
    BY DEF Init
  <2>2. Shape(NotStarted)
    BY DEF Shape, NotStarted, RunFields, Drivers, Absent, Snapshot
  <2>3. Progress(r, NotStarted, world.heap, heaps, roots, log, nextId)
    BY DEF Progress, NotStarted, Written, Flushed
  <2> QED
    BY <2>1, <2>2, <2>3, SMT DEF RunOK, NotStarted, Unknown, Absent
<1>5. \A w \in Writers : native[w].stage \notin Opened /\ NativeOK(native[w], roots, log, nextId)
  BY DEF Init, Unopened, NativeOK, Opened
<1>6. LockOK /\ Quiet
  BY <1>0, <1>4, <1>5 DEF LockOK, Quiet, Submitting, Absent
<1>7. RunsOK /\ AskedOK
  BY <1>4 DEF RunsOK, AskedOK
<1>8. /\ run = [r \in Runs |-> run[r]] /\ record = [r \in Runs |-> record[r]]
      /\ native = [w \in Writers |-> native[w]]
  BY DEF Init
<1> QED
  BY <1>2, <1>3, <1>5, <1>6, <1>7, <1>8 DEF EngineInv

(* Every step of the engine keeps the invariant.                              *)
LEMMA EngineNext ==
    ASSUME EngineInv, Next PROVE EngineInv'
<1>1. ASSUME NEW r \in Runs, Submission(r) \/ Driver(r) PROVE EngineInv'
  BY <1>1, ResolveHeapStep, ResolveFsStep, LoadStep, MountStep, AdmitStep, TimeoutStep,
     JoinStep, StoreHeapStep, PushMountStep, NumberEntryStep, PutEntryStep, CompleteStep,
     StopStep DEF Submission, Driver
<1>2. ASSUME NEW r \in Runs, Submit(r) \/ Cancel(r) \/ Task(r) \/ Publisher(r)
      PROVE  EngineInv'
  BY <1>2, SubmitStep, CancelStep, TaskStep, PublisherStep
<1>3. ASSUME NEW w \in Writers, NativeOpen(w) \/ NativeStep(w) PROVE EngineInv'
  BY <1>3, NativeOpenStep, NativePushStep, NativeNumberStep, NativeAppendStep DEF NativeStep
<1>4. ASSUME Fork \/ BeginShutdown \/ EndShutdown \/ Restart PROVE EngineInv'
  BY <1>4, ForkStep, BeginShutdownStep, EndShutdownStep, RestartStep
<1> QED
  BY <1>1, <1>2, <1>3, <1>4 DEF Next

(* EngineInv holds throughout, for every set of runs, native operations and   *)
(* scenarios.                                                                 *)
THEOREM EngineInvariance == Spec => []EngineInv
<1>1. Init => EngineInv
  BY EngineInit
<1>2. EngineInv /\ [Next]_vars => EngineInv'
  <2>1. ASSUME EngineInv, UNCHANGED vars PROVE EngineInv'
    BY <2>1 DEF vars, EngineInv, WorldOK, LockOK, Quiet, RunsOK, AskedOK
  <2> QED
    BY <2>1, EngineNext
<1> QED
  BY <1>1, <1>2, PTL DEF Spec

(* A session can always be resumed: every entry of the session log names      *)
(* snapshots that are in their stores, whatever fails and wherever the        *)
(* process dies (exec_core stores, pushes and only then appends).             *)
THEOREM LogResolvesTheorem == Spec => []LogResolves
<1>1. EngineInv => LogResolves
  BY DEF EngineInv, LogOK, LogResolves
<1> QED
  BY <1>1, EngineInvariance, PTL

(* A client that stops polling at "completed" has missed nothing              *)
(* (ExecutionRegistry::complete is the driver's last write).                  *)
THEOREM CompletedIsRecordedTheorem == Spec => []CompletedIsRecorded
<1>1. ASSUME EngineInv PROVE CompletedIsRecorded
  <2>1. SUFFICES ASSUME NEW r \in Runs, record[r].status = "completed"
                 PROVE  Recorded(r, run[r], record[r], world.heap, heaps, roots, log)
    BY DEF CompletedIsRecorded, Recorded
  <2>2. run[r].driver \notin Absent
    BY <1>1, <2>1, RunFacts, SMT DEF RunOK, Unknown
  <2> QED
    BY <1>1, <2>1, <2>2, RunFacts DEF RunOK, Filed
<1> QED
  BY <1>1, EngineInvariance, PTL

(* What waits for a record to be marked as stopped may rely on it             *)
(* (ExecutionActivity's drop, set_isolate_handle).                            *)
THEOREM StoppedIsFinalTheorem == Spec => []StoppedIsFinal
<1>1. ASSUME EngineInv PROVE StoppedIsFinal
  <2>1. SUFFICES ASSUME NEW r \in Runs, record[r].stopped PROVE Final(run[r], record[r])
    BY DEF StoppedIsFinal, Final
  <2>2. run[r].driver \notin Absent
    BY <1>1, <2>1, RunFacts, SMT DEF RunOK, Unknown
  <2> QED
    BY <1>1, <2>1, <2>2, RunFacts DEF RunOK, Filed
<1> QED
  BY <1>1, EngineInvariance, PTL

-----------------------------------------------------------------------------
(* What shutdown reaches: a second invariant, which rests on EngineInv *)

\* The blocking task is not over.
Live == {"queued", "isolate"}
Unsettled == {"running", "cancelled"}

\* A task that is not over belongs to a driver that waits for it and has a publisher;
\* a handle is filed with a running record and terminates a cancelled one; a
\* publisher gives up for a reason; a timer that found an isolate terminated it.
Reach(x, rec, long) ==
    /\ x.task \in Live => /\ x.driver \in {"awaiting", "late"}
                          /\ x.publisher \in {"polling", "grabbed", "filed", "gave_up"}
    /\ x.driver \notin Absent \cup {"done"} => rec.status \in Unsettled
    /\ x.publisher = "filed" /\ x.task \in Live =>
         (rec.status = "running" => rec.handle) /\ (rec.status = "cancelled" => x.killed)
    /\ x.publisher = "gave_up" /\ x.task \in Live => x.timer # "set" \/ long
    /\ x.timer \in {"set", "fired", "missed"} /\ (x.timer = "fired" => x.killed)

Long(r) == world.ask[r].timeout = "long"
ReachInv == \A r \in Runs : Reach(run[r], record[r], Long(r))

(* A step of one run keeps the invariant if it does so for that run.          *)
LEMMA ReachStep ==
    ASSUME ReachInv, NEW r \in Runs, world'.ask = world.ask,
           \A q \in Runs : q # r => run'[q] = run[q] /\ record'[q] = record[q],
           Reach(run'[r], record'[r], Long(r))
    PROVE  ReachInv'
<1>1. \A q \in Runs : Long(q)' = Long(q)
  BY DEF Long
<1>2. SUFFICES ASSUME NEW q \in Runs PROVE Reach(run'[q], record'[q], Long(q))
  BY <1>1 DEF ReachInv, Long
<1> QED
  BY DEF ReachInv

(* Faults leave what the callers ask for as it is.                            *)
LEMMA AskKept ==
    ASSUME EngineInv, Sound \/ Fault PROVE world'.ask = world.ask
  BY DEF EngineInv, WorldOK, Sound, Fault

(* A step changes one entry of the table of runs.                             *)
LEMMA SetFacts ==
    ASSUME EngineInv, NEW r \in Runs, NEW x, Set(r, x)
    PROVE  run'[r] = x /\ \A q \in Runs : q # r => run'[q] = run[q]
  BY DEF EngineInv, Set

(* A driver that does not wait for its task moves on: as nothing runs in its  *)
(* isolate, only the status of its record matters.                            *)
LEMMA Moved ==
    ASSUME EngineInv, ReachInv, NEW r \in Runs, NEW x, Set(r, x), Sound \/ Fault,
           x.task = run[r].task, x.timer = run[r].timer, x.killed = run[r].killed,
           run[r].task \notin Live, run[r].driver \notin Absent \cup {"done"},
           \A q \in Runs : q # r => record'[q] = record[q],
           x.driver = "done" \/ record'[r].status = record[r].status
    PROVE  ReachInv'
<1>1. run'[r] = x /\ \A q \in Runs : q # r => run'[q] = run[q]
  BY SetFacts
<1>2. Reach(run[r], record[r], Long(r))
  BY DEF ReachInv
<1>3. Reach(x, record'[r], Long(r))
  BY <1>2 DEF Reach
<1> QED
  BY <1>1, <1>3, AskKept, ReachStep

(* The same for a step that changes nothing but the driver's stage.           *)
LEMMA StageMoved ==
    ASSUME EngineInv, ReachInv, NEW r \in Runs, NEW d, DriverTo(r, d), Sound \/ Fault,
           run[r].task \notin Live, run[r].driver \notin Absent \cup {"done"},
           \A q \in Runs : q # r => record'[q] = record[q],
           d = "done" \/ record'[r].status = record[r].status
    PROVE  ReachInv'
<1> DEFINE x == [run[r] EXCEPT !.driver = d]
<1>1. Set(r, x)
  BY DEF DriverTo
<1>2. /\ x.driver = d /\ x.task = run[r].task /\ x.timer = run[r].timer
      /\ x.killed = run[r].killed
  BY RunFacts, SMT DEF RunFields
<1> HIDE DEF x
<1> QED
  BY <1>1, <1>2, Moved

(* A driver at any stage but the two in which it waits has no live task.      *)
LEMMA NotLive ==
    ASSUME ReachInv, NEW r \in Runs, run[r].driver \notin {"awaiting", "late"}
    PROVE  run[r].task \notin Live
  BY DEF ReachInv, Reach

(* fail, timed_out and complete change one record.                            *)
LEMMA OthersSettled ==
    ASSUME EngineInv, NEW r \in Runs, NEW rec, record' = [record EXCEPT ![r] = rec]
    PROVE  record'[r] = rec /\ \A q \in Runs : q # r => record'[q] = record[q]
  BY DEF EngineInv

(* A step of one run and of its record.                                       *)
LEMMA ReachBoth ==
    ASSUME EngineInv, ReachInv, NEW r \in Runs, NEW x, NEW rec, Set(r, x),
           record' = [record EXCEPT ![r] = rec], world'.ask = world.ask, Reach(x, rec, Long(r))
    PROVE  ReachInv'
<1>1. run'[r] = x /\ \A q \in Runs : q # r => run'[q] = run[q]
  BY SetFacts
<1>2. record'[r] = rec /\ \A q \in Runs : q # r => record'[q] = record[q]
  BY OthersSettled
<1> QED
  BY <1>1, <1>2, ReachStep

(* Submission looks up its inputs under the lifecycle lock.                   *)
LEMMA SubmissionReach ==
    ASSUME EngineInv, ReachInv, NEW r \in Runs, Submission(r) PROVE ReachInv'
<1>0. /\ run[r].driver \in {"registered", "resolved", "inputs"} /\ UNCHANGED record
      /\ Sound \/ Fault
  BY DEF Submission, ResolveHeap, ResolveFs, Load
<1>1. run[r].task \notin Live /\ run[r].driver \notin Absent \cup {"done"}
  BY <1>0, NotLive DEF Absent
<1>2. ASSUME NEW d, DriverTo(r, d) PROVE ReachInv'
  BY <1>0, <1>1, <1>2, StageMoved
<1>3. ASSUME NEW d, NEW h, Set(r, [run[r] EXCEPT !.driver = d, !.heap = h]) PROVE ReachInv'
  <2> DEFINE x == [run[r] EXCEPT !.driver = d, !.heap = h]
  <2>1. x.task = run[r].task /\ x.timer = run[r].timer /\ x.killed = run[r].killed
    BY RunFacts DEF RunFields
  <2>2. Set(r, x)
    BY <1>3
  <2> HIDE DEF x
  <2> QED
    BY <1>0, <1>1, <2>1, <2>2, Moved
<1>4. ASSUME NEW d, NEW b, Set(r, [run[r] EXCEPT !.driver = d, !.base = b]) PROVE ReachInv'
  <2> DEFINE x == [run[r] EXCEPT !.driver = d, !.base = b]
  <2>1. x.task = run[r].task /\ x.timer = run[r].timer /\ x.killed = run[r].killed
    BY RunFacts DEF RunFields
  <2>2. Set(r, x)
    BY <1>4
  <2> HIDE DEF x
  <2> QED
    BY <1>0, <1>1, <2>1, <2>2, Moved
<1>5. ResolveHeap(r) => ReachInv'
  BY <1>2, <1>3 DEF ResolveHeap
<1>6. ResolveFs(r) => ReachInv'
  BY <1>4 DEF ResolveFs
<1>7. Load(r) => ReachInv'
  BY <1>2 DEF Load
<1> QED
  BY <1>5, <1>6, <1>7 DEF Submission

(* The driver before it is admitted and after its task has ended.             *)
LEMMA DriverReach ==
    ASSUME EngineInv, ReachInv, NEW r \in Runs,
           Mount(r) \/ Join(r) \/ StoreHeap(r) \/ PushMount(r) \/ NumberEntry(r) \/ PutEntry(r)
             \/ Complete(r)
    PROVE  ReachInv'
<1>0. Sound \/ Fault
  BY DEF Mount, Join, StoreHeap, PushMount, NumberEntry, PutEntry, Complete, Sound
<1>1. run[r].task \notin Live
  <2>1. run[r].task = "ended" \/ run[r].driver \notin {"awaiting", "late"}
    BY DEF Mount, Join, StoreHeap, PushMount, NumberEntry, PutEntry, Complete
  <2> QED
    BY <2>1, NotLive DEF Live
<1>2. run[r].driver \notin Absent \cup {"done"}
  BY DEF Mount, Join, StoreHeap, PushMount, NumberEntry, PutEntry, Complete, Absent
<1>3. ASSUME NEW d, DriverTo(r, d), UNCHANGED record PROVE ReachInv'
  BY <1>0, <1>1, <1>2, <1>3, StageMoved
<1>4. ASSUME DriverTo(r, "done"), NEW rec, record' = [record EXCEPT ![r] = rec]
      PROVE  ReachInv'
  <2>1. \A q \in Runs : q # r => record'[q] = record[q]
    BY <1>4, OthersSettled
  <2> QED
    BY <1>0, <1>1, <1>2, <1>4, <2>1, StageMoved
<1>5. ASSUME NEW x, Set(r, x), x.task = run[r].task, x.timer = run[r].timer,
             x.killed = run[r].killed, UNCHANGED record
      PROVE  ReachInv'
  BY <1>0, <1>1, <1>2, <1>5, Moved
<1>6. Mount(r) => ReachInv'
  BY <1>3, <1>4 DEF Mount, Settled
<1>7. Join(r) => ReachInv'
  BY <1>3, <1>4 DEF Join, Settled
<1>8. StoreHeap(r) => ReachInv'
  <2> DEFINE h == OutputHeap(r)
  <2> DEFINE x == [run[r] EXCEPT !.driver = "stored", !.heap = h]
  <2> HIDE DEF h
  <2>1. x.task = run[r].task /\ x.timer = run[r].timer /\ x.killed = run[r].killed
    BY RunFacts DEF RunFields
  <2>2. StoreHeap(r) => \/ Set(r, x) /\ UNCHANGED record
                        \/ DriverTo(r, "done") /\ Settled(r, "failed")
    BY DEF StoreHeap, h
  <2> HIDE DEF x
  <2> QED
    BY <1>4, <1>5, <2>1, <2>2 DEF Settled
<1>9. PushMount(r) => ReachInv'
  <2> DEFINE o == IF run[r].base = None THEN None ELSE run[r].base \cup {r}
  <2> DEFINE x == [run[r] EXCEPT !.driver = "pushed", !.fs = o]
  <2> DEFINE rec == [record[r] EXCEPT !.fs = o]
  <2>2. PushMount(r) => \/ Set(r, x) /\ record' = [record EXCEPT ![r] = rec]
                        \/ DriverTo(r, "done") /\ Settled(r, "failed")
    BY DEF PushMount
  <2> HIDE DEF o
  <2>1. x.task = run[r].task /\ x.timer = run[r].timer /\ x.killed = run[r].killed
    BY RunFacts DEF RunFields
  <2>3. rec.status = record[r].status
    BY <1>2, RunFacts DEF RecordFields
  <2> HIDE DEF x, rec
  <2>4. ASSUME Set(r, x), record' = [record EXCEPT ![r] = rec] PROVE ReachInv'
    <3>1. record'[r] = rec /\ \A q \in Runs : q # r => record'[q] = record[q]
      BY <2>4, OthersSettled
    <3>2. record'[r].status = record[r].status
      BY <2>3, <3>1
    <3> QED
      BY <1>0, <1>1, <1>2, <2>1, <2>4, <3>1, <3>2, Moved
  <2> QED
    BY <1>4, <2>2, <2>4 DEF Settled
<1>10. NumberEntry(r) => ReachInv'
  <2> DEFINE x == [run[r] EXCEPT !.driver = "numbered", !.id = nextId]
  <2>1. x.task = run[r].task /\ x.timer = run[r].timer /\ x.killed = run[r].killed
    BY RunFacts DEF RunFields
  <2>2. NumberEntry(r) => UNCHANGED record /\ (Set(r, x) \/ DriverTo(r, "logged"))
    BY DEF NumberEntry
  <2> HIDE DEF x
  <2> QED
    BY <1>3, <1>5, <2>1, <2>2
<1>11. PutEntry(r) => ReachInv'
  BY <1>3 DEF PutEntry
<1>12. Complete(r) => ReachInv'
  BY <1>4 DEF Complete
<1> QED
  BY <1>6, <1>7, <1>8, <1>9, <1>10, <1>11, <1>12

(* A run that has just been registered is running, and has no task yet.       *)
LEMMA SubmitReach ==
    ASSUME EngineInv, ReachInv, NEW r \in Runs, Submit(r) PROVE ReachInv'
<1> DEFINE x == [run[r] EXCEPT !.driver = "registered"]
<1>1. /\ run[r].driver = "idle" /\ Set(r, x) /\ world'.ask = world.ask
      /\ record' = [record EXCEPT ![r] = Registered]
  BY DEF Submit, DriverTo
<1>2. run[r].task = "none"
  BY <1>1, RunFacts DEF RunOK, Shape, Absent
<1>3. x.task = run[r].task /\ x.timer = run[r].timer /\ x.killed = run[r].killed
  BY RunFacts DEF RunFields
<1> HIDE DEF x
<1>4. Registered.status = "running"
  BY DEF Registered, Unknown
<1>5. Reach(run[r], record[r], Long(r))
  BY DEF ReachInv
<1>6. Reach(x, Registered, Long(r))
  BY <1>2, <1>3, <1>4, <1>5 DEF Reach, Live, Unsettled
<1> QED
  BY <1>1, <1>6, ReachBoth

(* The task starts together with its publisher.                               *)
LEMMA AdmitReach ==
    ASSUME EngineInv, ReachInv, NEW r \in Runs, Admit(r) PROVE ReachInv'
<1> DEFINE x == [run[r] EXCEPT !.driver = "awaiting", !.task = "queued", !.publisher = "polling"]
<1>1. run[r].driver = "mounted" /\ Set(r, x) /\ UNCHANGED <<world, record>>
  BY DEF Admit
<1>2. /\ x.driver = "awaiting" /\ x.publisher = "polling"
      /\ x.timer = run[r].timer /\ x.killed = run[r].killed
  BY RunFacts DEF RunFields
<1> HIDE DEF x
<1>3. Reach(run[r], record[r], Long(r))
  BY DEF ReachInv
<1>4. record[r].status \in Unsettled
  BY <1>1, <1>3 DEF Reach, Absent
<1>5. Reach(x, record[r], Long(r))
  BY <1>2, <1>3, <1>4 DEF Reach
<1> QED
  BY <1>1, <1>5, SetFacts, ReachStep

(* The timer terminates an isolate that it finds.                             *)
LEMMA TimeoutReach ==
    ASSUME EngineInv, ReachInv, NEW r \in Runs, Timeout(r) PROVE ReachInv'
<1> DEFINE k == run[r].killed \/ run[r].task = "isolate"
<1> DEFINE t == IF run[r].task = "isolate" THEN "fired" ELSE "missed"
<1> DEFINE x == [run[r] EXCEPT !.driver = "late", !.timer = t, !.killed = k]
<1>1. run[r].driver = "awaiting" /\ Set(r, x) /\ UNCHANGED <<world, record>>
  BY DEF Timeout
<1>2. t \in {"fired", "missed"} /\ (t = "fired" => k) /\ (run[r].killed => k)
  BY SMT
<1> HIDE DEF k, t
<1>3. /\ x.driver = "late" /\ x.publisher = run[r].publisher /\ x.task = run[r].task
      /\ x.timer = t /\ x.killed = k
  BY RunFacts DEF RunFields
<1> HIDE DEF x
<1>4. Reach(run[r], record[r], Long(r))
  BY DEF ReachInv
<1>5. record[r].status \in Unsettled
  BY <1>1, <1>4 DEF Reach, Absent
<1>6. Reach(x, record[r], Long(r))
  <2>1. t # "set"
    BY <1>2, SMT
  <2> QED
    BY <1>2, <1>3, <1>4, <1>5, <2>1 DEF Reach
<1> QED
  BY <1>1, <1>6, SetFacts, ReachStep

(* A record is marked as stopped when its task is over.                       *)
LEMMA StopReach ==
    ASSUME EngineInv, ReachInv, NEW r \in Runs, Stop(r) PROVE ReachInv'
<1>1. PICK rec : record' = [record EXCEPT ![r] = rec]
  BY DEF Stop
<1>2. run[r].driver = "done" /\ run[r].task \notin Live /\ UNCHANGED <<world, run>>
  BY DEF Stop, Live
<1>3. Reach(run[r], record[r], Long(r))
  BY DEF ReachInv
<1>4. Reach(run[r], rec, Long(r))
  BY <1>2, <1>3 DEF Reach
<1> QED
  BY <1>1, <1>2, <1>4, OthersSettled, ReachStep

(* The isolate appears and goes away next to its publisher.                   *)
LEMMA TaskReach ==
    ASSUME EngineInv, ReachInv, NEW r \in Runs, Task(r) PROVE ReachInv'
<1>1. Reach(run[r], record[r], Long(r))
  BY DEF ReachInv
<1>2. ASSUME StartIsolate(r) PROVE ReachInv'
  <2> DEFINE x == [run[r] EXCEPT !.task = "isolate"]
  <2>1. run[r].task \in Live /\ Set(r, x) /\ UNCHANGED <<world, record>>
    BY <1>2 DEF StartIsolate, Live
  <2>2. /\ x.driver = run[r].driver /\ x.publisher = run[r].publisher
        /\ x.timer = run[r].timer /\ x.killed = run[r].killed
    BY RunFacts DEF RunFields
  <2> HIDE DEF x
  <2>3. Reach(x, record[r], Long(r))
    BY <1>1, <2>1, <2>2 DEF Reach
  <2> QED
    BY <2>1, <2>3, SetFacts, ReachStep
<1>3. ASSUME ScriptEnds(r) PROVE ReachInv'
  <2>0. PICK out : Set(r, [run[r] EXCEPT !.task = "ended", !.outcome = out])
    BY <1>3 DEF ScriptEnds
  <2> DEFINE x == [run[r] EXCEPT !.task = "ended", !.outcome = out]
  <2>1. Set(r, x) /\ UNCHANGED <<world, record>>
    BY <1>3, <2>0 DEF ScriptEnds
  <2>2. /\ x.driver = run[r].driver /\ x.task = "ended"
        /\ x.timer = run[r].timer /\ x.killed = run[r].killed
    BY RunFacts DEF RunFields
  <2> HIDE DEF x
  <2>3. Reach(x, record[r], Long(r))
    BY <1>1, <2>2 DEF Reach, Live
  <2> QED
    BY <2>1, <2>3, SetFacts, ReachStep
<1> QED
  BY <1>2, <1>3 DEF Task

(* The publisher files the handle with a running record, terminates the       *)
(* isolate of a cancelled one, and gives up only for the reasons it has.      *)
LEMMA PublisherReach ==
    ASSUME EngineInv, ReachInv, NEW r \in Runs, Publisher(r) PROVE ReachInv'
<1>1. Reach(run[r], record[r], Long(r))
  BY DEF ReachInv
<1>2. run[r].driver \notin Absent
  <2>1. run[r].publisher # "none"
    BY DEF Publisher, Grab, Publish, PublisherGivesUp
  <2> QED
    BY <2>1, RunFacts DEF RunOK, Shape
<1>3. run[r].task \in Live => record[r].stopped = FALSE
  BY <1>2, RunFacts DEF RunOK, Filed, Final, Live
<1>4. ASSUME NEW p, Set(r, [run[r] EXCEPT !.publisher = p]), UNCHANGED <<world, record>>,
             \/ p = "grabbed"
             \/ p = "gave_up" /\ (run[r].task \in Live => run[r].timer # "set" \/ Long(r))
      PROVE  ReachInv'
  <2> DEFINE x == [run[r] EXCEPT !.publisher = p]
  <2>1. /\ x.driver = run[r].driver /\ x.task = run[r].task /\ x.publisher = p
        /\ x.timer = run[r].timer /\ x.killed = run[r].killed
    BY RunFacts DEF RunFields
  <2>2. Set(r, x)
    BY <1>4
  <2> HIDE DEF x
  <2>3. Reach(x, record[r], Long(r))
    BY <1>1, <1>4, <2>1 DEF Reach
  <2> QED
    BY <1>4, <2>2, <2>3, SetFacts, ReachStep
<1>5. ASSUME Publish(r) PROVE ReachInv'
  <2> DEFINE k == run[r].killed \/ record[r].status = "cancelled"
  <2> DEFINE x == [run[r] EXCEPT !.publisher = "filed", !.killed = k]
  <2> DEFINE rec == Published(r)
  <2>1. Set(r, x) /\ record' = [record EXCEPT ![r] = rec] /\ UNCHANGED world
    BY <1>5 DEF Publish
  <2>2. (run[r].killed => k) /\ (record[r].status = "cancelled" => k)
    OBVIOUS
  <2> HIDE DEF k
  <2>3. /\ x.driver = run[r].driver /\ x.task = run[r].task /\ x.publisher = "filed"
        /\ x.timer = run[r].timer /\ x.killed = k
    BY RunFacts DEF RunFields
  <2>4. DOMAIN record[r] = RecordFields
    BY <1>2, RunFacts
  <2>5. /\ rec.status = record[r].status
        /\ record[r].status = "running" /\ record[r].stopped = FALSE => rec.handle
    BY <2>4 DEF Published, RecordFields
  <2> HIDE DEF x, rec
  <2>6. Reach(x, rec, Long(r))
    BY <1>1, <1>3, <2>2, <2>3, <2>5 DEF Reach
  <2> QED
    BY <2>1, <2>6, ReachBoth
<1>6. Grab(r) => ReachInv'
  BY <1>4 DEF Grab
<1>7. PublisherGivesUp(r) => ReachInv'
  BY <1>3, <1>4 DEF PublisherGivesUp, Long, Ask
<1> QED
  BY <1>5, <1>6, <1>7 DEF Publisher

(* cancel terminates an isolate whose handle is filed; the others are left to *)
(* their publisher.                                                           *)
LEMMA WithdrawnReach ==
    ASSUME EngineInv, ReachInv, NEW r \in Running
    PROVE  Reach(Terminated(r), Withdrawn(r), Long(r))
<1>1. r \in Runs /\ record[r].status = "running"
  BY DEF Running
<1>2. Reach(run[r], record[r], Long(r))
  BY <1>1 DEF ReachInv
<1>3. Withdrawn(r).status = "cancelled" /\ Terminated(r).driver = run[r].driver
  BY CancelFacts DEF Withdraws
<1>4. /\ Terminated(r).task = run[r].task /\ Terminated(r).publisher = run[r].publisher
      /\ Terminated(r).timer = run[r].timer
      /\ run[r].killed \/ record[r].handle => Terminated(r).killed
  BY <1>1, RunFacts DEF Terminated, RunFields
<1> QED
  BY <1>1, <1>2, <1>3, <1>4 DEF Reach, Unsettled

(* cancel of one run.                                                         *)
LEMMA CancelReach ==
    ASSUME EngineInv, ReachInv, NEW r \in Runs, Cancel(r) PROVE ReachInv'
<1>1. /\ run' = [run EXCEPT ![r] = Terminated(r)]
      /\ record' = [record EXCEPT ![r] = Withdrawn(r)]
  BY DEF Cancel, Cancelled, EngineInv, Terminated, Withdrawn
<1>2. r \in Running /\ world'.ask = world.ask
  BY DEF Cancel, EngineInv, WorldOK
<1> QED
  BY <1>1, <1>2, WithdrawnReach, ReachBoth DEF Set

(* cancel_all.                                                                *)
LEMMA BeginShutdownReach ==
    ASSUME EngineInv, ReachInv, BeginShutdown PROVE ReachInv'
<1>1. ASSUME NEW r \in Runs
      PROVE  \/ r \in Running /\ run'[r] = Terminated(r) /\ record'[r] = Withdrawn(r)
             \/ run'[r] = run[r] /\ record'[r] = record[r]
  BY <1>1 DEF BeginShutdown, Cancelled, Terminated, Withdrawn
<1>2. \A r \in Runs : Long(r)' = Long(r)
  BY DEF BeginShutdown, Long
<1>3. ASSUME NEW r \in Runs PROVE Reach(run'[r], record'[r], Long(r))
  BY <1>1, <1>3, WithdrawnReach DEF ReachInv
<1> QED
  BY <1>2, <1>3 DEF ReachInv, Long

(* After a restart no run of the process that died has a task.                *)
LEMMA RestartReach ==
    ASSUME EngineInv, ReachInv, Restart PROVE ReachInv'
<1>1. world'.ask = world.ask
  BY DEF Restart, EngineInv, WorldOK
<1> DEFINE gone == [NotStarted EXCEPT !.driver = "gone"]
<1>2. gone.driver = "gone" /\ gone.task = "none" /\ gone.timer = "set"
  BY DEF NotStarted
<1>3. ASSUME NEW r \in Runs PROVE Reach(run'[r], record'[r], Long(r))
  <2>1. CASE run[r].driver = "idle"
    <3>1. run'[r] = run[r] /\ record'[r] = Unknown /\ record[r] = Unknown
      BY <2>1, RunFacts DEF Restart, RunOK, Absent
    <3> QED
      BY <3>1 DEF ReachInv
  <2>2. CASE run[r].driver # "idle"
    <3>1. run'[r] = gone
      BY <2>2 DEF Restart
    <3> HIDE DEF gone
    <3> QED
      BY <1>2, <3>1, SMT DEF Reach, Live, Absent
  <2> QED
    BY <2>1, <2>2
<1>4. \A r \in Runs : Long(r)' = Long(r)
  BY <1>1 DEF Long
<1> QED
  BY <1>3, <1>4 DEF ReachInv, Long

(* The other steps touch no run and no record.                                *)
LEMMA OtherReach ==
    ASSUME EngineInv, ReachInv, Fork \/ EndShutdown \/ \E w \in Writers : NativeOpen(w) \/ NativeStep(w)
    PROVE  ReachInv'
<1>1. UNCHANGED <<run, record>>
  BY DEF Fork, EndShutdown, NativeOpen, NativeStep, NativePush, NativeNumber, NativeAppend
<1>2. world'.ask = world.ask
  <2>1. Fork => world'.ask = world.ask
    BY DEF Fork, EngineInv, WorldOK
  <2>2. (\E w \in Writers : NativeOpen(w) \/ NativeStep(w)) \/ EndShutdown => Sound \/ Fault
    BY DEF EndShutdown, NativeOpen, NativeStep, NativePush, NativeNumber, NativeAppend, Sound
  <2> QED
    BY <2>1, <2>2, AskKept
<1> QED
  BY <1>1, <1>2 DEF ReachInv, Long

(* The second invariant, for every set of runs, native operations and         *)
(* scenarios.                                                                 *)
THEOREM ReachInvariance == Spec => []ReachInv
<1>1. Init => ReachInv
  BY SMT DEF Init, ReachInv, Reach, NotStarted, Live, Absent
<1>2. EngineInv /\ ReachInv /\ [Next]_vars => ReachInv'
  <2>1. ASSUME EngineInv, ReachInv, NEW r \in Runs,
               Submit(r) \/ Cancel(r) \/ Submission(r) \/ Task(r) \/ Publisher(r) \/ Driver(r)
        PROVE  ReachInv'
    BY <2>1, SubmitReach, CancelReach, SubmissionReach, TaskReach, PublisherReach, AdmitReach,
       TimeoutReach, StopReach, DriverReach DEF Driver
  <2>2. ASSUME EngineInv, ReachInv, UNCHANGED vars PROVE ReachInv'
    BY <2>2 DEF vars, ReachInv, Long
  <2> QED
    BY <2>1, <2>2, BeginShutdownReach, RestartReach, OtherReach DEF Next
<1> QED
  BY <1>1, <1>2, EngineInvariance, PTL DEF Spec

(* Once shutdown has returned, every isolate is terminated or will be by its  *)
(* publisher, unless that gave up; nothing counts as running, and no          *)
(* submission or native write is half done (Engine::shutdown under            *)
(* shutdown_lock, cancel_all, set_isolate_handle).                            *)
THEOREM ShutdownReachesRunsTheorem == Spec => []ShutdownReachesRuns
<1>1. ASSUME EngineInv, ReachInv PROVE ShutdownReachesRuns
  <2>1. SUFFICES ASSUME lifecycle = "shutdown" PROVE ShutdownReachesRuns!2
    BY DEF ShutdownReachesRuns
  <2>2. \A r \in Runs : record[r].status # "running"
    BY <1>1, <2>1 DEF EngineInv, Quiet
  <2>3. /\ \A r \in Runs : run[r].driver \notin Submitting
        /\ \A w \in Writers : native[w].stage \notin Opened
    BY <1>1, <2>1, EngineAssumption DEF EngineInv, LockOK
  <2>4. ASSUME NEW r \in Isolates
        PROVE  \/ run[r].killed \/ run[r].publisher \in {"polling", "grabbed"}
               \/ run[r].publisher = "gave_up" /\ (run[r].timer = "missed" \/ Long(r))
    <3>1. r \in Runs /\ run[r].task \in Live /\ Reach(run[r], record[r], Long(r))
      BY <1>1, <2>4 DEF Isolates, ReachInv, Live
    <3>2. run[r].driver \notin Absent \cup {"done"}
      BY <3>1 DEF Reach, Absent
    <3>3. record[r].status = "cancelled"
      BY <2>2, <3>1, <3>2 DEF Reach, Unsettled
    <3> QED
      BY <3>1, <3>3 DEF Reach
  <2> QED
    BY <2>2, <2>3, <2>4 DEF ShutdownReachesRuns, Running, Submitting, Opened, Long, Ask
<1> QED
  BY <1>1, EngineInvariance, ReachInvariance, PTL
=============================================================================

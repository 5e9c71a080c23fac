# A TLA+ model of mcp-v8

This directory specifies mcp-v8 (an MCP server that runs JavaScript in V8, its
Raft cluster and its schedulers) in TLA+, model-checks the specifications with
TLC on small instances, and proves what matters most with TLAPS for every value
of the constants. `PROJECT.json` lists the components, the runs, the properties
each run checks, the source lines every definition models, the hazards the
properties are about, and the theorems.

1. [The system](#1-the-system): the inventory of components
2. [Modules](#2-modules): what is modelled, and how state and actions
   correspond to the code
3. [Runs](#3-runs): what TLC checks, the bounds, the fairness
4. [Proofs](#4-proofs): what is proved, from which assumptions, along which
   argument
5. [Disagreements](#5-disagreements-between-documents-and-the-code) that the
   runs show, and observations without a run
6. [Not modelled](#6-not-modelled)

## 1. The system


A server process takes code over MCP or HTTP (`server/src/mcp*.rs`, `api.rs`),
runs it in a V8 isolate (`server/src/engine/mod.rs`), and keeps heaps, mounted
filesystems and session logs in content-addressed storage under names held in a
metadata store. Servers may form a Raft cluster (`server/src/cluster.rs`). Two
schedulers run code on a calendar: a local one
(`scheduler-core`: one process over a sled store) and a replicated one
(`scheduler-runner`: the same core as a state machine in a value of the Raft
store, dispatching to a remote worker).

For each part: its state, the operations that change it, who else touches it,
and what would make it wrong.

**Scheduler core** (`scheduler-core/src/core.rs`). State: schedules (definition,
enabled, deleted, cursor, rejection count), occurrences (slot, status, attempt),
the watermark of the clock, one counter of identities, a poison flag; memory and
disk. Operations: create, disable, delete, request_cancel, observe, claim,
finish, acknowledge_stopped, reject_unadmitted, commit, recovery on open. Used
by the runner loop and by management clients under one mutex. Hard: a crash or
failed flush between any two steps; executions that outlive whoever waits for
them; a clock that goes back; limits reached in the middle of an observation.
Right when: no attempt is handed out twice, executions of a schedule do not
overlap, the limits hold, uncertain work is neither retried nor forgotten,
every slot is decided and every receipt settled.

**Scheduler runner loop** (`scheduler-core/src/runner.rs`). State: the lease, the
set of executing tasks, the stop signal. Operations: pulse, claim, completion,
stop and drain; its future may be dropped at any await. Right when: dropping it
leaves every running receipt marked uncertain.

**Replicated scheduler** (`scheduler-runner/src/replicated.rs`). State: the
envelope (epoch, owner, term, core checkpoint, claims, admissions) in one key of
the Raft store, and each owner's copy with its `valid` flag. Operations:
acquire, every core transition as a compare-and-swap, claim_for_worker,
admit_classified, cancellations, finish_cancellation. Hard: a swap whose
outcome is unknown, a deposed owner whose entry commits late, takeovers in the
middle of a dispatch. Right when: an owner never decides on a stale view, and
what the register commits is a legal history of receipts.

**Runner process, remote executor, management** (`scheduler-runner/src/main.rs`,
`remote.rs`, `management.rs`). State: the owner, executing and cancelling tasks,
pending cancellations, stopping. Operations: the branches of the select loop,
one submission and its polling, one cancellation, the operator's commands.
Hard: lost answers, late answers, expiry of the operator's grant, shutdown.

**Scheduled worker** (`server/src/scheduled_worker.rs`,
`scheduled_protocol.rs`). State: reservations, bindings, cancellations and
receipts in a sled store, the incarnation, the execution gate. Operations:
reserve, admit_decision, consume, submit and record, cancel, status. Hard:
requests that arrive late, handlers dropped at an await, failed flushes,
restarts. Right when: work that runs is always held by a receipt, and a receipt
says what became of the work.

**Raft cluster** (`server/src/cluster.rs`). State: term, vote, log and commit
index in a sled store; role, next and match indices, learners and append calls in
memory. Operations: election, vote, append, commit and apply, put,
compare-and-swap, barrier, join and leave. Hard: everything Raft is about, plus a
store that fails in the middle of a handler. Right when: nodes apply the same
entries in the same order, a leader has every committed entry, a swap is atomic
and an acknowledged write is not lost.

**Execution registry and engine pipeline** (`engine/execution.rs`,
`engine/mod.rs`, `engine/ffi.rs`). State: the record of every execution, its
isolate handle, its stopped flag, permits, the V8 mutex, the lifecycle lock, the
session log. Operations: submit, start, publish the handle, complete, fail, time
out, cancel, shut down, append; native writes; inside the blocking task the
set-up of an isolate, hardening, evaluation and snapshot. Hard: completion,
timeout, cancellation, shutdown and a crash race for one execution. Right when:
the log names only what is stored, "completed" and "stopped" mean what clients
take them to mean, shutdown settles every run and reaches every isolate.

**Snapshots** (`engine/fs_mount.rs`, `fs_store.rs`, `fs_tree.rs`, `fs_merge.rs`,
`fs_labels.rs`, `fs_gc.rs`, `heap_tags.rs`, `heap_storage.rs`,
`server/metadata-store`). State: trees by content, a mount's overlay, labels with
their reflogs, tags, a cache in front of object storage. Hard: two pushes on one
label, a collection beside them, a cache file read while it is written. Right
when: an overlay behaves like a flat map of files, a label's history is exact,
the cache's account is true.

**Services of the server** (`http_functions.rs`, `engine/hooks.rs`, `opa.rs`,
`mcp_client.rs`, `mcp_oauth.rs`, `fetch_auth.rs`, `artifacts.rs`, `console.rs`,
`mcp*.rs`, `session.rs`, `api.rs`). Each keeps state that several requests
change: slots and revisions, a stack of hooks, connections that are replaced,
tokens that are refreshed, grants for one upload, pages of output read while
they are written, sessions and keys, native calls beside scripts.

**What a script sees** (`engine/fs.rs`, `net_tcp.rs`, `subprocess.rs`,
`websocket.rs`, `http2.rs`, `timers.rs`, `module_loader.rs` and the JavaScript
above them in `engine/node_compat` and `engine/web_compat`). State: streams,
sockets, children, timers, caches of modules, owned by one isolate. Right when:
data arrives once and in order, nothing outlives its owner, nothing passes a gate
that did not allow it.

**Start-up** (`main.rs`, `cli.rs`, `config.rs`, `bootstrap.rs`, `sandbox.rs`,
`engine/ffi_config.rs`). Arguments from three places, a sandbox planned before
what it confines is opened, stores that may not open. Right when: a server that
serves does so on the terms it was started with.

## 2. Modules


| Module | Models | Extends |
|---|---|---|
| `SchedulerState` | the state of `Core` and its transitions, as operators | |
| `SchedulerCore` | one core over a local store, its runner, clients, executor and clock | `SchedulerState` |
| `ReceiptLedger` | what any scheduler promises about receipts (abstract) | |
| `ScheduledProtocol` | messages between runners and worker, faults, the grant | |
| `ScheduledWorker` | the worker and the executions it launches | `ScheduledProtocol` |
| `ReplicatedScheduler` | runners over the replicated register | `SchedulerState`, `ScheduledProtocol` |
| `ScheduledExecution` | the composition, with the tasks between runner and worker | both |
| `SchedulerStateProofs` | what the transitions preserve | `SchedulerState` |
| `SchedulerCoreProofs` | the inductive invariant, the safety theorems, the action properties and the refinement of the ledger | `SchedulerCore` |
| `RaftLog` | what the handlers of `cluster.rs` make of a record, a vote request and an append request | |
| `Raft` | the cluster: elections, appends, commits, proposals, learners, faults | `RaftLog` |
| `ReplicatedLog` | what the cluster promises (abstract) | |
| `RaftHistory` | histories of leaders' logs and votes, and what extends them | `RaftLog` |
| `RaftMessages`, `RaftCommits` | every step of the cluster extends the history | `Raft`, `RaftHistory` |
| `RaftInvariant` | the invariant: a history explains every state | `RaftCommits` |
| `RaftProofs` | the safety theorems and the refinement | `RaftInvariant` |
| `EngineRuns` | runs, native writes, session log, shutdown, restart | |
| `EngineRunsProofs` | the inductive invariant and the safety theorems | `EngineRuns` |
| `IsolateRuns` | one isolate inside the blocking task | |
| `SnapshotFs`, `FlatFilesystem` | the snapshot filesystem, and the flat map it implements (abstract) | |
| `SnapshotLabels`, `BlobCache` | labels, reflogs, tags and collection; the blob cache | |
| `HttpFunctions`, `HookStack`, `OAuthTokens`, `ToolServers` | services of the server | |
| `ConsoleOutput`, `ArtifactUploads`, `McpFrontEnd`, `RestApi` | what clients of the server meet | |
| `FileService`, `NodeSockets`, `Subprocesses`, `WebSockets`, `Http2Client`, `PackageResolution`, `ModuleLoading`, `GuestScheduling` | what a script sees | |
| `ServerSetup` | how a server comes up and how engines are embedded | |
| `MCSchedulerCore`, `MCScheduledExecution`, `MCRaft`, `MCEngine`, `MCServer` | instances for TLC | |

Operators named `Faulty...` are the next definition with one defect; they show
that a property notices it, and nothing uses them.

### SchedulerState and SchedulerCore

A state is a record of `nextId`, `watermark`, `sched` and `occ`, two maps from
identities drawn from one counter, as in `struct State`. A status is a `kind`
with an attempt; `Pending` also has the instant from which it may be claimed.
Time is a bounded set of instants and a cron expression with its timezone is the
set of instants it fires at: a transition only asks for the next slot after an
instant and for the slots between two. Names, code and failure details are left
out, no transition reads them.

`SchedulerCore` has the durable and the in-memory state (`disk`, `mem`), the
poison flag, and the local variables of `observe` (`obs`) and `run_until`
(`runner`, `stopping`, `tasks`). Operations under the mutex are one step each;
`observe` is split into its loop (`ObserveBegin`, `ObserveSchedule`,
`ObserveSlot`, `ObserveCommit`), so that running out of identities leaves it in
the middle, and excludes the others while it runs. Every commit is `Stored`, or
`Torn`: the caller gets an error, memory keeps the old state, the disk has
either. `RunnerAbort` drops the runner's future at an await; `RunnerFails` is an
operation returning an error; both leave executions alive. `live` (executions)
and `handed` (what `claim` returned) are outside the program and only observe it.

Not modelled in `finish`: the overflow of the retry instant, which fails the
operation for delays no calendar reaches.

### ScheduledProtocol, ScheduledWorker, ReplicatedScheduler, ScheduledExecution

The register (`reg`, `open`, `top`, `fence`, `lead`) is what the runners use of
`cluster.rs`: a leader of a term proposes; a proposal commits when the register
still has the value it was compared with; it may commit after its proposer gave
up, and even after its leader was deposed, until a barrier of a later term has
committed. What happens inside the cluster is abstracted to its results.

A runner's loop is one task: `phase` says where it waits. Every transition
(`Propose`) sets `valid` to false before the await, as the code does, and
`Learn` or `Fail` ends it. `AfterFailure` is the difference between the callers:
observe, claim and finish drop the owner, acquisition, admission and management
keep it. `PulseFollower`, `PulseAcquires`, `Sweep`, `ClaimNext` are the pulse;
`ServeAdmission`, `TaskDone`, `CancellationDone`, `Management` and `Shutdown`
the other branches of the select. The revision counter of the envelope is left
out: epochs, and the order in which one leader's log commits, already keep
envelopes apart.

The worker's exec handler is a record that lives across awaits: `Reserve`,
`Ask` and the answers, then under the gate `Consume` and `Submit` (launch and
receipt happen in one poll). `HandlerEnds` drops it at any await. A failed flush
leaves the write visible; `WorkerCrash` keeps either everything or what the last
successful flush covered (`synced`), ends all handlers and executions, and
changes the incarnation. Which runner is asked next is left open, as the list of
admission URLs is configuration. Requests may be lost or late but are never
repeated: every client is built with `retry::never`. A cancellation's answer may
be to an earlier request for the same invocation; outcomes it reports are stable
facts.

A task (`SubmitTask`, `SubmitAnswered`, `Poll`, `TaskLoses`) is
`execute_authorized`. The operator's acknowledgement is an attestation, and the
model lets it be given only when it is true (`Quiesced`).

### ReceiptLedger

The abstract specification both schedulers implement: receipts move along one
graph of statuses, an attempt that may have run never runs again, a retry
follows only a known failure and has the next attempt number, only settled
receipts disappear, and no identity is used twice. `SchedulerCore` implements it
through `disk`, `ScheduledExecution` through `reg` (`ImplementsLedger` in each).

### Raft

`disk[n]` is what `durable` has written (term, vote, log, commit index). A crash
loses the role, next and match indices and the ballots; the learners a node knows
of are stored (`persist_peers`) and kept. A handler is one step, since it holds the state's mutex, with the answer heard or
lost; a request may be delivered late, after its sender stopped waiting
(`awaited`). `StoreFails` is a write that fails anywhere in a handler: what has
been written stays, and the node stops answering until it restarts, as `durable`
poisons it. `TornAppend` is the truncation of a conflicting suffix without what
should replace it. `Budgets` bounds the steps; the proofs hold for any budget.
An entry is a put, a swap with the value it compared with, or a barrier, on one
key, as the scheduler uses the store; forwarding to the leader is the choice of
the node that proposes.

The model is a cluster with fixed voters (`new_fixed`), as the replicated scheduler
makes it (`scheduler-runner/src/main.rs:116`): a join as a voter and the removal of
a voter are refused, and only learners join and leave. The nodes of
`server/src/main.rs:170` are made by `ClusterNode::new`, and there `add_peer` and
`remove_peer` (`cluster.rs:1624-1711`) also add and remove voters, in the leader's
own peer list and without an entry in the log. That branch is not modelled.
Nothing here, run or theorem, is about a cluster whose voters change.

### EngineRuns and IsolateRuns

`run[r]` follows the driver of a run through its awaits (`driver`), the blocking
task that owns V8 (`task`) and the task that files the isolate's handle
(`publisher`); `record[r]` is the registry's entry. A snapshot is the set of runs
and writes whose effects it has. A scenario fixes the configuration, what callers
ask for and how many faults, cancellations and crashes there may be. Every await
of the driver is a step boundary; `Restart` keeps the stores and the log.

A script ends, runs for ever, or is parked: it awaits an op that may not complete,
and terminating the isolate does not wake it. A timeout is zero (it may fire before
anything else), short, or long (beyond the 300 seconds a publisher looks for the
isolate's handle). `timer` says whether the timeout is still set, found an isolate
when it fired, or missed it.

`IsolateRuns` opens the box `isolate` of that model: heap restored, handle
published, each global injected, hardening, evaluation, snapshot, with
termination, the heap limit and the release of array buffers at any point. The
configuration of a session does not change.

### The parts of MCServer

Each module has its own state and actions; `MCServer` instantiates them one
after the other over the same variables, since in the program they share no
state. What each contributes to the seven properties:

| Module | Property |
|---|---|
| `SnapshotFs` | `PushKeepsView`: a pushed tree is what the session saw; `ImplementsFlat` |
| `SnapshotLabels` | `HistoryExact`, `MergesKept`, `RollForwardKept`: reflogs record exactly the moves of heads, through racing writers and a collector |
| `BlobCache` | `CacheAccounted`: bytes recorded are bytes of files, within the limit |
| `HttpFunctions` | `ChangesLinear`, `SlotsCoverRuns`, `AdmittedCurrent` |
| `HookStack` | `GatesHold`, `DeniedIsQuiet`: the executor runs only on what the stack allowed |
| `OAuthTokens` | `SingleFlight`, `HeadersTrue`, `TokensBound` |
| `ToolServers` | `ConnectionsOwned`: every open connection has an owner, and shutdown closes those that are live then; `CallsTold` |
| `ConsoleOutput` | `BytesResume`: byte windows are adjacent, and a character is damaged only where a window's end cuts it; `LinesResume`, `CallersTold` |
| `ArtifactUploads` | `UploadsSingle`, `TokensReturned` |
| `McpFrontEnd` | `ShutdownExcludes`, `SurfaceServed`, `ValidTokensPass`, `IdentityKept` |
| `RestApi` | `NativeChain`, `FilesTold`, `RestTold` |
| `IsolateRuns` | `IsolateHeld`, `IsolateTold`, `SandboxWhole` |
| `ServerSetup` | `SetupHeld`, `SetupGates`, `SandboxCovers` |
| `FileService` | `WritesExact`, `StreamsHidden` |
| `NodeSockets` | `HandlesCounted`, `BytesInOrder` |
| `Subprocesses` | `ProcessesOwned`, `ChildrenTold` |
| `WebSockets` | `SocketsReleased`, `SocketsOrderly` |
| `Http2Client` | `StreamsReleased`, `StreamsInOrder` |
| `PackageResolution` | `ResolversAgree`, `ExportsEncapsulate`: the loader in Rust and the one in JavaScript resolve alike |
| `ModuleLoading` | `ScriptsOnce`, `FormatsAsked`, `HooksNewestFirst`, `FetchesGated` |
| `GuestScheduling` | `TimersExact`, `TicksInOrder`, `ContextKept` |

What these modules leave out of the code they model: `NodeSockets` lets a socket
dial again only once it has closed, and has no writes before the connection, no
onread, timeouts, pipes, lookup or block lists. `ConsoleOutput` has one tree of
pages, and characters of one and two bytes. `McpFrontEnd` groups tools by the
store they need and reduces a token to its key. `PackageResolution` has no `..`
and no percent-encoding. `GuestScheduling` has delays of zero and one and hooks
that are enabled from the start. `RestApi` takes labels and merges in one step
(`SnapshotLabels` and `SnapshotFs` have theirs).

## 3. Runs


| Run | Instance | Shows |
|---|---|---|
| `core_queue` | one schedule that queues, catches up two slots and retries; 4 instants, 5 identities, 2 records, 2 faults | `Capacity`, `NoOverlap`, `NeverHandedTwice`, `QueueOrder`, `SlotOnce`, `UncertainNeverRetried`, `ReceiptsKept` |
| `core_mixed` | two schedules, Skip and Concurrent, sharing limits, one of which may run at a time; 3 instants, 5 identities, 2 records, one fault | `TypeOK`, `Capacity`, `ExecutionsBounded`, `StoppedStaysStopped` |
| `core_live` | one schedule, one fault, fairness | `EveryReceiptSettles`, `DueSlotsDecided`, `ImplementsLedger` |
| `exec_faults` | two runners, a schedule that retries, cancellations; any one fault of six kinds | `TypeOK`, `ExecutionHeld`, `NoOverlap`, `OutcomeTrue`, `ImplementsLedger` |
| `exec_takeover` | two runners, three terms, two elections or timeouts | `ExecutionHeld`, `OwnerViewCurrent` |
| `exec_manage` | two runners, every command, a grant that may expire, no faults | `ExecutionHeld`, `OutcomeTrue`, `ImplementsLedger` |
| `exec_live` | one runner, one unanswered swap, fairness | `ReceiptsSettle` |
| `exec_expiry` | the same with a grant that expires | violates `CleanupRetried`, see section 5 |
| `raft` | three fixed voters, a learner, one entry per request; five budgets of elections, requests, lost calls, values, faults and joins | `AppliedAgree`, `LeaderComplete`, `ImplementsLog` |
| `engine` | two runs and a native write in nine scenarios, fairness | `LogResolves`, `CompletedIsRecorded`, `StoppedIsFinal`, `ShutdownReachesRuns`, `RunsSettle` |
| `engine_queued` | a script that never ends behind the V8 mutex | violates `RunsBounded`, see section 5 |
| `server` | every other part on its own small instances, fairness | `HistoryKept`, `ResourcesHeld`, `AnswersTrue`, `DeliveredOnce`, `GatesHold`, `ImplementsFlat`, `AnswersCome` |

**Bounds.** Every bound is a constant. In `core_*` the record limit is at or
below the number of receipts that can be made, so eviction happens; identities
run out, in the middle of an observation too; two faults allow a crash during
the recovery from another failure; two slots due at once with one retry give
queues of two with a retry between them. In `core_mixed` one execution may run at
a time while two schedules compete, and a fault leaves executions alive that
nobody waits for, so `ExecutionsBounded` is about executions of several schedules
and of several runners. In `exec_*` one occurrence with its
retry reaches every pair of phases of runner and worker; a second occurrence
would be a second copy of the same protocol, held apart by its key, and the
claims of several are the subject of the core runs. Two nodes are enough for an
owner and its successor, three terms for a node that owns again. Faults are
enabled by kind, so that the runs differ in what may go wrong and not in size.
Runners are interchangeable and the safety runs use that symmetry; the liveness
runs do not.

In `raft` no budget allows everything at once, which TLC could not finish; each
allows some things in any order: leaders taking turns, a call lost or late, a
node that stops and restarts, a learner that joins and leaves, all three kinds of
entries. Four elections let a term-old entry reach a majority under a later
leader and be overwritten, the case `update_commit_index` guards against. In
`engine` the scenarios differ in what the runs share: a session, a permit, the V8
mutex, a new or forked session, no heaps; one fault, cancellation or crash meets
every interleaving of two drivers. Two of them have a parked script beside one
that never ends, with a long timeout and a shutdown, or with a timeout of zero. The parts of `server` have two or three
concurrent callers, and limits (slots, cache bytes, pipe and buffer capacities)
one below what the callers want, so that the limit is met; sockets and streams
carry two frames in each direction.

**Deadlock** is not checked: instants, identities and elections are bounded, so
every instance stops.

**Fairness.** In `core_live`: weak fairness of the runner (its task is polled),
strong fairness of completions (the select is biased towards them, so a ready
completion is not passed over for ever), executions stop (they have a timeout),
the clock ticks, and whoever embeds the core closes an instance that is poisoned
and reopens it. In `exec_live`: the select of `main.rs` is not biased and picks
at random among ready branches, hence strong fairness of each branch; a
cancellation that keeps being sent is answered in time once; scripts have a
timeout and tasks a deadline; a majority of the cluster is connected, so a
leader emerges and its entries commit. Nothing is assumed of commands, of
faults, or of the expiry.

In `engine`: drivers, blocking tasks and publishers are tasks of tokio and are
polled; scripts other than those that never end return; timers fire. Nothing is
assumed of a parked script: the op it awaits may never complete. `RunsSettle`
therefore excuses two kinds of isolates, and what waits behind them: a parked one,
and an endless script whose timeout fired before its isolate existed. In `server`:
weak fairness of each task or event loop that can take a step; peers and hooks
that are external take their steps too, or the code's timeout does; a child
process reads, writes and ends while its pipes let it. `AnswersCome` excuses an
operation of `Subprocesses` without a timeout whose pipes are full both ways.
Nothing is assumed of clients that read output, of callers, faults and
cancellations.

`EveryReceiptSettles` allows one way out: uncertain work nobody acknowledges
holds a schedule or the capacity. That is the code's choice, as capacity is
never released on a guess. `ReceiptsSettle` likewise excuses a receipt whose
outcome the worker itself lost (`OutcomeLost`): it crashed, or a handler was
dropped, between consuming the permit and storing the receipt.

## 4. Proofs

### The local scheduler

These theorems are about `SchedulerCore` with any definitions, limits, bounds and
number of faults that satisfy the assumptions of `SchedulerState`
(`BoundsAssumption`; `LimitsAssumption`, which is `Limits::validate`;
`DefinitionsAssumption`, a calendar always has a later slot) and
`FaultsAssumption`.

| Theorem | States |
|---|---|
| `TypeCorrect`, `CapacityHolds`, `NoOverlapHolds`, `ExecutionsBoundedHolds`, `NeverHandedTwiceHolds`, `QueueOrderHolds`, `SlotOnceHolds` | `Spec => []P` for the invariants of `core_queue` and `core_mixed` |
| `UncertainNeverRetriedHolds`, `ReceiptsKeptHolds`, `StoppedStaysStoppedHolds` | `Spec => P` for the action properties |
| `ImplementsLedgerHolds` | `Spec => Ledger!Spec`: the core implements the abstract ledger |

**Why an inductive invariant.** None of these is inductive as it stands. That
executions do not overlap needs to know that whatever executes is the current
attempt of an *active* receipt (`Alive`), that a schedule has one active receipt
at most (`Exclusive`), and that this is so in memory *and* on disk: after a torn
commit they differ, and a crash makes the disk count. At-most-once hand-out
needs that a pending receipt has a newer attempt than any handed out
(`History`). That a slot is executed once needs cursors beyond every slot of
every receipt and of every past hand-out (`Slotted`), since the receipt may have
been evicted. Queue order needs that nothing unresolved is older than something
handed out (`Ordered`).

`Sound(st, H, L)` puts these together with the types and the limits for one
state, given the history of hand-outs and the living executions. The invariant
`IInv` says that `disk` and `mem` are sound, equal unless poisoned, and that
what `observe` has staged is sound and the slots it still has to admit are new.

**Argument.** `SchedulerStateProofs` shows what each transition does to a sound
state. Most are *tame*: they drop receipts or move them towards the end, and
tame steps preserve soundness (`TameSound`). Insertion, claim and requeue are
treated one by one; admission composes eviction and insertion.
`SchedulerCoreProofs` has one step per action for `IInv`, and the theorems
follow. For the action properties and the refinement, its second part
shows that every step replaces the durable state by one that `Evolves` from it.
Only `observe` needs an invariant for that, because it stages its state over
many steps: what is staged has `Grown` from memory. Evolving implies a step of
the ledger or a stutter.

### The Raft cluster

The theorems are about `Raft`, that is, clusters whose voters are fixed
(`new_fixed`), with any finite set of voters, any learners, any values, batch size
and budgets (`MembersAssumption`: voters exist, are finite and
are not learners; `RaftAssumption`: the batch size is positive and budgets are
numbers).

| Theorem | States |
|---|---|
| `Invariance` | `Spec => []Inv`: in every state there is a history that explains it |
| `AppliedAgreeTheorem` | `Spec => []AppliedAgree` |
| `LeaderCompleteTheorem` | `Spec => []LeaderComplete` |
| `ImplementsLogTheorem` | `Spec => ImplementsLog`: the cluster implements `ReplicatedLog` |

**Why a history.** That committed entries survive is not a fact about the
current state: it depends on who voted when, and on what nodes held before they
were overwritten, none of which the nodes remember. `RaftHistory` therefore
speaks of a history: for every term the log of its leader (`TL`), the leader
(`TO`), the votes given (`VH`) and how much of the leader's log each node has
held (`AK`). It is not a variable of the model. The invariant says that some
history *explains* the state (`Explained`), and each step is shown to have a
history that extends the old one and explains the new state. The explanation has
these parts: every log is backed entry by entry by leaders' logs (`Backed`,
hence logs match); a leader has the votes of a majority and a node votes once a
term (`Elected`, `Ballots`); an entry of a term's own leader that a majority holds
*or may yet come to hold* (`Pending`) is in the log of every later leader and
stays with the nodes that hold it (`LeadersHold`, `NodesHold`); a commit index
stays within what a majority has held (`Commits`); requests on their way repeat
their leader's log (`Sent`); leaders and candidates are what their terms say
(`Leading`, `Standing`). `Pending` rather than "held by a majority" is what makes
it inductive: when a candidate wins, the voters that elected it have left the
older terms, so whatever was still choosable then was held by one of them.

**Argument.** `RaftHistory` proves, about records and histories alone, what one
node's write, an election and a leader's append do. `RaftMessages`,
`RaftCommits` and the beginning of `RaftInvariant` show for each action of `Raft`
that it is such a change, failing stores and torn appends included, and that it
keeps the types and lowers no commit index. `RaftInvariant` puts them together in
`Inv`, and `RaftProofs` draws the theorems from it. Two settled logs agree where both are
settled (`SettledSame`), which gives `AppliedAgree`; with `LeadersHold` and
`Leading` it gives `LeaderComplete`. For the refinement, the log committed after a
step extends the one before, swaps in it are chained because leaders' logs are
(`Chains`), and every acknowledged value is in it (`Held`). Two facts about finite
sets (majorities meet, a finite set of positions has a last one) are proved in
`RaftProofs` and used as `FiniteFacts` before it.

### The engine

The theorems are about `EngineRuns` with any runs, native writers and scenarios
(`EngineAssumption`: runs, writers and their snapshots are told apart, and
scenarios are well formed).

| Theorem | States |
|---|---|
| `EngineInvariance` | `Spec => []EngineInv` |
| `LogResolvesTheorem`, `CompletedIsRecordedTheorem`, `StoppedIsFinalTheorem` | `Spec => []P` for the invariants of `engine` |
| `ReachInvariance`, `ShutdownReachesRunsTheorem` | `Spec => []ReachInv`, and from it `Spec => []ShutdownReachesRuns` |

`EngineInv` follows each driver from stage to stage: after which stage its heap
and its filesystem are in the stores, its entry has a number, and its entry is in
the log (`Progress`); what its record may say at that stage (`Filed`); who holds
the lifecycle lock (`LockOK`); that ids are below the generator's next one, so
that the latest entry of a session exists (`LogOK`, `LatestIn`); and that nothing
counts as running once shutdown has begun (`Quiet`). The stores only grow, which
carries the part of every other run through a step; one lemma per action does
the rest.

That shutdown reaches every isolate needs to know more of a run whose blocking
task is not over (`ReachInv`): its driver waits for it and a publisher was started
for it; a publisher that has filed the handle left it with a running record, or
terminated the isolate of a cancelled one; a publisher that gave up had its reason;
and a timer that found an isolate terminated it. So when `cancel_all` turns the
last running records into cancelled ones, each isolate has its handle taken and is
terminated, or has a publisher that will find the record cancelled. The invariant
is proved on top of `EngineInv`, one lemma per kind of step.

### Only model-checked

- Liveness (`EveryReceiptSettles`, `DueSlotsDecided`, `ReceiptsSettle`,
  `RunsSettle`, `AnswersCome`): fairness and ENABLED are beyond the prover.
- `ScheduledExecution` with its parts. Its invariants need an inductive invariant
  over the register's open proposals, four kinds of messages, handlers at every
  await and the receipts of all incarnations; that has not been written. The
  core's transitions it uses are those of `SchedulerState`, whose lemmas are
  proved.
- The parts of `MCServer`. Several compute with recursive operators (paths,
  resolvers, folds over chains), which the prover's backends do not see through;
  the others are small protocols for which the instances are close to general.

## 5. Disagreements between documents and the code

`exec_expiry` checks what `scheduler-runner/src/main.rs:217` says: "Cleanup
remains available after grant expiry. Every owner retries durable cancellation
intent". TLC finds a behaviour in which it does not. An occurrence is uncertain;
the operator cancels it; the swap commits, but the wait for it is too long. The
management command returns an error and leaves the owner in place, invalid,
with a view from before the swap, in which the receipt is not Cancelling. Then
the grant expires. Every later pulse finds an owner of the current term, sees no
cancellation in its view, and returns at line 228, before `observe` would fail
and drop the owner. As long as the term lasts the cancellation is never sent.
Before the expiry the same situation heals at the next pulse, which is what
`exec_live` shows.

`engine_queued` checks what `server/src/mcp.rs:203` says of a cancelled task,
"the underlying V8 execution stays bounded by the engine's execution timeout",
and `run_js_tool_description.md:13` of `execution_timeout_secs`. In heap mode one
V8 runs at a time. If the timer of a run fires while its task still waits for the
V8 mutex, there is no isolate to terminate; the driver then waits for the task,
which gets the mutex and runs the script with no timer left. A script that does
not end keeps the mutex and its permit. `RunsBounded` excuses scripts that await an
op, and nothing else; `RunsSettle`, which `engine` checks, excuses this case too.

**Observed while modelling, without a run.**

- `run_js_tool_description.md:36` offers `next_line_offset` to resume reading
  while a script runs. A window may end inside a line, whose rest is then
  skipped, and an empty window answers with line 1, which starts over
  (`engine/execution.rs`, the line window). `collectOutput`
  (`clients/typescript/src/index.ts:185`) also joins pages without the newline
  between them. Line windows resume exactly once the script has stopped
  (`LinesResume`).
- `site-docs/how-to/async-execution.md:51-68` and `mcp.rs:563` offer byte windows
  without saying that they may cut a character: `execution.rs:327` decodes each
  slice by itself, so both windows then have a replacement character and the
  character is lost. The windows are adjacent all the same (`BytesResume`).
- `engine/mod.rs:3018` says of shutdown "Stop background work owned by the engine
  (executions + MCP clients)". A cancelled run that waits for a permit or for V8
  still starts its script afterwards, and is terminated once its handle is
  published; a run whose script had returned is still stored and logged. What
  holds is `ShutdownReachesRuns`. An isolate whose publisher has given up is not
  reached at all: the publisher looks for the handle for at most 300 seconds
  (`engine/mod.rs:2804`, `2934`), so a run with a longer timeout that waited longer
  than that for V8 can be neither cancelled nor shut down.
- A timeout of zero is accepted everywhere (`api.rs:443`, `engine/ffi.rs:754`,
  `mcp_dispatch.rs:115`, `engine/mod.rs:2717`). It may fire before the isolate
  exists, with or without heaps, and the script then has no timeout.
- Terminating an isolate does not wake an op it awaits (`engine/net_tcp.rs:32`,
  `timers.rs:157`, `hooks.rs:424`): a script that awaits one goes on past its timeout,
  and after a cancel, and keeps its permit and, with heaps, the V8 mutex until the
  op completes (`engine/mod.rs:953-974`).
- `engine/mcp_client.rs:363` says that shutdown will "close every live upstream
  connection". A probe or a call that is reconnecting at that moment puts its new
  connection in place afterwards (`engine/mcp_client.rs:203-210`), and nothing closes it.
- `SubprocessConfig::with_timeout` is used by an example only; the server
  (`bootstrap.rs:280`) configures no timeout for child processes. Since the whole
  input is written before any output is read (`engine/subprocess.rs:498`), a child
  that answers more than a pipe holds while it is given more than a pipe holds
  waits for ever, and so does the operation; the synchronous one keeps its isolate.
- `engine/mod.rs` recognises a timeout by `e.contains("timed out")`: a script
  whose own error has these words is recorded as timed out.
- A comment in `execute_stateful` says "Do NOT early-return here", and failures of
  `inject_*` do return early; the model has both paths.
- `ModulePolicyInput.specifier` is documented as the specifier, and holds the
  resolved URL; `specifier_type` "relative" is never produced.
- `main.rs` says `--metadata-only requires --cluster-port (enforced at parse
  time)`: clap counts only arguments and environment as present, so a config file
  with `metadata_only` and no `cluster_port` gets past it, and `--metadata-only`
  with the port in the file is refused.
- The sandbox plan grants the file named by `--wasm-config` and not the modules
  named inside it.
- `ffi.rs` says an embedded engine must fail rather than lose persistence; a label
  store that another engine holds only disables filesystem snapshots.
- The head that a rejected `fs_push` reports was read before the swap, and may
  equal the expected one.

## 6. Not modelled

Of the Raft cluster, voters that join and leave (nodes without fixed voters, see
section 2).

Left out for good: cron and timezone arithmetic, hashing, content-defined
chunking, compression, encodings and cryptography (pure library code); V8,
deno_core, Rego and the operating system's sandbox, which are external; the
parsing and wording of single values; schemas, generated stubs, bindings and
documentation generators.

Of the JavaScript compatibility layers the ones above host operations with state
are modelled. Not modelled: HTTP agent and server, streams, event targets,
message ports and structured clone, cluster, diagnostics channels, datagrams and
fetch bodies. They are libraries inside one isolate and do not meet the rest of
the server.

Next would be: a proof about `ScheduledExecution` (`OwnerViewCurrent` first, from
the order in which one leader's entries commit), and the refinement of the
register of `ReplicatedScheduler` by the log that `Raft` implements.

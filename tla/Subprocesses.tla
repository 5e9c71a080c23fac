---------------------------- MODULE Subprocesses ----------------------------
(***************************************************************************)
(* Processes a guest starts: the three ops of engine/subprocess.rs, each a *)
(* task with hooks, an executor and a timeout around a process of the host *)
(* (external), and the child objects of node:child_process above them,     *)
(* whose events the guest's event loop delivers.  What hooks decide is     *)
(* module HookStack's: here they allow or not, and a stack may run the     *)
(* executor again.                                                         *)
(*                                                                         *)
(* A process copies its input to its output through pipes of PipeCap       *)
(* units.  A forked child is two processes, a helper and the target it     *)
(* forks; the helper's output is the records it prints.                    *)
(***************************************************************************)
EXTENDS Naturals, Sequences, FiniteSets, TLC

CONSTANTS Children,
          PipeCap,    \* units a pipe holds
          MaxRuns,    \* bound: runs of the executor in a stack
          None

VARIABLES subSite,    \* [timeout, stack, post, plan]; plan: child -> [kind, input, late]
          task,       \* child -> the op's task: [at, left, got, runs, out]
          process,    \* child -> [st, inp, eof, held, pipe, wrote]
          target,     \* child -> [st, linked, told]: the target of a fork
          object,     \* child -> the JS object: [started, connected, settled, events, due]
          control,    \* children whose control file exists
          blocked,    \* the child whose synchronous op the isolate waits in
          guest       \* FALSE once the execution is over
subVars == <<subSite, task, process, target, object, control, blocked, guest>>

Kind(c) == subSite.plan[c].kind
Sets(c, changes) == task' = [task EXCEPT ![c] = changes @@ @]
Emits(c, events) == object' = [object EXCEPT ![c].events = @ \o events]
Loop == guest /\ blocked = None

(* Tasks are polled on the isolate's own runtime, except the one it waits   *)
(* for, which has a thread of its own.                                      *)
Polled(c) == guest /\ blocked \in {None, c}

(* Dropping a Child kills it (kill_on_drop). *)
Dropped(c) == process' = [process EXCEPT ![c].st = IF @ = "running" THEN "exited" ELSE @]

(* The task ends: its op resolves, or its thread is joined. *)
Resolve(c, result) ==
  /\ Sets(c, [at |-> "done", out |-> result])
  /\ Dropped(c)
  /\ blocked' = IF blocked = c THEN None ELSE blocked
  /\ UNCHANGED <<subSite, target, object, control, guest>>

-----------------------------------------------------------------------------
(* The guest starts a child. *)

Begin(c, input) == Sets(c, [at |-> "pre", left |-> input])

(* Deno.Command.output; child_process.exec, a shell without input. *)
Output(c) ==
  /\ Loop /\ Kind(c) = "output" /\ task[c].at = "idle"
  /\ Begin(c, subSite.plan[c].input)
  /\ UNCHANGED <<subSite, process, target, object, control, blocked, guest>>

Exec(c) ==
  /\ Loop /\ Kind(c) = "exec" /\ task[c].at = "idle"
  /\ Begin(c, 0)
  /\ UNCHANGED <<subSite, process, target, object, control, blocked, guest>>

(* outputSync, spawnSync: the isolate joins the task's thread. *)
OutputSync(c) ==
  /\ Loop /\ Kind(c) = "sync" /\ task[c].at = "idle"
  /\ Begin(c, subSite.plan[c].input)
  /\ blocked' = c
  /\ UNCHANGED <<subSite, process, target, object, control, guest>>

(* spawn: the object starts its command at the first stdin.end, or in the   *)
(* microtask after its construction; later input goes nowhere.              *)
SpawnStart(c) ==
  /\ Loop /\ Kind(c) = "spawn" /\ ~object[c].started
  /\ object' = [object EXCEPT ![c].started = TRUE]
  /\ Begin(c, IF subSite.plan[c].late THEN 0 ELSE subSite.plan[c].input)
  /\ UNCHANGED <<subSite, process, target, control, blocked, guest>>

(* fork: send starts the helper, once. *)
Send(c) ==
  /\ Loop /\ Kind(c) = "fork" /\ object[c].connected /\ ~object[c].started
  /\ object' = [object EXCEPT ![c].started = TRUE]
  /\ Begin(c, 0)
  /\ UNCHANGED <<subSite, process, target, control, blocked, guest>>

(* disconnect: a second command writes the control file, if its own hooks   *)
(* and process let it; it may come after the helper has gone.               *)
Disconnect(c) ==
  /\ Loop /\ Kind(c) = "fork" /\ object[c].connected /\ subSite.plan[c].late
  /\ object' = [object EXCEPT ![c].connected = FALSE, ![c].events = Append(@, "disconnect"),
                              ![c].signal = object[c].started /\ ~object[c].settled]
  /\ UNCHANGED <<subSite, task, process, target, control, blocked, guest>>

SignalWritten(c) ==
  /\ object[c].signal /\ Loop
  /\ \/ control' = control \cup {c} /\ object' = [object EXCEPT ![c].signal = FALSE]
     \/ /\ object' = [object EXCEPT ![c].signal = FALSE, ![c].events = Append(@, "error")]
        /\ UNCHANGED control
  /\ UNCHANGED <<subSite, task, process, target, blocked, guest>>

-----------------------------------------------------------------------------
(* The task: run_pre_hooks, the executor, run_post_hooks; run_stack_mode.   *)

RunPreHooks(c) ==
  /\ Polled(c) /\ task[c].at = "pre" /\ ~subSite.stack
  /\ \/ Sets(c, [at |-> "exec"]) /\ UNCHANGED <<subSite, process, target, object, control, blocked, guest>>
     \/ Resolve(c, "denied")

RunStackMode(c) ==
  /\ Polled(c) /\ task[c].at = "pre" /\ subSite.stack
  /\ \/ Sets(c, [at |-> "exec"]) /\ UNCHANGED <<subSite, process, target, object, control, blocked, guest>>
     \/ \E r \in {"denied", "synthetic"} : Resolve(c, r)

(* execute_subprocess_effective: spawn, with a pipe for stdin if there is   *)
(* input.                                                                   *)
Execute(c) ==
  /\ Polled(c) /\ task[c].at = "exec"
  /\ \/ /\ process' = [process EXCEPT ![c] = [st |-> "running", inp |-> 0, eof |-> task[c].left = 0, held |-> 0, pipe |-> 0, wrote |-> 0]]
        /\ Sets(c, [at |-> IF task[c].left = 0 THEN "collect" ELSE "feed", got |-> 0, runs |-> task[c].runs + 1])
        /\ target' = IF Kind(c) = "fork" THEN [target EXCEPT ![c] = [st |-> "running", linked |-> TRUE, told |-> FALSE]] ELSE target
        /\ UNCHANGED <<subSite, object, control, blocked, guest>>
     \/ Resolve(c, "cannot execute")

(* write_all of the whole input before anything is read. *)
WriteStdin(c) ==
  /\ Polled(c) /\ task[c].at = "feed"
  /\ \/ /\ process[c].st = "running" /\ process[c].inp < PipeCap
        /\ process' = [process EXCEPT ![c].inp = @ + 1, ![c].eof = task[c].left = 1]
        /\ Sets(c, [left |-> task[c].left - 1, at |-> IF task[c].left = 1 THEN "collect" ELSE "feed"])
        /\ UNCHANGED <<subSite, target, object, control, blocked, guest>>
     \/ process[c].st = "exited" /\ Resolve(c, "stdin failed")

(* wait_with_output. *)
WaitWithOutput(c) ==
  /\ Polled(c) /\ task[c].at = "collect"
  /\ \/ /\ process[c].pipe > 0
        /\ process' = [process EXCEPT ![c].pipe = @ - 1]
        /\ Sets(c, [got |-> task[c].got + 1])
     \/ /\ process[c].pipe = 0 /\ process[c].st = "exited"
        /\ Sets(c, [at |-> "post"])
        /\ UNCHANGED process
  /\ UNCHANGED <<subSite, target, object, control, blocked, guest>>

(* A layer of a stack may call next again. *)
RunPostHooks(c) ==
  /\ Polled(c) /\ task[c].at = "post"
  /\ \/ Resolve(c, "output")
     \/ subSite.post /\ ~subSite.stack /\ Resolve(c, "withheld")
     \/ /\ subSite.stack /\ task[c].runs < MaxRuns
        /\ Sets(c, [at |-> "exec"])
        /\ UNCHANGED <<subSite, process, target, object, control, blocked, guest>>

AwaitWithTimeout(c) ==
  /\ Polled(c) /\ subSite.timeout /\ task[c].at \notin {"idle", "done"}
  /\ Resolve(c, "timed out")

-----------------------------------------------------------------------------
(* The host's processes (external). *)

ProcessStep(c) ==
  /\ process[c].st = "running" /\ Kind(c) # "fork"
  /\ \/ process[c].held = 0 /\ process[c].inp > 0 /\ process' = [process EXCEPT ![c].inp = @ - 1, ![c].held = 1]
     \/ /\ process[c].held = 1 /\ process[c].pipe < PipeCap
        /\ process' = [process EXCEPT ![c].held = 0, ![c].pipe = @ + 1, ![c].wrote = @ + 1]
     \/ process[c].eof /\ process[c].inp = 0 /\ process[c].held = 0 /\ process' = [process EXCEPT ![c].st = "exited"]
  /\ UNCHANGED <<subSite, task, target, object, control, blocked, guest>>

ProcessAborts(c) ==
  /\ process[c].st = "running" /\ Kind(c) # "fork" /\ process' = [process EXCEPT ![c].st = "exited"]
  /\ UNCHANGED <<subSite, task, target, object, control, blocked, guest>>

(* The helper of a fork: it records the first message and then disconnects, *)
(* disconnects when the control file appears, and ends by recording the     *)
(* target's exit.                                                           *)
HelperMessage(c) ==
  /\ process[c].st = "running" /\ target[c].st = "running" /\ target[c].linked /\ ~target[c].told
  /\ target' = [target EXCEPT ![c].told = TRUE, ![c].linked = FALSE]
  /\ UNCHANGED <<subSite, task, process, object, control, blocked, guest>>

HelperControl(c) ==
  /\ process[c].st = "running" /\ c \in control
  /\ control' = control \ {c}
  /\ target' = [target EXCEPT ![c].linked = FALSE]
  /\ UNCHANGED <<subSite, task, process, object, blocked, guest>>

(* The target exits by itself or by the helper's kill timer. *)
TargetExits(c) ==
  /\ target[c].st = "running"
  /\ target' = [target EXCEPT ![c].st = "exited"]
  /\ IF process[c].st = "running"
     THEN control' = control \ {c} /\ process' = [process EXCEPT ![c].st = "exited"]
     ELSE UNCHANGED <<control, process>>
  /\ UNCHANGED <<subSite, task, object, blocked, guest>>

-----------------------------------------------------------------------------
(* The promise of output() settles: the object's handlers, and the timer    *)
(* for the last events.                                                     *)

Rejected(c) == task[c].out \notin {"output", "synthetic"}

SpawnSettles(c) ==
  /\ Loop /\ Kind(c) = "spawn" /\ task[c].at = "done" /\ ~object[c].settled
  /\ object' = [object EXCEPT ![c].settled = TRUE, ![c].events = Append(@, "end"),
                  ![c].due = IF Rejected(c) THEN <<"error", "close">> ELSE <<"exit", "close">>]
  /\ UNCHANGED <<subSite, task, process, target, control, blocked, guest>>

ForkSettles(c) ==
  /\ Loop /\ Kind(c) = "fork" /\ task[c].at = "done" /\ ~object[c].settled
  /\ object' = [object EXCEPT ![c].settled = TRUE,
                  ![c].connected = IF Rejected(c) THEN FALSE ELSE @,
                  ![c].events = IF Rejected(c) THEN Append(@, "error") ELSE IF target[c].told THEN Append(@, "message") ELSE @,
                  ![c].due = IF Rejected(c) THEN <<"exit -1", "close">> ELSE <<"exit", "close">>]
  /\ UNCHANGED <<subSite, task, process, target, control, blocked, guest>>

LastEvents(c) ==
  /\ Loop /\ object[c].due # <<>>
  /\ object' = [object EXCEPT ![c].events = @ \o object[c].due, ![c].due = <<>>, ![c].connected = FALSE]
  /\ UNCHANGED <<subSite, task, process, target, control, blocked, guest>>

(* The execution ends, or is cut off: its runtime is dropped with every     *)
(* task on it.                                                              *)
Unfinished(c) == task[c].at \notin {"idle", "done", "dropped"}

GuestEnds ==
  /\ Loop /\ guest' = FALSE
  /\ task' = [c \in Children |-> IF Unfinished(c) THEN [task[c] EXCEPT !.at = "dropped"] ELSE task[c]]
  /\ process' = [c \in Children |-> IF process[c].st = "running" THEN [process[c] EXCEPT !.st = "exited"] ELSE process[c]]
  /\ UNCHANGED <<subSite, target, object, control, blocked>>

SubStart(site) ==
  /\ subSite = site
  /\ task = [c \in Children |-> [at |-> "idle", left |-> 0, got |-> 0, runs |-> 0, out |-> "none"]]
  /\ process = [c \in Children |-> [st |-> "none", inp |-> 0, eof |-> FALSE, held |-> 0, pipe |-> 0, wrote |-> 0]]
  /\ target = [c \in Children |-> [st |-> "none", linked |-> FALSE, told |-> FALSE]]
  /\ object = [c \in Children |-> [started |-> FALSE, connected |-> TRUE, settled |-> FALSE, signal |-> FALSE,
                                   events |-> <<>>, due |-> <<>>]]
  /\ control = {} /\ blocked = None /\ guest = TRUE

TaskStep(c) ==
  \/ RunPreHooks(c) \/ RunStackMode(c) \/ Execute(c) \/ WriteStdin(c) \/ WaitWithOutput(c)
  \/ RunPostHooks(c) \/ AwaitWithTimeout(c)
ObjectStep(c) == SpawnSettles(c) \/ ForkSettles(c) \/ LastEvents(c)

SubNext ==
  \/ \E c \in Children :
       \/ Output(c) \/ Exec(c) \/ OutputSync(c) \/ SpawnStart(c) \/ Send(c) \/ Disconnect(c) \/ SignalWritten(c)
       \/ TaskStep(c) \/ ProcessStep(c) \/ ProcessAborts(c)
       \/ HelperMessage(c) \/ HelperControl(c) \/ TargetExits(c) \/ ObjectStep(c)
  \/ GuestEnds

-----------------------------------------------------------------------------
Count(c, e) == Cardinality({i \in DOMAIN object[c].events : object[c].events[i] = e})

(* A process runs only while the task that started it awaits it, whatever   *)
(* ends the task first: a timeout, a failed write, the end of the guest;    *)
(* and a refused operation started none (kill_on_drop, run_pre_hooks).      *)
ProcessesOwned ==
  \A c \in Children :
    /\ process[c].st = "running" => task[c].at \in {"feed", "collect"}
    /\ task[c].out \in {"denied", "cannot execute"} /\ ~subSite.stack => task[c].runs = 0

(* What an output holds is all its last process wrote; a child object ends  *)
(* with one 'close', nothing after it, and says 'exit' without an error     *)
(* only when the process, and for a fork the target, is over                *)
(* (wait_with_output; SpawnedChildProcess and ChildProcess).                *)
ChildrenTold ==
  \A c \in Children :
    /\ task[c].out = "output" => task[c].got = process[c].wrote
    /\ \A e \in {"close", "exit", "exit -1", "end", "message", "disconnect"} : Count(c, e) <= 1
    /\ Count(c, "close") = 1 => \A i \in DOMAIN object[c].events :
         object[c].events[i] = "close" => \A j \in (i + 1)..Len(object[c].events) : object[c].events[j] = "error"
    /\ Count(c, "exit") = 1 /\ task[c].out = "output" =>
         process[c].st = "exited" /\ target[c].st # "running"

(* The task still writes the input, the process cannot read it before some  *)
(* of its output is taken, and nothing is read before the input is written. *)
Deadlocked(c) ==
  /\ task[c].at = "feed" /\ process[c].st = "running"
  /\ process[c].inp = PipeCap /\ process[c].held = 1 /\ process[c].pipe = PipeCap

(* An op is owed its answer: with a timeout always, and without one unless  *)
(* it, or the synchronous op the isolate is blocked in, waits for its       *)
(* process over full pipes (execute_subprocess_effective).                  *)
Unsettled(c) ==
  /\ Unfinished(c)
  /\ subSite.timeout \/ ~\E d \in Children : Deadlocked(d) /\ (d = c \/ d = blocked)
=============================================================================

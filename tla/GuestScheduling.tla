--------------------------- MODULE GuestScheduling ---------------------------
(***************************************************************************)
(* What a guest program schedules on its own thread: timers (timers.rs),   *)
(* the nextTick queue (process.js), and the async context that             *)
(* AsyncLocalStorage carries from the scheduling of a callback to its run  *)
(* (async_hooks.js).  Microtasks, op promises and their hooks are the      *)
(* engine's.  A step is one call of the program, or one turn of the loop   *)
(* between two callbacks.                                                  *)
(***************************************************************************)
EXTENDS Integers, Sequences, FiniteSets, FiniteSetsExt

CONSTANTS
    Timers,        \* timer ids
    Values,        \* what an AsyncLocalStorage may hold
    NestingLimit,  \* timers nested deeper sleep at least the clamp (5)
    MaxOps,        \* bound on the calls of the program
    None           \* no store: the default value

VARIABLES
    timers,   \* the timer records and the ops behind them
    ticks,    \* the nextTick queue
    micro,    \* microtasks to run
    stack,    \* frames of what runs, outermost first
    context,  \* currentContext: the value of the storage
    program   \* calls made, nesting level, captured contexts, what was seen

schedulingVars == <<timers, ticks, micro, stack, context, program>>

SchedulingStart ==
    /\ timers = [t \in Timers |-> [kind |-> None, cancelled |-> FALSE, refed |-> FALSE, nesting |-> 0,
                                   sleep |-> "none", held |-> FALSE, delay |-> 0, active |-> FALSE,
                                   bound |-> None, reaction |-> None, fired |-> 0]]
    /\ ticks = [queue |-> <<>>, scheduled |-> FALSE, deferrals |-> 0, made |-> 0, order |-> <<>>]
    /\ micro = <<>>
    /\ stack = <<[kind |-> "main", previous |-> None, of |-> None]>>
    /\ context = None
    /\ program = [calls |-> 0, nesting |-> 0, captured |-> {}, root |-> None, hooks |-> FALSE,
                  leaked |-> FALSE, strayed |-> FALSE, over |-> FALSE]

Top == stack[Len(stack)]
Inside(kinds) == stack # <<>> /\ Top.kind \in kinds
Popped == SubSeq(stack, 1, Len(stack) - 1)
Pushed(kind, of) == Append(stack, [kind |-> kind, previous |-> context, of |-> of])

\* The program runs: no turn of the loop interrupts it.
Running == ~program.over /\ stack # <<>> /\ Top.kind # "drain"
Idle == ~program.over /\ stack = <<>>
Calls == Running /\ program.calls < MaxOps
Called == program' = [program EXCEPT !.calls = @ + 1]

-----------------------------------------------------------------------------
(* Timers *)

\* Levels past the limit are alike.
Deeper(level) == Min({level + 1, NestingLimit + 1})

\* run(delay) inside scheduleTimer: a new op, unref'd with the timer.
\* The reaction on its promise keeps the context in which it is made.
Asleep(timer, reaction) ==
    [timer EXCEPT !.sleep = "asleep", !.held = timer.refed, !.reaction = reaction,
                  !.delay = IF timer.nesting > NestingLimit THEN 4 ELSE 0]

\* What a callback is wrapped with: the context to put back around its run.
bindToCurrentContext == context

wrapScheduler(timer) == [timer EXCEPT !.bound = bindToCurrentContext]

scheduleTimer(timer, kind) ==
    Asleep([timer EXCEPT !.kind = kind, !.refed = TRUE, !.nesting = Deeper(program.nesting),
                         !.active = TRUE], context)

\* setTimeout, setInterval and setImmediate: one id space.
SetTimer(t, kind) ==
    /\ Calls /\ timers[t].kind = None
    /\ \A u \in Timers : u < t => timers[u].kind # None
    /\ timers' = [timers EXCEPT ![t] = scheduleTimer(wrapScheduler(@), kind)]
    /\ Called
    /\ UNCHANGED <<ticks, micro, stack, context>>

\* A fault: a cleared timer goes on holding the loop.
FaultyclearTimer(t) ==
    /\ Calls /\ timers[t].active
    /\ timers' = [timers EXCEPT ![t].cancelled = TRUE, ![t].active = FALSE]
    /\ Called
    /\ UNCHANGED <<ticks, micro, stack, context>>

\* The sleep goes on, but no longer holds the loop.
clearTimer(t) ==
    /\ Calls /\ timers[t].active
    /\ timers' = [timers EXCEPT ![t].cancelled = TRUE, ![t].held = FALSE, ![t].active = FALSE]
    /\ Called
    /\ UNCHANGED <<ticks, micro, stack, context>>

unref(t) ==
    /\ Calls /\ timers[t].kind # None
    /\ timers' = [timers EXCEPT ![t].refed = FALSE, ![t].held = FALSE]
    /\ Called
    /\ UNCHANGED <<ticks, micro, stack, context>>

ref(t) ==
    /\ Calls /\ timers[t].kind # None /\ ~timers[t].cancelled
    /\ timers' = [timers EXCEPT ![t].refed = TRUE, ![t].held = timers[t].sleep = "asleep"]
    /\ Called
    /\ UNCHANGED <<ticks, micro, stack, context>>

\* op_timer_sleep is over: the reaction on its promise is due.
op_timer_sleep(t) ==
    /\ Idle /\ timers[t].sleep = "asleep"
    /\ \A m \in 1..Len(micro) : micro[m].kind = "timer"
    /\ timers' = [timers EXCEPT ![t].sleep = "woken", ![t].held = FALSE]
    /\ micro' = Append(micro, [kind |-> "timer", of |-> t, given |-> timers[t].reaction])
    /\ UNCHANGED <<ticks, stack, context, program>>

\* The reaction: nothing for a timer cleared meanwhile, else its handler.
TimerFires(m) ==
    LET t == m.of IN
    IF timers[t].cancelled
    THEN /\ timers' = [timers EXCEPT ![t].sleep = "none"]
         /\ UNCHANGED <<stack, context, program>>
    ELSE /\ timers' = [timers EXCEPT ![t].sleep = "none", ![t].fired = Min({@ + 1, 2}),
                                     ![t].active = timers[t].kind # "immediate"]
         /\ stack' = <<[kind |-> "promise", previous |-> context, of |-> program.nesting],
                       [kind |-> "timer", previous |-> m.given, of |-> t]>>
         /\ context' = timers[t].bound
         /\ program' = [program EXCEPT !.nesting = timers[t].nesting]

\* The handler is over: an interval that was not cleared sleeps again.
TimerReturns ==
    LET t     == Top.of
        again == timers[t].kind = "interval" /\ ~timers[t].cancelled
    IN  /\ ~program.over /\ Inside({"timer"})
        /\ timers' = [timers EXCEPT ![t] =
              IF again THEN Asleep([@ EXCEPT !.nesting = Deeper(@)], Top.previous) ELSE [@ EXCEPT !.active = FALSE]]
        /\ context' = stack[1].previous
        /\ program' = [program EXCEPT !.nesting = stack[1].of]
        /\ stack' = <<>>
        /\ UNCHANGED <<ticks, micro>>

-----------------------------------------------------------------------------
(* nextTick *)

scheduleNextTickDrain(queue, tasks) ==
    IF ticks.scheduled \/ queue = <<>> THEN tasks
    ELSE Append(tasks, [kind |-> "drain", of |-> None, given |-> context])

\* A fault: the callback of a tick is queued unbound.
FaultywrapNextTick == [n |-> ticks.made + 1, bound |-> None, given |-> context]

wrapNextTick == [n |-> ticks.made + 1, bound |-> bindToCurrentContext, given |-> context]

nextTick ==
    LET queue == Append(ticks.queue, wrapNextTick)
    IN  /\ Calls
        /\ ticks' = [ticks EXCEPT !.queue = queue, !.made = @ + 1, !.scheduled = TRUE]
        /\ micro' = scheduleNextTickDrain(queue, micro)
        /\ Called
        /\ UNCHANGED <<timers, stack, context>>

deferNextTickDrain ==
    /\ Calls /\ ticks.deferrals = 0
    /\ ticks' = [ticks EXCEPT !.deferrals = @ + 1]
    /\ Called
    /\ UNCHANGED <<timers, micro, stack, context>>

\* The closure deferNextTickDrain returns, whose second call does nothing.
Release ==
    /\ Running /\ ticks.deferrals > 0
    /\ \A m \in 1..Len(micro) : micro[m].kind # "release"
    /\ micro' = Append(micro, [kind |-> "release", of |-> None, given |-> context])
    /\ UNCHANGED <<timers, ticks, stack, context, program>>

\* The drain microtask: off the schedule first, and nothing while deferred.
DrainStarts(m) ==
    /\ ticks' = [ticks EXCEPT !.scheduled = FALSE]
    /\ IF ticks.deferrals > 0
       THEN UNCHANGED <<stack, context>>
       ELSE stack' = Pushed("drain", None) /\ context' = m.given

DrainTakes ==
    LET tick == Head(ticks.queue) IN
    /\ ~program.over /\ Inside({"drain"}) /\ ticks.queue # <<>>
    /\ ticks' = [ticks EXCEPT !.queue = Tail(@), !.order = Append(@, tick.n)]
    /\ stack' = Pushed("tick", None)
    /\ context' = tick.bound
    /\ program' = [program EXCEPT !.strayed = @ \/ (tick.bound # tick.given /\ ~program.leaked)]
    /\ UNCHANGED <<timers, micro>>

DrainEnds ==
    /\ ~program.over /\ Inside({"drain"}) /\ ticks.queue = <<>>
    /\ stack' = Popped /\ context' = Top.previous
    /\ UNCHANGED <<timers, ticks, micro, program>>

-----------------------------------------------------------------------------
(* Async context *)

\* A promise made here reacts in this context; so does queueMicrotask.
React(kind) ==
    /\ Calls
    /\ micro' = Append(micro, [kind |-> kind, of |-> None, given |-> context])
    /\ Called
    /\ UNCHANGED <<timers, ticks, stack, context>>

\* A callback runs inside another context, and finally puts this one back.
Within(kind, c) ==
    /\ Calls
    /\ stack' = Pushed(kind, None)
    /\ context' = c
    /\ Called
    /\ UNCHANGED <<timers, ticks, micro>>

runStore(v) == Within("run", v)

exit == Within("run", None)

\* The context for the rest of the callback.
enterWith(v) ==
    /\ Calls
    /\ context' = v
    /\ Called
    /\ UNCHANGED <<timers, ticks, micro, stack>>

disable == enterWith(None)

\* new AsyncResource and AsyncLocalStorage.snapshot keep the bindings.
Capture ==
    /\ Calls
    /\ program' = [program EXCEPT !.calls = @ + 1, !.captured = @ \cup {context}]
    /\ UNCHANGED <<timers, ticks, micro, stack, context>>

snapshot(c) ==
    /\ c \in program.captured
    /\ Within("run", c)

enable ==
    /\ Calls /\ ~program.hooks
    /\ program' = [program EXCEPT !.calls = @ + 1, !.hooks = TRUE]
    /\ UNCHANGED <<timers, ticks, micro, stack, context>>

\* A 'before' hook that throws does so outside the try: the context stays.
runInAsyncScope(c) ==
    /\ c \in program.captured
    /\ \/ Within("scope", c)
       \/ /\ Calls /\ program.hooks
          /\ context' = c
          /\ program' = [program EXCEPT !.calls = @ + 1, !.leaked = TRUE]
          /\ UNCHANGED <<timers, ticks, micro, stack>>

\* The end of a frame, by return or by throw; an 'after' hook that throws skips
\* the reset of the scope's context.
FrameReturns ==
    /\ ~program.over /\ Inside({"run", "scope", "tick", "promise", "microtask", "main"})
    /\ stack' = Popped
    /\ \/ /\ context' = IF Top.kind = "main" THEN context ELSE Top.previous
          /\ program' = IF Top.kind = "main" THEN [program EXCEPT !.root = context] ELSE program
       \/ /\ Top.kind = "scope" /\ program.hooks
          /\ program' = [program EXCEPT !.leaked = TRUE]
          /\ UNCHANGED context
    /\ UNCHANGED <<timers, ticks, micro>>

-----------------------------------------------------------------------------
(* The loop *)

\* Microtasks in order: a bound callback or a promise's before and after hooks
\* set the context and put the previous one back.
RunMicrotask ==
    LET m == Head(micro) IN
    /\ Idle /\ micro # <<>>
    /\ CASE m.kind = "timer" ->
                TimerFires(m) /\ UNCHANGED ticks /\ micro' = Tail(micro)
         [] m.kind = "drain" ->
                DrainStarts(m) /\ UNCHANGED <<timers, program>> /\ micro' = Tail(micro)
         [] m.kind = "release" ->
                /\ ticks' = [ticks EXCEPT !.deferrals = @ - 1, !.scheduled = @ \/ ticks.queue # <<>>]
                /\ micro' = scheduleNextTickDrain(ticks.queue, Tail(micro))
                /\ UNCHANGED <<timers, stack, context, program>>
         [] OTHER ->
                /\ stack' = Pushed(m.kind, None) /\ context' = m.given
                /\ micro' = Tail(micro)
                /\ UNCHANGED <<timers, ticks, program>>

\* run_event_loop returns when nothing it waits for is left; an unref'd sleep is
\* dropped with the runtime.
LoopEnds ==
    /\ Idle /\ micro = <<>>
    /\ \A t \in Timers : ~timers[t].held
    /\ program' = [program EXCEPT !.over = TRUE]
    /\ UNCHANGED <<timers, ticks, micro, stack, context>>

\* An uncaught error, here of a timer's handler or of a tick, fails the run.
Uncaught ==
    /\ ~program.over /\ Inside({"main", "timer", "tick", "promise", "microtask"})
    /\ program' = [program EXCEPT !.over = TRUE]
    /\ UNCHANGED <<timers, ticks, micro, stack, context>>

ProgramStep ==
    \/ \E t \in Timers : \/ \E kind \in {"timeout", "interval", "immediate"} : SetTimer(t, kind)
                         \/ clearTimer(t) \/ unref(t) \/ ref(t)
    \/ nextTick \/ deferNextTickDrain
    \/ \E kind \in {"promise", "microtask"} : React(kind)
    \/ \E v \in Values : runStore(v) \/ enterWith(v)
    \/ \E c \in program.captured : snapshot(c) \/ runInAsyncScope(c)
    \/ exit \/ disable \/ Capture \/ enable

Turn == TimerReturns \/ DrainTakes \/ DrainEnds \/ FrameReturns \/ RunMicrotask \/ LoopEnds

SchedulingNext == ProgramStep \/ Release \/ Turn \/ Uncaught \/ \E t \in Timers : op_timer_sleep(t)

-----------------------------------------------------------------------------
(* Properties *)

\* The async context never strays: between two callbacks it is the one the main
\* module left, and a callback of nextTick starts in the one it was scheduled in,
\* whatever run(), enterWith() and snapshots did in between, unless an async hook
\* threw (bindToCurrentContext, the promise hooks and AsyncLocalStorage).
ContextKept ==
    /\ ~program.strayed
    /\ (stack = <<>> /\ ~program.leaked) => context = program.root

\* A timer holds the loop exactly while it sleeps, neither cleared nor unref'd; it
\* is listed as active until it has fired or is cleared; a timeout fires once; and
\* the nesting level is the innermost handler's, so that only chains are clamped
\* (scheduleTimer, clearTimer, ref and unref of timers.rs).
TimersExact ==
    /\ \A t \in Timers :
          LET running == \E i \in 1..Len(stack) : stack[i].kind = "timer" /\ stack[i].of = t
          IN  /\ timers[t].held <=> (timers[t].sleep = "asleep" /\ timers[t].refed /\ ~timers[t].cancelled)
              /\ timers[t].kind # "interval" => timers[t].fired <= 1
              /\ (~program.over /\ ~running) => (timers[t].active <=> (timers[t].sleep # "none" /\ ~timers[t].cancelled))
    /\ program.nesting = (IF \E i \in 1..Len(stack) : stack[i].kind = "timer"
                          THEN timers[stack[2].of].nesting
                          ELSE 0)

\* nextTick callbacks run in the order of the calls, each once, and a tick waiting
\* with no drain deferred always has a drain on its way (scheduleNextTickDrain).
TicksInOrder ==
    /\ \A i \in 1..Len(ticks.order) : ticks.order[i] = i
    /\ (ticks.queue # <<>> /\ ticks.deferrals = 0 /\ ~program.over) =>
           \/ \E i \in 1..Len(micro) : micro[i].kind = "drain"
           \/ \E i \in 1..Len(stack) : stack[i].kind = "drain"

\* A timer is asleep in a run that goes on: it is owed its wake-up.
Unsettled(t) == timers[t].sleep = "asleep" /\ ~program.over
==============================================================================

----------------------------- MODULE IsolateRuns -----------------------------
(***************************************************************************)
(* What happens inside one blocking task of the engine: an isolate is      *)
(* built (from the session's heap when there is one), its handle is        *)
(* published, the globals are injected one by one, the sandbox is          *)
(* hardened, the user's module is evaluated, and a stateful isolate ends   *)
(* in a snapshot.  Next to the task run the caller, who may terminate the  *)
(* isolate through the handle, V8's heap-limit callback, and the sweeper   *)
(* that frees array buffers from a thread of its own.                      *)
(*                                                                         *)
(* A script's effects are left out except its buffers, its process.exit()  *)
(* and how its module ends; V8, deno_core and the WebAssembly validator    *)
(* are external.                                                           *)
(***************************************************************************)
EXTENDS Naturals, Sequences, FiniteSets, SequencesExt, BagsExt

CONSTANTS
  None,           \* no heap, no answer
  MinHeap,        \* MIN_HEAP_MEMORY_MB, in units of memory
  BufferSizes,    \* the sizes of the array buffers a script makes
  MaxBuffers,     \* how many a run makes
  MaxIsolates     \* how many runs the session has

VARIABLES
  site,           \* the configuration every run of the session gets
  heap,           \* the session's heap: [globals, linked] its isolate had been set up with
  iso,            \* the run: the isolate, its handle, its flags and its answer
  allocated,      \* BoundedAllocatorState.allocated of the run's isolate
  buffers,        \* [live, main, sweeper]: buffers held, being made, being freed
  ran             \* how many runs have been started

isoVars == <<site, heap, iso, allocated, buffers, ran>>

(* ExecutionConfig: caps are the capabilities that are configured, asked    *)
(* the heap limit asked for, wasm the modules to inject and wasmMax their   *)
(* default budget, exits whether process.exit() ends the run.               *)
Capabilities == {"fetch", "subprocess", "fs", "mcp", "artifact", "websocket", "http2", "net"}
ExecutionConfig(stateful, caps, asked, wasm, wasmMax, hardened, exits) ==
  [stateful |-> stateful, caps |-> caps, asked |-> asked, wasm |-> wasm, wasmMax |-> wasmMax,
   hardened |-> hardened, exits |-> exits]

(* create_params_with_heap_limit: the smallest heap V8 can start with. *)
HeapLimit == Max({site.asked, MinHeap})

-----------------------------------------------------------------------------
(* Set-up: the scripts in the order in which they run, those of a           *)
(* capability only when it is configured.  A stateful isolate registers the *)
(* ops of the loopback sockets and injects no wrapper for them.             *)
InjectStateless ==
  <<"console", "ops", "base64", "web", "fetch", "subprocess", "fs", "mcp", "artifact", "timers",
    "compat", "url", "encoding", "crypto", "extras", "websocket", "http2", "net", "harden">>
InjectStateful == SelectSeq(InjectStateless, LAMBDA g : g # "net")
SetUp ==
  SelectSeq(IF site.stateful THEN InjectStateful ELSE InjectStateless,
            LAMBDA g : g \in site.caps \/ g \notin Capabilities)

(* What a wrapper finds in place when its script runs. *)
Needs(global) ==
  CASE global = "compat" -> {"timers"}
    [] global = "extras" -> {"compat", "encoding"}
    [] global = "websocket" -> {"compat", "web"}
    [] OTHER -> {}

(* The extensions the isolate is created with: the ops its wrappers call. *)
Extensions == site.caps \cup {"console", "timers", "url", "encoding", "crypto", "compression", "urlpattern"}

(* harden_runtime: nothing when no mitigation is on. *)
Hardened(globals) == IF site.hardened THEN globals \cup {"frozen"} ELSE globals

(* A WebAssembly module fits when no memory or table it declares or imports *)
(* is larger than its budget (its own, or the default).                     *)
Budget(m) == IF m.budget = None THEN site.wasmMax ELSE m.budget
validate_wasm_resources(m) ==
  \A declared \in m.memories \cup m.tables \cup m.imports : declared <= Budget(m)
wasm_has_imports(m) == m.imports # {}

(* What the nth module leaves on the global object. *)
WasmGlobals(n) ==
  {<<"module", n>>} \cup IF wasm_has_imports(site.wasm[n]) THEN {} ELSE {<<"exports", n>>}

-----------------------------------------------------------------------------
Fresh(at) ==
  [at |-> at, todo |-> <<>>, wasm |-> 0, globals |-> {}, linked |-> {}, restored |-> FALSE, alive |-> FALSE,
   handle |-> FALSE, guard |-> FALSE, pinned |-> FALSE, oom |-> FALSE, stop |-> FALSE,
   cancelled |-> FALSE, exit |-> FALSE, completed |-> FALSE, panicked |-> FALSE,
   result |-> None, answer |-> None]

NoBuffers == [live |-> EmptyBag, main |-> None, sweeper |-> 0, made |-> 0]

IsolateStart(config) ==
  /\ site = config
  /\ heap = None
  /\ iso = Fresh("idle")
  /\ allocated = 0
  /\ buffers = NoBuffers
  /\ ran = 0

(* The task starts: parameters, a fresh allocator, the extensions, the       *)
(* loader and the isolate.  The bytes of the heap are leaked to V8 for as    *)
(* long as the isolate lives.  The current-thread runtime can fail to be     *)
(* built: the task returns with the bytes still leaked.                      *)
Build ==
  /\ iso.at \in {"idle", "done"}
  /\ ran < MaxIsolates
  /\ ran' = ran + 1
  /\ allocated' = 0
  /\ buffers' = NoBuffers
  /\ \E built \in BOOLEAN :
       iso' = [Fresh(IF built THEN "built" ELSE "over") EXCEPT
                 !.alive = built, !.restored = site.stateful /\ heap # None,
                 !.pinned = site.stateful /\ heap # None,
                 !.globals = IF site.stateful /\ heap # None THEN heap.globals ELSE {},
                 !.linked = IF site.stateful /\ heap # None THEN heap.linked ELSE {},
                 !.result = IF built THEN None ELSE "error"]
  /\ UNCHANGED <<site, heap>>

(* The handle is published and the heap-limit callback installed.  A        *)
(* restored isolate has its globals already.                                *)
Publish ==
  /\ iso.at = "built"
  /\ iso' = [iso EXCEPT !.handle = TRUE, !.guard = TRUE,
               !.at = IF iso.restored THEN "module" ELSE "wasm",
               !.todo = IF iso.restored THEN <<>> ELSE SetUp]
  /\ UNCHANGED <<site, heap, allocated, buffers, ran>>

(* inject_wasm_modules, one module at a time; the first that is refused      *)
(* ends the evaluation, and what was injected before it stays.               *)
InjectWasm ==
  /\ iso.at = "wasm"
  /\ LET n == iso.wasm + 1
         m == site.wasm[n]
         Refused == [iso EXCEPT !.at = "flush", !.result = "error"]
     IN iso' = IF n > Len(site.wasm) THEN [iso EXCEPT !.at = "inject"]
               ELSE IF ~m.valid \/ ~validate_wasm_resources(m) THEN Refused
               ELSE IF ~wasm_has_imports(m) /\ (iso.stop \/ m.traps)
                 THEN [Refused EXCEPT !.linked = @ \cup {<<"module", n>>}]
               ELSE [iso EXCEPT !.wasm = n, !.linked = @ \cup WasmGlobals(n)]
  /\ UNCHANGED <<site, heap, allocated, buffers, ran>>

(* The next script of the set-up.  One that is terminated returns from the   *)
(* task at once: no flush, no snapshot, and the handle stays published.      *)
Inject ==
  /\ iso.at = "inject"
  /\ LET g == Head(iso.todo)
     IN iso' = IF iso.stop /\ (g # "harden" \/ site.hardened)
                 THEN [iso EXCEPT !.at = "over", !.result = "error", !.alive = FALSE, !.guard = FALSE]
               ELSE [iso EXCEPT !.todo = Tail(@),
                       !.at = IF Tail(iso.todo) = <<>> THEN "module" ELSE "inject",
                       !.globals = IF g = "harden" THEN Hardened(@) ELSE @ \cup {g}]
  /\ UNCHANGED <<site, heap, allocated, buffers, ran>>

(* execute_module: the module is loaded and evaluated, and the event loop    *)
(* runs until nothing is left to wait for.                                   *)
EvaluateModule ==
  /\ iso.at = "module"
  /\ iso' = [iso EXCEPT !.at = IF iso.stop THEN "flush" ELSE "running",
                        !.result = IF iso.stop THEN "error" ELSE None]
  /\ UNCHANGED <<site, heap, allocated, buffers, ran>>

(* The module's structured result: absent, a string, or refused. *)
StructuredResult(value) ==
  CASE value = "undefined" -> "ok" [] value = "string" -> "ok"
    [] value \in {"object", "long"} -> "error"

(* compile_source: the text compiles as CommonJS or as a module, as asked    *)
(* for, or V8 refuses it.                                                    *)
compile_source == {TRUE, FALSE}

(* The event loop is done: the module failed, or a stateless run compiles    *)
(* the module its configuration adds and reads the namespace.                *)
ModuleEnds ==
  /\ iso.at = "running"
  /\ buffers.main = None
  /\ buffers.sweeper = 0
  /\ \/ iso' = [iso EXCEPT !.at = "flush", !.result = "error"]
     \/ /\ ~iso.stop
        /\ \E value \in {"undefined", "string", "object", "long"}, compiles \in compile_source :
             iso' = [iso EXCEPT !.at = "flush", !.completed = TRUE,
                       !.result = IF site.stateful \/ compiles THEN StructuredResult(value) ELSE "error"]
  /\ UNCHANGED <<site, heap, allocated, buffers, ran>>

(* op_process_exit: recorded, and the isolate terminates itself. *)
ProcessExit ==
  /\ iso.at = "running"
  /\ site.exits
  /\ ~iso.exit
  /\ iso' = [iso EXCEPT !.exit = TRUE, !.stop = TRUE]
  /\ UNCHANGED <<site, heap, allocated, buffers, ran>>

(* The rest of the console output is flushed and the handle withdrawn; a     *)
(* stateless isolate is dropped with the task's locals, guard first.         *)
Flush ==
  /\ iso.at = "flush"
  /\ iso' = [iso EXCEPT !.handle = FALSE, !.at = IF site.stateful THEN "snapshot" ELSE "over",
                        !.alive = site.stateful, !.guard = site.stateful]
  /\ UNCHANGED <<site, heap, allocated, buffers, ran>>

(* The isolate is consumed by its snapshot, whatever came of the module;     *)
(* then the bytes it was started from are reclaimed.                         *)
Snapshot ==
  /\ iso.at = "snapshot"
  /\ iso' = [iso EXCEPT !.at = "over", !.alive = FALSE, !.guard = FALSE, !.pinned = FALSE]
  /\ UNCHANGED <<site, heap, allocated, buffers, ran>>

(* classify_termination_error: memory first.  The caller's own timeout is    *)
(* never told to it.                                                         *)
Classify(result) == IF iso.oom THEN "oom" ELSE result

(* The task returns.  The caller stores the snapshot of a run that succeeded *)
(* as the session's heap.                                                    *)
Answer ==
  /\ iso.at = "over"
  /\ iso' = [iso EXCEPT !.at = "done", !.answer = IF iso.result = "ok" THEN "ok" ELSE Classify(iso.result)]
  /\ heap' = IF site.stateful /\ iso.result = "ok" THEN [globals |-> iso.globals, linked |-> iso.linked] ELSE heap
  /\ UNCHANGED <<site, allocated, buffers, ran>>

(* A panic of deno_core or V8 unwinds the task up to catch_unwind: locals    *)
(* are dropped, the handle withdrawn, the leaked bytes lost.                 *)
Panic ==
  /\ iso.at \in {"wasm", "inject", "module", "running", "snapshot"}
  /\ buffers.main = None
  /\ buffers.sweeper = 0
  /\ iso' = [iso EXCEPT !.at = "over", !.result = "panicked", !.panicked = TRUE, !.alive = FALSE,
                        !.guard = FALSE, !.handle = FALSE]
  /\ UNCHANGED <<site, heap, allocated, buffers, ran>>

-----------------------------------------------------------------------------
(* The caller terminates the isolate through the handle, on a timeout or a   *)
(* cancellation; the handle of an isolate that is gone does nothing.         *)
Terminate ==
  /\ iso.handle
  /\ ~iso.cancelled
  /\ iso' = [iso EXCEPT !.cancelled = TRUE, !.stop = @ \/ iso.alive]
  /\ UNCHANGED <<site, heap, allocated, buffers, ran>>

(* V8 is close to its limit: wherever it allocates once the callback is in   *)
(* place, the snapshot's own pass included.                                  *)
Allocates == iso.alive /\ iso.at \in {"wasm", "inject", "module", "running", "snapshot"}
NearHeapLimit ==
  /\ Allocates
  /\ ~iso.oom
  /\ iso' = [iso EXCEPT !.oom = TRUE, !.stop = TRUE]
  /\ UNCHANGED <<site, heap, allocated, buffers, ran>>

(* bounded_allocate: space is reserved first, and given back when there was  *)
(* too little of it or the system had none.                                  *)
Reserve(len) ==
  /\ iso.at = "running"
  /\ buffers.main = None
  /\ buffers.made < MaxBuffers
  /\ IF len = 0
       THEN UNCHANGED <<allocated, buffers>>
       ELSE /\ allocated' = allocated + len
            /\ buffers' = [buffers EXCEPT !.main = [prev |-> allocated, len |-> len], !.made = @ + 1]
  /\ UNCHANGED <<site, heap, iso, ran>>

Settle ==
  /\ buffers.main # None
  /\ \/ /\ allocated' = allocated - buffers.main.len
        /\ buffers' = [buffers EXCEPT !.main = None]
     \/ /\ buffers.main.prev + buffers.main.len <= HeapLimit
        /\ buffers' = [buffers EXCEPT !.main = None, !.live = @ (+) SetToBag({buffers.main.len})]
        /\ UNCHANGED allocated
  /\ UNCHANGED <<site, heap, iso, ran>>

(* bounded_free, on the sweeper: the memory goes first, then its share. *)
Release(len) ==
  /\ iso.at = "running"
  /\ buffers.sweeper = 0
  /\ BagIn(len, buffers.live)
  /\ buffers' = [buffers EXCEPT !.live = @ (-) SetToBag({len}), !.sweeper = len]
  /\ UNCHANGED <<site, heap, iso, allocated, ran>>

Deduct ==
  /\ buffers.sweeper # 0
  /\ allocated' = allocated - buffers.sweeper
  /\ buffers' = [buffers EXCEPT !.sweeper = 0]
  /\ UNCHANGED <<site, heap, iso, ran>>

IsolateNext ==
  \/ Build \/ Publish \/ InjectWasm \/ Inject \/ EvaluateModule \/ ModuleEnds \/ ProcessExit
  \/ Flush \/ Snapshot \/ Answer \/ Panic \/ Terminate \/ NearHeapLimit \/ Settle \/ Deduct
  \/ \E len \in BufferSizes : Reserve(len) \/ Release(len)

-----------------------------------------------------------------------------
Wanted == ToSet(SetUp) \ {"harden"}
Whole(x) ==
  /\ x.globals = Hardened(Wanted)
  /\ x.linked = UNION {WasmGlobals(n) : n \in DOMAIN site.wasm}

(* User code meets the sandbox whole: every wrapper that is configured, every *)
(* WebAssembly module and the hardening are in place before the module is     *)
(* evaluated, in a restored isolate as in a fresh one; so a heap is kept only *)
(* of a run that got that far (a run whose set-up failed is snapshotted too,  *)
(* and thrown away).  No wrapper is injected before what it builds on.        *)
SandboxWhole ==
  /\ iso.at \in {"module", "running"} => Whole(iso)
  /\ heap # None => Whole(heap)
  /\ \A g \in Wanted \cap iso.globals : Needs(g) \subseteq iso.globals

(* The answer is what happened: success is a module that ran to its end, an   *)
(* exit or a termination before that never passes for one, and "out of        *)
(* memory" is said of every failed run that met the limit and of no other.    *)
IsolateTold ==
  iso.at = "done" =>
    /\ iso.answer = "ok" => iso.completed /\ ~iso.exit
    /\ iso.answer = "oom" <=> iso.oom /\ iso.answer # "ok"
    /\ iso.answer = "panicked" => iso.panicked

(* Memory: the buffers a script holds never exceed the limit, although they   *)
(* are counted by one thread and given back by another; the callback's data   *)
(* outlives every allocation of the isolate; a heap's bytes stay while an     *)
(* isolate may read them, and are lost only by a panic or a runtime that      *)
(* could not be built; a published handle is withdrawn unless the set-up was  *)
(* cut short.                                                                 *)
Held(bag) == SumBag(bag)
IsolateHeld ==
  /\ Held(buffers.live) <= HeapLimit
  /\ allocated = Held(buffers.live) + buffers.sweeper + (IF buffers.main = None THEN 0 ELSE buffers.main.len)
  /\ Allocates => iso.guard
  /\ iso.restored /\ iso.alive => iso.pinned
  /\ iso.at = "done" => /\ iso.pinned => iso.panicked \/ (iso.result = "error" /\ ~iso.handle)
                        /\ iso.handle => iso.todo # <<>>
=============================================================================

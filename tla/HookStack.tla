----------------------------- MODULE HookStack -----------------------------
(***************************************************************************)
(* Hooks and policies around a gated operation (hooks.rs, opa.rs and the   *)
(* call sites in fetch.rs, fs.rs, websocket.rs, http2.rs, run_js_file.rs,  *)
(* subprocess.rs, mcp_client.rs, module_loader.rs).  A chain runs pre      *)
(* hooks, then the policy, then the executor, then post hooks; a layered   *)
(* stack wraps the executor in layers, of which JavaScript layers call     *)
(* next() as often as they like through one serialized worker per file.    *)
(* Operations run concurrently over the same chain.                        *)
(*                                                                         *)
(* An operation's input is [op, target, derived, cred]: the discriminator, *)
(* what it reaches for, the fields computed from that, and an injected     *)
(* credential.                                                             *)
(***************************************************************************)
EXTENDS Naturals, Sequences, SequencesExt, FiniteSets, TLC

CONSTANTS HookOps,        \* operations in flight
          Targets,        \* targets a hook may rewrite to
          BadTarget,      \* the target that does not parse
          CredHost,       \* the host the header rules match
          Approves,       \* seq over policy sources: the targets each approves
          MaxNexts,       \* bound: next() calls per layer call
          None

VARIABLES chain,     \* what the start-up configuration was built into
          run,       \* operation -> where it stands
          queue,     \* layer -> calls its worker has to serve, first one running
          doomed,    \* layer -> terminate_execution was called and not yet cleared
          effects    \* executor calls, oldest first

hookVars == <<chain, run, queue, doomed, effects>>

-----------------------------------------------------------------------------
(* Start-up: a configuration is built into a chain or refused. *)

MutatesInput(op) == op \in {"fetch", "filesystem", "run_js_file", "mcp_tools", "subprocess"}
FullMode(op) == op \in {"fetch", "subprocess", "mcp_tools"}
Has(s, k) == k \in {s[i].kind : i \in DOMAIN s}
Count(s, k) == Cardinality({i \in DOMAIN s : s[i].kind = k})
Layer(k) == [kind |-> k, file |-> None]
Repeats(s) ==
  \E i, j \in DOMAIN s : i # j /\ s[i].file # None /\ s[i].file = s[j].file

(* Why build_stack_chain refuses a stack. *)
BadStack(c) ==
  LET ends == {i \in DOMAIN c.stack : c.stack[i].kind \in {"@execute", "virtual"}}
  IN \/ ends # {Len(c.stack)}
     \/ Has(c.stack, "virtual") /\ ~FullMode(c.op)
     \/ Repeats(c.stack)
     \/ Count(c.stack, "@policy") > (IF c.policies THEN 1 ELSE 0)
     \/ Count(c.stack, "@inject") > (IF c.op = "fetch" THEN 1 ELSE 0)
     \/ Has(c.stack, "unknown")

BadConfig(c) ==
  \/ c.post # <<>> /\ ~FullMode(c.op)
  \/ c.stack # <<>> /\ (c.pre # <<>> \/ c.post # <<>> \/ BadStack(c))

(* The policy goes last, before a virtual executor, unless the stack places it. *)
StackLayers(c) ==
  LET body == SelectSeq(c.stack, LAMBDA e : e.kind # "@execute")
      at == IF body # <<>> /\ Last(body).kind = "virtual" THEN Len(body) ELSE Len(body) + 1
  IN IF c.policies /\ ~Has(body, "@policy") THEN InsertAt(body, at, Layer("@policy")) ELSE body

PreLayers(c) == c.pre \o (IF c.policies THEN <<Layer("@policy")>> ELSE <<>>)

(* Header rules: in a chain right before the policy; in a stack the         *)
(* reserved slot, else before the policy, else at the end.                  *)
WithHeaderRules(c, layers) ==
  LET filled == Layer("inject")
      at == IF Has(layers, "@policy")
            THEN CHOOSE i \in DOMAIN layers : layers[i].kind = "@policy" ELSE Len(layers) + 1
  IN IF ~c.rules THEN layers
     ELSE IF Has(layers, "@inject")
          THEN [i \in DOMAIN layers |-> IF layers[i].kind = "@inject" THEN filled ELSE layers[i]]
          ELSE InsertAt(layers, at, filled)

BuildChain(c) ==
  [op |-> c.op, tag |-> c.tag, policies |-> c.policies, all |-> c.all, post |-> c.post,
   mode |-> IF c.stack = <<>> THEN "chain" ELSE IF FullMode(c.op) THEN "full" ELSE "gate",
   layers |-> WithHeaderRules(c, IF c.stack = <<>> THEN PreLayers(c) ELSE StackLayers(c))]

-----------------------------------------------------------------------------
Input(op, t) == [op |-> op, target |-> t, derived |-> t, cred |-> FALSE]

(* What a hook or a layer may put in place of the input. *)
Rewrites == [op : {chain.tag, "other"}, target : Targets, derived : Targets, cred : {FALSE}]

(* A fault: a rewritten input keeps the derived fields of the old one. *)
FaultyNormalize(i) == i

(* Derived fields are computed anew after every rewrite (normalize). *)
Normalize(i) == [i EXCEPT !.derived = i.target]
Normal(i) == i.target # BadTarget

(* verify_operation: an input without the field never passes. *)
VerifyOperation(i) == i.op = chain.tag /\ i.op # None

(* One policy source's answers: its decision, or no decision at all.  A     *)
(* request lost in transport is made once more; a decision is final.        *)
SourceAnswers(s, i) == {IF i.target \in Approves[s] THEN "allow" ELSE "deny", "error"}

(* PolicyChain::evaluate: the first source that decides the mode decides. *)
Verdict(answers) ==
  LET neutral == IF chain.all THEN "allow" ELSE "deny"
      deciding == {k \in DOMAIN answers : answers[k] # neutral}
  IN IF deciding = {} THEN neutral
     ELSE answers[CHOOSE k \in deciding : \A m \in deciding : k <= m]

Verdicts(i) ==
  {Verdict(a) : a \in {f \in [DOMAIN Approves -> {"allow", "deny", "error"}] :
                         \A s \in DOMAIN Approves : f[s] \in SourceAnswers(s, i)}}

At(o, place) == run[o].at = place
To(o, st) == run' = [run EXCEPT ![o] = st @@ @]
Answer(o, a) == To(o, [at |-> "done", answer |-> a])
Here(o) == chain.layers[run[o].idx]
Top(o) == Last(run[o].frames)
Down(o, kind) == At(o, "down") /\ run[o].idx \in DOMAIN chain.layers /\ Here(o).kind = kind
Fails(o) == To(o, [at |-> "up", result |-> "error"])

(* A gate passes its possibly new input down.  In a stack the operation is  *)
(* verified at every rewrite; a chain leaves that to the call site.         *)
PassOn(o, i) ==
  IF i = run[o].input THEN To(o, [idx |-> run[o].idx + 1])
  ELSE IF ~Normal(i) THEN Fails(o)
  ELSE IF chain.mode # "chain" /\ ~VerifyOperation(i) THEN Fails(o)
  ELSE To(o, [idx |-> run[o].idx + 1, input |-> Normalize(i)])

Begin(o) ==
  /\ At(o, "idle")
  /\ To(o, [at |-> "down", idx |-> 1])
  /\ UNCHANGED <<chain, queue, doomed, effects>>

(* "@inject" without header rules. *)
PassSlot(o) ==
  /\ Down(o, "@inject")
  /\ To(o, [idx |-> run[o].idx + 1])
  /\ UNCHANGED <<chain, queue, doomed, effects>>

(* A Rego, remote or (in a chain) JavaScript hook: a replacement counts     *)
(* only where the operation can honour one.                                 *)
GateHook(o) ==
  /\ Down(o, "gate")
  /\ \/ PassOn(o, run[o].input)                           \* it abstains or allows
     \/ To(o, [at |-> "up", result |-> "denied"])
     \/ Fails(o)
     \/ \E r \in Rewrites : IF MutatesInput(chain.op) THEN PassOn(o, r) ELSE Fails(o)
  /\ UNCHANGED <<chain, queue, doomed, effects>>

PolicyHook(o) ==
  /\ Down(o, "@policy")
  /\ \E v \in Verdicts(run[o].input) :
       CASE v = "allow" -> To(o, [idx |-> run[o].idx + 1, approved |-> run[o].approved \cup {run[o].input}])
         [] v = "deny"  -> To(o, [at |-> "up", result |-> "denied"])
         [] v = "error" -> Fails(o)
  /\ UNCHANGED <<chain, queue, doomed, effects>>

(* FetchHeaderInject looks at the derived host; acquiring a token may fail. *)
RuleMatches(i) == i.derived = CredHost

ApplyHeaderRules(i) == IF RuleMatches(i) THEN [i EXCEPT !.cred = TRUE] ELSE i

InjectHook(o) ==
  /\ Down(o, "inject")
  /\ \/ PassOn(o, ApplyHeaderRules(run[o].input))
     \/ RuleMatches(run[o].input) /\ Fails(o)
  /\ UNCHANGED <<chain, queue, doomed, effects>>

(* A virtual executor returns a document, something else, or fails. *)
VirtualExecutor(o) ==
  /\ Down(o, "virtual")
  /\ \E r \in {"output", "error"} : To(o, [at |-> "up", result |-> r])
  /\ UNCHANGED <<chain, queue, doomed, effects>>

(* begin_layer_call: the call joins the worker's queue. *)
CallLayer(o) ==
  /\ Down(o, "js")
  /\ queue' = [queue EXCEPT ![run[o].idx] = Append(@, o)]
  /\ To(o, [at |-> "layer", frames |-> Append(run[o].frames, [layer |-> run[o].idx, nexts |-> 0])])
  /\ UNCHANGED <<chain, doomed, effects>>

Running(o) ==
  At(o, "layer") /\ queue[Top(o).layer] # <<>> /\ Head(queue[Top(o).layer]) = o

(* next(input): normalized and verified, then the layers below run while    *)
(* the driver of this layer, its deadline included, waits.                  *)
LayerNext(o) ==
  /\ Running(o) /\ ~doomed[Top(o).layer] /\ Top(o).nexts < MaxNexts
  /\ \E i \in Rewrites \cup {run[o].input} :
       LET counted == [run[o].frames EXCEPT ![Len(run[o].frames)].nexts = @ + 1]
       IN IF Normal(i) /\ VerifyOperation(i)
          THEN To(o, [at |-> "down", idx |-> Top(o).layer + 1, input |-> Normalize(i), frames |-> counted])
          ELSE To(o, [frames |-> counted])
  /\ UNCHANGED <<chain, queue, doomed, effects>>

(* The layer returns next's null, a document, or throws; a failed call      *)
(* clears a pending termination.                                            *)
LayerReturn(o) ==
  /\ Running(o)
  /\ \E r \in IF doomed[Top(o).layer] THEN {"error"} ELSE {"null", "output", "error"} :
       /\ To(o, [at |-> "up", result |-> r, frames |-> Front(run[o].frames)])
       /\ doomed' = IF r = "error" THEN [doomed EXCEPT ![Top(o).layer] = FALSE] ELSE doomed
  /\ queue' = [queue EXCEPT ![Top(o).layer] = Tail(@)]
  /\ UNCHANGED <<chain, effects>>

(* The deadline of a layer call, queueing included: whatever script the     *)
(* worker runs is terminated, the call itself is left behind.               *)
LayerTimeout(o) ==
  /\ At(o, "layer")
  /\ doomed' = [doomed EXCEPT ![Top(o).layer] = TRUE]
  /\ To(o, [at |-> "up", result |-> "error", frames |-> Front(run[o].frames)])
  /\ UNCHANGED <<chain, queue, effects>>

(* The worker comes to, or finishes, a call nobody waits for. *)
ServeOrphan(l) ==
  /\ queue[l] # <<>>
  /\ ~\E k \in DOMAIN run[Head(queue[l])].frames : run[Head(queue[l])].frames[k].layer = l
  /\ queue' = [queue EXCEPT ![l] = Tail(@)]
  /\ doomed' \in {doomed, [doomed EXCEPT ![l] = FALSE]}
  /\ UNCHANGED <<chain, run, effects>>

Effect(o, i) == Append(effects, [by |-> o, input |-> i])

Innermost(o, mode) == At(o, "down") /\ run[o].idx \notin DOMAIN chain.layers /\ chain.mode = mode

(* Innermost, a full stack executes ... *)
ExecuteLayer(o) ==
  /\ Innermost(o, "full")
  /\ \E r \in {"output", "error"} : To(o, [at |-> "up", result |-> r])
  /\ effects' = Effect(o, run[o].input)
  /\ UNCHANGED <<chain, queue, doomed>>

(* ... a gate captures the input, once, for the call site to run on ... *)
Capture(o) ==
  /\ Innermost(o, "gate")
  /\ To(o, IF run[o].captured = None
           THEN [at |-> "up", result |-> "null", captured |-> run[o].input]
           ELSE [at |-> "up", result |-> "error"])
  /\ UNCHANGED <<chain, queue, doomed, effects>>

(* ... and a chain ends at the call site, which verifies the operation. *)
ChainEnds(o) ==
  /\ Innermost(o, "chain")
  /\ IF MutatesInput(chain.op) /\ ~VerifyOperation(run[o].input) THEN Fails(o)
     ELSE To(o, [at |-> "execute", captured |-> run[o].input])
  /\ UNCHANGED <<chain, queue, doomed, effects>>

(* A result reaches the layer that asked for it, or the caller. *)
Up(o) ==
  /\ At(o, "up")
  /\ IF run[o].frames # <<>> THEN To(o, [at |-> "layer"])
     ELSE CASE run[o].result = "denied" -> Answer(o, "denied")
            [] run[o].result = "error" -> Answer(o, "failed")
            [] chain.mode = "full" -> Answer(o, IF run[o].result = "output" THEN "ok" ELSE "failed")
            [] OTHER ->
                 IF run[o].result # "null" \/ run[o].captured = None
                      \/ (~MutatesInput(chain.op) /\ run[o].captured # Input(chain.tag, run[o].asked))
                 THEN Answer(o, "failed") ELSE To(o, [at |-> "execute"])
  /\ UNCHANGED <<chain, queue, doomed, effects>>

(* The operation runs on the effective input; then the post hooks. *)
Execute(o) ==
  /\ At(o, "execute")
  /\ effects' = Effect(o, run[o].captured)
  /\ \/ To(o, [at |-> "post", idx |-> 1])
     \/ Answer(o, "failed")
  /\ UNCHANGED <<chain, queue, doomed>>

PostHook(o) ==
  /\ At(o, "post")
  /\ IF run[o].idx > Len(chain.post) THEN Answer(o, "ok")
     ELSE \/ To(o, [idx |-> run[o].idx + 1])
          \/ \E a \in {"withheld", "failed"} : Answer(o, a)
  /\ UNCHANGED <<chain, queue, doomed, effects>>

(* A start: configuration c, operation o asks for asked[o]. *)
HookStart(c, asked) ==
  /\ chain = BuildChain(c)
  /\ run = [o \in HookOps |->
              [at |-> IF BadConfig(c) THEN "refused" ELSE "idle", idx |-> 0,
               input |-> Input(c.tag, asked[o]), asked |-> asked[o], frames |-> <<>>,
               captured |-> None, approved |-> {}, result |-> "null", answer |-> "none"]]
  /\ queue = [l \in 1..Len(c.stack) + 2 |-> <<>>]
  /\ doomed = [l \in 1..Len(c.stack) + 2 |-> FALSE]
  /\ effects = <<>>

HookStep(o) ==
  \/ Begin(o) \/ PassSlot(o) \/ GateHook(o) \/ PolicyHook(o) \/ InjectHook(o)
  \/ VirtualExecutor(o) \/ CallLayer(o) \/ LayerNext(o) \/ LayerReturn(o)
  \/ LayerTimeout(o) \/ ExecuteLayer(o) \/ Capture(o) \/ ChainEnds(o) \/ Up(o) \/ Execute(o) \/ PostHook(o)

HookNext == (\E o \in HookOps : HookStep(o)) \/ (\E l \in DOMAIN queue : ServeOrphan(l))

-----------------------------------------------------------------------------
Position(k) == CHOOSE i \in DOMAIN chain.layers : chain.layers[i].kind = k
NothingRewritesAfter(k) ==
  \A i \in DOMAIN chain.layers :
    i > Position(k) => chain.layers[i].kind \notin {"gate", "js"}
Mine(o) == {k \in DOMAIN effects : effects[k].by = o}

(* What an executor runs on has been decided upon: with policies            *)
(* configured some input of the operation was approved first, and exactly   *)
(* the executed one where nothing rewrites below the policy; derived fields *)
(* are those of the target, the operation is the one asked for, an          *)
(* operation that cannot honour a rewrite sees none, and a credential goes  *)
(* only to the host of its rule (run_pre_with, call_layer, run_stack_gate,  *)
(* FetchHeaderInject).                                                      *)
GatesHold ==
  \A k \in DOMAIN effects :
    LET i == effects[k].input
        o == effects[k].by
    IN /\ i.derived = i.target /\ i.op = chain.tag
       /\ MutatesInput(chain.op) \/ i.target = run[o].asked
       /\ chain.policies =>
            run[o].approved # {} /\ (NothingRewritesAfter("@policy") => i \in run[o].approved)
       /\ i.cred /\ (\A l \in DOMAIN chain.layers : chain.layers[l].kind = "inject" =>
                       NothingRewritesAfter("inject")) => i.target = CredHost

(* A denied operation did nothing, and outside a full stack an operation    *)
(* runs at most once, whatever its layers retry, time out or leave behind   *)
(* (the capture of run_stack_gate).                                         *)
DeniedIsQuiet ==
  \A o \in HookOps :
    /\ chain.mode # "full" => Cardinality(Mine(o)) <= 1
    /\ run[o].answer = "denied" /\ chain.mode # "full" => Mine(o) = {}
    /\ run[o].at = "refused" => Mine(o) = {}

(* An operation under way is owed its answer, though a hook may hang, and a *)
(* script be terminated or left behind on the worker that others queue for. *)
Unsettled(o) == run[o].at \notin {"idle", "refused", "done"}
=============================================================================

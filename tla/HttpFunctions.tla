--------------------------- MODULE HttpFunctions ---------------------------
(***************************************************************************)
(* Dynamic HTTP functions (http_functions.rs): a registry of definitions   *)
(* changed under a revision condition by a compare-and-swap of the whole   *)
(* map, and invocations that hold one of a fixed number of slots until the *)
(* engine says the execution has stopped.  The registry is a local tree or *)
(* one key of the replicated store, served by whichever node leads; HTTP   *)
(* and MCP callers reach the same handlers (call_management).              *)
(***************************************************************************)
EXTENDS Naturals, Sequences, SequencesExt, FiniteSets, TLC

CONSTANTS FnCallers, FnNames, FnNodes,
          MaxDefinitions,   \* 32 in the code
          FnSlots,          \* 16 in the code
          None

VARIABLES fnSite,      \* [cluster, calls]: backend and what each caller asks
          commits,     \* the values of the registry key, oldest first
          lock,        \* node -> the caller holding Registry.lock, or None
          permits,     \* node -> permits left in its semaphore
          request,     \* caller -> where its request stands
          execution    \* caller -> [status, stopped] of the execution it started

fnVars == <<fnSite, commits, lock, permits, request, execution>>

Current == Last(commits)
Records(raw) == IF raw = None THEN [n \in {} |-> None] ELSE raw
(* The request of a caller; a management tool call is turned into the same  *)
(* request its HTTP counterpart makes (call_management).                    *)
Asks(c) == fnSite.calls[c]
Node(c) == Asks(c).node
Stands(c, at) == request[c].at = at
Becomes(c, st) == request' = [request EXCEPT ![c] = st @@ @]
Done(c, status) == Becomes(c, [at |-> "done", status |-> status])
Active(records, n) == n \in DOMAIN records /\ records[n].def # None

(* Requests are refused before any state is touched: an invalid name, body  *)
(* or definition (validate, valid_name, valid_export).                      *)
RefuseInvalid(c) ==
  /\ Stands(c, "start") /\ Asks(c).invalid
  /\ Done(c, 400)
  /\ UNCHANGED <<fnSite, commits, lock, permits, execution>>

(* invoke takes a permit first, and never waits for one. *)
TakeSlot(c) ==
  /\ Stands(c, "start") /\ ~Asks(c).invalid /\ Asks(c).verb = "invoke"
  /\ IF permits[Node(c)] = 0 THEN Done(c, 409) /\ UNCHANGED permits
     ELSE /\ permits' = [permits EXCEPT ![Node(c)] = @ - 1]
          /\ Becomes(c, [at |-> "lock", since |-> Len(commits)])
  /\ UNCHANGED <<fnSite, commits, lock, execution>>

BeginRegistry(c) ==
  /\ Stands(c, "start") /\ ~Asks(c).invalid /\ Asks(c).verb # "invoke"
  /\ Becomes(c, [at |-> "lock", since |-> Len(commits)])
  /\ UNCHANGED <<fnSite, commits, lock, permits, execution>>

LockRegistry(c) ==
  /\ Stands(c, "lock") /\ lock[Node(c)] = None
  /\ lock' = [lock EXCEPT ![Node(c)] = c]
  /\ Becomes(c, [at |-> "load"])
  /\ UNCHANGED <<fnSite, commits, permits, execution>>

(* A permit not yet handed to the spawned task goes back when the handler   *)
(* returns.                                                                 *)
ReleaseEarly(c) ==
  permits' = IF Asks(c).verb = "invoke" THEN [permits EXCEPT ![Node(c)] = @ + 1] ELSE permits

Unlock(c) == lock' = [lock EXCEPT ![Node(c)] = None]

(* load: a cluster commits a barrier first; a node that leads no more fails *)
(* or, having committed it earlier, reads what it had applied by then.      *)
Load(c) ==
  /\ Stands(c, "load")
  /\ \/ \E i \in (IF fnSite.cluster THEN request[c].since ELSE Len(commits))..Len(commits) :
          Becomes(c, [at |-> "decide", old |-> commits[i]])
        /\ UNCHANGED <<lock, permits>>
     \/ fnSite.cluster /\ Done(c, 503) /\ Unlock(c) /\ ReleaseEarly(c)
  /\ UNCHANGED <<fnSite, commits, execution>>

(* The preconditions of a change, in the order the code tests them. *)
Refusal(records, call) ==
  LET create == call.ifNoneMatch
      active == Active(records, call.name)
  IN CASE create /\ call.ifMatch # None -> 400
       [] ~create /\ call.ifMatch = None -> 428
       [] create /\ call.ifMatch = None /\ (active \/ call.verb = "delete") -> 412
       [] ~create /\ call.ifMatch # None
            /\ (IF active THEN records[call.name].rev # call.ifMatch ELSE TRUE) -> 412
       [] OTHER -> IF call.name \notin DOMAIN records
                        /\ Cardinality(DOMAIN records) >= MaxDefinitions THEN 409 ELSE 0

(* A revision is a fresh UUID: here, the caller and the value it replaces. *)
Changed(records, c) ==
  LET call == Asks(c)
      entry == [rev |-> <<c, Len(commits)>>, def |-> IF call.verb = "delete" THEN None ELSE call.def]
  IN [n \in DOMAIN records \cup {call.name} |-> IF n = call.name THEN entry ELSE records[n]]

Decide(c) ==
  LET records == Records(request[c].old)
      call == Asks(c)
  IN /\ Stands(c, "decide")
     /\ IF call.verb \in {"read", "invoke"}
        THEN IF fnSite.cluster THEN Becomes(c, [at |-> "cas", new |-> records]) /\ UNCHANGED <<lock, permits>>
             ELSE Becomes(c, [at |-> "found", seen |-> Len(commits)]) /\ Unlock(c) /\ UNCHANGED permits
        ELSE IF Refusal(records, call) # 0
             THEN Done(c, Refusal(records, call)) /\ Unlock(c) /\ UNCHANGED permits
             ELSE Becomes(c, [at |-> "cas", new |-> Changed(records, c)]) /\ UNCHANGED <<lock, permits>>
     /\ UNCHANGED <<fnSite, commits, execution>>

(* The swap of the whole map; through a cluster it may fail after having    *)
(* been proposed, whether or not it commits.                                *)
Swap(c) ==
  LET matches == Current = request[c].old
      reads == Asks(c).verb \in {"read", "invoke"}
  IN /\ Stands(c, "cas")
     /\ Unlock(c)
     /\ \/ /\ matches /\ commits' = Append(commits, request[c].new)
           /\ \/ /\ Becomes(c, IF reads THEN [at |-> "found", seen |-> Len(commits')] ELSE [at |-> "done", status |-> 200])
                 /\ UNCHANGED permits
              \/ fnSite.cluster /\ Done(c, 503) /\ ReleaseEarly(c)
        \/ /\ ~matches /\ UNCHANGED commits
           /\ Done(c, IF reads THEN 503 ELSE 412) /\ ReleaseEarly(c)
        \/ /\ fnSite.cluster /\ UNCHANGED commits
           /\ Done(c, 503) /\ ReleaseEarly(c)
     /\ UNCHANGED <<fnSite, execution>>

(* lookup answers what its read found. *)
Lookup(c) ==
  /\ Stands(c, "found") /\ Asks(c).verb = "read"
  /\ Done(c, IF Active(Records(request[c].old), Asks(c).name) THEN 200 ELSE 404)
  /\ UNCHANGED <<fnSite, commits, lock, permits, execution>>

(* invoke checks the definition, the method and the request, and hands its  *)
(* permit to a task of its own.                                             *)
Admit(c) ==
  LET records == Records(request[c].old)
  IN /\ Stands(c, "found") /\ Asks(c).verb = "invoke"
     /\ IF ~Active(records, Asks(c).name) THEN Done(c, 404) /\ ReleaseEarly(c)
        ELSE IF Asks(c).method \notin records[Asks(c).name].def.methods THEN Done(c, 405) /\ ReleaseEarly(c)
        ELSE \/ Becomes(c, [at |-> "submit"]) /\ UNCHANGED permits
             \/ Done(c, 413) /\ ReleaseEarly(c)      \* a URI, header or body too large, no capacity
     /\ UNCHANGED <<fnSite, commits, lock, execution>>

(* ExecutionSlot: dropped unseen, it forgets its permit for good. *)
Quarantine == UNCHANGED permits

SubmitCall(c) ==
  /\ Stands(c, "submit")
  /\ \/ /\ execution' = [execution EXCEPT ![c] = [status |-> "running", stopped |-> FALSE]]
        /\ Becomes(c, [at |-> "poll", watching |-> TRUE])
        /\ UNCHANGED permits
     \/ Done(c, 503) /\ Quarantine /\ UNCHANGED execution
  /\ UNCHANGED <<fnSite, commits, lock>>

(* The response of a completed handler is validated before it is sent. *)
Poll(c) ==
  /\ Stands(c, "poll")
  /\ CASE execution[c].status = "completed" -> \E s \in {200, 500} : Done(c, s)
       [] execution[c].status = "timed_out" -> Done(c, 504)
       [] execution[c].status \in {"failed", "cancelled"} -> Done(c, 500)
       [] OTHER -> FALSE
  /\ UNCHANGED <<fnSite, commits, lock, permits, execution>>

(* The deadline, one second past the execution's own timeout. *)
Deadline(c) ==
  /\ Stands(c, "poll") /\ execution[c].status = "running"
  /\ execution' = [execution EXCEPT ![c].status = "cancelled"]
  /\ Done(c, 504)
  /\ UNCHANGED <<fnSite, commits, lock, permits>>

(* A caller that goes away drops the handler: before the task exists this   *)
(* gives the lock and the permit back, afterwards nothing changes.          *)
Disconnect(c) ==
  /\ request[c].at \in {"lock", "load", "decide", "cas", "found"}
  /\ lock' = IF lock[Node(c)] = c THEN [lock EXCEPT ![Node(c)] = None] ELSE lock
  /\ \/ UNCHANGED commits
     \/ /\ Stands(c, "cas") /\ fnSite.cluster /\ Current = request[c].old
        /\ commits' = Append(commits, request[c].new)
  /\ ReleaseEarly(c)
  /\ Done(c, 499)
  /\ UNCHANGED <<fnSite, execution>>

(* The watcher frees the slot when the engine reports the execution stopped. *)
Watch(c) ==
  /\ request[c].watching /\ execution[c].stopped
  /\ permits' = [permits EXCEPT ![Node(c)] = @ + 1]
  /\ Becomes(c, [watching |-> FALSE])
  /\ UNCHANGED <<fnSite, commits, lock, execution>>

(* The engine (module EngineRuns): a status settles once; the execution     *)
(* stops, having settled, at its own time.                                  *)
Settles(c) ==
  /\ execution[c].status = "running"
  /\ \E s \in {"completed", "failed", "timed_out"} : execution' = [execution EXCEPT ![c].status = s]
  /\ UNCHANGED <<fnSite, commits, lock, permits, request>>

Stops(c) ==
  /\ execution[c].status \notin {"none", "running"} /\ ~execution[c].stopped
  /\ execution' = [execution EXCEPT ![c].stopped = TRUE]
  /\ UNCHANGED <<fnSite, commits, lock, permits, request>>

FnStart(site) ==
  /\ fnSite = site
  /\ commits = <<site.registry>>
  /\ lock = [n \in FnNodes |-> None]
  /\ permits = [n \in FnNodes |-> FnSlots]
  /\ request = [c \in FnCallers |-> [at |-> "start", since |-> 1, seen |-> 1, old |-> None, new |-> None,
                                     status |-> 0, watching |-> FALSE]]
  /\ execution = [c \in FnCallers |-> [status |-> "none", stopped |-> FALSE]]

FnStep(c) ==
  \/ RefuseInvalid(c) \/ TakeSlot(c) \/ BeginRegistry(c) \/ LockRegistry(c) \/ Load(c)
  \/ Decide(c) \/ Swap(c) \/ Lookup(c) \/ Admit(c) \/ SubmitCall(c) \/ Poll(c) \/ Deadline(c)
  \/ Watch(c) \/ Settles(c) \/ Stops(c)

FnNext == \E c \in FnCallers : FnStep(c) \/ Disconnect(c)

-----------------------------------------------------------------------------
Unstopped(n) == {c \in FnCallers : Node(c) = n /\ execution[c].status # "none" /\ ~execution[c].stopped}

Holding(n) ==
  {c \in FnCallers : Node(c) = n /\ Asks(c).verb = "invoke"
                       /\ request[c].at \in {"lock", "load", "decide", "cas", "found", "submit"}}

(* No permit is free while the execution it admitted may still run: client  *)
(* disconnects, timeouts, cancellations and failed submissions never let    *)
(* more than the configured number of handlers run at once, and no permit   *)
(* is given back twice (ExecutionSlot and the watcher in invoke).           *)
SlotsCoverRuns ==
  \A n \in FnNodes :
    permits[n] + Cardinality(Unstopped(n)) + Cardinality(Holding(n)) <= FnSlots

Revisions(raw) == {Records(raw)[n].rev : n \in DOMAIN Records(raw)}

(* A change answers 200 exactly if it is one of the committed values of the *)
(* registry, made on top of the revision its caller named and of the value  *)
(* before it, and one answered 4xx left no trace (Registry::change).        *)
ChangesLinear ==
  \A c \in FnCallers :
    LET mine == {i \in 2..Len(commits) :
                   \E n \in FnNames : n \in DOMAIN Records(commits[i])
                     /\ Records(commits[i])[n].rev[1] = c
                     /\ Records(commits[i])[n].rev \notin Revisions(commits[i - 1])}
        Before(i) == Records(commits[i - 1])
    IN Asks(c).verb \notin {"read", "invoke"} =>
       /\ request[c].status = 200 => Cardinality(mine) = 1
       /\ request[c].status \in {400, 409, 412, 428} => mine = {}
       /\ \A i \in mine :
            /\ \A n \in FnNames \ {Asks(c).name} :
                 n \in DOMAIN Before(i) => Records(commits[i])[n] = Before(i)[n]
            /\ IF Asks(c).ifNoneMatch THEN ~Active(Before(i), Asks(c).name)
               ELSE Active(Before(i), Asks(c).name)
                      /\ Before(i)[Asks(c).name].rev = Asks(c).ifMatch

(* An invocation goes ahead with the registry as it stands at the moment it *)
(* is admitted: a change committed by another caller or node while the read *)
(* was on its way, a deposed leader's included, is never missed             *)
(* (Registry::read: the lock on one node, the committed swap of a cluster). *)
AdmittedCurrent ==
  \A c \in FnCallers :
    request[c].at \in {"found", "submit", "poll"} =>
      Records(commits[request[c].seen]) = Records(request[c].old)

(* A request is owed its answer, and a watched execution the return of its  *)
(* permit, given that the engine settles and stops what it runs.            *)
Unsettled(c) == request[c].at \notin {"start", "done"} \/ request[c].watching
=============================================================================

----------------------------- MODULE McpFrontEnd -----------------------------
(***************************************************************************)
(* The front end of the server: which stores open at startup, which tools  *)
(* are listed for what opened, how a request is authorised against the     *)
(* published key set, from which request a service instance takes its      *)
(* session and policy headers, and how a tool call is routed and held off  *)
(* by shutdown.  Every await is a step of its own.  Tools are grouped by   *)
(* what they need; the work of a tool is in the modules of the engine.     *)
(***************************************************************************)
EXTENDS Integers, Sequences, FiniteSets, SequencesExt

CONSTANTS
    Requests,      \* identities of HTTP requests
    Publications,  \* the key sets the endpoint publishes, one after the other
    None           \* an absent value

VARIABLES
    boot,      \* configuration, how far startup is, and which stores are open
    services,  \* per service instance, the session and the headers it captured
    requests,  \* requests and how far they are
    keys,      \* published key sets so far and the cached one
    guard      \* the lifecycle lock and state

frontVars == <<boot, services, requests, keys, guard>>

\* config: heap, fs, functions, stubs, transport, verifier, preset session;
\* script: what each request carries; booted: whether startup is behind us, every
\* configured store having opened.
FrontStart(config, script, booted) ==
    /\ boot = IF ~booted
              THEN [config |-> config, stage |-> "heap", open |-> {}, failed |-> {}]
              ELSE [config |-> config, stage |-> "serving", failed |-> {},
                    open |-> {"log", "registry"} \cup (IF config.heap THEN {"heap", "tags"} ELSE {})
                                                 \cup (IF config.fs THEN {"fs"} ELSE {})]
    /\ services = [s \in {script[r].service : r \in Requests} |->
                      [session |-> config.preset, headers |-> None, from |-> None, capturing |-> {}, mixed |-> FALSE]]
    /\ requests = script
    /\ keys = [published |-> 1, cache |-> Publications[1]]
    /\ guard = [lock |-> None, state |-> "running"]

\* A request of the script: its service, kind, tool, headers and token.
Request(service, kind, tool, sid, other, kid) ==
    [service |-> service, kind |-> kind, tool |-> tool, sid |-> sid, other |-> other, kid |-> kid,
     wait |-> FALSE, tasks |-> FALSE, at |-> "new", since |-> 0, fetched |-> {}, failed |-> FALSE,
     session |-> None, headers |-> None, answer |-> None]

-----------------------------------------------------------------------------
(* Startup *)

Opened(store, next) ==
    boot' = [boot EXCEPT !.stage = next, !.open = @ \cup {store}]

Degraded(store, next) ==
    boot' = [boot EXCEPT !.stage = next, !.failed = @ \cup {store}]

Skipped(next) == boot' = [boot EXCEPT !.stage = next]

BootIdle == UNCHANGED <<services, requests, keys, guard>>

AttachHeap ==
    /\ boot.stage = "heap"
    /\ IF boot.config.heap THEN Opened("heap", "log") ELSE Skipped("log")
    /\ BootIdle

attach_session_log ==
    /\ boot.stage = "log"
    /\ IF boot.config.heap \/ boot.config.fs
       THEN Opened("log", "tags") \/ Degraded("log", "tags")
       ELSE Skipped("tags")
    /\ BootIdle

attach_heap_tags ==
    /\ boot.stage = "tags"
    /\ IF boot.config.heap
       THEN Opened("tags", "fs") \/ Degraded("tags", "fs")
       ELSE Skipped("fs")
    /\ BootIdle

attach_filesystem ==
    /\ boot.stage = "fs"
    /\ IF boot.config.fs
       THEN Opened("fs", "registry") \/ Degraded("fs", "registry")
       ELSE Skipped("registry")
    /\ BootIdle

attach_execution_registry ==
    /\ boot.stage = "registry"
    /\ Opened("registry", "serving") \/ Degraded("registry", "serving")
    /\ BootIdle

Serving == boot.stage = "serving"
heap_enabled == "heap" \in boot.open
fs_enabled == "fs" \in boot.open
session_capable == heap_enabled \/ fs_enabled

-----------------------------------------------------------------------------
(* The tool surface *)

\* The tool routers of the two services, and the tools outside them.
SessionTools == {"run_js", "artifacts", "executions", "sessions", "heap_tags", "fs_tools"}
StatelessTools == {"run_js", "artifacts"}
Tools == SessionTools \cup {"functions", "stubs"}

\* filter_tools_by_capability
Missing(tool) == (tool = "heap_tags" /\ ~heap_enabled) \/ (tool = "fs_tools" /\ ~fs_enabled)

Router == IF session_capable THEN SessionTools ELSE StatelessTools

mode_tool_list == {t \in Router : ~Missing(t)}

core_mcp_tools == mode_tool_list \cup (IF boot.config.functions THEN {"functions"} ELSE {})

mcp_tools == core_mcp_tools \cup (IF boot.config.stubs THEN {"stubs"} ELSE {})

Listed == IF boot.config.transport = "sse" THEN core_mcp_tools ELSE mcp_tools

\* The store behind a tool.
Store(tool) ==
    CASE tool \in {"run_js", "artifacts", "executions"} -> "registry"
      [] tool = "sessions" -> "log"
      [] tool = "heap_tags" -> "tags"
      [] tool = "fs_tools" -> "fs"
      [] OTHER -> None

\* dispatch_tool and the table of mcp_dispatch::call_tool.
dispatch_tool(tool) ==
    IF (session_capable \/ tool \in StatelessTools) /\ Store(tool) \in boot.open
    THEN "served"
    ELSE "error"

-----------------------------------------------------------------------------
(* Keys and authorisation *)

Goes(r, at) == requests' = [requests EXCEPT ![r].at = at]
Answers(r, answer) == requests' = [requests EXCEPT ![r].at = "done", ![r].answer = answer]

Rotate ==
    /\ Serving /\ boot.config.verifier
    /\ keys.published < Len(Publications)
    /\ keys' = [keys EXCEPT !.published = @ + 1]
    /\ UNCHANGED <<boot, services, requests, guard>>

\* The middleware is there only with a verifier; stdio has no HTTP.
Arrive(r) ==
    /\ Serving /\ requests[r].at = "new"
    /\ \A q \in Requests : (requests[q].service = requests[r].service /\ requests[q].kind = "initialize" /\ q # r)
                               => requests[q].at = "done"
    /\ requests' = [requests EXCEPT ![r].at = IF boot.config.verifier THEN "auth" ELSE "entered",
                                    ![r].since = keys.published]
    /\ UNCHANGED <<boot, services, keys, guard>>

\* Session and headers are set together, each only if still unset.
capture_mcp_headers(r, rs) ==
    LET s    == requests[r].service
        svc  == services[s]
        sid  == requests[r].sid
        some == sid # None \/ requests[r].other
        sets == sid # None /\ svc.session = None /\ (session_capable \/ boot.config.transport = "sse")
        puts == some /\ svc.headers = None
    IN  /\ services' = [services EXCEPT ![s] =
              [session |-> IF sets THEN sid ELSE svc.session, headers |-> IF puts THEN r ELSE svc.headers,
               from |-> IF sets THEN r ELSE svc.from, capturing |-> svc.capturing \ {r},
               mixed |-> svc.mixed]]
        /\ requests' = [rs EXCEPT ![r].at = IF requests[r].kind = "initialize" THEN "done" ELSE "route",
                                  ![r].answer = IF requests[r].kind = "initialize" THEN "info" ELSE None]

\* What the end of a verification leads to: the middleware refuses, while the
\* capture of headers only logs.
Verified(r, ok, rs) ==
    CASE requests[r].at \in {"auth", "authFetch", "authStore"} ->
            /\ requests' = IF ok THEN [rs EXCEPT ![r].at = "entered"]
                                 ELSE [rs EXCEPT ![r].at = "done", ![r].answer = "unauthorized"]
            /\ UNCHANGED services
      [] OTHER -> capture_mcp_headers(r, rs)

\* get_key: the cache under the read lock ...
LookUpKey(r) ==
    /\ requests[r].at \in {"auth", "verify"}
    /\ CASE requests[r].kid = None -> Verified(r, FALSE, requests)
         [] requests[r].kid \in keys.cache -> Verified(r, TRUE, requests)
         [] OTHER -> /\ Goes(r, IF requests[r].at = "auth" THEN "authFetch" ELSE "verifyFetch")
                     /\ UNCHANGED services
    /\ UNCHANGED <<boot, keys, guard>>

\* ... then the endpoint, which may not answer ...
FetchKeys(r) ==
    /\ requests[r].at \in {"authFetch", "verifyFetch"}
    /\ \/ /\ requests' = [requests EXCEPT
                ![r].at = IF requests[r].at = "authFetch" THEN "authStore" ELSE "verifyStore",
                ![r].fetched = Publications[keys.published]]
          /\ UNCHANGED services
       \/ Verified(r, FALSE, [requests EXCEPT ![r].failed = TRUE])
    /\ UNCHANGED <<boot, keys, guard>>

\* ... whose whole set replaces the cache.
StoreKeys(r) ==
    /\ requests[r].at \in {"authStore", "verifyStore"}
    /\ keys' = [keys EXCEPT !.cache = requests[r].fetched]
    /\ Verified(r, requests[r].kid \in requests[r].fetched, requests)
    /\ UNCHANGED <<boot, guard>>

-----------------------------------------------------------------------------
(* Handlers *)

\* initialize always captures; a call captures when nothing has been yet, but
\* not over SSE; there is nothing to capture from on stdio.
Captures(r) ==
    LET svc == services[requests[r].service]
    IN  /\ boot.config.transport # "stdio"
        /\ \/ requests[r].kind = "initialize"
           \/ /\ boot.config.transport = "http"
              /\ svc.headers = None
              /\ session_capable => svc.session = None

Enter(r) ==
    /\ requests[r].at = "entered"
    /\ CASE ~Captures(r) ->
                /\ requests' = [requests EXCEPT
                        ![r].at = IF requests[r].kind = "initialize" THEN "done" ELSE "route",
                        ![r].answer = IF requests[r].kind = "initialize" THEN "info" ELSE None]
                /\ UNCHANGED services
         [] Captures(r) /\ boot.config.verifier ->
                /\ Goes(r, "verify")
                /\ services' = [services EXCEPT ![requests[r].service] =
                        [@ EXCEPT !.capturing = @ \cup {r},
                                  !.mixed = @ \/ services[requests[r].service].capturing # {}]]
         [] OTHER -> capture_mcp_headers(r, requests)
    /\ UNCHANGED <<boot, keys, guard>>

\* run_js goes on as a task, whose seed answers the call, when the client can poll
\* tasks and did not ask the session service to wait.
Tasked(r) ==
    /\ requests[r].tool = "run_js" /\ requests[r].tasks
    /\ session_capable => ~requests[r].wait

\* The call goes to the runtime with the session and headers captured so far.
Invokes(r, answer, session) ==
    requests' = [requests EXCEPT ![r].at = "lock", ![r].answer = answer, ![r].session = session,
                                 ![r].headers = services[requests[r].service].headers]

\* call_tool of the two services, which only serve what their router has.
Route(r) ==
    LET tool == requests[r].tool
    IN  /\ requests[r].at = "route" /\ boot.config.transport # "sse"
        /\ CASE tool = "functions" -> Answers(r, IF boot.config.functions THEN "served" ELSE "error")
             [] tool = "stubs" /\ boot.config.stubs -> Answers(r, "served")
             [] tool # "functions" /\ tool \notin Router /\ ~(tool = "stubs" /\ boot.config.stubs) ->
                    Answers(r, "unknown")
             [] OTHER -> Invokes(r, IF Tasked(r) THEN "task" ELSE None,
                                 IF session_capable THEN services[requests[r].service].session ELSE None)
        /\ UNCHANGED <<boot, services, keys, guard>>

\* call_tool of SseService, which has no router; the functions are answered by the
\* runtime before it takes its lock.
RouteSse(r) ==
    /\ requests[r].at = "route" /\ boot.config.transport = "sse"
    /\ IF requests[r].tool = "functions"
       THEN Answers(r, CASE guard.state # "running" -> "down"
                         [] guard.state = "running" /\ boot.config.functions -> "served"
                         [] OTHER -> "error")
       ELSE Invokes(r, None, services[requests[r].service].session)
    /\ UNCHANGED <<boot, services, keys, guard>>

\* invoke_tool_response: the lifecycle lock is held while the tool works, except
\* that a waiting run_js only submits under it.
Lock(r) ==
    /\ requests[r].at = "lock"
    /\ guard.lock = None
    /\ CASE guard.state # "running" -> Answers(r, "down") /\ UNCHANGED guard
         [] OTHER -> Goes(r, "run") /\ guard' = [guard EXCEPT !.lock = r]
    /\ UNCHANGED <<boot, services, keys>>

Run(r) ==
    /\ requests[r].at = "run"
    /\ IF session_capable /\ requests[r].tool = "run_js" /\ requests[r].wait /\ dispatch_tool("run_js") = "served"
       THEN Goes(r, "waiting")
       ELSE Answers(r, dispatch_tool(requests[r].tool))
    /\ guard' = [guard EXCEPT !.lock = None]
    /\ UNCHANGED <<boot, services, keys>>

WaitOver(r) ==
    /\ requests[r].at = "waiting"
    /\ Answers(r, "served")
    /\ UNCHANGED <<boot, services, keys, guard>>

Shutdown ==
    /\ Serving /\ guard.lock = None /\ guard.state = "running"
    /\ guard' = [lock |-> "shutdown", state |-> "down"]
    /\ UNCHANGED <<boot, services, requests, keys>>

ShutdownDone ==
    /\ guard.lock = "shutdown"
    /\ guard' = [guard EXCEPT !.lock = None]
    /\ UNCHANGED <<boot, services, requests, keys>>

Handle(r) ==
    \/ LookUpKey(r) \/ FetchKeys(r) \/ StoreKeys(r)
    \/ Enter(r) \/ Route(r) \/ RouteSse(r) \/ Lock(r) \/ Run(r) \/ WaitOver(r)

Boot ==
    \/ AttachHeap \/ attach_session_log \/ attach_heap_tags
    \/ attach_filesystem \/ attach_execution_registry

FrontNext ==
    \/ Boot \/ Rotate \/ Shutdown \/ ShutdownDone
    \/ \E r \in Requests : Arrive(r) \/ Handle(r)

-----------------------------------------------------------------------------
(* Properties *)

\* What is listed is what is served: a call of a listed tool fails only for a
\* store that did not open at startup or a server shutting down, and a tool that
\* is not listed is never served (the lists of mcp.rs, ffi.rs and the tables of
\* mcp_dispatch.rs and dispatch_tool against what attach_* left open).
SurfaceServed ==
    \A r \in Requests :
        (requests[r].at = "done" /\ requests[r].kind = "call") =>
            /\ requests[r].answer \in {"error", "unknown"} =>
                 (requests[r].tool \notin Listed \/ Store(requests[r].tool) \in boot.failed)
            /\ requests[r].answer = "served" => requests[r].tool \in Listed

\* A token whose key was published when the request came, and in every set since,
\* is refused only if the endpoint could not be reached, whatever the other
\* requests' refreshes put into the cache meanwhile (get_key's own fetch).
ValidTokensPass ==
    \A r \in Requests :
        requests[r].answer = "unauthorized" =>
            \/ requests[r].failed
            \/ requests[r].kid = None
            \/ \E p \in requests[r].since .. keys.published : requests[r].kid \notin Publications[p]

\* A call, as a task too, acts for a session its service was given by one of its
\* requests or by --session-id, with policy headers of the request that named the
\* session unless two first calls were captured at once; a request with a service
\* of its own acts for the session it names (capture_mcp_headers and call_tool).
IdentityKept ==
    \A r \in Requests :
        LET svc   == services[requests[r].service]
            alone == \A q \in Requests : requests[q].service = requests[r].service => q = r
        IN  requests[r].at \in {"lock", "run", "waiting"} =>
                /\ requests[r].session \in {None, svc.session}
                /\ svc.from # None => requests[svc.from].service = requests[r].service
                /\ (svc.from # None /\ ~svc.mixed) => svc.headers = svc.from
                /\ (alone /\ boot.config.transport = "http" /\ session_capable) =>
                        requests[r].session = requests[r].sid

\* No tool works on a server that is shutting down, and shutting down waits for
\* the one that does (the lifecycle lock of invoke_tool_response and shutdown).
ShutdownExcludes ==
    guard.state = "down" => \A r \in Requests : requests[r].at # "run"

\* A request that has arrived is owed its answer.
Unsettled(r) == requests[r].at \notin {"new", "done"}
==============================================================================

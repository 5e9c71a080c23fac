---------------------------- MODULE ToolServers ----------------------------
(***************************************************************************)
(* Connections to downstream MCP servers (engine/mcp_client.rs): connected *)
(* at start-up, probed by one liveness task each, replaced in place by     *)
(* that task or by a failing mcp.callTool, closed by shutdown.  The        *)
(* downstream servers crash and restart; a call in progress may or may not *)
(* have reached its tool by then.                                          *)
(***************************************************************************)
EXTENDS Naturals, Sequences, FiniteSets, FiniteSetsExt

CONSTANTS ServerNames,   \* names the configuration may use
          ToolCalls,     \* mcp.callTool invocations
          Target,        \* call -> server name it asks for
          MaxConns,      \* bound: handshakes that succeed
          MaxCrashes,    \* bound: downstream crashes
          None

VARIABLES configs,       \* configurations not connected yet
          manager,       \* "connecting", "up", "failed", "shutdown"
          live,          \* server -> connection in ServerConn::live
          conns,         \* connections: [server, epoch, open, late: swapped in after shutdown]
          downstream,    \* server -> how often it has restarted
          prober,        \* server -> the liveness task
          call,          \* call -> [at, peer, fresh, runs, got]
          crashes
toolVars == <<configs, manager, live, conns, downstream, prober, call, crashes>>

(* is_healthy: a round trip on the connection succeeds.  External: rmcp. *)
Healthy(i) ==
  LET s == conns[i].server
  IN conns[i].open /\ conns[i].epoch = downstream[s]

Opened(s) == Append(conns, [server |-> s, epoch |-> downstream[s], open |-> TRUE, late |-> FALSE])
Servers == {s \in ServerNames : live[s] # None}

Asleep == [at |-> "sleep", peer |-> None, fresh |-> None]

-----------------------------------------------------------------------------
(* McpClientManager::connect, one configuration: the handshake comes first, *)
(* then the name is checked; any failure fails start-up.                    *)
Connect ==
  /\ manager = "connecting"
  /\ IF configs = <<>>
     THEN manager' = "up" /\ UNCHANGED <<configs, live, conns, prober>>
     ELSE LET s == Head(configs)
          IN /\ configs' = Tail(configs)
             /\ \/ manager' = "failed" /\ UNCHANGED <<live, conns, prober>>
                \/ /\ Len(conns) < MaxConns
                   /\ conns' = Opened(s)
                   /\ IF live[s] # None THEN manager' = "failed" /\ UNCHANGED <<live, prober>>
                      ELSE /\ live' = [live EXCEPT ![s] = Len(conns) + 1]
                           /\ prober' = [prober EXCEPT ![s] = Asleep]
                           /\ UNCHANGED manager
  /\ UNCHANGED <<downstream, call, crashes>>

(* spawn_liveness: wake, take the peer, probe it. *)
ProbeWakes(s) ==
  /\ prober[s].at = "sleep"
  /\ \/ manager = "shutdown" /\ prober' = [prober EXCEPT ![s].at = "stopped"]
     \/ prober' = [prober EXCEPT ![s].at = "probe", ![s].peer = live[s]]
  /\ UNCHANGED <<configs, manager, live, conns, downstream, call, crashes>>

Probe(s) ==
  /\ prober[s].at = "probe"
  /\ prober' = [prober EXCEPT ![s] =
       IF Healthy(prober[s].peer) THEN Asleep
       ELSE [Asleep EXCEPT !.at = IF manager = "shutdown" THEN "stopped" ELSE "reconnect"]]
  /\ UNCHANGED <<configs, manager, live, conns, downstream, call, crashes>>

(* reconnect, first half: the handshake, which may fail. *)
ProbeConnects(s) ==
  /\ prober[s].at = "reconnect"
  /\ \/ /\ Len(conns) < MaxConns
        /\ conns' = Opened(s)
        /\ prober' = [prober EXCEPT ![s].at = "swap", ![s].fresh = Len(conns) + 1]
     \/ prober' = [prober EXCEPT ![s] = Asleep] /\ UNCHANGED conns
  /\ UNCHANGED <<configs, manager, live, downstream, call, crashes>>

(* reconnect, second half: whatever is live is aborted and replaced, also    *)
(* after shutdown: the token is not looked at again.                        *)
SwapIn(s, fresh) ==
  /\ conns' = [conns EXCEPT ![live[s]].open = FALSE, ![fresh].late = manager = "shutdown"]
  /\ live' = [live EXCEPT ![s] = fresh]

ProbeSwaps(s) ==
  /\ prober[s].at = "swap"
  /\ SwapIn(s, prober[s].fresh)
  /\ prober' = [prober EXCEPT ![s] = Asleep]
  /\ UNCHANGED <<configs, manager, downstream, call, crashes>>

-----------------------------------------------------------------------------
Answer(c, got) == call' = [call EXCEPT ![c].at = "done", ![c].peer = None, ![c].got = got]

(* call_tool: refused after shutdown and for a server nobody configured. *)
CallBegins(c) ==
  /\ call[c].at = "idle" /\ manager \in {"up", "shutdown"}
  /\ IF manager = "shutdown" \/ Target[c] \notin Servers THEN Answer(c, "refused")
     ELSE call' = [call EXCEPT ![c].at = "send", ![c].peer = live[Target[c]]]
  /\ UNCHANGED <<configs, manager, live, conns, downstream, prober, crashes>>

(* The request reaches the tool if the connection works when it is sent. *)
CallSent(c) ==
  /\ call[c].at \in {"send", "resend"}
  /\ call' = [call EXCEPT ![c].at = IF @ = "send" THEN "reply" ELSE "rereply",
                          ![c].runs = IF Healthy(call[c].peer) THEN @ + 1 ELSE @]
  /\ UNCHANGED <<configs, manager, live, conns, downstream, prober, crashes>>

(* The answer: the tool's result, a protocol error, or a lost connection.   *)
(* The first error is followed by a probe, the second is final.             *)
CallReplied(c) ==
  /\ call[c].at \in {"reply", "rereply"}
  /\ \/ Healthy(call[c].peer) /\ Answer(c, "result")
     \/ call[c].at = "reply" /\ call' = [call EXCEPT ![c].at = "probe"]
     \/ call[c].at = "rereply" /\ Answer(c, "error after reconnect")
  /\ UNCHANGED <<configs, manager, live, conns, downstream, prober, crashes>>

(* Still healthy: the error was the tool's own. *)
CallProbes(c) ==
  /\ call[c].at = "probe"
  /\ IF Healthy(call[c].peer) THEN Answer(c, "tool error")
     ELSE call' = [call EXCEPT ![c].at = "reconnect", ![c].peer = None]
  /\ UNCHANGED <<configs, manager, live, conns, downstream, prober, crashes>>

CallConnects(c) ==
  /\ call[c].at = "reconnect"
  /\ \/ /\ Len(conns) < MaxConns
        /\ conns' = Opened(Target[c])
        /\ call' = [call EXCEPT ![c].at = "swap", ![c].fresh = Len(conns) + 1]
     \/ Answer(c, "reconnect failed") /\ UNCHANGED conns
  /\ UNCHANGED <<configs, manager, live, downstream, prober, crashes>>

CallSwaps(c) ==
  /\ call[c].at = "swap"
  /\ SwapIn(Target[c], call[c].fresh)
  /\ call' = [call EXCEPT ![c].at = "repeer", ![c].fresh = None]
  /\ UNCHANGED <<configs, manager, downstream, prober, crashes>>

(* The peer of the retry is whatever is live by now. *)
CallRetries(c) ==
  /\ call[c].at = "repeer"
  /\ call' = [call EXCEPT ![c].at = "resend", ![c].peer = live[Target[c]]]
  /\ UNCHANGED <<configs, manager, live, conns, downstream, prober, crashes>>

-----------------------------------------------------------------------------
(* McpClientManager::shutdown; a second call does nothing. *)
ShutDown ==
  /\ manager = "up" /\ manager' = "shutdown"
  /\ conns' = [i \in DOMAIN conns |->
                 IF \E s \in Servers : live[s] = i THEN [conns[i] EXCEPT !.open = FALSE] ELSE conns[i]]
  /\ UNCHANGED <<configs, live, downstream, prober, call, crashes>>

(* The environment: a downstream server dies with its sessions and comes    *)
(* back; until it does, handshakes fail.                                    *)
Crash(s) ==
  /\ crashes < MaxCrashes /\ crashes' = crashes + 1
  /\ downstream' = [downstream EXCEPT ![s] = @ + 1]
  /\ UNCHANGED <<configs, manager, live, conns, prober, call>>

ToolStart(cs) ==
  /\ configs = cs /\ manager = "connecting" /\ conns = <<>> /\ crashes = 0
  /\ live = [s \in ServerNames |-> None]
  /\ downstream = [s \in ServerNames |-> 0]
  /\ prober = [s \in ServerNames |-> [at |-> "none", peer |-> None, fresh |-> None]]
  /\ call = [c \in ToolCalls |-> [at |-> "idle", peer |-> None, fresh |-> None, runs |-> 0, got |-> None]]

ProbeStep(s) == ProbeWakes(s) \/ Probe(s) \/ ProbeConnects(s) \/ ProbeSwaps(s)
CallStep(c) ==
  \/ CallBegins(c) \/ CallSent(c) \/ CallReplied(c) \/ CallProbes(c)
  \/ CallConnects(c) \/ CallSwaps(c) \/ CallRetries(c)

ToolNext ==
  \/ Connect \/ ShutDown
  \/ \E s \in ServerNames : ProbeStep(s) \/ Crash(s)
  \/ \E c \in ToolCalls : CallStep(c)

-----------------------------------------------------------------------------
Held == {live[s] : s \in Servers} \cup {prober[s].fresh : s \in ServerNames} \cup {call[c].fresh : c \in ToolCalls}

(* No connection is left open without an owner: every open one is live or   *)
(* about to be swapped in by the task that made it, however the liveness    *)
(* task and failing calls interleave (reconnect aborts what it replaces).   *)
(* Once the manager is shut down, a live connection that is still open was  *)
(* put there afterwards, by a probe or a call that was under way:           *)
(* shutdown closes whatever is live when it comes by, and only that.        *)
ConnectionsOwned ==
  manager \in {"up", "shutdown"} =>
    \A i \in DOMAIN conns : conns[i].open =>
      /\ i \in Held
      /\ manager = "shutdown" /\ i \in {live[s] : s \in Servers} => conns[i].late

(* A call's tool runs at most twice, and a second time only after a lost    *)
(* connection; a result is only reported if the tool ran, and "tool error"  *)
(* is never said of a call that was not delivered exactly once.             *)
CallsTold ==
  \A c \in ToolCalls :
    /\ call[c].runs <= 2
    /\ call[c].got = "result" => call[c].runs >= 1
    /\ call[c].got = "tool error" => call[c].runs = 1
    /\ call[c].got \in {"refused"} => call[c].runs = 0

(* A mcp.callTool under way is owed its answer. *)
Unsettled(c) == call[c].at \notin {"idle", "done"}
=============================================================================

---------------------------- MODULE Http2Client ----------------------------
(***************************************************************************)
(* node:http2's client (node_compat/http2.js) over the session and stream  *)
(* ops of engine/http2.rs.  One session object with its streams: the jobs  *)
(* chained on _connectPromise, the write chain and the read loop of each   *)
(* stream, the op tasks on the isolate's runtime, and the peer, which is   *)
(* external.  A write is one DATA frame and is given no callback.          *)
(***************************************************************************)
EXTENDS Naturals, Sequences, SequencesExt, FiniteSets

CONSTANTS Streams,
          MaxWrites,  \* bound: write() calls on a stream
          MaxChunks,  \* bound: DATA frames the peer sends on a stream
          None

VARIABLES session,  \* [at: _connectPromise, registered: H2State.sessions has it, closed: _closed,
                    \*  asked, pinged: what the program has done, of what it uses]
          conn,     \* the connection's driver: "none", "up" or "down"
          jobs,     \* reactions on _connectPromise, oldest first
          pings,    \* op_h2_ping's that await their answer
          st,       \* stream -> the ClientHttp2Stream object
          handles,  \* H2State.streams, of which:
          cancelled,\* those whose stream_cancel fired
          chain,    \* stream -> writes not yet settled; the End is 0
          sending,  \* streams whose send lock an op_h2_send_data task holds
          result,   \* stream -> what its response or read op resolved with, or None
          net       \* stream -> [down, sent, got, reset: either side's RST_STREAM, over: END_STREAM from the peer]
h2Vars == <<session, conn, jobs, pings, st, handles, cancelled, chain, sending, result, net>>

End == 0
Settled == session.at \in {"connected", "failed"}

(* What a stream object says, _finishClose and _fail. *)
Says(o, e) == [o EXCEPT !.events = Append(@, <<e, 0>>)]
FinishClose(o) == IF o.closed THEN o ELSE [o EXCEPT !.closed = TRUE, !.events = Append(@, <<"close", 0>>)]
Fail(o) == IF o.closed THEN o ELSE FinishClose(Says(o, "error"))

-----------------------------------------------------------------------------
(* do_h2_connect: the policy gate, TCP, then TLS and the h2 handshake. *)
ConnectGate ==
  /\ session.at = "gate"
  /\ \E at \in {"dialling", "failing"} : session' = [session EXCEPT !.at = at]
  /\ UNCHANGED <<conn, jobs, pings, st, handles, cancelled, chain, sending, result, net>>

ConnectTcp ==
  /\ session.at = "dialling"
  /\ \/ session' = [session EXCEPT !.at = "failing"] /\ UNCHANGED conn
     \/ session' = [session EXCEPT !.at = "registering"] /\ conn' = "up"
  /\ UNCHANGED <<jobs, pings, st, handles, cancelled, chain, sending, result, net>>

(* op_h2_connect registers the session; _connectPromise settles. *)
Connected ==
  /\ session.at = "registering"
  /\ session' = [session EXCEPT !.at = "connected", !.registered = TRUE]
  /\ UNCHANGED <<conn, jobs, pings, st, handles, cancelled, chain, sending, result, net>>

ConnectFails ==
  /\ session.at = "failing"
  /\ session' = [session EXCEPT !.at = "failed", !.closed = TRUE]
  /\ UNCHANGED <<conn, jobs, pings, st, handles, cancelled, chain, sending, result, net>>

-----------------------------------------------------------------------------
(* What the user asks of the session. *)

Request(s) ==
  /\ ~session.closed /\ st[s].open = "none"
  /\ st' = [st EXCEPT ![s].open = "queued"]
  /\ jobs' = Append(jobs, <<"request", s>>)
  /\ UNCHANGED <<session, conn, pings, handles, cancelled, chain, sending, result, net>>

Ping ==
  /\ "ping" \in session.uses /\ ~session.pinged
  /\ session' = [session EXCEPT !.pinged = TRUE]
  /\ jobs' = Append(jobs, <<"ping", None>>)
  /\ UNCHANGED <<conn, pings, st, handles, cancelled, chain, sending, result, net>>

Teardown ==
  /\ "teardown" \in session.uses /\ ~session.closed /\ ~session.asked
  /\ session' = [session EXCEPT !.asked = TRUE]
  /\ jobs' = Append(jobs, <<"teardown", None>>)
  /\ UNCHANGED <<conn, pings, st, handles, cancelled, chain, sending, result, net>>

(* The reactions run in the order they were added. *)
RunJob ==
  /\ Settled /\ jobs # <<>>
  /\ jobs' = Tail(jobs)
  /\ LET job == Head(jobs)
         s == job[2]
     IN \/ /\ job[1] = "request"
           /\ st' = [st EXCEPT ![s].open = IF session.registered THEN "asking" ELSE "rejected"]
           /\ UNCHANGED <<session, conn, pings>>
        \/ /\ job[1] = "ping"
           /\ pings' = IF session.registered THEN pings + 1 ELSE pings
           /\ UNCHANGED <<session, conn, st>>
        \/ /\ job[1] = "teardown"     \* op_h2_close_session
           /\ session' = [session EXCEPT !.registered = FALSE, !.closed = TRUE]
           /\ conn' = IF session.registered THEN "down" ELSE conn
           /\ UNCHANGED <<pings, st>>
  /\ UNCHANGED <<handles, cancelled, chain, sending, result, net>>

(* op_h2_ping: the answer comes, or the connection is gone. *)
PingSettles ==
  /\ pings > 0
  /\ pings' = pings - 1
  /\ UNCHANGED <<session, conn, jobs, st, handles, cancelled, chain, sending, result, net>>

-----------------------------------------------------------------------------
(* op_h2_request: header rules and the stream's policy, then the HEADERS    *)
(* frame; the session is looked up again before the stream is registered.   *)
RequestGate(s) ==
  /\ st[s].open = "asking"
  /\ \/ st' = [st EXCEPT ![s].open = "rejected"] /\ UNCHANGED net
     \/ /\ conn = "up"
        /\ st' = [st EXCEPT ![s].open = "sent"]
        /\ net' = [net EXCEPT ![s].opened = TRUE]
  /\ UNCHANGED <<session, conn, jobs, pings, handles, cancelled, chain, sending, result>>

RegisterStream(s) ==
  /\ st[s].open = "sent"
  /\ IF session.registered
     THEN st' = [st EXCEPT ![s].open = "opened"] /\ handles' = handles \cup {s}
     ELSE st' = [st EXCEPT ![s].open = "rejected"] /\ UNCHANGED handles
  /\ UNCHANGED <<session, conn, jobs, pings, cancelled, chain, sending, result, net>>

(* _run goes on: the response is asked for, or the stream fails. *)
RunStarts(s) ==
  /\ st[s].loop = "open" /\ st[s].open \in {"opened", "rejected"}
  /\ st' = [st EXCEPT ![s] = IF @.open = "opened" THEN [@ EXCEPT !.loop = "response"]
                             ELSE [Fail(@) EXCEPT !.loop = "done"]]
  /\ UNCHANGED <<session, conn, jobs, pings, handles, cancelled, chain, sending, result, net>>

-----------------------------------------------------------------------------
(* What the user asks of a stream. *)

Write(s) ==
  /\ "write" \in session.uses
  /\ st[s].open # "none" /\ ~st[s].ended /\ ~st[s].closed /\ st[s].writes < MaxWrites
  /\ st' = [st EXCEPT ![s].writes = @ + 1]
  /\ chain' = [chain EXCEPT ![s] = Append(@, st[s].writes + 1)]
  /\ UNCHANGED <<session, conn, jobs, pings, handles, cancelled, sending, result, net>>

EndWrites(s) ==
  /\ "write" \in session.uses
  /\ st[s].open # "none" /\ ~st[s].ended /\ ~st[s].closed
  /\ st' = [st EXCEPT ![s].ended = TRUE]
  /\ chain' = [chain EXCEPT ![s] = Append(@, End)]
  /\ UNCHANGED <<session, conn, jobs, pings, handles, cancelled, sending, result, net>>

Pause(s) ==
  /\ "pause" \in session.uses
  /\ st[s].open # "none" /\ ~st[s].paused /\ ~st[s].stalled
  /\ st' = [st EXCEPT ![s].paused = TRUE, ![s].stalled = TRUE]
  /\ UNCHANGED <<session, conn, jobs, pings, handles, cancelled, chain, sending, result, net>>

Resume(s) ==
  /\ st[s].paused
  /\ st' = [st EXCEPT ![s].paused = FALSE, ![s].queue = <<>>, ![s].events = @ \o st[s].queue]
  /\ UNCHANGED <<session, conn, jobs, pings, handles, cancelled, chain, sending, result, net>>

(* close(code), destroy(): acts once the stream has opened or failed to. *)
CloseStream(s) ==
  /\ "close" \in session.uses
  /\ st[s].open # "none" /\ ~st[s].closed /\ ~st[s].closing
  /\ st' = [st EXCEPT ![s].closing = TRUE, ![s].rst = TRUE]
  /\ UNCHANGED <<session, conn, jobs, pings, handles, cancelled, chain, sending, result, net>>

(* op_h2_cancel_stream: a reset unless a send holds the lock. *)
CancelStream(s) ==
  /\ st[s].closing /\ st[s].loop # "open"
  /\ st' = [st EXCEPT ![s] = [FinishClose(@) EXCEPT !.closing = FALSE]]
  /\ handles' = handles \ {s}
  /\ cancelled' = IF s \in handles THEN cancelled \cup {s} ELSE cancelled
  /\ net' = IF s \in handles /\ s \notin sending THEN [net EXCEPT ![s].reset = TRUE] ELSE net
  /\ UNCHANGED <<session, conn, jobs, pings, chain, sending, result>>

-----------------------------------------------------------------------------
(* The write chain: each write waits for the one before it and for the      *)
(* stream; op_h2_send_data then holds the send lock until the peer grants   *)
(* capacity or the stream is dead.                                          *)

WriteFails(s) ==
  /\ chain' = [chain EXCEPT ![s] = Tail(@)]
  /\ st' = IF Head(chain[s]) = End THEN st ELSE [st EXCEPT ![s] = Fail(@)]

SendData(s) ==
  /\ chain[s] # <<>> /\ s \notin sending /\ st[s].loop # "open"
  /\ IF s \in handles
     THEN sending' = sending \cup {s} /\ UNCHANGED <<st, chain>>
     ELSE WriteFails(s) /\ UNCHANGED sending
  /\ UNCHANGED <<session, conn, jobs, pings, handles, cancelled, result, net>>

SendAll(s) ==
  /\ s \in sending
  /\ sending' = sending \ {s}
  /\ \/ /\ conn = "up" /\ ~net[s].reset
        /\ net' = [net EXCEPT ![s].got = Append(@, Head(chain[s]))]
        /\ chain' = [chain EXCEPT ![s] = Tail(@)]
        /\ UNCHANGED st
     \/ /\ conn = "down" \/ net[s].reset
        /\ WriteFails(s) /\ UNCHANGED net
  /\ UNCHANGED <<session, conn, jobs, pings, handles, cancelled, result>>

-----------------------------------------------------------------------------
(* The peer: DATA in order, trailers or a bare end, a reset; the connection *)
(* may be lost.                                                             *)

PeerSends(s) ==
  /\ conn = "up" /\ net[s].opened /\ ~net[s].reset /\ ~net[s].over
  /\ \/ /\ net[s].down = <<>> /\ net[s].sent = 0 /\ ~net[s].headers
        /\ \E over \in BOOLEAN : net' = [net EXCEPT ![s].headers = TRUE, ![s].over = over]
     \/ /\ net[s].headers /\ net[s].sent < MaxChunks
        /\ net' = [net EXCEPT ![s].sent = @ + 1, ![s].down = Append(@, <<"data", net[s].sent + 1>>)]
     \/ /\ net[s].headers
        /\ \E last \in {"trailers", "end"} : net' = [net EXCEPT ![s].over = TRUE, ![s].down = Append(@, <<last, 0>>)]
     \/ net' = [net EXCEPT ![s].reset = TRUE]
  /\ UNCHANGED <<session, conn, jobs, pings, st, handles, cancelled, chain, sending, result>>

ConnectionLost ==
  /\ conn = "up" /\ session.at = "connected"
  /\ conn' = "down"
  /\ UNCHANGED <<session, jobs, pings, st, handles, cancelled, chain, sending, result, net>>

(* The answers of op_h2_response and op_h2_read, a cancelled token first.   *)
Gone(s) == ~session.registered \/ s \in cancelled

ResponseOp(s) ==
  /\ st[s].loop = "response" /\ result[s] = None
  /\ \/ Gone(s) /\ result' = [result EXCEPT ![s] = <<"error", 0>>]
     \/ ~Gone(s) /\ net[s].headers /\ result' = [result EXCEPT ![s] = <<"response", net[s].over /\ net[s].down = <<>> >>]
     \/ ~Gone(s) /\ ~net[s].headers /\ net[s].reset /\ result' = [result EXCEPT ![s] = <<"reset", 0>>]
     \/ ~Gone(s) /\ ~net[s].headers /\ conn = "down" /\ result' = [result EXCEPT ![s] = <<"error", 0>>]
  /\ UNCHANGED <<session, conn, jobs, pings, st, handles, cancelled, chain, sending, net>>

ReadOp(s) ==
  /\ st[s].loop = "read" /\ result[s] = None
  /\ \/ Gone(s) /\ result' = [result EXCEPT ![s] = <<"error", 0>>] /\ UNCHANGED net
     \/ /\ ~Gone(s) /\ net[s].down # <<>>
        /\ LET f == Head(net[s].down)
           IN /\ result' = [result EXCEPT ![s] = f]
              /\ net' = [net EXCEPT ![s].down = IF f[1] = "trailers" THEN <<<<"end", 0>>>> ELSE Tail(@)]
     \/ /\ ~Gone(s) /\ net[s].down = <<>> /\ (net[s].reset \/ conn = "down")
        /\ result' = [result EXCEPT ![s] = IF net[s].reset THEN <<"reset", 0>> ELSE <<"error", 0>>]
        /\ UNCHANGED net
  /\ UNCHANGED <<session, conn, jobs, pings, st, handles, cancelled, chain, sending>>

(* _run takes the answer.  After an end, a reset or an error the handle is  *)
(* dropped and the loop is over; a stream already closed still hears an     *)
(* answer that had been resolved by then.                                   *)
Drop(s) == handles' = handles \ {s} /\ cancelled' = IF s \in handles THEN cancelled \cup {s} ELSE cancelled

Deliver(o, f) == IF o.paused THEN [o EXCEPT !.queue = Append(@, f)] ELSE [o EXCEPT !.events = Append(@, f)]

(* The next read throws when the handle is gone, which a closed stream      *)
(* swallows.                                                                *)
ReadAgain(s, o) == IF s \in handles THEN [o EXCEPT !.loop = "read"] ELSE [Fail(o) EXCEPT !.loop = "done"]

RunTakes(s) ==
  LET o == st[s]
      over(p) == [p EXCEPT !.loop = "done"]
      kind == result[s][1]
  IN /\ result[s] # None
     /\ result' = [result EXCEPT ![s] = None]
     /\ \/ /\ kind = "response" /\ ~result[s][2]
           /\ st' = [st EXCEPT ![s] = ReadAgain(s, Says(o, "response"))]
           /\ UNCHANGED <<handles, cancelled>>
        \/ /\ kind = "response" /\ result[s][2]
           /\ st' = [st EXCEPT ![s] = over(FinishClose(Says(Says(o, "response"), "end")))]
           /\ Drop(s)
        \/ /\ kind = "data"
           /\ st' = [st EXCEPT ![s] = ReadAgain(s, Deliver(o, result[s]))]
           /\ UNCHANGED <<handles, cancelled>>
        \/ /\ kind = "trailers"
           /\ st' = [st EXCEPT ![s] = ReadAgain(s, Says(o, "trailers"))]
           /\ UNCHANGED <<handles, cancelled>>
        \/ /\ kind = "end"
           /\ st' = [st EXCEPT ![s] = over(FinishClose(Says(o, "end")))]
           /\ Drop(s)
        \/ /\ kind = "reset"
           /\ st' = [st EXCEPT ![s] = over(FinishClose([Says(o, "error") EXCEPT !.rst = TRUE]))]
           /\ Drop(s)
        \/ /\ kind = "error"
           /\ st' = [st EXCEPT ![s] = over(Fail(o))]
           /\ Drop(s)
     /\ UNCHANGED <<session, conn, jobs, pings, chain, sending, net>>

-----------------------------------------------------------------------------
(* uses: what the program does, of "ping", "teardown", "write", "pause" and *)
(* "close".                                                                 *)
H2Start(uses) ==
  /\ session = [uses |-> uses, at |-> "gate", registered |-> FALSE, closed |-> FALSE, asked |-> FALSE, pinged |-> FALSE]
  /\ conn = "none" /\ jobs = <<>> /\ pings = 0
  /\ st = [s \in Streams |-> [open |-> "none", loop |-> "open", closed |-> FALSE, closing |-> FALSE, rst |-> FALSE,
                              ended |-> FALSE, writes |-> 0, paused |-> FALSE, stalled |-> FALSE,
                              queue |-> <<>>, events |-> <<>>]]
  /\ handles = {} /\ cancelled = {} /\ sending = {}
  /\ chain = [s \in Streams |-> <<>>]
  /\ result = [s \in Streams |-> None]
  /\ net = [s \in Streams |-> [opened |-> FALSE, headers |-> FALSE, down |-> <<>>, sent |-> 0, got |-> <<>>,
                               reset |-> FALSE, over |-> FALSE]]

SessionStep == ConnectGate \/ ConnectTcp \/ Connected \/ ConnectFails \/ RunJob \/ PingSettles
StreamStep(s) ==
  \/ RequestGate(s) \/ RegisterStream(s) \/ RunStarts(s) \/ CancelStream(s)
  \/ SendData(s) \/ SendAll(s) \/ ResponseOp(s) \/ ReadOp(s) \/ RunTakes(s)

H2Next ==
  \/ SessionStep
  \/ Ping \/ Teardown \/ ConnectionLost
  \/ \E s \in Streams :
       \/ StreamStep(s)
       \/ Request(s) \/ Write(s) \/ EndWrites(s) \/ Pause(s) \/ Resume(s) \/ CloseStream(s) \/ PeerSends(s)

-----------------------------------------------------------------------------
(* A stream's handle is held only while its read loop still runs, which     *)
(* drops it at the end, and one that was closed with the handle gone has    *)
(* its token fired, whichever of a reset, a close(), a failed write and the *)
(* session's teardown comes first; a stream's open never outlives the       *)
(* session's handle (op_h2_request, op_h2_cancel_stream, _run, _drop).      *)
StreamsReleased ==
  /\ \A s \in handles : st[s].open = "opened" /\ st[s].loop # "done" /\ s \notin cancelled
  /\ \A s \in Streams : (st[s].open = "opened" /\ s \notin handles) => s \in cancelled
  /\ ~session.registered => conn # "up" \/ session.at = "registering"

Data(seq) == SelectSeq(seq, LAMBDA e : e[1] = "data")
Seen(s) ==
  Data(st[s].events) \o st[s].queue
    \o (IF result[s] # None /\ result[s][1] = "data" THEN <<result[s]>> ELSE <<>>) \o Data(net[s].down)

(* Every DATA frame the peer sent is delivered, held by pause(), in hand or *)
(* still to be read, in order, through pauses, closes and failures; the     *)
(* peer gets the writes in order, and END_STREAM last; 'close' is said at   *)
(* most once (_deliverData, resume, the write chain).                       *)
StreamsInOrder ==
  \A s \in Streams :
    /\ Seen(s) = [i \in 1..net[s].sent |-> <<"data", i>>]
    /\ \A i \in DOMAIN net[s].got :
         net[s].got[i] = IF net[s].got[i] = End THEN End ELSE i
    /\ \A i \in DOMAIN net[s].got : net[s].got[i] = End => i = Len(net[s].got)
    /\ Cardinality({i \in DOMAIN st[s].events : st[s].events[i][1] = "close"}) = (IF st[s].closed THEN 1 ELSE 0)

(* A session is torn down and a response, read, write or ping is pending:   *)
(* all of them are to be woken, or the execution's event loop cannot drain  *)
(* (op_h2_close_session; the DropGuard).                                    *)
Unsettled ==
  /\ session.asked
  /\ ~(/\ pings = 0 /\ handles = {} /\ sending = {}
       /\ \A s \in Streams : st[s].open # "none" => st[s].loop = "done" /\ st[s].closed)
=============================================================================

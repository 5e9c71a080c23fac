----------------------------- MODULE WebSockets -----------------------------
(***************************************************************************)
(* The guest's WebSocket (web_compat/websocket.js) over the ops of         *)
(* engine/websocket.rs.  Ops are tasks on the isolate's runtime, started   *)
(* in the order they are called; their results reach the object in         *)
(* microtasks.  The peer is external: it answers the handshake, sends and  *)
(* closes, or vanishes.  A Blob is read before its frame is sent.          *)
(***************************************************************************)
EXTENDS Naturals, Sequences, SequencesExt, FiniteSets, TLC

CONSTANTS Sockets,
          MaxFrames,   \* bound: frames sent, by each side
          None

VARIABLES ws,      \* socket -> [ready, rid, aborted, buffered, events]
          conns,   \* WsConnections: the rids with a handle
          nextId,  \* WsConnections.next_id
          wire,    \* rid -> [down: on its way here, sent: all the peer sent, got: what the peer got,
                   \*         ended: the peer is done, cancelled: WsHandle.cancel]
          dial,    \* socket -> [at: how far op_ws_connect is, rid: what it registered]
          sends,   \* tasks of op_ws_send and op_ws_close, oldest first
          reads,   \* Blobs being read: [by, frame]
          recv,    \* socket -> the event op_ws_recv resolved with, "pending" or "idle"
          frames   \* socket -> [sent, blobs: which were Blobs, closed, dropped: by the user]
wsVars == <<ws, conns, nextId, wire, dial, sends, reads, recv, frames>>

Emit(s, changes, events) == ws' = [ws EXCEPT ![s] = changes @@ [@ EXCEPT !.events = @ \o events]]
Closed == [ready |-> "closed"]
CloseFrame == 0

(* op_ws_drop: the handle goes, and a pending receive wakes. *)
DropHandle(rid) ==
  /\ conns' = conns \ {rid}
  /\ wire' = IF rid \in conns THEN [wire EXCEPT ![rid].cancelled = TRUE] ELSE wire

SettleClosed(s, rid, events) ==
  /\ DropHandle(rid)
  /\ Emit(s, [rid |-> rid] @@ Closed, events)

-----------------------------------------------------------------------------
(* do_ws_connect: header rules and hooks decide, then the peer answers or   *)
(* does not in time.                                                        *)
RunHooks(s) ==
  /\ dial[s].at = "hooks"
  /\ \E at \in {"handshake", "failed"} : dial' = [dial EXCEPT ![s].at = at]
  /\ UNCHANGED <<ws, conns, nextId, wire, sends, reads, recv, frames>>

Handshake(s) ==
  /\ dial[s].at = "handshake"
  /\ \E at \in {"up", "failed"} : dial' = [dial EXCEPT ![s].at = at]
  /\ UNCHANGED <<ws, conns, nextId, wire, sends, reads, recv, frames>>

(* The op registers the connection; the object hears of it later. *)
Register(s) ==
  /\ dial[s].at = "up"
  /\ dial' = [dial EXCEPT ![s] = [at |-> "registered", rid |-> nextId]]
  /\ nextId' = nextId + 1
  /\ conns' = conns \cup {nextId}
  /\ wire' = nextId :> [down |-> <<>>, sent |-> <<>>, got |-> <<>>, ended |-> FALSE, cancelled |-> FALSE] @@ wire
  /\ UNCHANGED <<ws, sends, reads, recv, frames>>

Connected(s) ==
  LET rid == dial[s].rid
  IN /\ dial[s].at = "registered"
     /\ dial' = [dial EXCEPT ![s].at = "done"]
     /\ \/ /\ ws[s].ready = "closed"           \* force-dropped meanwhile
           /\ DropHandle(rid)
           /\ Emit(s, [rid |-> rid], <<>>)
           /\ UNCHANGED <<sends, recv>>
        \/ /\ ws[s].ready # "closed" /\ ws[s].aborted
           /\ sends' = Append(sends, [by |-> s, rid |-> rid, frame |-> CloseFrame])
           /\ SettleClosed(s, rid, <<"close">>)
           /\ UNCHANGED recv
        \/ /\ ws[s].ready # "closed" /\ ~ws[s].aborted
           /\ Emit(s, [rid |-> rid, ready |-> "open"], <<"open">>)
           /\ recv' = [recv EXCEPT ![s] = "pending"]
           /\ UNCHANGED <<conns, wire, sends>>
     /\ UNCHANGED <<nextId, reads, frames>>

FailConnection(s) ==
  /\ dial[s].at = "failed"
  /\ dial' = [dial EXCEPT ![s].at = "done"]
  /\ Emit(s, Closed, <<"error", "close">>)
  /\ UNCHANGED <<conns, nextId, wire, sends, reads, recv, frames>>

-----------------------------------------------------------------------------
(* The user.  A send in any state but open is discarded (or throws). *)

SendFrame(s) ==
  /\ ws[s].ready = "open" /\ frames[s].sent < MaxFrames
  /\ frames' = [frames EXCEPT ![s].sent = @ + 1]
  /\ ws' = [ws EXCEPT ![s].buffered = @ + 1]
  /\ sends' = Append(sends, [by |-> s, rid |-> ws[s].rid, frame |-> frames[s].sent + 1])
  /\ UNCHANGED <<conns, nextId, wire, dial, reads, recv>>

SendBlob(s) ==
  /\ ws[s].ready = "open" /\ frames[s].sent < MaxFrames
  /\ frames' = [frames EXCEPT ![s].sent = @ + 1, ![s].blobs = @ \cup {frames[s].sent + 1}]
  /\ ws' = [ws EXCEPT ![s].buffered = @ + 1]
  /\ reads' = reads \cup {[by |-> s, frame |-> frames[s].sent + 1]}
  /\ UNCHANGED <<conns, nextId, wire, dial, sends, recv>>

(* The Blob's bytes are there: op_ws_send looks the handle up only now. *)
BlobRead(r) ==
  LET rid == ws[r.by].rid
  IN /\ r \in reads
     /\ reads' = reads \ {r}
     /\ IF rid \in conns
        THEN sends' = Append(sends, [by |-> r.by, rid |-> rid, frame |-> r.frame]) /\ UNCHANGED ws
        ELSE ws' = [ws EXCEPT ![r.by].buffered = @ - 1] /\ UNCHANGED sends
     /\ UNCHANGED <<conns, nextId, wire, dial, recv, frames>>

Close(s) ==
  /\ ws[s].ready \in {"connecting", "open"} /\ ~frames[s].closed
  /\ frames' = [frames EXCEPT ![s].closed = TRUE]
  /\ IF ws[s].ready = "connecting"
     THEN Emit(s, [ready |-> "closing", aborted |-> TRUE], <<>>) /\ UNCHANGED sends
     ELSE /\ Emit(s, [ready |-> "closing"], <<>>)
          /\ sends' = Append(sends, [by |-> s, rid |-> ws[s].rid, frame |-> CloseFrame])
  /\ UNCHANGED <<conns, nextId, wire, dial, reads, recv>>

(* __mcpV8WebSocketCloseAll. *)
ForceDrop(s) ==
  /\ ws[s].ready # "closed" /\ ~frames[s].dropped
  /\ frames' = [frames EXCEPT ![s].dropped = TRUE]
  /\ DropHandle(ws[s].rid)
  /\ Emit(s, Closed, <<>>)
  /\ UNCHANGED <<nextId, dial, sends, reads, recv>>

-----------------------------------------------------------------------------
(* The sink's mutex serves the tasks in order.  After a close frame it      *)
(* refuses data, and once the peer has ended it may refuse anything.        *)
SinkSend ==
  /\ sends # <<>>
  /\ LET t == Head(sends)
         refused == \E i \in DOMAIN wire[t.rid].got : wire[t.rid].got[i] = CloseFrame
     IN /\ \/ ~refused /\ wire' = [wire EXCEPT ![t.rid].got = Append(@, t.frame)]
           \/ (refused \/ wire[t.rid].ended) /\ UNCHANGED wire
        /\ ws' = IF t.frame = CloseFrame THEN ws ELSE [ws EXCEPT ![t.by].buffered = @ - 1]
  /\ sends' = Tail(sends)
  /\ UNCHANGED <<conns, nextId, dial, reads, recv, frames>>

(* The peer sends data, or ends: a close frame, the end of the stream, or   *)
(* an error.                                                                *)
PeerSends(rid) ==
  /\ rid \in conns /\ ~wire[rid].ended
  /\ \/ /\ Len(wire[rid].sent) < MaxFrames
        /\ LET f == <<"data", Len(wire[rid].sent) + 1>>
           IN wire' = [wire EXCEPT ![rid].down = Append(@, f), ![rid].sent = Append(@, f)]
     \/ \E e \in {"close", "error"} :
          wire' = [wire EXCEPT ![rid].down = Append(@, <<e, 0>>), ![rid].ended = TRUE]
  /\ UNCHANGED <<ws, conns, nextId, dial, sends, reads, recv, frames>>

(* op_ws_recv resolves; a dropped handle is seen first, as a close. *)
RecvEvent(s) ==
  LET rid == ws[s].rid
  IN /\ recv[s] = "pending"
     /\ IF wire[rid].cancelled THEN recv' = [recv EXCEPT ![s] = "close"] /\ UNCHANGED wire
        ELSE /\ wire[rid].down # <<>>
             /\ recv' = [recv EXCEPT ![s] = Head(wire[rid].down)[1]]
             /\ wire' = [wire EXCEPT ![rid].down = Tail(@)]
     /\ UNCHANGED <<ws, conns, nextId, dial, sends, reads, frames>>

(* _recvLoop handles the event and, while not closed, receives again.  An   *)
(* error is reported even by a socket that was dropped meanwhile.           *)
RecvLoop(s) ==
  /\ \/ /\ recv[s] = "data"
        /\ Emit(s, <<>>, IF ws[s].ready = "open" THEN <<"message">> ELSE <<>>)
        /\ recv' = [recv EXCEPT ![s] = IF ws[s].ready = "closed" THEN "idle" ELSE "pending"]
        /\ UNCHANGED <<conns, wire>>
     \/ /\ recv[s] = "close" /\ ws[s].ready = "closed"
        /\ recv' = [recv EXCEPT ![s] = "idle"]
        /\ UNCHANGED <<ws, conns, wire>>
     \/ /\ (recv[s] = "error" \/ (recv[s] = "close" /\ ws[s].ready # "closed"))
        /\ SettleClosed(s, ws[s].rid, IF recv[s] = "error" THEN <<"error", "close">> ELSE <<"close">>)
        /\ recv' = [recv EXCEPT ![s] = "idle"]
  /\ UNCHANGED <<nextId, dial, sends, reads, frames>>

WsStart ==
  /\ ws = [s \in Sockets |-> [ready |-> "connecting", rid |-> None, aborted |-> FALSE, buffered |-> 0, events |-> <<>>]]
  /\ dial = [s \in Sockets |-> [at |-> "hooks", rid |-> None]]
  /\ conns = {} /\ nextId = 0 /\ wire = [r \in {} |-> None] /\ sends = <<>> /\ reads = {}
  /\ recv = [s \in Sockets |-> "idle"]
  /\ frames = [s \in Sockets |-> [sent |-> 0, blobs |-> {}, closed |-> FALSE, dropped |-> FALSE]]

WsStep ==
  \/ SinkSend
  \/ \E r \in reads : BlobRead(r)
  \/ \E s \in Sockets : RunHooks(s) \/ Handshake(s) \/ Register(s) \/ Connected(s) \/ FailConnection(s) \/ RecvEvent(s) \/ RecvLoop(s)

WsNext ==
  \/ WsStep
  \/ \E s \in Sockets : SendFrame(s) \/ SendBlob(s) \/ Close(s) \/ ForceDrop(s)
  \/ \E rid \in DOMAIN wire : PeerSends(rid)

-----------------------------------------------------------------------------
Pending(s) ==
  Cardinality({i \in DOMAIN sends : sends[i].by = s /\ sends[i].frame # 0})
    + Cardinality({r \in reads : r.by = s})

(* A handle is registered exactly while its socket object is open or        *)
(* closing or is about to hear of it, through handshakes that end after a   *)
(* close() or a drop, and                                                   *)
(* bufferedAmount is what still waits to be sent (_connect, _settleClosed,  *)
(* _forceDrop; op_ws_drop).                                                 *)
SocketsReleased ==
  /\ conns = ({ws[s].rid : s \in {t \in Sockets : ws[t].ready \in {"open", "closing"}}} \ {None})
               \cup {dial[s].rid : s \in {t \in Sockets : dial[t].at = "registered"}}
  /\ \A s \in Sockets : ws[s].buffered = Pending(s)

Position(s, e) == {i \in DOMAIN ws[s].events : ws[s].events[i] = e}

(* Frames reach the peer at most once and in the order of send, but for     *)
(* Blobs, which may be overtaken while they are read, and none after the    *)
(* close frame; the object says 'open' first, 'close' at most once, nothing *)
(* after 'close', and no message it did not get or got after close()        *)
(* (sink mutex; _recvLoop).                                                 *)
SocketsOrderly ==
  /\ \A rid \in DOMAIN wire : \A i, j \in DOMAIN wire[rid].got :
       LET a == wire[rid].got[i]
           b == wire[rid].got[j]
           blobs == UNION {frames[s].blobs : s \in {t \in Sockets : ws[t].rid = rid}}
       IN i < j => a # CloseFrame /\ a # b /\ (b = CloseFrame \/ a < b \/ b \in blobs)
  /\ \A s \in Sockets :
       /\ Cardinality(Position(s, "close")) <= 1 /\ Cardinality(Position(s, "open")) <= 1
       /\ \A i \in Position(s, "open") : i = 1
       /\ \A i \in Position(s, "close") : i = Len(ws[s].events)
       /\ Position(s, "message") # {} => Position(s, "open") # {}
       /\ ws[s].rid # None => Cardinality(Position(s, "message")) <= Len(wire[ws[s].rid].sent)

(* A socket whose peer ended, or that was dropped, has yet to be closed and *)
(* to stop receiving, so that the execution's event loop can drain.         *)
Unsettled(s) ==
  /\ ws[s].rid # None /\ ws[s].rid \in DOMAIN wire
  /\ wire[ws[s].rid].ended \/ frames[s].dropped
  /\ ws[s].ready # "closed" \/ recv[s] # "idle"
=============================================================================

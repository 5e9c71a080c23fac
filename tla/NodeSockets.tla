---------------------------- MODULE NodeSockets ----------------------------
(***************************************************************************)
(* Loopback TCP for guest code: the ops and their registry of streams      *)
(* (engine/net_tcp.rs) and the Socket and Server objects of node:net over  *)
(* them (node_compat/net.js).  The readable and writable halves of a       *)
(* Socket are those of node:stream, reduced to this: a chunk pushed is     *)
(* delivered at once, and 'end' waits while the socket is paused.          *)
(*                                                                         *)
(* A connection of the kernel (external) is a pair of byte streams; its    *)
(* client end is <<n, "c">>, its server end <<n, "s">>.  Socket 0 dials,   *)
(* and may dial again once it has closed and its last dial has settled;    *)
(* the server wraps connection n in socket n.                              *)
(***************************************************************************)
EXTENDS Naturals, Sequences, SequencesExt, FiniteSets, FiniteSetsExt

CONSTANTS MaxTcp,         \* bound: connections
          MaxChunks,      \* bound: chunks written by one socket
          MaxSocketCalls, \* bound: pause, resume, ref, unref, destroy, listen, close
          MaxConnections, \* server.maxConnections
          HalfOpen,       \* allowHalfOpen
          None

VARIABLES kernel,    \* connections: [listener, taken, sent, fin, rst], the last three per end
          streams,   \* TcpRegistry::streams: the ends with an open rid
          sock,      \* Socket objects
          server,    \* Server object; `loops' are the accept loops that run
          refed,     \* handleRegistry.refed
          calls
netVars == <<kernel, streams, sock, server, refed, calls>>

Objects == 0..MaxTcp
Sides == {"c", "s"}
Far(side) == IF side = "c" THEN "s" ELSE "c"

Fresh ==
  [end |-> None, gen |-> 0, connecting |-> FALSE, dialling |-> FALSE, destroyed |-> FALSE, closed |-> FALSE,
   eof |-> FALSE, ended |-> FALSE, endSent |-> FALSE, finished |-> FALSE, paused |-> FALSE, unrefed |-> FALSE,
   released |-> FALSE, open |-> FALSE, contrib |-> 0, loop |-> None, inRead |-> FALSE, enforcers |-> {},
   writing |-> None, sent |-> 0, got |-> <<>>, server |-> FALSE]

-----------------------------------------------------------------------------
(* syncHandle: an open, referenced handle counts until its loop is released *)
(* or the socket is explicitly paused.                                      *)
Counts(h) == IF h.open /\ ~h.unrefed /\ ~h.released /\ ~h.paused THEN 1 ELSE 0
SyncHandle(h, open) == LET g == [h EXCEPT !.open = open] IN [g EXCEPT !.contrib = Counts(g)]

(* The objects after a step, and the shared count with what syncHandle      *)
(* added to it for each.                                                    *)
Become(o, s, sv) ==
  /\ sock' = [sock EXCEPT ![o] = s] /\ server' = sv
  /\ refed' = refed + s.contrib + sv.contrib - sock[o].contrib - server.contrib
Update(o, s) == Become(o, s, server)
Serve(sv) == server' = sv /\ refed' = refed + sv.contrib - server.contrib /\ UNCHANGED sock

(* op_tcp_close_stream.  The kernel sends FIN when both halves are dropped, *)
(* and a write in flight still holds one.                                   *)
Drop(k, s) == IF s.end = None \/ s.writing = s.end THEN k ELSE [k EXCEPT ![s.end[1]].fin[s.end[2]] = TRUE]

(* register_stream *)
Registered(end) == streams \cup {end}

(* _maybeDestroyAfterEof *)
ReleaseLoop(s) == IF ~s.eof \/ s.released THEN s ELSE SyncHandle([s EXCEPT !.released = TRUE], s.open)

(* _maybeEmitClose of the server. *)
MaybeEmitClose(sv) ==
  LET h == IF sv.rid = None THEN SyncHandle(sv, FALSE) ELSE sv
  IN IF h.closing /\ h.rid = None /\ h.conns = {} THEN [h EXCEPT !.closing = FALSE, !.closes = @ + 1] ELSE h

(* _teardown of socket o, on its way to 'close'. *)
Teardown(o, s) ==
  /\ Become(o, SyncHandle([s EXCEPT !.end = None, !.server = FALSE, !.closed = TRUE], FALSE),
            IF s.server THEN MaybeEmitClose([server EXCEPT !.conns = @ \ {o}]) ELSE server)
  /\ streams' = streams \ {s.end}

(* 'close' follows 'end' and 'finish'; 'end' waits for a paused reader. *)
Settle(o, s, k) ==
  IF s.eof /\ s.finished /\ ~s.paused /\ ~s.closed
  THEN Teardown(o, s) /\ kernel' = Drop(k, s)
  ELSE Update(o, s) /\ kernel' = k /\ UNCHANGED streams

Call == calls < MaxSocketCalls /\ calls' = calls + 1

-----------------------------------------------------------------------------
(* Server: listen, close and the turns of _acceptLoop. *)

(* op_tcp_listen: a listener under a new rid. *)
Bound == [server EXCEPT !.rid = server.listens + 1, !.listens = server.listens + 1]

Listen ==
  /\ server.rid = None /\ Call
  /\ Serve(SyncHandle([Bound EXCEPT !.loops = @ \cup {Bound.rid}], TRUE))
  /\ UNCHANGED <<kernel, streams>>

CloseServer ==
  /\ Call
  /\ Serve(MaybeEmitClose([server EXCEPT !.rid = None, !.closing = TRUE, !.asked = @ + 1]))
  /\ UNCHANGED <<kernel, streams>>

(* The listener is gone: the accept answers `closed', or a connection it    *)
(* took just before, which the loop closes.                                 *)
AcceptClosed(rid) ==
  /\ rid \in server.loops /\ server.rid # rid
  /\ Serve(MaybeEmitClose([server EXCEPT !.loops = @ \ {rid}]))
  /\ kernel' \in {kernel} \cup {[kernel EXCEPT ![n].taken = TRUE, ![n].fin["s"] = TRUE] :
                                  n \in {m \in DOMAIN kernel : kernel[m].listener = rid /\ ~kernel[m].taken}}
  /\ UNCHANGED <<streams, calls>>

AcceptOne(n) ==
  /\ n \in DOMAIN kernel /\ ~kernel[n].taken
  /\ kernel[n].listener = server.rid /\ server.rid \in server.loops
  /\ IF Cardinality(server.conns) >= MaxConnections
     THEN /\ kernel' = [kernel EXCEPT ![n].taken = TRUE, ![n].fin["s"] = TRUE]
          /\ UNCHANGED <<streams, sock, server, refed>>
     ELSE /\ kernel' = [kernel EXCEPT ![n].taken = TRUE]
          /\ streams' = Registered(<<n, "s">>)
          /\ Become(n, [SyncHandle(Fresh, TRUE) EXCEPT !.end = <<n, "s">>, !.gen = 1, !.server = TRUE, !.loop = <<n, "s">>],
                    [server EXCEPT !.conns = @ \cup {n}])
  /\ UNCHANGED calls

-----------------------------------------------------------------------------
(* connect; a socket that closed is first reset by _resetForReconnect,      *)
(* unless it is still marked as connecting.                                 *)
Connect ==
  LET s == sock[0]
      reset == [Fresh EXCEPT !.gen = s.gen, !.paused = s.paused, !.unrefed = s.unrefed, !.loop = s.loop,
                             !.inRead = s.inRead, !.enforcers = s.enforcers, !.sent = s.sent, !.got = s.got]
  IN /\ s.end = None /\ ~s.dialling /\ s.writing = None /\ (s.closed \/ ~s.connecting)
     /\ Len(kernel) < MaxTcp
     /\ Update(0, [IF s.closed /\ ~s.connecting THEN reset ELSE s EXCEPT !.connecting = TRUE, !.dialling = TRUE])
     /\ UNCHANGED <<kernel, streams, calls>>

(* The answer to _dial.  Refused: the socket is destroyed.  Connected: it   *)
(* adopts the stream, or closes it if it was destroyed meanwhile.           *)
DialRefused ==
  LET s == [sock[0] EXCEPT !.dialling = FALSE, !.connecting = FALSE]
  IN /\ sock[0].dialling /\ server.rid = None
     /\ IF s.destroyed THEN Update(0, s) /\ UNCHANGED streams
        ELSE Teardown(0, [s EXCEPT !.destroyed = TRUE])
     /\ UNCHANGED <<kernel, calls>>

(* op_tcp_connect: the kernel queues the connection at the listener; the    *)
(* socket may have been dropped by then.                                    *)
Joined(dropped) ==
  [listener |-> server.rid, taken |-> FALSE, sent |-> [x \in Sides |-> <<>>],
   fin |-> [x \in Sides |-> x = "c" /\ dropped], rst |-> [x \in Sides |-> FALSE]]

Dialled ==
  LET s == [sock[0] EXCEPT !.dialling = FALSE]
      end == <<Len(kernel) + 1, "c">>
  IN /\ sock[0].dialling /\ server.rid # None /\ Len(kernel) < MaxTcp
     /\ kernel' = Append(kernel, Joined(s.destroyed))
     /\ IF s.destroyed THEN Update(0, s) /\ UNCHANGED streams
        ELSE /\ streams' = Registered(end)
             /\ Update(0, [SyncHandle(s, TRUE) EXCEPT !.end = end, !.gen = @ + 1, !.connecting = FALSE, !.loop = end,
                                                      !.inRead = FALSE])
     /\ UNCHANGED calls

-----------------------------------------------------------------------------
(* _startReading.  The loop issues op_tcp_read unless the socket is paused, *)
(* and stops when its socket has moved on.                                  *)

ReadIssue(o) ==
  LET s == sock[o]
  IN /\ s.loop # None /\ ~s.inRead
     /\ IF s.end # s.loop \/ s.destroyed THEN Update(o, [s EXCEPT !.loop = None])
        ELSE ~s.paused /\ Update(o, [s EXCEPT !.inRead = TRUE])
     /\ UNCHANGED <<kernel, streams, calls>>

Heard(s) == Len(SelectSeq(s.got, LAMBDA g : g[1] = s.loop))

(* op_tcp_read: the next bytes, the end of them, or the peer's reset;       *)
(* nothing while there is nothing to say.                                   *)
ReadOutcome(s) ==
  LET c == kernel[s.loop[1]]
      near == s.loop[2]
      from == c.sent[Far(near)]
  IN IF c.rst[near] THEN <<"error">>
     ELSE IF Heard(s) < Len(from) THEN <<"data", from[Heard(s) + 1]>>
     ELSE IF c.fin[Far(near)] THEN <<"eof">> ELSE <<"none">>

ReadResult(o) ==
  LET s == [sock[o] EXCEPT !.inRead = FALSE]
      result == ReadOutcome(s)
  IN /\ sock[o].inRead
     /\ IF s.end # s.loop \/ s.destroyed
        THEN Update(o, [s EXCEPT !.loop = None]) /\ UNCHANGED <<kernel, streams>>
        ELSE \/ /\ result[1] = "data"
                /\ Update(o, [s EXCEPT !.got = Append(@, <<s.loop, result[2]>>)])
                /\ UNCHANGED <<kernel, streams>>
             \/ /\ result[1] = "eof"
                /\ Settle(o, ReleaseLoop([s EXCEPT !.eof = TRUE, !.loop = None,
                               !.enforcers = IF HalfOpen \/ s.endSent \/ s.ended THEN @ ELSE @ \cup {s.gen}]), kernel)
             \/ /\ result[1] = "error"
                /\ Teardown(o, [s EXCEPT !.destroyed = TRUE, !.loop = None])
                /\ kernel' = Drop(kernel, s)
     /\ UNCHANGED calls

(* The half-open enforcer's timer, scoped to the connection it saw end. *)
Enforcer(o, g) ==
  LET s == [sock[o] EXCEPT !.enforcers = @ \ {g}]
  IN /\ g \in sock[o].enforcers
     /\ Update(o, [s EXCEPT !.ended = @ \/ (s.gen = g /\ ~s.endSent /\ ~s.destroyed)])
     /\ UNCHANGED <<kernel, streams, calls>>

-----------------------------------------------------------------------------
(* write, and _write once the transport exists. *)
SocketWrite(o) ==
  LET s == sock[o]
  IN /\ s.end # None /\ ~s.destroyed /\ ~s.ended /\ s.writing = None /\ s.sent < MaxChunks
     /\ Update(o, [s EXCEPT !.writing = s.end, !.sent = @ + 1])
     /\ UNCHANGED <<kernel, streams, calls>>

(* op_tcp_write on the end it began on.  It fails once the peer has reset   *)
(* the connection, and may fail once the peer has gone; that destroys the   *)
(* socket.  A write that outlives its socket is what keeps the FIN back.    *)
Written(o) ==
  LET s == [sock[o] EXCEPT !.writing = None]
      end == sock[o].writing
      sent == [kernel EXCEPT ![end[1]].sent[end[2]] = Append(@, s.sent),
                             ![end[1]].fin[end[2]] = @ \/ s.end # end]
      gone == kernel[end[1]].taken /\ <<end[1], Far(end[2])>> \notin streams
  IN /\ end # None
     /\ \/ ~kernel[end[1]].rst[end[2]] /\ kernel' = sent /\ Update(o, s) /\ UNCHANGED streams
        \/ /\ gone
           /\ kernel' = [kernel EXCEPT ![end[1]].fin[end[2]] = TRUE]
           /\ IF s.destroyed \/ s.end # end THEN Update(o, s) /\ UNCHANGED streams
              ELSE Teardown(o, [s EXCEPT !.destroyed = TRUE])
     /\ UNCHANGED calls

EndSocket(o) ==
  /\ sock[o].end # None /\ ~sock[o].ended /\ ~sock[o].destroyed
  /\ Update(o, [sock[o] EXCEPT !.ended = TRUE])
  /\ UNCHANGED <<kernel, streams, calls>>

(* _final, once nothing is being written, and the answer to its             *)
(* op_tcp_shutdown: 'finish'.                                               *)
Final(o) ==
  LET s == sock[o]
  IN /\ s.ended /\ ~s.endSent /\ s.writing = None /\ ~s.destroyed /\ s.end # None
     /\ Update(o, [s EXCEPT !.endSent = TRUE])
     /\ UNCHANGED <<kernel, streams, calls>>

ShutDone(o) ==
  LET s == sock[o]
  IN /\ s.endSent /\ ~s.finished /\ ~s.destroyed /\ s.end # None
     /\ Settle(o, ReleaseLoop([s EXCEPT !.finished = TRUE]), Drop(kernel, s))
     /\ UNCHANGED calls

-----------------------------------------------------------------------------
Destroy(o) ==
  LET s == sock[o]
  IN /\ (s.end # None \/ s.connecting) /\ ~s.destroyed /\ Call
     /\ kernel' = Drop(kernel, s)
     /\ Teardown(o, [s EXCEPT !.destroyed = TRUE])

(* resetAndDestroy: op_tcp_reset waits for the halves, and only closes if   *)
(* it cannot have them.                                                     *)
ResetAndDestroy(o) ==
  LET s == sock[o]
  IN /\ s.end # None /\ ~s.destroyed /\ Call
     /\ kernel' = IF s.writing # None THEN Drop(kernel, s)
                  ELSE [Drop(kernel, s) EXCEPT ![s.end[1]].rst[Far(s.end[2])] = TRUE]
     /\ Teardown(o, [s EXCEPT !.destroyed = TRUE])

PauseResume(o) ==
  LET s == sock[o]
  IN s.end # None /\ Call /\ Settle(o, SyncHandle([s EXCEPT !.paused = ~@], s.open), kernel)

RefUnref(o) ==
  LET s == sock[o]
  IN /\ s.end # None /\ Call
     /\ Update(o, SyncHandle([s EXCEPT !.unrefed = ~@], s.open))
     /\ UNCHANGED <<kernel, streams>>

RefUnrefServer ==
  /\ server.rid # None /\ Call
  /\ Serve(SyncHandle([server EXCEPT !.unrefed = ~@], server.open))
  /\ UNCHANGED <<kernel, streams>>

(* A start: whether the server listens yet, and the calls and the chunks    *)
(* that are used up.                                                        *)
NetStart(listening, made, written) ==
  /\ kernel = <<>> /\ streams = {} /\ calls = made /\ refed = IF listening THEN 1 ELSE 0
  /\ sock = [o \in Objects |-> [Fresh EXCEPT !.sent = written]]
  /\ server = [rid |-> IF listening THEN 1 ELSE None, listens |-> IF listening THEN 1 ELSE 0, loops |-> IF listening THEN {1} ELSE {},
               closing |-> FALSE, conns |-> {}, closes |-> 0, asked |-> 0, open |-> listening, unrefed |-> FALSE,
               released |-> FALSE, paused |-> FALSE, contrib |-> IF listening THEN 1 ELSE 0]

NetNext ==
  \/ Listen \/ CloseServer \/ RefUnrefServer \/ Connect \/ DialRefused \/ Dialled
  \/ \E rid \in server.loops : AcceptClosed(rid)
  \/ \E n \in 1..MaxTcp : AcceptOne(n)
  \/ \E o \in Objects :
       \/ ReadIssue(o) \/ ReadResult(o) \/ (\E g \in sock[o].enforcers : Enforcer(o, g))
       \/ SocketWrite(o) \/ Written(o) \/ EndSocket(o) \/ Final(o) \/ ShutDone(o)
       \/ Destroy(o) \/ ResetAndDestroy(o) \/ PauseResume(o) \/ RefUnref(o)

-----------------------------------------------------------------------------
(* Every open rid belongs to exactly one socket object, through accepts     *)
(* that race the server's close, dials that race a destroy, and reconnects; *)
(* a closed socket holds none (_dial, _acceptLoop, _teardown); and the      *)
(* count of handles that keep the event loop alive is exactly the number of *)
(* open, referenced, unreleased, unpaused sockets and servers (syncHandle   *)
(* and every place it is called from).                                      *)
HandlesCounted ==
  /\ streams = {sock[o].end : o \in Objects} \ {None}
  /\ \A o, p \in Objects : o # p /\ sock[o].end = sock[p].end => sock[o].end = None
  /\ refed = Counts(server) + Cardinality({o \in Objects : Counts(sock[o]) = 1})

(* What a socket reads on a connection is a prefix of what its peer wrote   *)
(* there, in order, never bytes of an earlier connection of the same        *)
(* object (_startReading's check of _rid); and a server reports 'close' at  *)
(* most once per close(), and only when it has no connection left           *)
(* (_maybeEmitClose).                                                       *)
BytesInOrder ==
  /\ \A o \in Objects, n \in DOMAIN kernel, x \in Sides :
       LET seen == SelectSeq(sock[o].got, LAMBDA g : g[1] = <<n, x>>)
       IN IsPrefix([i \in DOMAIN seen |-> seen[i][2]], kernel[n].sent[Far(x)])
  /\ server.closes <= server.asked
  /\ server.closes = server.asked /\ server.asked > 0 /\ server.listens = 1 => server.conns = {} /\ server.rid = None
=============================================================================

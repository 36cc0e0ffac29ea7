---------------------------- MODULE Http3Server ----------------------------
(***************************************************************************)
(* HTTP/3: the UDP loop of http3_server.py, the receiving half of          *)
(* quic/connection.py, the request streams of http3.py and the WebSocket   *)
(* streams of http3_websocket.py.                                          *)
(*                                                                         *)
(* One thread owns the socket: it admits connections, reassembles streams, *)
(* tops up the receive windows, feeds the HTTP/3 frames and drops          *)
(* connections.  Handlers run in a pool, a streamed body in a thread of    *)
(* its own, and so does a WebSocket's handler; they queue what they send   *)
(* and look at `closed' when they come to it.                              *)
(*                                                                         *)
(* The bytes of a request stream are HTTP/3 frames, each one unit long; a  *)
(* frame cut over two packets waits in RequestStream.buffer and shows as a *)
(* later arrival.  The client keeps to the windows it was granted; its     *)
(* packets may be lost, repeated, reordered and cut anew.  What the sender *)
(* does with queued bytes is in QuicSender: here it is a count.  Whether a *)
(* first flight opens a connection or is answered with a Retry is in       *)
(* QuicPath: here it may.                                                  *)
(***************************************************************************)
EXTENDS Integers, FiniteSets, Sequences, FiniteSetsExt

CONSTANTS
  Conns, Streams,   \* connections and the request streams that may be opened
  ConnOf,           \* the connection of a stream
  Contents,         \* what a stream may carry: [kind, frames], where a "huge"
                    \* frame outgrows the buffer before all of it is there
  MaxConnections,   \* max_connections
  MaxBody,          \* max_request_body_bytes
  MaxWorkers,       \* MAX_DISPATCH_WORKERS
  StreamWindow,     \* STREAM_RECEIVE_WINDOW
  ConnWindow,       \* CONNECTION_RECEIVE_WINDOW
  MaxPending,       \* MAX_PENDING_STREAM_BYTES
  MaxChunks,        \* bound: chunks of a streamed body
  Recut             \* may the client repeat a piece cut shorter?

ASSUME ServerConstants ==
  /\ ConnOf \in [Streams -> Conns] /\ IsFiniteSet(Streams)
  /\ \A r \in Contents : /\ r.kind \in {"plain", "streamed", "head", "socket"}
                         /\ r.frames \in Seq({"headers", "data", "huge", "bad"})
  /\ {MaxConnections, MaxWorkers} \subseteq Nat \ {0} /\ {MaxBody, MaxPending, MaxChunks} \subseteq Nat
  /\ {StreamWindow, ConnWindow} \subseteq Nat \ {0, 1}
  /\ Recut \in BOOLEAN

VARIABLES
  stop,       \* _stop was seen: the loop has ended
  conn,       \* a connection: new, open (in `connections'), gone (closed and dropped)
  silent,     \* not heard from within IDLE_TIMEOUT_SECONDS
  request,    \* what the client sends on a stream
  got,        \* history: the units that arrived, in packets that are acknowledged
  received,   \* StreamBuffer.received
  highest,    \* StreamBuffer.highest
  held,       \* StreamBuffer.pending: a set of pieces with different offsets
  ended,      \* StreamBuffer.final_size is known
  limit,      \* StreamBuffer.limit
  maxData,    \* _recv_max_data
  granted,    \* the largest MAX_STREAM_DATA and MAX_DATA sent
  h3,         \* RequestStream: [headers, body, finished, answered, rejected]
  job,        \* the request's handler in the pool, then its pump
  producer,   \* the body of a streamed response: none, live, closed or left
  chunks,     \* chunks of it that were queued
  whole,      \* pump: completed
  queued,     \* _queued_bytes
  out,        \* our side of a stream: none, open, fin or reset
  socket,     \* Http3WebSocketStream: [buffer, eof, closed]
  handler     \* the WebSocket's handler: none, running, receiving or done

tableVars == <<stop, conn, silent>>
rxVars == <<got, received, highest, held, ended, limit, maxData, granted>>
answerVars == <<job, producer, chunks, whole>>
sendVars == <<queued, out>>
socketVars == <<socket, handler>>
h3Vars == <<tableVars, request, rxVars, h3, answerVars, sendVars, socketVars>>

-----------------------------------------------------------------------------
Open(c) == conn[c] = "open"
Alive(s) == Open(ConnOf[s])
OpenConns == {c \in Conns : Open(c)}
StreamsOf(c) == {s \in Streams : ConnOf[s] = c}
Frames(s) == request[s].frames
Size(s) == Len(Frames(s))
Larger(a, b) == IF a > b THEN a ELSE b

\* Within one connection: the sum of what its streams have of something.
SumIn(f, c) == MapThenSumSet(LAMBDA s : f[s], StreamsOf(c))

H3Init ==
  /\ stop = FALSE /\ conn = [c \in Conns |-> "new"]
  /\ silent = {}
  /\ request \in [Streams -> Contents]
  /\ got = [s \in Streams |-> {}] /\ received = [s \in Streams |-> 0] /\ highest = [s \in Streams |-> 0]
  /\ held = [s \in Streams |-> {}] /\ ended = {} /\ limit = [s \in Streams |-> StreamWindow]
  /\ maxData = [c \in Conns |-> ConnWindow]
  /\ granted = [stream |-> limit, conn |-> maxData]
  /\ h3 = [s \in Streams |-> [headers |-> FALSE, body |-> 0, finished |-> FALSE, answered |-> FALSE, rejected |-> FALSE]]
  /\ job = [s \in Streams |-> "none"] /\ producer = [s \in Streams |-> "none"]
  /\ chunks = [s \in Streams |-> 0] /\ whole = {}
  /\ queued = [s \in Streams |-> 0] /\ out = [s \in Streams |-> "none"]
  /\ socket = [s \in Streams |-> [buffer |-> 0, eof |-> FALSE, closed |-> FALSE]]
  /\ handler = [s \in Streams |-> "none"]

-----------------------------------------------------------------------------
(* The table of connections. *)

HasSocket(s) == handler[s] # "none"

\* Fault: a dropped connection's WebSockets are not told.
DropsQuietly(sockets, cs) == sockets
\* _drop: every WebSocket of the connections sees the end of its stream.
Woken(sockets, cs) ==
  [s \in Streams |-> IF ConnOf[s] \in cs /\ HasSocket(s) THEN [sockets[s] EXCEPT !.eof = TRUE] ELSE sockets[s]]

Drop(cs) ==
  /\ conn' = [c \in Conns |-> IF c \in cs THEN "gone" ELSE conn[c]]
  /\ socket' = Woken(socket, cs)
  /\ silent' = silent \ cs

RoomWithout(idle) == Cardinality(OpenConns \ idle) < MaxConnections

\* handle_datagram for a datagram that finds no connection: room is made by what
\* is idle, and where there is some, the first flight may open a connection.
Connect(c) ==
  /\ ~stop /\ conn[c] = "new"
  /\ LET idle == IF Cardinality(OpenConns) >= MaxConnections THEN silent ELSE {} IN
     \E opens \in {FALSE, RoomWithout(idle)} :
       /\ idle # {} \/ opens
       /\ conn' = [d \in Conns |-> IF d \in idle THEN "gone" ELSE IF d = c /\ opens THEN "open" ELSE conn[d]]
       /\ socket' = Woken(socket, idle)
       /\ silent' = silent \ idle
  /\ UNCHANGED <<stop, request, rxVars, h3, answerVars, sendVars, handler>>

\* Nothing is heard from a connection for as long as the idle timeout.
Silence(c) ==
  /\ Open(c) /\ c \notin silent /\ silent' = silent \cup {c}
  /\ UNCHANGED <<stop, conn, request, rxVars, h3, answerVars, sendVars, socketVars>>

\* _tick and _expire_idle
Tick ==
  /\ ~stop /\ silent # {} /\ Drop(silent)
  /\ UNCHANGED <<stop, request, rxVars, h3, answerVars, sendVars, handler>>

\* CONNECTION_CLOSE from the client.
PeerCloses(c) ==
  /\ ~stop /\ Open(c) /\ Drop({c})
  /\ UNCHANGED <<stop, request, rxVars, h3, answerVars, sendVars, handler>>

\* The end of serve_forever: jobs that have not started are cancelled.
Stop ==
  /\ ~stop /\ stop' = TRUE /\ Drop(OpenConns)
  /\ job' = [s \in Streams |-> IF job[s] = "queued" THEN "none" ELSE job[s]]
  /\ UNCHANGED <<request, rxVars, h3, producer, chunks, whole, sendVars, handler>>

-----------------------------------------------------------------------------
(* A STREAM frame arrives. *)

Spans(p, u) == p.off <= u /\ u < p.off + p.len

\* StreamBuffer.add. An early piece takes the place of one with its offset.
Hold(pieces, p) == {q \in pieces : q.off # p.off} \cup {p}
\* Fault: a held piece counts only where the stream stops exactly at its offset.
ReachedExactly(s, p) ==
  LET at == Larger(received[s], p.off + p.len) IN
  IF \E q \in held[s] : q.off = at THEN at + (CHOOSE q \in held[s] : q.off = at).len ELSE at
Reached(s, p) ==
  Max({r \in received[s]..Size(s) :
         \A u \in received[s]..r - 1 : \E q \in held[s] \cup {p} : Spans(q, u)})

\* What an honest client may send: within both windows it was granted, and cut
\* as before, unless Recut.
Permitted(s, p) ==
  /\ p.off + p.len <= granted.stream[s]
  /\ SumIn(highest, ConnOf[s]) - highest[s] + Larger(highest[s], p.off + p.len) <= granted.conn[ConnOf[s]]
  /\ Recut \/ \A q \in held[s] : q.off = p.off => q.len <= p.len

\* Fault: a window is topped up only once less than nothing of it is left.
TopsUpLate(left, size) == left < 0
TopsUp(left, size) == left < size \div 2

OverLimit(s, p) ==
  LET end == p.off + p.len IN
  \/ end > limit[s]
  \/ SumIn(highest, ConnOf[s]) + Larger(0, end - highest[s]) > maxData[ConnOf[s]]

\* _replenish_windows, with the limits it advertises.
Replenish(s, r, fin) ==
  LET c == ConnOf[s]
      consumed == SumIn(received, c) - received[s] + r
      newLimit == IF ~fin /\ TopsUp(limit[s] - r, StreamWindow) THEN r + StreamWindow ELSE limit[s]
      newMax == IF TopsUp(maxData[c] - consumed, ConnWindow) THEN consumed + ConnWindow ELSE maxData[c]
  IN
  /\ limit' = [limit EXCEPT ![s] = newLimit]
  /\ maxData' = [maxData EXCEPT ![c] = newMax]
  /\ granted' = [stream |-> [granted.stream EXCEPT ![s] = Larger(@, newLimit)],
                 conn |-> [granted.conn EXCEPT ![c] = Larger(@, newMax)]]

\* RequestStream._on_frame, for a stream that is not, or is, a WebSocket yet,
\* and what feed does where a frame outgrows its buffer.
OnFrame(state, frame, isSocket) ==
  LET r == state.r IN
  IF state.error \/ r.rejected THEN state
  ELSE CASE frame = "headers" -> [state EXCEPT !.r.headers = TRUE]
         [] frame = "data" /\ ~r.headers -> [state EXCEPT !.error = TRUE]
         [] frame = "data" /\ r.headers /\ ~isSocket /\ r.body >= MaxBody ->
              [state EXCEPT !.r.rejected = TRUE, !.r.body = 0]
         [] frame = "data" /\ r.headers /\ (isSocket \/ r.body < MaxBody) -> [state EXCEPT !.r.body = @ + 1]
         [] frame = "huge" -> [state EXCEPT !.r.rejected = TRUE, !.r.body = 0]
         [] frame = "bad" -> [state EXCEPT !.error = TRUE]

\* RequestStream.feed with the frames numbered from+1 to to.
Feed(s, from, to, fin) ==
  LET r == h3[s]
      upTo[n \in from..to] == IF n = from THEN [r |-> r, error |-> FALSE]
                                ELSE OnFrame(upTo[n - 1], Frames(s)[n], HasSocket(s))
      fed == upTo[to]
  IN IF r.rejected THEN [r |-> [r EXCEPT !.finished = @ \/ fin], error |-> FALSE]
     ELSE IF fed.error \/ fed.r.rejected THEN fed
     ELSE [fed EXCEPT !.r.finished = @ \/ fin]

\* _pump_websocket
Pushed(s, r) ==
  /\ socket' = [socket EXCEPT ![s] = [@ EXCEPT !.buffer = @ + r.body, !.eof = @ \/ r.finished]]
  /\ h3' = [h3 EXCEPT ![s] = [r EXCEPT !.body = 0]]

Answered(r) == r.answered

Ready(r) == r.finished /\ r.headers

\* _on_stream_data, each way out of it.
OnStreamData(s, fed) ==
  LET r == fed.r IN
  \/ \* H3Error: a WebSocket sees the end, anything else nothing.
     /\ fed.error
     /\ h3' = [h3 EXCEPT ![s] = r]
     /\ socket' = IF HasSocket(s) THEN [socket EXCEPT ![s].eof = TRUE] ELSE socket
     /\ UNCHANGED <<out, job, handler>>
  \/ \* 413, once; a WebSocket is told nothing, of its FIN neither
     /\ ~fed.error /\ r.rejected
     /\ h3' = [h3 EXCEPT ![s] = [r EXCEPT !.answered = TRUE]]
     /\ out' = IF Answered(r) THEN out ELSE [out EXCEPT ![s] = "fin"]
     /\ UNCHANGED <<job, socket, handler>>
  \/ /\ ~fed.error /\ ~r.rejected /\ HasSocket(s)
     /\ Pushed(s, r) /\ UNCHANGED <<out, job, handler>>
  \/ \* _open_websocket refuses
     /\ ~fed.error /\ ~r.rejected /\ ~HasSocket(s) /\ ~Answered(r) /\ r.headers /\ request[s].kind = "socket"
     /\ h3' = [h3 EXCEPT ![s] = [r EXCEPT !.answered = TRUE]] /\ out' = [out EXCEPT ![s] = "fin"]
     /\ UNCHANGED <<job, socket, handler>>
  \/ \* _open_websocket accepts, and starts the handler
     /\ ~fed.error /\ ~r.rejected /\ ~HasSocket(s) /\ ~Answered(r) /\ r.headers /\ request[s].kind = "socket"
     /\ Pushed(s, [r EXCEPT !.answered = TRUE]) /\ out' = [out EXCEPT ![s] = "open"]
     /\ handler' = [handler EXCEPT ![s] = "running"]
     /\ UNCHANGED job
  \/ \* the request is complete
     /\ ~fed.error /\ ~r.rejected /\ request[s].kind # "socket"
     /\ Ready(r) /\ ~Answered(r)
     /\ h3' = [h3 EXCEPT ![s] = [r EXCEPT !.answered = TRUE]]
     /\ job' = [job EXCEPT ![s] = "queued"]
     /\ UNCHANGED <<out, socket, handler>>
  \/ \* nothing to do yet, or any more
     /\ ~fed.error /\ ~r.rejected /\ ~HasSocket(s)
     /\ IF request[s].kind = "socket" THEN ~r.headers \/ Answered(r)
        ELSE ~Ready(r) \/ Answered(r)
     /\ h3' = [h3 EXCEPT ![s] = r]
     /\ UNCHANGED <<out, job, socket, handler>>

\* _on_stream_frame for a piece of the client's stream, FIN where it ends.
OnStreamFrame(s) ==
  /\ ~stop /\ Alive(s)
  /\ silent' = silent \ {ConnOf[s]}
  /\ \E off \in 0..Size(s), len \in 0..Size(s) :
       LET p == [off |-> off, len |-> len]
           end == off + len
           fin == end = Size(s) \/ s \in ended
           r == IF off > received[s] THEN received[s] ELSE Reached(s, p)
       IN
       /\ end <= Size(s) /\ (len > 0 \/ off = Size(s)) /\ Permitted(s, p)
       /\ IF OverLimit(s, p)
          THEN /\ conn' = [conn EXCEPT ![ConnOf[s]] = "gone"]
               /\ socket' = Woken(socket, {ConnOf[s]})
               /\ UNCHANGED <<rxVars, h3, job, out, handler>>
          ELSE /\ got' = [got EXCEPT ![s] = @ \cup off..end - 1]
               /\ highest' = [highest EXCEPT ![s] = Larger(@, end)]
               /\ received' = [received EXCEPT ![s] = r]
               /\ held' = [held EXCEPT ![s] = IF off > received[s] THEN Hold(@, p) ELSE {q \in @ : q.off > r}]
               /\ ended' = IF fin THEN ended \cup {s} ELSE ended
               /\ Replenish(s, r, fin)
               /\ OnStreamData(s, Feed(s, received[s], r, fin /\ r = Size(s)))
               /\ UNCHANGED conn
  /\ UNCHANGED <<stop, request, producer, chunks, whole, queued>>

-----------------------------------------------------------------------------
(* The pool, the pumps and the handlers of WebSockets. *)

Busy == {s \in Streams : job[s] \in {"running", "answering"}}

\* _dispatch begins in a thread of the pool.
Start(s) ==
  /\ job[s] = "queued" /\ Cardinality(Busy) < MaxWorkers
  /\ job' = [job EXCEPT ![s] = "running"]
  /\ UNCHANGED <<tableVars, request, rxVars, h3, producer, chunks, whole, sendVars, socketVars>>

ProducerAfter(s) == IF Alive(s) THEN "live" ELSE "closed"

\* app.dispatch has answered; a streamed answer to a closed connection has its
\* producer closed and goes no further.  Nor does anything after what is no
\* Exception, which ends the job.
Respond(s) ==
  /\ job[s] = "running"
  /\ \/ \E streamed \in {FALSE, request[s].kind \in {"streamed", "head"}} :
          /\ producer' = [producer EXCEPT ![s] = IF streamed THEN ProducerAfter(s) ELSE "none"]
          /\ job' = [job EXCEPT ![s] = IF Alive(s) THEN "answering" ELSE "done"]
     \/ job' = [job EXCEPT ![s] = "done"] /\ UNCHANGED producer
  /\ UNCHANGED <<tableVars, request, rxVars, h3, chunks, whole, sendVars, socketVars>>

\* not is_stream or not send_body: the answer is queued at once, FIN included.
AtOnce(s) == producer[s] # "live" \/ request[s].kind = "head"

\* _send_response: all of the answer, or the head and a pump for the rest.  A head
\* that cannot be encoded is not queued, a pump that cannot start ends nothing.
Send(s) ==
  /\ job[s] = "answering"
  /\ \/ /\ ~AtOnce(s) /\ UNCHANGED producer
        /\ job' = [job EXCEPT ![s] = "pumping"] /\ out' = [out EXCEPT ![s] = "open"]
     \/ /\ out' = [out EXCEPT ![s] = IF AtOnce(s) THEN "fin" ELSE "open"] \/ UNCHANGED out
        /\ job' = [job EXCEPT ![s] = "done"]
        /\ producer' = [producer EXCEPT ![s] = IF @ = "live" THEN "left" ELSE @]
  /\ UNCHANGED <<tableVars, request, rxVars, h3, chunks, whole, queued, socketVars>>

\* pump: the producer yields a chunk, which is dropped when the connection is
\* closed, ends, or fails.
PumpChunk(s) ==
  /\ job[s] = "pumping"
  /\ \/ chunks[s] < MaxChunks /\ job' = [job EXCEPT ![s] = IF Alive(s) THEN "waiting" ELSE "ending"] /\ UNCHANGED whole
     \/ job' = [job EXCEPT ![s] = "ending"] /\ whole' = whole \cup {s}
     \/ job' = [job EXCEPT ![s] = "ending"] /\ UNCHANGED whole
  /\ UNCHANGED <<tableVars, request, rxVars, h3, producer, chunks, sendVars, socketVars>>

\* wait_for_send_room: room, a closed connection, or a wait that took too long.
PumpRoom(s) ==
  /\ job[s] = "waiting"
  /\ IF Alive(s) /\ queued[s] <= MaxPending
     THEN /\ job' = [job EXCEPT ![s] = "pumping"]
          /\ queued' = [queued EXCEPT ![s] = @ + 1] /\ chunks' = [chunks EXCEPT ![s] = @ + 1]
     ELSE job' = [job EXCEPT ![s] = "ending"] /\ UNCHANGED <<queued, chunks>>
  /\ UNCHANGED <<tableVars, request, rxVars, h3, producer, whole, out, socketVars>>

EndOf(s) == IF s \in whole THEN "fin" ELSE "reset"

\* The finally block of pump: reset_stream drops what is queued.
PumpEnd(s) ==
  /\ job[s] = "ending"
  /\ job' = [job EXCEPT ![s] = "done"] /\ producer' = [producer EXCEPT ![s] = "closed"]
  /\ out' = [out EXCEPT ![s] = EndOf(s)]
  /\ queued' = IF EndOf(s) = "reset" THEN [queued EXCEPT ![s] = 0] ELSE queued
  /\ UNCHANGED <<tableVars, request, rxVars, h3, chunks, whole, socketVars>>

\* drain_outbound: the socket thread sends queued bytes of a live connection.
Drain(s) ==
  /\ ~stop /\ Alive(s) /\ queued[s] > 0
  /\ queued' = [queued EXCEPT ![s] = @ - 1]
  /\ UNCHANGED <<tableVars, request, rxVars, h3, answerVars, out, socketVars>>

\* Http3WebSocketStream.recv is called, and returns.
WsRecv(s) ==
  /\ handler[s] = "running" /\ handler' = [handler EXCEPT ![s] = "receiving"]
  /\ UNCHANGED <<tableVars, request, rxVars, h3, answerVars, sendVars, socket>>

WsReturn(s) ==
  /\ handler[s] = "receiving"
  /\ \/ /\ socket[s].buffer > 0
        /\ socket' = [socket EXCEPT ![s].buffer = 0] /\ handler' = [handler EXCEPT ![s] = "running"]
        /\ UNCHANGED out
     \/ /\ socket[s].buffer = 0 /\ socket[s].eof
        /\ handler' = [handler EXCEPT ![s] = "done"]
        /\ socket' = [socket EXCEPT ![s].closed = TRUE] /\ out' = [out EXCEPT ![s] = "fin"]
  /\ UNCHANGED <<tableVars, request, rxVars, h3, answerVars, queued>>

\* The handler returns by itself; _run_websocket closes the stream.
WsLeave(s) ==
  /\ handler[s] = "running" /\ handler' = [handler EXCEPT ![s] = "done"]
  /\ socket' = [socket EXCEPT ![s].closed = TRUE] /\ out' = [out EXCEPT ![s] = "fin"]
  /\ UNCHANGED <<tableVars, request, rxVars, h3, answerVars, queued>>

-----------------------------------------------------------------------------
Works(s) == Start(s) \/ Respond(s) \/ Send(s) \/ PumpChunk(s) \/ PumpRoom(s) \/ PumpEnd(s)

H3Next ==
  \/ \E c \in Conns : Connect(c) \/ Silence(c) \/ PeerCloses(c)
  \/ Tick \/ Stop
  \/ \E s \in Streams : OnStreamFrame(s) \/ Works(s) \/ Drain(s) \/ WsRecv(s) \/ WsReturn(s) \/ WsLeave(s)

\* The threads of the pool, the pumps and the handlers go on; the client and
\* the network need not.
Fairness == \A s \in Streams : WF_h3Vars(Works(s)) /\ WF_h3Vars(WsReturn(s))

H3Spec == H3Init /\ [][H3Next]_h3Vars /\ Fairness

-----------------------------------------------------------------------------
\* The table never holds more than max_connections; every variable keeps its
\* shape.
H3TypeOK ==
  /\ Cardinality(OpenConns) <= MaxConnections /\ silent \subseteq OpenConns
  /\ \A s \in Streams : received[s] <= highest[s] /\ highest[s] <= Size(s) /\ queued[s] \in 0..MaxPending + 1
  /\ \A s \in Streams : job[s] \in {"none", "queued", "running", "answering", "pumping", "waiting", "ending", "done"}
  /\ \A s \in Streams : out[s] \in {"none", "open", "fin", "reset"}

\* "Arrived early: hold it until the gap in front is filled."
\* (connection.py:135): what arrived, and is acknowledged, is delivered or held.
HeldUntilDelivered ==
  \A s \in Streams : \A u \in got[s] : u < received[s] \/ \E p \in held[s] : Spans(p, u)

\* A client that keeps to its windows is never closed for passing them, and
\* once all it sent was delivered it may send on: credit cannot run out with
\* nobody left to grant it.
CreditNeverStops ==
  \A s \in Streams : Alive(s) /\ s \notin ended =>
    /\ \A p \in [off : 0..Size(s), len : 0..Size(s)] : Permitted(s, p) => ~OverLimit(s, p)
    /\ (\A t \in StreamsOf(ConnOf[s]) : received[t] = highest[t]) =>
         granted.stream[s] > received[s] /\ granted.conn[ConnOf[s]] > SumIn(highest, ConnOf[s])

\* A handler runs at most once for a stream, not after another answer, and only
\* for a stream all of whose frames have been delivered; when they make a
\* request, its body is all their data, none left out, and within the limit.
Ran(s) == job[s] # "none"
Sound(s) == Frames(s) # <<>> /\ Frames(s)[1] = "headers" /\ \A i \in 1..Size(s) : Frames(s)[i] \notin {"huge", "bad"}
DataUpTo(s, n) == {i \in 1..n : Frames(s)[i] = "data"}
RequestIsWhole ==
  \A s \in Streams : Ran(s) =>
    /\ received[s] = Size(s) /\ h3[s].finished /\ h3[s].body <= MaxBody
    /\ Sound(s) => h3[s].body = Cardinality(DataUpTo(s, Size(s)))
OneAnswer == [][\A s \in Streams : out[s] \in {"fin", "reset"} => out'[s] = out[s] /\ (Ran(s) \/ job'[s] = "none")]_h3Vars

\* A streamed answer ends with FIN only when its producer had ended by itself
\* and all of it was queued; any other end is a reset.
HonestEnd ==
  \A s \in Streams : producer[s] = "closed" /\ out[s] = "fin" => s \in whole

\* Whatever becomes of the connection, every producer whose pump runs, or whose
\* connection was closed before the answer, is closed.  The code leaves three
\* alone: that of an answer to HEAD, of one whose head cannot be encoded and of
\* one whose pump cannot start.
Pumped(s) == job[s] \in {"pumping", "waiting", "ending"}
ProducersClosed ==
  \A s \in Streams :
    /\ producer[s] = "live" ~> producer[s] # "live"
    /\ Pumped(s) ~> producer[s] = "closed"

\* A handler that waits in recv() does not outlive its connection, nor the end
\* of its stream.  For a WebSocket whose partial frame outgrew its buffer the end
\* of the stream is not looked for any more: it waits for the connection's.
HandlersWake ==
  \A s \in Streams :
    /\ handler[s] = "receiving" /\ conn[ConnOf[s]] = "gone" ~> handler[s] # "receiving"
    /\ handler[s] = "receiving" /\ h3[s].finished /\ ~h3[s].rejected ~> handler[s] # "receiving"

\* From pieces in any order to one handler: each byte is delivered or held, only
\* whole requests are handled, and only whole answers end as such.
StreamSound == H3TypeOK /\ HeldUntilDelivered /\ RequestIsWhole /\ HonestEnd

\* What runs for a stream answers once and, but for what the two name, does not
\* outlive it.
AnswersFinish == OneAnswer /\ ProducersClosed /\ HandlersWake
=============================================================================

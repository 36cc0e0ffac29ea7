------------------------------- MODULE Http2 --------------------------------
(***************************************************************************)
(* wsbuilder/http2.py: one HTTP/2 connection.  A frame loop reads what the *)
(* client sends, a pool of threads runs the handlers, and each streamed    *)
(* body has a thread of its own.  One lock serialises the handling of      *)
(* frames, the answers and the chunks; the application runs outside it.    *)
(*                                                                         *)
(* A frame is read and handled in one step: while the loop holds the lock  *)
(* nothing else of the connection moves.  Octets are counted in units; a   *)
(* header block is what the code makes of it, a response its length.       *)
(*                                                                         *)
(* The client keeps to the protocol: it opens streams in order, ends each  *)
(* at most once, keeps to the windows the server advertised.  Any other    *)
(* frame is BadFrame or BadStreamFrame.                                    *)
(***************************************************************************)
EXTENDS Integers, Sequences, FiniteSets, SequencesExt

CONSTANTS
  N,                \* bound: the client's stream identifiers are 1..N
  StreamLimits,     \* the values MAX_CONCURRENT_STREAMS may have
  MaxBody,          \* max_body_bytes
  DefaultWindow,    \* DEFAULT_INITIAL_WINDOW_SIZE, which the server's SETTINGS advertise
  PeerWindows,      \* the values of INITIAL_WINDOW_SIZE in the client's SETTINGS
  MaxWindow,        \* MAX_WINDOW_SIZE, 2^31 - 1
  RecentlyReset,    \* RECENTLY_RESET_STREAMS
  PendingLimit,     \* MAX_PENDING_STREAM_BYTES
  Lengths,          \* the lengths a response body may have
  ChunkBound,       \* bound: chunks of a streamed body
  Streamed,         \* bound: streams whose response may be streamed
  Split,            \* bound: streams whose header blocks may need a CONTINUATION
  CreditBound       \* bound: SETTINGS and WINDOW_UPDATE frames the client sends

Streams == 1..N

ASSUME Http2Constants ==
  /\ N \in Nat \ {0} /\ StreamLimits \subseteq Nat \ {0}
  /\ MaxBody \in Nat /\ PendingLimit \in Nat \ {0} /\ RecentlyReset \in Nat \ {0}
  /\ MaxWindow \in Nat /\ DefaultWindow \in 0..MaxWindow /\ PeerWindows \subseteq 0..MaxWindow
  /\ Streamed \subseteq Streams /\ Split \subseteq Streams
  /\ Lengths \subseteq Nat /\ ChunkBound \in Nat /\ CreditBound \in Nat

None == 0            \* no stream
RefusalSize == 1     \* the length of the body of a 413 or a 431

VARIABLES
  streamLimit,  \* local_settings[SETTINGS_MAX_CONCURRENT_STREAMS]
  stream,       \* every Stream, those the connection has forgotten included
  recent,       \* _recently_reset, the oldest first
  cwin,         \* outbound.available of the connection
  lastId,       \* last_stream_id
  pend,         \* _pending_headers
  peerInit,     \* peer_settings[SETTINGS_INITIAL_WINDOW_SIZE]
  serve,        \* where serve() is
  snap,         \* the threads _streaming has found alive
  up,           \* the socket is open: what is sent leaves
  reading,      \* _reading
  abandoned,    \* _abandoned
  handler,      \* the handler of each stream
  producer,     \* the thread that sends each streamed body
  chunks,       \* chunks each streamed body has produced
  producers,    \* _producers
  starting,     \* the stream whose producer is listed and not started; its
                \* handler holds the lock
  opened,       \* the client: streams it has opened
  ended,        \* the client: streams it has ended or reset
  credit,       \* the client: the window it has for each stream
  credits,      \* SETTINGS and WINDOW_UPDATE frames handled
  granted       \* history: credit the client gave the connection

conn == <<stream, recent, cwin>>
heads == <<lastId, pend>>
serving == <<serve, snap>>
flags == <<up, reading, abandoned>>
bodies == <<producer, chunks, producers, starting>>
clientSide == <<opened, ended, credit>>
grants == <<peerInit, credits, granted>>
h2Vars == <<streamLimit, conn, heads, serving, flags, handler, bodies, clientSide, grants>>

NoBlock == [s |-> None, end |-> FALSE, request |-> FALSE]
InLoop == {"serving", "polled", "handling"}
Alive == {"fetch", "blocked", "closing", "escaping"}   \* Thread.is_alive()
Working == {"running", "starting", "failing"}    \* a pool thread has the handler

StreamRecord ==
  [state : {"idle", "open", "remote", "local", "closed"},
   known : BOOLEAN,            \* it is in the dictionary streams
   seen : BOOLEAN,             \* headers is not empty
   body : 0..MaxBody, rejected : BOOLEAN,
   reset : BOOLEAN,            \* reset_code is not None
   inWin : 0..MaxWindow,       \* inbound.available
   win : Int,                  \* outbound.available
   out : Nat,                  \* the length of pending_output
   endAfter : BOOLEAN,         \* pending_end_stream
   given : Nat, sent : Nat,    \* history: credit received, octets sent
   endSent : BOOLEAN, answered : Nat]   \* history: END_STREAM sent, answers sent

\* "escaped": it ended by what is no Exception (SystemExit), which nothing here
\* catches and the pool keeps in a future nobody asks.
HandlersOfStreams == [Streams -> {"none", "queued", "cancelled", "done", "escaped"} \cup Working]

\* The types: of what is not one of conn, then of all.
H2Types ==
  /\ streamLimit \in StreamLimits /\ lastId \in 0..N
  /\ pend \in [s : Streams \cup {None}, end : BOOLEAN, request : BOOLEAN]
  /\ peerInit \in 0..MaxWindow /\ credits \in 0..CreditBound /\ granted \in Nat
  /\ serve \in InLoop \cup {"failing", "leaving", "stopping", "joining", "over"}
  /\ snap \subseteq Streams /\ producers \subseteq Streams
  /\ up \in BOOLEAN /\ reading \in BOOLEAN /\ abandoned \in BOOLEAN
  /\ handler \in HandlersOfStreams
  /\ producer \in [Streams -> {"none", "unstarted", "done", "escaped"} \cup Alive]
  /\ chunks \in [Streams -> 0..ChunkBound]
  /\ starting \in Streams \cup {None}
  /\ opened \subseteq Streams /\ ended \subseteq opened
  /\ credit \in [Streams -> 0..DefaultWindow]

H2TypeOK ==
  /\ H2Types
  /\ stream \in [Streams -> StreamRecord] /\ cwin \in 0..MaxWindow
  /\ recent \in SeqOf(Streams, RecentlyReset)

NewStream(window) ==
  [state |-> "idle", known |-> TRUE, seen |-> FALSE, body |-> 0, rejected |-> FALSE,
   reset |-> FALSE, inWin |-> window, win |-> window, out |-> 0, endAfter |-> FALSE,
   given |-> 0, sent |-> 0, endSent |-> FALSE, answered |-> 0]

H2Init ==
  /\ streamLimit \in StreamLimits
  /\ stream = [s \in Streams |-> [NewStream(0) EXCEPT !.known = FALSE]]
  /\ recent = <<>> /\ cwin = DefaultWindow
  /\ lastId = 0 /\ pend = NoBlock
  /\ peerInit \in PeerWindows /\ credits = 0 /\ granted = 0   \* its first SETTINGS read
  /\ serve = "serving" /\ snap = {}
  /\ up = TRUE /\ reading = TRUE /\ abandoned = FALSE
  /\ handler = [s \in Streams |-> "none"]
  /\ producer = [s \in Streams |-> "none"] /\ chunks = [s \in Streams |-> 0]
  /\ producers = {} /\ starting = None
  /\ opened = {} /\ ended = {} /\ credit = [s \in Streams |-> DefaultWindow]

-----------------------------------------------------------------------------
(***************************************************************************)
(* One stream: its state and its output.  A step of the connection is a    *)
(* chain of operators on the record Conn.                                  *)
(***************************************************************************)
EndRemote(t) ==
  [t EXCEPT !.state = CASE @ = "open" -> "remote" [] @ = "local" -> "closed" [] OTHER -> @]

EndLocal(t) ==
  [t EXCEPT !.state = CASE @ \in {"open", "idle"} -> "local"
                        [] @ = "remote" -> "closed" [] OTHER -> @,
            !.endSent = TRUE]

OpenRemote(t, end) == [t EXCEPT !.state = IF end THEN "remote" ELSE "open"]
Reset(t) == [t EXCEPT !.state = "closed", !.reset = TRUE]

Conn == [stream |-> stream, recent |-> recent, cwin |-> cwin]
Become(c) == stream' = c.stream /\ recent' = c.recent /\ cwin' = c.cwin
With(c, s, t) == [c EXCEPT !.stream[s] = t]

\* What both windows let out of pending_output.
Sendable(t, room) == Max({0, Min({t.out, t.win, room})})

DrainedAtOnce(t, n) ==  \* Fault: END_STREAM on a partial flush
  LET u == [t EXCEPT !.out = @ - n, !.win = @ - n, !.sent = @ + n]
  IN  IF u.endAfter THEN EndLocal([u EXCEPT !.endAfter = FALSE]) ELSE u

\* The DATA frames of one flush; the last one ends the stream.
Drained(t, n) ==
  LET u == [t EXCEPT !.out = @ - n, !.win = @ - n, !.sent = @ + n]
  IN  IF u.out = 0 /\ u.endAfter THEN EndLocal([u EXCEPT !.endAfter = FALSE]) ELSE u

FlushStream(c, s) ==
  LET n == Sendable(c.stream[s], c.cwin)
  IN  [c EXCEPT !.stream[s] = Drained(@, n), !.cwin = @ - n]

\* The streams in the order of their numbers, which is that of the dictionary.
InOrder == [s \in Streams |-> s]

FlushOpen(c) ==  \* Fault: a stream the client has ended is passed over
  LET FlushNext(d, s) == IF d.stream[s].known /\ d.stream[s].out > 0 /\ d.stream[s].state = "open"
                           THEN FlushStream(d, s) ELSE d
  IN  FoldLeft(FlushNext, c, InOrder)

FlushIfLive(c, s) ==
  LET t == c.stream[s]
  IN  IF t.known /\ t.out > 0 /\ t.state # "closed" THEN FlushStream(c, s) ELSE c
FlushAll(c) == FoldLeft(FlushIfLive, c, InOrder)

\* _send_data: what the windows allow goes out, the rest waits.
SendData(c, s, n, last) ==
  FlushStream(With(c, s, [c.stream[s] EXCEPT !.out = @ + n, !.endAfter = last]), s)

\* Beyond RECENTLY_RESET_STREAMS the oldest identifier is forgotten.
Remembered(q, s) == IF Len(q) < RecentlyReset THEN Append(q, s) ELSE Append(Tail(q), s)

\* A thread that still holds the Stream sees that it is closed, and its output.
Forgotten(t) ==
  [t EXCEPT !.known = FALSE, !.body = 0, !.inWin = 0, !.win = 0, !.endAfter = FALSE,
            !.given = 0]

ReleaseIfClosed(c, s) ==
  LET t == c.stream[s]
  IN  IF t.known /\ t.state = "closed"
        THEN [With(c, s, Forgotten(t)) EXCEPT !.recent = IF t.reset THEN Remembered(@, s) ELSE @]
        ELSE c
ReleaseClosed(c) == FoldLeft(ReleaseIfClosed, c, InOrder)

Settle(c) == Become(ReleaseClosed(c))

-----------------------------------------------------------------------------
(***************************************************************************)
(* Frames.  The loop has read a whole frame and holds the lock.            *)
(***************************************************************************)
FrameRead == serve = "serving" /\ up /\ starting = None
Whole == FrameRead /\ pend = NoBlock    \* any frame but CONTINUATION

OpenStreams == Cardinality({s \in Streams : stream[s].known /\ stream[s].state # "closed"})

\* 413 or 431 at once, then RST_STREAM(NO_ERROR) unless the answer still waits.
RefuseEarly(c, s) ==
  LET d == SendData(With(c, s, [c.stream[s] EXCEPT !.rejected = TRUE, !.body = 0,
                                                   !.answered = @ + 1]),
                    s, RefusalSize, TRUE)
      t == d.stream[s]
  IN  IF t.state # "closed" /\ t.out = 0 THEN With(d, s, Reset(t)) ELSE d

\* A request that does not validate is a StreamError.
Dispatch(c, s, valid) ==
  IF valid THEN Settle(c) /\ handler' = [handler EXCEPT ![s] = "queued"]
           ELSE Settle(With(c, s, Reset(c.stream[s]))) /\ UNCHANGED handler

\* What a complete header block is: a list within the limits, one whose
\* content-length exceeds max_body_bytes, one over max_header_bytes.
Kinds == {"plain", "declaresMore", "large"}

FinishHeaderBlock(c, s, end, request, kind, valid) ==
  LET t == c.stream[s]
      open == With(c, s, OpenRemote([t EXCEPT !.seen = kind # "large"], end))
  IN  IF ~t.known \/ t.state = "closed"
        THEN Settle(c) /\ UNCHANGED handler
      ELSE IF kind = "large"
        THEN Settle(RefuseEarly(IF t.seen THEN c ELSE open, s)) /\ UNCHANGED handler
      ELSE IF t.seen
        THEN Dispatch(With(c, s, EndRemote(t)), s, valid)
      ELSE IF end
        THEN Dispatch(open, s, valid /\ request)
      ELSE /\ Settle(IF kind = "declaresMore" THEN RefuseEarly(open, s) ELSE open)
           /\ UNCHANGED handler

HeaderBlock(c, s, end, request, whole, kind, valid) ==
  IF whole
    THEN pend' = NoBlock /\ FinishHeaderBlock(c, s, end, request, kind, valid)
    ELSE pend' = [s |-> s, end |-> end, request |-> request] /\ Settle(c) /\ UNCHANGED handler

\* The request's header block, or the trailers, which end the stream.
OnHeaders(s, end, whole, kind, valid) ==
  /\ Whole /\ (whole \/ s \in Split)
  /\ LET request == \A o \in opened : o < s
         fresh == ~stream[s].known /\ s > lastId
     IN  /\ request \/ (s \in opened \ ended /\ end)
         /\ opened' = opened \cup {s}
         /\ ended' = IF end THEN ended \cup {s} ELSE ended
         /\ \/ /\ fresh /\ OpenStreams >= streamLimit   \* RST_STREAM(REFUSED_STREAM)
               /\ Settle(Conn) /\ UNCHANGED <<heads, handler>>
            \/ /\ fresh /\ OpenStreams < streamLimit
               /\ lastId' = s
               /\ HeaderBlock(With(Conn, s, NewStream(peerInit)), s, end, request, whole, kind, valid)
            \/ /\ stream[s].known \/ (~fresh /\ s \in ToSet(recent))
               /\ UNCHANGED lastId
               /\ HeaderBlock(Conn, s, end, request, whole, kind, valid)
  /\ UNCHANGED <<streamLimit, serving, flags, bodies, credit, grants>>

OnContinuation(kind, valid) ==
  /\ FrameRead /\ pend # NoBlock
  /\ HeaderBlock(Conn, pend.s, pend.end, pend.request, TRUE, kind, valid)
  /\ UNCHANGED <<streamLimit, lastId, serving, flags, bodies, clientSide, grants>>

\* DATA the client's window allows.  The window of a body that is dropped is
\* not handed back.
OnData(s, n, end, valid) ==
  /\ Whole
  /\ s \in opened \ ended /\ n <= credit[s] /\ (n > 0 \/ end)
  /\ ended' = IF end THEN ended \cup {s} ELSE ended
  /\ LET t == stream[s]
         dead == ~t.known \/ t.state = "closed"
         Kept(u) == IF end THEN EndRemote(u) ELSE u
         taken == [t EXCEPT !.inWin = @ - n]
     IN  \/ /\ dead
            /\ Settle(Conn)
            /\ UNCHANGED <<credit, handler>>
         \/ /\ ~dead /\ n <= t.inWin /\ t.rejected
            /\ Settle(With(Conn, s, Kept(taken))) /\ credit' = [credit EXCEPT ![s] = @ - n]
            /\ UNCHANGED handler
         \/ /\ ~dead /\ n <= t.inWin /\ ~t.rejected /\ t.body + n > MaxBody
            /\ Settle(RefuseEarly(With(Conn, s, taken), s))
            /\ credit' = [credit EXCEPT ![s] = @ - n]
            /\ UNCHANGED handler
         \/ /\ ~dead /\ n <= t.inWin /\ ~t.rejected /\ t.body + n <= MaxBody
            /\ LET u == Kept([t EXCEPT !.body = @ + n])
               IN  IF end THEN Dispatch(With(Conn, s, u), s, valid)
                          ELSE Settle(With(Conn, s, u)) /\ UNCHANGED handler
            /\ UNCHANGED credit
  /\ UNCHANGED <<streamLimit, heads, serving, flags, bodies, opened, grants>>

OnRstStream(s) ==
  /\ Whole /\ stream[s].known
  /\ ended' = ended \cup {s}
  /\ Settle(With(Conn, s, Reset(stream[s])))
  /\ UNCHANGED <<streamLimit, heads, serving, flags, handler, bodies, opened, credit, grants>>

Adjusted(w) ==
  [s \in Streams |-> IF stream[s].known THEN [stream[s] EXCEPT !.win = @ + w - peerInit]
                                        ELSE stream[s]]

OnSettings(w) ==
  /\ Whole /\ credits < CreditBound
  /\ credits' = credits + 1
  /\ peerInit' = w
  /\ LET moved == [Conn EXCEPT !.stream = Adjusted(w)]
     IN  /\ \A s \in Streams : moved.stream[s].known => moved.stream[s].win <= MaxWindow
         /\ Settle(IF w > peerInit THEN FlushAll(moved) ELSE moved)
  /\ UNCHANGED <<streamLimit, heads, serving, flags, handler, bodies, clientSide, granted>>

\* WINDOW_UPDATE on stream 0.
OnConnectionCredit(k) ==
  /\ Whole /\ credits < CreditBound
  /\ credits' = credits + 1
  /\ cwin + k <= MaxWindow
  /\ granted' = granted + k
  /\ Settle(FlushAll([Conn EXCEPT !.cwin = @ + k]))
  /\ UNCHANGED <<streamLimit, heads, serving, flags, handler, bodies, clientSide, peerInit>>

\* WINDOW_UPDATE on a stream; too much credit resets that stream.
OnStreamCredit(s, k) ==
  /\ Whole /\ credits < CreditBound /\ stream[s].known
  /\ credits' = credits + 1
  /\ LET t == stream[s]
     IN  Settle(IF t.win + k > MaxWindow
                  THEN With(Conn, s, Reset(t))
                  ELSE FlushStream(With(Conn, s, [t EXCEPT !.win = @ + k, !.given = @ + k]), s))
  /\ UNCHANGED <<streamLimit, heads, serving, flags, handler, bodies, clientSide, peerInit,
                 granted>>

\* Every frame that raises ConnectionError_, every block that raises HPACKError:
\* the exception leaves handle_frame, and the lock.
BadFrame ==
  /\ FrameRead /\ serve' = "failing"
  /\ UNCHANGED <<streamLimit, conn, heads, snap, flags, handler, bodies, clientSide, grants>>

\* A frame that raises StreamError for a stream there is.
BadStreamFrame(s) ==
  /\ Whole /\ stream[s].known
  /\ Settle(With(Conn, s, Reset(stream[s])))
  /\ UNCHANGED <<streamLimit, heads, serving, flags, handler, bodies, clientSide, grants>>

-----------------------------------------------------------------------------
(***************************************************************************)
(* Handlers, on the connection's pool.                                     *)
(***************************************************************************)
\* _max_handlers: at most one pool thread per stream that may be open.
RunHandler(s) ==
  /\ handler[s] = "queued"
  /\ Cardinality({r \in Streams : handler[r] \in Working}) < streamLimit
  /\ handler' = [handler EXCEPT ![s] = "running"]
  /\ UNCHANGED <<streamLimit, conn, heads, serving, flags, bodies, clientSide, grants>>

\* The handler of s has its result and the lock.
Answering(s) == handler[s] = "running" /\ starting = None
Answerable(s) == ~abandoned /\ stream[s].state # "closed"     \* not _stream_abandoned
HandlerTo(s, h) ==
  /\ handler' = [handler EXCEPT ![s] = h]
  /\ UNCHANGED <<streamLimit, heads, serving, flags, clientSide, grants>>

LeftOpen(s) == Conn  \* Fault: the stream is not reset
ResetIfLive(s) ==
  IF Answerable(s) THEN With(Conn, s, Reset(stream[s])) ELSE Conn

\* dispatch() raises SystemExit, or what else is no Exception: nobody resets the
\* stream.
HandlerEscapes(s) ==
  /\ handler[s] = "running"
  /\ HandlerTo(s, "escaped") /\ UNCHANGED <<conn, bodies>>

HandlerRaises(s) ==
  /\ Answering(s)
  /\ Settle(ResetIfLive(s))
  /\ HandlerTo(s, "done") /\ UNCHANGED bodies

\* The stream was reset, or the connection is gone, while the handler worked.
Unsent(s) ==
  /\ Answering(s) /\ ~Answerable(s)
  /\ Settle(Conn)
  /\ HandlerTo(s, "done") /\ UNCHANGED bodies

SendFails(s) ==
  /\ Answering(s) /\ Answerable(s) /\ ~up
  /\ HandlerTo(s, "done") /\ UNCHANGED <<conn, bodies>>

\* A response whose body is at hand; of a HEAD request only its headers.
Answer(s, n) ==
  /\ Answering(s) /\ Answerable(s) /\ up
  /\ LET t == [stream[s] EXCEPT !.answered = @ + 1]
     IN  Settle(IF n = 0 THEN With(Conn, s, EndLocal(t)) ELSE SendData(With(Conn, s, t), s, n, TRUE))
  /\ HandlerTo(s, "done") /\ UNCHANGED bodies

\* encode() raises; the lock is released before _run_handler takes it again.
Unencodable(s) ==
  /\ Answering(s) /\ Answerable(s)
  /\ HandlerTo(s, "failing") /\ UNCHANGED <<conn, bodies>>

FailResponse(s) ==
  /\ handler[s] = "failing" /\ starting = None
  /\ Settle(ResetIfLive(s))
  /\ HandlerTo(s, "done") /\ UNCHANGED bodies

\* Headers go out; a thread is listed for the body, then started.
AnswerStreamed(s) ==
  /\ s \in Streamed /\ Answering(s) /\ Answerable(s) /\ up
  /\ Become(With(Conn, s, [stream[s] EXCEPT !.answered = @ + 1]))
  /\ producer' = [producer EXCEPT ![s] = "unstarted"]
  /\ producers' = producers \cup {s} /\ starting' = s
  /\ HandlerTo(s, "starting") /\ UNCHANGED chunks

StartProducer(s) ==
  /\ starting = s
  /\ starting' = None /\ producer' = [producer EXCEPT ![s] = "fetch"]
  /\ Settle(Conn)
  /\ HandlerTo(s, "done") /\ UNCHANGED <<chunks, producers>>

\* Thread.start() raises RuntimeError.
ProducerNotStarted(s) ==
  /\ starting = s
  /\ starting' = None
  /\ HandlerTo(s, "failing") /\ UNCHANGED <<conn, producer, chunks, producers>>

-----------------------------------------------------------------------------
(***************************************************************************)
(* _produce, the thread of one streamed body.                              *)
(***************************************************************************)
ProducerTo(s, from, to) ==
  /\ producer[s] = from /\ starting = None
  /\ producer' = [producer EXCEPT ![s] = to]
  /\ UNCHANGED <<streamLimit, heads, serving, flags, handler, producers, starting, clientSide,
                 grants>>

\* The generator yields; the chunk goes out as far as the windows allow.  A
\* send on a closed socket raises OSError.
Chunk(s) ==
  /\ Answerable(s) /\ chunks[s] < ChunkBound
  /\ chunks' = [chunks EXCEPT ![s] = @ + 1]
  /\ LET c == SendData(Conn, s, 1, stream[s].endAfter)
     IN  /\ up \/ c.cwin = cwin
         /\ Become(c)
         /\ ProducerTo(s, "fetch", IF c.stream[s].out < PendingLimit THEN "fetch"
                                   ELSE IF reading THEN "blocked" ELSE "closing")

\* A WINDOW_UPDATE made room, or no credit can arrive any more.
Wake(s) ==
  /\ \/ stream[s].out < PendingLimit /\ ProducerTo(s, "blocked", "fetch")
     \/ /\ stream[s].out >= PendingLimit /\ (~Answerable(s) \/ ~reading)
        /\ ProducerTo(s, "blocked", "closing")
  /\ UNCHANGED <<conn, chunks>>

\* The next chunk, or the end of the body, comes when it is too late.
BodyUnsent(s) ==
  /\ ~Answerable(s) \/ ~up
  /\ ProducerTo(s, "fetch", "closing") /\ UNCHANGED <<conn, chunks>>

\* The generator is exhausted.
Exhausted(s) ==
  /\ Answerable(s)
  /\ LET t == stream[s]
         c == IF t.out > 0 THEN SendData(Conn, s, 0, TRUE) ELSE With(Conn, s, EndLocal(t))
     IN  (up \/ (t.out > 0 /\ c.cwin = cwin)) /\ Become(c)
  /\ ProducerTo(s, "fetch", "closing") /\ UNCHANGED chunks

\* The generator raises.
BodyFails(s) ==
  /\ Become(IF stream[s].state # "closed" THEN With(Conn, s, Reset(stream[s])) ELSE Conn)
  /\ ProducerTo(s, "fetch", "closing") /\ UNCHANGED chunks

\* The generator raises what is no Exception: only the finally runs.
BodyEscapes(s) == ProducerTo(s, "fetch", "escaping") /\ UNCHANGED <<conn, chunks>>

\* close() of the response's stream has returned, or raised; what is no Exception
\* goes past the release of the closed streams too.
CloseBody(s) ==
  /\ Settle(Conn) \/ UNCHANGED conn
  /\ ProducerTo(s, "closing", "done") \/ ProducerTo(s, "escaping", "escaped")
  /\ UNCHANGED chunks

-----------------------------------------------------------------------------
(***************************************************************************)
(* serve()                                                                 *)
(***************************************************************************)
LoopTo(from, to) ==
  /\ serve = from /\ serve' = to
  /\ UNCHANGED <<streamLimit, conn, heads, clientSide, grants>>

\* recv times out: _streaming reads the list of producers, without the lock.
IdleTimesOut ==
  /\ LoopTo("serving", "polled")
  /\ snap' = {s \in producers : producer[s] \in Alive}
  /\ UNCHANGED <<flags, handler, bodies>>

\* ... and replaces it by those it found alive.
KeepAliveProducers ==
  /\ LoopTo("polled", IF snap # {} THEN "serving" ELSE "handling")
  /\ producers' = snap /\ snap' = {}
  /\ UNCHANGED <<flags, handler, producer, chunks, starting>>

\* _handling: with a handler at work the loop reads on, else it is over.
PollHandlers ==
  /\ starting = None
  /\ LoopTo("handling", IF \E s \in Streams : handler[s] \in {"queued"} \cup Working
                          THEN "serving" ELSE "leaving")
  /\ UNCHANGED <<snap, flags, handler, bodies>>

\* The client closes its side, or reading fails.
ReadFails == LoopTo("serving", "leaving") /\ UNCHANGED <<snap, flags, handler, bodies>>

OnGoaway == Whole /\ LoopTo("serving", "leaving") /\ UNCHANGED <<snap, flags, handler, bodies>>

Abandon ==
  /\ LoopTo("failing", "leaving")
  /\ abandoned' = TRUE
  /\ UNCHANGED <<snap, up, reading, handler, bodies>>

\* _finish_handlers: all have ended, or PRODUCER_GRACE_SECONDS have passed;
\* those the pool has not begun are cancelled.
FinishHandlers ==
  /\ LoopTo("leaving", "stopping")
  /\ handler' = [s \in Streams |-> IF handler[s] = "queued" THEN "cancelled" ELSE handler[s]]
  /\ UNCHANGED <<snap, flags, bodies>>

StopReading ==
  /\ starting = None
  /\ LoopTo("stopping", "joining")
  /\ reading' = FALSE
  /\ UNCHANGED <<snap, up, abandoned, handler, bodies>>

Unstarted == {s \in producers : producer[s] = "unstarted"}

\* The producers have ended, or the grace has passed.  The caller closes the
\* socket when serve() returns.
JoinProducers ==
  /\ Unstarted = {}
  /\ LoopTo("joining", "over")
  /\ abandoned' = TRUE /\ up' = FALSE
  /\ UNCHANGED <<snap, reading, handler, bodies>>

\* join() of a thread that was never started raises RuntimeError.
JoinUnstarted ==
  /\ Unstarted # {}
  /\ LoopTo("joining", "over")
  /\ up' = FALSE
  /\ UNCHANGED <<snap, reading, abandoned, handler, bodies>>

\* The network: nothing sent arrives any more.
LinkLost ==
  /\ up /\ serve # "over"
  /\ up' = FALSE
  /\ UNCHANGED <<streamLimit, conn, heads, serving, reading, abandoned, handler, bodies,
                 clientSide, grants>>

-----------------------------------------------------------------------------
FrameStep ==
  \/ \E s \in Streams, end, whole, valid \in BOOLEAN, kind \in Kinds :
       OnHeaders(s, end, whole, kind, valid)
  \/ \E kind \in Kinds, valid \in BOOLEAN : OnContinuation(kind, valid)
  \/ \E s \in Streams, n \in 0..DefaultWindow, end, valid \in BOOLEAN : OnData(s, n, end, valid)
  \/ \E s \in Streams : OnRstStream(s) \/ BadStreamFrame(s) \/ OnStreamCredit(s, 1)
  \/ \E w \in PeerWindows : OnSettings(w)
  \/ OnConnectionCredit(1) \/ OnGoaway \/ BadFrame

HandlerStep(s) ==
  \/ RunHandler(s) \/ HandlerRaises(s) \/ HandlerEscapes(s) \/ Unsent(s) \/ SendFails(s)
  \/ Unencodable(s) \/ AnswerStreamed(s) \/ StartProducer(s) \/ ProducerNotStarted(s) \/ FailResponse(s)
  \/ \E n \in Lengths : Answer(s, n)

BodyStep(s) ==
  Chunk(s) \/ Wake(s) \/ BodyUnsent(s) \/ Exhausted(s) \/ BodyFails(s)
  \/ BodyEscapes(s) \/ CloseBody(s)

ServeStep ==
  \/ IdleTimesOut \/ KeepAliveProducers \/ PollHandlers \/ ReadFails
  \/ Abandon \/ FinishHandlers \/ StopReading \/ JoinProducers \/ JoinUnstarted

\* serve() has returned and every thread has ended.  In any other state where
\* nothing can happen a thread waits for ever, which TLC reports as a deadlock.
Ended ==
  /\ serve = "over"
  /\ \A s \in Streams : /\ handler[s] \in {"none", "done", "cancelled", "escaped"}
                         /\ producer[s] \in {"none", "unstarted", "done", "escaped"}
StayEnded == Ended /\ UNCHANGED h2Vars

H2Next ==
  \/ FrameStep \/ ServeStep \/ LinkLost \/ StayEnded
  \/ \E s \in Streams : HandlerStep(s) \/ BodyStep(s)

H2Spec == H2Init /\ [][H2Next]_h2Vars

-----------------------------------------------------------------------------
\* RFC 9113 section 5.2, "Flow control is mandatory and per stream as well as
\* per connection": both windows are what the client granted less what was
\* sent, through every change of INITIAL_WINDOW_SIZE; the connection's is
\* never overdrawn.
AddSent(sum, t) == sum + t.sent
WindowsExact ==
  serve \in InLoop =>
    /\ cwin = DefaultWindow + granted - FoldLeft(AddSent, 0, stream)
    /\ \A s \in Streams :
         stream[s].known => stream[s].win = peerInit + stream[s].given - stream[s].sent

\* docs/http-versions.md, "se encola y sale cuando llega credito": whenever the
\* lock is free, no stream has output that both windows would let out.
NothingStuck ==
  serve \in InLoop =>
    \A s \in Streams :
      LET t == stream[s]
      IN  t.known /\ t.state # "closed" => Sendable(t, cwin) = 0

\* Flow control, in numbers and in what it lets out.
FlowControlled == H2TypeOK /\ WindowsExact /\ NothingStuck

\* A request the client has ended is in somebody's hands until the stream is
\* closed, so that no stream counts against MAX_CONCURRENT_STREAMS for ever, but
\* for one whose handler or body ended by what is no Exception: that one does,
\* until the client resets it or the connection ends.
Escaped(s) == handler[s] = "escaped" \/ producer[s] \in {"escaping", "escaped"}
InHand(s) ==
  \/ handler[s] \in {"queued"} \cup Working
  \/ producer[s] \in {"fetch", "blocked"}
  \/ stream[s].out > 0 /\ stream[s].endAfter
NoOrphanStream ==
  serve \in InLoop /\ up =>
    \A s \in ended :
      LET t == stream[s]
      IN  t.known /\ t.state # "closed" /\ ~t.rejected /\ pend.s # s /\ ~Escaped(s)
            => InHand(s)

\* END_STREAM follows the whole body: nothing of it waits, nothing more is
\* produced.
EndAfterWholeBody ==
  \A s \in Streams :
    stream[s].endSent /\ ~stream[s].rejected =>
      stream[s].out = 0 /\ producer[s] \notin {"unstarted", "fetch", "blocked"}

\* A closed stream is given no answer (docs/http-versions.md, "Un stream que
\* el cliente resetea mientras su handler trabaja no recibe respuesta").
NoAnswerAfterClose ==
  \A s \in Streams : stream[s].state = "closed" => stream'[s].answered = stream[s].answered

\* What a stream is told last is true, and is the last: no step lets half of
\* a body pass for the whole, or answers a stream that is closed.
AnswersEndWell == [][EndAfterWholeBody' /\ NoAnswerAfterClose]_h2Vars
=============================================================================

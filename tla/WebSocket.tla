----------------------------- MODULE WebSocket -----------------------------
(***************************************************************************)
(* One WebSocket of ws.py: the thread of its handler, which reads frames   *)
(* in a loop and answers the control frames among them, and other threads  *)
(* that send on it or close it.                                            *)
(*                                                                         *)
(* A frame is FrameSize bytes, its header one of them, and a byte is its   *)
(* number in the peer's stream; they arrive in any portions and a read may *)
(* time out between any two.  What the peer sends is a script of frames:   *)
(* whole messages, the first, middle and last fragments of one, control    *)
(* frames, and one that breaks the protocol (a reserved bit, a message     *)
(* too big, text that is not UTF-8).  A send takes three steps, because    *)
(* send_frame looks at _closed before it takes the lock and sets it after  *)
(* the lock is released; under the lock frames go out one at a time.  Time *)
(* passes in polls: one for each read that times out.                      *)
(***************************************************************************)
EXTENDS Integers, FiniteSets, Sequences, SequencesExt

CONSTANTS
  Handler,      \* the thread that reads
  Senders,      \* the other threads
  None,
  Scripts,      \* what the peer may send
  Configs,      \* [keep, pong, idle]: the three timeouts in polls, 0 for none
  FrameSize,    \* bytes of a frame
  MaxSends      \* bound: frames each other thread sends

Threads == {Handler} \cup Senders
Kinds == {"text", "first", "middle", "last", "ping", "pong", "close", "bad"}
Ops == {"text", "close", "ping", "pong", "reply", "fail"}   \* what a thread may send

ASSUME SocketConstants ==
  /\ Handler \notin Senders /\ None \notin Threads \cup Ops
  /\ \A s \in Scripts : s \in Seq(Kinds)
  /\ \A c \in Configs : {c.keep, c.pong, c.idle} \subseteq Nat
  /\ FrameSize \in Nat \ {0, 1} /\ MaxSends \in Nat

VARIABLES
  config, script,   \* how the socket was made, what its peer sends
  arrived,          \* bytes that reached us
  eof,              \* the peer has ended its side
  taken,            \* bytes taken from the socket
  pending,          \* _FrameReader._pending
  consumed,         \* _FrameReader._consumed
  fresh,            \* _FrameReader.received_new
  pc,               \* the handler: new, refused, idle, reading, sending or done
  fragments,        \* _fragment_payload: frames of the unfinished message
  messages,         \* history: the messages the handler got
  closed,           \* _closed
  reported,         \* _close_reported: on_close has been called
  peerClosed,       \* _peer_close_received
  awaiting,         \* _awaiting_pong
  sinceRx, sinceTx, sincePing,   \* polls since _last_rx_at, _last_tx_at, _last_ping_at
  sending,          \* what a thread is sending, None if nothing
  out,              \* is it on the wire already?
  sends,            \* frames the other threads have begun
  wire,             \* history: kinds of the frames sent
  broken            \* a send has failed

readVars == <<taken, pending, consumed, fresh>>
peerVars == <<arrived, eof>>
messageVars == <<fragments, messages>>
closeVars == <<closed, reported>>
timeVars == <<awaiting, sinceRx, sinceTx, sincePing>>
sendVars == <<sending, out, sends, wire, broken>>
vars == <<config, script, peerVars, readVars, pc, messageVars, closeVars, peerClosed, timeVars, sendVars>>

-----------------------------------------------------------------------------
Bytes == FrameSize * Len(script)
FrameOf(byte) == (byte - 1) \div FrameSize + 1
Whole == Len(consumed) = FrameSize
Current == script[FrameOf(consumed[1])]
Cap == 1 + FoldLeft(LAMBDA m, n : IF n > m THEN n ELSE m, 0, <<config.keep, config.pong, config.idle>>)
Later(n) == IF n < Cap THEN n + 1 ELSE n
Managed == config.keep > 0 \/ config.idle > 0

Init ==
  /\ config \in Configs /\ script \in Scripts
  /\ arrived = 0 /\ eof = FALSE /\ taken = 0 /\ pending = <<>> /\ consumed = <<>> /\ fresh = FALSE
  /\ pc = "new" /\ fragments = <<>> /\ messages = <<>>
  /\ closed = FALSE /\ reported = FALSE /\ peerClosed = FALSE
  /\ awaiting = FALSE /\ sinceRx = 0 /\ sinceTx = 0 /\ sincePing = 0
  /\ sending = [t \in Threads |-> None] /\ out = {} /\ sends = [t \in Senders |-> 0]
  /\ wire = <<>> /\ broken = FALSE

-----------------------------------------------------------------------------
(* The peer and the network. *)

Arrive ==
  /\ arrived < Bytes /\ ~eof /\ arrived' \in arrived + 1..Bytes
  /\ UNCHANGED <<config, script, eof, readVars, pc, messageVars, closeVars, peerClosed, timeVars, sendVars>>

PeerEnds ==
  /\ ~eof /\ eof' = TRUE
  /\ UNCHANGED <<config, script, arrived, readVars, pc, messageVars, closeVars, peerClosed, timeVars, sendVars>>

-----------------------------------------------------------------------------
(* Closing and sending. *)

\* Fault: the socket is closed without the callback.
ClosesQuietly == closed' = TRUE /\ UNCHANGED reported

\* _close_with_reason and _report_close.  The flag is looked at and set without
\* a lock, so two threads at once may both make the call: reported says that
\* one has been made, not how many.
CloseWithReason == closed' = TRUE /\ reported' = TRUE

Close == {"close", "reply", "fail"}

\* A CLOSE is a CLOSE, whoever sends it and why.
OnWire(op) == IF op \in Close THEN "close" ELSE op

\* The body of send_frame: the bytes go out under the lock, or the socket
\* fails and the socket counts as closed.
Transmit(t) ==
  /\ sending[t] # None /\ t \notin out
  /\ \/ /\ ~broken
        /\ wire' = Append(wire, OnWire(sending[t])) /\ out' = out \cup {t}
        /\ UNCHANGED <<pc, closeVars, sending, broken>>
     \/ /\ broken' = TRUE /\ CloseWithReason
        /\ sending' = [sending EXCEPT ![t] = None]
        /\ pc' = IF t = Handler THEN "done" ELSE pc
        /\ UNCHANGED <<wire, out>>
  /\ UNCHANGED <<config, script, peerVars, readVars, messageVars, peerClosed, timeVars, sends>>

\* The rest of send_frame after the lock, and of close().  The handler then
\* goes on: after a ping with its read, after a pong or its reply to a CLOSE
\* with the frame it returns, and after a protocol error with the exception.
Finish(t) ==
  /\ t \in out
  /\ out' = out \ {t} /\ sending' = [sending EXCEPT ![t] = None]
  /\ sinceTx' = 0
  /\ IF sending[t] \in Close THEN CloseWithReason ELSE UNCHANGED closeVars
  /\ pc' = IF t # Handler THEN pc
           ELSE CASE sending[t] = "ping" -> "reading"
                  [] sending[t] \in {"pong", "reply"} -> "idle"
                  [] sending[t] = "fail" -> "done"
  /\ IF sending[t] = "ping" THEN awaiting' = TRUE /\ sincePing' = 0 ELSE UNCHANGED <<awaiting, sincePing>>
  /\ UNCHANGED <<config, script, peerVars, readVars, messageVars, peerClosed, sinceRx, sends, wire, broken>>

\* A request without what RFC 6455 asks of it is answered and no socket made;
\* otherwise the 101 goes out, or fails, once the socket exists.
Handshake ==
  /\ pc = "new" /\ pc' \in {"idle", "refused"}
  /\ UNCHANGED <<config, script, peerVars, readVars, messageVars, closeVars, peerClosed, timeVars, sendVars>>

\* send_text() or close() in another thread, which has the socket from the
\* handler; on a closed socket the first
\* raises and the second returns.
BeginSend(t) ==
  /\ pc \notin {"new", "refused"} /\ sending[t] = None /\ sends[t] < MaxSends /\ ~closed
  /\ \E op \in {"text", "close"} : sending' = [sending EXCEPT ![t] = op]
  /\ sends' = [sends EXCEPT ![t] = @ + 1]
  /\ UNCHANGED <<config, script, peerVars, readVars, pc, messageVars, closeVars, peerClosed, timeVars, out, wire, broken>>

\* The handler begins to send, or does without where the socket is closed.
Sends(op, otherwise) ==
  IF closed THEN pc' = otherwise /\ UNCHANGED sending
  ELSE pc' = "sending" /\ sending' = [sending EXCEPT ![Handler] = op]

-----------------------------------------------------------------------------
(* recv_frame *)

Call ==
  /\ pc = "idle" /\ pc' = "reading"
  /\ consumed' = <<>> /\ fresh' = FALSE
  /\ UNCHANGED <<config, script, peerVars, taken, pending, messageVars, closeVars, peerClosed, timeVars, sendVars>>

\* recv_exact asks for the header, then for the rest of the frame.
Wanted == IF consumed = <<>> THEN 1 ELSE FrameSize - Len(consumed)
Numbers(from, n) == [i \in 1..n |-> from + i]

\* _FrameReader.recv: bytes that were handed back come first.
ReadPending ==
  /\ pc = "reading" /\ ~Whole /\ pending # <<>>
  /\ LET n == IF Wanted < Len(pending) THEN Wanted ELSE Len(pending) IN
     /\ consumed' = consumed \o SubSeq(pending, 1, n)
     /\ pending' = SubSeq(pending, n + 1, Len(pending))
  /\ UNCHANGED <<config, script, peerVars, taken, fresh, pc, messageVars, closeVars, peerClosed, timeVars, sendVars>>

ReadSocket ==
  /\ pc = "reading" /\ ~Whole /\ pending = <<>> /\ arrived > taken
  /\ LET left == arrived - taken
         n == IF Wanted < left THEN Wanted ELSE left
     IN consumed' = consumed \o Numbers(taken, n) /\ taken' = taken + n
  /\ fresh' = TRUE
  /\ UNCHANGED <<config, script, peerVars, pending, pc, messageVars, closeVars, peerClosed, timeVars, sendVars>>

\* The peer's end, or an error of the socket.
ReadEnd ==
  /\ pc = "reading" /\ ~Whole /\ pending = <<>> /\ arrived = taken /\ (eof \/ broken)
  /\ CloseWithReason /\ pc' = "done"
  /\ UNCHANGED <<config, script, peerVars, readVars, messageVars, peerClosed, timeVars, sendVars>>

\* Fault: what was read of the frame is lost when the read times out.
Forgets == pending
\* _FrameReader.rollback
RolledBack == consumed \o pending

\* Fault: every poll counts as activity of the peer.
RxAlways == 0
RxAfterPoll == IF fresh THEN 0 ELSE Later(sinceRx)

\* A read times out: the partial frame is handed back, then _handle_idle_tick
\* looks for a pong that is late, a ping that is due and an idle peer.
ReadTimeout ==
  /\ pc = "reading" /\ ~Whole /\ pending = <<>> /\ arrived = taken /\ ~eof /\ ~broken
  /\ pending' = RolledBack /\ consumed' = <<>> /\ fresh' = FALSE
  /\ sinceRx' = RxAfterPoll /\ sinceTx' = Later(sinceTx) /\ sincePing' = Later(sincePing)
  /\ LET pongLate == config.keep > 0 /\ awaiting /\ config.pong > 0 /\ sincePing' >= config.pong
         pingDue == config.keep > 0 /\ ~awaiting /\ sinceTx' >= config.keep
         idle == config.idle > 0 /\ sinceRx' >= config.idle
     IN
     \/ /\ closed /\ pc' = "done" /\ UNCHANGED <<closeVars, sending>>
     \/ /\ ~closed /\ ~Managed /\ pc' = "idle" /\ UNCHANGED <<closeVars, sending>>
     \/ /\ ~closed /\ Managed /\ (pongLate \/ (~pingDue /\ idle))
        /\ CloseWithReason /\ pc' = "done" /\ UNCHANGED sending
     \/ /\ ~closed /\ Managed /\ pingDue
        /\ Sends("ping", "done") /\ UNCHANGED closeVars
     \/ /\ ~closed /\ Managed /\ ~pongLate /\ ~pingDue /\ ~idle
        /\ UNCHANGED <<pc, closeVars, sending>>
  /\ UNCHANGED <<config, script, peerVars, taken, messageVars, peerClosed, awaiting, out, sends, wire, broken>>

ReplyTo == IF closed THEN "idle" ELSE "sending"

\* A frame is complete. What the handler is given it takes at once.
GotFrame(kind) ==
  /\ pc = "reading" /\ Whole /\ Current = kind
  /\ consumed' = <<>> /\ fresh' = FALSE /\ sinceRx' = 0
  /\ UNCHANGED <<config, script, peerVars, taken, pending, sinceTx, sincePing, out, sends, wire, broken>>

\* The protocol is broken: _fail_protocol, and what read_ws_frame_raw raises.
Fails == Sends("fail", "done") /\ UNCHANGED <<messageVars, closeVars, peerClosed, awaiting>>

GotBad == GotFrame("bad") /\ Fails

GotClose ==
  /\ GotFrame("close")
  /\ peerClosed' = TRUE /\ reported' = TRUE
  /\ pc' = ReplyTo
  /\ sending' = IF ReplyTo = "sending" THEN [sending EXCEPT ![Handler] = "reply"] ELSE sending
  /\ UNCHANGED <<closed, messageVars, awaiting>>

\* A ping on a closed socket makes send_pong raise.
GotPing == GotFrame("ping") /\ Sends("pong", "done") /\ UNCHANGED <<messageVars, closeVars, peerClosed, awaiting>>

GotPong == GotFrame("pong") /\ awaiting' = FALSE /\ pc' = "idle" /\ UNCHANGED <<messageVars, closeVars, peerClosed, sending>>

Deliver(frames) == messages' = Append(messages, frames) /\ fragments' = <<>> /\ pc' = "idle"
Quiet == UNCHANGED <<closeVars, peerClosed, awaiting, sending>>

GotText ==
  /\ GotFrame("text")
  /\ IF fragments # <<>> THEN Fails ELSE Deliver(<<FrameOf(consumed[1])>>) /\ Quiet

GotFirst ==
  /\ GotFrame("first")
  /\ IF fragments # <<>> THEN Fails
     ELSE fragments' = <<FrameOf(consumed[1])>> /\ UNCHANGED <<messages, pc>> /\ Quiet

Joined(frame) == Append(fragments, frame)

GotContinuation(kind) ==
  /\ GotFrame(kind)
  /\ IF fragments = <<>> THEN Fails
     ELSE /\ IF kind = "last" THEN Deliver(Joined(FrameOf(consumed[1])))
             ELSE fragments' = Joined(FrameOf(consumed[1])) /\ UNCHANGED <<messages, pc>>
          /\ Quiet

-----------------------------------------------------------------------------
Reads ==
  \/ Call \/ ReadPending \/ ReadSocket \/ ReadEnd \/ ReadTimeout
  \/ GotBad \/ GotClose \/ GotPing \/ GotPong \/ GotText \/ GotFirst
  \/ GotContinuation("middle") \/ GotContinuation("last")

Next ==
  \/ Arrive \/ PeerEnds \/ Handshake \/ Reads
  \/ \E t \in Threads : Transmit(t) \/ Finish(t)
  \/ \E t \in Senders : BeginSend(t)

\* The handler goes on reading and every send comes to its end; the peer owes
\* nothing.
Fairness == WF_vars(Reads) /\ \A t \in Threads : WF_vars(Transmit(t) \/ Finish(t))

Spec == Init /\ [][Next]_vars /\ Fairness

-----------------------------------------------------------------------------
\* Every variable keeps its shape.
TypeOK ==
  /\ taken <= arrived /\ arrived <= Bytes /\ Len(consumed) <= FrameSize
  /\ pc \in {"new", "refused", "idle", "reading", "sending", "done"}
  /\ (pc = "sending") <=> (sending[Handler] # None)
  /\ out \subseteq Threads /\ reported \in BOOLEAN

\* However a frame is cut by timeouts, the reader stays in step: what it holds
\* of the stream is one stretch that begins where a frame begins.
FramingInSync ==
  LET line == consumed \o pending IN
  /\ line # <<>> => line[1] % FrameSize = 1 % FrameSize
  /\ \A i \in 1..Len(line) : line[i] = taken - Len(line) + i

\* Each message is the frames of one message of the peer, all of them and in
\* order, whatever control frames came between.
Data3 == {"text", "first", "middle", "last"}
MessagesWhole ==
  \A m \in Range(messages) :
    /\ script[m[1]] \in {"text", "first"} /\ script[m[Len(m)]] \in {"text", "last"}
    /\ Range(m) = {i \in m[1]..m[Len(m)] : script[i] \in Data3}
    /\ \A i \in 1..Len(m) - 1 : m[i] < m[i + 1] /\ script[m[i + 1]] \in {"middle", "last"}

\* on_close is called for every socket that is closed, whichever of the peer, a
\* timeout, a failed send and two closing threads came first.
AtRest == \A t \in Threads : sending[t] = None
CloseReported == closed /\ AtRest => reported

\* A CLOSE from the peer is answered with one, unless the socket failed.
CloseAnswered == peerClosed /\ pc # "sending" => broken \/ "close" \in Range(wire)

\* A peer that falls silent is found out, if an idle timeout or a keepalive
\* with a pong timeout was asked for.
Watched == config.idle > 0 \/ (config.keep > 0 /\ config.pong > 0)
SilentPeerFound == Watched /\ pc = "idle" ~> closed

\* From bytes to messages, however the bytes are cut.
MessagesSound == TypeOK /\ FramingInSync /\ MessagesWhole

\* Both ends, and the application, hear of the end.
CloseHeard == CloseReported /\ CloseAnswered
=============================================================================

--------------------------- MODULE WebSocketProofs ---------------------------
(***************************************************************************)
(* Theorems about WebSocket, for any script of the peer, any timeouts, any *)
(* number of other threads and frames of any size: the bytes become the    *)
(* peer's messages however reads cut them, and both ends hear of the end.  *)
(***************************************************************************)
EXTENDS WebSocket, TLAPS

\* A handler that sends is in the middle of it, and sends no data of its own.
SendTyped ==
  /\ pc \in {"new", "refused", "idle", "reading", "sending", "done"}
  /\ sending \in [Threads -> Ops \cup {None}]
  /\ (pc = "sending") <=> (sending[Handler] # None)
  /\ sending[Handler] \in {"ping", "pong", "reply", "fail", None}
  /\ out \subseteq {t \in Threads : sending[t] # None}
Typed ==
  /\ script \in Seq(Kinds)
  /\ arrived \in 0..Bytes
  /\ taken \in 0..arrived
  /\ pending \in Seq(Nat)
  /\ consumed \in Seq(Nat)
  /\ Len(consumed) <= FrameSize
  /\ fragments \in Seq(Nat)
  /\ messages \in Seq(Seq(Nat))
  /\ {closed, reported, peerClosed, broken} \subseteq BOOLEAN
  /\ wire \in Seq(Ops)
  /\ SendTyped

\* Where in the stream the frame begins that the handler reads, and how many
\* frames came before it.
Position == taken - Len(consumed) - Len(pending)
Passed == Position \div FrameSize

\* The reader holds the bytes from the beginning of a frame on, those of the
\* read under way before those handed back to it.
FrameInv ==
  /\ Position \in Nat
  /\ Position = FrameSize * Passed
  /\ \A i \in 1..Len(consumed) : consumed[i] = Position + i
  /\ \A i \in 1..Len(pending) : pending[i] = Position + Len(consumed) + i
  /\ pc \notin {"reading", "done"} => consumed = <<>>

\* An unfinished message is all the data frames since its first, in order; a
\* handler that has failed reads no more.
Ordered(m) == \A i \in 1..Len(m) - 1 : m[i] < m[i + 1] /\ script[m[i + 1]] \in {"middle", "last"}
Part(m, upTo) ==
  /\ m # <<>> /\ script[m[1]] = "first" /\ m[Len(m)] <= upTo
  /\ Range(m) = {i \in m[1]..upTo : script[i] \in Data3}
  /\ Ordered(m)
Failed == pc = "done" \/ sending[Handler] = "fail"
FragmentInv == fragments # <<>> => Failed \/ Part(fragments, Passed)

\* A socket is closed by a CLOSE on the wire, by a failure, or by a handler
\* that leaves.
CloseInv ==
  /\ closed => reported
  /\ closed => broken \/ "close" \in Range(wire) \/ pc = "done"
  /\ \A t \in out : sending[t] \in Close => "close" \in Range(wire)
  /\ peerClosed => \/ broken \/ "close" \in Range(wire)
                   \/ sending[Handler] = "reply"

IInv == Typed /\ FrameInv /\ FragmentInv /\ MessagesWhole /\ CloseInv
-----------------------------------------------------------------------------
(* Frames of a stream. *)

\* Division with remainder.
LEMMA Multiples ==
  ASSUME NEW n \in Nat, NEW q \in Nat, NEW r \in Nat, n > 0, r < n
  PROVE  (n * q + r) \div n = q /\ (n * q + r) % n = r
  OBVIOUS

\* A common factor cancels.
LEMMA Cancelled ==
  ASSUME NEW n \in Nat, NEW a \in Int, NEW b \in Int, n > 0, n * a <= n * b
  PROVE  a <= b
  <1> SUFFICES ASSUME a >= b + 1 PROVE FALSE
    OBVIOUS
  <1>1. n * a >= n * (b + 1)
    OBVIOUS
  <1>. QED
    BY <1>1

\* The number of frames passed is a number.
LEMMA PassedFrames ==
  ASSUME Typed, FrameInv
  PROVE  Passed \in Nat /\ FrameSize \in Nat /\ FrameSize > 1 /\ Len(script) \in Nat
  <1>1. FrameSize \in Nat /\ FrameSize > 1
    BY SocketConstants
  <1>. QED
    <2>1. Passed \in Nat
      BY <1>1 DEF FrameInv, Passed
    <2>2. script \in Seq(Kinds)
      BY DEF Typed
    <2>. QED
      BY <1>1, <2>1, <2>2

\* The frame that is complete is the next one of the script.
LEMMA CurrentFrame ==
  ASSUME Typed, FrameInv, Whole
  PROVE  /\ FrameOf(consumed[1]) = Passed + 1 /\ Passed + 1 \in 1..Len(script)
         /\ Current = script[Passed + 1]
  <1>1. Passed \in Nat /\ FrameSize \in Nat /\ FrameSize > 1 /\ Len(script) \in Nat
    BY PassedFrames
  <1>2. consumed \in Seq(Nat) /\ Len(consumed) = FrameSize /\ 1 \in 1..Len(consumed)
    BY <1>1 DEF Typed, Whole
  <1>3. consumed[1] = FrameSize * Passed + 1
    BY <1>1, <1>2 DEF FrameInv
  <1>4. FrameOf(consumed[1]) = Passed + 1
    <2>1. consumed[1] - 1 = FrameSize * Passed + 0
      BY <1>1, <1>3
    <2>2. (FrameSize * Passed + 0) \div FrameSize = Passed
      BY <1>1, Multiples
    <2>. QED
      BY <2>1, <2>2 DEF FrameOf
  <1>5. Passed + 1 <= Len(script)
    <2>1. FrameSize * Passed + FrameSize <= taken /\ taken <= Bytes
      BY <1>1, <1>2, SMTT(30) DEF Typed, FrameInv, Position, Bytes
    <2>2. FrameSize * (Passed + 1) <= FrameSize * Len(script)
      BY <1>1, <2>1 DEF Typed, Bytes
    <2>. QED
      BY <1>1, <2>2, Cancelled
  <1>. QED
    BY <1>1, <1>4, <1>5 DEF Current

-----------------------------------------------------------------------------
\* Every variable begins with its shape.
LEMMA TypeInit == Init => Typed
  <1> SUFFICES ASSUME Init PROVE Typed
    OBVIOUS
  <1>1. script \in Seq(Kinds) /\ FrameSize \in Nat /\ FrameSize > 1
    BY SocketConstants DEF Init
  <1>2. Bytes \in Nat
    BY <1>1 DEF Bytes
  <1>3. <<>> \in Seq(Nat) /\ Len(<<>>) = 0 /\ <<>> \in Seq(Seq(Nat)) /\ <<>> \in Seq(Ops)
    OBVIOUS
  <1>4. sending = [t \in Threads |-> None] /\ Handler \in Threads
    BY DEF Init, Threads
  <1>. QED
    <2>1. /\ script \in Seq(Kinds) /\ arrived \in 0..Bytes /\ taken \in 0..arrived
          /\ pending \in Seq(Nat) /\ consumed \in Seq(Nat) /\ Len(consumed) <= FrameSize
      BY <1>1, <1>2, <1>3 DEF Init
    <2>2. /\ fragments \in Seq(Nat) /\ messages \in Seq(Seq(Nat)) /\ wire \in Seq(Ops)
          /\ {closed, reported, peerClosed, broken} \subseteq BOOLEAN
          /\ pc \in {"new", "refused", "idle", "reading", "sending", "done"}
      BY <1>3 DEF Init
    <2>3. /\ sending \in [Threads -> Ops \cup {None}]
          /\ (pc = "sending") <=> (sending[Handler] # None)
          /\ sending[Handler] = None
          /\ out \subseteq {t \in Threads : sending[t] # None}
      BY <1>4 DEF Init
    <2>. QED
      BY <2>1, <2>2, <2>3 DEF Typed, SendTyped

\* A new socket has read nothing, holds no fragment and is open.
LEMMA FrameInit == Init => FrameInv /\ FragmentInv /\ MessagesWhole /\ CloseInv
  <1> SUFFICES ASSUME Init PROVE FrameInv /\ FragmentInv /\ MessagesWhole /\ CloseInv
    OBVIOUS
  <1>1. FrameSize \in Nat /\ FrameSize > 1
    BY SocketConstants
  <1>2. Position = 0
    <2>1. Len(<<>>) = 0
      OBVIOUS
    <2>2. taken = 0 /\ Len(consumed) = 0 /\ Len(pending) = 0
      BY <2>1 DEF Init
    <2>. QED
      BY <2>2 DEF Position
  <1>3. Passed = 0 /\ FrameSize * Passed = 0
    <2>1. FrameSize * 0 + 0 = 0 /\ (FrameSize * 0 + 0) \div FrameSize = 0
      BY <1>1, Multiples
    <2>. QED
      BY <1>1, <1>2, <2>1 DEF Passed
  <1>4. FrameInv
    BY <1>2, <1>3 DEF Init, FrameInv
  <1>5. Range(messages) = {}
    BY DEF Init, Range
  <1>6. sending[Handler] # "fail" /\ sending[Handler] # "reply"
    BY SocketConstants DEF Init, Threads, Ops
  <1>. QED
    BY <1>4, <1>5, <1>6 DEF Init, FragmentInv, MessagesWhole, CloseInv
\* Every step that reads a frame to its end is of one of these kinds; Fails and
\* the deliveries are what differs.
GotSomething ==
  \/ GotBad \/ GotClose \/ GotPing \/ GotPong \/ GotText \/ GotFirst
  \/ GotContinuation("middle") \/ GotContinuation("last")

\* A complete frame ends the read, whatever is done with it.
LEMMA GotReads ==
  ASSUME GotSomething
  PROVE  /\ pc = "reading" /\ Whole /\ consumed' = <<>> /\ Current \in Kinds
         /\ UNCHANGED <<config, script, peerVars, taken, pending, out, sends, wire, broken>>
  BY DEF GotSomething, GotBad, GotClose, GotPing, GotPong, GotText, GotFirst, GotContinuation, GotFrame,
         Kinds

\* What the steps do to the stream: nothing, or one of the steps of recv_frame.
StreamKept == UNCHANGED <<taken, pending, consumed>>
Other ==
  \/ Arrive \/ PeerEnds \/ Handshake \/ ReadEnd \/ UNCHANGED vars
  \/ \E t \in Threads : Transmit(t) \/ Finish(t)
  \/ \E t \in Senders : BeginSend(t)

\* Every step is a step of recv_frame or leaves the stream alone.
LEMMA StreamCases ==
  ASSUME [Next]_vars
  PROVE  Other \/ Call \/ ReadPending \/ ReadSocket \/ ReadTimeout \/ GotSomething
  BY DEF Next, Reads, Other, GotSomething

\* The steps that leave the stream alone leave the messages alone too.
LEMMA OtherKeeps ==
  ASSUME Other
  PROVE  StreamKept /\ UNCHANGED <<script, messageVars, peerClosed>>
  BY DEF Other, Arrive, PeerEnds, Handshake, ReadEnd, vars, Transmit, Finish, BeginSend, readVars,
         messageVars, StreamKept

\* A concatenation has the elements of both parts.
LEMMA Joins ==
  ASSUME NEW a \in Seq(Nat), NEW b \in Seq(Nat)
  PROVE  /\ a \o b \in Seq(Nat) /\ Len(a \o b) = Len(a) + Len(b)
         /\ \A i \in 1..Len(a) : (a \o b)[i] = a[i]
         /\ \A i \in 1..Len(b) : (a \o b)[Len(a) + i] = b[i]
  OBVIOUS

\* A sequence cut in two.
LEMMA Slices ==
  ASSUME NEW a \in Seq(Nat), NEW n \in 1..Len(a)
  PROVE  /\ SubSeq(a, 1, n) \in Seq(Nat) /\ Len(SubSeq(a, 1, n)) = n
         /\ \A i \in 1..n : SubSeq(a, 1, n)[i] = a[i]
         /\ SubSeq(a, n + 1, Len(a)) \in Seq(Nat) /\ Len(SubSeq(a, n + 1, Len(a))) = Len(a) - n
         /\ \A i \in 1..Len(a) - n : SubSeq(a, n + 1, Len(a))[i] = a[n + i]
  OBVIOUS

\* The bytes that a read takes from those handed back, and from the socket.
LEMMA PendingTaken ==
  ASSUME Typed, ReadPending
  PROVE  \E n \in 1..Len(pending) :
           /\ consumed' \in Seq(Nat) /\ pending' \in Seq(Nat) /\ taken' = taken
           /\ Len(consumed') = Len(consumed) + n /\ Len(consumed') <= FrameSize
           /\ Len(pending') = Len(pending) - n
           /\ \A i \in 1..Len(consumed) : consumed'[i] = consumed[i]
           /\ \A i \in 1..n : consumed'[Len(consumed) + i] = pending[i]
           /\ \A i \in 1..Len(pending) - n : pending'[i] = pending[n + i]
  <1>1. /\ consumed \in Seq(Nat) /\ pending \in Seq(Nat) /\ Len(consumed) \in Nat /\ Len(pending) \in Nat
        /\ Len(consumed) <= FrameSize /\ FrameSize \in Nat /\ FrameSize > 1
    BY SocketConstants DEF Typed
  <1>2. pending # <<>> /\ ~Whole
    BY DEF ReadPending
  <1>3. Len(pending) > 0 /\ Wanted \in Nat /\ Wanted > 0 /\ Len(consumed) + Wanted <= FrameSize
    BY <1>1, <1>2 DEF Whole, Wanted
  <1>4. PICK n : n = (IF Wanted < Len(pending) THEN Wanted ELSE Len(pending))
    OBVIOUS
  <1>5. /\ consumed' = consumed \o SubSeq(pending, 1, n)
        /\ pending' = SubSeq(pending, n + 1, Len(pending)) /\ taken' = taken
    BY <1>4 DEF ReadPending
  <1>6. n \in 1..Len(pending) /\ Len(consumed) + n <= FrameSize
    BY <1>1, <1>3, <1>4
  <1>7. PICK head : head = SubSeq(pending, 1, n)
    OBVIOUS
  <1>8. head \in Seq(Nat) /\ Len(head) = n /\ \A i \in 1..n : head[i] = pending[i]
    BY <1>1, <1>6, <1>7, Slices
  <1>9. /\ consumed' \in Seq(Nat) /\ Len(consumed') = Len(consumed) + n
        /\ \A i \in 1..Len(consumed) : consumed'[i] = consumed[i]
        /\ \A i \in 1..n : consumed'[Len(consumed) + i] = pending[i]
    <2>1. consumed' = consumed \o head
      BY <1>5, <1>7
    <2>2. /\ consumed \o head \in Seq(Nat) /\ Len(consumed \o head) = Len(consumed) + n
          /\ \A i \in 1..Len(consumed) : (consumed \o head)[i] = consumed[i]
          /\ \A i \in 1..n : (consumed \o head)[Len(consumed) + i] = head[i]
      BY <1>1, <1>8, Joins
    <2>. QED
      BY <1>8, <2>1, <2>2
  <1>10. /\ pending' \in Seq(Nat) /\ Len(pending') = Len(pending) - n
         /\ \A i \in 1..Len(pending) - n : pending'[i] = pending[n + i]
    BY <1>1, <1>5, <1>6, Slices
  <1>. QED
    BY <1>5, <1>6, <1>9, <1>10

\* The bytes that a read takes from the socket.
LEMMA SocketTaken ==
  ASSUME Typed, ReadSocket
  PROVE  \E n \in Nat :
           /\ n > 0 /\ taken' = taken + n /\ taken' <= arrived /\ pending = <<>> /\ pending' = pending
           /\ consumed' \in Seq(Nat)
           /\ Len(consumed') = Len(consumed) + n /\ Len(consumed') <= FrameSize
           /\ \A i \in 1..Len(consumed) : consumed'[i] = consumed[i]
           /\ \A i \in 1..n : consumed'[Len(consumed) + i] = taken + i
  <1>1. /\ consumed \in Seq(Nat) /\ Len(consumed) \in Nat /\ script \in Seq(Kinds)
        /\ Len(consumed) <= FrameSize /\ FrameSize \in Nat /\ FrameSize > 1
    BY SocketConstants DEF Typed
  <1>2. Bytes \in Nat /\ arrived \in Nat /\ taken \in Nat
    BY <1>1 DEF Typed, Bytes
  <1>3. arrived > taken /\ ~Whole /\ pending = <<>> /\ pending' = pending
    BY DEF ReadSocket
  <1>4. Wanted \in Nat /\ Wanted > 0 /\ Len(consumed) + Wanted <= FrameSize
    BY <1>1, <1>3 DEF Whole, Wanted
  <1>5. PICK n : n = (IF Wanted < arrived - taken THEN Wanted ELSE arrived - taken)
    OBVIOUS
  <1>6. consumed' = consumed \o Numbers(taken, n) /\ taken' = taken + n
    BY <1>5 DEF ReadSocket
  <1>7. n \in Nat /\ n > 0 /\ Len(consumed) + n <= FrameSize /\ taken + n <= arrived
    BY <1>1, <1>2, <1>3, <1>4, <1>5
  <1>8. /\ Numbers(taken, n) \in Seq(Nat) /\ Len(Numbers(taken, n)) = n
        /\ \A i \in 1..n : Numbers(taken, n)[i] = taken + i
    BY <1>2, <1>7 DEF Numbers
  <1>. QED
    <2>1. PICK read : read = Numbers(taken, n)
      OBVIOUS
    <2>2. /\ consumed' \in Seq(Nat) /\ Len(consumed') = Len(consumed) + n
          /\ \A i \in 1..Len(consumed) : consumed'[i] = consumed[i]
          /\ \A i \in 1..n : consumed'[Len(consumed) + i] = taken + i
      BY <1>1, <1>6, <1>8, <2>1, Joins
    <2>. QED
      BY <1>1, <1>3, <1>6, <1>7, <2>2

\* No step breaks the shape of a variable.
LEMMA TypeStep == IInv /\ [Next]_vars => Typed'
  <1> SUFFICES ASSUME IInv, [Next]_vars PROVE Typed'
    OBVIOUS
  <1>1. /\ Typed /\ FrameInv /\ Handler \in Threads /\ FrameSize \in Nat /\ FrameSize > 1
        /\ None \notin Ops /\ script' = script
    <2>1. script' = script
      BY DEF Next, vars, Arrive, PeerEnds, Handshake, Reads, Transmit, Finish, BeginSend, Call, ReadPending,
             ReadSocket, ReadEnd, ReadTimeout, GotBad, GotClose, GotPing, GotPong, GotText, GotFirst,
             GotContinuation, GotFrame
    <2>. QED
      BY <2>1, SocketConstants DEF IInv, Threads
  <1>2. Bytes \in Nat /\ Bytes' = Bytes
    BY <1>1 DEF Typed, Bytes
  <1>3. arrived \in Nat /\ arrived <= Bytes /\ taken \in Nat /\ taken <= arrived
        /\ pending \in Seq(Nat) /\ consumed \in Seq(Nat) /\ Len(consumed) <= FrameSize
        /\ <<>> \in Seq(Nat) /\ Len(<<>>) = 0
    BY <1>1, <1>2 DEF Typed
  <1>4. arrived' \in 0..Bytes /\ taken' \in 0..arrived' /\ pending' \in Seq(Nat)
        /\ consumed' \in Seq(Nat) /\ Len(consumed') <= FrameSize
    <2>1. arrived' \in Nat /\ arrived <= arrived' /\ arrived' <= Bytes
      <3>1. CASE Arrive
        BY <1>2, <1>3, <3>1 DEF Arrive
      <3>2. CASE ~Arrive
        <4>1. arrived' = arrived
          BY <3>2 DEF Next, vars, PeerEnds, Handshake, Reads, Transmit, Finish, BeginSend, Call, ReadPending,
             ReadSocket, ReadEnd, ReadTimeout, GotBad, GotClose, GotPing, GotPong, GotText, GotFirst,
             GotContinuation, GotFrame, peerVars
        <4>. QED
          BY <1>3, <4>1
      <3>. QED
        BY <3>1, <3>2
    <2>2. CASE Other
      BY <1>3, <2>1, <2>2, OtherKeeps DEF StreamKept
    <2>3. CASE Call
      BY <1>1, <1>3, <2>1, <2>3 DEF Call
    <2>4. CASE ReadPending
      <3>1. pending' \in Seq(Nat) /\ consumed' \in Seq(Nat) /\ Len(consumed') <= FrameSize /\ taken' = taken
        BY <1>1, <2>4, PendingTaken
      <3>. QED
        BY <1>3, <2>1, <3>1
    <2>5. CASE ReadSocket
      BY <1>1, <1>3, <2>1, <2>5, SocketTaken
    <2>6. CASE ReadTimeout
      BY <1>1, <1>3, <2>1, <2>6 DEF ReadTimeout, RolledBack
    <2>7. CASE GotSomething
      BY <1>1, <1>3, <2>1, <2>7, GotReads
    <2>. QED
      BY <2>2, <2>3, <2>4, <2>5, <2>6, <2>7, StreamCases
  <1>5. fragments' \in Seq(Nat) /\ messages' \in Seq(Seq(Nat))
    <2>1. fragments \in Seq(Nat) /\ messages \in Seq(Seq(Nat)) /\ <<>> \in Seq(Nat)
      BY <1>1 DEF Typed
    <2>2. CASE Other
      BY <2>1, <2>2, OtherKeeps DEF messageVars
    <2>3. CASE Call \/ ReadPending \/ ReadSocket \/ ReadTimeout \/ GotBad \/ GotClose \/ GotPing \/ GotPong
      BY <2>1, <2>3 DEF Call, ReadPending, ReadSocket, ReadTimeout, GotBad, GotClose, GotPing, GotPong,
           Fails, messageVars
    <2>4. ASSUME Whole PROVE FrameOf(consumed[1]) \in Nat
      <3>1. FrameOf(consumed[1]) = Passed + 1 /\ Passed \in Nat
        BY <1>1, <2>4, CurrentFrame, PassedFrames
      <3>. QED
        BY <3>1
    <2>5. PICK f : f = FrameOf(consumed[1])
      OBVIOUS
    <2>6. CASE GotText \/ GotFirst \/ GotContinuation("middle") \/ GotContinuation("last")
      <3>1. f \in Nat
        BY <2>4, <2>5, <2>6 DEF GotText, GotFirst, GotContinuation, GotFrame
      <3>2. <<f>> \in Seq(Nat) /\ Append(fragments, f) \in Seq(Nat)
        BY <2>1, <3>1
      <3>3. \A m \in Seq(Nat) : Append(messages, m) \in Seq(Seq(Nat))
        BY <2>1
      <3>. QED
        BY <2>1, <2>5, <2>6, <3>2, <3>3 DEF GotText, GotFirst, GotContinuation, Fails, Deliver, Joined,
             messageVars
    <2>. QED
      BY <2>2, <2>3, <2>6, StreamCases DEF GotSomething
  <1>6. {closed', reported', peerClosed', broken'} \subseteq BOOLEAN /\ wire' \in Seq(Ops)
    <2>1. {closed, reported, peerClosed, broken} \subseteq BOOLEAN /\ wire \in Seq(Ops)
      BY <1>1 DEF Typed
    <2>2. CASE Other
      <3>1. ASSUME NEW t \in Threads, Transmit(t)
            PROVE  {closed', reported', peerClosed', broken'} \subseteq BOOLEAN /\ wire' \in Seq(Ops)
        <4>1. OnWire(sending[t]) \in Ops
          <5>1. sending[t] \in Ops
            BY <1>1, <3>1 DEF Typed, SendTyped, Transmit
          <5>2. \A op \in Ops : OnWire(op) \in Ops
            BY DEF Ops, OnWire, Close
          <5>. QED
            BY <5>1, <5>2
        <4>. QED
          <5>1. Append(wire, OnWire(sending[t])) \in Seq(Ops)
            BY <2>1, <4>1
          <5>2. wire' \in Seq(Ops)
            BY <2>1, <3>1, <5>1 DEF Transmit
          <5>. QED
            BY <2>1, <3>1, <5>2 DEF Transmit, CloseWithReason, closeVars
      <3>2. ASSUME NEW t \in Threads, Finish(t)
            PROVE  {closed', reported', peerClosed', broken'} \subseteq BOOLEAN /\ wire' \in Seq(Ops)
        BY <2>1, <3>2 DEF Finish, CloseWithReason, closeVars
      <3>3. ASSUME Arrive \/ PeerEnds \/ Handshake \/ ReadEnd \/ UNCHANGED vars
            PROVE  {closed', reported', peerClosed', broken'} \subseteq BOOLEAN /\ wire' \in Seq(Ops)
        BY <2>1, <3>3 DEF Arrive, PeerEnds, Handshake, ReadEnd, vars, CloseWithReason, closeVars, sendVars
      <3>4. ASSUME NEW t \in Senders, BeginSend(t)
            PROVE  {closed', reported', peerClosed', broken'} \subseteq BOOLEAN /\ wire' \in Seq(Ops)
        BY <2>1, <3>4 DEF BeginSend, closeVars
      <3>. QED
        BY <2>2, <3>1, <3>2, <3>3, <3>4 DEF Other
    <2>3. CASE Call \/ ReadPending \/ ReadSocket \/ ReadTimeout
      BY <2>1, <2>3 DEF Call, ReadPending, ReadSocket, ReadTimeout, CloseWithReason, closeVars, sendVars
    <2>4. CASE GotSomething
      <3>1. UNCHANGED <<wire, broken>>
        BY <2>4, GotReads
      <3>2. {closed', reported', peerClosed'} \subseteq BOOLEAN
        BY <2>1, <2>4 DEF GotSomething, GotBad, GotClose, GotPing, GotPong, GotText, GotFirst,
             GotContinuation, Fails, Quiet, closeVars
      <3>. QED
        BY <2>1, <3>1, <3>2
    <2>. QED
      BY <2>2, <2>3, <2>4, StreamCases
  <1>7. SendTyped'
    <2>1. /\ pc \in {"new", "refused", "idle", "reading", "sending", "done"}
          /\ sending \in [Threads -> Ops \cup {None}]
          /\ (pc = "sending") <=> (sending[Handler] # None)
          /\ sending[Handler] \in {"ping", "pong", "reply", "fail", None}
          /\ out \subseteq {t \in Threads : sending[t] # None}
          /\ {"text", "close", "ping", "pong", "reply", "fail"} \subseteq Ops
      BY <1>1 DEF Typed, SendTyped, Ops
    <2>2. ASSUME NEW t \in Threads, Transmit(t) PROVE SendTyped'
      BY <1>1, <2>1, <2>2 DEF Transmit, SendTyped
    <2>3. ASSUME NEW t \in Threads, Finish(t) PROVE SendTyped'
      <3>1. t = Handler => sending[t] \in {"ping", "pong", "reply", "fail"}
        BY <2>1, <2>3 DEF Finish
      <3>. QED
        BY <1>1, <2>1, <2>3, <3>1 DEF Finish, SendTyped
    <2>4. ASSUME NEW t \in Senders, BeginSend(t) PROVE SendTyped'
      BY <1>1, <2>1, <2>4, SocketConstants DEF BeginSend, SendTyped, Threads
    <2>5. ASSUME Arrive \/ PeerEnds \/ Handshake \/ ReadEnd \/ UNCHANGED vars PROVE SendTyped'
      BY <1>1, <2>1, <2>5 DEF Arrive, PeerEnds, Handshake, ReadEnd, vars, sendVars, SendTyped
    <2>6. CASE Call \/ ReadPending \/ ReadSocket \/ ReadTimeout
      BY <1>1, <2>1, <2>6 DEF Call, ReadPending, ReadSocket, ReadTimeout, Sends, sendVars, SendTyped
    <2>7. CASE GotSomething
      <3>1. pc = "reading" /\ out' = out
        BY <2>7, GotReads
      <3>2. \/ pc' \in {"reading", "idle", "done"} /\ sending' = sending
            \/ /\ pc' = "sending"
               /\ \E op \in {"pong", "reply", "fail"} : sending' = [sending EXCEPT ![Handler] = op]
        BY <2>7, <3>1 DEF GotSomething, GotBad, GotClose, GotPing, GotPong, GotText, GotFirst,
             GotContinuation, GotFrame, Fails, Sends, ReplyTo, Quiet, Deliver
      <3>. QED
        BY <1>1, <2>1, <3>1, <3>2 DEF SendTyped
    <2>. QED
      BY <2>2, <2>3, <2>4, <2>5, <2>6, <2>7, StreamCases DEF Other
  <1>. QED
    BY <1>1, <1>2, <1>4, <1>5, <1>6, <1>7 DEF Typed
\* What the handler holds of the stream, and where its next frame begins.
LEMMA StreamFacts ==
  ASSUME Typed, FrameInv
  PROVE  /\ consumed \in Seq(Nat) /\ pending \in Seq(Nat) /\ taken \in Nat
         /\ Len(consumed) \in Nat /\ Len(pending) \in Nat
         /\ Position \in Nat /\ Position = taken - Len(consumed) - Len(pending)
         /\ Passed \in Nat /\ Position = FrameSize * Passed
  <1>1. script \in Seq(Kinds) /\ FrameSize \in Nat
    BY SocketConstants DEF Typed
  <1>2. Bytes \in Nat
    BY <1>1 DEF Bytes
  <1>. QED
    <2>1. consumed \in Seq(Nat) /\ pending \in Seq(Nat) /\ taken \in Nat
      BY <1>2 DEF Typed
    <2>2. Passed \in Nat /\ Position \in Nat /\ Position = FrameSize * Passed
      BY PassedFrames DEF FrameInv
    <2>. QED
      BY <2>1, <2>2 DEF Position

\* A step that reads no frame to its end leaves the handler where it is.
LEMMA FrameKept ==
  ASSUME Typed, FrameInv, Other \/ Call \/ ReadPending \/ ReadSocket \/ ReadTimeout
  PROVE  FrameInv' /\ Passed' = Passed
  <1>1. /\ consumed \in Seq(Nat) /\ pending \in Seq(Nat) /\ taken \in Nat
        /\ Len(consumed) \in Nat /\ Len(pending) \in Nat /\ Len(<<>>) = 0
        /\ Position \in Nat /\ Position = taken - Len(consumed) - Len(pending)
        /\ Passed \in Nat /\ Position = FrameSize * Passed
    BY StreamFacts
  <1>2. /\ \A i \in 1..Len(consumed) : consumed[i] = Position + i
        /\ \A i \in 1..Len(pending) : pending[i] = Position + Len(consumed) + i
        /\ pc \notin {"reading", "done"} => consumed = <<>>
    BY DEF FrameInv
  <1>3. ASSUME Position' = Position,
               \A i \in 1..Len(consumed') : consumed'[i] = Position + i,
               \A i \in 1..Len(pending') : pending'[i] = Position + Len(consumed') + i,
               pc' \notin {"reading", "done"} => consumed' = <<>>
        PROVE  FrameInv' /\ Passed' = Passed
    <2>1. Passed' = Passed
      BY <1>3 DEF Passed
    <2>. QED
      BY <1>1, <1>3, <2>1 DEF FrameInv
  <1>4. CASE Other
    <2>1. StreamKept
      BY <1>4, OtherKeeps
    <2>2. Position' = Position
      BY <2>1 DEF StreamKept, Position
    <2>3. ASSUME NEW t \in Threads, Transmit(t) \/ Finish(t)
          PROVE  pc' \notin {"reading", "done"} => pc \notin {"reading", "done"}
      <3>1. t = Handler => pc = "sending"
        BY <2>3 DEF Transmit, Finish, Typed, SendTyped
      <3>2. t # Handler => pc' = pc
        BY <2>3 DEF Transmit, Finish
      <3>. QED
        BY <3>1, <3>2
    <2>4. ASSUME NEW t \in Senders, BeginSend(t) PROVE pc' = pc
      BY <2>4 DEF BeginSend
    <2>5. ASSUME Arrive \/ PeerEnds \/ Handshake \/ ReadEnd \/ UNCHANGED vars
          PROVE  pc' \notin {"reading", "done"} => pc \notin {"reading", "done"}
      BY <2>5 DEF Arrive, PeerEnds, Handshake, ReadEnd, vars
    <2>6. pc' \notin {"reading", "done"} => pc \notin {"reading", "done"}
      BY <1>4, <2>3, <2>4, <2>5 DEF Other
    <2>. QED
      BY <1>2, <1>3, <2>1, <2>2, <2>6 DEF StreamKept
  <1>5. CASE Call
    <2>1. consumed = <<>> /\ consumed' = <<>> /\ UNCHANGED <<taken, pending>>
      BY <1>2, <1>5 DEF Call
    <2>2. Position' = Position
      BY <2>1 DEF Position
    <2>. QED
      BY <1>2, <1>3, <2>1, <2>2
  <1>6. CASE ReadPending
    <2>1. PICK n \in 1..Len(pending) :
           /\ consumed' \in Seq(Nat) /\ pending' \in Seq(Nat) /\ taken' = taken
           /\ Len(consumed') = Len(consumed) + n
           /\ Len(pending') = Len(pending) - n
           /\ \A i \in 1..Len(consumed) : consumed'[i] = consumed[i]
           /\ \A i \in 1..n : consumed'[Len(consumed) + i] = pending[i]
           /\ \A i \in 1..Len(pending) - n : pending'[i] = pending[n + i]
      BY <1>6, PendingTaken
    <2>2. Position' = Position
      BY <1>1, <2>1 DEF Position
    <2>3. ASSUME NEW i \in 1..Len(consumed') PROVE consumed'[i] = Position + i
      <3>1. CASE i \in 1..Len(consumed)
        BY <1>2, <2>1, <3>1
      <3>2. CASE i \notin 1..Len(consumed)
        <4>1. PICK j \in 1..n : i = Len(consumed) + j
          <5>1. i - Len(consumed) \in 1..n /\ i = Len(consumed) + (i - Len(consumed))
            BY <1>1, <2>1, <3>2
          <5>. QED
            BY <5>1
        <4>2. j \in 1..Len(pending)
          BY <1>1, <2>1
        <4>. QED
          BY <1>1, <1>2, <2>1, <4>1, <4>2
      <3>. QED
        BY <3>1, <3>2
    <2>4. ASSUME NEW i \in 1..Len(pending') PROVE pending'[i] = Position + Len(consumed') + i
      <3>1. n \in Nat /\ n <= Len(pending) /\ i \in 1..Len(pending) - n /\ i \in Nat
        BY <1>1, <2>1
      <3>2. n + i \in 1..Len(pending)
        BY <1>1, <3>1
      <3>3. /\ pending'[i] = pending[n + i] /\ Len(consumed') = Len(consumed) + n
            /\ pending[n + i] = Position + Len(consumed) + (n + i)
        BY <1>2, <2>1, <3>1, <3>2
      <3>4. Position + Len(consumed) + (n + i) = Position + (Len(consumed) + n) + i
        BY <1>1, <3>1
      <3>. QED
        BY <3>3, <3>4
    <2>5. pc' = "reading"
      BY <1>6 DEF ReadPending
    <2>. QED
      BY <1>3, <2>2, <2>3, <2>4, <2>5
  <1>7. CASE ReadSocket
    <2>1. PICK n \in Nat :
           /\ taken' = taken + n /\ pending = <<>> /\ pending' = pending
           /\ Len(consumed') = Len(consumed) + n
           /\ \A i \in 1..Len(consumed) : consumed'[i] = consumed[i]
           /\ \A i \in 1..n : consumed'[Len(consumed) + i] = taken + i
      BY <1>7, SocketTaken
    <2>2. Position' = Position
      BY <1>1, <2>1 DEF Position
    <2>3. ASSUME NEW i \in 1..Len(consumed') PROVE consumed'[i] = Position + i
      <3>1. CASE i \in 1..Len(consumed)
        BY <1>2, <2>1, <3>1
      <3>2. CASE i \notin 1..Len(consumed)
        <4>1. PICK j \in 1..n : i = Len(consumed) + j
          <5>1. i - Len(consumed) \in 1..n /\ i = Len(consumed) + (i - Len(consumed))
            BY <1>1, <2>1, <3>2
          <5>. QED
            BY <5>1
        <4>. QED
          BY <1>1, <2>1, <4>1
      <3>. QED
        BY <3>1, <3>2
    <2>4. pc' = "reading"
      BY <1>7 DEF ReadSocket
    <2>5. \A i \in 1..Len(pending') : pending'[i] = Position + Len(consumed') + i
      BY <1>1, <2>1
    <2>. QED
      BY <1>3, <2>2, <2>3, <2>4, <2>5
  <1>8. CASE ReadTimeout
    <2>1. pending' = consumed \o pending /\ consumed' = <<>> /\ taken' = taken /\ pending = <<>>
      BY <1>8 DEF ReadTimeout, RolledBack
    <2>2. pending' = consumed
      BY <1>1, <2>1
    <2>3. Position' = Position
      BY <1>1, <2>1, <2>2 DEF Position
    <2>4. \A i \in 1..Len(pending') : pending'[i] = Position + Len(consumed') + i
      <3>1. Len(consumed') = 0
        BY <1>1, <2>1
      <3>2. ASSUME NEW i \in 1..Len(consumed) PROVE consumed[i] = Position + 0 + i
        BY <1>1, <1>2
      <3>. QED
        BY <2>2, <3>1, <3>2
    <2>. QED
      BY <1>1, <1>3, <2>1, <2>3, <2>4
  <1>. QED
    BY <1>4, <1>5, <1>6, <1>7, <1>8

\* A frame that is read to its end is passed.
LEMMA FramePassed ==
  ASSUME Typed, FrameInv, GotSomething
  PROVE  FrameInv' /\ Passed' = Passed + 1
  <1>1. /\ consumed \in Seq(Nat) /\ pending \in Seq(Nat) /\ taken \in Nat
        /\ Len(consumed) \in Nat /\ Len(pending) \in Nat /\ Len(<<>>) = 0
        /\ Position \in Nat /\ Position = taken - Len(consumed) - Len(pending)
        /\ Passed \in Nat /\ Position = FrameSize * Passed
        /\ FrameSize \in Nat /\ FrameSize > 1
    BY StreamFacts, PassedFrames
  <1>2. Len(consumed) = FrameSize /\ consumed' = <<>> /\ UNCHANGED <<taken, pending>>
    BY GotReads DEF Whole
  <1>3. Position' = FrameSize * (Passed + 1) + 0
    BY <1>1, <1>2 DEF Position
  <1>4. Passed' = Passed + 1
    <2>1. (FrameSize * (Passed + 1) + 0) \div FrameSize = Passed + 1
      BY <1>1, Multiples
    <2>. QED
      BY <1>3, <2>1 DEF Passed
  <1>5. Position' = FrameSize * Passed' /\ Position' \in Nat
    BY <1>1, <1>3, <1>4
  <1>6. \A i \in 1..Len(pending') : pending'[i] = Position' + Len(consumed') + i
    <2>1. Position' = Position + FrameSize
      BY <1>1, <1>2 DEF Position
    <2>. QED
      BY <1>1, <1>2, <2>1 DEF FrameInv
  <1>. QED
    BY <1>1, <1>2, <1>4, <1>5, <1>6 DEF FrameInv
-----------------------------------------------------------------------------
(* Messages. *)

Message(m) ==
  /\ script[m[1]] \in {"text", "first"} /\ script[m[Len(m)]] \in {"text", "last"}
  /\ Range(m) = {i \in m[1]..m[Len(m)] : script[i] \in Data3}
  /\ Ordered(m)

\* MessagesWhole, said of one message at a time.
LEMMA MessagesAreMessages == MessagesWhole <=> \A m \in Range(messages) : Message(m)
  BY DEF MessagesWhole, Message, Ordered

\* One element more.
LEMMA Appends ==
  ASSUME NEW S, NEW m \in Seq(S), NEW f \in S
  PROVE  /\ Append(m, f) \in Seq(S) /\ Len(Append(m, f)) = Len(m) + 1
         /\ Append(m, f)[Len(m) + 1] = f
         /\ \A i \in 1..Len(m) : Append(m, f)[i] = m[i]
         /\ Range(Append(m, f)) = Range(m) \cup {f}
  <1>1. /\ Append(m, f) \in Seq(S) /\ Len(Append(m, f)) = Len(m) + 1
        /\ Append(m, f)[Len(m) + 1] = f
        /\ \A i \in 1..Len(m) : Append(m, f)[i] = m[i]
    OBVIOUS
  <1>2. /\ DOMAIN m = 1..Len(m) /\ DOMAIN Append(m, f) = 1..Len(m) + 1
        /\ 1..Len(m) + 1 = (1..Len(m)) \cup {Len(m) + 1}
    BY <1>1
  <1>. QED
    BY <1>1, <1>2 DEF Range

\* A frame without data leaves an unfinished message unfinished.
LEMMA PartSkips ==
  ASSUME NEW m \in Seq(Nat), NEW n \in Nat, Part(m, n), script[n + 1] \notin Data3
  PROVE  Part(m, n + 1)
  <1>1. m[1] \in Nat /\ m[Len(m)] \in Nat
    BY DEF Part
  <1>2. m[1] .. n + 1 \subseteq (m[1] .. n) \cup {n + 1} /\ m[1] .. n \subseteq m[1] .. n + 1
    BY <1>1
  <1>3. {i \in m[1] .. n + 1 : script[i] \in Data3} = {i \in m[1] .. n : script[i] \in Data3}
    BY <1>2
  <1>. QED
    BY <1>1, <1>3 DEF Part

\* A first fragment begins a message.
LEMMA PartBegins ==
  ASSUME NEW f \in Nat, script[f] = "first"
  PROVE  Part(<<f>>, f)
  <1>1. <<f>>[1] = f /\ Len(<<f>>) = 1 /\ <<f>> # <<>> /\ Range(<<f>>) = {f}
    BY DEF Range
  <1>2. {i \in f .. f : script[i] \in Data3} = {f}
    BY DEF Data3
  <1>. QED
    BY <1>1, <1>2 DEF Part, Ordered

\* A middle fragment goes on with a message and the last one ends it.
LEMMA PartGrows ==
  ASSUME NEW m \in Seq(Nat), NEW n \in Nat, Part(m, n), script[n + 1] \in {"middle", "last"}
  PROVE  /\ script[n + 1] = "middle" => Part(Append(m, n + 1), n + 1)
         /\ script[n + 1] = "last" => Message(Append(m, n + 1))
  <1>1. m # <<>> /\ m[1] \in Nat /\ m[Len(m)] \in Nat /\ Len(m) \in Nat /\ Len(m) > 0
    BY DEF Part
  <1>2. PICK g : g = Append(m, n + 1)
    OBVIOUS
  <1>3. /\ g \in Seq(Nat) /\ Len(g) = Len(m) + 1 /\ g[Len(g)] = n + 1 /\ g # <<>>
        /\ \A i \in 1..Len(m) : g[i] = m[i]
        /\ Range(g) = Range(m) \cup {n + 1}
    BY <1>2, Appends
  <1>4. g[1] = m[1]
    BY <1>1, <1>3
  <1>5. m[1] <= n + 1
    <2>1. m[1] \in Range(m)
      BY <1>1 DEF Range
    <2>. QED
      BY <1>1, <2>1 DEF Part
  <1>6. m[1] .. n + 1 = (m[1] .. n) \cup {n + 1}
    BY <1>1, <1>5
  <1>7. Range(g) = {i \in g[1] .. n + 1 : script[i] \in Data3}
    BY <1>3, <1>4, <1>6 DEF Part, Data3
  <1>8. Ordered(g)
    <2> SUFFICES ASSUME NEW i \in 1..Len(g) - 1
                 PROVE  g[i] < g[i + 1] /\ script[g[i + 1]] \in {"middle", "last"}
      BY DEF Ordered
    <2>1. CASE i = Len(m)
      BY <1>1, <1>3, <2>1 DEF Part
    <2>2. CASE i # Len(m)
      <3>1. i \in 1..Len(m) - 1 /\ i \in 1..Len(m) /\ i + 1 \in 1..Len(m)
        BY <1>1, <1>3, <2>2
      <3>. QED
        BY <1>3, <3>1 DEF Part, Ordered
    <2>. QED
      BY <2>1, <2>2
  <1>. QED
    BY <1>2, <1>3, <1>4, <1>7, <1>8 DEF Part, Message

\* A frame with a whole message is one.
LEMMA TextIsMessage ==
  ASSUME NEW f \in Nat, script[f] = "text"
  PROVE  Message(<<f>>)
  <1>1. <<f>>[1] = f /\ Len(<<f>>) = 1 /\ Range(<<f>>) = {f}
    BY DEF Range
  <1>2. {i \in f .. f : script[i] \in Data3} = {f}
    BY DEF Data3
  <1>. QED
    BY <1>1, <1>2 DEF Message, Ordered

\* What a step does to the unfinished message and to those the handler got:
\* nothing, or what recv_frame does with one data frame.
LEMMA MessageStep == IInv /\ [Next]_vars => FragmentInv' /\ MessagesWhole'
  <1> SUFFICES ASSUME IInv, [Next]_vars PROVE FragmentInv' /\ MessagesWhole'
    OBVIOUS
  <1>1. /\ Typed /\ FrameInv /\ FragmentInv /\ MessagesWhole /\ SendTyped
        /\ None \notin Ops /\ "fail" \in Ops /\ Handler \in Threads /\ Handler \notin Senders
        /\ fragments \in Seq(Nat) /\ messages \in Seq(Seq(Nat)) /\ <<>> \in Seq(Nat)
    BY SocketConstants DEF IInv, Typed, Threads, Ops
  <1>2. Passed \in Nat /\ Passed + 1 \in Nat
    BY <1>1, PassedFrames
  <1>3. script' = script
    BY DEF Next, vars, Arrive, PeerEnds, Handshake, Reads, Transmit, Finish, BeginSend, Call, ReadPending,
           ReadSocket, ReadEnd, ReadTimeout, GotBad, GotClose, GotPing, GotPong, GotText, GotFirst,
           GotContinuation, GotFrame
  <1>4. ASSUME messages' = messages PROVE MessagesWhole'
    BY <1>1, <1>3, <1>4 DEF MessagesWhole
  <1>5. ASSUME NEW m \in Seq(Nat), Message(m), messages' = Append(messages, m) PROVE MessagesWhole'
    <2>1. Range(messages') = Range(messages) \cup {m}
      BY <1>1, <1>5, Appends
    <2>2. \A l \in Range(messages') : Message(l)
      BY <1>1, <1>5, <2>1, MessagesAreMessages
    <2>. QED
      BY <1>3, <2>2 DEF MessagesWhole, Message, Ordered
  <1>6. ASSUME NEW m, NEW n, fragments' = m, Passed' = n, m # <<>> => Part(m, n)
        PROVE  FragmentInv'
    BY <1>3, <1>6 DEF FragmentInv, Part, Ordered
  <1>7. CASE Other \/ Call \/ ReadPending \/ ReadSocket \/ ReadTimeout
    <2>1. UNCHANGED <<fragments, messages>>
      <3>1. CASE Other
        BY <3>1, OtherKeeps DEF messageVars
      <3>2. CASE Call \/ ReadPending \/ ReadSocket \/ ReadTimeout
        BY <3>2 DEF Call, ReadPending, ReadSocket, ReadTimeout, messageVars
      <3>. QED
        BY <1>7, <3>1, <3>2
    <2>2. Passed' = Passed
      BY <1>1, <1>7, FrameKept
    <2>3. Failed => Failed'
      <3> SUFFICES ASSUME Failed PROVE Failed'
        OBVIOUS
      <3>1. pc \in {"done", "sending"} /\ (pc = "done" => sending[Handler] = None)
        BY <1>1 DEF Failed, SendTyped
      <3>2. ASSUME NEW t \in Threads, Transmit(t) \/ Finish(t) PROVE Failed'
        BY <1>1, <3>1, <3>2 DEF Transmit, Finish, Failed, SendTyped
      <3>3. ASSUME NEW t \in Senders, BeginSend(t) PROVE Failed'
        BY <1>1, <3>3 DEF BeginSend, Failed, SendTyped
      <3>4. CASE Arrive \/ PeerEnds \/ Handshake \/ ReadEnd \/ UNCHANGED vars
        BY <3>1, <3>4 DEF Arrive, PeerEnds, Handshake, ReadEnd, vars, sendVars, Failed
      <3>5. CASE Call \/ ReadPending \/ ReadSocket \/ ReadTimeout
        BY <3>1, <3>5 DEF Call, ReadPending, ReadSocket, ReadTimeout
      <3>. QED
        BY <1>7, <3>2, <3>3, <3>4, <3>5 DEF Other
    <2>4. FragmentInv'
      <3>1. CASE Failed
        BY <2>3, <3>1 DEF FragmentInv
      <3>2. CASE ~Failed
        BY <1>1, <1>6, <2>1, <2>2, <3>2 DEF FragmentInv
      <3>. QED
        BY <3>1, <3>2
    <2>. QED
      BY <1>4, <2>1, <2>4
  <1>8. CASE GotSomething
    <2>1. PICK n \in Nat : n = Passed + 1
      BY <1>2
    <2>2. /\ pc = "reading" /\ Passed' = n
          /\ FrameOf(consumed[1]) = n /\ Current = script[n]
      BY <1>1, <1>8, <2>1, GotReads, FramePassed, CurrentFrame
    <2>3. fragments # <<>> => Part(fragments, Passed)
      <3>1. ~Failed
        BY <1>1, <2>2 DEF Failed, SendTyped
      <3>. QED
        BY <1>1, <3>1 DEF FragmentInv
    <2>4. ASSUME Fails PROVE FragmentInv' /\ MessagesWhole'
      <3>1. Failed'
        BY <1>1, <2>4 DEF Fails, Sends, Failed, SendTyped
      <3>. QED
        BY <1>4, <2>4, <3>1 DEF Fails, FragmentInv, messageVars
    <2>5. ASSUME UNCHANGED messageVars, script[n] \notin Data3
          PROVE  FragmentInv' /\ MessagesWhole'
      <3>1. fragments' = fragments /\ messages' = messages
        BY <2>5 DEF messageVars
      <3>2. fragments # <<>> => Part(fragments, n)
        BY <1>1, <1>2, <2>1, <2>3, <2>5, PartSkips
      <3>. QED
        BY <1>4, <1>6, <2>2, <3>1, <3>2
    <2>6. ASSUME NEW m \in Seq(Nat), Message(m), Deliver(m)
          PROVE  FragmentInv' /\ MessagesWhole'
      BY <1>5, <2>6 DEF Deliver, FragmentInv
    <2>7. ASSUME NEW m \in Seq(Nat), Part(m, n), fragments' = m, messages' = messages
          PROVE  FragmentInv' /\ MessagesWhole'
      BY <1>4, <1>6, <2>2, <2>7
    <2>8. CASE GotBad
      BY <2>4, <2>8 DEF GotBad
    <2>9. CASE GotClose
      BY <2>2, <2>5, <2>9 DEF GotClose, GotFrame, Data3
    <2>10. CASE GotPing
      BY <2>2, <2>5, <2>10 DEF GotPing, GotFrame, Data3
    <2>11. CASE GotPong
      BY <2>2, <2>5, <2>11 DEF GotPong, GotFrame, Data3
    <2>12. CASE GotText
      <3>1. Message(<<n>>) /\ <<n>> \in Seq(Nat)
        <4>1. script[n] = "text"
          BY <2>2, <2>12 DEF GotText, GotFrame
        <4>. QED
          BY <4>1, TextIsMessage
      <3>. QED
        BY <2>2, <2>4, <2>6, <2>12, <3>1 DEF GotText
    <2>13. CASE GotFirst
      <3>1. Part(<<n>>, n) /\ <<n>> \in Seq(Nat)
        <4>1. script[n] = "first"
          BY <2>2, <2>13 DEF GotFirst, GotFrame
        <4>. QED
          BY <4>1, PartBegins
      <3>. QED
        BY <2>2, <2>4, <2>7, <2>13, <3>1 DEF GotFirst
    <2>14. ASSUME NEW kind \in {"middle", "last"}, GotContinuation(kind)
           PROVE  FragmentInv' /\ MessagesWhole'
      <3>1. script[n] = kind
        BY <2>2, <2>14 DEF GotContinuation, GotFrame
      <3>2. CASE fragments = <<>>
        BY <2>4, <2>14, <3>2 DEF GotContinuation
      <3>3. CASE fragments # <<>>
        <4>1. Joined(FrameOf(consumed[1])) = Append(fragments, n) /\ Append(fragments, n) \in Seq(Nat)
          BY <1>1, <2>2 DEF Joined
        <4>2. /\ kind = "middle" => Part(Append(fragments, n), n)
              /\ kind = "last" => Message(Append(fragments, n))
          BY <1>1, <1>2, <2>1, <2>3, <3>1, <3>3, PartGrows
        <4>3. CASE kind = "last"
          BY <2>6, <2>14, <3>3, <4>1, <4>2, <4>3 DEF GotContinuation
        <4>4. CASE kind = "middle"
          BY <2>7, <2>14, <3>3, <4>1, <4>2, <4>4 DEF GotContinuation
        <4>. QED
          BY <4>3, <4>4
      <3>. QED
        BY <3>2, <3>3
    <2>. QED
      BY <1>8, <2>8, <2>9, <2>10, <2>11, <2>12, <2>13, <2>14 DEF GotSomething
  <1>. QED
    BY <1>7, <1>8, StreamCases

-----------------------------------------------------------------------------
(* The end of a connection. *)

\* What was sent stays sent.
LEMMA WireGrows ==
  ASSUME Typed, [Next]_vars
  PROVE  "close" \in Range(wire) => "close" \in Range(wire')
  <1>1. wire \in Seq(Ops)
    BY DEF Typed
  <1>2. ASSUME NEW t \in Threads, Transmit(t), wire' # wire PROVE Range(wire) \subseteq Range(wire')
    <2>1. wire' = Append(wire, OnWire(sending[t])) /\ OnWire(sending[t]) \in Ops
      <3>1. sending[t] \in Ops
        BY <1>2 DEF Transmit, Typed, SendTyped
      <3>. QED
        BY <1>2, <3>1 DEF Transmit, OnWire, Close, Ops
    <2>. QED
      BY <1>1, <2>1, Appends
  <1>3. wire' = wire \/ \E t \in Threads : Transmit(t)
    <2>1. ASSUME Other PROVE wire' = wire \/ \E t \in Threads : Transmit(t)
      BY <2>1 DEF Other, Arrive, PeerEnds, Handshake, ReadEnd, vars, sendVars, Finish, BeginSend
    <2>2. ASSUME Call \/ ReadPending \/ ReadSocket \/ ReadTimeout PROVE wire' = wire
      BY <2>2 DEF Call, ReadPending, ReadSocket, ReadTimeout, sendVars
    <2>3. ASSUME GotSomething PROVE wire' = wire
      BY <2>3, GotReads
    <2>. QED
      BY <2>1, <2>2, <2>3, StreamCases
  <1>. QED
    BY <1>2, <1>3

\* A thread that is past the lock with a CLOSE has put it on the wire; until a
\* socket is closed for one of these reasons nothing closes it, and a handler
\* that owes the peer an answer sends it or fails.
LEMMA CloseStep == IInv /\ [Next]_vars => CloseInv'
  <1> SUFFICES ASSUME IInv, [Next]_vars PROVE CloseInv'
    OBVIOUS
  <1> DEFINE Told == "close" \in Range(wire)
  <1>1. /\ Typed /\ SendTyped /\ CloseInv /\ wire \in Seq(Ops)
        /\ None \notin Ops /\ "reply" \in Ops /\ Handler \in Threads /\ Handler \notin Senders
        /\ {closed, reported, peerClosed, broken} \subseteq BOOLEAN
    BY SocketConstants DEF IInv, Typed, Threads, Ops
  <1>2. /\ closed => reported
        /\ closed => broken \/ Told \/ pc = "done"
        /\ \A t \in out : sending[t] \in Close => Told
        /\ peerClosed => broken \/ Told \/ sending[Handler] = "reply"
        /\ Told => Told'
    BY <1>1, WireGrows DEF CloseInv
  <1>3. /\ (pc = "sending") <=> (sending[Handler] # None)
        /\ sending \in [Threads -> Ops \cup {None}]
        /\ sending[Handler] \in {"ping", "pong", "reply", "fail", None}
        /\ out \subseteq Threads
    BY <1>1 DEF SendTyped
  <1>4. ASSUME closed' => reported',
               closed' => broken' \/ Told' \/ pc' = "done",
               \A t \in out' : sending'[t] \in Close => Told',
               peerClosed' => broken' \/ Told' \/ sending'[Handler] = "reply"
        PROVE  CloseInv'
    BY <1>4 DEF CloseInv
  <1> HIDE DEF Told
  <1>5. ASSUME NEW t \in Threads, Transmit(t) PROVE CloseInv'
    <2>1. CASE broken'
      <3>1. wire' = wire /\ out' = out /\ t \notin out /\ sending' = [sending EXCEPT ![t] = None]
            /\ closed' /\ reported'
        BY <1>1, <2>1, <1>5 DEF Transmit, CloseWithReason
      <3>2. \A u \in out' : sending'[u] = sending[u]
        BY <1>3, <3>1
      <3>. QED
        BY <1>2, <1>4, <2>1, <3>1, <3>2
    <2>2. CASE ~broken'
      <3>1. /\ wire' = Append(wire, OnWire(sending[t])) /\ out' = out \cup {t} /\ ~broken
            /\ UNCHANGED <<pc, closed, reported, sending, peerClosed>>
        BY <2>2, <1>5 DEF Transmit, closeVars
      <3>2. sending[t] \in Close => Told'
        <4> SUFFICES ASSUME sending[t] \in Close PROVE Told'
          OBVIOUS
        <4>1. wire' = Append(wire, "close") /\ "close" \in Ops
          BY <3>1 DEF OnWire, Ops
        <4>. QED
          BY <1>1, <4>1, Appends DEF Told
      <3>. QED
        BY <1>2, <1>4, <3>1, <3>2
    <2>. QED
      BY <2>1, <2>2
  <1>6. ASSUME NEW t \in Threads, Finish(t) PROVE CloseInv'
    <2>1. /\ t \in out /\ out' = out \ {t} /\ sending' = [sending EXCEPT ![t] = None]
          /\ UNCHANGED <<wire, broken, peerClosed>>
          /\ IF sending[t] \in Close THEN closed' /\ reported' ELSE UNCHANGED <<closed, reported>>
      BY <1>6 DEF Finish, CloseWithReason, closeVars
    <2>2. \A u \in out' : sending'[u] = sending[u]
      BY <1>3, <2>1
    <2>3. sending[t] \in Close => Told
      BY <1>2, <2>1
    <2>4. pc = "done" => pc' = "done"
      BY <1>3, <1>6, <1>1 DEF Finish, SendTyped
    <2>5. sending[Handler] = "reply" => Told \/ sending'[Handler] = "reply"
      <3>1. CASE t = Handler
        BY <2>3, <3>1 DEF Close
      <3>2. CASE t # Handler
        BY <1>1, <1>3, <2>1, <3>2
      <3>. QED
        BY <3>1, <3>2
    <2>. QED
      BY <1>2, <1>4, <2>1, <2>2, <2>3, <2>4, <2>5
  <1>7. ASSUME NEW t \in Senders, BeginSend(t) PROVE CloseInv'
    <2>1. /\ sending[t] = None /\ t # Handler /\ t \in Threads
          /\ \E op \in {"text", "close"} : sending' = [sending EXCEPT ![t] = op]
          /\ UNCHANGED <<wire, broken, peerClosed, pc, out, closed, reported>>
      BY <1>1, <1>7 DEF BeginSend, closeVars, Threads
    <2>2. t \notin out
      BY <1>1, <2>1 DEF SendTyped
    <2>3. \A u \in Threads : u # t => sending'[u] = sending[u]
      BY <1>3, <2>1
    <2>. QED
      BY <1>1, <1>2, <1>3, <1>4, <2>1, <2>2, <2>3
  <1>8. CASE Arrive \/ PeerEnds \/ Handshake \/ UNCHANGED vars
    <2>1. /\ UNCHANGED <<closed, reported, peerClosed, sending, out, wire, broken>>
          /\ pc = "done" => pc' = "done"
      BY <1>8 DEF Arrive, PeerEnds, Handshake, vars, closeVars, sendVars
    <2>. QED
      BY <1>2, <1>4, <2>1
  <1>9. CASE ReadEnd
    <2>1. /\ UNCHANGED <<peerClosed, sending, out, wire, broken>>
          /\ pc' = "done" /\ closed' /\ reported'
      BY <1>9 DEF ReadEnd, CloseWithReason, sendVars
    <2>. QED
      BY <1>2, <1>4, <2>1
  <1>10. CASE Call \/ ReadPending \/ ReadSocket
    <2>1. /\ UNCHANGED <<closed, reported, peerClosed, sending, out, wire, broken>>
          /\ pc # "done"
      BY <1>10 DEF Call, ReadPending, ReadSocket, closeVars, sendVars
    <2>. QED
      BY <1>2, <1>4, <2>1
  <1>11. pc = "reading" => sending[Handler] = None /\ Handler \notin out
    BY <1>1 DEF SendTyped
  <1>12. CASE ReadTimeout
    <2>1. /\ UNCHANGED <<peerClosed, out, wire, broken>> /\ pc = "reading"
          /\ \/ closed' /\ reported' /\ pc' = "done"
             \/ UNCHANGED <<closed, reported>>
          /\ closed => pc' = "done"
      BY <1>12, <1>2 DEF ReadTimeout, CloseWithReason, closeVars, Sends
    <2>2. \A u \in Threads : u # Handler => sending'[u] = sending[u]
      BY <1>3, <1>12 DEF ReadTimeout, Sends
    <2>. QED
      BY <1>1, <1>2, <1>3, <1>4, <1>11, <2>1, <2>2
  <1>13. CASE GotSomething
    <2>1. /\ UNCHANGED <<out, wire, broken>> /\ pc = "reading"
      BY <1>13, GotReads
    <2>2. closed' = closed /\ (reported => reported')
      BY <1>13 DEF GotSomething, GotBad, GotClose, GotPing, GotPong, GotText, GotFirst,
             GotContinuation, Fails, Quiet, closeVars
    <2>3. \A u \in Threads : u # Handler => sending'[u] = sending[u]
      BY <1>3, <1>13 DEF GotSomething, GotBad, GotClose, GotPing, GotPong, GotText, GotFirst,
             GotContinuation, Fails, Sends, Quiet
    <2>4. closed => broken \/ Told
      BY <1>2, <2>1
    <2>5. peerClosed' => peerClosed \/ closed \/ sending'[Handler] = "reply"
      <3>1. CASE GotClose
        BY <1>1, <1>3, <3>1 DEF GotClose, ReplyTo
      <3>2. CASE ~GotClose
        BY <1>13, <3>2 DEF GotSomething, GotBad, GotPing, GotPong, GotText, GotFirst,
             GotContinuation, Fails, Quiet
      <3>. QED
        BY <3>1, <3>2
    <2>6. peerClosed => broken \/ Told
      BY <1>1, <1>2, <1>11, <2>1
    <2>. QED
      BY <1>2, <1>3, <1>4, <1>11, <2>1, <2>2, <2>3, <2>4, <2>5, <2>6
  <1>. QED
    BY <1>5, <1>6, <1>7, <1>8, <1>9, <1>10, <1>12, <1>13, StreamCases DEF Other

-----------------------------------------------------------------------------
\* The reader is in step, messages are whole and closing is heard of, always.
LEMMA SocketInvariant == Spec => []IInv
  <1>1. Init => IInv
    BY TypeInit, FrameInit DEF IInv
  <1>2. IInv /\ [Next]_vars => IInv'
    <2> SUFFICES ASSUME IInv, [Next]_vars PROVE IInv'
      OBVIOUS
    <2>1. FrameInv'
      BY FrameKept, FramePassed, StreamCases DEF IInv
    <2>. QED
      BY <2>1, TypeStep, MessageStep, CloseStep DEF IInv
  <1>. QED
    BY <1>1, <1>2, PTL DEF Spec

\* What the reader holds is one stretch of the stream that begins a frame.
LEMMA InSync == ASSUME Typed, FrameInv PROVE FramingInSync
  <1>1. PICK line : line = consumed \o pending
    OBVIOUS
  <1>2. /\ consumed \in Seq(Nat) /\ pending \in Seq(Nat) /\ taken \in Nat
        /\ Len(consumed) \in Nat /\ Len(pending) \in Nat
        /\ Position \in Nat /\ Position = taken - Len(consumed) - Len(pending)
    BY StreamFacts
  <1>3. /\ line \in Seq(Nat) /\ Len(line) = Len(consumed) + Len(pending)
        /\ \A i \in 1..Len(consumed) : line[i] = consumed[i]
        /\ \A i \in 1..Len(pending) : line[Len(consumed) + i] = pending[i]
    BY <1>1, <1>2, Joins
  <1>4. ASSUME NEW i \in 1..Len(line) PROVE line[i] = Position + i
    <2>1. CASE i <= Len(consumed)
      BY <1>2, <1>3, <2>1 DEF FrameInv
    <2>2. CASE i > Len(consumed)
      <3>1. PICK j \in 1..Len(pending) : i = Len(consumed) + j
        <4>1. i - Len(consumed) \in 1..Len(pending) /\ i = Len(consumed) + (i - Len(consumed))
          BY <1>2, <1>3, <2>2
        <4>. QED
          BY <4>1
      <3>2. line[i] = pending[j] /\ pending[j] = Position + Len(consumed) + j
        BY <1>3, <3>1 DEF FrameInv
      <3>. QED
        BY <1>2, <3>1, <3>2
    <2>. QED
      BY <1>2, <1>3, <2>1, <2>2
  <1>5. ASSUME line # <<>> PROVE line[1] % FrameSize = 1 % FrameSize
    <2>1. Passed \in Nat /\ FrameSize \in Nat /\ FrameSize > 1 /\ 0 \in Nat /\ 1 \in Nat
      BY PassedFrames
    <2>2. Position = FrameSize * Passed
      BY StreamFacts
    <2>3. \A q \in Nat : (FrameSize * q + 1) % FrameSize = 1
      <3> SUFFICES ASSUME NEW q \in Nat PROVE (FrameSize * q + 1) % FrameSize = 1
        OBVIOUS
      <3>1. FrameSize > 0 /\ 1 < FrameSize
        BY <2>1
      <3>. QED
        BY <2>1, <3>1, Multiples
    <2>4. (FrameSize * 0 + 1) % FrameSize = 1
      BY <2>1, <2>3
    <2>5. FrameSize * 0 + 1 = 1
      BY <2>1
    <2>6. line[1] = Position + 1
      BY <1>2, <1>3, <1>4, <1>5
    <2>. QED
      BY <2>1, <2>2, <2>3, <2>4, <2>5, <2>6
  <1>6. \A i \in 1..Len(line) : line[i] = taken - Len(line) + i
    BY <1>2, <1>3, <1>4
  <1>. QED
    BY <1>1, <1>5, <1>6 DEF FramingInSync

\* However reads and timeouts cut the bytes, the reader stays in step with the
\* frames, and each message the handler gets from recv_frame is one message of
\* the peer, all its fragments in order with none of another between them.
THEOREM MessagesAreWhole == Spec => []MessagesSound
  <1>1. IInv => MessagesSound
    <2> SUFFICES ASSUME IInv PROVE MessagesSound
      OBVIOUS
    <2>1. script \in Seq(Kinds) /\ FrameSize \in Nat
      BY SocketConstants DEF IInv, Typed
    <2>2. Bytes \in Nat
      BY <2>1 DEF Bytes
    <2>3. TypeOK
      BY <2>2 DEF IInv, Typed, SendTyped, TypeOK
    <2>. QED
      BY <2>3, InSync DEF IInv, MessagesSound
  <1>. QED
    BY <1>1, SocketInvariant, PTL

\* on_close is called for every socket that is closed, and a CLOSE from the
\* peer is answered with one unless a send has failed, whichever of the peer, a
\* timeout, a failed send and closing threads came first.
THEOREM CloseIsHeard == Spec => []CloseHeard
  <1>1. IInv => CloseHeard
    <2> SUFFICES ASSUME IInv PROVE CloseHeard
      OBVIOUS
    <2>1. CloseReported
      BY DEF IInv, CloseInv, CloseReported
    <2>2. CloseAnswered
      <3>1. sending[Handler] = "reply" => pc = "sending"
        BY SocketConstants DEF IInv, Typed, SendTyped, Ops
      <3>. QED
        BY <3>1 DEF IInv, CloseInv, CloseAnswered
    <2>. QED
      BY <2>1, <2>2 DEF CloseHeard
  <1>. QED
    BY <1>1, SocketInvariant, PTL
=============================================================================

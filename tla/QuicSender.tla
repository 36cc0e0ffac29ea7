----------------------------- MODULE QuicSender -----------------------------
(***************************************************************************)
(* The sending half of a QUIC connection: quic/connection.py with          *)
(* quic/recovery.py and the amplification limit of quic/address.py.        *)
(*                                                                         *)
(* Two kinds of thread meet here.  A producer (a streamed response) queues *)
(* pieces of a stream and may give the stream up with reset_stream(); the  *)
(* thread that owns the socket takes the queue, cuts what the peer's       *)
(* credit, the congestion window and the amplification limit allow into    *)
(* packets and puts the rest back.  The lock of the queue is held only     *)
(* while the queue is taken and while it is put back, so producers go on   *)
(* between the two.  The same thread receives acknowledgements, declares   *)
(* packets lost and answers its timer.                                     *)
(*                                                                         *)
(* Modelled is the 1-RTT packet number space.  A byte of a stream is its   *)
(* number in the order it was produced, so a frame shows both where it     *)
(* says its bytes belong (off) and which bytes they are (from).  Time is   *)
(* left out: a packet that time alone may declare lost is declared lost,   *)
(* or not yet, and the timer fires whenever it is armed.  As packets are   *)
(* sent in the order of their numbers, "sent at or before t" is "numbered  *)
(* below n".  Every call that receives answers with an ACK, alone in its   *)
(* packet or before the frames the call sends; ACK frames are not kept in  *)
(* frames, so a packet that is not ack-eliciting is one without frames.    *)
(***************************************************************************)
EXTENDS Integers, FiniteSets, Sequences, FiniteSetsExt, SequencesExt

CONSTANTS
  SendStreams,      \* streams the server sends on
  Control,          \* its control stream; the others have one producer each
  Absent,           \* no stream: the connection's limit; no threshold yet
  MaxBytes,         \* bound: bytes a producer makes
  Chunk,            \* STREAM_CHUNK_SIZE
  Overhead,         \* PACKET_OVERHEAD_ESTIMATE, and what a packet adds
  InitialWindow,    \* INITIAL_WINDOW
  MinimumWindow,    \* MINIMUM_WINDOW
  PacketThreshold,  \* PACKET_THRESHOLD
  MaxPackets,       \* bound: packet numbers used
  MaxCredit,        \* bound: the largest limit the peer grants
  MaxReceived       \* bound: the bytes that arrive before the handshake ends

ASSUME SenderConstants ==
  /\ Absent \notin SendStreams /\ Control \in SendStreams
  /\ {Chunk, Overhead, PacketThreshold} \subseteq Nat \ {0}
  /\ {MaxPackets, MaxCredit, MaxReceived, InitialWindow} \subseteq Nat
  /\ {MaxBytes, MinimumWindow} \subseteq Nat \ {0}
  /\ IsFiniteSet(SendStreams)

VARIABLES
  outbound,     \* _outbound
  queuedBytes,  \* _queued_bytes
  produced,     \* bytes a producer has queued so far
  finished,     \* the producer has queued its FIN or its reset
  batch,        \* drain_outbound: pending, what is left of it
  draining,     \* drain_outbound runs
  keep, control, stalled, stopped,   \* its local variables
  offset,       \* _send_offsets
  total,        \* _sent_data_total
  resets,       \* _reset_streams
  reported,     \* _blocked_reported
  peerMaxData,  \* _peer_max_data
  peerStreamMax, \* _peer_stream_max
  validated,    \* amplification.validated
  budget,       \* amplification.budget(), 0 once validated
  arrived,      \* amplification.received
  sent,         \* recovery.sent: the packets neither acknowledged nor lost
  number,       \* packet_numbers
  inFlight,     \* congestion.bytes_in_flight
  window,       \* congestion.congestion_window
  ssthresh,     \* congestion.ssthresh
  recoveryFrom, \* the first packet sent after congestion.recovery_start_time
  largestAcked, \* recovery.largest_acked
  lossTime,     \* recovery.loss_time is not None
  armed,        \* recovery.time_of_last_ack_eliciting is not None
  closed,       \* closed
  acked         \* history: frames of the packets whose ACK has come

queueVars == <<outbound, queuedBytes>>
producerVars == <<produced, finished>>
drainVars == <<batch, draining, keep, control, stalled, stopped>>
streamVars == <<offset, total, resets, reported>>
creditVars == <<peerMaxData, peerStreamMax>>
pathVars == <<validated, arrived>>
congestionVars == <<window, ssthresh, recoveryFrom>>
lossVars == <<largestAcked, lossTime>>
packetVars == <<sent, number, inFlight, budget, armed>>
senderVars == <<queueVars, producerVars, drainVars, streamVars, creditVars, pathVars,
          congestionVars, lossVars, packetVars, closed, acked>>

-----------------------------------------------------------------------------
Piece(s, from, len, fin) == [kind |-> "data", s |-> s, from |-> from, len |-> len, fin |-> fin]
Abandon(s) == [kind |-> "reset", s |-> s]

DataFrame(p, off) == [kind |-> "stream", s |-> p.s, off |-> off, from |-> p.from, len |-> p.len, fin |-> p.fin]
ResetFrame(s, final) == [kind |-> "reset", s |-> s, final |-> final]
BlockedFrame(s, limit) == [kind |-> "blocked", s |-> s, limit |-> limit]
OtherFrame == [kind |-> "other"]

Carries(f) == f.kind = "stream"
LengthOf(f) == IF Carries(f) THEN f.len ELSE 0
SizeOf(frames) == Overhead + SumFunctionOnSet([f \in frames |-> LengthOf(f)], frames)

Eliciting(p) == p.frames # {}
FlightSize(p) == IF Eliciting(p) THEN p.size ELSE 0
FramesOf(numbers) == UNION {sent[n].frames : n \in numbers}
Smallest(a, b) == IF a < b THEN a ELSE b
Largest(a, b) == IF a > b THEN a ELSE b

PieceOf(e, s) == e.kind = "data" /\ e.s = s
LengthIn(e, s) == IF PieceOf(e, s) THEN e.len ELSE 0

\* The bytes of a stream among the first k entries of a queue.
BytesOf(q, s, k) == SumFunctionOnSet([i \in 1..k |-> LengthIn(q[i], s)], 1..k)

\* _queued_bytes as drain_outbound counts it again.
Recount(q) == [s \in SendStreams |-> BytesOf(q, s, Len(q))]

\* _build_packet: of the packets on record those in kept stay, and one with
\* these frames is added.
Record(kept, flight, frames, goes) ==
  LET packet == [frames |-> frames, size |-> SizeOf(frames), out |-> goes] IN
  /\ number <= MaxPackets
  /\ sent' = [n \in kept \cup {number} |-> IF n = number THEN packet ELSE sent[n]]
  /\ number' = number + 1
  /\ inFlight' = flight + FlightSize(packet)
  /\ armed' = (armed \/ frames # {})

\* _flush for one packet: it is on record before the amplification limit is
\* asked, and stays there when that refuses it.
MaySend(size) == validated \/ size <= budget
Build(kept, flight, frames) ==
  /\ Record(kept, flight, frames, MaySend(SizeOf(frames)))
  /\ budget' = IF validated \/ ~MaySend(SizeOf(frames)) THEN budget ELSE budget - SizeOf(frames)

-----------------------------------------------------------------------------
SenderInit ==
  /\ outbound = <<Piece(Control, 0, 1, FALSE)>>
  /\ produced = [s \in SendStreams |-> IF s = Control THEN 1 ELSE 0] /\ queuedBytes = produced
  /\ finished = {Control}
  /\ batch = <<>> /\ draining = FALSE /\ keep = <<>> /\ control = {} /\ stalled = {} /\ stopped = FALSE
  /\ offset = [s \in SendStreams |-> 0] /\ total = 0 /\ resets = {}
  /\ reported = [k \in SendStreams \cup {Absent} |-> 0]
  /\ peerMaxData \in 1..MaxCredit /\ peerStreamMax = [s \in SendStreams |-> 1]
  /\ validated = FALSE /\ arrived = 1 /\ budget \in {0, 3}
  /\ sent = <<>> /\ number = 1 /\ inFlight = 0
  /\ window = InitialWindow /\ ssthresh = Absent /\ recoveryFrom = 0
  /\ largestAcked = 0 /\ lossTime = FALSE /\ armed = FALSE
  /\ closed = FALSE /\ acked = {}

-----------------------------------------------------------------------------
(* The producers. *)

\* The bytes of one call in pieces that fit a packet, the FIN on the last; of no
\* bytes one empty piece.
PiecesOf(s, from, len, fin) ==
  LET n == Largest(1, (len + Chunk - 1) \div Chunk)
  IN  [i \in 1..n |-> Piece(s, from + (i - 1) * Chunk, IF i < n THEN Chunk ELSE len - (n - 1) * Chunk,
                            fin /\ i = n)]

\* queue_stream_data: a whole response, the head of a streamed one, a chunk, a
\* WebSocket's frame, or the FIN alone, behind whatever waits already.  Only a
\* chunk is held up first, while the stream has MAX_PENDING_STREAM_BYTES queued,
\* which the bytes made here never are.
Queue(s) ==
  /\ s \notin finished
  /\ \E len \in 0..MaxBytes - produced[s], fin \in BOOLEAN :
       /\ len = 0 => fin /\ produced[s] > 0
       /\ outbound' = outbound \o PiecesOf(s, produced[s], len, fin)
       /\ queuedBytes' = [queuedBytes EXCEPT ![s] = @ + len]
       /\ produced' = [produced EXCEPT ![s] = @ + len]
       /\ finished' = IF fin THEN finished \cup {s} ELSE finished
  /\ UNCHANGED <<drainVars, streamVars, creditVars, pathVars, congestionVars, lossVars, packetVars, closed, acked>>

Without(q, s) == FoldLeft(LAMBDA kept, e : IF e.s = s THEN kept ELSE Append(kept, e), <<>>, q)

\* reset_stream: the producer failed or waited too long.
ResetStream(s) ==
  /\ s \notin finished /\ produced[s] > 0
  /\ outbound' = Append(Without(outbound, s), Abandon(s))
  /\ queuedBytes' = [queuedBytes EXCEPT ![s] = 0]
  /\ finished' = finished \cup {s}
  /\ UNCHANGED <<produced, drainVars, streamVars, creditVars, pathVars, congestionVars, lossVars, packetVars,
                 closed, acked>>

-----------------------------------------------------------------------------
(* drain_outbound, one entry of the queue at a time. *)

Idle == ~draining /\ ~closed

DrainTake ==
  /\ Idle /\ outbound # <<>>
  /\ draining' = TRUE /\ batch' = outbound /\ outbound' = <<>>
  /\ keep' = <<>> /\ control' = {} /\ stalled' = {} /\ stopped' = FALSE
  /\ UNCHANGED <<queuedBytes, producerVars, streamVars, creditVars, pathVars, congestionVars, lossVars, packetVars,
                 closed, acked>>

NextEntry == draining /\ batch # <<>> /\ batch' = Tail(batch) /\ UNCHANGED draining

DrainReset ==
  /\ NextEntry
  /\ LET e == Head(batch) IN
     /\ e.kind = "reset"
     /\ control' = control \cup {ResetFrame(e.s, offset[e.s])}
     /\ resets' = resets \cup {e.s}
     /\ keep' = Without(keep, e.s)
  /\ UNCHANGED <<stalled, stopped, offset, total, reported, queueVars, producerVars, creditVars, pathVars,
                 congestionVars, lossVars, packetVars, closed, acked>>

\* A piece of a stream that was reset goes nowhere; one that comes after a
\* held piece of its stream, or after the loop has stopped, is held too.
DrainHold ==
  /\ NextEntry
  /\ LET e == Head(batch) IN
     /\ e.kind = "data"
     /\ \/ e.s \in resets /\ UNCHANGED keep
        \/ e.s \notin resets /\ (stopped \/ e.s \in stalled) /\ keep' = Append(keep, e)
  /\ UNCHANGED <<control, stalled, stopped, streamVars, queueVars, producerVars, creditVars, pathVars,
                 congestionVars, lossVars, packetVars, closed, acked>>

\* _flow_allowance
Allowance(e) == Largest(0, Smallest(e.len, Smallest(peerStreamMax[e.s] - offset[e.s], peerMaxData - total)))

\* _blocked_frames: once for each value of a limit.
Blocked(e) ==
  [s |-> IF offset[e.s] + e.len > peerStreamMax[e.s] /\ reported[e.s] # peerStreamMax[e.s]
         THEN {BlockedFrame(e.s, peerStreamMax[e.s])} ELSE {},
   c |-> IF total + e.len > peerMaxData /\ reported[Absent] # peerMaxData
         THEN {BlockedFrame(Absent, peerMaxData)} ELSE {}]

Report(e) ==
  LET b == Blocked(e) IN
  /\ control' = control \cup b.s \cup b.c
  /\ reported' = [k \in DOMAIN reported |->
       IF k = e.s /\ b.s # {} THEN peerStreamMax[e.s]
       ELSE IF k = Absent /\ b.c # {} THEN peerMaxData ELSE reported[k]]
  /\ stalled' = stalled \cup {e.s}

Cut(e, n) == IF n < e.len THEN <<Piece(e.s, e.from, n, FALSE), Piece(e.s, e.from + n, e.len - n, e.fin)>> ELSE <<e>>

CanSend(n) == inFlight + n + Overhead <= window

DrainSend ==
  /\ NextEntry
  /\ LET e == Head(batch)
         n == Allowance(e)
         cut == Cut(e, n)
         frames == {DataFrame(cut[1], offset[e.s])}
     IN
     /\ e.kind = "data" /\ e.s \notin resets /\ ~stopped /\ e.s \notin stalled
     /\ IF n < e.len THEN Report(e) ELSE UNCHANGED <<control, reported, stalled>>
     /\ \/ /\ n < e.len /\ n = 0
           /\ keep' = Append(keep, e)
           /\ UNCHANGED <<stopped, offset, total, packetVars>>
        \/ /\ n = e.len \/ n > 0
           /\ ~CanSend(n)
           /\ stopped' = TRUE /\ keep' = keep \o cut
           /\ UNCHANGED <<offset, total, packetVars>>
        \/ /\ n = e.len \/ n > 0
           /\ CanSend(n)
           /\ Build(DOMAIN sent, inFlight, frames)
           /\ IF MaySend(SizeOf(frames))
              THEN /\ offset' = [offset EXCEPT ![e.s] = @ + n] /\ total' = total + n
                   /\ keep' = keep \o Tail(cut) /\ UNCHANGED stopped
              ELSE /\ stopped' = TRUE /\ keep' = keep \o cut
                   /\ UNCHANGED <<offset, total>>
  /\ UNCHANGED <<resets, queueVars, producerVars, creditVars, pathVars, congestionVars, lossVars, closed, acked>>

\* Fault: what is kept goes behind what was queued meanwhile.
PutBehind(kept, since) == since \o kept
\* What is kept goes before what was queued meanwhile.
PutBack(kept, since) == kept \o since

DrainPut ==
  /\ draining /\ batch = <<>>
  /\ IF control = {} THEN UNCHANGED packetVars ELSE Build(DOMAIN sent, inFlight, control)
  /\ outbound' = PutBack(keep, outbound)
  /\ queuedBytes' = Recount(PutBack(keep, outbound))
  /\ draining' = FALSE /\ keep' = <<>> /\ control' = {} /\ stalled' = {} /\ stopped' = FALSE
  /\ UNCHANGED <<batch, producerVars, streamVars, creditVars, pathVars, congestionVars, lossVars, closed, acked>>

-----------------------------------------------------------------------------
(* Acknowledgements, losses and the timer. *)

WeightOf(numbers) == SumFunctionOnSet([n \in numbers |-> FlightSize(sent[n])], numbers)

\* What detect_lost_packets may declare lost of the tracked packets: those the
\* threshold reaches, and those up to some number that have waited too long.
Overtaken(tracked, largest) == {n \in tracked : n <= largest - PacketThreshold}
LossCuts(tracked, largest) ==
  IF largest = 0 THEN {{}}
  ELSE {Overtaken(tracked, largest) \cup {n \in tracked : n <= cut} : cut \in 0..largest}

StillPending(tracked, largest) == \E n \in tracked : n <= largest

\* on_packets_lost and _enter_recovery
Reacts(lost) == lost # {} /\ Max(lost) >= recoveryFrom
AfterLoss(w, lost) == IF Reacts(lost) THEN Largest(w \div 2, MinimumWindow) ELSE w
EnterRecovery(w, lost) ==
  /\ window' = AfterLoss(w, lost)
  /\ ssthresh' = IF Reacts(lost) THEN AfterLoss(w, lost) ELSE ssthresh
  /\ recoveryFrom' = IF Reacts(lost) THEN number ELSE recoveryFrom

\* on_packets_acked: slow start adds the size, avoidance a share of it. The
\* packets are taken in the order of their numbers.
Grown(w, p) ==
  IF ssthresh = Absent \/ w < ssthresh THEN w + p.size
  ELSE w + (MinimumWindow * p.size) \div (2 * Largest(1, w))
GrownBy(w, n) == IF Eliciting(sent[n]) /\ n >= recoveryFrom THEN Grown(w, sent[n]) ELSE w
Grow(w, numbers) == MapThenFoldSet(LAMBDA n, x : GrownBy(x, n), w, LAMBDA n : n, Max, numbers)

\* _retransmit: the frames of the lost packets, in one packet.
Again(lost) == FramesOf(lost)

\* ack_ranges: the shape of an ACK frame, largest first: the length of the first
\* run below the largest, then the gap before each further run and its length.
Lowest(S, top) == Min({n \in S : n..top \subseteq S})
Downwards(S) == MapThenFoldSet(LAMBDA n, seq : Append(seq, n), <<>>, LAMBDA n : n, Min, S)
AckRanges(S) ==
  LET tops == Downwards({n \in S : n + 1 \notin S})
      run(i) == tops[i] - Lowest(S, tops[i])
  IN [largest |-> Max(S),
      ranges |-> [i \in 1..Len(tops) |->
        [gap |-> IF i = 1 THEN 0 ELSE Lowest(S, tops[i - 1]) - tops[i] - 2, run |-> run(i)]]]

\* Fault: the gap is counted from the last number of a run.
GapTooSmall(ack) ==
  LET low[i \in DOMAIN ack.ranges] ==
        (IF i = 1 THEN ack.largest ELSE low[i - 1] - ack.ranges[i].gap - 1) - ack.ranges[i].run
  IN UNION {low[i]..low[i] + ack.ranges[i].run : i \in DOMAIN ack.ranges}
\* acknowledged_numbers
AcknowledgedNumbers(ack) ==
  LET low[i \in DOMAIN ack.ranges] ==
        (IF i = 1 THEN ack.largest ELSE low[i - 1] - ack.ranges[i].gap - 2) - ack.ranges[i].run
  IN UNION {low[i]..low[i] + ack.ranges[i].run : i \in DOMAIN ack.ranges}

\* What the server reads from the ACK of each set of numbers.
Read == [S \in (SUBSET (1..MaxPackets)) \ {{}} |-> AcknowledgedNumbers(AckRanges(S))]

\* on_ack_received: the peer acknowledges packets it heard, or says again what
\* it said before, and detect_lost_packets runs.
RecvAck ==
  /\ Idle
  /\ \E heard \in SUBSET {n \in DOMAIN sent : sent[n].out} :
     \E some \in {IF heard = {} THEN {} ELSE Read[heard] \cap DOMAIN sent} :
       LET rest == DOMAIN sent \ some
           largest == IF some = {} THEN largestAcked ELSE Largest(largestAcked, Max(some))
           grown == Grow(window, some)
       IN
       \E lost \in LossCuts(rest, largest) :
          /\ largestAcked' = largest
          /\ lossTime' = StillPending(rest \ lost, largest)
          /\ acked' = acked \cup FramesOf(heard)
          /\ EnterRecovery(grown, lost)
          /\ Build(rest \ lost, inFlight - WeightOf(some) - WeightOf(lost), Again(lost))
  /\ UNCHANGED <<queueVars, producerVars, drainVars, streamVars, creditVars, pathVars, closed>>

Tracked(probe) == DOMAIN sent

\* on_timeout: what has waited too long is lost; if nothing is, the oldest
\* ack-eliciting packet is repeated as a probe and stays recorded. Nothing is
\* sent when there is nothing to repeat.
OnTimeout ==
  /\ Idle /\ (lossTime \/ armed)
  /\ \/ /\ lossTime
        /\ \E cut \in {n \in DOMAIN sent : n <= largestAcked} :
             LET lost == {n \in DOMAIN sent : n <= cut} \cup Overtaken(DOMAIN sent, largestAcked) IN
             /\ lossTime' = StillPending(DOMAIN sent \ lost, largestAcked)
             /\ EnterRecovery(window, lost)
             /\ IF Again(lost) = {}
                THEN /\ sent' = [n \in DOMAIN sent \ lost |-> sent[n]] /\ inFlight' = inFlight - WeightOf(lost)
                     /\ UNCHANGED <<number, budget, armed>>
                ELSE Build(DOMAIN sent \ lost, inFlight - WeightOf(lost), Again(lost))
     \/ /\ ~lossTime /\ \E n \in DOMAIN sent : Eliciting(sent[n])
        /\ LET oldest == {Min({n \in DOMAIN sent : Eliciting(sent[n])})} IN
           Build(Tracked(oldest), inFlight, FramesOf(oldest))
        /\ UNCHANGED <<lossTime, congestionVars>>
  /\ UNCHANGED <<queueVars, producerVars, drainVars, streamVars, creditVars, pathVars, largestAcked, closed, acked>>

\* MAX_DATA and MAX_STREAM_DATA, which may come late and out of order.
RecvCredit ==
  /\ Idle
  /\ \E limit \in 1..MaxCredit :
       \/ peerMaxData' = Largest(peerMaxData, limit) /\ UNCHANGED peerStreamMax
       \/ /\ \E s \in SendStreams : peerStreamMax' = [peerStreamMax EXCEPT ![s] = Largest(@, limit)]
          /\ UNCHANGED peerMaxData
  /\ Build(DOMAIN sent, inFlight, {})
  /\ UNCHANGED <<queueVars, producerVars, drainVars, streamVars, pathVars, congestionVars, lossVars, closed, acked>>

\* Any other datagram before the handshake ends: it raises the budget, and the
\* packets of the other spaces spend some of it.
RecvEarly ==
  /\ Idle /\ ~validated /\ arrived < MaxReceived
  /\ arrived' = arrived + 1 /\ budget' \in {budget, budget + 3}
  /\ UNCHANGED <<queueVars, producerVars, drainVars, streamVars, creditVars, validated, congestionVars, lossVars,
                 sent, number, inFlight, armed, closed, acked>>

\* _advance_handshake: the client's Finished validates its address.
RecvFinished ==
  /\ Idle /\ ~validated
  /\ validated' = TRUE
  /\ Record(DOMAIN sent, inFlight, {OtherFrame}, TRUE) /\ budget' = 0
  /\ UNCHANGED <<queueVars, producerVars, drainVars, streamVars, creditVars, arrived, congestionVars, lossVars,
                 closed, acked>>

\* CONNECTION_CLOSE from the peer, or the server drops the connection.
EndConnection ==
  /\ Idle /\ closed' = TRUE
  /\ UNCHANGED <<queueVars, producerVars, drainVars, streamVars, creditVars, pathVars, congestionVars, lossVars,
                 packetVars, acked>>

SenderNext ==
  \/ \E s \in SendStreams : Queue(s) \/ ResetStream(s)
  \/ DrainTake \/ DrainReset \/ DrainHold \/ DrainSend \/ DrainPut
  \/ RecvAck \/ OnTimeout \/ RecvCredit \/ RecvEarly \/ RecvFinished \/ EndConnection

SenderSpec == SenderInit /\ [][SenderNext]_senderVars

-----------------------------------------------------------------------------
Entries ==
  [kind : {"data"}, s : SendStreams, from : Nat, len : Nat, fin : BOOLEAN]
    \cup [kind : {"reset"}, s : SendStreams]
SentFrames ==
  [kind : {"stream"}, s : SendStreams, off : Nat, from : Nat, len : Nat, fin : BOOLEAN]
    \cup [kind : {"reset"}, s : SendStreams, final : Nat]
    \cup [kind : {"blocked"}, s : SendStreams \cup {Absent}, limit : Nat] \cup {OtherFrame}

\* Every variable keeps its shape, and what the amplification limit lets out
\* never exceeds its budget.
SenderTypeOK ==
  /\ {outbound, batch, keep} \subseteq Seq(Entries) /\ control \cup acked \subseteq SentFrames
  /\ queuedBytes \in [SendStreams -> Nat] /\ produced \in [SendStreams -> 0..MaxBytes]
  /\ offset \in [SendStreams -> 0..MaxBytes] /\ total \in Nat
  /\ finished \subseteq SendStreams /\ resets \subseteq finished \ {Control} /\ stalled \subseteq SendStreams
  /\ reported \in [SendStreams \cup {Absent} -> Nat]
  /\ peerMaxData \in Nat /\ peerStreamMax \in [SendStreams -> Nat] /\ budget \in Nat
  /\ sent \in [DOMAIN sent -> [frames : SUBSET SentFrames, size : Nat, out : BOOLEAN]]
  /\ \A n \in DOMAIN sent : n \in 1..number - 1 /\ sent[n].size = SizeOf(sent[n].frames)
  /\ number \in 1..MaxPackets + 1 /\ inFlight \in Nat
  /\ window \in Nat /\ window >= Smallest(InitialWindow, MinimumWindow) /\ ssthresh \in Nat \cup {Absent}
  /\ recoveryFrom \in 0..number /\ largestAcked \in 0..number - 1
  /\ {draining, stopped, validated, lossTime, armed, closed} \subseteq BOOLEAN /\ arrived \in Nat

\* bytes_in_flight is what the ack-eliciting packets on record weigh: an
\* acknowledgement, a loss, a probe and a refused packet are each counted
\* once, so the window can neither leak shut nor open too far.
FlightExact == inFlight = WeightOf(DOMAIN sent)

Known == acked \cup FramesOf(DOMAIN sent)
KnownOf(s) == {f \in Known : Carries(f) /\ f.s = s}
Live(s) == s \notin resets /\ Abandon(s) \notin Range(batch) \cup Range(outbound)

\* What is queued of a stream continues, in order and without a gap, what was
\* sent of it, whatever was queued while the queue was taken; and no frame
\* tells the peer a place its bytes do not belong to.
QueueContinues ==
  /\ \A s \in SendStreams : Live(s) =>
       LET line == keep \o batch \o outbound IN
       /\ \A i \in DOMAIN line : PieceOf(line[i], s) => line[i].from = offset[s] + BytesOf(line, s, i - 1)
       /\ produced[s] = offset[s] + BytesOf(line, s, Len(line))
  /\ \A f \in Known : Carries(f) => f.off = f.from

\* Nothing that left the queue is forgotten: each byte, the end of a finished
\* stream and each reset is acknowledged or on record to be sent again.
NothingForgotten ==
  ~draining =>
    /\ \A s \in SendStreams : \A b \in 0..offset[s] - 1 : \E f \in KnownOf(s) : b \in f.off..f.off + f.len - 1
    /\ \A s \in finished \ {Control} : Live(s) /\ outbound = <<>> => \E f \in KnownOf(s) : f.fin
    /\ \A s \in resets : \E f \in Known : f.kind = "reset" /\ f.s = s

\* The peer's limits: no packet ever reached further into a stream than the peer
\* allows, nor does what left the queue of all streams together exceed the limit
\* of the connection.
CreditRespected ==
  /\ \A f \in Known : Carries(f) => f.off + f.len <= peerStreamMax[f.s]
  /\ SumFunctionOnSet(offset, SendStreams) <= peerMaxData

\* While anything that must be acknowledged is on record a timer is armed, and
\* the loss timer is armed exactly for packets an ACK has passed over.
TimerHonest ==
  /\ (\E n \in DOMAIN sent : Eliciting(sent[n])) => lossTime \/ armed
  /\ lossTime <=> \E n \in DOMAIN sent : n <= largestAcked

\* The stream as the peer will see it: in order, without gaps, within limits.
QueueSound == SenderTypeOK /\ QueueContinues /\ CreditRespected

\* The recovery of what is lost: it is all on record, weighed, and timed.
RecoverySound == FlightExact /\ NothingForgotten /\ TimerHonest
=============================================================================

------------------------------ MODULE HttpProofs ------------------------------
(***************************************************************************)
(* Theorems about the connections of an HTTP server: HttpServer, for any   *)
(* number of them, every limit of workers and every MAX_KEEPALIVE_REQUESTS;*)
(* the header tables of one of them (Hpack), for any fields, any sizes of  *)
(* table, blocks of any length and any number of blocks on their way; and  *)
(* the streams of an HTTP/2 connection (Http2), for any number of them,    *)
(* any windows and any sizes of body.                                      *)
(***************************************************************************)
EXTENDS HttpServer, Hpack, Http2, FiniteSetTheorems, SequenceTheorems, WellFoundedInduction, TLAPS

\* The connections the drain waits for: their thread is, or will be, listed.
Live == (Threaded \ {"release"}) \cup {"stillborn"}
Served == {"offered", "dropped", "release", "gone"}

\* The accept loop has one connection in hand, and _workers lists the live
\* ones; while the loop drains they are still to be joined.
LoopInv ==
  /\ main \in {"acquire", "list", "start"} => held \in Conns /\ cpc[held] = "held"
  /\ \A c \in Conns : cpc[c] = "held" => main \in {"acquire", "list", "start"} /\ c = held
  /\ \A c \in Conns : c \in workers <=> cpc[c] \in Live \/ (c = held /\ main = "start")
  /\ main = "drain" /\ ~deadline => \A c \in Conns : cpc[c] \in Live => c \in pending
  /\ main \in {"close", "returned"} /\ ~deadline => \A c \in Conns : cpc[c] \in Served
  /\ appClosed = IF main \in {"close", "returned"} THEN 1 ELSE 0

\* Slots and gauges, counted by where the connections are.
TcpAt == Threaded \ {"begin", "discard", "release"}
HttpAt == {"denied", "dispatch", "sending", "sent", "upgrade"}
WsAt == {"websocket", "wsover"}
SlotAt == Threaded \cup {"stillborn"}
CountInv ==
  /\ slots \in Nat
  /\ slots + Count(SlotAt) + (IF main \in {"list", "start"} THEN 1 ELSE 0) = limit
  /\ tcpGauge = Count(TcpAt) /\ httpGauge = Count(HttpAt) + escaped /\ wsGauge = Count(WsAt)
  /\ escaped \in Nat

\* A connection that may still serve is below the ceiling, and one that began
\* a request after stop() is on its way to that request's end.
Serving == {"dispatch", "sending", "sent", "decide"}
ServedInv ==
  \A c \in Conns :
    /\ MaxRequests > 0 => served[c] <= MaxRequests
    /\ cpc[c] \in {"offered", "held", "begin", "head", "idle", "upgrade"} \cup Serving
         => ~AtCeiling(served[c])
    /\ cpc[c] = "idle" => keep[c]
    /\ cpc[c] \in Serving => served[c] < RequestBound
    /\ begunLate[c] <= 1
    /\ begunLate[c] = 1 => /\ stop
                           /\ cpc[c] \in Serving \cup {"upgrade", "websocket", "wsover",
                                 "leaving", "discard", "release", "gone"}

IInv == TypeOK /\ LoopInv /\ CountInv /\ ServedInv

-----------------------------------------------------------------------------
\* A move of one connection changes a count by one at most.
LEMMA CountMove ==
  ASSUME TypeOK, NEW c \in Conns, NEW from, NEW to, Move(c, from, to), NEW S
  PROVE  /\ Count(S) \in Nat
         /\ from \in S => Count(S) >= 1
         /\ Count(S)' = Count(S) + (IF to \in S THEN 1 ELSE 0) - (IF from \in S THEN 1 ELSE 0)
  <1> DEFINE A == {d \in Conns : cpc[d] \in S}
             B == {d \in Conns : cpc'[d] \in S}
             Rest == A \ {c}
  <1>1. IsFiniteSet(A) /\ Cardinality(A) \in Nat
    BY ServerConstants, FS_Subset, FS_CardinalityType
  <1>2. IsFiniteSet(Rest) /\ Cardinality(Rest) \in Nat
    BY <1>1, FS_Subset, FS_CardinalityType
  <1>3. c \notin Rest /\ Cardinality(Rest \cup {c}) = Cardinality(Rest) + 1
    BY <1>2, FS_AddElement
  <1>4. A = IF from \in S THEN Rest \cup {c} ELSE Rest
    BY DEF Move
  <1>5. B = IF to \in S THEN Rest \cup {c} ELSE Rest
    BY DEF Move, TypeOK
  <1>6. Count(S) = Cardinality(A) /\ Count(S)' = Cardinality(B)
    BY DEF Count
  <1> HIDE DEF A, B, Rest
  <1>. QED
    BY <1>1, <1>2, <1>3, <1>4, <1>5, <1>6

\* A count of connections is a number, and the same while none moves.
LEMMA CountKept ==
  ASSUME NEW S
  PROVE  Count(S) \in Nat /\ (UNCHANGED cpc => Count(S)' = Count(S))
  BY ServerConstants, FS_Subset, FS_CardinalityType DEF Count

\* SlotHolders, counted.
LEMMA HoldersCounted ==
  ASSUME TypeOK, LoopInv
  PROVE  Cardinality(SlotHolders) =
           Count(SlotAt) + (IF main \in {"list", "start"} THEN 1 ELSE 0)
  <1> DEFINE A == {c \in Conns : cpc[c] \in SlotAt}
  <1>1. IsFiniteSet(A) /\ Cardinality(A) \in Nat
    BY ServerConstants, FS_Subset, FS_CardinalityType
  <1>2. CASE main \in {"list", "start"}
    <2>1. held \notin A
      BY <1>2 DEF LoopInv, SlotAt, Threaded
    <2>2. SlotHolders = A \cup {held}
      BY <1>2 DEF SlotHolders, SlotAt
    <2>. QED
      BY <1>1, <1>2, <2>1, <2>2, FS_AddElement DEF Count
  <1>3. CASE main \notin {"list", "start"}
    <2>1. SlotHolders = A
      BY <1>3 DEF SlotHolders, SlotAt
    <2>. QED
      BY <1>1, <1>3, <2>1 DEF Count
  <1>. QED
    BY <1>2, <1>3

\* What a step of a connection's thread may change.
ThreadStep(c) == OwnStep(c) \/ Timeout(c) \/ PeerStep(c) \/ AppStep(c)

\* A connection's thread moves it alone, leaves _workers when it ends its
\* serving and returns the slot last.
LEMMA ThreadMoves ==
  ASSUME NEW c \in Conns, ThreadStep(c)
  PROVE  \E from \in Threaded, to \in (Threaded \ {"begin"}) \cup {"gone"} :
           /\ Move(c, from, to)
           /\ from = "release" <=> to = "gone"
           /\ UNCHANGED loop
           /\ workers' = IF to = "release" THEN workers \ {c} ELSE workers
           /\ slots' = IF to = "gone" THEN slots + 1 ELSE slots
  <1> USE DEF Move, Threaded
  <1>1. CASE Begin(c) \/ Counted(c) \/ WsClosed(c) \/ Leave(c) \/ Sent(c) \/ Unsendable(c)
    BY <1>1 DEF Begin, Counted, WsClosed, Leave, Sent, Unsendable
  <1>2. CASE Discard(c)
    <2>. WITNESS "discard" \in Threaded, "release" \in (Threaded \ {"begin"}) \cup {"gone"}
    <2>. QED
      BY <1>2 DEF Discard
  <1>3. CASE Release(c)
    BY <1>3 DEF Release, SlotReturned
  <1>4. CASE Decide(c)
    <2>1. PICK to \in {"leaving", "idle"} : Move(c, "decide", to)
      BY <1>4 DEF Decide
    <2>. WITNESS "decide" \in Threaded, to \in (Threaded \ {"begin"}) \cup {"gone"}
    <2>. QED
      BY <1>4, <2>1 DEF Decide
  <1>5. CASE Timeout(c) \/ PeerStep(c)
    BY <1>5 DEF Timeout, PeerStep, Unserved, IdleExpires, RequestRead, Denied, NextRequest
  <1>6. CASE AnsweredAndOver(c)
    <2>1. cpc[c] \in Threaded \ {"release"}
      BY <1>6 DEF AnsweredAndOver
    <2>2. cpc[c] \in Threaded
      BY <2>1
    <2>. WITNESS cpc[c] \in Threaded, "leaving" \in (Threaded \ {"begin"}) \cup {"gone"}
    <2>. QED
      BY <1>6, <2>1 DEF AnsweredAndOver
  <1>7. CASE Dispatched(c) \/ Upgraded(c) \/ WsHandlerEnds(c)
    BY <1>7 DEF Dispatched, Upgraded, WsHandlerEnds
  <1>8. CASE Escapes(c)
    <2>1. cpc[c] \in Threaded \ {"release"}
      BY <1>8 DEF Escapes
    <2>2. cpc[c] \in Threaded
      BY <2>1
    <2>. WITNESS cpc[c] \in Threaded, "leaving" \in (Threaded \ {"begin"}) \cup {"gone"}
    <2>. QED
      BY <1>8, <2>1 DEF Escapes
  <1>. QED
    BY <1>1, <1>2, <1>3, <1>4, <1>5, <1>6, <1>7, <1>8 DEF ThreadStep, OwnStep, AppStep

-----------------------------------------------------------------------------
(* The loop, the list of workers and the drain. *)

\* At the start the accept loop has no connection in hand.
LEMMA LoopInit == Init => LoopInv
  BY DEF Init, LoopInv, Live, Served, Threaded

\* A connection is listed in _workers before its thread can run, and the drain
\* joins whoever is listed.
LEMMA LoopStep == TypeOK /\ LoopInv /\ [Next]_vars => LoopInv'
  <1> SUFFICES ASSUME TypeOK, LoopInv, [Next]_vars PROVE LoopInv'
    OBVIOUS
  <1> USE DEF loop, gauges, counts
  <1>1. ASSUME NEW c \in Conns, ThreadStep(c) PROVE LoopInv'
    <2>1. PICK from \in Threaded, to \in (Threaded \ {"begin"}) \cup {"gone"} :
             /\ Move(c, from, to)
             /\ from = "release" <=> to = "gone"
             /\ UNCHANGED loop
             /\ workers' = IF to = "release" THEN workers \ {c} ELSE workers
      BY <1>1, ThreadMoves
    <2>2. from \notin Served \cup {"held"} \/ from = "release"
      BY DEF Threaded, Served
    <2>3. from \in Live \/ from = "release"
      BY DEF Live
    <2>4. /\ to # "held"
          /\ to \in Live \/ to \in {"release", "gone"}
          /\ to \in Live => from \in Live
      BY <2>1, <2>3 DEF Live, Threaded
    <2>5. ~("release" \in Live) /\ ~("gone" \in Live) /\ {"release", "gone"} \subseteq Served
      BY DEF Live, Served, Threaded
    <2>. QED
      BY <2>1, <2>2, <2>3, <2>4, <2>5 DEF Move, LoopInv, TypeOK
  <1>2. ASSUME NEW c \in Conns, Accept(c) PROVE LoopInv'
    BY <1>2 DEF Accept, Move, LoopInv, TypeOK, Live, Threaded
  <1>3. ASSUME AcquireTimesOut PROVE LoopInv'
    BY <1>3 DEF AcquireTimesOut, Move, LoopInv, TypeOK, Live, Threaded
  <1>4. ASSUME Acquire \/ List PROVE LoopInv'
    BY <1>4 DEF Acquire, List, LoopInv, TypeOK, Live, Threaded
  <1>5. ASSUME Start PROVE LoopInv'
    BY <1>5 DEF Start, Move, LoopInv, TypeOK, Live, Threaded
  <1>6. ASSUME StartFails PROVE LoopInv'
    BY <1>6 DEF StartFails, LeaveLoop, Move, LoopInv, TypeOK, Live, Threaded
  <1>7. ASSUME LoopEnds PROVE LoopInv'
    BY <1>7 DEF LoopEnds, LeaveLoop, LoopInv
  <1>8. ASSUME NEW c \in Conns, JoinWorker(c) \/ JoinRaises(c) PROVE LoopInv'
    BY <1>8 DEF JoinWorker, JoinRaises, Joined, LoopInv, Live, Threaded
  <1>9. ASSUME CloseApp PROVE LoopInv'
    <2>1. \A c \in Conns : cpc[c] \in Live \/ cpc[c] \in Served \/ cpc[c] = "held"
      BY DEF TypeOK, CLocations, Live, Served
    <2>. QED
      BY <1>9, <2>1 DEF CloseApp, LoopInv
  <1>10. ASSUME Return \/ DeadlinePasses \/ Stop PROVE LoopInv'
    BY <1>10 DEF Return, DeadlinePasses, Stop, LoopInv
  <1>11. CASE UNCHANGED vars
    BY <1>11 DEF vars, LoopInv
  <1>. QED
    BY <1>1, <1>2, <1>3, <1>4, <1>5, <1>6, <1>7, <1>8, <1>9, <1>10, <1>11
       DEF Next, MainStep, ThreadStep

-----------------------------------------------------------------------------
(* Slots and gauges. *)

\* At the start every slot is free and every gauge is 0.
LEMMA CountInit == Init => CountInv
  <1> SUFFICES ASSUME Init PROVE CountInv
    OBVIOUS
  <1>1. \A S \in {SlotAt, TcpAt, HttpAt, WsAt} : {c \in Conns : cpc[c] \in S} = {}
    BY DEF Init, SlotAt, TcpAt, HttpAt, WsAt, Threaded
  <1>2. \A S \in {SlotAt, TcpAt, HttpAt, WsAt} : Count(S) = 0
    BY <1>1, FS_EmptySet DEF Count
  <1>. QED
    BY <1>2, ServerConstants DEF Init, CountInv

\* The gauges follow the connection through every step of its thread; the one
\* that an escaping exception leaves behind is in the history.
LEMMA GaugeStep ==
  ASSUME TypeOK, CountInv, NEW c \in Conns, ThreadStep(c)
  PROVE  /\ tcpGauge' = Count(TcpAt)'
         /\ httpGauge' = Count(HttpAt)' + escaped' /\ escaped' \in Nat
         /\ wsGauge' = Count(WsAt)'
  <1> DEFINE Goal == /\ tcpGauge' = Count(TcpAt)'
                     /\ httpGauge' = Count(HttpAt)' + escaped' /\ escaped' \in Nat
                     /\ wsGauge' = Count(WsAt)'
  <1> DEFINE In(x, S) == IF x \in S THEN 1 ELSE 0
             Follows(gauge, next, from, to, S) == next = gauge + In(to, S) - In(from, S)
  <1>1. ASSUME NEW from, NEW to, Move(c, from, to),
               \/ Follows(tcpGauge, tcpGauge', from, to, TcpAt)
               \/ from \in TcpAt /\ to \notin TcpAt /\ tcpGauge' = Drop(tcpGauge),
               \/ escaped' = escaped /\ Follows(httpGauge, httpGauge', from, to, HttpAt)
               \/ /\ from \in HttpAt /\ to \notin HttpAt
                  /\ \/ escaped' = escaped /\ httpGauge' = Drop(httpGauge)
                     \/ escaped' = escaped + 1 /\ httpGauge' = httpGauge,
               \/ Follows(wsGauge, wsGauge', from, to, WsAt)
               \/ from \in WsAt /\ to \notin WsAt /\ wsGauge' = Drop(wsGauge)
        PROVE  Goal
    <2>1. ASSUME NEW S, NEW gauge, NEW next, gauge = Count(S),
                 \/ Follows(gauge, next, from, to, S)
                 \/ from \in S /\ to \notin S /\ next = Drop(gauge)
          PROVE  next = Count(S)'
      <3>1. /\ Count(S) \in Nat
            /\ from \in S => Count(S) >= 1
            /\ Count(S)' = Count(S) + In(to, S) - In(from, S)
        BY <1>1, CountMove
      <3>. QED
        BY <2>1, <3>1 DEF Drop
    <2>2. httpGauge' = Count(HttpAt)' + escaped' /\ escaped' \in Nat
      <3>1. /\ Count(HttpAt) \in Nat
            /\ from \in HttpAt => Count(HttpAt) >= 1
            /\ Count(HttpAt)' = Count(HttpAt) + In(to, HttpAt) - In(from, HttpAt)
        BY <1>1, CountMove
      <3>2. httpGauge = Count(HttpAt) + escaped /\ escaped \in Nat
        BY DEF CountInv
      <3>. QED
        BY <1>1, <3>1, <3>2 DEF Drop
    <2>. QED
      BY <1>1, <2>1, <2>2 DEF CountInv
  <1>0. tcpGauge \in Int /\ httpGauge \in Int /\ wsGauge \in Int /\ escaped \in Nat
    BY DEF TypeOK
  <1> USE <1>0 DEF TcpAt, HttpAt, WsAt, Threaded, gauges
  <1>2. CASE Begin(c)
    BY <1>1, <1>2 DEF Begin
  <1>3. CASE Counted(c)
    BY <1>1, <1>3 DEF Counted
  <1>4. CASE Decide(c)
    <2>1. PICK to \in {"leaving", "idle"} : Move(c, "decide", to)
      BY <1>4 DEF Decide
    <2>. QED
      BY <1>1, <1>4, <2>1 DEF Decide
  <1>5. CASE WsClosed(c)
    BY <1>1, <1>5 DEF WsClosed
  <1>6. CASE Leave(c)
    BY <1>1, <1>6 DEF Leave
  <1>7. CASE Discard(c)
    BY <1>1, <1>7 DEF Discard
  <1>8. CASE Release(c)
    BY <1>1, <1>8 DEF Release
  <1>9. CASE Sent(c) \/ Unsendable(c)
    BY <1>1, <1>9 DEF Sent, Unsendable
  <1>10. CASE Unserved(c)
    BY <1>1, <1>10 DEF Unserved
  <1>11. CASE IdleExpires(c)
    BY <1>1, <1>11 DEF IdleExpires
  <1>12. CASE NextRequest(c)
    BY <1>1, <1>12 DEF NextRequest
  <1>13. CASE RequestRead(c)
    <2>1. PICK to \in {"dispatch", "upgrade"} : Move(c, "head", to)
      BY <1>13 DEF RequestRead
    <2>. QED
      BY <1>1, <1>13, <2>1 DEF RequestRead
  <1>14. CASE Denied(c)
    BY <1>1, <1>14 DEF Denied
  <1>15. CASE AnsweredAndOver(c)
    <2>1. PICK from \in {"denied", "dispatch", "upgrade"} : Move(c, from, "leaving")
      BY <1>15 DEF AnsweredAndOver, Move
    <2>. QED
      BY <1>1, <1>15, <2>1 DEF AnsweredAndOver
  <1>16. CASE Dispatched(c)
    BY <1>1, <1>16 DEF Dispatched
  <1>17. CASE Upgraded(c)
    BY <1>1, <1>17 DEF Upgraded
  <1>18. CASE WsHandlerEnds(c)
    BY <1>1, <1>18 DEF WsHandlerEnds
  <1>19. CASE Escapes(c)
    <2>1. PICK from \in {"dispatch", "sending", "upgrade"} : Move(c, from, "leaving")
      BY <1>19 DEF Escapes, Move
    <2>. QED
      BY <1>1, <1>19, <2>1 DEF Escapes
  <1>. QED
    BY <1>2, <1>3, <1>4, <1>5, <1>6, <1>7, <1>8, <1>9, <1>10, <1>11, <1>12, <1>13, <1>14,
       <1>15, <1>16, <1>17, <1>18, <1>19 DEF ThreadStep, OwnStep, Timeout, PeerStep, AppStep

\* Each move of a connection changes slots and gauges by what it enters and
\* leaves.
LEMMA CountStep == TypeOK /\ LoopInv /\ CountInv /\ [Next]_vars => CountInv'
  <1> SUFFICES ASSUME TypeOK, LoopInv, CountInv, [Next]_vars PROVE CountInv'
    OBVIOUS
  <1> USE DEF loop, gauges, counts
  <1>1. ASSUME NEW c \in Conns, ThreadStep(c) PROVE CountInv'
    <2>1. PICK from \in Threaded, to \in (Threaded \ {"begin"}) \cup {"gone"} :
             /\ Move(c, from, to)
             /\ UNCHANGED loop
             /\ slots' = IF to = "gone" THEN slots + 1 ELSE slots
      BY <1>1, ThreadMoves
    <2>2. "gone" \notin SlotAt /\ Threaded \subseteq SlotAt
      BY DEF SlotAt, Threaded
    <2>3. /\ Count(SlotAt) \in Nat
          /\ Count(SlotAt)' = Count(SlotAt) - (IF to = "gone" THEN 1 ELSE 0)
      BY <2>1, <2>2, CountMove
    <2>. QED
      BY <1>1, <2>1, <2>3, GaugeStep DEF CountInv, TypeOK
  <1>2. ASSUME NEW c \in Conns, NEW from, NEW to, Move(c, from, to), UNCHANGED gauges,
               from \notin Threaded, to \notin Threaded \ {"begin"}
        PROVE  /\ UNCHANGED <<Count(TcpAt), Count(HttpAt), Count(WsAt)>>
               /\ Count(SlotAt) \in Nat
               /\ Count(SlotAt)' = Count(SlotAt) + (IF to \in SlotAt THEN 1 ELSE 0)
                                                 - (IF from \in SlotAt THEN 1 ELSE 0)
    <2>1. \A S \in {TcpAt, HttpAt, WsAt} : from \notin S /\ to \notin S
      BY <1>2 DEF TcpAt, HttpAt, WsAt, Threaded
    <2>2. \A S \in {TcpAt, HttpAt, WsAt} : Count(S) \in Nat /\ Count(S)' = Count(S)
      BY <1>2, <2>1, CountMove
    <2>3. /\ Count(SlotAt) \in Nat
          /\ Count(SlotAt)' = Count(SlotAt) + (IF to \in SlotAt THEN 1 ELSE 0)
                                            - (IF from \in SlotAt THEN 1 ELSE 0)
      BY <1>2, CountMove
    <2>. QED
      BY <2>2, <2>3
  <1>3. ASSUME NEW c \in Conns, Accept(c) PROVE CountInv'
    BY <1>2, <1>3 DEF Accept, CountInv, SlotAt, Threaded
  <1>4. ASSUME AcquireTimesOut PROVE CountInv'
    <2>1. held \in Conns
      BY <1>4 DEF AcquireTimesOut, LoopInv
    <2>. QED
      BY <1>2, <1>4, <2>1 DEF AcquireTimesOut, CountInv, SlotAt, Threaded
  <1>5. ASSUME Start \/ StartFails PROVE CountInv'
    <2>1. held \in Conns
      BY <1>5 DEF Start, StartFails, LoopInv
    <2>. QED
      BY <1>2, <1>5, <2>1 DEF Start, StartFails, LeaveLoop, CountInv, SlotAt, Threaded, TypeOK
  <1>6. ASSUME Acquire \/ List \/ LoopEnds \/ DeadlinePasses \/ CloseApp \/ Return \/ Stop
        PROVE  CountInv'
    <2>1. UNCHANGED <<cpc, limit, gauges>>
      BY <1>6 DEF Acquire, List, LoopEnds, LeaveLoop, DeadlinePasses, CloseApp, Return, Stop
    <2>2. /\ Count(SlotAt)' = Count(SlotAt) /\ Count(TcpAt)' = Count(TcpAt)
          /\ Count(HttpAt)' = Count(HttpAt) /\ Count(WsAt)' = Count(WsAt)
          /\ Count(SlotAt) \in Nat
      BY <2>1, CountKept
    <2>3. CASE Acquire
      BY <2>1, <2>2, <2>3 DEF Acquire, CountInv
    <2>4. CASE List
      BY <2>1, <2>2, <2>4 DEF List, CountInv
    <2>5. CASE LoopEnds \/ DeadlinePasses \/ CloseApp \/ Return \/ Stop
      BY <2>1, <2>2, <2>5 DEF LoopEnds, LeaveLoop, DeadlinePasses, CloseApp, Return, Stop, CountInv
    <2>. QED
      BY <1>6, <2>3, <2>4, <2>5
  <1>7. ASSUME NEW c \in Conns, JoinWorker(c) \/ JoinRaises(c) PROVE CountInv'
    BY <1>7, CountKept DEF JoinWorker, JoinRaises, CountInv
  <1>8. CASE UNCHANGED vars
    BY <1>8, CountKept DEF vars, CountInv
  <1>. QED
    BY <1>1, <1>3, <1>4, <1>5, <1>6, <1>7, <1>8 DEF Next, MainStep, ThreadStep

-----------------------------------------------------------------------------
(* The ceiling of requests, and requests after stop(). *)

\* At the start no connection has been served.
LEMMA ServedInit == Init => ServedInv
  BY ServerConstants DEF Init, ServedInv, Serving, AtCeiling

\* Keep-alive ends at the ceiling of requests, and with the first request
\* begun after stop().
LEMMA ServedStep == TypeOK /\ LoopInv /\ ServedInv /\ [Next]_vars => ServedInv'
  <1> SUFFICES ASSUME TypeOK, LoopInv, ServedInv, [Next]_vars PROVE ServedInv'
    OBVIOUS
  <1> USE ServerConstants DEF loop, gauges, counts
  <1> DEFINE May == {"offered", "held", "begin", "head", "idle", "upgrade"} \cup Serving
             After == Serving \cup {"upgrade", "websocket", "wsover", "leaving", "discard",
                                    "release", "gone"}
  \* A step that reads no request and ends none.
  <1>1. ASSUME NEW c \in Conns, NEW from, NEW to, Move(c, from, to), UNCHANGED counts,
               stop => stop', keep'[c] = keep[c] \/ to # "idle",
               \A d \in Conns \ {c} : keep'[d] = keep[d],
               to \in May => from \in May, to \in Serving => from \in Serving \cup {"dispatch"},
               from \in After => to \in After, to # "idle"
        PROVE  ServedInv'
    BY <1>1 DEF Move, ServedInv, TypeOK
  <1>2. ASSUME UNCHANGED <<cpc, keep, counts>>, stop => stop' PROVE ServedInv'
    BY <1>2 DEF ServedInv
  <1> USE DEF Serving
  <1>3. ASSUME NEW c \in Conns, RequestRead(c) PROVE ServedInv'
    <2>1. PICK to \in {"dispatch", "upgrade"} : Move(c, "head", to)
      BY <1>3 DEF RequestRead
    <2>2. begunLate[c] = 0
      BY <2>1 DEF Move, ServedInv, TypeOK
    <2>. QED
      BY <1>3, <2>1, <2>2 DEF RequestRead, Move, ServedInv, TypeOK
  <1>4. ASSUME NEW c \in Conns, Decide(c) PROVE ServedInv'
    <2>1. /\ cpc[c] = "decide" /\ ~AtCeiling(served[c]) /\ served[c] < RequestBound
          /\ served[c] \in Nat /\ begunLate[c] \in {0, 1} /\ (begunLate[c] = 1 => stop)
      BY <1>4 DEF Decide, Move, ServedInv, TypeOK
    <2>2. CASE ~keep[c] \/ AtCeiling(served[c] + 1) \/ stop
      BY <1>4, <2>1, <2>2 DEF Decide, Stopping, Move, ServedInv, TypeOK, AtCeiling
    <2>3. CASE keep[c] /\ ~AtCeiling(served[c] + 1) /\ ~stop
      BY <1>4, <2>1, <2>3 DEF Decide, Stopping, Move, ServedInv, TypeOK, AtCeiling
    <2>. QED
      BY <2>2, <2>3
  <1>5. ASSUME NEW c \in Conns, NextRequest(c) PROVE ServedInv'
    BY <1>1, <1>5 DEF NextRequest
  <1>6. ASSUME NEW c \in Conns, Dispatched(c) PROVE ServedInv'
    <2>1. PICK k \in BOOLEAN : keep' = [keep EXCEPT ![c] = k]
      BY <1>6 DEF Dispatched
    <2>. QED
      BY <1>1, <1>6, <2>1 DEF Dispatched, TypeOK
  <1>7. ASSUME NEW c \in Conns,
               \/ Begin(c) \/ Counted(c) \/ WsClosed(c) \/ Leave(c) \/ Discard(c)
               \/ Release(c) \/ Unserved(c) \/ IdleExpires(c) \/ Denied(c)
        PROVE  ServedInv'
    BY <1>1, <1>7 DEF Begin, Counted, WsClosed, Leave, Discard, Release, Unserved,
                      IdleExpires, Denied
  <1>8. ASSUME NEW c \in Conns, Sent(c) \/ Unsendable(c) \/ Upgraded(c) \/ WsHandlerEnds(c)
        PROVE  ServedInv'
    BY <1>1, <1>8 DEF Sent, Unsendable, Upgraded, WsHandlerEnds, TypeOK
  <1>9. ASSUME NEW c \in Conns, AnsweredAndOver(c) PROVE ServedInv'
    <2>1. PICK from \in {"denied", "dispatch", "upgrade"} : Move(c, from, "leaving")
      BY <1>9 DEF AnsweredAndOver, Move
    <2>. QED
      BY <1>1, <1>9, <2>1 DEF AnsweredAndOver
  <1>14. ASSUME NEW c \in Conns, Escapes(c) PROVE ServedInv'
    <2>1. PICK from \in {"dispatch", "sending", "upgrade"} : Move(c, from, "leaving")
      BY <1>14 DEF Escapes, Move
    <2>. QED
      BY <1>1, <1>14, <2>1 DEF Escapes
  <1>10. ASSUME NEW c \in Conns, Accept(c) PROVE ServedInv'
    BY <1>1, <1>10 DEF Accept
  <1>11. ASSUME AcquireTimesOut \/ Start \/ StartFails PROVE ServedInv'
    <2>1. held \in Conns
      BY <1>11 DEF AcquireTimesOut, Start, StartFails, LoopInv
    <2>. QED
      BY <1>1, <1>11, <2>1 DEF AcquireTimesOut, Start, StartFails, LeaveLoop
  <1>12. ASSUME \/ Acquire \/ List \/ LoopEnds \/ DeadlinePasses \/ CloseApp \/ Return \/ Stop
                \/ UNCHANGED vars
         PROVE  ServedInv'
    BY <1>2, <1>12 DEF Acquire, List, LoopEnds, LeaveLoop, DeadlinePasses, CloseApp, Return, Stop, vars
  <1>13. ASSUME NEW c \in Conns, JoinWorker(c) \/ JoinRaises(c) PROVE ServedInv'
    BY <1>2, <1>13 DEF JoinWorker, JoinRaises
  <1>. QED
    BY <1>3, <1>4, <1>5, <1>6, <1>7, <1>8, <1>9, <1>10, <1>11, <1>12, <1>13, <1>14
       DEF Next, MainStep, OwnStep, Timeout, PeerStep, AppStep

-----------------------------------------------------------------------------
(* Types: slots are bounded because their holders are counted. *)

\* Every variable begins with its shape.
LEMMA TypeInit == Init => TypeOK
  <1> SUFFICES ASSUME Init PROVE TypeOK
    OBVIOUS
  <1>1. limit \in WorkerLimits /\ slots \in 0..limit
    BY ServerConstants DEF Init
  <1>2. 0 \in 0..RequestBound /\ 0 \in 0..1 /\ 0 \in Nat
    BY ServerConstants
  <1>3. cpc \in [Conns -> CLocations]
    BY DEF Init, CLocations
  <1>. QED
    BY <1>1, <1>2, <1>3 DEF Init, TypeOK

\* No step breaks the shape of a variable.
LEMMA TypeStep == IInv /\ [Next]_vars => TypeOK'
  <1> SUFFICES ASSUME IInv, [Next]_vars PROVE TypeOK'
    OBVIOUS
  <1>0. LoopInv' /\ CountInv' /\ ServedInv'
    BY LoopStep, CountStep, ServedStep DEF IInv
  <1> DEFINE Slots == slots' \in 0..limit'
             Rest == /\ main' \in {"accept", "acquire", "list", "start", "drain", "close", "returned", "crashed"}
                     /\ held' \in Conns \cup {NoConn}
                     /\ stop' \in BOOLEAN /\ deadline' \in BOOLEAN
                     /\ limit' \in WorkerLimits
                     /\ workers' \subseteq Conns /\ pending' \subseteq Conns
                     /\ cpc' \in [Conns -> CLocations]
                     /\ keep' \in [Conns -> BOOLEAN]
                     /\ served' \in [Conns -> 0..RequestBound]
                     /\ begunLate' \in [Conns -> 0..RequestBound]
  <1>1. Rest => TypeOK'
    <2> SUFFICES ASSUME Rest PROVE TypeOK'
      OBVIOUS
    <2>1. /\ Count(SlotAt)' \in Nat /\ Count(TcpAt)' \in Nat
          /\ Count(HttpAt)' \in Nat /\ Count(WsAt)' \in Nat
      BY ServerConstants, FS_Subset, FS_CardinalityType DEF Count
    <2>2. limit' \in Nat
      BY ServerConstants
    <2>3. slots' \in 0..limit' /\ tcpGauge' \in Nat /\ httpGauge' \in Nat /\ wsGauge' \in Nat
          /\ escaped' \in Nat
      BY <1>0, <2>1, <2>2 DEF CountInv
    <2>4. appClosed' \in 0..1
      BY <1>0 DEF LoopInv
    <2>. QED
      BY <2>3, <2>4 DEF TypeOK
  <1> USE DEF loop, gauges, counts, IInv
  <1>2. ASSUME NEW c \in Conns, ThreadStep(c) PROVE TypeOK'
    <2>1. PICK from \in Threaded, to \in (Threaded \ {"begin"}) \cup {"gone"} :
             /\ Move(c, from, to)
             /\ UNCHANGED loop
             /\ workers' = IF to = "release" THEN workers \ {c} ELSE workers
      BY <1>2, ThreadMoves
    <2>2. cpc' \in [Conns -> CLocations]
      BY <2>1 DEF Move, TypeOK, CLocations
    <2>3. \/ UNCHANGED keep
          \/ \E k \in BOOLEAN : keep' = [keep EXCEPT ![c] = k]
      BY <1>2 DEF ThreadStep, OwnStep, Timeout, PeerStep, AppStep, Begin, Counted, Decide, WsClosed,
           Leave, Discard, Release, Sent, Unsendable, AnsweredAndOver, Unserved, IdleExpires,
           RequestRead, Denied, NextRequest, Dispatched, Upgraded, WsHandlerEnds, Escapes, ReuseAllowed
    <2>4. \/ UNCHANGED counts
          \/ RequestRead(c) \/ Decide(c)
      BY <1>2 DEF ThreadStep, OwnStep, Timeout, PeerStep, AppStep, Begin, Counted, WsClosed,
           Leave, Discard, Release, Sent, Unsendable, AnsweredAndOver, Unserved, IdleExpires,
           Denied, NextRequest, Dispatched, Upgraded, WsHandlerEnds, Escapes
    <2>5. served' \in [Conns -> 0..RequestBound] /\ begunLate' \in [Conns -> 0..RequestBound]
      <3>1. CASE UNCHANGED counts
        BY <3>1 DEF TypeOK
      <3>2. CASE RequestRead(c)
        <4>1. begunLate[c] = 0 /\ served[c] \in Nat /\ served[c] < RequestBound
          BY <3>2 DEF RequestRead, Move, ServedInv, TypeOK, Serving
        <4>. QED
          BY <3>2, <4>1, ServerConstants DEF RequestRead, TypeOK
      <3>3. CASE Decide(c)
        <4>1. served[c] \in Nat /\ served[c] < RequestBound
          BY <3>3 DEF Decide, Move, ServedInv, TypeOK, Serving
        <4>. QED
          BY <3>3, <4>1, ServerConstants DEF Decide, TypeOK
      <3>. QED
        BY <2>4, <3>1, <3>2, <3>3
    <2>6. keep' \in [Conns -> BOOLEAN]
      BY <2>3 DEF TypeOK
    <2>. QED
      BY <1>1, <2>1, <2>2, <2>5, <2>6 DEF TypeOK
  <1>3. ASSUME NEW c \in Conns, Accept(c) PROVE TypeOK'
    BY <1>1, <1>3 DEF Accept, Move, TypeOK, CLocations
  <1>4. ASSUME AcquireTimesOut \/ Start \/ StartFails PROVE TypeOK'
    <2>1. held \in Conns
      BY <1>4 DEF AcquireTimesOut, Start, StartFails, LoopInv
    <2>. QED
      BY <1>1, <1>4, <2>1 DEF AcquireTimesOut, Start, StartFails, LeaveLoop, Move, TypeOK, CLocations,
           Threaded
  <1>5. ASSUME List PROVE TypeOK'
    BY <1>1, <1>5 DEF List, TypeOK, LoopInv
  <1>6. ASSUME \/ Acquire \/ LoopEnds \/ DeadlinePasses \/ CloseApp \/ Return \/ Stop \/ UNCHANGED vars
        PROVE  TypeOK'
    BY <1>1, <1>6, ZenonT(30) DEF Acquire, LoopEnds, LeaveLoop, DeadlinePasses, CloseApp, Return, Stop, vars, TypeOK
  <1>7. ASSUME NEW c \in Conns, JoinWorker(c) \/ JoinRaises(c) PROVE TypeOK'
    BY <1>1, <1>7 DEF JoinWorker, JoinRaises, TypeOK
  <1>. QED
    BY <1>2, <1>3, <1>4, <1>5, <1>6, <1>7 DEF Next, MainStep, ThreadStep

-----------------------------------------------------------------------------
\* The inductive invariant holds in every reachable state.
LEMMA IInvariant == Spec => []IInv
  <1>1. Init => IInv
    BY TypeInit, LoopInit, CountInit, ServedInit DEF IInv
  <1>2. IInv /\ [Next]_vars => IInv'
    BY TypeStep, LoopStep, CountStep, ServedStep DEF IInv
  <1>. QED
    BY <1>1, <1>2, PTL DEF Spec

\* Slots and requests are counted exactly on every way a connection or a
\* request can end, and the gauges too but for one: each request that ends by
\* an exception nobody catches stays in active_http_requests, and no other
\* does (HTTPServer, ServerMetrics).
THEOREM CountsAreExact == Spec => []CountsExact
  <1>1. IInv => CountsExact
    <2> SUFFICES ASSUME IInv PROVE CountsExact
      OBVIOUS
    <2>1. SlotConservation
      <3>1. slots + Cardinality(SlotHolders) = limit
        BY HoldersCounted, CountKept DEF IInv, CountInv
      <3>2. workers \subseteq SlotHolders
        BY DEF IInv, TypeOK, LoopInv, SlotHolders, Live
      <3>. QED
        BY <3>1, <3>2 DEF SlotConservation
    <2>2. GaugesExact
      BY DEF IInv, CountInv, GaugesExact, TcpAt, HttpAt, WsAt
    <2>3. RequestCeiling
      BY DEF IInv, ServedInv, RequestCeiling
    <2>. QED
      BY <2>1, <2>2, <2>3 DEF IInv, CountsExact
  <1>. QED
    BY <1>1, IInvariant, PTL

\* app.close() comes once and after the drain, and no connection begins two
\* requests after stop() (serve_forever, stop).
THEOREM DrainIsOrdered == Spec => []DrainOrdered
  <1>1. IInv => DrainOrdered
    BY DEF IInv, LoopInv, ServedInv, Served, DrainOrdered, AppClosedAfterDrain, OneRequestAfterStop
  <1>. QED
    BY <1>1, IInvariant, PTL

-----------------------------------------------------------------------------
(* Header compression: a fold over a sequence, position by position. *)

\* A nonempty set of numbers has a least one.
LEMMA LeastOfNats ==
  ASSUME NEW T, T \subseteq Nat, T # {}
  PROVE  \E x \in T : \A y \in T : x <= y
  <1> DEFINE R == {ss \in Nat \X Nat : ss[1] < ss[2]}
  <1>1. IsWellFoundedOn(R, Nat)
    BY NatLessThanWellFounded DEF OpToRel
  <1>2. PICK x \in T : \A y \in T : <<y, x>> \notin R
    <2> HIDE DEF R
    <2>. QED
      BY <1>1, WFMin
  <1>3. ASSUME NEW y \in T PROVE x <= y
    <2>1. x \in Nat /\ y \in Nat /\ <<y, x>> \in Nat \X Nat
      OBVIOUS
    <2>. QED
      BY <1>2, <2>1
  <1>. QED
    BY <1>3

\* A set that has 0 and with each number the next has all of them.
LEMMA UpwardTo ==
  ASSUME NEW n \in Nat, NEW Good, 0 \in Good, \A k \in 0..n - 1 : k \in Good => k + 1 \in Good
  PROVE  \A k \in 0..n : k \in Good
  <1> SUFFICES ASSUME NEW b \in 0..n, b \notin Good PROVE FALSE
    OBVIOUS
  <1>1. PICK bad : bad = {k \in 0..n : k \notin Good}
    OBVIOUS
  <1>2. bad \subseteq Nat /\ bad # {}
    BY <1>1
  <1>3. PICK k \in bad : \A j \in bad : k <= j
    BY <1>2, LeastOfNats
  <1>4. k \in 0..n /\ k # 0
    BY <1>1
  <1>5. k - 1 \in 0..n - 1 /\ k - 1 \in 0..n /\ (k - 1) + 1 = k /\ ~(k <= k - 1)
    BY <1>4
  <1>6. k - 1 \in Good
    BY <1>1, <1>3, <1>5
  <1>7. k \in Good
    BY <1>5, <1>6
  <1>. QED
    BY <1>1, <1>7

\* A nonempty set of positions of a sequence has a greatest one.
LEMMA GreatestOf ==
  ASSUME NEW n \in Nat, NEW T, T \subseteq 0..n, T # {}
  PROVE  \E x \in T : \A y \in T : y <= x
  <1>1. PICK d : d = {n - y : y \in T}
    OBVIOUS
  <1>2. d \subseteq Nat /\ d # {}
    <2>1. \A y \in T : n - y \in Nat
      OBVIOUS
    <2>2. d \subseteq Nat
      BY <1>1, <2>1
    <2>3. d # {}
      BY <1>1
    <2>. QED
      BY <2>2, <2>3
  <1>3. PICK z \in d : \A y \in d : z <= y
    BY <1>2, LeastOfNats
  <1>4. PICK x \in T : z = n - x
    BY <1>1
  <1>5. ASSUME NEW y \in T PROVE y <= x
    <2>1. n - y \in d /\ z <= n - y /\ x \in Nat /\ y \in Nat
      BY <1>1, <1>3
    <2>. QED
      BY <1>4, <2>1
  <1>. QED
    BY <1>5

\* Max is the greatest.
LEMMA MaxIs ==
  ASSUME NEW n \in Nat, NEW T, T \subseteq 1..n, T # {}
  PROVE  Max(T) \in T /\ \A y \in T : y <= Max(T)
  <1>1. \E x \in T : \A y \in T : x >= y
    <2>1. T \subseteq 0..n /\ \A x \in T : x \in Int
      OBVIOUS
    <2>2. \E x \in T : \A y \in T : y <= x
      BY <2>1, GreatestOf
    <2>. QED
      BY <2>1, <2>2
  <1>. QED
    BY <1>1 DEF Max

\* The functions that the model folds over sequences.
Op(of, done, x) ==
  CASE of = "encode" -> EncodeNext(done, x)
    [] of = "decode" -> DecodeRow(done, x)
    [] of = "occupy" -> done + x.size
    [] of = "flush" -> FlushIfLive(done, x)
    [] of = "release" -> ReleaseIfClosed(done, x)
    [] of = "sent" -> AddSent(done, x)

\* A fold over n positions is a function.
IsFold(of, base, seq, n, f) ==
  f = [s \in SUBSET (1..n) |-> IF s = {} THEN base ELSE Op(of, f[s \ {Max(s)}], seq[Max(s)])]

\* It exists: over the sets of one position, of two, and so on up to all.
LEMMA FoldExists ==
  ASSUME NEW of, NEW base, NEW seq, NEW n \in Nat
  PROVE  \E f : IsFold(of, base, seq, n, f)
  <1> DEFINE S == 1..n
             UpTo(m) == {s \in SUBSET S : Cardinality(s) <= m}
             Step(f, s) == IF s = {} THEN base ELSE Op(of, f[s \ {Max(s)}], seq[Max(s)])
             T == {m \in Nat : ~ \E f : f = [s \in UpTo(m) |-> Step(f, s)]}
  <1>0. IsFiniteSet(S)
    BY FS_Interval
  <1>1. \A s \in SUBSET S : IsFiniteSet(s) /\ Cardinality(s) \in Nat /\ Cardinality(s) <= Cardinality(S)
    <2> HIDE DEF S
    <2>. QED
      BY <1>0, FS_Subset, FS_CardinalityType
  <1>2. \A s \in SUBSET S : s # {} => /\ Max(s) \in s /\ s \ {Max(s)} \in SUBSET S
                                      /\ Cardinality(s \ {Max(s)}) = Cardinality(s) - 1
    <2> SUFFICES ASSUME NEW s \in SUBSET S, s # {}
                 PROVE  /\ Max(s) \in s /\ s \ {Max(s)} \in SUBSET S
                        /\ Cardinality(s \ {Max(s)}) = Cardinality(s) - 1
      OBVIOUS
    <2>1. Max(s) \in s
      BY MaxIs
    <2> HIDE DEF S
    <2>. QED
      BY <1>1, <2>1, FS_RemoveElement
  <1> HIDE DEF S
  <1>3. T = {}
    <2> SUFFICES ASSUME T # {} PROVE FALSE
      OBVIOUS
    <2>1. PICK m \in T : \A k \in T : m <= k
      <3>1. T \subseteq Nat
        OBVIOUS
      <3> HIDE DEF T
      <3>. QED
        BY <3>1, LeastOfNats
    <2>2. m \in Nat /\ ~ \E f : f = [s \in UpTo(m) |-> Step(f, s)]
      OBVIOUS
    <2>3. CASE m = 0
      <3>1. \A s \in UpTo(0) : s = {}
        BY <1>1, FS_EmptySet
      <3>2. [s \in UpTo(0) |-> base] = [s \in UpTo(0) |-> Step([u \in UpTo(0) |-> base], s)]
        BY <3>1
      <3>. QED
        BY <2>2, <2>3, <3>2
    <2>4. CASE m # 0
      <3>1. m - 1 \in Nat /\ m - 1 \notin T
        <4> HIDE DEF T
        <4>. QED
          BY <2>1, <2>2, <2>4
      <3>2. PICK f : f = [s \in UpTo(m - 1) |-> Step(f, s)]
        BY <3>1
      <3>3. PICK g : g = [s \in UpTo(m) |-> Step(f, s)]
        OBVIOUS
      <3>4. \A u \in UpTo(m - 1) : u \in UpTo(m) /\ g[u] = f[u]
        <4> SUFFICES ASSUME NEW u \in UpTo(m - 1) PROVE u \in UpTo(m) /\ g[u] = f[u]
          OBVIOUS
        <4>1. u \in UpTo(m)
          BY <1>1, <2>2
        <4>2. f[u] = Step(f, u)
          <5> HIDE DEF UpTo, Step
          <5>. QED
            BY <3>2
        <4>3. g[u] = Step(f, u)
          <5> HIDE DEF UpTo, Step
          <5>. QED
            BY <3>3, <4>1
        <4>. QED
          BY <4>1, <4>2, <4>3
      <3>5. \A s \in UpTo(m) : s # {} => s \ {Max(s)} \in UpTo(m - 1)
        BY <1>1, <1>2, <2>2
      <3>6. \A s \in UpTo(m) : Step(f, s) = Step(g, s)
        <4> SUFFICES ASSUME NEW s \in UpTo(m) PROVE Step(f, s) = Step(g, s)
          OBVIOUS
        <4> HIDE DEF UpTo
        <4>. QED
          BY <3>4, <3>5
      <3>7. g = [s \in UpTo(m) |-> Step(g, s)]
        <4> HIDE DEF UpTo, Step
        <4>. QED
          BY <3>3, <3>6
      <3>. QED
        BY <2>2, <3>7
    <2>. QED
      BY <2>3, <2>4
  <1>4. Cardinality(S) \in Nat /\ UpTo(Cardinality(S)) = SUBSET S
    BY <1>1
  <1>5. \E f : f = [s \in UpTo(Cardinality(S)) |-> Step(f, s)]
    BY <1>3, <1>4
  <1>6. \E f : f = [s \in SUBSET S |-> Step(f, s)]
    <2> HIDE DEF UpTo
    <2>. QED
      BY <1>4, <1>5
  <1>. QED
    BY <1>6 DEF S, IsFold

\* What a fold gives after each position.
Runs(of, base, seq, g) ==
  /\ g[0] = base
  /\ \A k \in 1..Len(seq) : g[k] = Op(of, g[k - 1], seq[k])

\* What a fold over the first positions gives, one position after the other.
LEMMA FoldRuns ==
  ASSUME NEW of, NEW base, NEW seq, NEW n \in Nat, n = Len(seq),
         NEW f, IsFold(of, base, seq, n, f)
  PROVE  \E g : Runs(of, base, seq, g) /\ g[n] = f[1..n]
  <1>1. PICK g : g = [k \in 0..n |-> f[1..k]]
    OBVIOUS
  <1>2. \A s \in SUBSET (1..n) : f[s] = IF s = {} THEN base ELSE Op(of, f[s \ {Max(s)}], seq[Max(s)])
    <2> DEFINE Step(s) == IF s = {} THEN base ELSE Op(of, f[s \ {Max(s)}], seq[Max(s)])
    <2>1. f = [s \in SUBSET (1..n) |-> Step(s)]
      BY DEF IsFold
    <2>2. \A s \in SUBSET (1..n) : f[s] = Step(s)
      <3> HIDE DEF Step
      <3>. QED
        BY <2>1
    <2>. QED
      BY <2>2
  <1>3. g[0] = base
    <2>1. 1..0 = {} /\ 1..0 \in SUBSET (1..n)
      OBVIOUS
    <2>2. f[1..0] = base
      BY <1>2, <2>1
    <2>3. 0 \in 0..n
      OBVIOUS
    <2>4. g[0] = f[1..0]
      BY <1>1, <2>3
    <2>. QED
      BY <2>2, <2>4
  <1>4. ASSUME NEW k \in 1..n PROVE g[k] = Op(of, g[k - 1], seq[k])
    <2>1. 1..k \in SUBSET (1..n) /\ 1..k # {}
      OBVIOUS
    <2>2. Max(1..k) = k
      <3>1. Max(1..k) \in 1..k /\ \A y \in 1..k : y <= Max(1..k)
        BY <2>1, MaxIs
      <3>. QED
        BY <3>1
    <2>3. (1..k) \ {k} = 1..k - 1
      OBVIOUS
    <2>4. f[1..k] = Op(of, f[1..k - 1], seq[k])
      BY <1>2, <2>1, <2>2, <2>3
    <2>5. k \in 0..n /\ k - 1 \in 0..n
      OBVIOUS
    <2>6. g[k] = f[1..k] /\ g[k - 1] = f[1..k - 1]
      BY <1>1, <2>5
    <2>. QED
      BY <2>4, <2>6
  <1>5. g[n] = f[1..n]
    <2>1. n \in 0..n
      OBVIOUS
    <2>. QED
      BY <1>1, <2>1
  <1>6. Runs(of, base, seq, g)
    BY <1>3, <1>4 DEF Runs
  <1>. QED
    BY <1>5, <1>6

\* encode, field by field.
LEMMA EncodeRuns ==
  ASSUME NEW base, NEW S, NEW seq \in Seq(S)
  PROVE  \E g : Runs("encode", base, seq, g) /\ FoldLeft(EncodeNext, base, seq) = g[Len(seq)]
  <1>1. PICK n \in Nat : n = Len(seq) /\ DOMAIN seq = 1..n
    OBVIOUS
  <1> DEFINE It == CHOOSE f : f = [s \in SUBSET (1..n) |->
                     IF s = {} THEN base ELSE EncodeNext(f[s \ {Max(s)}], seq[Max(s)])]
  <1>2. \E f : f = [s \in SUBSET (1..n) |->
                     IF s = {} THEN base ELSE EncodeNext(f[s \ {Max(s)}], seq[Max(s)])]
    <2>1. \E f : IsFold("encode", base, seq, n, f)
      BY FoldExists
    <2>. QED
      BY <2>1 DEF IsFold, Op
  <1>3. It = [s \in SUBSET (1..n) |-> IF s = {} THEN base ELSE EncodeNext(It[s \ {Max(s)}], seq[Max(s)])]
    BY <1>2
  <1>4. FoldLeft(EncodeNext, base, seq) = It[1..n]
    BY <1>1 DEF FoldLeft, MapThenFoldSet
  <1>5. PICK f : f = It
    OBVIOUS
  <1> HIDE DEF It
  <1>6. IsFold("encode", base, seq, n, f)
    BY <1>3, <1>5 DEF IsFold, Op
  <1>7. \E g : Runs("encode", base, seq, g) /\ g[n] = f[1..n]
    BY <1>1, <1>6, FoldRuns
  <1>. QED
    BY <1>1, <1>4, <1>5, <1>7

\* decode, representation by representation.
LEMMA DecodeRuns ==
  ASSUME NEW base, NEW S, NEW seq \in Seq(S)
  PROVE  \E g : Runs("decode", base, seq, g) /\ FoldLeft(DecodeRow, base, seq) = g[Len(seq)]
  <1>1. PICK n \in Nat : n = Len(seq) /\ DOMAIN seq = 1..n
    OBVIOUS
  <1> DEFINE It == CHOOSE f : f = [s \in SUBSET (1..n) |->
                     IF s = {} THEN base ELSE DecodeRow(f[s \ {Max(s)}], seq[Max(s)])]
  <1>2. \E f : f = [s \in SUBSET (1..n) |->
                     IF s = {} THEN base ELSE DecodeRow(f[s \ {Max(s)}], seq[Max(s)])]
    <2>1. \E f : IsFold("decode", base, seq, n, f)
      BY FoldExists
    <2>. QED
      BY <2>1 DEF IsFold, Op
  <1>3. It = [s \in SUBSET (1..n) |-> IF s = {} THEN base ELSE DecodeRow(It[s \ {Max(s)}], seq[Max(s)])]
    BY <1>2
  <1>4. FoldLeft(DecodeRow, base, seq) = It[1..n]
    BY <1>1 DEF FoldLeft, MapThenFoldSet
  <1>5. PICK f : f = It
    OBVIOUS
  <1> HIDE DEF It
  <1>6. IsFold("decode", base, seq, n, f)
    BY <1>3, <1>5 DEF IsFold, Op
  <1>7. \E g : Runs("decode", base, seq, g) /\ g[n] = f[1..n]
    BY <1>1, <1>6, FoldRuns
  <1>. QED
    BY <1>1, <1>4, <1>5, <1>7

\* A table without entries has size 0, so that evicting always ends.
LEMMA OccupiesNothing == Occupies(<<>>) = 0
  <1> DEFINE It == CHOOSE f : f = [s \in SUBSET {} |->
                     IF s = {} THEN 0 ELSE f[s \ {Max(s)}] + <<>>[Max(s)].size]
  <1>1. [s \in SUBSET {} |-> 0] = [s \in SUBSET {} |->
            IF s = {} THEN 0 ELSE [u \in SUBSET {} |-> 0][s \ {Max(s)}] + <<>>[Max(s)].size]
    OBVIOUS
  <1>2. It = [s \in SUBSET {} |-> IF s = {} THEN 0 ELSE It[s \ {Max(s)}] + <<>>[Max(s)].size]
    BY <1>1
  <1>3. Occupies(<<>>) = It[{}]
    BY DEF Occupies, FoldLeft, MapThenFoldSet
  <1>4. It[{}] = 0
    <2>1. PICK f : f = It
      OBVIOUS
    <2> HIDE DEF It
    <2>. QED
      BY <1>2, <2>1
  <1>. QED
    BY <1>3, <1>4

-----------------------------------------------------------------------------
(* Tables. *)

Tables == [entries : Seq(Fields), max : Nat]
Row == [kind : {"size"}, size : Nat] \cup [kind : {"static"}, field : Fields]
         \cup [kind : {"index"}, index : Nat]
         \cup [kind : {"literal"}, index : Nat, field : Fields, adds : BOOLEAN]

\* Evicting, resizing and inserting leave a table.
LEMMA EvictedIs ==
  ASSUME NEW entries \in Seq(Fields), NEW max \in Nat
  PROVE  Evicted(entries, max) \in Seq(Fields)
  <1>1. PICK fits : fits = {k \in 0..Len(entries) : Occupies(SubSeq(entries, 1, k)) <= max}
    OBVIOUS
  <1>2. 0 \in fits
    <2>1. PICK none : none = SubSeq(entries, 1, 0)
      OBVIOUS
    <2>2. none = <<>>
      BY <2>1
    <2>3. Occupies(none) = 0
      BY <2>2, OccupiesNothing
    <2>4. Occupies(SubSeq(entries, 1, 0)) <= max
      BY <2>1, <2>3
    <2>. QED
      BY <1>1, <2>4
  <1>3. PICK n \in Nat : n = Len(entries)
    OBVIOUS
  <1>4. \E k \in fits : \A j \in fits : j <= k
    BY <1>1, <1>2, <1>3, GreatestOf
  <1>5. PICK k \in fits : k = CHOOSE i \in fits : \A j \in fits : j <= i
    BY <1>4
  <1>6. Evicted(entries, max) = SubSeq(entries, 1, k)
    BY <1>1, <1>5 DEF Evicted
  <1>7. k \in 0..Len(entries)
    BY <1>1
  <1>. QED
    BY <1>6, <1>7, SubSeqProperties

LEMMA ResizedIs ==
  ASSUME NEW table \in Tables, NEW size \in Nat
  PROVE  Resized(table, size) \in Tables
  BY EvictedIs DEF Resized, Tables

LEMMA AddedIs ==
  ASSUME NEW table \in Tables, NEW f \in Fields
  PROVE  Added(table, f) \in Tables
  <1>1. <<f>> \o table.entries \in Seq(Fields) /\ table.max \in Nat /\ <<>> \in Seq(Fields)
    BY DEF Tables
  <1>2. PICK e : e = IF f.size > table.max THEN <<>> ELSE Evicted(<<f>> \o table.entries, table.max)
    OBVIOUS
  <1>3. e \in Seq(Fields)
    BY <1>1, <1>2, EvictedIs
  <1>4. Added(table, f) = [table EXCEPT !.entries = e]
    BY <1>2 DEF Added
  <1>. QED
    BY <1>3, <1>4 DEF Tables

\* What find answers is there, at the place it says.
LEMMA FindIs ==
  ASSUME NEW table \in Tables, NEW f \in Fields
  PROVE  LET found == Find(table, f)
         IN  /\ found.exact \in BOOLEAN
             /\ found.index = 0 \/ (found.index \in DOMAIN table.entries
                                    /\ table.entries[found.index].name = f.name)
             /\ found.exact => found.index \in DOMAIN table.entries /\ table.entries[found.index] = f
  <1>1. PICK exact : exact = {i \in DOMAIN table.entries : table.entries[i] = f}
    OBVIOUS
  <1>2. PICK named : named = {i \in DOMAIN table.entries : table.entries[i].name = f.name}
    OBVIOUS
  <1>3. PICK n \in Nat : n = Len(table.entries) /\ DOMAIN table.entries = 1..n
    BY DEF Tables
  <1>4. ASSUME NEW T, T \subseteq 1..n, T # {}
        PROVE  (CHOOSE i \in T : \A j \in T : i <= j) \in T
    <2>1. T \subseteq Nat
      BY <1>4
    <2>2. \E i \in T : \A j \in T : i <= j
      BY <1>4, <2>1, LeastOfNats
    <2>. QED
      BY <2>2
  <1>5. exact \subseteq 1..n /\ named \subseteq 1..n
    BY <1>1, <1>2, <1>3
  <1>6. PICK at : at = IF exact # {} THEN CHOOSE i \in exact : \A j \in exact : i <= j
                       ELSE IF named # {} THEN CHOOSE i \in named : \A j \in named : i <= j ELSE 0
    OBVIOUS
  <1>7. Find(table, f) = [exact |-> exact # {}, index |-> at]
    BY <1>1, <1>2, <1>6 DEF Find
  <1>8. exact # {} => at \in exact
    BY <1>4, <1>5, <1>6
  <1>9. exact = {} => at = 0 \/ at \in named
    BY <1>4, <1>5, <1>6
  <1>10. at = 0 \/ (at \in DOMAIN table.entries /\ table.entries[at].name = f.name)
    BY <1>1, <1>2, <1>8, <1>9
  <1>11. exact # {} => at \in DOMAIN table.entries /\ table.entries[at] = f
    BY <1>1, <1>8
  <1>12. PICK found : found = Find(table, f)
    OBVIOUS
  <1>13. found.exact = (exact # {}) /\ found.index = at
    BY <1>7, <1>12
  <1>. QED
    BY <1>10, <1>11, <1>12, <1>13

\* One representation means to the decoder what it meant to the encoder, and
\* changes a table that is the same in the same way.
LEMMA RowMeans ==
  ASSUME NEW table \in Tables, NEW f \in Fields, NEW fields
  PROVE  LET e == EncodeField(table, f)
         IN  /\ e.table \in Tables /\ e.row \in Row
             /\ DecodeRow([table |-> table, fields |-> fields], e.row)
                  = [table |-> e.table, fields |-> Append(fields, f)]
  <1>1. PICK found : found = Find(table, f)
    OBVIOUS
  <1>2. PICK e : e = EncodeField(table, f)
    OBVIOUS
  <1>3. PICK done : done = [table |-> table, fields |-> fields]
    OBVIOUS
  <1>4. done.table = table /\ done.fields = fields
    BY <1>3
  <1>5. /\ found.exact \in BOOLEAN
        /\ found.index = 0 \/ (found.index \in DOMAIN table.entries
                               /\ table.entries[found.index].name = f.name)
        /\ found.exact => found.index \in DOMAIN table.entries /\ table.entries[found.index] = f
    BY <1>1, FindIs
  <1>6. DOMAIN table.entries \subseteq Nat
    BY DEF Tables
  <1>7. f = [name |-> f.name, value |-> f.value, size |-> f.size, static |-> f.static]
    BY HpackConstants
  <1>8. CASE f.static = "exact"
    <2>1. e = [table |-> table, row |-> StaticRow(f)]
      BY <1>2, <1>8 DEF EncodeField
    <2>2. e.table = table /\ e.row = [kind |-> "static", field |-> f]
      BY <2>1 DEF StaticRow
    <2>3. DecodeRow(done, e.row) = [table |-> table, fields |-> Append(fields, f)]
      BY <1>4, <2>2 DEF DecodeRow
    <2>. QED
      BY <1>2, <1>3, <2>2, <2>3 DEF Row
  <1>9. CASE f.static # "exact" /\ found.exact
    <2>1. e = [table |-> table, row |-> IndexRow(found.index)]
      BY <1>1, <1>2, <1>9 DEF EncodeField
    <2>2. e.table = table /\ e.row = [kind |-> "index", index |-> found.index]
      BY <2>1 DEF IndexRow
    <2>3. Lookup(table, found.index) = f
      BY <1>5, <1>9 DEF Lookup
    <2>4. DecodeRow(done, e.row) = [table |-> table, fields |-> Append(fields, f)]
      BY <1>4, <2>2, <2>3 DEF DecodeRow
    <2>5. found.index \in Nat
      BY <1>5, <1>6, <1>9
    <2>. QED
      BY <1>2, <1>3, <2>2, <2>4, <2>5 DEF Row
  <1>10. CASE f.static # "exact" /\ ~found.exact
    <2>1. PICK at : at = IF f.static = "name" THEN 0 ELSE found.index
      OBVIOUS
    <2>2. PICK adds \in BOOLEAN : adds = (f.name \notin NeverIndexed)
      OBVIOUS
    <2>3. e = [table |-> IF adds THEN Added(table, f) ELSE table, row |-> LiteralRow(at, f, adds)]
      BY <1>1, <1>2, <1>10, <2>1, <2>2 DEF EncodeField
    <2>4. /\ e.table = IF adds THEN Added(table, f) ELSE table
          /\ e.row = [kind |-> "literal", index |-> at, field |-> f, adds |-> adds]
      BY <2>3 DEF LiteralRow
    <2>5. at \in Nat /\ (at # 0 => Lookup(table, at).name = f.name)
      BY <1>5, <1>6, <2>1 DEF Lookup
    <2>6. PICK named : named = IF at = 0 THEN f ELSE [f EXCEPT !.name = Lookup(table, at).name]
      OBVIOUS
    <2>7. named = f
      <3>1. [f EXCEPT !.name = f.name] = f
        BY <1>7
      <3>. QED
        BY <2>5, <2>6, <3>1
    <2>8. DecodeRow(done, e.row)
            = [table |-> IF adds THEN Received(table, f) ELSE table, fields |-> Append(fields, f)]
      <3>1. PICK row : row = e.row
        OBVIOUS
      <3>2. /\ row.kind = "literal" /\ row.index = at /\ row.field = f /\ row.adds = adds
        BY <2>4, <3>1
      <3>3. named = IF row.index = 0 THEN row.field
                    ELSE [row.field EXCEPT !.name = Lookup(done.table, row.index).name]
        BY <1>4, <2>6, <3>2
      <3>4. DecodeRow(done, row)
              = [table |-> IF row.adds THEN Received(done.table, named) ELSE done.table,
                 fields |-> Append(done.fields, named)]
        BY <3>2, <3>3 DEF DecodeRow
      <3>. QED
        BY <1>4, <2>7, <3>1, <3>2, <3>4
    <2>9. e.table \in Tables
      BY <2>4, AddedIs
    <2>10. e.row \in Row
      BY <2>2, <2>4, <2>5 DEF Row
    <2>. QED
      BY <1>2, <1>3, <2>4, <2>8, <2>9, <2>10 DEF Received
  <1>. QED
    BY <1>5, <1>8, <1>9, <1>10

-----------------------------------------------------------------------------
(* Blocks. *)

\* What the encoder's fold has done after k fields, `off' rows being there
\* before the first.
EncodedUpTo(g, off, k) ==
  /\ g[k].table \in Tables /\ g[k].rows \in Seq(Row) /\ Len(g[k].rows) = off + k
  /\ \A j \in 0..k : \A i \in 1..off + j : g[k].rows[i] = g[j].rows[i]

\* The encoder's fold emits one row for each field, and takes none back.
LEMMA EncodeGoesOn ==
  ASSUME NEW head, NEW off \in Nat, head.table \in Tables, head.rows \in Seq(Row), Len(head.rows) = off,
         NEW fields \in Seq(Fields), NEW g, Runs("encode", head, fields, g)
  PROVE  \A k \in 0..Len(fields) : EncodedUpTo(g, off, k)
  <1>1. PICK n \in Nat : n = Len(fields) /\ DOMAIN fields = 1..n
    OBVIOUS
  <1>2. PICK good : good = {k \in 0..n : EncodedUpTo(g, off, k)}
    OBVIOUS
  <1>3. 0 \in good
    <2>1. g[0] = head
      BY DEF Runs
    <2>2. EncodedUpTo(g, off, 0)
      BY <2>1 DEF EncodedUpTo
    <2>. QED
      BY <1>2, <2>2
  <1>4. ASSUME NEW k \in 0..n - 1, k \in good PROVE k + 1 \in good
    <2>1. k + 1 \in 1..n /\ (k + 1) - 1 = k /\ k \in Nat /\ k + 1 \in 0..n
      OBVIOUS
    <2>2. EncodedUpTo(g, off, k) /\ fields[k + 1] \in Fields
      BY <1>1, <1>2, <1>4, <2>1
    <2>3. g[k + 1] = EncodeNext(g[k], fields[k + 1])
      BY <1>1, <2>1 DEF Runs, Op
    <2>4. PICK e : e = EncodeField(g[k].table, fields[k + 1])
      OBVIOUS
    <2>5. g[k + 1].table = e.table /\ g[k + 1].rows = Append(g[k].rows, e.row)
      BY <2>3, <2>4 DEF EncodeNext
    <2>6. e.table \in Tables /\ e.row \in Row
      BY <2>2, <2>4, RowMeans DEF EncodedUpTo
    <2>7. PICK old : old = g[k].rows
      OBVIOUS
    <2>8. PICK new : new = g[k + 1].rows
      OBVIOUS
    <2>9. old \in Seq(Row) /\ Len(old) = off + k
      BY <2>2, <2>7 DEF EncodedUpTo
    <2>10. /\ new \in Seq(Row) /\ Len(new) = off + (k + 1)
           /\ \A i \in 1..off + k : new[i] = old[i]
      <3>1. PICK row \in Row : row = e.row
        BY <2>6
      <3>2. new = Append(old, row)
        BY <2>5, <2>7, <2>8, <3>1
      <3>3. Append(old, row) \in Seq(Row) /\ Len(Append(old, row)) = Len(old) + 1
        BY <2>9
      <3>4. \A i \in 1..Len(old) : Append(old, row)[i] = old[i]
        BY <2>9
      <3>. QED
        BY <2>1, <2>9, <3>2, <3>3, <3>4
    <2>11. ASSUME NEW j \in 0..k + 1, NEW i \in 1..off + j PROVE new[i] = g[j].rows[i]
      <3>1. CASE j = k + 1
        BY <2>8, <3>1
      <3>2. CASE j # k + 1
        <4>1. j \in 0..k /\ i \in 1..off + k
          BY <3>2
        <4>2. old[i] = g[j].rows[i]
          BY <2>2, <2>7, <4>1 DEF EncodedUpTo
        <4>. QED
          BY <2>10, <4>1, <4>2
      <3>. QED
        BY <3>1, <3>2
    <2>12. EncodedUpTo(g, off, k + 1)
      BY <2>5, <2>6, <2>8, <2>10, <2>11 DEF EncodedUpTo
    <2>. QED
      BY <1>2, <2>1, <2>12
  <1>5. \A k \in 0..n : k \in good
    BY <1>3, <1>4, UpwardTo
  <1>. QED
    BY <1>1, <1>2, <1>5

\* What an encoder begins a block with: `off' rows that tell a size.
Starts(head, off) == head.table \in Tables /\ head.rows \in Seq(Row) /\ Len(head.rows) = off
\* Where a decoder is after `at' rows.
Reached(d, at, table, fields) == d[at] = [table |-> table, fields |-> fields]

\* The decoder follows: after the rows of k fields it has the table that the
\* encoder had, and those fields.
LEMMA DecodeFollows ==
  ASSUME NEW base, NEW head, NEW off \in Nat, Starts(head, off),
         NEW fields \in Seq(Fields), NEW g, Runs("encode", head, fields, g),
         NEW d, Runs("decode", base, g[Len(fields)].rows, d), Reached(d, off, head.table, <<>>)
  PROVE  Reached(d, off + Len(fields), g[Len(fields)].table, fields)
  <1>1. PICK n \in Nat : n = Len(fields) /\ DOMAIN fields = 1..n
    OBVIOUS
  <1>2. PICK rows : rows = g[n].rows
    OBVIOUS
  <1>3. \A k \in 0..n : EncodedUpTo(g, off, k)
    BY <1>1, EncodeGoesOn DEF Starts
  <1>4. rows \in Seq(Row) /\ Len(rows) = off + n
    <2>1. n \in 0..n
      OBVIOUS
    <2>. QED
      BY <1>2, <1>3, <2>1 DEF EncodedUpTo
  <1>5. PICK good : good = {k \in 0..n : d[off + k] = [table |-> g[k].table, fields |-> SubSeq(fields, 1, k)]}
    OBVIOUS
  <1>6. 0 \in good
    <2>1. g[0] = head /\ SubSeq(fields, 1, 0) = <<>> /\ off + 0 = off
      BY DEF Runs
    <2>2. d[off + 0] = [table |-> g[0].table, fields |-> SubSeq(fields, 1, 0)]
      BY <2>1 DEF Reached
    <2>. QED
      BY <1>5, <2>2
  <1>7. ASSUME NEW k \in 0..n - 1, k \in good PROVE k + 1 \in good
    <2>1. k + 1 \in 1..n /\ (k + 1) - 1 = k /\ k \in Nat /\ k + 1 \in 0..n /\ k \in 0..n
      OBVIOUS
    <2>2. EncodedUpTo(g, off, k) /\ fields[k + 1] \in Fields
      BY <1>1, <1>3, <2>1
    <2>3. PICK e : e = EncodeField(g[k].table, fields[k + 1])
      OBVIOUS
    <2>4. g[k + 1].table = e.table /\ g[k + 1].rows = Append(g[k].rows, e.row)
      <3>1. g[k + 1] = EncodeNext(g[k], fields[k + 1])
        BY <1>1, <2>1 DEF Runs, Op
      <3>. QED
        BY <2>3, <3>1 DEF EncodeNext
    <2>5. PICK i : i = off + (k + 1)
      OBVIOUS
    <2>6. i \in 1..Len(rows) /\ i - 1 = off + k
      BY <1>4, <2>1, <2>5
    <2>7. rows[i] = e.row
      <3>1. rows[i] = g[k + 1].rows[i]
        <4>1. n \in 0..n /\ k + 1 \in 0..n /\ i \in 1..off + (k + 1)
          BY <2>1, <2>5
        <4>2. EncodedUpTo(g, off, n)
          BY <1>3, <4>1
        <4>. QED
          BY <1>2, <4>1, <4>2 DEF EncodedUpTo
      <3>2. PICK old : old = g[k].rows
        OBVIOUS
      <3>3. old \in Seq(Row) /\ Len(old) = off + k
        BY <2>2, <3>2 DEF EncodedUpTo
      <3>4. Append(old, e.row)[i] = e.row
        BY <2>5, <2>6, <3>3
      <3>. QED
        BY <2>4, <3>1, <3>2, <3>4
    <2>8. d[i] = DecodeRow(d[i - 1], rows[i])
      BY <1>1, <1>2, <2>6 DEF Runs, Op
    <2>9. d[i - 1] = [table |-> g[k].table, fields |-> SubSeq(fields, 1, k)]
      BY <1>5, <1>7, <2>6
    <2>10. d[i] = [table |-> e.table, fields |-> Append(SubSeq(fields, 1, k), fields[k + 1])]
      <3>1. PICK t \in Tables : t = g[k].table
        BY <2>2 DEF EncodedUpTo
      <3>2. DecodeRow([table |-> t, fields |-> SubSeq(fields, 1, k)], e.row)
              = [table |-> e.table, fields |-> Append(SubSeq(fields, 1, k), fields[k + 1])]
        BY <2>2, <2>3, <3>1, RowMeans
      <3>. QED
        BY <2>7, <2>8, <2>9, <3>1, <3>2
    <2>11. Append(SubSeq(fields, 1, k), fields[k + 1]) = SubSeq(fields, 1, k + 1)
      BY <1>1, <2>1
    <2>12. d[off + (k + 1)] = [table |-> g[k + 1].table, fields |-> SubSeq(fields, 1, k + 1)]
      BY <2>4, <2>5, <2>10, <2>11
    <2>. QED
      BY <1>5, <2>1, <2>12
  <1>8. n \in good
    <2>1. \A k \in 0..n : k \in good
      BY <1>6, <1>7, UpwardTo
    <2>. QED
      BY <2>1
  <1>9. SubSeq(fields, 1, n) = fields
    BY <1>1
  <1>. QED
    BY <1>1, <1>5, <1>8, <1>9 DEF Reached

\* A block means to a decoder whose table is the encoder's what it meant to the
\* encoder, and leaves the two tables the same.
LEMMA BlockMeans ==
  ASSUME encoder \in Tables, pendingSize \in Nat \cup {NoSize}, NEW fields \in Seq(Fields)
  PROVE  LET e == Encoded(fields)
         IN  /\ e.table \in Tables /\ e.rows \in Seq(Row)
             /\ Decoded(encoder, e.rows) = [table |-> e.table, fields |-> fields]
  <1>1. PICK head : head = IF pendingSize = NoSize THEN [table |-> encoder, rows |-> <<>>]
              ELSE [table |-> Resized(encoder, pendingSize), rows |-> <<SizeRow(pendingSize)>>]
    OBVIOUS
  <1>2. PICK e : e = Encoded(fields)
    OBVIOUS
  <1>3. e = FoldLeft(EncodeNext, head, fields)
    BY <1>1, <1>2 DEF Encoded
  <1>4. PICK g : Runs("encode", head, fields, g) /\ e = g[Len(fields)]
    BY <1>3, EncodeRuns
  <1>5. PICK off \in Nat : /\ head.table \in Tables /\ head.rows \in Seq(Row) /\ Len(head.rows) = off
                           /\ pendingSize = NoSize => off = 0 /\ head.table = encoder
                           /\ pendingSize # NoSize => /\ off = 1 /\ pendingSize \in Nat
                                                      /\ head.rows[1] = SizeRow(pendingSize)
                                                      /\ head.table = Resized(encoder, pendingSize)
    <2>1. CASE pendingSize = NoSize
      BY <1>1, <2>1
    <2>2. CASE pendingSize # NoSize
      <3>1. SizeRow(pendingSize) \in Row /\ Resized(encoder, pendingSize) \in Tables
        BY <2>2, ResizedIs DEF SizeRow, Row
      <3>2. head.table = Resized(encoder, pendingSize) /\ head.rows = <<SizeRow(pendingSize)>>
        BY <1>1, <2>2
      <3>. QED
        BY <2>2, <3>1, <3>2
    <2>. QED
      BY <2>1, <2>2
  <1>6. EncodedUpTo(g, off, Len(fields)) /\ EncodedUpTo(g, off, 0)
    BY <1>4, <1>5, EncodeGoesOn
  <1>7. e.table \in Tables /\ e.rows \in Seq(Row) /\ Len(e.rows) = off + Len(fields)
    BY <1>4, <1>6 DEF EncodedUpTo
  <1>8. PICK d : /\ Runs("decode", [table |-> encoder, fields |-> <<>>], e.rows, d)
                 /\ Decoded(encoder, e.rows) = d[Len(e.rows)]
    BY <1>7, DecodeRuns DEF Decoded
  <1>9. d[off] = [table |-> head.table, fields |-> <<>>]
    <2>1. d[0] = [table |-> encoder, fields |-> <<>>]
      BY <1>8 DEF Runs
    <2>2. CASE pendingSize = NoSize
      BY <1>5, <2>1, <2>2
    <2>3. CASE pendingSize # NoSize
      <3>1. 1 \in 1..Len(e.rows) /\ 1 - 1 = 0
        BY <1>5, <1>7, <2>3
      <3>2. d[1] = DecodeRow(d[0], e.rows[1])
        BY <1>8, <3>1 DEF Runs, Op
      <3>3. e.rows[1] = [kind |-> "size", size |-> pendingSize]
        <4>1. g[0] = head
          BY <1>4 DEF Runs
        <4>2. Len(fields) \in Nat /\ 0 \in 0..Len(fields) /\ 1 \in 1..off + 0
          BY <1>5, <2>3
        <4>3. e.rows[1] = g[0].rows[1]
          BY <1>4, <1>6, <4>2 DEF EncodedUpTo
        <4>. QED
          BY <1>5, <2>3, <4>1, <4>3 DEF SizeRow
      <3>4. d[1] = [table |-> Resized(encoder, pendingSize), fields |-> <<>>]
        BY <2>1, <3>2, <3>3 DEF DecodeRow
      <3>. QED
        BY <1>5, <2>3, <3>4
    <2>. QED
      BY <2>2, <2>3
  <1>10. d[off + Len(fields)] = [table |-> e.table, fields |-> fields]
    <2>1. PICK base : base = [table |-> encoder, fields |-> <<>>]
      OBVIOUS
    <2>2. Runs("decode", base, g[Len(fields)].rows, d)
      BY <1>4, <1>8, <2>1
    <2>3. Starts(head, off) /\ Reached(d, off, head.table, <<>>)
      BY <1>5, <1>9 DEF Starts, Reached
    <2>4. Reached(d, off + Len(fields), g[Len(fields)].table, fields)
      BY <1>4, <2>2, <2>3, DecodeFollows
    <2>. QED
      BY <1>4, <2>4 DEF Reached
  <1>. QED
    BY <1>2, <1>7, <1>8, <1>10

\* A block that changes no table leaves the decoder's as it is.
LEMMA UnchangedTable ==
  ASSUME NEW table, NEW rows \in Seq(Row), \A i \in DOMAIN rows : ~Changes(rows[i])
  PROVE  Decoded(table, rows).table = table
  <1>1. PICK n \in Nat : n = Len(rows) /\ DOMAIN rows = 1..n
    OBVIOUS
  <1>2. PICK d : /\ Runs("decode", [table |-> table, fields |-> <<>>], rows, d)
                 /\ Decoded(table, rows) = d[n]
    BY <1>1, DecodeRuns DEF Decoded
  <1>3. PICK good : good = {k \in 0..n : d[k].table = table}
    OBVIOUS
  <1>4. 0 \in good
    BY <1>2, <1>3 DEF Runs
  <1>5. ASSUME NEW k \in 0..n - 1, k \in good PROVE k + 1 \in good
    <2>1. k + 1 \in 1..n /\ (k + 1) - 1 = k /\ k + 1 \in 0..n
      OBVIOUS
    <2>2. d[k].table = table
      BY <1>3, <1>5
    <2>3. d[k + 1] = DecodeRow(d[k], rows[k + 1])
      BY <1>1, <1>2, <2>1 DEF Runs, Op
    <2>4. PICK row \in Row : row = rows[k + 1]
      BY <1>1, <2>1
    <2>5. ~Changes(row)
      BY <1>1, <2>1, <2>4
    <2>6. \/ row.kind = "static"
          \/ row.kind = "index"
          \/ row.kind = "literal" /\ ~row.adds
      BY <2>5 DEF Row, Changes
    <2>7. DecodeRow(d[k], row).table = table
      BY <2>2, <2>6 DEF DecodeRow
    <2>. QED
      BY <1>3, <2>1, <2>3, <2>4, <2>7
  <1>6. \A k \in 0..n : k \in good
    BY <1>4, <1>5, UpwardTo
  <1>. QED
    BY <1>2, <1>3, <1>6

-----------------------------------------------------------------------------
(* The blocks on their way lead from the decoder's table to the encoder's. *)

Packet == [rows : Seq(Row), meant : Seq(Fields)]

\* t: the decoder's table before each block, and after the last.
Linked(t, from, to, packets) ==
  /\ t[0] = from /\ t[Len(packets)] = to
  /\ \A i \in 1..Len(packets) :
       Decoded(t[i - 1], packets[i].rows) = [table |-> t[i], fields |-> packets[i].meant]

HpackTypes ==
  /\ encoder \in Tables /\ pendingSize \in Nat \cup {NoSize}
  /\ wire \in Seq(Packet) /\ missed \in BOOLEAN
InStep == ~missed => got.right /\ Unbroken /\ \E t : Linked(t, decoder, encoder, wire)
HpackInv == HpackTypes /\ InStep

\* A block that goes out prolongs the chain.
LEMMA OneMoreBlock ==
  ASSUME NEW from, NEW to, NEW packets \in Seq(Packet), NEW t, Linked(t, from, to, packets),
         NEW p \in Packet, NEW table, Decoded(to, p.rows) = [table |-> table, fields |-> p.meant]
  PROVE  \E u : Linked(u, from, table, Append(packets, p))
  <1>1. PICK n \in Nat : n = Len(packets)
    OBVIOUS
  <1>2. PICK more : more = Append(packets, p)
    OBVIOUS
  <1>3. Len(more) = n + 1 /\ more[n + 1] = p /\ \A i \in 1..n : more[i] = packets[i]
    BY <1>1, <1>2
  <1>4. PICK u : u = [i \in 0..n + 1 |-> IF i = n + 1 THEN table ELSE t[i]]
    OBVIOUS
  <1>5. u[n + 1] = table /\ \A i \in 0..n : u[i] = t[i]
    BY <1>4
  <1>6. ASSUME NEW i \in 1..n + 1
        PROVE  Decoded(u[i - 1], more[i].rows) = [table |-> u[i], fields |-> more[i].meant]
    <2>1. CASE i = n + 1
      <3>1. i - 1 = n /\ n \in 0..n
        BY <2>1
      <3>2. u[i - 1] = to
        BY <1>1, <1>5, <3>1 DEF Linked
      <3>. QED
        BY <1>3, <1>5, <2>1, <3>2
    <2>2. CASE i # n + 1
      <3>1. i \in 1..n /\ i \in 0..n /\ i - 1 \in 0..n
        BY <2>2
      <3>2. u[i] = t[i] /\ u[i - 1] = t[i - 1] /\ more[i] = packets[i]
        BY <1>3, <1>5, <3>1
      <3>3. Decoded(t[i - 1], packets[i].rows) = [table |-> t[i], fields |-> packets[i].meant]
        BY <1>1, <3>1 DEF Linked
      <3>. QED
        BY <3>2, <3>3
    <2>. QED
      BY <2>1, <2>2
  <1>7. u[0] = from
    <2>1. 0 \in 0..n
      OBVIOUS
    <2>. QED
      BY <1>5, <2>1 DEF Linked
  <1>8. Linked(u, from, table, more)
    BY <1>3, <1>5, <1>6, <1>7 DEF Linked
  <1>. QED
    BY <1>2, <1>8

\* A block that arrives shortens it: the decoder does what the first link says.
LEMMA OneBlockLess ==
  ASSUME NEW from, NEW to, NEW packets \in Seq(Packet), packets # <<>>, NEW t, Linked(t, from, to, packets)
  PROVE  /\ Head(packets) \in Packet /\ Tail(packets) \in Seq(Packet)
         /\ Decoded(from, Head(packets).rows) = [table |-> t[1], fields |-> Head(packets).meant]
         /\ \E u : Linked(u, t[1], to, Tail(packets))
  <1>1. PICK n \in Nat : n = Len(packets)
    OBVIOUS
  <1>2. PICK rest : rest = Tail(packets)
    OBVIOUS
  <1>3. /\ n \in Nat \ {0} /\ rest \in Seq(Packet) /\ Len(rest) = n - 1
        /\ \A i \in 1..n - 1 : rest[i] = packets[i + 1]
    BY <1>1, <1>2
  <1>4. Head(packets) = packets[1] /\ packets[1] \in Packet
    BY <1>1, <1>3
  <1>5. PICK u : u = [i \in 0..n - 1 |-> t[i + 1]]
    OBVIOUS
  <1>6. Decoded(from, packets[1].rows) = [table |-> t[1], fields |-> packets[1].meant]
    <2>1. 1 \in 1..n /\ 1 - 1 = 0
      BY <1>3
    <2>. QED
      BY <1>1, <2>1 DEF Linked
  <1>7. u[0] = t[1] /\ u[n - 1] = to
    <2>1. 0 \in 0..n - 1 /\ n - 1 \in 0..n - 1 /\ (n - 1) + 1 = n /\ 0 + 1 = 1
      BY <1>3
    <2>2. u[0] = t[1] /\ u[n - 1] = t[n]
      BY <1>5, <2>1
    <2>. QED
      BY <1>1, <2>2 DEF Linked
  <1>8. ASSUME NEW i \in 1..n - 1
        PROVE  Decoded(u[i - 1], rest[i].rows) = [table |-> u[i], fields |-> rest[i].meant]
    <2>1. i \in 0..n - 1 /\ i - 1 \in 0..n - 1 /\ (i - 1) + 1 = i /\ i + 1 \in 1..n /\ (i + 1) - 1 = i
      BY <1>3
    <2>2. u[i] = t[i + 1] /\ u[i - 1] = t[i] /\ rest[i] = packets[i + 1]
      BY <1>3, <1>5, <2>1
    <2>3. Decoded(t[i], packets[i + 1].rows) = [table |-> t[i + 1], fields |-> packets[i + 1].meant]
      BY <1>1, <2>1 DEF Linked
    <2>. QED
      BY <2>2, <2>3
  <1>9. Linked(u, t[1], to, rest)
    BY <1>3, <1>7, <1>8 DEF Linked
  <1>. QED
    BY <1>2, <1>3, <1>4, <1>6, <1>9

LEMMA HpackInitially == HpackInit => HpackInv
  <1> SUFFICES ASSUME HpackInit PROVE HpackInv
    OBVIOUS
  <1>1. HpackTypes
    <2>1. <<>> \in Seq(Fields) /\ DefaultSize \in Nat
      BY HpackConstants
    <2>2. encoder = [entries |-> <<>>, max |-> DefaultSize] /\ pendingSize = NoSize /\ wire = <<>> /\ missed = FALSE
      BY DEF HpackInit
    <2>3. encoder \in Tables
      BY <2>1, <2>2 DEF Tables
    <2>4. wire \in Seq(Packet)
      BY <2>2
    <2>. QED
      BY <2>2, <2>3, <2>4 DEF HpackTypes
  <1>2. PICK t : t = [i \in {0} |-> decoder]
    OBVIOUS
  <1>3. t[0] = decoder /\ Len(wire) = 0 /\ decoder = encoder
    BY <1>2 DEF HpackInit
  <1>4. Linked(t, decoder, encoder, wire)
    BY <1>3 DEF Linked
  <1>5. got.right /\ Unbroken
    BY DEF HpackInit, Unbroken
  <1>. QED
    BY <1>1, <1>4, <1>5 DEF HpackInv, InStep

\* Blocks are sequences of fields, of whatever length.
LEMMA BlocksAre == \A fields \in Blocks \cup {<<>>} : fields \in Seq(Fields)
  <1>1. ASSUME NEW fields \in Blocks PROVE fields \in Seq(Fields)
    <2>1. PICK n \in 1..MaxFields : fields \in [1..n -> Fields]
      BY DEF Blocks
    <2>2. n \in Nat
      BY HpackConstants
    <2>. QED
      BY <2>1, <2>2
  <1>2. <<>> \in Seq(Fields)
    OBVIOUS
  <1>. QED
    BY <1>1, <1>2

\* Every step keeps the chain, or says that a block went missing.
LEMMA HpackStep == HpackInv /\ [HpackNext]_hpackVars => HpackInv'
  <1> SUFFICES ASSUME HpackInv, [HpackNext]_hpackVars PROVE HpackInv'
    OBVIOUS
  <1>1. HpackTypes /\ InStep
    BY DEF HpackInv
  <1>2. encoder \in Tables /\ pendingSize \in Nat \cup {NoSize} /\ wire \in Seq(Packet) /\ missed \in BOOLEAN
    BY <1>1 DEF HpackTypes
  <1>3. ASSUME SendBlock PROVE HpackInv'
    <2>1. PICK fields \in Seq(Fields) :
            LET e == Encoded(fields)
            IN  encoder' = e.table /\ wire' = Append(wire, [rows |-> e.rows, meant |-> fields])
      BY <1>3, BlocksAre DEF SendBlock
    <2>2. PICK e : e = Encoded(fields)
      OBVIOUS
    <2>3. /\ e.table \in Tables /\ e.rows \in Seq(Row)
          /\ Decoded(encoder, e.rows) = [table |-> e.table, fields |-> fields]
      BY <1>2, <2>2, BlockMeans
    <2>4. PICK p : p = [rows |-> e.rows, meant |-> fields]
      OBVIOUS
    <2>5. p \in Packet /\ p.rows = e.rows /\ p.meant = fields
      BY <2>3, <2>4 DEF Packet
    <2>6. encoder' = e.table /\ wire' = Append(wire, p)
      BY <2>1, <2>2, <2>4
    <2>7. pendingSize' = NoSize /\ decoder' = decoder /\ got' = got /\ missed' = missed
      BY <1>3 DEF SendBlock
    <2>8. HpackTypes'
      <3>1. Append(wire, p) \in Seq(Packet)
        BY <1>2, <2>5
      <3>. QED
        BY <1>2, <2>3, <2>6, <2>7, <3>1 DEF HpackTypes, NoSize
    <2>9. ASSUME ~missed' PROVE got'.right /\ Unbroken' /\ \E t : Linked(t, decoder', encoder', wire')
      <3>1. got.right /\ Unbroken /\ \E t : Linked(t, decoder, encoder, wire)
        BY <1>1, <2>7, <2>9 DEF InStep
      <3>2. PICK t : Linked(t, decoder, encoder, wire)
        BY <3>1
      <3>3. \E u : Linked(u, decoder, e.table, Append(wire, p))
        BY <1>2, <2>3, <2>5, <3>2, OneMoreBlock
      <3>. QED
        BY <2>6, <2>7, <3>1, <3>3 DEF Unbroken
    <2>. QED
      BY <2>8, <2>9 DEF HpackInv, InStep, Linked
  <1>4. ASSUME EncodeFails PROVE HpackInv'
    <2>1. PICK fields \in Seq(Fields) :
            LET e == Encoded(fields)
            IN  encoder' = e.table /\ missed' = (missed \/ e.table # encoder)
      BY <1>4, BlocksAre DEF EncodeFails
    <2>2. PICK e : e = Encoded(fields)
      OBVIOUS
    <2>3. e.table \in Tables
      BY <1>2, <2>2, BlockMeans
    <2>4. encoder' = e.table /\ missed' = (missed \/ e.table # encoder)
      BY <2>1, <2>2
    <2>5. pendingSize' = NoSize /\ wire' = wire /\ decoder' = decoder /\ got' = got
      BY <1>4 DEF EncodeFails
    <2>6. missed' \in BOOLEAN
      BY <1>2, <2>4
    <2>7. HpackTypes'
      BY <1>2, <2>3, <2>4, <2>5, <2>6 DEF HpackTypes, NoSize
    <2>8. ASSUME ~missed' PROVE ~missed /\ encoder' = encoder
      BY <2>4, <2>8
    <2>. QED
      BY <1>1, <2>5, <2>7, <2>8 DEF HpackInv, InStep, Linked, Unbroken
  <1>5. ASSUME AskSize PROVE HpackInv'
    <2>1. pendingSize' \in Nat
      BY <1>5, HpackConstants DEF AskSize
    <2>2. encoder' = encoder /\ wire' = wire /\ decoder' = decoder /\ got' = got /\ missed' = missed
      BY <1>5 DEF AskSize
    <2>3. HpackTypes'
      BY <1>2, <2>1, <2>2 DEF HpackTypes
    <2>. QED
      BY <1>1, <2>2, <2>3 DEF HpackInv, InStep, Linked, Unbroken
  <1>6. ASSUME DecodeBlock PROVE HpackInv'
    <2>1. wire # <<>> /\ wire' = Tail(wire) /\ encoder' = encoder /\ pendingSize' = pendingSize /\ missed' = missed
      BY <1>6 DEF DecodeBlock
    <2>2. PICK d : d = Decoded(decoder, Head(wire).rows)
      OBVIOUS
    <2>3. /\ decoder' = d.table
          /\ got' = [outcome |-> Outcome(d.fields), right |-> d.fields = Head(wire).meant]
      BY <1>6, <2>2 DEF DecodeBlock
    <2>4. HpackTypes'
      <3>1. Tail(wire) \in Seq(Packet)
        BY <1>2, <2>1
      <3>. QED
        BY <1>2, <2>1, <3>1 DEF HpackTypes
    <2>5. ASSUME ~missed' PROVE got'.right /\ Unbroken' /\ \E t : Linked(t, decoder', encoder', wire')
      <3>1. PICK t : Linked(t, decoder, encoder, wire)
        BY <1>1, <2>1, <2>5 DEF InStep
      <3>2. /\ Head(wire) \in Packet
            /\ Decoded(decoder, Head(wire).rows) = [table |-> t[1], fields |-> Head(wire).meant]
            /\ \E u : Linked(u, t[1], encoder, Tail(wire))
        BY <1>2, <2>1, <3>1, OneBlockLess
      <3>3. d.table = t[1] /\ d.fields = Head(wire).meant
        BY <2>2, <3>2
      <3>4. PICK fields \in Seq(Fields) : fields = d.fields
        BY <3>2, <3>3 DEF Packet
      <3>5. \A i \in DOMAIN fields : fields[i].name # Unknown.name
        BY HpackConstants
      <3>6. Outcome(fields) # "error"
        BY <3>5 DEF Outcome
      <3>7. got'.outcome # "error" /\ got'.right
        BY <2>3, <3>3, <3>4, <3>6
      <3>. QED
        BY <2>1, <2>3, <3>2, <3>3, <3>7 DEF Unbroken
    <2>. QED
      BY <2>4, <2>5 DEF HpackInv, InStep, Linked
  <1>7. ASSUME RefuseBlock PROVE HpackInv'
    <2>1. /\ wire # <<>> /\ wire' = Tail(wire)
          /\ encoder' = encoder /\ pendingSize' = pendingSize /\ decoder' = decoder /\ got' = got
      BY <1>7 DEF RefuseBlock
    <2>2. missed' = (missed \/ \E i \in DOMAIN Head(wire).rows : Changes(Head(wire).rows[i]))
      BY <1>7 DEF RefuseBlock
    <2>3. HpackTypes'
      <3>1. Tail(wire) \in Seq(Packet)
        BY <1>2, <2>1
      <3>2. missed' \in BOOLEAN
        BY <1>2, <2>2
      <3>. QED
        BY <1>2, <2>1, <3>1, <3>2 DEF HpackTypes
    <2>4. ASSUME ~missed' PROVE got'.right /\ Unbroken' /\ \E t : Linked(t, decoder', encoder', wire')
      <3>1. ~missed /\ \A i \in DOMAIN Head(wire).rows : ~Changes(Head(wire).rows[i])
        BY <2>2, <2>4
      <3>2. got.right /\ Unbroken
        BY <1>1, <3>1 DEF InStep
      <3>3. PICK t : Linked(t, decoder, encoder, wire)
        BY <1>1, <3>1 DEF InStep
      <3>4. /\ Head(wire) \in Packet
            /\ Decoded(decoder, Head(wire).rows) = [table |-> t[1], fields |-> Head(wire).meant]
            /\ \E u : Linked(u, t[1], encoder, Tail(wire))
        BY <1>2, <2>1, <3>3, OneBlockLess
      <3>5. PICK rows \in Seq(Row) : rows = Head(wire).rows
        BY <3>4 DEF Packet
      <3>6. Decoded(decoder, rows).table = decoder
        BY <3>1, <3>5, UnchangedTable
      <3>7. t[1] = decoder
        BY <3>4, <3>5, <3>6
      <3>. QED
        BY <2>1, <3>2, <3>4, <3>7 DEF Unbroken
    <2>. QED
      BY <2>3, <2>4 DEF HpackInv, InStep, Linked
  <1>8. CASE UNCHANGED hpackVars
    BY <1>1, <1>8 DEF hpackVars, HpackInv, HpackTypes, InStep, Linked, Unbroken
  <1>. QED
    BY <1>3, <1>4, <1>5, <1>6, <1>7, <1>8 DEF HpackNext

\* TablesInStep, for any fields, sizes and blocks: whatever was inserted, evicted
\* or resized on the way, the decoder takes every block as the encoder meant it,
\* and the tables agree when nothing is on its way, as long as no block that
\* changes a table was given up or refused.
THEOREM TablesStayInStep == HpackSpec => []TablesInStep
  <1>1. HpackInv => TablesInStep
    <2> SUFFICES ASSUME HpackInv, ~missed PROVE got.right /\ Unbroken /\ (wire = <<>> => encoder = decoder)
      BY DEF TablesInStep
    <2>1. got.right /\ Unbroken /\ \E t : Linked(t, decoder, encoder, wire)
      BY DEF HpackInv, InStep
    <2>2. PICK t : Linked(t, decoder, encoder, wire)
      BY <2>1
    <2>3. ASSUME wire = <<>> PROVE encoder = decoder
      <3>1. Len(wire) = 0
        BY <2>3
      <3>. QED
        BY <2>2, <3>1 DEF Linked
    <2>. QED
      BY <2>1, <2>3
  <1>. QED
    BY <1>1, HpackInitially, HpackStep, PTL DEF HpackSpec

-----------------------------------------------------------------------------
(* Streams (Http2).  What the invariant says of one connection is said of  *)
(* the record that the chain of operators of a step passes on, and of what *)
(* else the properties look at when the step is done.                      *)

Others == [handler |-> handler, producer |-> producer, opened |-> opened, ended |-> ended,
           pend |-> pend, lastId |-> lastId, window |-> peerInit,
           live |-> (serve \in InLoop /\ up), granted |-> granted]

\* A stream nobody has opened, and one that has a handler or had one.
NotYetOpened(s, t, x) ==
  s > x.lastId => /\ ~t.known /\ ~t.rejected /\ t.state # "closed" /\ t.sent = 0
                  /\ x.handler[s] = "none"
OpenedByClient(s, t, x) == t.known => s \in x.opened /\ s <= x.lastId
HasBeenRequested(s, t, x) ==
  x.handler[s] # "none" => s \in x.ended /\ x.pend.s # s /\ (t.known \/ t.state = "closed")
BodyAfterHandler(s, x) ==
  /\ x.producer[s] # "none" => x.handler[s] \in {"starting", "failing", "done"}
  /\ x.producer[s] \in {"done", "escaped"} \cup Alive => x.handler[s] = "done"

\* What END_STREAM waits for.
UntouchedBefore(s, t, x) ==
  ~t.rejected /\ x.handler[s] # "done" => t.out = 0 /\ ~t.endAfter /\ ~t.endSent
NoEndWhileProduced(s, t, x) ==
  ~t.rejected /\ x.producer[s] \in {"unstarted", "fetch", "blocked"} => ~t.endAfter /\ ~t.endSent
EndIsWhole(t) == t.endSent /\ ~t.rejected => t.out = 0

\* The state of a stream that is not refused.
StateFits(s, t, x) ==
  t.known => /\ t.state = "idle" => ~t.seen /\ x.pend.s = s
             /\ ~t.rejected => t.state # "local"
             /\ ~t.rejected /\ s \in x.ended /\ x.pend.s # s => t.state \in {"remote", "closed"}
BlockFits(s, t, x) ==
  x.pend.s = s => /\ s \in x.opened /\ (x.pend.end <=> s \in x.ended)
                  /\ t.known /\ x.pend.request => ~t.seen
                  /\ x.pend.request \/ x.pend.end
Held(s, t, x) ==
  \/ x.handler[s] \in {"queued"} \cup Working
  \/ x.producer[s] \in {"fetch", "blocked"}
  \/ t.out > 0 /\ t.endAfter
  \/ x.handler[s] = "escaped" \/ x.producer[s] \in {"escaping", "escaped"}
NotOrphaned(s, t, x) ==
  x.live /\ s \in x.ended /\ t.known /\ t.state # "closed" /\ ~t.rejected /\ x.pend.s # s
    => Held(s, t, x)

StreamInv(s, t, x) ==
  /\ NotYetOpened(s, t, x) /\ OpenedByClient(s, t, x) /\ HasBeenRequested(s, t, x)
  /\ BodyAfterHandler(s, x) /\ UntouchedBefore(s, t, x) /\ NoEndWhileProduced(s, t, x)
  /\ EndIsWhole(t) /\ StateFits(s, t, x) /\ BlockFits(s, t, x) /\ NotOrphaned(s, t, x)
  /\ t.known => t.win = x.window + t.given - t.sent

\* The connection as a whole.
Octets(f) == FoldLeft(AddSent, 0, f)
ConnTypes(c) ==
  /\ c = [stream |-> c.stream, recent |-> c.recent, cwin |-> c.cwin]
  /\ c.stream \in [Streams -> StreamRecord]
  /\ c.recent \in SeqOf(Streams, RecentlyReset)
  /\ c.cwin \in 0..MaxWindow
Base(c, x) ==
  /\ ConnTypes(c) /\ x.window \in Int /\ x.granted \in Int
  /\ \A s \in Streams : StreamInv(s, c.stream[s], x)
  /\ c.cwin + Octets(c.stream) = DefaultWindow + x.granted
Flushed(t, room) == t.known /\ t.state # "closed" => Sendable(t, room) = 0
ConnInv(c, x) == Base(c, x) /\ \A s \in Streams : Flushed(c.stream[s], c.cwin)

LoopInv2 ==
  /\ serve \in InLoop => reading /\ ~abandoned
  /\ starting # None => handler[starting] = "starting" /\ producer[starting] = "unstarted"
  /\ pend.s = None => pend = NoBlock

H2Inv == H2TypeOK /\ ConnInv(Conn, Others) /\ LoopInv2

-----------------------------------------------------------------------------
(* What a flush does to a stream, and keeps. *)
\* What the windows let out is the least of three numbers, or nothing.
LEMMA LeastOfThree ==
  ASSUME NEW a \in Int, NEW b \in Int, NEW c \in Int
  PROVE  /\ Min({a, b, c}) \in {a, b, c}
         /\ Min({a, b, c}) <= a /\ Min({a, b, c}) <= b /\ Min({a, b, c}) <= c
  <1>1. \E x \in {a, b, c} : \A y \in {a, b, c} : x <= y
    <2>1. CASE a <= b /\ a <= c
      BY <2>1
    <2>2. CASE b <= a /\ b <= c
      BY <2>2
    <2>3. CASE c <= a /\ c <= b
      BY <2>3
    <2>. QED
      BY <2>1, <2>2, <2>3
  <1>. QED
    BY <1>1 DEF Min

LEMMA NoneOrMore ==
  ASSUME NEW a \in Int
  PROVE  Max({0, a}) = IF a > 0 THEN a ELSE 0
  <1>1. \E x \in {0, a} : \A y \in {0, a} : x >= y
    <2>1. CASE a > 0
      BY <2>1
    <2>2. CASE ~(a > 0)
      BY <2>2
    <2>. QED
      BY <2>1, <2>2
  <1>2. Max({0, a}) \in {0, a} /\ \A y \in {0, a} : Max({0, a}) >= y
    BY <1>1 DEF Max
  <1>. QED
    BY <1>2

LEMMA SendableIs ==
  ASSUME NEW t, t \in StreamRecord, NEW room \in Nat
  PROVE  /\ Sendable(t, room) \in Nat
         /\ Sendable(t, room) <= t.out /\ Sendable(t, room) <= room
         /\ Sendable(t, room) = 0 \/ Sendable(t, room) <= t.win
         /\ Sendable(t, room) \in {t.out, t.win, room} \/ t.win <= 0
         /\ Sendable(t, room) = 0 <=> t.out = 0 \/ room = 0 \/ t.win <= 0
  <1>1. t.out \in Nat /\ t.win \in Int
    BY DEF StreamRecord
  <1>2. PICK a \in Nat, b \in Int : a = t.out /\ b = t.win
    BY <1>1
  <1>3. PICK m : /\ m = Min({t.out, t.win, room})
                 /\ m \in {t.out, t.win, room} /\ m <= t.out /\ m <= t.win /\ m <= room
    <2>1. a \in Int /\ b \in Int /\ room \in Int
      BY <1>2
    <2>2. Min({a, b, room}) \in {a, b, room} /\ Min({a, b, room}) <= a
          /\ Min({a, b, room}) <= b /\ Min({a, b, room}) <= room
      BY ONLY <2>1, LeastOfThree
    <2>. QED
      BY <1>2, <2>2
  <1>4. Sendable(t, room) = IF m > 0 THEN m ELSE 0
    BY <1>1, <1>2, <1>3, NoneOrMore DEF Sendable
  <1>. QED
    BY <1>1, <1>3, <1>4

\* The DATA frames of one flush.
LEMMA DrainedIs ==
  ASSUME NEW t, t \in StreamRecord, NEW n \in Nat, n <= t.out, NEW u, u = Drained(t, n)
  PROVE  /\ u \in StreamRecord
         /\ u.known = t.known /\ u.seen = t.seen /\ u.rejected = t.rejected /\ u.reset = t.reset
         /\ u.given = t.given /\ u.answered = t.answered
         /\ u.out = t.out - n /\ u.win = t.win - n /\ u.sent = t.sent + n
         /\ \/ u.out = 0 /\ t.endAfter /\ ~u.endAfter /\ u.endSent
               /\ u.state = (IF t.state \in {"open", "idle"} THEN "local"
                             ELSE IF t.state = "remote" THEN "closed" ELSE t.state)
            \/ (u.out # 0 \/ ~t.endAfter) /\ u.endAfter = t.endAfter /\ u.endSent = t.endSent
               /\ u.state = t.state
  <1>1. PICK v : v = [t EXCEPT !.out = @ - n, !.win = @ - n, !.sent = @ + n]
    OBVIOUS
  <1>2. /\ v.out = t.out - n /\ v.win = t.win - n /\ v.sent = t.sent + n
        /\ v.known = t.known /\ v.seen = t.seen /\ v.rejected = t.rejected /\ v.reset = t.reset
        /\ v.given = t.given /\ v.answered = t.answered /\ v.endAfter = t.endAfter
        /\ v.endSent = t.endSent /\ v.state = t.state
    BY <1>1 DEF StreamRecord
  <1>3. v \in StreamRecord
    <2>1. PICK a \in Nat, b \in Int, c \in Nat : a = t.out - n /\ b = t.win - n /\ c = t.sent + n
      BY DEF StreamRecord
    <2>2. v = [t EXCEPT !.out = a, !.win = b, !.sent = c]
      BY <1>1, <2>1
    <2>. QED
      BY <2>2 DEF StreamRecord
  <1>4. u = IF v.out = 0 /\ v.endAfter THEN EndLocal([v EXCEPT !.endAfter = FALSE]) ELSE v
    BY <1>1 DEF Drained
  <1>5. CASE v.out = 0 /\ v.endAfter
    <2>1. PICK w : w = [v EXCEPT !.endAfter = FALSE]
      OBVIOUS
    <2>2. PICK st : st = IF v.state \in {"open", "idle"} THEN "local"
                         ELSE IF v.state = "remote" THEN "closed" ELSE v.state
      OBVIOUS
    <2>3. w \in StreamRecord /\ w.state = v.state
      BY <1>3, <2>1 DEF StreamRecord
    <2>4. EndLocal(w) = [w EXCEPT !.state = st, !.endSent = TRUE]
      BY <2>2, <2>3 DEF EndLocal
    <2>5. u = [v EXCEPT !.endAfter = FALSE, !.state = st, !.endSent = TRUE]
      BY <1>4, <1>5, <1>3, <2>1, <2>4 DEF StreamRecord
    <2>6. st \in {"idle", "open", "remote", "local", "closed"}
      BY <1>3, <2>2 DEF StreamRecord
    <2>7. u \in StreamRecord
      BY <1>3, <2>5, <2>6 DEF StreamRecord
    <2>8. /\ u.known = v.known /\ u.seen = v.seen /\ u.rejected = v.rejected /\ u.reset = v.reset
          /\ u.given = v.given /\ u.answered = v.answered /\ u.out = v.out /\ u.win = v.win
          /\ u.sent = v.sent /\ ~u.endAfter /\ u.endSent /\ u.state = st
      BY <1>3, <2>5 DEF StreamRecord
    <2>. QED
      BY <1>2, <1>5, <2>2, <2>7, <2>8
  <1>6. CASE ~(v.out = 0 /\ v.endAfter)
    BY <1>2, <1>4, <1>6, <1>3
  <1>. QED
    BY <1>5, <1>6

\* A flush keeps what is said of a stream.
LEMMA DrainKeeps ==
  ASSUME NEW s \in Streams, NEW t, t \in StreamRecord, NEW n \in Nat, n <= t.out,
         NEW x, x.window \in Int, StreamInv(s, t, x)
  PROVE  StreamInv(s, Drained(t, n), x)
  <1>1. PICK u : u = Drained(t, n)
    OBVIOUS
  <1>2. /\ u \in StreamRecord
         /\ u.known = t.known /\ u.seen = t.seen /\ u.rejected = t.rejected /\ u.reset = t.reset
         /\ u.given = t.given /\ u.answered = t.answered
         /\ u.out = t.out - n /\ u.win = t.win - n /\ u.sent = t.sent + n
         /\ \/ u.out = 0 /\ t.endAfter /\ ~u.endAfter /\ u.endSent
               /\ u.state = (IF t.state \in {"open", "idle"} THEN "local"
                             ELSE IF t.state = "remote" THEN "closed" ELSE t.state)
            \/ (u.out # 0 \/ ~t.endAfter) /\ u.endAfter = t.endAfter /\ u.endSent = t.endSent
               /\ u.state = t.state
    BY <1>1, DrainedIs
  <1>3. /\ t.out \in Nat /\ t.win \in Int /\ t.sent \in Nat /\ t.given \in Nat
        /\ t.known \in BOOLEAN /\ t.rejected \in BOOLEAN /\ t.endAfter \in BOOLEAN
        /\ t.endSent \in BOOLEAN /\ t.state \in {"idle", "open", "remote", "local", "closed"}
    BY DEF StreamRecord
  <1>4. NotYetOpened(s, u, x)
    <2> SUFFICES ASSUME s > x.lastId PROVE NotYetOpened(s, u, x)
      BY DEF NotYetOpened
    <2>1. /\ ~t.known /\ ~t.rejected /\ t.state # "closed" /\ t.sent = 0 /\ x.handler[s] = "none"
          /\ t.out = 0 /\ ~t.endAfter
      BY DEF NotYetOpened, StreamInv, UntouchedBefore
    <2>. QED
      BY <1>2, <1>3, <2>1 DEF NotYetOpened
  <1>5. OpenedByClient(s, u, x) /\ HasBeenRequested(s, u, x) /\ BodyAfterHandler(s, x)
    BY <1>2, <1>3 DEF StreamInv, OpenedByClient, HasBeenRequested
  <1>6. UntouchedBefore(s, u, x)
    <2> SUFFICES ASSUME ~t.rejected, x.handler[s] # "done" PROVE u.out = 0 /\ ~u.endAfter /\ ~u.endSent
      BY <1>2 DEF UntouchedBefore
    <2>1. t.out = 0 /\ ~t.endAfter /\ ~t.endSent
      BY DEF StreamInv, UntouchedBefore
    <2>. QED
      BY <1>2, <1>3, <2>1
  <1>7. NoEndWhileProduced(s, u, x)
    BY <1>2, <1>3 DEF NoEndWhileProduced, StreamInv
  <1>8. EndIsWhole(u)
    <2>1. t.endSent /\ ~t.rejected => t.out = 0
      BY DEF StreamInv, EndIsWhole
    <2>2. u.endSent /\ ~u.rejected => u.out = 0
      <3>1. CASE u.out = 0
        BY <3>1
      <3>2. CASE u.endSent = t.endSent
        <4>1. t.out = 0 => t.out - n = 0
          BY <1>3
        <4>. QED
          BY <1>2, <2>1, <3>2, <4>1
      <3>. QED
        BY <1>2, <3>1, <3>2
    <2>. QED
      BY <2>2 DEF EndIsWhole
  <1>9. StateFits(s, u, x)
    BY <1>2, <1>3 DEF StateFits, StreamInv, UntouchedBefore, HasBeenRequested
  <1>10. BlockFits(s, u, x)
    BY <1>2, <1>3 DEF BlockFits, StreamInv
  <1>11. NotOrphaned(s, u, x)
    BY <1>2, <1>3 DEF NotOrphaned, StreamInv, Held, StateFits
  <1>12. u.known => u.win = x.window + u.given - u.sent
    <2>1. t.known => t.win = x.window + t.given - t.sent
      BY DEF StreamInv
    <2>2. PICK w : w = x.window
      OBVIOUS
    <2>3. u.win = t.win - n /\ u.sent = t.sent + n /\ u.given = t.given /\ u.known = t.known
      BY <1>2
    <2>. QED
      BY <1>3, <2>1, <2>2, <2>3
  <1>. QED
    BY <1>1, <1>4, <1>5, <1>6, <1>7, <1>8, <1>9, <1>10, <1>11, <1>12 DEF StreamInv

LEMMA ForgottenIs ==
  ASSUME NEW t, t \in StreamRecord, NEW u, u = Forgotten(t)
  PROVE  /\ u \in StreamRecord
         /\ ~u.known /\ ~u.endAfter /\ u.win = 0
         /\ u.seen = t.seen /\ u.rejected = t.rejected /\ u.state = t.state /\ u.out = t.out
         /\ u.sent = t.sent /\ u.endSent = t.endSent /\ u.answered = t.answered
  <1>1. 0 \in 0..MaxBody /\ 0 \in 0..MaxWindow
    BY Http2Constants
  <1>2. u = [t EXCEPT !.known = FALSE, !.body = 0, !.inWin = 0, !.win = 0, !.endAfter = FALSE,
                      !.given = 0]
    BY DEF Forgotten
  <1>3. PICK v : v = [t EXCEPT !.known = FALSE, !.body = 0, !.inWin = 0]
    OBVIOUS
  <1>4. v \in StreamRecord
    BY <1>1, <1>3 DEF StreamRecord
  <1>5. u = [v EXCEPT !.win = 0, !.endAfter = FALSE, !.given = 0]
    BY <1>2, <1>3 DEF StreamRecord
  <1>6. u \in StreamRecord
    <2>1. 0 \in Nat /\ 0 \in Int /\ FALSE \in BOOLEAN
      OBVIOUS
    <2>. QED
      BY <1>4, <1>5, <2>1 DEF StreamRecord
  <1>. QED
    BY <1>2, <1>6 DEF StreamRecord

LEMMA ForgetKeeps ==
  ASSUME NEW s \in Streams, NEW t, t \in StreamRecord, t.known, t.state = "closed", NEW x,
         StreamInv(s, t, x)
  PROVE  StreamInv(s, Forgotten(t), x)
  <1>1. PICK u : u = Forgotten(t)
    OBVIOUS
  <1>2. /\ u \in StreamRecord
         /\ ~u.known /\ ~u.endAfter /\ u.win = 0
         /\ u.seen = t.seen /\ u.rejected = t.rejected /\ u.state = t.state /\ u.out = t.out
         /\ u.sent = t.sent /\ u.endSent = t.endSent /\ u.answered = t.answered
    BY <1>1, ForgottenIs
  <1>. QED
    BY <1>1, <1>2 DEF StreamInv, NotYetOpened, OpenedByClient, HasBeenRequested, UntouchedBefore,
       NoEndWhileProduced, EndIsWhole, StateFits, BlockFits, NotOrphaned

-----------------------------------------------------------------------------
(* The folds over the streams. *)
\* The folds of this module, stream by stream.
LEMMA OrderOfStreams ==
  /\ InOrder \in Seq(Nat) /\ Len(InOrder) = N /\ \A k \in Streams : InOrder[k] = k
  <1>1. N \in Nat
    BY Http2Constants
  <1>2. InOrder \in [1..N -> Nat]
    BY DEF InOrder, Streams
  <1>3. InOrder \in Seq(Nat) /\ Len(InOrder) = N
    BY <1>1, <1>2
  <1>. QED
    BY <1>3 DEF InOrder, Streams

LEMMA FlushRuns ==
  ASSUME NEW base, NEW S, NEW seq \in Seq(S)
  PROVE  \E g : Runs("flush", base, seq, g) /\ FoldLeft(FlushIfLive, base, seq) = g[Len(seq)]
  <1>1. PICK n \in Nat : n = Len(seq) /\ DOMAIN seq = 1..n
    OBVIOUS
  <1> DEFINE It == CHOOSE f : f = [s \in SUBSET (1..n) |->
                     IF s = {} THEN base ELSE FlushIfLive(f[s \ {Max(s)}], seq[Max(s)])]
  <1>2. \E f : f = [s \in SUBSET (1..n) |->
                     IF s = {} THEN base ELSE FlushIfLive(f[s \ {Max(s)}], seq[Max(s)])]
    <2>1. \E f : IsFold("flush", base, seq, n, f)
      BY FoldExists
    <2>. QED
      BY <2>1 DEF IsFold, Op
  <1>3. It = [s \in SUBSET (1..n) |-> IF s = {} THEN base ELSE FlushIfLive(It[s \ {Max(s)}], seq[Max(s)])]
    BY <1>2
  <1>4. FoldLeft(FlushIfLive, base, seq) = It[1..n]
    BY <1>1 DEF FoldLeft, MapThenFoldSet
  <1>5. PICK f : f = It
    OBVIOUS
  <1> HIDE DEF It
  <1>6. IsFold("flush", base, seq, n, f)
    BY <1>3, <1>5 DEF IsFold, Op
  <1>7. \E g : Runs("flush", base, seq, g) /\ g[n] = f[1..n]
    BY <1>1, <1>6, FoldRuns
  <1>. QED
    BY <1>1, <1>4, <1>5, <1>7

LEMMA ReleaseRuns ==
  ASSUME NEW base, NEW S, NEW seq \in Seq(S)
  PROVE  \E g : Runs("release", base, seq, g) /\ FoldLeft(ReleaseIfClosed, base, seq) = g[Len(seq)]
  <1>1. PICK n \in Nat : n = Len(seq) /\ DOMAIN seq = 1..n
    OBVIOUS
  <1> DEFINE It == CHOOSE f : f = [s \in SUBSET (1..n) |->
                     IF s = {} THEN base ELSE ReleaseIfClosed(f[s \ {Max(s)}], seq[Max(s)])]
  <1>2. \E f : f = [s \in SUBSET (1..n) |->
                     IF s = {} THEN base ELSE ReleaseIfClosed(f[s \ {Max(s)}], seq[Max(s)])]
    <2>1. \E f : IsFold("release", base, seq, n, f)
      BY FoldExists
    <2>. QED
      BY <2>1 DEF IsFold, Op
  <1>3. It = [s \in SUBSET (1..n) |-> IF s = {} THEN base ELSE ReleaseIfClosed(It[s \ {Max(s)}], seq[Max(s)])]
    BY <1>2
  <1>4. FoldLeft(ReleaseIfClosed, base, seq) = It[1..n]
    BY <1>1 DEF FoldLeft, MapThenFoldSet
  <1>5. PICK f : f = It
    OBVIOUS
  <1> HIDE DEF It
  <1>6. IsFold("release", base, seq, n, f)
    BY <1>3, <1>5 DEF IsFold, Op
  <1>7. \E g : Runs("release", base, seq, g) /\ g[n] = f[1..n]
    BY <1>1, <1>6, FoldRuns
  <1>. QED
    BY <1>1, <1>4, <1>5, <1>7

LEMMA SentRuns ==
  ASSUME NEW base, NEW S, NEW seq \in Seq(S)
  PROVE  \E g : Runs("sent", base, seq, g) /\ FoldLeft(AddSent, base, seq) = g[Len(seq)]
  <1>1. PICK n \in Nat : n = Len(seq) /\ DOMAIN seq = 1..n
    OBVIOUS
  <1> DEFINE It == CHOOSE f : f = [s \in SUBSET (1..n) |->
                     IF s = {} THEN base ELSE AddSent(f[s \ {Max(s)}], seq[Max(s)])]
  <1>2. \E f : f = [s \in SUBSET (1..n) |->
                     IF s = {} THEN base ELSE AddSent(f[s \ {Max(s)}], seq[Max(s)])]
    <2>1. \E f : IsFold("sent", base, seq, n, f)
      BY FoldExists
    <2>. QED
      BY <2>1 DEF IsFold, Op
  <1>3. It = [s \in SUBSET (1..n) |-> IF s = {} THEN base ELSE AddSent(It[s \ {Max(s)}], seq[Max(s)])]
    BY <1>2
  <1>4. FoldLeft(AddSent, base, seq) = It[1..n]
    BY <1>1 DEF FoldLeft, MapThenFoldSet
  <1>5. PICK f : f = It
    OBVIOUS
  <1> HIDE DEF It
  <1>6. IsFold("sent", base, seq, n, f)
    BY <1>3, <1>5 DEF IsFold, Op
  <1>7. \E g : Runs("sent", base, seq, g) /\ g[n] = f[1..n]
    BY <1>1, <1>6, FoldRuns
  <1>. QED
    BY <1>1, <1>4, <1>5, <1>7

\* What has been sent altogether changes as one stream's share does.
LEMMA OctetsChange ==
  ASSUME NEW f \in [Streams -> StreamRecord], NEW h \in [Streams -> StreamRecord],
         NEW s \in Streams, NEW d \in Int, h[s].sent = f[s].sent + d,
         \A r \in Streams \ {s} : h[r].sent = f[r].sent
  PROVE  Octets(f) \in Int /\ Octets(h) = Octets(f) + d
  <1>1. N \in Nat /\ N >= 1 /\ s \in 1..N
    BY Http2Constants DEF Streams
  <1>2. f \in Seq(StreamRecord) /\ Len(f) = N /\ h \in Seq(StreamRecord) /\ Len(h) = N
    BY <1>1 DEF Streams
  <1>3. PICK g : Runs("sent", 0, f, g) /\ Octets(f) = g[N]
    BY <1>2, SentRuns DEF Octets
  <1>4. PICK e : Runs("sent", 0, h, e) /\ Octets(h) = e[N]
    BY <1>2, SentRuns DEF Octets
  <1>5. \A k \in 1..N : f[k].sent \in Nat /\ h[k].sent \in Nat
    BY DEF Streams, StreamRecord
  <1>6. g[0] = 0 /\ e[0] = 0 /\ \A k \in 1..N : g[k] = g[k - 1] + f[k].sent
          /\ e[k] = e[k - 1] + h[k].sent
    BY <1>2, <1>3, <1>4 DEF Runs, Op, AddSent
  <1> DEFINE Good == {k \in 0..N : g[k] \in Int /\ e[k] = g[k] + (IF k >= s THEN d ELSE 0)}
  <1>7. 0 \in Good
    BY <1>1, <1>6
  <1>8. ASSUME NEW k \in 0..N - 1, k \in Good PROVE k + 1 \in Good
    <2>1. k + 1 \in 1..N /\ k + 1 \in 0..N /\ (k + 1) - 1 = k
      BY <1>1
    <2>2. g[k + 1] = g[k] + f[k + 1].sent /\ e[k + 1] = e[k] + h[k + 1].sent
      BY <1>6, <2>1
    <2>3. PICK a \in Int : a = g[k]
      BY <1>8
    <2>4. PICK b \in Nat : b = f[k + 1].sent
      BY <1>5, <2>1
    <2>5. CASE k + 1 = s
      <3>1. h[k + 1].sent = b + d /\ e[k] = a
        BY <1>1, <1>8, <2>3, <2>4, <2>5
      <3>2. g[k + 1] = a + b /\ e[k + 1] = (a + b) + d
        BY <2>2, <2>3, <2>4, <3>1
      <3>. QED
        BY <2>1, <2>5, <3>2, <1>1
    <2>6. CASE k + 1 # s
      <3>1. h[k + 1].sent = b
        BY <2>1, <2>4, <2>6 DEF Streams
      <3>2. e[k] = a + (IF k + 1 >= s THEN d ELSE 0)
        BY <1>1, <1>8, <2>3, <2>6
      <3>3. g[k + 1] = a + b /\ e[k + 1] = (a + b) + (IF k + 1 >= s THEN d ELSE 0)
        BY <2>2, <2>3, <2>4, <3>1, <3>2
      <3>. QED
        BY <2>1, <3>3
    <2>. QED
      BY <2>5, <2>6
  <1>9. N \in Good
    <2> HIDE DEF Good
    <2>1. \A k \in 0..N : k \in Good
      BY <1>1, <1>7, <1>8, UpwardTo
    <2>. QED
      BY <1>1, <2>1
  <1>. QED
    BY <1>1, <1>3, <1>4, <1>9

LEMMA OctetsSame ==
  ASSUME NEW f \in [Streams -> StreamRecord], NEW h \in [Streams -> StreamRecord],
         \A r \in Streams : h[r].sent = f[r].sent
  PROVE  Octets(f) \in Int /\ Octets(h) = Octets(f)
  <1>1. 1 \in Streams
    BY Http2Constants DEF Streams
  <1>2. f[1].sent \in Nat /\ h[1].sent = f[1].sent + 0
    BY <1>1 DEF StreamRecord
  <1>3. Octets(f) \in Int /\ Octets(h) = Octets(f) + 0
    BY <1>1, <1>2, OctetsChange
  <1>. QED
    BY <1>3

-----------------------------------------------------------------------------
(* A stream replaced, flushed or released; all of them flushed. *)
\* A stream is replaced by another; the windows and the rest stay.
LEMMA WithIs ==
  ASSUME NEW c, ConnTypes(c), NEW s \in Streams, NEW t, t \in StreamRecord
  PROVE  /\ ConnTypes(With(c, s, t))
         /\ With(c, s, t).stream[s] = t
         /\ \A r \in Streams \ {s} : With(c, s, t).stream[r] = c.stream[r]
         /\ With(c, s, t).cwin = c.cwin /\ With(c, s, t).recent = c.recent
  <1>1. PICK f, q, w : f = c.stream /\ q = c.recent /\ w = c.cwin
    OBVIOUS
  <1>2. c = [stream |-> f, recent |-> q, cwin |-> w]
    BY <1>1 DEF ConnTypes
  <1>3. With(c, s, t) = [stream |-> [f EXCEPT ![s] = t], recent |-> q, cwin |-> w]
    BY <1>2 DEF With
  <1>4. f \in [Streams -> StreamRecord] /\ q \in SeqOf(Streams, RecentlyReset) /\ w \in 0..MaxWindow
    BY <1>1 DEF ConnTypes
  <1>5. [f EXCEPT ![s] = t] \in [Streams -> StreamRecord]
    BY <1>4
  <1>. QED
    BY <1>1, <1>3, <1>4, <1>5 DEF ConnTypes

LEMMA WithOctets ==
  ASSUME NEW c, ConnTypes(c), NEW s \in Streams, NEW t, t \in StreamRecord,
         t.sent = c.stream[s].sent
  PROVE  Octets(With(c, s, t).stream) = Octets(c.stream)
  <1>1. PICK d : d = With(c, s, t)
    OBVIOUS
  <1>2. /\ ConnTypes(d) /\ d.stream[s] = t
        /\ \A r \in Streams \ {s} : d.stream[r] = c.stream[r]
    BY <1>1, WithIs
  <1>3. \A r \in Streams : d.stream[r].sent = c.stream[r].sent
    BY <1>2
  <1>4. d.stream \in [Streams -> StreamRecord] /\ c.stream \in [Streams -> StreamRecord]
    BY <1>2 DEF ConnTypes
  <1>. QED
    BY <1>1, <1>3, <1>4, OctetsSame

\* A flush of one stream.
LEMMA FlushStreamIs ==
  ASSUME NEW c, ConnTypes(c), NEW s \in Streams
  PROVE  LET n == Sendable(c.stream[s], c.cwin)
             d == FlushStream(c, s)
         IN  /\ n \in Nat /\ n <= c.stream[s].out /\ n <= c.cwin
             /\ ConnTypes(d)
             /\ d.stream[s] = Drained(c.stream[s], n)
             /\ \A r \in Streams \ {s} : d.stream[r] = c.stream[r]
             /\ d.cwin = c.cwin - n /\ d.recent = c.recent
  <1>1. PICK n : n = Sendable(c.stream[s], c.cwin)
    OBVIOUS
  <1>2. PICK f, q, w : f = c.stream /\ q = c.recent /\ w = c.cwin
    OBVIOUS
  <1>3. c = [stream |-> f, recent |-> q, cwin |-> w]
    BY <1>2 DEF ConnTypes
  <1>4. f \in [Streams -> StreamRecord] /\ q \in SeqOf(Streams, RecentlyReset) /\ w \in 0..MaxWindow
    BY <1>2 DEF ConnTypes
  <1>5. w \in Nat /\ f[s] \in StreamRecord /\ MaxWindow \in Nat
    BY <1>4, Http2Constants
  <1>6. n \in Nat /\ n <= f[s].out /\ n <= w
    BY <1>1, <1>2, <1>5, SendableIs
  <1>7. FlushStream(c, s) = [stream |-> [f EXCEPT ![s] = Drained(f[s], n)], recent |-> q, cwin |-> w - n]
    <2>1. FlushStream(c, s) = [c EXCEPT !.stream[s] = Drained(@, n), !.cwin = @ - n]
      BY <1>1 DEF FlushStream
    <2>. QED
      BY <1>3, <2>1
  <1>8. Drained(f[s], n) \in StreamRecord
    BY <1>5, <1>6, DrainedIs
  <1>9. [f EXCEPT ![s] = Drained(f[s], n)] \in [Streams -> StreamRecord]
    BY <1>4, <1>8
  <1>10. w - n \in 0..MaxWindow
    BY <1>4, <1>5, <1>6
  <1>11. ConnTypes(FlushStream(c, s))
    BY <1>4, <1>7, <1>9, <1>10 DEF ConnTypes
  <1>. QED
    BY <1>1, <1>2, <1>4, <1>6, <1>7, <1>11

LEMMA FlushSilent ==
  ASSUME NEW c, ConnTypes(c), NEW s \in Streams
  PROVE  \A r \in Streams : FlushStream(c, s).stream[r].answered = c.stream[r].answered
  <1>1. PICK n, d : n = Sendable(c.stream[s], c.cwin) /\ d = FlushStream(c, s)
    OBVIOUS
  <1>2. /\ n \in Nat /\ n <= c.stream[s].out /\ d.stream[s] = Drained(c.stream[s], n)
        /\ \A r \in Streams \ {s} : d.stream[r] = c.stream[r]
    BY <1>1, FlushStreamIs
  <1>3. c.stream[s] \in StreamRecord
    BY DEF ConnTypes
  <1>4. d.stream[s].answered = c.stream[s].answered
    BY <1>2, <1>3, DrainedIs
  <1>. QED
    BY <1>1, <1>2, <1>4

\* What is left cannot go out.
LEMMA DrainedDry ==
  ASSUME NEW t, t \in StreamRecord, NEW room \in Nat, NEW n, n = Sendable(t, room)
  PROVE  Sendable(Drained(t, n), room - n) = 0
  <1>1. t.out \in Nat /\ t.win \in Int
    BY DEF StreamRecord
  <1>2. n \in {t.out, t.win, room} \/ t.win <= 0
    BY SendableIs
  <1>3. n \in Nat /\ n <= t.out /\ n <= room
    BY SendableIs
  <1>4. PICK u : u = Drained(t, n)
    OBVIOUS
  <1>5. u \in StreamRecord /\ u.out = t.out - n /\ u.win = t.win - n
    BY <1>3, <1>4, DrainedIs
  <1>6. room - n \in Nat
    BY <1>3
  <1>7. u.out = 0 \/ room - n = 0 \/ u.win <= 0
    BY <1>1, <1>2, <1>3, <1>5
  <1>. QED
    BY <1>4, <1>5, <1>6, <1>7, SendableIs

\* Less room lets out no more.
LEMMA LessRoom ==
  ASSUME NEW t, t \in StreamRecord, NEW room \in Nat, NEW less \in Nat, less <= room,
         Sendable(t, room) = 0
  PROVE  Sendable(t, less) = 0
  <1>1. t.out = 0 \/ room = 0 \/ t.win <= 0
    BY SendableIs
  <1>2. t.out = 0 \/ less = 0 \/ t.win <= 0
    BY <1>1
  <1>. QED
    BY <1>2, SendableIs

LEMMA FlushBase ==
  ASSUME NEW c, NEW x, Base(c, x), NEW s \in Streams
  PROVE  /\ Base(FlushStream(c, s), x)
         /\ Flushed(FlushStream(c, s).stream[s], FlushStream(c, s).cwin)
         /\ \A r \in Streams \ {s} : Flushed(c.stream[r], c.cwin) =>
               Flushed(FlushStream(c, s).stream[r], FlushStream(c, s).cwin)
  <1>1. PICK d : d = FlushStream(c, s)
    OBVIOUS
  <1>2. PICK n : n = Sendable(c.stream[s], c.cwin)
    OBVIOUS
  <1>3. /\ n \in Nat /\ n <= c.stream[s].out /\ n <= c.cwin
        /\ ConnTypes(d)
        /\ d.stream[s] = Drained(c.stream[s], n)
        /\ \A r \in Streams \ {s} : d.stream[r] = c.stream[r]
        /\ d.cwin = c.cwin - n
    BY <1>1, <1>2, FlushStreamIs DEF Base
  <1>4. /\ c.stream \in [Streams -> StreamRecord] /\ d.stream \in [Streams -> StreamRecord]
        /\ c.cwin \in 0..MaxWindow /\ d.cwin \in 0..MaxWindow /\ MaxWindow \in Nat
    BY <1>3, Http2Constants DEF Base, ConnTypes
  <1>5. PICK t : t = c.stream[s] /\ t \in StreamRecord
    BY <1>4
  <1>6. d.stream[s].sent = t.sent + n
    BY <1>3, <1>5, DrainedIs
  <1>7. Octets(c.stream) \in Int /\ Octets(d.stream) = Octets(c.stream) + n
    BY <1>3, <1>4, <1>5, <1>6, OctetsChange
  <1>8. d.cwin + Octets(d.stream) = DefaultWindow + x.granted
    <2>1. c.cwin + Octets(c.stream) = DefaultWindow + x.granted
      BY DEF Base
    <2>2. PICK a \in Int, b \in Int : a = c.cwin /\ b = Octets(c.stream)
      BY <1>4, <1>7
    <2>3. d.cwin = a - n /\ Octets(d.stream) = b + n
      BY <1>3, <1>7, <2>2
    <2>4. (a - n) + (b + n) = a + b
      BY <1>3, <2>2
    <2>. QED
      BY <2>1, <2>2, <2>3, <2>4
  <1>9. \A r \in Streams : StreamInv(r, d.stream[r], x)
    <2>1. StreamInv(s, t, x) /\ x.window \in Int
      BY <1>5 DEF Base
    <2>2. StreamInv(s, d.stream[s], x)
      BY <1>3, <1>5, <2>1, DrainKeeps
    <2>. QED
      BY <1>3, <2>2 DEF Base
  <1>10. Base(d, x)
    BY <1>3, <1>8, <1>9 DEF Base
  <1>11. Flushed(d.stream[s], d.cwin)
    <2>1. Sendable(Drained(t, n), c.cwin - n) = 0
      BY <1>2, <1>4, <1>5, DrainedDry
    <2>. QED
      BY <1>3, <1>5, <2>1 DEF Flushed
  <1>12. ASSUME NEW r \in Streams \ {s}, Flushed(c.stream[r], c.cwin) PROVE Flushed(d.stream[r], d.cwin)
    <2>1. d.stream[r] = c.stream[r] /\ c.stream[r] \in StreamRecord
      BY <1>3, <1>4
    <2>2. c.cwin \in Nat /\ d.cwin \in Nat /\ d.cwin <= c.cwin
      BY <1>3, <1>4
    <2>. QED
      BY <1>12, <2>1, <2>2, LessRoom DEF Flushed
  <1>. QED
    BY <1>1, <1>10, <1>11, <1>12

\* A flush of all of them.
LEMMA FlushAllInv ==
  ASSUME NEW c, NEW x, Base(c, x)
  PROVE  /\ ConnInv(FlushAll(c), x)
         /\ \A s \in Streams : FlushAll(c).stream[s].answered = c.stream[s].answered
  <1>1. N \in Nat /\ N >= 1
    BY Http2Constants
  <1>2. PICK g : Runs("flush", c, InOrder, g) /\ FlushAll(c) = g[N]
    BY OrderOfStreams, FlushRuns DEF FlushAll
  <1>3. g[0] = c /\ \A k \in 1..N : g[k] = FlushIfLive(g[k - 1], k)
    BY <1>2, OrderOfStreams DEF Runs, Op, Streams
  <1> DEFINE Good == {k \in 0..N : /\ Base(g[k], x)
                                   /\ \A r \in 1..k : Flushed(g[k].stream[r], g[k].cwin)
                                   /\ \A r \in Streams : g[k].stream[r].answered = c.stream[r].answered}
  <1>4. 0 \in Good
    BY <1>1, <1>3
  <1>5. ASSUME NEW k \in 0..N - 1, k \in Good PROVE k + 1 \in Good
    <2>1. k + 1 \in 1..N /\ k + 1 \in 0..N /\ (k + 1) - 1 = k /\ k + 1 \in Streams
      BY <1>1 DEF Streams
    <2>2. PICK a, b : a = g[k] /\ b = g[k + 1]
      OBVIOUS
    <2>3. b = FlushIfLive(a, k + 1)
      BY <1>3, <2>1, <2>2
    <2>4. /\ Base(a, x) /\ \A r \in 1..k : Flushed(a.stream[r], a.cwin)
          /\ \A r \in Streams : a.stream[r].answered = c.stream[r].answered
      BY <1>5, <2>2
    <2>5. a.stream \in [Streams -> StreamRecord] /\ a.cwin \in Nat
      BY <2>4, Http2Constants DEF Base, ConnTypes
    <2>6. \A r \in 1..k : r \in Streams \ {k + 1}
      BY <1>1 DEF Streams
    <2>7. CASE b = FlushStream(a, k + 1)
      <3>1. /\ Base(b, x) /\ Flushed(b.stream[k + 1], b.cwin)
            /\ \A r \in Streams \ {k + 1} : Flushed(a.stream[r], a.cwin) => Flushed(b.stream[r], b.cwin)
        BY <2>1, <2>4, <2>7, FlushBase
      <3>2. \A r \in 1..k : Flushed(b.stream[r], b.cwin)
        BY <2>4, <2>6, <3>1
      <3>3. \A r \in 1..k + 1 : r \in 1..k \/ r = k + 1
        BY <2>1
      <3>4. \A r \in 1..k + 1 : Flushed(b.stream[r], b.cwin)
        BY <3>1, <3>2, <3>3
      <3>5. \A r \in Streams : b.stream[r].answered = a.stream[r].answered
        BY <2>1, <2>4, <2>5, <2>7, FlushSilent DEF Base
      <3>. QED
        BY <2>1, <2>2, <2>4, <3>1, <3>4, <3>5
    <2>8. CASE b = a
            /\ ~(a.stream[k + 1].known /\ a.stream[k + 1].out > 0 /\ a.stream[k + 1].state # "closed")
      <3>1. PICK t : t = a.stream[k + 1] /\ t \in StreamRecord
        BY <2>1, <2>5
      <3>2. t.out \in Nat
        BY <3>1 DEF StreamRecord
      <3>3. t.known /\ t.state # "closed" => t.out = 0
        BY <2>8, <3>1, <3>2
      <3>4. Flushed(t, a.cwin)
        BY <2>5, <3>1, <3>3, SendableIs DEF Flushed
      <3>5. \A r \in 1..k + 1 : r \in 1..k \/ r = k + 1
        BY <2>1
      <3>6. \A r \in 1..k + 1 : Flushed(b.stream[r], b.cwin)
        BY <2>4, <2>8, <3>1, <3>4, <3>5
      <3>. QED
        BY <2>1, <2>2, <2>4, <2>8, <3>6
    <2>. QED
      BY <2>3, <2>7, <2>8 DEF FlushIfLive
  <1>6. N \in Good
    <2> HIDE DEF Good
    <2>1. \A k \in 0..N : k \in Good
      BY <1>1, <1>4, <1>5, UpwardTo
    <2>. QED
      BY <1>1, <2>1
  <1>. QED
    BY <1>2, <1>6 DEF ConnInv, Streams

\* Identifiers of released streams.
LEMMA RememberedIs ==
  ASSUME NEW q \in SeqOf(Streams, RecentlyReset), NEW s \in Streams
  PROVE  Remembered(q, s) \in SeqOf(Streams, RecentlyReset)
  <1>1. RecentlyReset \in Nat /\ RecentlyReset >= 1
    BY Http2Constants
  <1>2. PICK m \in 0..RecentlyReset : q \in [1..m -> Streams]
    BY DEF SeqOf
  <1>3. q \in Seq(Streams) /\ Len(q) = m /\ m \in Nat
    BY <1>1, <1>2
  <1>4. CASE m < RecentlyReset
    <2>1. Append(q, s) \in Seq(Streams) /\ Len(Append(q, s)) = m + 1 /\ m + 1 \in 0..RecentlyReset
      BY <1>1, <1>3, <1>4
    <2>2. Append(q, s) \in [1..m + 1 -> Streams]
      BY <2>1, LenProperties
    <2>. QED
      <3>1. Remembered(q, s) = Append(q, s)
        BY <1>3, <1>4 DEF Remembered
      <3>2. \A z : z \in [1..m + 1 -> Streams] => z \in SeqOf(Streams, RecentlyReset)
        BY <2>1 DEF SeqOf
      <3>. QED
        BY <2>2, <3>1, <3>2
  <1>5. CASE ~(m < RecentlyReset)
    <2>1. Tail(q) \in Seq(Streams) /\ Len(Tail(q)) = m - 1 /\ m = RecentlyReset
      BY <1>1, <1>3, <1>5
    <2>2. Append(Tail(q), s) \in Seq(Streams) /\ Len(Append(Tail(q), s)) = m
      BY <1>1, <1>3, <2>1
    <2>3. Append(Tail(q), s) \in [1..m -> Streams]
      BY <1>3, <2>2, LenProperties
    <2>. QED
      BY <1>1, <1>3, <1>5, <2>3 DEF SeqOf, Remembered
  <1>. QED
    BY <1>4, <1>5

\* A released stream, and what is said of it, is as before but unknown.
Released(t, u) == u = t \/ (t.known /\ t.state = "closed" /\ u = Forgotten(t))
LEMMA ReleaseOne ==
  ASSUME NEW c, NEW x, ConnInv(c, x), NEW s \in Streams
  PROVE  /\ ConnInv(ReleaseIfClosed(c, s), x)
         /\ \A r \in Streams \ {s} : ReleaseIfClosed(c, s).stream[r] = c.stream[r]
         /\ Released(c.stream[s], ReleaseIfClosed(c, s).stream[s])
  <1>1. PICK d : d = ReleaseIfClosed(c, s)
    OBVIOUS
  <1>2. PICK t : t = c.stream[s]
    OBVIOUS
  <1>3. ConnTypes(c) /\ c.stream \in [Streams -> StreamRecord] /\ t \in StreamRecord
    BY <1>2 DEF ConnInv, Base, ConnTypes
  <1>4. CASE ~(t.known /\ t.state = "closed")
    BY <1>1, <1>2, <1>4 DEF ReleaseIfClosed, Released
  <1>5. CASE t.known /\ t.state = "closed"
    <2>1. PICK u : u = Forgotten(t)
      OBVIOUS
    <2>2. u \in StreamRecord /\ ~u.known /\ u.sent = t.sent
      BY <1>3, <2>1, ForgottenIs
    <2>3. StreamInv(s, u, x)
      BY <1>2, <1>3, <1>5, <2>1, ForgetKeeps DEF ConnInv, Base
    <2>4. PICK e : e = With(c, s, u)
      OBVIOUS
    <2>5. /\ ConnTypes(e) /\ e.stream[s] = u /\ e.cwin = c.cwin
          /\ \A r \in Streams \ {s} : e.stream[r] = c.stream[r]
      <3>1. /\ ConnTypes(With(c, s, u)) /\ With(c, s, u).stream[s] = u
            /\ With(c, s, u).cwin = c.cwin
            /\ \A r \in Streams \ {s} : With(c, s, u).stream[r] = c.stream[r]
        BY ONLY <1>3, <2>2, WithIs, s \in Streams
      <3>. QED
        BY <2>4, <3>1
    <2>6. Octets(e.stream) = Octets(c.stream)
      BY <1>2, <1>3, <2>2, <2>4, WithOctets
    <2>7. Base(e, x)
      BY <2>3, <2>6, <2>5 DEF Base, ConnInv
    <2>8. PICK q : q = IF t.reset THEN Remembered(e.recent, s) ELSE e.recent
      OBVIOUS
    <2>9. d = [e EXCEPT !.recent = q]
      BY <1>1, <1>2, <1>5, <2>1, <2>4, <2>8 DEF ReleaseIfClosed
    <2>10. q \in SeqOf(Streams, RecentlyReset)
      BY <2>5, <2>8, RememberedIs DEF ConnTypes
    <2>11. e = [stream |-> e.stream, recent |-> e.recent, cwin |-> e.cwin]
      BY <2>5 DEF ConnTypes
    <2>12. d = [stream |-> e.stream, recent |-> q, cwin |-> e.cwin]
      <3>1. PICK f, p, w : f = e.stream /\ p = e.recent /\ w = e.cwin
        OBVIOUS
      <3>2. e = [stream |-> f, recent |-> p, cwin |-> w]
        BY <2>11, <3>1
      <3>3. d = [stream |-> f, recent |-> q, cwin |-> w]
        BY <2>9, <3>2
      <3>. QED
        BY <3>1, <3>3
    <2>13. ConnTypes(d) /\ d.stream = e.stream /\ d.cwin = e.cwin
      BY <2>5, <2>10, <2>12 DEF ConnTypes
    <2>14. Base(d, x)
      BY <2>7, <2>13 DEF Base
    <2>15. \A r \in Streams : Flushed(d.stream[r], d.cwin)
      BY <2>2, <2>5, <2>13 DEF Flushed, ConnInv
    <2>. QED
      BY <1>1, <1>2, <1>5, <2>1, <2>5, <2>13, <2>14, <2>15 DEF ConnInv, Released
  <1>. QED
    BY <1>4, <1>5

LEMMA ReleaseKeeps ==
  ASSUME NEW c, NEW x, ConnInv(c, x)
  PROVE  /\ ConnInv(ReleaseClosed(c), x)
         /\ \A s \in Streams : Released(c.stream[s], ReleaseClosed(c).stream[s])
  <1>1. N \in Nat /\ N >= 1
    BY Http2Constants
  <1>2. PICK g : Runs("release", c, InOrder, g) /\ ReleaseClosed(c) = g[N]
    BY OrderOfStreams, ReleaseRuns DEF ReleaseClosed
  <1>3. g[0] = c /\ \A k \in 1..N : g[k] = ReleaseIfClosed(g[k - 1], k)
    BY <1>2, OrderOfStreams DEF Runs, Op, Streams
  <1> DEFINE Good == {k \in 0..N : /\ ConnInv(g[k], x)
                                   /\ \A r \in Streams : IF r <= k
                                        THEN Released(c.stream[r], g[k].stream[r])
                                                                   ELSE g[k].stream[r] = c.stream[r]}
  <1>4. 0 \in Good
    BY <1>1, <1>3 DEF Streams
  <1>5. ASSUME NEW k \in 0..N - 1, k \in Good PROVE k + 1 \in Good
    <2>1. k + 1 \in 1..N /\ k + 1 \in 0..N /\ (k + 1) - 1 = k /\ k + 1 \in Streams /\ ~(k + 1 <= k)
      BY <1>1 DEF Streams
    <2>2. PICK a, b : a = g[k] /\ b = g[k + 1]
      OBVIOUS
    <2>3. b = ReleaseIfClosed(a, k + 1)
      BY <1>3, <2>1, <2>2
    <2>4. /\ ConnInv(a, x) /\ a.stream[k + 1] = c.stream[k + 1]
          /\ \A r \in Streams : IF r <= k THEN Released(c.stream[r], a.stream[r])
                                          ELSE a.stream[r] = c.stream[r]
      BY <1>5, <2>1, <2>2
    <2>5. /\ ConnInv(b, x) /\ Released(a.stream[k + 1], b.stream[k + 1])
          /\ \A r \in Streams \ {k + 1} : b.stream[r] = a.stream[r]
      BY <2>1, <2>3, <2>4, ReleaseOne
    <2>6. ASSUME NEW r \in Streams
          PROVE  IF r <= k + 1 THEN Released(c.stream[r], b.stream[r]) ELSE b.stream[r] = c.stream[r]
      <3>1. r \in Nat /\ k \in Nat
        BY DEF Streams
      <3>2. CASE r = k + 1
        BY <2>4, <2>5, <3>1, <3>2
      <3>3. CASE r # k + 1
        <4>1. b.stream[r] = a.stream[r] /\ (r <= k + 1 <=> r <= k)
          BY <2>5, <3>1, <3>3
        <4>. QED
          BY <2>4, <4>1
      <3>. QED
        BY <3>2, <3>3
    <2>. QED
      BY <2>1, <2>2, <2>5, <2>6
  <1>6. N \in Good
    <2> HIDE DEF Good
    <2>1. \A k \in 0..N : k \in Good
      BY <1>1, <1>4, <1>5, UpwardTo
    <2>. QED
      BY <1>1, <2>1
  <1>. QED
    BY <1>2, <1>6 DEF Streams

-----------------------------------------------------------------------------
(* One stream is worked on, the others stay as they are. *)
\* What may change around a stream without its invariant noticing.
SameFor(r, x, y) ==
  /\ y.handler[r] = x.handler[r] /\ y.producer[r] = x.producer[r]
  /\ (r \in y.opened <=> r \in x.opened) /\ (r \in y.ended <=> r \in x.ended)
  /\ x.pend.s = r \/ y.pend.s = r => y.pend = x.pend
  /\ x.lastId \in Nat /\ y.lastId \in Nat /\ x.lastId <= y.lastId
  /\ y.window = x.window /\ (y.live => x.live)

LEMMA SameForKeeps ==
  ASSUME NEW r \in Streams, NEW t, NEW x, NEW y, StreamInv(r, t, x), SameFor(r, x, y)
  PROVE  StreamInv(r, t, y)
  <1>1. r \in Nat
    BY DEF Streams
  <1>2. (x.pend.s = r <=> y.pend.s = r) /\ (y.pend.s = r => y.pend = x.pend)
    BY DEF SameFor
  <1>3. NotYetOpened(r, t, y) /\ OpenedByClient(r, t, y)
    BY <1>1 DEF SameFor, StreamInv, NotYetOpened, OpenedByClient
  <1>4. HasBeenRequested(r, t, y) /\ BodyAfterHandler(r, y)
    BY <1>2 DEF SameFor, StreamInv, HasBeenRequested, BodyAfterHandler
  <1>5. UntouchedBefore(r, t, y) /\ NoEndWhileProduced(r, t, y) /\ EndIsWhole(t)
    BY DEF SameFor, StreamInv, UntouchedBefore, NoEndWhileProduced
  <1>6. StateFits(r, t, y) /\ BlockFits(r, t, y)
    BY <1>2 DEF SameFor, StreamInv, StateFits, BlockFits
  <1>7. NotOrphaned(r, t, y)
    BY <1>2 DEF SameFor, StreamInv, NotOrphaned, Held
  <1>8. t.known => t.win = y.window + t.given - t.sent
    BY DEF SameFor, StreamInv
  <1>. QED
    BY <1>3, <1>4, <1>5, <1>6, <1>7, <1>8 DEF StreamInv

\* A connection of which one stream is being worked on.
Apart(c, s, y) ==
  /\ ConnTypes(c) /\ y.window \in Int /\ y.granted \in Int
  /\ c.cwin + Octets(c.stream) = DefaultWindow + y.granted
  /\ \A r \in Streams \ {s} : StreamInv(r, c.stream[r], y) /\ Flushed(c.stream[r], c.cwin)

LEMMA TakenApart ==
  ASSUME NEW c, NEW x, NEW y, ConnInv(c, x), NEW s \in Streams,
         y.window = x.window, y.granted = x.granted, \A r \in Streams \ {s} : SameFor(r, x, y)
  PROVE  Apart(c, s, y) /\ c.stream[s] \in StreamRecord /\ StreamInv(s, c.stream[s], x)
  <1>1. \A r \in Streams \ {s} : StreamInv(r, c.stream[r], y)
    BY SameForKeeps DEF ConnInv, Base
  <1>. QED
    BY <1>1 DEF Apart, ConnInv, Base, ConnTypes

LEMMA ApartWith ==
  ASSUME NEW c, NEW y, NEW s \in Streams, Apart(c, s, y), NEW t, t \in StreamRecord,
         t.sent = c.stream[s].sent
  PROVE  /\ Apart(With(c, s, t), s, y) /\ With(c, s, t).stream[s] = t
         /\ \A r \in Streams \ {s} : With(c, s, t).stream[r] = c.stream[r]
         /\ With(c, s, t).cwin = c.cwin
  <1>1. PICK d : d = With(c, s, t)
    OBVIOUS
  <1>2. /\ ConnTypes(d) /\ d.stream[s] = t /\ d.cwin = c.cwin
        /\ \A r \in Streams \ {s} : d.stream[r] = c.stream[r]
    <2>1. ConnTypes(c)
      BY DEF Apart
    <2>. QED
      BY <1>1, <2>1, WithIs
  <1>3. Octets(d.stream) = Octets(c.stream)
    BY <1>1, WithOctets DEF Apart
  <1>. QED
    BY <1>1, <1>2, <1>3 DEF Apart

LEMMA Together ==
  ASSUME NEW c, NEW y, NEW s \in Streams, Apart(c, s, y), StreamInv(s, c.stream[s], y),
         Flushed(c.stream[s], c.cwin)
  PROVE  ConnInv(c, y)
  <1>1. \A r \in Streams : StreamInv(r, c.stream[r], y) /\ Flushed(c.stream[r], c.cwin)
    BY DEF Apart
  <1>. QED
    BY <1>1 DEF Apart, ConnInv, Base

LEMMA FlushTogether ==
  ASSUME NEW c, NEW y, NEW s \in Streams, Apart(c, s, y), StreamInv(s, c.stream[s], y)
  PROVE  /\ ConnInv(FlushStream(c, s), y)
         /\ \A r \in Streams \ {s} : FlushStream(c, s).stream[r] = c.stream[r]
         /\ FlushStream(c, s).stream[s].answered = c.stream[s].answered
         /\ FlushStream(c, s).stream[s].known = c.stream[s].known
         /\ FlushStream(c, s).stream[s].rejected = c.stream[s].rejected
         /\ FlushStream(c, s).cwin <= c.cwin
  <1>1. Base(c, y)
    BY DEF Apart, Base
  <1>2. /\ Base(FlushStream(c, s), y)
        /\ \A r \in Streams : Flushed(FlushStream(c, s).stream[r], FlushStream(c, s).cwin)
    BY <1>1, FlushBase DEF Apart
  <1>3. PICK n, d : n = Sendable(c.stream[s], c.cwin) /\ d = FlushStream(c, s)
    OBVIOUS
  <1>4. /\ n \in Nat /\ n <= c.stream[s].out /\ n <= c.cwin
        /\ d.stream[s] = Drained(c.stream[s], n)
        /\ \A r \in Streams \ {s} : d.stream[r] = c.stream[r]
        /\ d.cwin = c.cwin - n
    BY <1>1, <1>3, FlushStreamIs DEF Base
  <1>5. c.stream[s] \in StreamRecord /\ c.cwin \in Nat
    BY Http2Constants DEF Apart, ConnTypes
  <1>6. d.stream[s].answered = c.stream[s].answered /\ d.stream[s].known = c.stream[s].known
        /\ d.stream[s].rejected = c.stream[s].rejected
    BY <1>4, <1>5, DrainedIs
  <1>7. d.cwin <= c.cwin
    BY <1>4, <1>5
  <1>. QED
    BY <1>2, <1>3, <1>4, <1>6, <1>7 DEF ConnInv

\* A step that ends with a flush of what it has queued for a stream.
Queued(t, n, last) == [t EXCEPT !.out = @ + n, !.endAfter = last]
LEMMA QueuedIs ==
  ASSUME NEW t, t \in StreamRecord, NEW n \in Nat, NEW last \in BOOLEAN, NEW u, u = Queued(t, n, last)
  PROVE  /\ u \in StreamRecord /\ u.out = t.out + n /\ u.endAfter = last
         /\ u.state = t.state /\ u.known = t.known /\ u.seen = t.seen /\ u.rejected = t.rejected
         /\ u.win = t.win /\ u.given = t.given /\ u.sent = t.sent /\ u.endSent = t.endSent
         /\ u.answered = t.answered
  <1>1. PICK a \in Nat : a = t.out + n
    BY DEF StreamRecord
  <1>2. u = [t EXCEPT !.out = a, !.endAfter = last]
    BY <1>1 DEF Queued
  <1>. QED
    BY <1>1, <1>2 DEF StreamRecord

LEMMA SendTogether ==
  ASSUME NEW c, NEW y, NEW s \in Streams, Apart(c, s, y), NEW n \in Nat, NEW last \in BOOLEAN,
         StreamInv(s, Queued(c.stream[s], n, last), y)
  PROVE  /\ ConnInv(SendData(c, s, n, last), y)
         /\ \A r \in Streams \ {s} : SendData(c, s, n, last).stream[r] = c.stream[r]
         /\ SendData(c, s, n, last).stream[s].answered = c.stream[s].answered
         /\ SendData(c, s, n, last).stream[s].known = c.stream[s].known
         /\ SendData(c, s, n, last).stream[s].rejected = c.stream[s].rejected
  <1>1. c.stream[s] \in StreamRecord
    BY DEF Apart, ConnTypes
  <1>2. PICK u : u = Queued(c.stream[s], n, last)
    OBVIOUS
  <1>3. u \in StreamRecord /\ u.sent = c.stream[s].sent /\ u.answered = c.stream[s].answered
        /\ u.known = c.stream[s].known /\ u.rejected = c.stream[s].rejected
    BY <1>1, <1>2, QueuedIs
  <1>4. PICK d : d = With(c, s, u)
    OBVIOUS
  <1>5. Apart(d, s, y) /\ d.stream[s] = u /\ \A r \in Streams \ {s} : d.stream[r] = c.stream[r]
    BY <1>3, <1>4, ApartWith
  <1>6. SendData(c, s, n, last) = FlushStream(d, s)
    BY <1>2, <1>4 DEF SendData, Queued
  <1>. QED
    BY <1>2, <1>3, <1>5, <1>6, FlushTogether

\* A stream that is known may be reset whatever goes on.
LEMMA ResetIs ==
  ASSUME NEW t, t \in StreamRecord, NEW u, u = Reset(t)
  PROVE  /\ u \in StreamRecord /\ u.state = "closed"
         /\ u.known = t.known /\ u.seen = t.seen /\ u.rejected = t.rejected /\ u.out = t.out
         /\ u.win = t.win /\ u.given = t.given /\ u.sent = t.sent /\ u.endSent = t.endSent
         /\ u.endAfter = t.endAfter /\ u.answered = t.answered
  BY DEF Reset, StreamRecord

\* What is left to say of a stream that is closed, and of one that is refused.
Closed(s, t, x) ==
  /\ t.state = "closed" /\ t.known => s \in x.opened /\ s <= x.lastId
  /\ s <= x.lastId /\ x.lastId \in Nat
  /\ HasBeenRequested(s, t, x) /\ BodyAfterHandler(s, x) /\ UntouchedBefore(s, t, x)
  /\ NoEndWhileProduced(s, t, x) /\ EndIsWhole(t) /\ BlockFits(s, t, x)
  /\ t.known => t.win = x.window + t.given - t.sent

LEMMA ClosedIsFine ==
  ASSUME NEW s \in Streams, NEW t, t.state = "closed", NEW x, Closed(s, t, x)
  PROVE  StreamInv(s, t, x)
  <1>1. s \in Nat /\ ~(s > x.lastId)
    BY DEF Streams, Closed
  <1>. QED
    BY <1>1 DEF Closed, StreamInv, NotYetOpened, OpenedByClient, StateFits, NotOrphaned

LEMMA ResetKeeps ==
  ASSUME NEW s \in Streams, NEW t, t \in StreamRecord, t.known, NEW x, StreamInv(s, t, x),
         x.lastId \in Nat
  PROVE  StreamInv(s, Reset(t), x)
  <1>1. PICK u : u = Reset(t)
    OBVIOUS
  <1>2. /\ u \in StreamRecord /\ u.state = "closed"
         /\ u.known = t.known /\ u.seen = t.seen /\ u.rejected = t.rejected /\ u.out = t.out
         /\ u.win = t.win /\ u.given = t.given /\ u.sent = t.sent /\ u.endSent = t.endSent
         /\ u.endAfter = t.endAfter /\ u.answered = t.answered
    BY <1>1, ResetIs
  <1>3. Closed(s, u, x)
    BY <1>2 DEF Closed, StreamInv, OpenedByClient, HasBeenRequested, UntouchedBefore,
       NoEndWhileProduced, EndIsWhole, BlockFits
  <1>. QED
    BY <1>1, <1>2, <1>3, ClosedIsFine

\* An early refusal queues its answer, and resets the stream once it is out.
Refusing(t) == [t EXCEPT !.rejected = TRUE, !.body = 0, !.answered = @ + 1]
LEMMA RefusingIs ==
  ASSUME NEW t, t \in StreamRecord, NEW u, u = Refusing(t)
  PROVE  /\ u \in StreamRecord /\ u.rejected /\ u.out = t.out /\ u.endAfter = t.endAfter
         /\ u.state = t.state /\ u.known = t.known /\ u.seen = t.seen
         /\ u.win = t.win /\ u.given = t.given /\ u.sent = t.sent /\ u.endSent = t.endSent
  <1>1. PICK a \in Nat : a = t.answered + 1
    BY DEF StreamRecord
  <1>2. 0 \in 0..MaxBody
    BY Http2Constants
  <1>3. u = [t EXCEPT !.rejected = TRUE, !.body = 0, !.answered = a]
    BY <1>1 DEF Refusing
  <1>. QED
    BY <1>2, <1>3 DEF StreamRecord

LEMMA RefuseTogether ==
  ASSUME NEW c, NEW y, NEW s \in Streams, Apart(c, s, y), c.stream[s].known, y.lastId \in Nat,
         StreamInv(s, Refusing(c.stream[s]), y)
  PROVE  /\ ConnInv(RefuseEarly(c, s), y)
         /\ \A r \in Streams \ {s} : RefuseEarly(c, s).stream[r] = c.stream[r]
  <1>1. PICK t : t = c.stream[s] /\ t \in StreamRecord
    BY DEF Apart, ConnTypes
  <1>2. PICK v : v = Refusing(t)
    OBVIOUS
  <1>3. /\ v \in StreamRecord /\ v.rejected /\ v.known /\ v.sent = t.sent
    BY <1>1, <1>2, RefusingIs
  <1>4. PICK b : b = With(c, s, v)
    OBVIOUS
  <1>5. Apart(b, s, y) /\ b.stream[s] = v /\ \A r \in Streams \ {s} : b.stream[r] = c.stream[r]
    BY <1>1, <1>3, <1>4, ApartWith
  <1>6. PICK k \in Nat, last \in BOOLEAN : k = RefusalSize /\ last = TRUE
    BY DEF RefusalSize
  <1>7. PICK w : w = Queued(v, k, last)
    OBVIOUS
  <1>8. /\ w \in StreamRecord
         /\ w.state = v.state /\ w.known = v.known /\ w.seen = v.seen /\ w.rejected = v.rejected
         /\ w.win = v.win /\ w.given = v.given /\ w.sent = v.sent /\ w.endSent = v.endSent
    <2>1. v \in StreamRecord /\ k \in Nat /\ last \in BOOLEAN
      BY <1>3
    <2>. QED
      BY ONLY <1>7, <2>1, QueuedIs
  <1>9. StreamInv(s, w, y)
    <2>1. StreamInv(s, v, y)
      BY <1>1, <1>2
    <2>. QED
      BY <1>3, <1>8, <2>1 DEF StreamInv, NotYetOpened, OpenedByClient, HasBeenRequested,
         BodyAfterHandler, UntouchedBefore, NoEndWhileProduced, EndIsWhole, StateFits, BlockFits,
         NotOrphaned
  <1>10. PICK d : d = SendData(b, s, RefusalSize, TRUE)
    OBVIOUS
  <1>11. /\ ConnInv(d, y) /\ d.stream[s].known
         /\ \A r \in Streams \ {s} : d.stream[r] = c.stream[r]
    <2>1. d = SendData(b, s, k, last) /\ StreamInv(s, Queued(b.stream[s], k, last), y)
      BY <1>5, <1>6, <1>9, <1>10, <1>7
    <2>. QED
      BY <1>3, <1>5, <2>1, SendTogether
  <1>12. RefuseEarly(c, s) = IF d.stream[s].state # "closed" /\ d.stream[s].out = 0
                               THEN With(d, s, Reset(d.stream[s])) ELSE d
    BY <1>1, <1>2, <1>4, <1>10 DEF RefuseEarly, Refusing
  <1>13. PICK e : e = With(d, s, Reset(d.stream[s]))
    OBVIOUS
  <1>14. ConnInv(e, y) /\ \A r \in Streams \ {s} : e.stream[r] = d.stream[r]
    <2>1. d.stream[s] \in StreamRecord /\ StreamInv(s, d.stream[s], y) /\ Apart(d, s, y)
      BY <1>11 DEF ConnInv, Base, ConnTypes, Apart
    <2>2. PICK u : u = Reset(d.stream[s])
      OBVIOUS
    <2>3. u \in StreamRecord /\ u.state = "closed" /\ u.sent = d.stream[s].sent
      BY <2>1, <2>2, ResetIs
    <2>4. StreamInv(s, u, y)
      BY <1>11, <2>1, <2>2, ResetKeeps
    <2>5. Apart(e, s, y) /\ e.stream[s] = u /\ \A r \in Streams \ {s} : e.stream[r] = d.stream[r]
      BY <1>13, <2>1, <2>2, <2>3, ApartWith
    <2>6. Flushed(u, e.cwin)
      BY <2>3 DEF Flushed
    <2>. QED
      BY <2>4, <2>5, <2>6, Together
  <1>. QED
    BY <1>11, <1>12, <1>13, <1>14

-----------------------------------------------------------------------------
(* A header block: what it makes of its stream. *)
\* What a step passes on answers no stream that is closed.
Quiet(c, d) ==
  \A r \in Streams : c.stream[r].state = "closed" => d.stream[r].answered = c.stream[r].answered

LEMMA Settled ==
  ASSUME NEW d, Settle(d), ConnInv(d, Others'), Quiet(Conn, d)
  PROVE  ConnInv(Conn', Others') /\ NoAnswerAfterClose
  <1>1. PICK y : y = Others'
    OBVIOUS
  <1>2. PICK e : e = ReleaseClosed(d)
    OBVIOUS
  <1>3. ConnInv(e, y) /\ \A s \in Streams : Released(d.stream[s], e.stream[s])
    BY <1>1, <1>2, ReleaseKeeps
  <1>4. stream' = e.stream /\ recent' = e.recent /\ cwin' = e.cwin
    BY <1>2 DEF Settle, Become
  <1>5. e = [stream |-> e.stream, recent |-> e.recent, cwin |-> e.cwin]
    BY <1>3 DEF ConnInv, Base, ConnTypes
  <1>6. Conn' = e
    BY <1>4, <1>5 DEF Conn
  <1>7. ASSUME NEW s \in Streams, stream[s].state = "closed"
        PROVE stream'[s].answered = stream[s].answered
    <2>1. d.stream[s].answered = stream[s].answered
      BY <1>7 DEF Quiet, Conn
    <2>2. d.stream[s] \in StreamRecord
      <3>1. ConnTypes(d)
        BY DEF ConnInv, Base
      <3>. QED
        BY <3>1 DEF ConnTypes
    <2>3. e.stream[s].answered = d.stream[s].answered
      BY <1>3, <2>2, ForgottenIs DEF Released
    <2>. QED
      BY <1>4, <2>1, <2>3
  <1>. QED
    BY <1>1, <1>3, <1>6, <1>7 DEF NoAnswerAfterClose

LEMMA Became ==
  ASSUME NEW d, Become(d), ConnInv(d, Others'), Quiet(Conn, d)
  PROVE  ConnInv(Conn', Others') /\ NoAnswerAfterClose
  <1>1. d = [stream |-> d.stream, recent |-> d.recent, cwin |-> d.cwin]
    BY DEF ConnInv, Base, ConnTypes
  <1>2. Conn' = d /\ stream' = d.stream
    BY <1>1 DEF Conn, Become
  <1>. QED
    BY <1>2 DEF NoAnswerAfterClose, Quiet, Conn

\* The end of the client's side, and the beginning of a stream.
LEMMA EndRemoteIs ==
  ASSUME NEW t, t \in StreamRecord, NEW u, u = EndRemote(t)
  PROVE  /\ u \in StreamRecord
         /\ u.state = (IF t.state = "open" THEN "remote" ELSE IF t.state = "local" THEN "closed" ELSE t.state)
         /\ u.known = t.known /\ u.seen = t.seen /\ u.rejected = t.rejected /\ u.out = t.out
         /\ u.win = t.win /\ u.given = t.given /\ u.sent = t.sent /\ u.endSent = t.endSent
         /\ u.endAfter = t.endAfter /\ u.answered = t.answered
  <1>1. PICK st : st = IF t.state = "open" THEN "remote"
          ELSE IF t.state = "local" THEN "closed" ELSE t.state
    OBVIOUS
  <1>2. u = [t EXCEPT !.state = st]
    BY <1>1 DEF EndRemote
  <1>3. st \in {"idle", "open", "remote", "local", "closed"}
    BY <1>1 DEF StreamRecord
  <1>. QED
    BY <1>1, <1>2, <1>3 DEF StreamRecord

Opening(t, end, seen) == OpenRemote([t EXCEPT !.seen = seen], end)
LEMMA OpeningIs ==
  ASSUME NEW t, t \in StreamRecord, NEW end \in BOOLEAN, NEW seen \in BOOLEAN, NEW u,
         u = Opening(t, end, seen)
  PROVE  /\ u \in StreamRecord
         /\ end => u.state = "remote"
         /\ ~end => u.state = "open"
         /\ u.seen = seen
         /\ u.known = t.known /\ u.rejected = t.rejected /\ u.out = t.out
         /\ u.win = t.win /\ u.given = t.given /\ u.sent = t.sent /\ u.endSent = t.endSent
         /\ u.endAfter = t.endAfter /\ u.answered = t.answered
  <1>1. PICK st : st = IF end THEN "remote" ELSE "open"
    OBVIOUS
  <1>2. u = [t EXCEPT !.seen = seen, !.state = st]
    BY <1>1 DEF Opening, OpenRemote, StreamRecord
  <1>3. st \in {"idle", "open", "remote", "local", "closed"}
    BY <1>1
  <1>. QED
    BY <1>1, <1>2, <1>3 DEF StreamRecord

\* Windows and output alone say what can go out.
LEMMA SameOutput ==
  ASSUME NEW t, NEW u, NEW room, u.out = t.out, u.win = t.win, Flushed(t, room), t.known,
         t.state # "closed"
  PROVE  Flushed(u, room)
  BY DEF Flushed, Sendable

\* A request that is whole goes to a handler, or its stream is reset.
LEMMA DispatchKeeps ==
  ASSUME NEW c, NEW y, NEW s \in Streams, NEW valid \in BOOLEAN, Apart(c, s, y), y.lastId \in Nat,
         NEW t, t = c.stream[s], t.known, Flushed(t, c.cwin),
         StreamInv(s, t, y) \/ (~valid /\ StreamInv(s, Reset(t), y)),
         Dispatch(c, s, valid)
  PROVE  \E d : /\ Settle(d) /\ ConnInv(d, y)
                /\ \A r \in Streams \ {s} : d.stream[r] = c.stream[r]
  <1>1. CASE valid
    BY <1>1, Together DEF Dispatch
  <1>2. CASE ~valid
    <2>1. PICK u, d : u = Reset(t) /\ d = With(c, s, u)
      OBVIOUS
    <2>2. t \in StreamRecord
      BY DEF Apart, ConnTypes
    <2>3. u \in StreamRecord /\ u.state = "closed" /\ u.sent = t.sent
      BY <2>1, <2>2, ResetIs
    <2>4. StreamInv(s, u, y)
      BY <1>2, <2>1, <2>2, ResetKeeps
    <2>5. /\ Apart(d, s, y) /\ d.stream[s] = u
          /\ \A r \in Streams \ {s} : d.stream[r] = c.stream[r]
      BY <2>1, <2>3, ApartWith
    <2>6. ConnInv(d, y)
      BY <2>3, <2>4, <2>5, Together DEF Flushed
    <2>7. Settle(d)
      BY <1>2, <2>1 DEF Dispatch
    <2>. QED
      BY <2>5, <2>6, <2>7
  <1>. QED
    BY <1>1, <1>2

\* A stream that no handler has, or whose handler has just been asked for.
Begun(s, u, y) ==
  /\ s > y.lastId => ~u.known /\ ~u.rejected /\ u.state # "closed" /\ u.sent = 0
                     /\ y.handler[s] = "none"
  /\ u.known => /\ s \in y.opened /\ s <= y.lastId
                /\ u.win = y.window + u.given - u.sent
                /\ u.state # "idle"
                /\ u.rejected \/ u.state # "local"
                /\ \/ u.state = "closed" \/ u.rejected \/ s \notin y.ended
                   \/ u.state = "remote" /\ y.handler[s] = "queued"
  /\ y.pend.s # s /\ y.producer[s] = "none"
  /\ u.rejected \/ (u.out = 0 /\ ~u.endAfter /\ ~u.endSent)
  /\ \/ y.handler[s] = "none"
     \/ y.handler[s] = "queued" /\ s \in y.ended /\ u.known

LEMMA BegunIsFine ==
  ASSUME NEW s \in Streams, NEW u, NEW y, Begun(s, u, y)
  PROVE  StreamInv(s, u, y)
  <1>1. NotYetOpened(s, u, y) /\ OpenedByClient(s, u, y)
    BY DEF Begun, NotYetOpened, OpenedByClient
  <1>2. HasBeenRequested(s, u, y) /\ BodyAfterHandler(s, y)
    BY DEF Begun, HasBeenRequested, BodyAfterHandler, Alive
  <1>3. UntouchedBefore(s, u, y) /\ NoEndWhileProduced(s, u, y) /\ EndIsWhole(u)
    BY DEF Begun, UntouchedBefore, NoEndWhileProduced, EndIsWhole
  <1>4. StateFits(s, u, y) /\ BlockFits(s, u, y)
    BY DEF Begun, StateFits, BlockFits
  <1>5. NotOrphaned(s, u, y)
    BY DEF Begun, NotOrphaned, Held
  <1>. QED
    BY <1>1, <1>2, <1>3, <1>4, <1>5 DEF StreamInv, Begun

\* What the header blocks, DATA and resets leave of a stream alone.
Alike(t, u) ==
  /\ u \in StreamRecord
  /\ u.known = t.known /\ u.rejected = t.rejected /\ u.out = t.out
  /\ u.win = t.win /\ u.given = t.given /\ u.sent = t.sent /\ u.endSent = t.endSent
  /\ u.endAfter = t.endAfter /\ u.answered = t.answered

LEMMA BeganAlike ==
  ASSUME NEW t, t \in StreamRecord, NEW end \in BOOLEAN, NEW seen \in BOOLEAN, NEW u,
         u = Opening(t, end, seen)
  PROVE  Alike(t, u) /\ (end => u.state = "remote") /\ (~end => u.state = "open")
  BY OpeningIs DEF Alike

\* What a stream is when nothing has been asked of its handler.
Unasked(s, t, x) ==
  /\ x.handler[s] = "none" /\ x.producer[s] = "none"
  /\ s > x.lastId => ~t.known /\ ~t.rejected /\ t.state # "closed" /\ t.sent = 0
  /\ t.known => /\ s \in x.opened /\ s <= x.lastId
                /\ t.win = x.window + t.given - t.sent
                /\ t.rejected \/ t.state # "local"
  /\ t.rejected \/ (t.out = 0 /\ ~t.endAfter /\ ~t.endSent)

LEMMA UnaskedIs ==
  ASSUME NEW s \in Streams, NEW t, NEW x, StreamInv(s, t, x), x.handler[s] = "none"
  PROVE  Unasked(s, t, x)
  BY DEF StreamInv, Unasked, NotYetOpened, OpenedByClient, BodyAfterHandler, UntouchedBefore, StateFits

\* The other fields of what the properties look at.
Elsewhere(x, y) ==
  /\ y.producer = x.producer /\ y.opened = x.opened /\ y.ended = x.ended /\ y.lastId = x.lastId
  /\ y.window = x.window /\ (y.live => x.live) /\ y.granted = x.granted

LEMMA FinishKeeps ==
  ASSUME NEW s \in Streams, NEW end \in BOOLEAN, NEW request \in BOOLEAN, NEW kind,
         NEW valid \in BOOLEAN,
         NEW c, NEW x, ConnInv(c, x), x.lastId \in Nat, x.handler = handler,
         x.pend = [s |-> s, end |-> end, request |-> request],
         handler \in HandlersOfStreams,
         NEW y, Elsewhere(x, y), y.handler = handler', y.pend = NoBlock,
         FinishHeaderBlock(c, s, end, request, kind, valid)
  PROVE  /\ \E d : Settle(d) /\ ConnInv(d, y) /\ Quiet(c, d)
         /\ handler' = handler \/ handler' = [handler EXCEPT ![s] = "queued"]
  <1>1. handler' = handler \/ handler' = [handler EXCEPT ![s] = "queued"]
    BY DEF FinishHeaderBlock, Dispatch
  <1>2. \A r \in Streams \ {s} : SameFor(r, x, y)
    <2>1. \A r \in Streams \ {s} : handler'[r] = handler[r]
      BY <1>1 DEF HandlersOfStreams
    <2>2. \A r \in Streams \ {s} : x.pend.s # r /\ y.pend.s # r
      BY DEF NoBlock, None, Streams
    <2>3. y.lastId \in Nat /\ x.lastId <= y.lastId
      BY DEF Elsewhere
    <2>. QED
      BY <2>1, <2>2, <2>3 DEF SameFor, Elsewhere
  <1>3. PICK t : t = c.stream[s]
    OBVIOUS
  <1>4. Apart(c, s, y) /\ t \in StreamRecord /\ StreamInv(s, t, x)
    BY <1>2, <1>3, TakenApart DEF Elsewhere
  <1>5. Flushed(t, c.cwin)
    BY <1>3 DEF ConnInv
  <1>6. /\ s \in x.opened /\ (end <=> s \in x.ended)
        /\ t.known /\ request => ~t.seen
        /\ request \/ end
    BY <1>4 DEF StreamInv, BlockFits
  <1>7. x.handler[s] = "none"
    BY <1>4 DEF StreamInv, HasBeenRequested
  <1>8. Unasked(s, t, x)
    BY <1>4, <1>7, UnaskedIs
  <1>9. y.lastId \in Nat /\ y.pend.s # s
    BY DEF Elsewhere, NoBlock, None, Streams
  <1>10. t.known /\ t.state = "idle" => ~t.seen
    BY <1>4 DEF StreamInv, StateFits
  <1>11. ASSUME NEW u, Alike(t, u), Flushed(u, c.cwin), t.known, t.state # "closed",
                u.state = "remote" \/ u.state = "closed" \/ (u.rejected /\ u.state # "idle"),
                s \in x.ended, NEW v \in BOOLEAN, Dispatch(With(c, s, u), s, v)
         PROVE  \E d : Settle(d) /\ ConnInv(d, y) /\ Quiet(c, d)
    <2>1. PICK b : b = With(c, s, u)
      OBVIOUS
    <2>2. /\ Apart(b, s, y) /\ b.stream[s] = u /\ b.cwin = c.cwin
          /\ \A r \in Streams \ {s} : b.stream[r] = c.stream[r]
      BY <1>3, <1>4, <1>11, <2>1, ApartWith DEF Alike
    <2>3. handler' = IF v THEN [handler EXCEPT ![s] = "queued"] ELSE handler
      BY <1>11 DEF Dispatch
    <2>4. CASE v
      <3>1. y.handler[s] = "queued"
        BY <2>3, <2>4 DEF HandlersOfStreams
      <3>2. Begun(s, u, y)
        BY <1>8, <1>9, <1>11, <3>1 DEF Begun, Unasked, Alike, Elsewhere
      <3>3. StreamInv(s, u, y)
        BY <3>2, BegunIsFine
      <3>4. /\ u = b.stream[s] /\ u.known /\ Flushed(u, b.cwin) /\ StreamInv(s, u, y) /\ v \in BOOLEAN
            /\ Dispatch(b, s, v)
        BY <1>11, <2>1, <2>2, <3>3 DEF Alike
      <3>5. \E d : /\ Settle(d) /\ ConnInv(d, y)
                   /\ \A r \in Streams \ {s} : d.stream[r] = b.stream[r]
        BY ONLY <1>9, <2>2, <3>4, s \in Streams, DispatchKeeps
      <3>. QED
        BY <1>3, <1>11, <2>2, <3>5 DEF Quiet
    <2>5. CASE ~v
      <3>1. PICK z : z = Reset(u)
        OBVIOUS
      <3>2. Alike(u, z) /\ z.state = "closed"
        BY <1>11, <3>1, ResetIs DEF Alike
      <3>3. y.handler[s] = "none"
        BY <1>7, <2>3, <2>5
      <3>4. Begun(s, z, y)
        BY <1>8, <1>9, <1>11, <3>2, <3>3 DEF Begun, Unasked, Alike, Elsewhere
      <3>5. StreamInv(s, z, y)
        BY <3>4, BegunIsFine
      <3>6. /\ u = b.stream[s] /\ u.known /\ Flushed(u, b.cwin) /\ StreamInv(s, Reset(u), y)
                 /\ ~v /\ v \in BOOLEAN
            /\ Dispatch(b, s, v)
        BY <1>11, <2>1, <2>2, <2>5, <3>1, <3>5 DEF Alike
      <3>7. \E d : /\ Settle(d) /\ ConnInv(d, y)
                   /\ \A r \in Streams \ {s} : d.stream[r] = b.stream[r]
        BY ONLY <1>9, <2>2, <3>6, s \in Streams, DispatchKeeps
      <3>. QED
        BY <1>3, <1>11, <2>2, <3>7 DEF Quiet
    <2>. QED
      BY <2>4, <2>5
  <1>12. ASSUME NEW b, Apart(b, s, y), Alike(t, b.stream[s]), t.known, t.state # "closed",
           b.stream[s].state # "idle",
                \A r \in Streams \ {s} : b.stream[r] = c.stream[r], handler' = handler
         PROVE  ConnInv(RefuseEarly(b, s), y) /\ Quiet(c, RefuseEarly(b, s))
    <2>1. PICK u, v : u = b.stream[s] /\ v = Refusing(u)
      OBVIOUS
    <2>2. /\ v \in StreamRecord /\ v.rejected /\ v.out = u.out /\ v.endAfter = u.endAfter
          /\ v.state = u.state /\ v.known = u.known /\ v.seen = u.seen
          /\ v.win = u.win /\ v.given = u.given /\ v.sent = u.sent /\ v.endSent = u.endSent
      BY <1>12, <2>1, RefusingIs DEF Alike
    <2>3. Begun(s, v, y)
      BY <1>7, <1>8, <1>9, <1>12, <2>1, <2>2 DEF Begun, Unasked, Alike, Elsewhere
    <2>4. StreamInv(s, v, y) /\ u.known
      BY <1>12, <2>1, <2>3, BegunIsFine DEF Alike
    <2>5. /\ ConnInv(RefuseEarly(b, s), y)
          /\ \A r \in Streams \ {s} : RefuseEarly(b, s).stream[r] = b.stream[r]
      BY <1>9, <1>12, <2>1, <2>4, RefuseTogether
    <2>. QED
      BY <1>3, <1>12, <2>5 DEF Quiet
  <1>13. CASE ~t.known \/ t.state = "closed"
    <2>1. Settle(c) /\ handler' = handler
      BY <1>3, <1>13 DEF FinishHeaderBlock
    <2>2. Begun(s, t, y)
      BY <1>7, <1>8, <1>9, <1>13, <2>1 DEF Begun, Unasked, Elsewhere
    <2>3. ConnInv(c, y)
      BY <1>3, <1>4, <1>5, <2>2, BegunIsFine, Together
    <2>. QED
      BY <1>1, <2>1, <2>3 DEF Quiet
  <1>14. CASE t.known /\ t.state # "closed"
    <2>1. PICK seen \in BOOLEAN : seen = (kind # "large")
      OBVIOUS
    <2>2. PICK u : u = Opening(t, end, seen)
      OBVIOUS
    <2>3. Alike(t, u) /\ (end => u.state = "remote") /\ (~end => u.state = "open")
      BY <1>4, <2>2, BeganAlike
    <2>4. Flushed(u, c.cwin)
      BY <1>5, <1>14, <2>3, SameOutput DEF Alike
    <2>5. PICK b : b = With(c, s, u)
      OBVIOUS
    <2>6. /\ Apart(b, s, y) /\ b.stream[s] = u /\ b.cwin = c.cwin
          /\ \A r \in Streams \ {s} : b.stream[r] = c.stream[r]
      BY <1>3, <1>4, <2>3, <2>5, ApartWith DEF Alike
    <2>7. b = With(c, s, OpenRemote([t EXCEPT !.seen = kind # "large"], end))
      BY <2>1, <2>2, <2>5 DEF Opening
    <2>8. Alike(t, t)
      BY <1>4 DEF Alike
    <2>9. CASE kind = "large"
      <3>1. /\ Settle(RefuseEarly(IF t.seen THEN c ELSE b, s)) /\ handler' = handler
        BY <1>3, <1>14, <2>7, <2>9 DEF FinishHeaderBlock
      <3>2. CASE t.seen
        <4>1. ConnInv(RefuseEarly(c, s), y) /\ Quiet(c, RefuseEarly(c, s))
          BY <1>3, <1>4, <1>10, <1>12, <1>14, <2>8, <3>1, <3>2
        <4>. QED
          BY <1>1, <3>1, <3>2, <4>1
      <3>3. CASE ~t.seen
        <4>1. ConnInv(RefuseEarly(b, s), y) /\ Quiet(c, RefuseEarly(b, s))
          BY <1>12, <1>14, <2>3, <2>6, <3>1
        <4>. QED
          BY <1>1, <3>1, <3>3, <4>1
      <3>. QED
        BY <3>2, <3>3
    <2>10. CASE kind # "large" /\ t.seen
      <3>1. PICK v : v = EndRemote(t)
        OBVIOUS
      <3>2. /\ Alike(t, v)
            /\ v.state = (IF t.state = "open" THEN "remote" ELSE IF t.state = "local" THEN "closed" ELSE t.state)
        BY <1>4, <3>1, EndRemoteIs DEF Alike
      <3>3. Flushed(v, c.cwin)
        BY <1>5, <1>14, <3>2, SameOutput DEF Alike
      <3>4. Dispatch(With(c, s, v), s, valid)
        BY <1>3, <1>14, <2>10, <3>1 DEF FinishHeaderBlock
      <3>5. s \in x.ended
        BY <1>6, <1>14, <2>10
      <3>6. v.state = "remote" \/ v.state = "closed" \/ (v.rejected /\ v.state # "idle")
        BY <1>4, <1>8, <1>10, <1>14, <2>10, <3>2 DEF Alike, Unasked, StreamRecord
      <3>. QED
        BY <1>1, <1>11, <1>14, <3>2, <3>3, <3>4, <3>5, <3>6
    <2>11. CASE kind # "large" /\ ~t.seen /\ end
      <3>1. PICK v \in BOOLEAN : v = (valid /\ request)
        OBVIOUS
      <3>2. Dispatch(With(c, s, u), s, v)
        BY <1>3, <1>14, <2>5, <2>7, <2>11, <3>1 DEF FinishHeaderBlock
      <3>3. s \in x.ended /\ u.state = "remote"
        BY <1>6, <2>3, <2>11
      <3>. QED
        BY <1>1, <1>11, <1>14, <2>3, <2>4, <3>2, <3>3
    <2>12. CASE kind # "large" /\ ~t.seen /\ ~end
      <3>1. /\ Settle(IF kind = "declaresMore" THEN RefuseEarly(b, s) ELSE b)
            /\ handler' = handler
        BY <1>3, <1>14, <2>7, <2>12 DEF FinishHeaderBlock
      <3>2. ConnInv(RefuseEarly(b, s), y) /\ Quiet(c, RefuseEarly(b, s))
        BY <1>12, <1>14, <2>3, <2>6, <3>1
      <3>3. s \notin x.ended /\ u.state = "open"
        BY <1>6, <2>3, <2>12
      <3>4. Begun(s, u, y)
        BY <1>7, <1>8, <1>9, <1>14, <2>3, <3>1, <3>3 DEF Begun, Unasked, Alike, Elsewhere
      <3>5. ConnInv(b, y)
        BY <2>4, <2>6, <3>4, BegunIsFine, Together
      <3>6. Quiet(c, b)
        BY <1>3, <1>14, <2>6 DEF Quiet
      <3>. QED
        BY <1>1, <3>1, <3>2, <3>5, <3>6
    <2>. QED
      BY <2>9, <2>10, <2>11, <2>12
  <1>. QED
    BY <1>13, <1>14

Standing == H2Types /\ ConnInv(Conn, Others) /\ LoopInv2
Preserved == H2Types' /\ ConnInv(Conn', Others') /\ LoopInv2' /\ NoAnswerAfterClose

LEMMA ConnIs ==
  /\ Conn.stream = stream /\ Conn.recent = recent /\ Conn.cwin = cwin
  /\ Others.handler = handler /\ Others.producer = producer /\ Others.opened = opened
  /\ Others.ended = ended /\ Others.pend = pend /\ Others.lastId = lastId
  /\ Others.window = peerInit /\ Others.live = (serve \in InLoop /\ up) /\ Others.granted = granted
  BY DEF Conn, Others

LEMMA OthersNext ==
  /\ Others'.handler = handler' /\ Others'.producer = producer' /\ Others'.opened = opened'
  /\ Others'.ended = ended' /\ Others'.pend = pend' /\ Others'.lastId = lastId'
  /\ Others'.window = peerInit' /\ Others'.live = (serve' \in InLoop /\ up')
  /\ Others'.granted = granted'
  BY DEF Others

\* What a header block finds: the step has told the rest already.
Found(b) ==
  [handler |-> handler, producer |-> producer', opened |-> opened', ended |-> ended', pend |-> b,
   lastId |-> lastId', window |-> peerInit', live |-> (serve' \in InLoop /\ up'),
   granted |-> granted']

LEMMA HeaderBlockKeeps ==
  ASSUME NEW s \in Streams, NEW end \in BOOLEAN, NEW request \in BOOLEAN, NEW whole \in BOOLEAN,
         NEW kind, NEW valid \in BOOLEAN,
         handler \in HandlersOfStreams,
         NEW c, NEW x, ConnInv(c, x), lastId' \in Nat,
         \A r \in Streams : stream[r].state = "closed" => c.stream[r] = stream[r],
         x = Found([s |-> s, end |-> end, request |-> request]),
         HeaderBlock(c, s, end, request, whole, kind, valid)
  PROVE  /\ ConnInv(Conn', Others') /\ NoAnswerAfterClose
         /\ handler' \in HandlersOfStreams
         /\ pend' = NoBlock \/ pend' = [s |-> s, end |-> end, request |-> request]
  <1>1. CASE ~whole
    <2>1. /\ pend' = [s |-> s, end |-> end, request |-> request] /\ Settle(c)
          /\ handler' = handler
      BY <1>1 DEF HeaderBlock
    <2>2. Others' = x
      BY <2>1 DEF Others, Found
    <2>3. Quiet(Conn, c)
      BY ConnIs DEF Quiet
    <2>4. ConnInv(Conn', Others') /\ NoAnswerAfterClose
      BY <2>1, <2>2, <2>3, Settled
    <2>. QED
      BY <2>1, <2>4
  <1>2. CASE whole
    <2>1. pend' = NoBlock /\ FinishHeaderBlock(c, s, end, request, kind, valid)
      BY <1>2 DEF HeaderBlock
    <2>2. PICK y : y = Others'
      OBVIOUS
    <2>3. Elsewhere(x, y) /\ y.handler = handler' /\ y.pend = NoBlock
      BY <2>1, <2>2, OthersNext DEF Elsewhere, Found
    <2>4. /\ x.lastId \in Nat /\ x.handler = handler
          /\ x.pend = [s |-> s, end |-> end, request |-> request]
      BY DEF Found
    <2>5. /\ \E d : Settle(d) /\ ConnInv(d, y) /\ Quiet(c, d)
          /\ handler' = handler \/ handler' = [handler EXCEPT ![s] = "queued"]
      BY <2>1, <2>3, <2>4, FinishKeeps
    <2>6. PICK d : Settle(d) /\ ConnInv(d, y) /\ Quiet(c, d)
      BY <2>5
    <2>7. Quiet(Conn, d)
      BY <2>6, ConnIs DEF Quiet
    <2>8. ConnInv(Conn', Others') /\ NoAnswerAfterClose
      BY <2>2, <2>6, <2>7, Settled
    <2>. QED
      BY <2>1, <2>5, <2>8 DEF HandlersOfStreams
  <1>. QED
    BY <1>1, <1>2

LEMMA NewStreamIs ==
  ASSUME NEW w \in 0..MaxWindow
  PROVE  NewStream(w) \in StreamRecord
  <1>1. 0 \in 0..MaxBody /\ w \in Int /\ 0 \in Nat
    BY Http2Constants
  <1>. QED
    BY <1>1 DEF NewStream, StreamRecord

\* HEADERS: what the block finds before it is read.
LEMMA BlockBegins ==
  ASSUME NEW s \in Streams, NEW end \in BOOLEAN, NEW request \in BOOLEAN, Standing, pend = NoBlock,
         request => \A o \in opened : o < s,
         ~request => s \in opened \ ended /\ end,
         NEW x, x.handler = handler, x.producer = producer, x.opened = opened \cup {s},
         x.ended = (IF end THEN ended \cup {s} ELSE ended),
         x.pend = [s |-> s, end |-> end, request |-> request],
         x.window = peerInit, x.live = (serve \in InLoop /\ up), x.granted = granted,
         NEW c,
         \/ c = Conn /\ x.lastId = lastId /\ (stream[s].known \/ s <= lastId)
         \/ /\ ~stream[s].known /\ s > lastId /\ x.lastId = s
            /\ c = With(Conn, s, NewStream(peerInit))
  PROVE  /\ ConnInv(c, x) /\ \A r \in Streams : stream[r].state = "closed" => c.stream[r] = stream[r]
         /\ x.ended \subseteq x.opened /\ x.opened \subseteq Streams
  <1>1. s \in Nat /\ s # None /\ lastId \in Nat /\ opened \subseteq Streams /\ ended \subseteq opened
    <2>1. lastId \in 0..N /\ opened \subseteq Streams /\ ended \subseteq opened
      BY DEF Standing, H2Types
    <2>. QED
      BY <2>1, Http2Constants DEF Streams, None
  <1>2. \A r \in Streams \ {s} : SameFor(r, Others, x)
    <2>1. \A r \in Streams \ {s} : /\ r \in x.opened <=> r \in opened
                                   /\ r \in x.ended <=> r \in ended
      OBVIOUS
    <2>2. \A r \in Streams \ {s} : pend.s # r /\ x.pend.s # r
      BY DEF NoBlock, None, Streams
    <2>3. x.lastId \in Nat /\ lastId <= x.lastId
      BY <1>1
    <2>. QED
      BY <1>1, <2>1, <2>2, <2>3, ConnIs DEF SameFor
  <1>3. PICK t : t = stream[s]
    OBVIOUS
  <1>4. Apart(Conn, s, x) /\ t \in StreamRecord /\ StreamInv(s, t, Others)
    BY <1>2, <1>3, TakenApart, ConnIs DEF Standing
  <1>5. ConnInv(Conn, Others)
    BY DEF Standing
  <1>6. s \notin ended
    <2>1. CASE request
      <3>1. s \notin opened
        BY <1>1, <2>1
      <3>. QED
        BY <1>1, <3>1
    <2>. QED
      BY <2>1
  <1>7. handler[s] = "none" /\ producer[s] = "none"
    BY <1>4, <1>6, ConnIs DEF StreamInv, HasBeenRequested, BodyAfterHandler
  <1>8. Unasked(s, t, Others)
    BY <1>4, <1>7, ConnIs, UnaskedIs
  <1>9. s \in x.opened /\ (end <=> s \in x.ended) /\ (request \/ end)
    BY <1>6
  <1>10. t.known => ~request
    BY <1>1, <1>4, ConnIs DEF StreamInv, OpenedByClient
  <1>11. x.pend.s = s /\ x.pend.end = end /\ x.pend.request = request
    OBVIOUS
  <1>12. CASE c = Conn /\ x.lastId = lastId /\ (stream[s].known \/ s <= lastId)
    <2>1. t.known => t.state # "idle"
      BY <1>1, <1>4, ConnIs DEF StreamInv, StateFits, NoBlock
    <2>2. NotYetOpened(s, t, x) /\ OpenedByClient(s, t, x)
      BY <1>4, <1>12, <1>9, ConnIs DEF StreamInv, NotYetOpened, OpenedByClient
    <2>3. HasBeenRequested(s, t, x) /\ BodyAfterHandler(s, x)
      BY <1>7 DEF HasBeenRequested, BodyAfterHandler, Alive
    <2>4. UntouchedBefore(s, t, x) /\ NoEndWhileProduced(s, t, x) /\ EndIsWhole(t)
      BY <1>4, ConnIs DEF StreamInv, UntouchedBefore, NoEndWhileProduced
    <2>5. StateFits(s, t, x)
      BY <1>8, <1>11, <2>1 DEF StateFits, Unasked
    <2>6. BlockFits(s, t, x)
      BY <1>9, <1>10, <1>11 DEF BlockFits
    <2>7. NotOrphaned(s, t, x)
      BY <1>11 DEF NotOrphaned
    <2>8. t.known => t.win = x.window + t.given - t.sent
      BY <1>4, ConnIs DEF StreamInv
    <2>9. StreamInv(s, t, x)
      BY <2>2, <2>3, <2>4, <2>5, <2>6, <2>7, <2>8 DEF StreamInv
    <2>10. Flushed(t, Conn.cwin)
      BY <1>3, <1>5, ConnIs DEF ConnInv
    <2>11. ConnInv(c, x)
      BY <1>3, <1>4, <1>12, <2>9, <2>10, ConnIs, Together
    <2>. QED
      BY <1>1, <1>12, <2>11, ConnIs
  <1>13. CASE ~stream[s].known /\ s > lastId /\ x.lastId = s /\ c = With(Conn, s, NewStream(peerInit))
    <2>1. PICK u : u = NewStream(peerInit)
      OBVIOUS
    <2>2. /\ u.known /\ ~u.seen /\ u.state = "idle" /\ ~u.rejected /\ u.out = 0 /\ ~u.endAfter
          /\ ~u.endSent /\ u.win = peerInit /\ u.given = 0 /\ u.sent = 0
      BY <2>1 DEF NewStream
    <2>3. u \in StreamRecord /\ peerInit \in Int
      BY <2>1, NewStreamIs, Http2Constants DEF Standing, H2Types
    <2>4. t.sent = 0 /\ t.state # "closed"
      BY <1>4, <1>13, ConnIs DEF StreamInv, NotYetOpened
    <2>5. NotYetOpened(s, u, x) /\ OpenedByClient(s, u, x)
      BY <1>1, <1>9, <1>13 DEF NotYetOpened, OpenedByClient
    <2>6. HasBeenRequested(s, u, x) /\ BodyAfterHandler(s, x)
      BY <1>7 DEF HasBeenRequested, BodyAfterHandler, Alive
    <2>7. UntouchedBefore(s, u, x) /\ NoEndWhileProduced(s, u, x) /\ EndIsWhole(u)
      BY <2>2 DEF UntouchedBefore, NoEndWhileProduced, EndIsWhole
    <2>8. StateFits(s, u, x) /\ BlockFits(s, u, x) /\ NotOrphaned(s, u, x)
      BY <1>9, <1>11, <2>2 DEF StateFits, BlockFits, NotOrphaned
    <2>9. u.win = x.window + u.given - u.sent
      BY <2>2, <2>3
    <2>10. StreamInv(s, u, x)
      BY <2>5, <2>6, <2>7, <2>8, <2>9 DEF StreamInv
    <2>11. /\ Apart(c, s, x) /\ c.stream[s] = u /\ c.cwin = cwin
           /\ \A r \in Streams \ {s} : c.stream[r] = stream[r]
      BY <1>3, <1>4, <1>13, <2>1, <2>2, <2>3, <2>4, ConnIs, ApartWith
    <2>12. Flushed(u, c.cwin)
      <3>1. c.cwin \in Nat
        BY <2>11, Http2Constants DEF Apart, ConnTypes
      <3>. QED
        BY <2>2, <2>3, <3>1, SendableIs DEF Flushed
    <2>13. ConnInv(c, x)
      BY <2>10, <2>11, <2>12, Together
    <2>. QED
      BY <1>1, <1>3, <2>4, <2>11, <2>13
  <1>. QED
    BY <1>12, <1>13

-----------------------------------------------------------------------------
(* HEADERS and CONTINUATION. *)
\* What a frame leaves alone.
LEMMA FrameTypes ==
  ASSUME Standing, FrameRead,
         UNCHANGED <<streamLimit, serving, flags, bodies>>,
         handler' \in HandlersOfStreams,
         pend' \in [s : Streams \cup {None}, end : BOOLEAN, request : BOOLEAN],
         pend'.s = None => pend' = NoBlock,
         lastId' \in 0..N, opened' \subseteq Streams, ended' \subseteq opened',
         credit' \in [Streams -> 0..DefaultWindow],
         peerInit' \in 0..MaxWindow, credits' \in 0..CreditBound, granted' \in Nat
  PROVE  H2Types' /\ LoopInv2'
  <1>1. H2Types'
    BY DEF Standing, H2Types, serving, flags, bodies
  <1>2. LoopInv2'
    BY DEF Standing, LoopInv2, serving, flags, bodies, FrameRead
  <1>. QED
    BY <1>1, <1>2

LEMMA StandingTypes ==
  ASSUME Standing
  PROVE  /\ handler \in HandlersOfStreams
         /\ pend \in [s : Streams \cup {None}, end : BOOLEAN, request : BOOLEAN]
         /\ pend.s = None => pend = NoBlock
         /\ lastId \in 0..N /\ opened \subseteq Streams /\ ended \subseteq opened
         /\ credit \in [Streams -> 0..DefaultWindow]
         /\ peerInit \in 0..MaxWindow /\ credits \in 0..CreditBound /\ granted \in Nat
         /\ producer \in [Streams -> {"none", "unstarted", "done", "escaped"} \cup Alive]
         /\ ConnInv(Conn, Others) /\ Others.lastId \in Nat
  <1>1. lastId \in Nat
    BY Http2Constants DEF Standing, H2Types
  <1>. QED
    BY <1>1, ConnIs DEF Standing, H2Types, LoopInv2

LEMMA OnHeadersKeeps ==
  ASSUME Standing, NEW s \in Streams, NEW end \in BOOLEAN, NEW whole \in BOOLEAN, NEW kind,
         NEW valid \in BOOLEAN, OnHeaders(s, end, whole, kind, valid)
  PROVE  Preserved
  <1>1. PICK request \in BOOLEAN : request = \A o \in opened : o < s
    OBVIOUS
  <1>2. /\ FrameRead /\ pend = NoBlock
        /\ request \/ (s \in opened \ ended /\ end)
        /\ opened' = opened \cup {s} /\ ended' = IF end THEN ended \cup {s} ELSE ended
        /\ UNCHANGED <<streamLimit, serving, flags, bodies, credit, grants>>
    BY <1>1 DEF OnHeaders, Whole
  <1>3. /\ UNCHANGED <<peerInit, credits, granted, credit, producer, serve, up>>
    BY <1>2 DEF grants, bodies, serving, flags
  <1>4. /\ request => \A o \in opened : o < s
        /\ ~request => s \in opened \ ended /\ end
    BY <1>1, <1>2
  <1>5. /\ s \in 0..N /\ s \in Nat /\ s # None
    BY Http2Constants DEF Streams, None
  <1>6. PICK b : b = [s |-> s, end |-> end, request |-> request]
    OBVIOUS
  <1>7. b \in [s : Streams \cup {None}, end : BOOLEAN, request : BOOLEAN] /\ b.s # None
    BY <1>5, <1>6
  <1>8. NoBlock \in [s : Streams \cup {None}, end : BOOLEAN, request : BOOLEAN]
    BY DEF NoBlock
  <1>9. opened' \subseteq Streams /\ ended' \subseteq opened'
    BY <1>2, StandingTypes
  <1>10. ASSUME NEW c, HeaderBlock(c, s, end, request, whole, kind, valid),
                \/ c = Conn /\ lastId' = lastId /\ (stream[s].known \/ s <= lastId)
                \/ /\ ~stream[s].known /\ s > lastId /\ lastId' = s
                   /\ c = With(Conn, s, NewStream(peerInit))
         PROVE  Preserved
    <2>1. PICK x : x = Found([s |-> s, end |-> end, request |-> request])
      OBVIOUS
    <2>2. /\ x.handler = handler /\ x.producer = producer /\ x.opened = opened \cup {s}
          /\ x.ended = (IF end THEN ended \cup {s} ELSE ended)
          /\ x.pend = [s |-> s, end |-> end, request |-> request]
          /\ x.window = peerInit /\ x.live = (serve \in InLoop /\ up) /\ x.granted = granted
          /\ x.lastId = lastId'
      BY <1>2, <1>3, <2>1 DEF Found
    <2>3. \/ c = Conn /\ x.lastId = lastId /\ (stream[s].known \/ s <= lastId)
          \/ /\ ~stream[s].known /\ s > lastId /\ x.lastId = s
             /\ c = With(Conn, s, NewStream(peerInit))
      BY <1>10, <2>2
    <2>4. /\ ConnInv(c, x) /\ \A r \in Streams : stream[r].state = "closed" => c.stream[r] = stream[r]
      BY <1>2, <1>4, <2>2, <2>3, BlockBegins
    <2>5. lastId' \in 0..N /\ lastId' \in Nat
      BY <1>5, <1>10, StandingTypes, Http2Constants
    <2>6. handler \in HandlersOfStreams
      BY StandingTypes
    <2>7. /\ ConnInv(Conn', Others') /\ NoAnswerAfterClose
          /\ handler' \in HandlersOfStreams
          /\ pend' = NoBlock \/ pend' = [s |-> s, end |-> end, request |-> request]
      <3>1. /\ s \in Streams /\ end \in BOOLEAN /\ request \in BOOLEAN /\ whole \in BOOLEAN
                 /\ valid \in BOOLEAN
            /\ HeaderBlock(c, s, end, request, whole, kind, valid)
        BY <1>10
      <3>. QED
        BY ONLY <2>1, <2>4, <2>5, <2>6, <3>1, HeaderBlockKeeps
    <2>8. H2Types' /\ LoopInv2'
      BY <1>2, <1>3, <1>6, <1>7, <1>8, <1>9, <2>5, <2>7, FrameTypes, StandingTypes
    <2>. QED
      BY <2>7, <2>8 DEF Preserved
  <1>11. CASE ~stream[s].known /\ s > lastId /\ Settle(Conn) /\ UNCHANGED <<heads, handler>>
    <2>1. UNCHANGED <<lastId, pend, handler>>
      BY <1>11 DEF heads
    <2>2. PICK y, t : y = Others' /\ t = stream[s]
      OBVIOUS
    <2>3. \A r \in Streams \ {s} : SameFor(r, Others, y)
      <3>1. \A r \in Streams \ {s} : /\ r \in opened' <=> r \in opened
                                     /\ r \in ended' <=> r \in ended
        BY <1>2
      <3>2. lastId \in Nat
        BY StandingTypes, ConnIs
      <3>. QED
        BY <1>3, <2>1, <2>2, <3>1, <3>2, ConnIs, OthersNext DEF SameFor
    <2>4. Apart(Conn, s, y) /\ t \in StreamRecord /\ StreamInv(s, t, Others)
      BY <1>3, <2>2, <2>3, TakenApart, ConnIs, OthersNext, StandingTypes
    <2>5. /\ ~t.known /\ ~t.rejected /\ t.state # "closed" /\ t.sent = 0 /\ handler[s] = "none"
      BY <1>11, <2>2, <2>4, ConnIs DEF StreamInv, NotYetOpened
    <2>6. Unasked(s, t, Others)
      BY <2>4, <2>5, ConnIs, UnaskedIs
    <2>7. Begun(s, t, y)
      BY <1>2, <1>3, <1>5, <2>1, <2>2, <2>5, <2>6, ConnIs, OthersNext DEF Begun, Unasked, NoBlock
    <2>8. Flushed(t, Conn.cwin)
      BY <2>5 DEF Flushed
    <2>9. ConnInv(Conn, y)
      BY <2>2, <2>4, <2>7, <2>8, BegunIsFine, Together, ConnIs
    <2>10. ConnInv(Conn', Others') /\ NoAnswerAfterClose
      BY <1>11, <2>2, <2>9, Settled DEF Quiet
    <2>11. H2Types' /\ LoopInv2'
      BY <1>2, <1>3, <1>9, <2>1, FrameTypes, StandingTypes
    <2>. QED
      BY <2>10, <2>11 DEF Preserved
  <1>12. CASE /\ ~stream[s].known /\ s > lastId /\ lastId' = s
              /\ HeaderBlock(With(Conn, s, NewStream(peerInit)), s, end, request, whole, kind, valid)
    BY <1>10, <1>12
  <1>13. CASE /\ stream[s].known \/ (~(~stream[s].known /\ s > lastId) /\ s \in ToSet(recent))
              /\ UNCHANGED lastId
              /\ HeaderBlock(Conn, s, end, request, whole, kind, valid)
    <2>1. stream[s].known \/ s <= lastId
      <3>1. lastId \in Nat
        BY StandingTypes, ConnIs
      <3>. QED
        BY <1>5, <1>13, <3>1
    <2>. QED
      BY <1>10, <1>13, <2>1
  <1>. QED
    BY <1>1, <1>11, <1>12, <1>13 DEF OnHeaders

LEMMA OnContinuationKeeps ==
  ASSUME Standing, NEW kind, NEW valid \in BOOLEAN, OnContinuation(kind, valid)
  PROVE  Preserved
  <1>1. pend # NoBlock
    BY DEF OnContinuation
  <1>2. PICK s \in Streams, end \in BOOLEAN, request \in BOOLEAN :
          s = pend.s /\ end = pend.end /\ request = pend.request
    BY <1>1, StandingTypes
  <1>3. /\ FrameRead /\ pend # NoBlock /\ HeaderBlock(Conn, s, end, request, TRUE, kind, valid)
        /\ UNCHANGED <<streamLimit, lastId, serving, flags, bodies, clientSide, grants>>
    BY <1>2 DEF OnContinuation
  <1>4. UNCHANGED <<peerInit, credits, granted, opened, ended, credit, producer, serve, up, lastId>>
    BY <1>3 DEF grants, bodies, serving, flags, clientSide
  <1>5. /\ s \in Streams /\ end \in BOOLEAN /\ request \in BOOLEAN
        /\ pend = [s |-> s, end |-> end, request |-> request]
    BY <1>2, <1>3, StandingTypes
  <1>6. PICK x : x = Others
    OBVIOUS
  <1>7. x = Found([s |-> s, end |-> end, request |-> request])
    BY <1>4, <1>5, <1>6 DEF Others, Found
  <1>8. ConnInv(Conn, x) /\ lastId' \in Nat /\ lastId' \in 0..N
    BY <1>4, <1>6, StandingTypes, ConnIs
  <1>9. \A r \in Streams : stream[r].state = "closed" => Conn.stream[r] = stream[r]
    BY ConnIs
  <1>10. handler \in HandlersOfStreams
    BY StandingTypes
  <1>11. /\ ConnInv(Conn', Others') /\ NoAnswerAfterClose
         /\ handler' \in HandlersOfStreams
         /\ pend' = NoBlock \/ pend' = [s |-> s, end |-> end, request |-> request]
    <2>1. PICK c : c = Conn
      OBVIOUS
    <2>2. PICK whole \in BOOLEAN : whole = TRUE
      OBVIOUS
    <2>3. /\ HeaderBlock(c, s, end, request, whole, kind, valid) /\ valid \in BOOLEAN
          /\ \A r \in Streams : stream[r].state = "closed" => c.stream[r] = stream[r]
          /\ ConnInv(c, x) /\ lastId' \in Nat
      BY <1>3, <1>8, <1>9, <2>1, <2>2
    <2>. QED
      <3>1. /\ s \in Streams /\ end \in BOOLEAN /\ request \in BOOLEAN /\ whole \in BOOLEAN
                 /\ valid \in BOOLEAN
            /\ HeaderBlock(c, s, end, request, whole, kind, valid)
        BY <1>5, <2>3
      <3>2. /\ ConnInv(c, x) /\ \A r \in Streams : stream[r].state = "closed" => c.stream[r] = stream[r]
        BY <2>3
      <3>3. x = Found([s |-> s, end |-> end, request |-> request])
        BY <1>7
      <3>4. lastId' \in Nat
        BY <2>3
      <3>5. handler \in HandlersOfStreams
        BY <1>10
      <3>. QED
        BY ONLY <3>1, <3>2, <3>3, <3>4, <3>5, HeaderBlockKeeps
  <1>12. /\ pend' \in [s : Streams \cup {None}, end : BOOLEAN, request : BOOLEAN]
         /\ pend'.s = None => pend' = NoBlock
    <2>1. s # None
      BY <1>5 DEF Streams, None
    <2>2. NoBlock \in [s : Streams \cup {None}, end : BOOLEAN, request : BOOLEAN]
      BY DEF NoBlock
    <2>. QED
      BY <1>5, <1>11, <2>1, <2>2
  <1>13. H2Types' /\ LoopInv2'
    BY <1>3, <1>4, <1>8, <1>11, <1>12, FrameTypes, StandingTypes
  <1>. QED
    BY <1>11, <1>13 DEF Preserved

-----------------------------------------------------------------------------
(* DATA, RST_STREAM, WINDOW_UPDATE and SETTINGS. *)
\* DATA takes room in the window of the server, or is kept as body.
LEMMA TakenIs ==
  ASSUME NEW t, t \in StreamRecord, NEW n \in Nat, n <= t.inWin, NEW u, u = [t EXCEPT !.inWin = @ - n]
  PROVE  Alike(t, u) /\ u.state = t.state /\ u.seen = t.seen
  <1>1. PICK a \in 0..MaxWindow : a = t.inWin - n
    BY Http2Constants DEF StreamRecord
  <1>2. u = [t EXCEPT !.inWin = a]
    BY <1>1
  <1>. QED
    BY <1>1, <1>2 DEF StreamRecord, Alike

LEMMA KeptIs ==
  ASSUME NEW t, t \in StreamRecord, NEW n \in Nat, t.body + n <= MaxBody, NEW u,
         u = [t EXCEPT !.body = @ + n]
  PROVE  Alike(t, u) /\ u.state = t.state /\ u.seen = t.seen
  <1>1. PICK a \in 0..MaxBody : a = t.body + n
    BY Http2Constants DEF StreamRecord
  <1>2. u = [t EXCEPT !.body = a]
    BY <1>1
  <1>. QED
    BY <1>1, <1>2 DEF StreamRecord, Alike

LEMMA DataTypes ==
  ASSUME Standing, Whole, NEW s \in Streams, NEW n \in 0..DefaultWindow, n <= credit[s],
         credit' = credit \/ credit' = [credit EXCEPT ![s] = @ - n],
         handler' = handler \/ handler' = [handler EXCEPT ![s] = "queued"],
         s \in opened, ended' = ended \/ ended' = ended \cup {s},
         UNCHANGED <<streamLimit, heads, serving, flags, bodies, opened, grants>>
  PROVE  H2Types' /\ LoopInv2'
  <1>1. UNCHANGED <<lastId, pend, peerInit, credits, granted, opened>> /\ FrameRead
    BY DEF heads, grants, Whole
  <1>2. handler' \in HandlersOfStreams
    BY StandingTypes DEF HandlersOfStreams
  <1>3. credit' \in [Streams -> 0..DefaultWindow]
    <2>1. credit \in [Streams -> 0..DefaultWindow] /\ DefaultWindow \in Nat
      BY StandingTypes, Http2Constants
    <2>2. PICK a \in 0..DefaultWindow : a = credit[s] - n
      BY <2>1
    <2>. QED
      BY <2>1, <2>2
  <1>. QED
    BY <1>1, <1>2, <1>3, StandingTypes, FrameTypes

LEMMA OnDataKeeps ==
  ASSUME Standing, NEW s \in Streams, NEW n \in 0..DefaultWindow, NEW end \in BOOLEAN,
         NEW valid \in BOOLEAN, OnData(s, n, end, valid)
  PROVE  Preserved
  <1>1. PICK t, u, v, y : /\ t = stream[s] /\ u = [t EXCEPT !.inWin = @ - n]
                          /\ v = [t EXCEPT !.body = @ + n] /\ y = Others'
    OBVIOUS
  <1>2. /\ Whole /\ FrameRead /\ pend = NoBlock /\ s \in opened \ ended /\ n <= credit[s]
        /\ ended' = (IF end THEN ended \cup {s} ELSE ended)
        /\ UNCHANGED <<streamLimit, heads, serving, flags, bodies, opened, grants>>
    BY DEF OnData, Whole
  <1>3. UNCHANGED <<lastId, pend, producer, serve, up, opened, peerInit, credits, granted>>
    BY <1>2 DEF heads, serving, flags, bodies, grants
  <1>4. PICK dead \in BOOLEAN : dead = (~t.known \/ t.state = "closed")
    OBVIOUS
  <1>5. PICK Final : Final = [z \in {u, v} |-> IF end THEN EndRemote(z) ELSE z]
    OBVIOUS
  <1>6. \/ /\ dead /\ Settle(Conn) /\ UNCHANGED <<credit, handler>>
        \/ /\ ~dead /\ n <= t.inWin /\ t.rejected
           /\ Settle(With(Conn, s, Final[u])) /\ credit' = [credit EXCEPT ![s] = @ - n]
           /\ UNCHANGED handler
        \/ /\ ~dead /\ n <= t.inWin /\ ~t.rejected /\ t.body + n > MaxBody
           /\ Settle(RefuseEarly(With(Conn, s, u), s))
           /\ credit' = [credit EXCEPT ![s] = @ - n]
           /\ UNCHANGED handler
        \/ /\ ~dead /\ n <= t.inWin /\ ~t.rejected /\ t.body + n <= MaxBody
           /\ IF end THEN Dispatch(With(Conn, s, Final[v]), s, valid)
                     ELSE Settle(With(Conn, s, Final[v])) /\ UNCHANGED handler
           /\ UNCHANGED credit
    BY <1>1, <1>4, <1>5 DEF OnData
  <1>7. handler' = handler \/ handler' = [handler EXCEPT ![s] = "queued"]
    BY <1>6 DEF Dispatch
  <1>8. H2Types' /\ LoopInv2'
    BY <1>2, <1>6, <1>7, DataTypes
  <1>9. handler \in HandlersOfStreams /\ lastId \in Nat
    BY StandingTypes, ConnIs
  <1>10. \A r \in Streams \ {s} : SameFor(r, Others, y)
    <2>1. \A r \in Streams \ {s} : handler'[r] = handler[r] /\ (r \in ended' <=> r \in ended)
      BY <1>2, <1>7, <1>9 DEF HandlersOfStreams
    <2>. QED
      BY <1>1, <1>3, <1>9, <2>1, ConnIs, OthersNext DEF SameFor
  <1>11. Apart(Conn, s, y) /\ t \in StreamRecord /\ StreamInv(s, t, Others)
    BY <1>1, <1>3, <1>10, TakenApart, ConnIs, OthersNext, StandingTypes
  <1>12. handler[s] = "none"
    BY <1>2, <1>11, ConnIs DEF StreamInv, HasBeenRequested
  <1>13. Unasked(s, t, Others)
    BY <1>11, <1>12, ConnIs, UnaskedIs
  <1>14. t.known => t.state # "idle"
    BY <1>2, <1>11, ConnIs DEF StreamInv, StateFits, NoBlock, None, Streams
  <1>15. s # None /\ n \in Nat
    BY Http2Constants DEF Streams, None
  <1>16. Flushed(t, Conn.cwin)
    BY <1>1, ConnIs, StandingTypes DEF ConnInv
  <1>17. ASSUME NEW z, Alike(t, z), z.state # "idle" \/ ~z.known,
           z.rejected \/ z.state # "local" \/ ~z.known,
                \/ ~z.known \/ z.state = "closed" \/ z.rejected \/ ~end
                \/ z.state = "remote" /\ handler'[s] = "queued",
                handler' = handler \/ (end /\ z.known),
                z.state = "closed" => t.known \/ t.state = "closed"
         PROVE  StreamInv(s, z, y)
    <2>1. Begun(s, z, y)
      <3>1. handler'[s] = "none" \/ (handler'[s] = "queued" /\ s \in ended' /\ z.known)
        BY <1>2, <1>7, <1>9, <1>12, <1>17 DEF HandlersOfStreams
      <3>2. s \notin ended' \/ end
        BY <1>2
      <3>3. s > lastId => ~t.known
        BY <1>13, ConnIs DEF Unasked
      <3>4. s > lastId => ~z.known /\ ~z.rejected /\ z.state # "closed" /\ z.sent = 0
              /\ handler'[s] = "none"
        BY <1>1, <1>12, <1>13, <1>17, <3>1, ConnIs DEF Alike, Unasked
      <3>5. y.pend.s # s /\ y.producer[s] = "none"
        BY <1>1, <1>2, <1>3, <1>13, <1>15, ConnIs, OthersNext DEF Unasked, NoBlock
      <3>. QED
        BY <1>1, <1>3, <1>13, <1>17, <3>1, <3>2, <3>4, <3>5, ConnIs, OthersNext
           DEF Begun, Unasked, Alike
    <2>. QED
      BY <2>1, BegunIsFine
  <1>18. ASSUME NEW z, Alike(t, z), StreamInv(s, z, y), Flushed(z, Conn.cwin)
         PROVE  ConnInv(With(Conn, s, z), y)
    <2>1. PICK c : c = With(Conn, s, z)
      OBVIOUS
    <2>2. Apart(c, s, y) /\ c.stream[s] = z /\ c.cwin = Conn.cwin
      BY <1>1, <1>11, <1>18, <2>1, ApartWith, ConnIs DEF Alike
    <2>. QED
      BY <1>18, <2>1, <2>2, Together
  <1>19. ASSUME NEW z, Alike(t, z), t.known, t.state # "closed"
         PROVE  Flushed(z, Conn.cwin) /\ Quiet(Conn, With(Conn, s, z))
    <2>1. Flushed(z, Conn.cwin)
      BY <1>16, <1>19, SameOutput DEF Alike
    <2>2. \A r \in Streams \ {s} : With(Conn, s, z).stream[r] = Conn.stream[r]
      BY <1>1, <1>11, <1>19, ApartWith, ConnIs DEF Alike
    <2>. QED
      BY <1>1, <1>19, <2>1, <2>2, ConnIs DEF Quiet
  <1>20. ASSUME NEW z, Alike(t, z), NEW w, w = (IF end THEN EndRemote(z) ELSE z), z.state = t.state
         PROVE  /\ Alike(t, w)
                /\ end => w.state = (IF t.state = "open" THEN "remote"
                                     ELSE IF t.state = "local" THEN "closed" ELSE t.state)
                /\ ~end => w.state = t.state
    <2>1. CASE end
      <3>1. w = EndRemote(z) /\ z \in StreamRecord
        BY <1>20, <2>1 DEF Alike
      <3>. QED
        BY <1>20, <2>1, <3>1, EndRemoteIs DEF Alike
    <2>2. CASE ~end
      BY <1>20, <2>2
    <2>. QED
      BY <2>1, <2>2
  <1>21. Conn.stream[s] = t
    BY <1>1, ConnIs
  <1>22. CASE dead /\ Settle(Conn) /\ UNCHANGED <<credit, handler>>
    <2>1. Alike(t, t)
      BY <1>11 DEF Alike
    <2>2. StreamInv(s, t, y)
      BY <1>4, <1>11, <1>13, <1>14, <1>17, <1>22, <2>1 DEF Unasked
    <2>3. ConnInv(Conn, y)
      BY <1>11, <1>16, <1>21, <2>2, Together
    <2>. QED
      BY <1>1, <1>8, <1>22, <2>3, Settled DEF Preserved, Quiet
  <1>23. CASE /\ ~dead /\ n <= t.inWin /\ t.rejected
              /\ Settle(With(Conn, s, Final[u])) /\ UNCHANGED handler
    <2>1. Alike(t, u) /\ u.state = t.state
      BY <1>1, <1>11, <1>15, <1>23, TakenIs
    <2>2. PICK w : w = Final[u] /\ w = (IF end THEN EndRemote(u) ELSE u)
      BY <1>5
    <2>3. Alike(t, w) /\ w.state # "idle" /\ w.rejected
      <3>1. Alike(t, w) /\ (end => w.state = (IF t.state = "open" THEN "remote"
                                              ELSE IF t.state = "local" THEN "closed" ELSE t.state))
            /\ (~end => w.state = t.state)
        BY <1>20, <2>1, <2>2
      <3>. QED
        BY <1>4, <1>14, <1>23, <3>1 DEF Alike
    <2>4. StreamInv(s, w, y)
      BY <1>4, <1>17, <1>23, <2>3
    <2>5. ConnInv(With(Conn, s, w), y) /\ Quiet(Conn, With(Conn, s, w))
      BY <1>4, <1>18, <1>19, <1>23, <2>3, <2>4
    <2>. QED
      BY <1>1, <1>8, <1>23, <2>2, <2>5, Settled DEF Preserved
  <1>24. CASE /\ ~dead /\ n <= t.inWin /\ ~t.rejected
              /\ Settle(RefuseEarly(With(Conn, s, u), s)) /\ UNCHANGED handler
    <2>1. Alike(t, u) /\ u.state = t.state
      BY <1>1, <1>11, <1>15, <1>24, TakenIs
    <2>2. PICK c, w : c = With(Conn, s, u) /\ w = Refusing(u)
      OBVIOUS
    <2>3. Apart(c, s, y) /\ c.stream[s] = u /\ \A r \in Streams \ {s} : c.stream[r] = Conn.stream[r]
      BY <1>11, <1>21, <2>1, <2>2, ApartWith DEF Alike
    <2>4. /\ w \in StreamRecord /\ w.rejected /\ w.out = u.out /\ w.endAfter = u.endAfter
          /\ w.state = u.state /\ w.known = u.known /\ w.seen = u.seen
          /\ w.win = u.win /\ w.given = u.given /\ w.sent = u.sent /\ w.endSent = u.endSent
      BY <2>1, <2>2, RefusingIs DEF Alike
    <2>5. StreamInv(s, w, y)
      <3>1. /\ s > y.lastId => ~t.known
            /\ t.known => s \in y.opened /\ s <= y.lastId /\ t.win = y.window + t.given - t.sent
            /\ y.pend.s # s /\ y.producer[s] = "none" /\ y.handler[s] = "none"
        BY <1>1, <1>2, <1>3, <1>12, <1>13, <1>15, <1>24, ConnIs, OthersNext DEF Unasked, NoBlock
      <3>2. Begun(s, w, y)
        BY <1>4, <1>14, <1>24, <2>1, <2>4, <3>1 DEF Begun, Alike
      <3>. QED
        BY <3>2, BegunIsFine
    <2>6. /\ ConnInv(RefuseEarly(c, s), y)
          /\ \A r \in Streams \ {s} : RefuseEarly(c, s).stream[r] = c.stream[r]
      <3>1. y.lastId \in Nat /\ c.stream[s].known
        BY <1>1, <1>3, <1>4, <1>9, <1>24, <2>1, <2>3, OthersNext DEF Alike
      <3>. QED
        BY <2>2, <2>3, <2>5, <3>1, RefuseTogether
    <2>7. Quiet(Conn, RefuseEarly(c, s))
      BY <1>4, <1>21, <1>24, <2>3, <2>6 DEF Quiet
    <2>. QED
      BY <1>1, <1>8, <1>24, <2>2, <2>6, <2>7, Settled DEF Preserved
  <1>25. CASE /\ ~dead /\ ~t.rejected /\ t.body + n <= MaxBody
              /\ IF end THEN Dispatch(With(Conn, s, Final[v]), s, valid)
                        ELSE Settle(With(Conn, s, Final[v])) /\ UNCHANGED handler
    <2>1. Alike(t, v) /\ v.state = t.state
      BY <1>1, <1>11, <1>15, <1>25, KeptIs
    <2>2. PICK w : w = Final[v] /\ w = (IF end THEN EndRemote(v) ELSE v)
      BY <1>5
    <2>3. /\ Alike(t, w) /\ w.known /\ ~w.rejected /\ t.state \in {"open", "remote"}
          /\ end => w.state = "remote"
          /\ ~end => w.state = t.state
      <3>1. Alike(t, w) /\ (end => w.state = (IF t.state = "open" THEN "remote"
                                              ELSE IF t.state = "local" THEN "closed" ELSE t.state))
            /\ (~end => w.state = t.state)
        BY <1>20, <2>1, <2>2
      <3>2. t.state \in {"open", "remote"} /\ t.known
        BY <1>4, <1>11, <1>13, <1>14, <1>25 DEF Unasked, StreamRecord
      <3>. QED
        BY <1>25, <3>1, <3>2 DEF Alike
    <2>4. CASE ~end
      <3>1. StreamInv(s, w, y)
        BY <1>17, <1>25, <2>3, <2>4
      <3>2. ConnInv(With(Conn, s, w), y) /\ Quiet(Conn, With(Conn, s, w))
        BY <1>4, <1>18, <1>19, <1>25, <2>3, <3>1
      <3>. QED
        BY <1>1, <1>8, <1>25, <2>2, <2>4, <3>2, Settled DEF Preserved
    <2>5. CASE end /\ valid
      <3>1. Settle(With(Conn, s, w)) /\ handler' = [handler EXCEPT ![s] = "queued"]
        BY <1>25, <2>2, <2>5 DEF Dispatch
      <3>2. handler'[s] = "queued"
        BY <1>9, <3>1 DEF HandlersOfStreams
      <3>3. StreamInv(s, w, y)
        BY <1>17, <2>3, <2>5, <3>2
      <3>4. ConnInv(With(Conn, s, w), y) /\ Quiet(Conn, With(Conn, s, w))
        BY <1>4, <1>18, <1>19, <1>25, <2>3, <3>3
      <3>. QED
        BY <1>1, <1>8, <3>1, <3>4, Settled DEF Preserved
    <2>6. CASE end /\ ~valid
      <3>1. PICK c : c = With(Conn, s, w)
        OBVIOUS
      <3>2. /\ Apart(c, s, y) /\ c.stream[s] = w /\ c.cwin = Conn.cwin
            /\ \A r \in Streams \ {s} : c.stream[r] = Conn.stream[r]
        BY <1>11, <1>21, <2>3, <3>1, ApartWith DEF Alike
      <3>3. PICK z, d : z = Reset(w) /\ d = With(c, s, z)
        OBVIOUS
      <3>4. Alike(t, z) /\ z.state = "closed"
        BY <2>3, <3>3, ResetIs DEF Alike
      <3>5. Settle(d) /\ UNCHANGED handler
        BY <1>25, <2>2, <2>6, <3>1, <3>2, <3>3 DEF Dispatch
      <3>6. StreamInv(s, z, y)
        BY <1>17, <2>3, <3>4, <3>5 DEF Alike
      <3>7. /\ Apart(d, s, y) /\ d.stream[s] = z
            /\ \A r \in Streams \ {s} : d.stream[r] = c.stream[r]
        BY <2>3, <3>2, <3>3, <3>4, ApartWith DEF Alike
      <3>8. ConnInv(d, y)
        BY <3>4, <3>6, <3>7, Together DEF Flushed
      <3>9. Quiet(Conn, d)
        BY <1>21, <2>3, <3>2, <3>7 DEF Quiet
      <3>. QED
        BY <1>1, <1>8, <3>5, <3>8, <3>9, Settled DEF Preserved
    <2>. QED
      BY <2>4, <2>5, <2>6
  <1>. QED
    BY <1>6, <1>22, <1>23, <1>24, <1>25

\* A step that works on one stream, and may settle.
LEMMA StepOn ==
  ASSUME Standing, NEW s \in Streams, \A r \in Streams \ {s} : SameFor(r, Others, Others'),
         peerInit' = peerInit, granted' = granted,
         NEW z, z \in StreamRecord, z.sent = stream[s].sent, StreamInv(s, z, Others'),
         Flushed(z, cwin), stream[s].state = "closed" => z.answered = stream[s].answered,
         Settle(With(Conn, s, z)) \/ Become(With(Conn, s, z))
  PROVE  ConnInv(Conn', Others') /\ NoAnswerAfterClose
  <1>1. PICK y, c : y = Others' /\ c = With(Conn, s, z)
    OBVIOUS
  <1>2. Apart(Conn, s, y) /\ Conn.stream[s] = stream[s] /\ Conn.cwin = cwin
    BY <1>1, TakenApart, ConnIs, OthersNext, StandingTypes
  <1>3. /\ Apart(c, s, y) /\ c.stream[s] = z /\ c.cwin = cwin
        /\ \A r \in Streams \ {s} : c.stream[r] = Conn.stream[r]
    BY <1>1, <1>2, ApartWith
  <1>4. ConnInv(c, y)
    BY <1>1, <1>3, Together
  <1>5. Quiet(Conn, c)
    BY <1>2, <1>3 DEF Quiet
  <1>6. CASE Settle(c)
    BY <1>1, <1>4, <1>5, <1>6, Settled
  <1>7. CASE Become(c)
    BY <1>1, <1>4, <1>5, <1>7, Became
  <1>. QED
    BY <1>1, <1>6, <1>7

\* ... and one that leaves the stream itself alone.
LEMMA StepBy ==
  ASSUME Standing, NEW s \in Streams, \A r \in Streams \ {s} : SameFor(r, Others, Others'),
         peerInit' = peerInit, granted' = granted, StreamInv(s, stream[s], Others'),
         Settle(Conn) \/ UNCHANGED conn
  PROVE  ConnInv(Conn', Others') /\ NoAnswerAfterClose
  <1>1. PICK y : y = Others'
    OBVIOUS
  <1>2. Apart(Conn, s, y) /\ Conn.stream[s] = stream[s] /\ Conn.cwin = cwin
    BY <1>1, TakenApart, ConnIs, OthersNext, StandingTypes
  <1>3. ConnInv(Conn, y)
    BY <1>1, <1>2, Together, StandingTypes DEF ConnInv
  <1>4. CASE Settle(Conn)
    BY <1>1, <1>3, <1>4, Settled DEF Quiet
  <1>5. CASE UNCHANGED conn
    <2>1. Conn' = Conn /\ stream' = stream
      BY <1>5 DEF conn, Conn
    <2>. QED
      BY <1>1, <1>3, <2>1 DEF NoAnswerAfterClose
  <1>. QED
    BY <1>4, <1>5

LEMMA TheStream ==
  ASSUME Standing, NEW s \in Streams
  PROVE  /\ stream[s] \in StreamRecord /\ StreamInv(s, stream[s], Others)
         /\ Flushed(stream[s], cwin) /\ cwin \in Nat /\ cwin \in 0..MaxWindow
  <1>1. ConnInv(Conn, Others)
    BY StandingTypes
  <1>2. ConnTypes(Conn)
    BY <1>1 DEF ConnInv, Base
  <1>3. Conn.stream[s] \in StreamRecord /\ Conn.cwin \in 0..MaxWindow
    BY <1>2 DEF ConnTypes
  <1>. QED
    BY <1>1, <1>3, ConnIs, Http2Constants DEF ConnInv, Base

LEMMA BadStreamFrameKeeps ==
  ASSUME Standing, NEW s \in Streams, BadStreamFrame(s)
  PROVE  Preserved
  <1>1. /\ FrameRead /\ stream[s].known /\ Settle(With(Conn, s, Reset(stream[s])))
        /\ UNCHANGED <<streamLimit, serving, flags, bodies, handler, pend, lastId, opened, ended,
                       credit, peerInit, credits, granted, producer, serve, up>>
    BY DEF BadStreamFrame, Whole, heads, clientSide, grants, serving, flags, bodies
  <1>2. Others' = Others
    BY <1>1 DEF Others
  <1>3. PICK z : z = Reset(stream[s])
    OBVIOUS
  <1>4. z \in StreamRecord /\ z.sent = stream[s].sent /\ z.state = "closed"
          /\ z.answered = stream[s].answered
    BY <1>3, TheStream, ResetIs
  <1>5. StreamInv(s, z, Others')
    BY <1>1, <1>2, <1>3, TheStream, StandingTypes, ResetKeeps
  <1>6. \A r \in Streams \ {s} : SameFor(r, Others, Others')
    BY <1>2, StandingTypes DEF SameFor
  <1>7. ConnInv(Conn', Others') /\ NoAnswerAfterClose
    BY <1>1, <1>3, <1>4, <1>5, <1>6, StepOn DEF Flushed
  <1>8. H2Types' /\ LoopInv2'
    BY <1>1, FrameTypes, StandingTypes
  <1>. QED
    BY <1>7, <1>8 DEF Preserved

LEMMA OnRstStreamKeeps ==
  ASSUME Standing, NEW s \in Streams, OnRstStream(s)
  PROVE  Preserved
  <1>1. /\ FrameRead /\ pend = NoBlock /\ stream[s].known /\ Settle(With(Conn, s, Reset(stream[s])))
        /\ ended' = ended \cup {s}
        /\ UNCHANGED <<streamLimit, serving, flags, bodies, handler, pend, lastId, opened,
                       credit, peerInit, credits, granted, producer, serve, up>>
    BY DEF OnRstStream, Whole, heads, clientSide, grants, serving, flags, bodies
  <1>2. \A r \in Streams \ {s} : SameFor(r, Others, Others')
    <2>1. \A r \in Streams \ {s} : r \in ended' <=> r \in ended
      BY <1>1
    <2>. QED
      BY <1>1, <2>1, ConnIs, OthersNext, StandingTypes DEF SameFor
  <1>3. PICK z : z = Reset(stream[s])
    OBVIOUS
  <1>4. z \in StreamRecord /\ z.sent = stream[s].sent /\ z.state = "closed"
          /\ z.answered = stream[s].answered
    BY <1>3, TheStream, ResetIs
  <1>5. StreamInv(s, z, Others)
    BY <1>1, <1>3, TheStream, StandingTypes, ResetKeeps
  <1>6. StreamInv(s, z, Others')
    <2>1. NotYetOpened(s, z, Others') /\ OpenedByClient(s, z, Others') /\ BodyAfterHandler(s, Others')
      BY <1>1, <1>5, ConnIs, OthersNext DEF StreamInv, NotYetOpened, OpenedByClient, BodyAfterHandler
    <2>2. HasBeenRequested(s, z, Others')
      BY <1>1, <1>5, ConnIs, OthersNext DEF StreamInv, HasBeenRequested
    <2>3. UntouchedBefore(s, z, Others') /\ NoEndWhileProduced(s, z, Others') /\ EndIsWhole(z)
      BY <1>1, <1>5, ConnIs, OthersNext DEF StreamInv, UntouchedBefore, NoEndWhileProduced
    <2>4. StateFits(s, z, Others') /\ NotOrphaned(s, z, Others')
      BY <1>4 DEF StateFits, NotOrphaned
    <2>5. BlockFits(s, z, Others')
      BY <1>1, OthersNext DEF BlockFits, NoBlock, None, Streams
    <2>. QED
      BY <1>1, <1>5, <2>1, <2>2, <2>3, <2>4, <2>5, ConnIs, OthersNext DEF StreamInv
  <1>7. ConnInv(Conn', Others') /\ NoAnswerAfterClose
    BY <1>1, <1>2, <1>3, <1>4, <1>6, StepOn DEF Flushed
  <1>8. s \in opened
    BY <1>1, TheStream, ConnIs DEF StreamInv, OpenedByClient
  <1>9. opened' \subseteq Streams /\ ended' \subseteq opened'
    BY <1>1, <1>8, StandingTypes
  <1>10. H2Types' /\ LoopInv2'
    BY <1>1, <1>9, FrameTypes, StandingTypes
  <1>. QED
    BY <1>7, <1>10 DEF Preserved

\* Credit moves the window of the client, and what it was given.
Given(t, k) == [t EXCEPT !.win = @ + k, !.given = @ + k]
LEMMA GivenIs ==
  ASSUME NEW t, t \in StreamRecord, NEW k \in Nat, NEW u, u = Given(t, k)
  PROVE  /\ u \in StreamRecord /\ u.win = t.win + k /\ u.given = t.given + k
         /\ u.state = t.state /\ u.known = t.known /\ u.seen = t.seen /\ u.rejected = t.rejected
         /\ u.out = t.out /\ u.sent = t.sent /\ u.endSent = t.endSent /\ u.endAfter = t.endAfter
         /\ u.answered = t.answered
  <1>1. t.win \in Int /\ t.given \in Nat
    BY DEF StreamRecord
  <1>2. PICK a \in Int, b \in Nat : a = t.win + k /\ b = t.given + k
    BY <1>1
  <1>3. u = [t EXCEPT !.win = a, !.given = b]
    BY <1>2 DEF Given
  <1>. QED
    BY <1>2, <1>3 DEF StreamRecord

LEMMA OnStreamCreditKeeps ==
  ASSUME Standing, NEW s \in Streams, NEW k \in Nat, OnStreamCredit(s, k)
  PROVE  Preserved
  <1>1. PICK t, u : t = stream[s] /\ u = Given(t, k)
    OBVIOUS
  <1>2. /\ FrameRead /\ t.known /\ credits < CreditBound /\ credits' = credits + 1
        /\ Settle(IF t.win + k > MaxWindow THEN With(Conn, s, Reset(t))
                                           ELSE FlushStream(With(Conn, s, u), s))
        /\ UNCHANGED <<streamLimit, serving, flags, bodies, handler, pend, lastId, opened, ended,
                       credit, peerInit, granted, producer, serve, up>>
    BY <1>1 DEF OnStreamCredit, Given, Whole, heads, clientSide, serving, flags, bodies
  <1>3. Others' = Others
    BY <1>2 DEF Others
  <1>4. \A r \in Streams \ {s} : SameFor(r, Others, Others')
    BY <1>3, StandingTypes DEF SameFor
  <1>5. H2Types' /\ LoopInv2'
    <2>1. credits' \in 0..CreditBound
      BY <1>2, StandingTypes, Http2Constants
    <2>. QED
      BY <1>2, <2>1, FrameTypes, StandingTypes
  <1>6. t \in StreamRecord /\ StreamInv(s, t, Others)
    BY <1>1, TheStream
  <1>7. CASE t.win + k > MaxWindow
    <2>1. PICK z : z = Reset(t)
      OBVIOUS
    <2>2. z \in StreamRecord /\ z.sent = stream[s].sent /\ z.state = "closed"
            /\ z.answered = stream[s].answered
      BY <1>1, <1>6, <2>1, ResetIs
    <2>3. StreamInv(s, z, Others')
      BY <1>2, <1>3, <1>6, <2>1, StandingTypes, ResetKeeps
    <2>4. ConnInv(Conn', Others') /\ NoAnswerAfterClose
      BY <1>2, <1>4, <1>7, <2>1, <2>2, <2>3, StepOn DEF Flushed
    <2>. QED
      BY <1>5, <2>4 DEF Preserved
  <1>8. CASE ~(t.win + k > MaxWindow)
    <2>1. /\ u \in StreamRecord /\ u.win = t.win + k /\ u.given = t.given + k
          /\ u.state = t.state /\ u.known = t.known /\ u.seen = t.seen /\ u.rejected = t.rejected
          /\ u.out = t.out /\ u.sent = t.sent /\ u.endSent = t.endSent /\ u.endAfter = t.endAfter
          /\ u.answered = t.answered
      <3>1. t \in StreamRecord /\ k \in Nat /\ u = Given(t, k)
        BY <1>1, <1>6
      <3>. QED
        BY ONLY <3>1, GivenIs
    <2>2. StreamInv(s, u, Others)
      <3>1. t.known => u.win = Others.window + u.given - u.sent
        <4>1. t.win \in Int /\ t.given \in Nat /\ t.sent \in Nat /\ Others.window \in Int
          BY <1>6, StandingTypes, ConnIs, Http2Constants DEF StreamRecord
        <4>2. t.known => t.win = Others.window + t.given - t.sent
          BY <1>6 DEF StreamInv
        <4>. QED
          BY <2>1, <4>1, <4>2
      <3>. QED
        BY <1>6, <2>1, <3>1 DEF StreamInv, NotYetOpened, OpenedByClient, HasBeenRequested,
         BodyAfterHandler, UntouchedBefore, NoEndWhileProduced, EndIsWhole, StateFits, BlockFits,
         NotOrphaned, Held
    <2>3. PICK y, c : y = Others' /\ c = With(Conn, s, u)
      OBVIOUS
    <2>4. Apart(Conn, s, y) /\ Conn.stream[s] = t
      BY <1>1, <1>2, <1>4, <2>3, TakenApart, ConnIs, OthersNext, StandingTypes
    <2>5. /\ Apart(c, s, y) /\ c.stream[s] = u
          /\ \A r \in Streams \ {s} : c.stream[r] = Conn.stream[r]
      BY <2>1, <2>3, <2>4, ApartWith
    <2>6. /\ ConnInv(FlushStream(c, s), y)
          /\ \A r \in Streams \ {s} : FlushStream(c, s).stream[r] = c.stream[r]
          /\ FlushStream(c, s).stream[s].answered = c.stream[s].answered
      BY <1>3, <2>2, <2>3, <2>5, FlushTogether
    <2>7. Quiet(Conn, FlushStream(c, s))
      BY <2>1, <2>4, <2>5, <2>6 DEF Quiet
    <2>8. Settle(FlushStream(c, s))
      BY <1>2, <1>8, <2>3
    <2>9. ConnInv(Conn', Others') /\ NoAnswerAfterClose
      BY <2>3, <2>6, <2>7, <2>8, Settled
    <2>. QED
      BY <1>5, <2>9 DEF Preserved
  <1>. QED
    BY <1>7, <1>8

\* SETTINGS moves the window of every stream.
LEMMA MovedIs ==
  ASSUME NEW t, t \in StreamRecord, NEW a \in Int, NEW u, u = [t EXCEPT !.win = a]
  PROVE  /\ u \in StreamRecord /\ u.win = a /\ u.given = t.given
         /\ u.state = t.state /\ u.known = t.known /\ u.seen = t.seen /\ u.rejected = t.rejected
         /\ u.out = t.out /\ u.sent = t.sent /\ u.endSent = t.endSent /\ u.endAfter = t.endAfter
         /\ u.answered = t.answered
  BY DEF StreamRecord

LEMMA OnSettingsKeeps ==
  ASSUME Standing, NEW w \in PeerWindows, OnSettings(w)
  PROVE  Preserved
  <1>1. PICK y, moved : y = Others' /\ moved = [Conn EXCEPT !.stream = Adjusted(w)]
    OBVIOUS
  <1>2. /\ FrameRead /\ credits < CreditBound /\ credits' = credits + 1 /\ peerInit' = w
        /\ Settle(IF w > peerInit THEN FlushAll(moved) ELSE moved)
        /\ UNCHANGED <<streamLimit, serving, flags, bodies, handler, pend, lastId, opened, ended,
                       credit, granted, producer, serve, up>>
    BY <1>1 DEF OnSettings, Whole, heads, clientSide, serving, flags, bodies
  <1>3. w \in 0..MaxWindow /\ w \in Int /\ peerInit \in Int
    BY StandingTypes, Http2Constants
  <1>4. H2Types' /\ LoopInv2'
    <2>1. credits' \in 0..CreditBound
      BY <1>2, StandingTypes, Http2Constants
    <2>. QED
      BY <1>2, <1>3, <2>1, FrameTypes, StandingTypes
  <1>5. moved = [stream |-> Adjusted(w), recent |-> recent, cwin |-> cwin]
    BY <1>1 DEF Conn
  <1>6. ConnInv(Conn, Others) /\ ConnTypes(Conn)
    BY StandingTypes DEF ConnInv, Base
  <1>7. recent \in SeqOf(Streams, RecentlyReset) /\ cwin \in 0..MaxWindow
    BY <1>6, ConnIs DEF ConnTypes
  <1>8. ASSUME NEW s \in Streams
        PROVE  /\ Adjusted(w)[s] \in StreamRecord /\ Adjusted(w)[s].sent = stream[s].sent
               /\ StreamInv(s, Adjusted(w)[s], y) /\ Adjusted(w)[s].answered = stream[s].answered
               /\ w <= peerInit => Flushed(Adjusted(w)[s], cwin)
    <2>1. PICK t, u : t = stream[s] /\ u = Adjusted(w)[s]
      OBVIOUS
    <2>2. t \in StreamRecord /\ StreamInv(s, t, Others) /\ Flushed(t, cwin) /\ cwin \in Nat
      BY <2>1, TheStream
    <2>3. t.win \in Int /\ t.given \in Nat /\ t.sent \in Nat /\ t.out \in Nat
      BY <2>2 DEF StreamRecord
    <2>4. PICK a \in Int : a = IF t.known THEN t.win + w - peerInit ELSE t.win
      BY <1>3, <2>3
    <2>5. u = [t EXCEPT !.win = a]
      <3>1. CASE t.known
        BY <2>1, <2>4, <3>1 DEF Adjusted
      <3>2. CASE ~t.known
        <4>1. u = t /\ a = t.win
          BY <2>1, <2>4, <3>2 DEF Adjusted
        <4>. QED
          BY <2>2, <4>1 DEF StreamRecord
      <3>. QED
        BY <3>1, <3>2
    <2>6. /\ u \in StreamRecord /\ u.win = a /\ u.given = t.given
          /\ u.state = t.state /\ u.known = t.known /\ u.seen = t.seen /\ u.rejected = t.rejected
          /\ u.out = t.out /\ u.sent = t.sent /\ u.endSent = t.endSent /\ u.endAfter = t.endAfter
          /\ u.answered = t.answered
      BY <2>2, <2>5, MovedIs
    <2>7. u.known => u.win = y.window + u.given - u.sent
      <3>1. t.known => t.win = peerInit + t.given - t.sent
        BY <2>2, ConnIs DEF StreamInv
      <3>2. t.known => t.win + w - peerInit = w + t.given - t.sent
        BY <1>3, <2>3, <3>1
      <3>. QED
        BY <1>1, <1>2, <2>4, <2>6, <3>2, OthersNext
    <2>8. StreamInv(s, u, y)
      BY <1>1, <1>2, <2>2, <2>6, <2>7, ConnIs, OthersNext DEF StreamInv, NotYetOpened,
         OpenedByClient, HasBeenRequested,
         BodyAfterHandler, UntouchedBefore, NoEndWhileProduced, EndIsWhole, StateFits, BlockFits,
         NotOrphaned, Held
    <2>9. ASSUME w <= peerInit PROVE Flushed(u, cwin)
      <3>1. a <= t.win
        BY <1>3, <2>3, <2>4, <2>9
      <3>2. Flushed(t, cwin) /\ t.known /\ t.state # "closed" => t.out = 0 \/ cwin = 0 \/ t.win <= 0
        BY <2>2, SendableIs DEF Flushed
      <3>3. u.known /\ u.state # "closed" => u.out = 0 \/ cwin = 0 \/ u.win <= 0
        BY <2>2, <2>3, <2>6, <3>1, <3>2
      <3>. QED
        BY <2>2, <2>6, <3>3, SendableIs DEF Flushed
    <2>. QED
      BY <2>1, <2>6, <2>8, <2>9
  <1>9. Adjusted(w) \in [Streams -> StreamRecord]
    BY <1>8 DEF Adjusted
  <1>10. Octets(Adjusted(w)) = Octets(stream)
    <2>1. stream \in [Streams -> StreamRecord]
      BY <1>6, ConnIs DEF ConnTypes
    <2>. QED
      BY <1>8, <1>9, <2>1, OctetsSame
  <1>11. ConnTypes(moved) /\ moved.stream = Adjusted(w) /\ moved.cwin = cwin
    BY <1>5, <1>7, <1>9 DEF ConnTypes
  <1>12. Base(moved, y)
    <2>1. y.window \in Int /\ y.granted \in Int /\ y.granted = granted
      BY <1>1, <1>2, <1>3, OthersNext, StandingTypes
    <2>2. cwin + Octets(stream) = DefaultWindow + granted
      BY <1>6, ConnIs DEF ConnInv, Base
    <2>. QED
      BY <1>8, <1>10, <1>11, <2>1, <2>2 DEF Base
  <1>13. CASE w > peerInit
    <2>1. /\ ConnInv(FlushAll(moved), y)
          /\ \A s \in Streams : FlushAll(moved).stream[s].answered = moved.stream[s].answered
      BY <1>12, FlushAllInv
    <2>2. Quiet(Conn, FlushAll(moved))
      BY <1>8, <1>11, <2>1, ConnIs DEF Quiet
    <2>. QED
      BY <1>1, <1>2, <1>4, <1>13, <2>1, <2>2, Settled DEF Preserved
  <1>14. CASE ~(w > peerInit)
    <2>1. ConnInv(moved, y)
      BY <1>3, <1>8, <1>11, <1>12, <1>14 DEF ConnInv
    <2>2. Quiet(Conn, moved)
      BY <1>8, <1>11, ConnIs DEF Quiet
    <2>. QED
      BY <1>1, <1>2, <1>4, <1>14, <2>1, <2>2, Settled DEF Preserved
  <1>. QED
    BY <1>13, <1>14

LEMMA OnConnectionCreditKeeps ==
  ASSUME Standing, NEW k \in Nat, OnConnectionCredit(k)
  PROVE  Preserved
  <1>1. PICK y, more : y = Others' /\ more = [Conn EXCEPT !.cwin = @ + k]
    OBVIOUS
  <1>2. /\ FrameRead /\ credits < CreditBound /\ credits' = credits + 1
        /\ cwin + k <= MaxWindow /\ granted' = granted + k /\ Settle(FlushAll(more))
        /\ UNCHANGED <<streamLimit, serving, flags, bodies, handler, pend, lastId, opened, ended,
                       credit, peerInit, producer, serve, up>>
    BY <1>1 DEF OnConnectionCredit, Whole, heads, clientSide, serving, flags, bodies
  <1>3. H2Types' /\ LoopInv2'
    <2>1. credits' \in 0..CreditBound /\ granted' \in Nat
      BY <1>2, StandingTypes, Http2Constants
    <2>. QED
      BY <1>2, <2>1, FrameTypes, StandingTypes
  <1>4. ConnInv(Conn, Others) /\ ConnTypes(Conn)
    BY StandingTypes DEF ConnInv, Base
  <1>5. /\ recent \in SeqOf(Streams, RecentlyReset) /\ cwin \in 0..MaxWindow
        /\ stream \in [Streams -> StreamRecord] /\ MaxWindow \in Nat
    BY <1>4, ConnIs, Http2Constants DEF ConnTypes
  <1>6. PICK a \in 0..MaxWindow : a = cwin + k
    BY <1>2, <1>5
  <1>7. more = [stream |-> stream, recent |-> recent, cwin |-> a]
    BY <1>1, <1>6 DEF Conn
  <1>8. ConnTypes(more) /\ more.stream = stream /\ more.cwin = a
    BY <1>5, <1>7 DEF ConnTypes
  <1>9. \A s \in Streams : StreamInv(s, stream[s], y)
    <2>1. \A s \in Streams : SameFor(s, Others, y)
      BY <1>1, <1>2, ConnIs, OthersNext, StandingTypes DEF SameFor
    <2>. QED
      BY <2>1, TheStream, SameForKeeps
  <1>10. Base(more, y)
    <2>1. y.window \in Int /\ y.granted \in Int /\ y.granted = granted + k
      BY <1>1, <1>2, OthersNext, StandingTypes, Http2Constants
    <2>2. cwin + Octets(stream) = DefaultWindow + granted
      BY <1>4, ConnIs DEF ConnInv, Base
    <2>3. Octets(stream) \in Int
      BY <1>5, OctetsSame
    <2>4. a + Octets(stream) = DefaultWindow + y.granted
      <3>1. PICK o \in Int, d \in Int, g \in Int : o = Octets(stream) /\ d = DefaultWindow
              /\ g = granted
        BY <2>3, StandingTypes, Http2Constants
      <3>2. cwin + o = d + g /\ a = cwin + k /\ cwin \in Int
        BY <1>5, <1>6, <2>2, <3>1
      <3>3. a + o = d + (g + k)
        BY <3>2
      <3>. QED
        BY <2>1, <3>1, <3>3
    <2>. QED
      BY <1>8, <1>9, <2>1, <2>4 DEF Base
  <1>11. /\ ConnInv(FlushAll(more), y)
         /\ \A s \in Streams : FlushAll(more).stream[s].answered = more.stream[s].answered
    BY <1>10, FlushAllInv
  <1>12. Quiet(Conn, FlushAll(more))
    BY <1>8, <1>11, ConnIs DEF Quiet
  <1>. QED
    BY <1>1, <1>2, <1>3, <1>11, <1>12, Settled DEF Preserved

\* Nothing of the streams changes.
LEMMA StreamsSame ==
  ASSUME Standing, UNCHANGED conn, \A r \in Streams : SameFor(r, Others, Others'),
         peerInit' = peerInit, granted' = granted
  PROVE  ConnInv(Conn', Others') /\ NoAnswerAfterClose
  <1>1. PICK s \in Streams : s = 1
    BY Http2Constants DEF Streams
  <1>2. StreamInv(s, stream[s], Others')
    BY TheStream, SameForKeeps
  <1>. QED
    BY <1>2, StepBy

-----------------------------------------------------------------------------
(* The loop, its end and the network. *)
\* Nothing that is said of the streams changes, or the loop ends.
LEMMA NothingMoves ==
  ASSUME Standing, UNCHANGED <<conn, handler, producer, clientSide, heads, peerInit, granted>>,
         serve' \in InLoop /\ up' => serve \in InLoop /\ up
  PROVE  ConnInv(Conn', Others') /\ NoAnswerAfterClose
  <1>1. UNCHANGED <<opened, ended, pend, lastId>> /\ lastId \in Nat
    BY StandingTypes, ConnIs DEF clientSide, heads
  <1>2. \A r \in Streams : SameFor(r, Others, Others')
    <2>1. Others'.live => Others.live
      BY DEF Others
    <2>2. /\ Others'.handler = Others.handler /\ Others'.producer = Others.producer
          /\ Others'.opened = Others.opened /\ Others'.ended = Others.ended
          /\ Others'.pend = Others.pend /\ Others'.window = Others.window
          /\ Others'.lastId = Others.lastId /\ Others.lastId \in Nat
      BY <1>1, ConnIs, OthersNext
    <2>. QED
      BY <2>1, <2>2 DEF SameFor
  <1>. QED
    BY <1>2, StreamsSame

LEMMA BadFrameKeeps ==
  ASSUME Standing, BadFrame
  PROVE  Preserved
  <1>1. UNCHANGED <<conn, handler, producer, clientSide, heads, peerInit, granted>>
          /\ serve' = "failing"
    BY DEF BadFrame, bodies, grants
  <1>2. ConnInv(Conn', Others') /\ NoAnswerAfterClose
    BY <1>1, NothingMoves DEF InLoop
  <1>3. H2Types'
    BY <1>1 DEF BadFrame, Standing, H2Types, heads, flags, bodies, clientSide, grants
  <1>4. LoopInv2'
    BY <1>1 DEF BadFrame, Standing, LoopInv2, heads, flags, bodies, InLoop
  <1>. QED
    BY <1>2, <1>3, <1>4 DEF Preserved

LEMMA OnGoawayKeeps ==
  ASSUME Standing, OnGoaway \/ ReadFails
  PROVE  Preserved
  <1>1. /\ UNCHANGED <<conn, handler, producer, clientSide, heads, peerInit, granted>>
        /\ serve' = "leaving" /\ UNCHANGED <<streamLimit, snap, flags, bodies, grants>>
    BY DEF OnGoaway, ReadFails, LoopTo, bodies, grants
  <1>2. ConnInv(Conn', Others') /\ NoAnswerAfterClose
    BY <1>1, NothingMoves DEF InLoop
  <1>3. H2Types'
    BY <1>1 DEF Standing, H2Types, heads, flags, bodies, clientSide, grants
  <1>4. LoopInv2'
    BY <1>1 DEF Standing, LoopInv2, heads, flags, bodies, InLoop
  <1>. QED
    BY <1>2, <1>3, <1>4 DEF Preserved

LEMMA IdleTimesOutKeeps ==
  ASSUME Standing, IdleTimesOut
  PROVE  Preserved
  <1>1. /\ UNCHANGED <<conn, handler, producer, clientSide, heads, peerInit, granted>>
        /\ serve = "serving" /\ serve' = "polled" /\ UNCHANGED <<streamLimit, flags, bodies, grants>>
        /\ snap' \subseteq producers
    BY DEF IdleTimesOut, LoopTo, bodies, grants
  <1>2. ConnInv(Conn', Others') /\ NoAnswerAfterClose
    BY <1>1, NothingMoves DEF InLoop, flags
  <1>3. H2Types'
    BY <1>1 DEF Standing, H2Types, heads, flags, bodies, clientSide, grants, InLoop
  <1>4. LoopInv2'
    BY <1>1 DEF Standing, LoopInv2, heads, flags, bodies, InLoop
  <1>. QED
    BY <1>2, <1>3, <1>4 DEF Preserved

LEMMA KeepAliveProducersKeeps ==
  ASSUME Standing, KeepAliveProducers
  PROVE  Preserved
  <1>1. /\ UNCHANGED <<conn, handler, producer, clientSide, heads, peerInit, granted>>
        /\ serve = "polled" /\ serve' \in {"serving", "handling"}
        /\ UNCHANGED <<streamLimit, flags, chunks, starting, grants>>
        /\ snap' = {} /\ producers' = snap
    BY DEF KeepAliveProducers, LoopTo, grants
  <1>2. ConnInv(Conn', Others') /\ NoAnswerAfterClose
    BY <1>1, NothingMoves DEF InLoop, flags
  <1>3. H2Types'
    BY <1>1 DEF Standing, H2Types, heads, flags, clientSide, grants, InLoop
  <1>4. LoopInv2'
    BY <1>1 DEF Standing, LoopInv2, heads, flags, InLoop
  <1>. QED
    BY <1>2, <1>3, <1>4 DEF Preserved

LEMMA PollHandlersKeeps ==
  ASSUME Standing, PollHandlers
  PROVE  Preserved
  <1>1. /\ UNCHANGED <<conn, handler, producer, clientSide, heads, peerInit, granted>>
        /\ serve = "handling" /\ serve' \in {"serving", "leaving"}
        /\ UNCHANGED <<streamLimit, snap, flags, bodies, grants>>
    BY DEF PollHandlers, LoopTo, bodies, grants
  <1>2. ConnInv(Conn', Others') /\ NoAnswerAfterClose
    BY <1>1, NothingMoves DEF InLoop, flags
  <1>3. H2Types'
    BY <1>1 DEF Standing, H2Types, heads, flags, bodies, clientSide, grants, InLoop
  <1>4. LoopInv2'
    BY <1>1 DEF Standing, LoopInv2, heads, flags, bodies, InLoop
  <1>. QED
    BY <1>2, <1>3, <1>4 DEF Preserved

\* The rest of serve(), the loop being over, and the network.
LEMMA LeavingKeeps ==
  ASSUME Standing, Abandon \/ StopReading \/ JoinProducers \/ JoinUnstarted
  PROVE  Preserved
  <1>1. /\ UNCHANGED <<conn, handler, producer, clientSide, heads, peerInit, granted>>
        /\ serve' \in {"leaving", "joining", "over"} /\ UNCHANGED <<streamLimit, snap, bodies, grants>>
        /\ up' \in {up, FALSE} /\ reading' \in {reading, FALSE} /\ abandoned' \in {abandoned, TRUE}
    BY DEF Abandon, StopReading, JoinProducers, JoinUnstarted, LoopTo, bodies, grants
  <1>2. ConnInv(Conn', Others') /\ NoAnswerAfterClose
    BY <1>1, NothingMoves DEF InLoop
  <1>3. H2Types'
    <2>1. /\ serve' \in InLoop \cup {"failing", "leaving", "stopping", "joining", "over"}
          /\ up' \in BOOLEAN /\ reading' \in BOOLEAN /\ abandoned' \in BOOLEAN
      BY <1>1 DEF Standing, H2Types
    <2>2. UNCHANGED <<streamLimit, lastId, pend, peerInit, credits, granted, snap, producers,
                      handler, producer, chunks, starting, opened, ended, credit>>
      BY <1>1 DEF heads, bodies, clientSide, grants
    <2>. QED
      BY <2>1, <2>2 DEF Standing, H2Types
  <1>4. LoopInv2'
    BY <1>1 DEF Standing, LoopInv2, heads, bodies, InLoop
  <1>. QED
    BY <1>2, <1>3, <1>4 DEF Preserved

LEMMA LinkLostKeeps ==
  ASSUME Standing, LinkLost
  PROVE  Preserved
  <1>1. /\ UNCHANGED <<conn, handler, producer, clientSide, heads, peerInit, granted>>
        /\ up' = FALSE /\ UNCHANGED <<streamLimit, serving, reading, abandoned, bodies, grants>>
    BY DEF LinkLost, bodies, grants
  <1>2. ConnInv(Conn', Others') /\ NoAnswerAfterClose
    BY <1>1, NothingMoves
  <1>3. H2Types'
    BY <1>1 DEF Standing, H2Types, heads, serving, bodies, clientSide, grants
  <1>4. LoopInv2'
    BY <1>1 DEF Standing, LoopInv2, heads, serving, bodies
  <1>. QED
    BY <1>2, <1>3, <1>4 DEF Preserved

LEMMA StayEndedKeeps ==
  ASSUME Standing, UNCHANGED h2Vars
  PROVE  Preserved
  <1>1. /\ UNCHANGED <<conn, handler, producer, clientSide, heads, peerInit, granted>>
        /\ UNCHANGED <<streamLimit, serving, flags, bodies, grants>>
    BY DEF h2Vars, bodies, grants
  <1>2. ConnInv(Conn', Others') /\ NoAnswerAfterClose
    BY <1>1, NothingMoves DEF serving, flags
  <1>3. H2Types'
    BY <1>1 DEF Standing, H2Types, heads, serving, flags, bodies, clientSide, grants
  <1>4. LoopInv2'
    BY <1>1 DEF Standing, LoopInv2, heads, serving, flags, bodies
  <1>. QED
    BY <1>2, <1>3, <1>4 DEF Preserved

\* Handlers the pool has not begun are cancelled, when the loop is over.
LEMMA FinishHandlersKeeps ==
  ASSUME Standing, FinishHandlers
  PROVE  Preserved
  <1>1. /\ UNCHANGED <<conn, producer, clientSide, heads, peerInit, granted>>
        /\ serve' = "stopping" /\ UNCHANGED <<streamLimit, snap, flags, bodies, grants>>
        /\ handler' = [s \in Streams |-> IF handler[s] = "queued" THEN "cancelled" ELSE handler[s]]
        /\ UNCHANGED <<lastId, pend, opened, ended>>
    BY DEF FinishHandlers, LoopTo, bodies, grants, heads, clientSide
  <1>2. handler \in HandlersOfStreams /\ handler' \in HandlersOfStreams
    <2>1. handler \in HandlersOfStreams
      BY StandingTypes
    <2>. QED
      BY <1>1, <2>1 DEF HandlersOfStreams
  <1>3. ASSUME NEW s \in Streams PROVE StreamInv(s, stream[s], Others')
    <2>1. PICK t : t = stream[s]
      OBVIOUS
    <2>2. StreamInv(s, t, Others)
      BY <2>1, TheStream
    <2>3. handler'[s] = (IF handler[s] = "queued" THEN "cancelled" ELSE handler[s])
      BY <1>1
    <2>4. ~Others'.live
      BY <1>1, OthersNext DEF InLoop
    <2>5. NotYetOpened(s, t, Others') /\ OpenedByClient(s, t, Others')
      BY <1>1, <2>2, <2>3, ConnIs, OthersNext DEF StreamInv, NotYetOpened, OpenedByClient
    <2>6. HasBeenRequested(s, t, Others') /\ BodyAfterHandler(s, Others')
      BY <1>1, <2>2, <2>3, ConnIs, OthersNext DEF StreamInv, HasBeenRequested, BodyAfterHandler
    <2>7. UntouchedBefore(s, t, Others') /\ NoEndWhileProduced(s, t, Others') /\ EndIsWhole(t)
      BY <1>1, <2>2, <2>3, ConnIs, OthersNext DEF StreamInv, UntouchedBefore, NoEndWhileProduced
    <2>8. StateFits(s, t, Others') /\ BlockFits(s, t, Others')
      BY <1>1, <2>2, ConnIs, OthersNext DEF StreamInv, StateFits, BlockFits
    <2>9. NotOrphaned(s, t, Others')
      BY <2>4 DEF NotOrphaned
    <2>10. t.known => t.win = Others'.window + t.given - t.sent
      BY <1>1, <2>2, ConnIs, OthersNext DEF StreamInv
    <2>. QED
      BY <2>1, <2>5, <2>6, <2>7, <2>8, <2>9, <2>10 DEF StreamInv
  <1>4. Conn' = Conn /\ stream' = stream
    BY <1>1 DEF Conn, conn
  <1>5. ConnInv(Conn, Others')
    BY <1>1, <1>3, StandingTypes, ConnIs, OthersNext DEF ConnInv, Base
  <1>6. ConnInv(Conn', Others') /\ NoAnswerAfterClose
    BY <1>4, <1>5 DEF NoAnswerAfterClose
  <1>7. H2Types'
    BY <1>1, <1>2 DEF Standing, H2Types, heads, flags, bodies, clientSide, grants, HandlersOfStreams
  <1>8. LoopInv2'
    <2>1. starting # None => starting \in Streams
      BY DEF Standing, H2Types
    <2>. QED
      BY <1>1, <2>1 DEF Standing, LoopInv2, flags, bodies, InLoop
  <1>. QED
    BY <1>6, <1>7, <1>8 DEF Preserved

-----------------------------------------------------------------------------
(* Handlers. *)
\* A stream whose request has been given to a handler.
Worked(s, u, y) ==
  /\ s \in y.opened /\ s \in y.ended /\ s <= y.lastId /\ y.lastId \in Nat /\ y.pend.s # s
  /\ u.known \/ u.state = "closed"
  /\ u.known => /\ u.win = y.window + u.given - u.sent
                /\ u.state # "idle"
                /\ u.rejected \/ u.state \in {"remote", "closed"}
Going(s, u, y) ==
  /\ BodyAfterHandler(s, y) /\ UntouchedBefore(s, u, y) /\ NoEndWhileProduced(s, u, y)
  /\ EndIsWhole(u) /\ NotOrphaned(s, u, y)

LEMMA WorkedIsFine ==
  ASSUME NEW s \in Streams, NEW u, NEW y, Worked(s, u, y), Going(s, u, y)
  PROVE  StreamInv(s, u, y)
  <1>1. s \in Nat /\ ~(s > y.lastId)
    BY DEF Streams, Worked
  <1>. QED
    BY <1>1 DEF Worked, Going, StreamInv, NotYetOpened, OpenedByClient, HasBeenRequested,
       StateFits, BlockFits

LEMMA HasHandler ==
  ASSUME Standing, NEW s \in Streams, handler[s] # "none"
  PROVE  Worked(s, stream[s], Others) /\ Going(s, stream[s], Others)
  <1>1. StreamInv(s, stream[s], Others)
    BY TheStream
  <1>2. s \in Nat /\ lastId \in Nat /\ Others.lastId \in Nat
    BY StandingTypes, ConnIs DEF Streams
  <1>3. s \in ended /\ s \in opened /\ pend.s # s /\ (stream[s].known \/ stream[s].state = "closed")
    BY <1>1, ConnIs, StandingTypes DEF StreamInv, HasBeenRequested
  <1>4. s <= lastId
    BY <1>1, <1>2, <1>3, ConnIs DEF StreamInv, NotYetOpened
  <1>5. Going(s, stream[s], Others)
    BY <1>1 DEF StreamInv, Going
  <1>6. stream[s].known => /\ stream[s].win = Others.window + stream[s].given - stream[s].sent
                           /\ stream[s].state # "idle"
                           /\ stream[s].rejected \/ stream[s].state \in {"remote", "closed"}
    BY <1>1, <1>3, ConnIs DEF StreamInv, StateFits
  <1>. QED
    BY <1>2, <1>3, <1>4, <1>5, <1>6, ConnIs DEF Worked

LEMMA WorkTypes ==
  ASSUME Standing, UNCHANGED <<streamLimit, heads, serving, flags, clientSide, grants>>,
         handler' \in HandlersOfStreams,
         producer' \in [Streams -> {"none", "unstarted", "done", "escaped"} \cup Alive],
         chunks' \in [Streams -> 0..ChunkBound], producers' \subseteq Streams,
         starting' \in Streams \cup {None},
         starting' # None => handler'[starting'] = "starting" /\ producer'[starting'] = "unstarted"
  PROVE  H2Types' /\ LoopInv2'
  <1>1. H2Types'
    BY DEF Standing, H2Types, heads, serving, flags, clientSide, grants, HandlersOfStreams
  <1>2. LoopInv2'
    BY DEF Standing, LoopInv2, heads, serving, flags
  <1>. QED
    BY <1>1, <1>2

LEMMA WorkApart ==
  ASSUME Standing, UNCHANGED <<streamLimit, heads, serving, flags, clientSide, grants>>,
         NEW s \in Streams,
         \A r \in Streams \ {s} : handler'[r] = handler[r] /\ producer'[r] = producer[r]
  PROVE  /\ \A r \in Streams \ {s} : SameFor(r, Others, Others')
         /\ UNCHANGED <<peerInit, granted, lastId, pend, opened, ended, serve, up, reading, abandoned>>
         /\ \A u : Worked(s, u, Others) => Worked(s, u, Others')
         /\ Others'.live <=> Others.live
  <1>1. UNCHANGED <<peerInit, granted, lastId, pend, opened, ended, serve, up, reading, abandoned>>
    BY DEF heads, serving, flags, clientSide, grants
  <1>2. Others'.live <=> Others.live
    BY <1>1 DEF Others
  <1>3. \A r \in Streams \ {s} : SameFor(r, Others, Others')
    BY <1>1, <1>2, ConnIs, OthersNext, StandingTypes DEF SameFor
  <1>4. \A u : Worked(s, u, Others) => Worked(s, u, Others')
    BY <1>1, ConnIs, OthersNext DEF Worked
  <1>. QED
    BY <1>1, <1>2, <1>3, <1>4

LEMMA MoreTypes ==
  ASSUME Standing
  PROVE  /\ handler \in HandlersOfStreams
         /\ producer \in [Streams -> {"none", "unstarted", "done", "escaped"} \cup Alive]
         /\ chunks \in [Streams -> 0..ChunkBound] /\ producers \subseteq Streams
         /\ starting \in Streams \cup {None}
         /\ starting # None => handler[starting] = "starting" /\ producer[starting] = "unstarted"
  BY DEF Standing, H2Types, LoopInv2, HandlersOfStreams

\* The loop is over when no answer may be given, or none arrives.
LEMMA NotAnswerable ==
  ASSUME Standing, NEW s \in Streams, ~Answerable(s) \/ ~up \/ ~reading
  PROVE  stream[s].state = "closed" \/ ~Others.live
  BY ConnIs DEF Answerable, Standing, LoopInv2

LEMMA RunHandlerKeeps ==
  ASSUME Standing, NEW s \in Streams, RunHandler(s)
  PROVE  Preserved
  <1>1. /\ handler[s] = "queued" /\ handler' = [handler EXCEPT ![s] = "running"]
        /\ UNCHANGED <<streamLimit, heads, serving, flags, clientSide, grants>> /\ UNCHANGED conn
        /\ UNCHANGED <<producer, chunks, producers, starting>>
    BY DEF RunHandler, bodies
  <1>2. handler' \in HandlersOfStreams /\ handler'[s] = "running"
    BY <1>1, MoreTypes DEF HandlersOfStreams, Working
  <1>3. \A r \in Streams \ {s} : handler'[r] = handler[r] /\ producer'[r] = producer[r]
    BY <1>1, MoreTypes DEF HandlersOfStreams
  <1>4. H2Types' /\ LoopInv2'
    <2>1. starting' # None => handler'[starting'] = "starting" /\ producer'[starting'] = "unstarted"
      BY <1>1, <1>3, MoreTypes
    <2>. QED
      BY <1>1, <1>2, <2>1, MoreTypes, WorkTypes
  <1>5. Worked(s, stream[s], Others')
    BY <1>1, <1>3, HasHandler, WorkApart
  <1>6. Going(s, stream[s], Others')
    <2>1. Going(s, stream[s], Others)
      BY <1>1, HasHandler
    <2>2. /\ Others.handler[s] = "queued" /\ Others'.handler[s] = "running"
          /\ Others.producer[s] = Others'.producer[s]
      BY <1>1, <1>2, ConnIs, OthersNext
    <2>3. BodyAfterHandler(s, Others') /\ UntouchedBefore(s, stream[s], Others')
          /\ NoEndWhileProduced(s, stream[s], Others')
      BY <2>1, <2>2 DEF Going, BodyAfterHandler, UntouchedBefore, NoEndWhileProduced
    <2>4. NotOrphaned(s, stream[s], Others')
      BY <2>2 DEF NotOrphaned, Held, Working
    <2>. QED
      BY <2>1, <2>3, <2>4 DEF Going
  <1>7. ConnInv(Conn', Others') /\ NoAnswerAfterClose
    BY <1>1, <1>3, <1>5, <1>6, WorkApart, WorkedIsFine, StepBy
  <1>. QED
    BY <1>4, <1>7 DEF Preserved

\* A handler that ends by what is no Exception leaves its stream as it was.
LEMMA HandlerEscapesKeeps ==
  ASSUME Standing, NEW s \in Streams, HandlerEscapes(s)
  PROVE  Preserved
  <1>1. /\ handler[s] = "running" /\ handler' = [handler EXCEPT ![s] = "escaped"]
        /\ UNCHANGED <<streamLimit, heads, serving, flags, clientSide, grants>> /\ UNCHANGED conn
        /\ UNCHANGED <<producer, chunks, producers, starting>>
    BY DEF HandlerEscapes, HandlerTo, bodies
  <1>2. handler' \in HandlersOfStreams /\ handler'[s] = "escaped"
    BY <1>1, MoreTypes DEF HandlersOfStreams, Working
  <1>3. \A r \in Streams \ {s} : handler'[r] = handler[r] /\ producer'[r] = producer[r]
    BY <1>1, MoreTypes DEF HandlersOfStreams
  <1>4. H2Types' /\ LoopInv2'
    <2>1. starting' # None => handler'[starting'] = "starting" /\ producer'[starting'] = "unstarted"
      BY <1>1, <1>3, MoreTypes
    <2>. QED
      BY <1>1, <1>2, <2>1, MoreTypes, WorkTypes
  <1>5. Worked(s, stream[s], Others')
    BY <1>1, <1>3, HasHandler, WorkApart
  <1>6. Going(s, stream[s], Others')
    <2>1. Going(s, stream[s], Others)
      BY <1>1, HasHandler
    <2>2. /\ Others.handler[s] = "running" /\ Others'.handler[s] = "escaped"
          /\ Others.producer[s] = Others'.producer[s]
      BY <1>1, <1>2, ConnIs, OthersNext
    <2>3. BodyAfterHandler(s, Others') /\ UntouchedBefore(s, stream[s], Others')
          /\ NoEndWhileProduced(s, stream[s], Others')
      BY <2>1, <2>2 DEF Going, BodyAfterHandler, UntouchedBefore, NoEndWhileProduced
    <2>4. NotOrphaned(s, stream[s], Others')
      BY <2>2 DEF NotOrphaned, Held
    <2>. QED
      BY <2>1, <2>3, <2>4 DEF Going
  <1>7. ConnInv(Conn', Others') /\ NoAnswerAfterClose
    BY <1>1, <1>3, <1>5, <1>6, WorkApart, WorkedIsFine, StepBy
  <1>. QED
    BY <1>4, <1>7 DEF Preserved

\* A handler ends: its stream is as it was, or is closed.
LEMMA HandlerEnds ==
  ASSUME Standing, NEW s \in Streams, handler[s] \in {"running", "failing"}, starting = None,
         HandlerTo(s, "done"), UNCHANGED bodies,
         \/ /\ stream[s].state = "closed" \/ ~Others.live
            /\ Settle(Conn) \/ UNCHANGED conn
         \/ Settle(With(Conn, s, Reset(stream[s])))
  PROVE  Preserved
  <1>1. /\ handler' = [handler EXCEPT ![s] = "done"]
        /\ UNCHANGED <<streamLimit, heads, serving, flags, clientSide, grants>>
        /\ UNCHANGED <<producer, chunks, producers, starting>>
    BY DEF HandlerTo, bodies
  <1>2. handler' \in HandlersOfStreams /\ handler'[s] = "done"
    BY <1>1, MoreTypes DEF HandlersOfStreams
  <1>3. \A r \in Streams \ {s} : handler'[r] = handler[r] /\ producer'[r] = producer[r]
    BY <1>1, MoreTypes DEF HandlersOfStreams
  <1>4. H2Types' /\ LoopInv2'
    BY <1>1, <1>2, MoreTypes, WorkTypes
  <1>5. PICK t, z : t = stream[s] /\ z = Reset(t)
    OBVIOUS
  <1>6. Worked(s, t, Others) /\ Going(s, t, Others) /\ t \in StreamRecord
    BY <1>5, HasHandler, TheStream
  <1>7. /\ Others.handler[s] \in {"running", "failing"} /\ Others'.handler[s] = "done"
        /\ Others.producer[s] = Others'.producer[s] /\ (Others'.live <=> Others.live)
    BY <1>1, <1>2, <1>3, ConnIs, OthersNext, WorkApart
  <1>8. producer[s] \in {"none", "unstarted"}
    BY <1>6, <1>7, ConnIs, MoreTypes DEF Going, BodyAfterHandler
  <1>9. ASSUME NEW u, u.out = t.out, u.endAfter = t.endAfter, u.endSent = t.endSent,
          u.rejected = t.rejected,
               u.state = "closed" \/ ~Others.live
        PROVE  Going(s, u, Others')
    <2>1. BodyAfterHandler(s, Others')
      BY <1>7 DEF BodyAfterHandler
    <2>2. UntouchedBefore(s, u, Others') /\ NoEndWhileProduced(s, u, Others') /\ EndIsWhole(u)
      BY <1>6, <1>7, <1>9 DEF Going, UntouchedBefore, NoEndWhileProduced, EndIsWhole
    <2>3. NotOrphaned(s, u, Others')
      BY <1>7, <1>9 DEF NotOrphaned
    <2>. QED
      BY <2>1, <2>2, <2>3 DEF Going
  <1>10. CASE /\ stream[s].state = "closed" \/ ~Others.live
              /\ Settle(Conn) \/ UNCHANGED conn
    <2>1. Worked(s, t, Others') /\ Going(s, t, Others')
      BY <1>1, <1>3, <1>5, <1>6, <1>9, <1>10, WorkApart
    <2>2. ConnInv(Conn', Others') /\ NoAnswerAfterClose
      BY <1>1, <1>3, <1>5, <1>10, <2>1, WorkApart, WorkedIsFine, StepBy
    <2>. QED
      BY <1>4, <2>2 DEF Preserved
  <1>11. CASE Settle(With(Conn, s, Reset(stream[s])))
    <2>1. /\ z \in StreamRecord /\ z.state = "closed"
         /\ z.known = t.known /\ z.seen = t.seen /\ z.rejected = t.rejected /\ z.out = t.out
         /\ z.win = t.win /\ z.given = t.given /\ z.sent = t.sent /\ z.endSent = t.endSent
         /\ z.endAfter = t.endAfter /\ z.answered = t.answered
      BY <1>5, <1>6, ResetIs
    <2>2. Worked(s, z, Others)
      BY <1>6, <2>1 DEF Worked
    <2>3. Worked(s, z, Others') /\ Going(s, z, Others')
      BY <1>1, <1>3, <1>9, <2>1, <2>2, WorkApart
    <2>4. StreamInv(s, z, Others')
      BY <2>3, WorkedIsFine
    <2>5. ConnInv(Conn', Others') /\ NoAnswerAfterClose
      BY <1>1, <1>3, <1>5, <1>11, <2>1, <2>4, WorkApart, StepOn DEF Flushed
    <2>. QED
      BY <1>4, <2>5 DEF Preserved
  <1>. QED
    BY <1>10, <1>11

LEMMA HandlerEndsKeeps ==
  ASSUME Standing, NEW s \in Streams,
         HandlerRaises(s) \/ Unsent(s) \/ SendFails(s) \/ FailResponse(s)
  PROVE  Preserved
  <1>1. /\ handler[s] \in {"running", "failing"} /\ starting = None
        /\ HandlerTo(s, "done") /\ UNCHANGED bodies
    BY DEF HandlerRaises, Unsent, SendFails, FailResponse, Answering
  <1>2. ASSUME Settle(ResetIfLive(s)) PROVE Preserved
    <2>1. CASE Answerable(s)
      BY <1>1, <1>2, <2>1, HandlerEnds DEF ResetIfLive
    <2>2. CASE ~Answerable(s)
      BY <1>1, <1>2, <2>2, HandlerEnds, NotAnswerable DEF ResetIfLive
    <2>. QED
      BY <2>1, <2>2
  <1>3. CASE HandlerRaises(s) \/ FailResponse(s)
    BY <1>2, <1>3 DEF HandlerRaises, FailResponse
  <1>4. CASE Unsent(s)
    <2>1. ~Answerable(s) /\ Settle(Conn)
      BY <1>4 DEF Unsent
    <2>. QED
      BY <1>1, <2>1, HandlerEnds, NotAnswerable
  <1>5. CASE SendFails(s)
    <2>1. ~up /\ UNCHANGED conn
      BY <1>5 DEF SendFails
    <2>. QED
      BY <1>1, <2>1, HandlerEnds, NotAnswerable
  <1>. QED
    BY <1>3, <1>4, <1>5

\* An answer's headers, and the end of a stream whose body is out.
Answered(t) == [t EXCEPT !.answered = @ + 1]
LEMMA AnsweredIs ==
  ASSUME NEW t, t \in StreamRecord, NEW u, u = Answered(t)
  PROVE  /\ u \in StreamRecord /\ u.state = t.state
         /\ u.known = t.known /\ u.seen = t.seen /\ u.rejected = t.rejected /\ u.out = t.out
         /\ u.win = t.win /\ u.given = t.given /\ u.sent = t.sent /\ u.endSent = t.endSent
         /\ u.endAfter = t.endAfter
  <1>1. PICK a \in Nat : a = t.answered + 1
    BY DEF StreamRecord
  <1>2. u = [t EXCEPT !.answered = a]
    BY <1>1 DEF Answered
  <1>. QED
    BY <1>2 DEF StreamRecord

LEMMA EndLocalIs ==
  ASSUME NEW t, t \in StreamRecord, NEW u, u = EndLocal(t)
  PROVE  /\ u \in StreamRecord
         /\ u.state = (IF t.state \in {"open", "idle"} THEN "local"
                       ELSE IF t.state = "remote" THEN "closed" ELSE t.state)
         /\ u.known = t.known /\ u.seen = t.seen /\ u.rejected = t.rejected /\ u.out = t.out
         /\ u.win = t.win /\ u.given = t.given /\ u.sent = t.sent /\ u.endSent
         /\ u.endAfter = t.endAfter /\ u.answered = t.answered
  <1>1. PICK st : st = IF t.state \in {"open", "idle"} THEN "local"
                       ELSE IF t.state = "remote" THEN "closed" ELSE t.state
    OBVIOUS
  <1>2. u = [t EXCEPT !.state = st, !.endSent = TRUE]
    BY <1>1 DEF EndLocal
  <1>3. st \in {"idle", "open", "remote", "local", "closed"}
    BY <1>1 DEF StreamRecord
  <1>. QED
    BY <1>1, <1>2, <1>3 DEF StreamRecord

\* What is queued for a stream goes out as far as it can.
LEMMA SendOn ==
  ASSUME Standing, NEW s \in Streams, \A r \in Streams \ {s} : SameFor(r, Others, Others'),
         peerInit' = peerInit, granted' = granted,
         NEW z, z \in StreamRecord, z.sent = stream[s].sent, NEW n \in Nat, NEW last \in BOOLEAN,
         StreamInv(s, Queued(z, n, last), Others'), stream[s].state # "closed" \/ z = stream[s],
         NEW d, d = SendData(With(Conn, s, z), s, n, last), Settle(d) \/ Become(d)
  PROVE  ConnInv(Conn', Others') /\ NoAnswerAfterClose
  <1>1. PICK y, c : y = Others' /\ c = With(Conn, s, z)
    OBVIOUS
  <1>2. Apart(Conn, s, y) /\ Conn.stream[s] = stream[s] /\ Conn.cwin = cwin
    BY <1>1, TakenApart, ConnIs, OthersNext, StandingTypes
  <1>3. /\ Apart(c, s, y) /\ c.stream[s] = z
        /\ \A r \in Streams \ {s} : c.stream[r] = Conn.stream[r]
    BY <1>1, <1>2, ApartWith
  <1>4. d = SendData(c, s, n, last) /\ StreamInv(s, Queued(c.stream[s], n, last), y)
    BY <1>1, <1>3
  <1>5. /\ ConnInv(d, y) /\ d.stream[s].answered = c.stream[s].answered
        /\ \A r \in Streams \ {s} : d.stream[r] = c.stream[r]
    BY <1>3, <1>4, SendTogether
  <1>6. Quiet(Conn, d)
    BY <1>2, <1>3, <1>5 DEF Quiet
  <1>7. CASE Settle(d)
    BY <1>1, <1>5, <1>6, <1>7, Settled
  <1>8. CASE Become(d)
    BY <1>1, <1>5, <1>6, <1>8, Became
  <1>. QED
    BY <1>7, <1>8

LEMMA AnswerKeeps ==
  ASSUME Standing, NEW s \in Streams, NEW n \in Nat, Answer(s, n)
  PROVE  Preserved
  <1>1. PICK t, u : t = stream[s] /\ u = Answered(t)
    OBVIOUS
  <1>2. /\ handler[s] = "running" /\ starting = None /\ t.state # "closed"
        /\ Settle(IF n = 0 THEN With(Conn, s, EndLocal(u)) ELSE SendData(With(Conn, s, u), s, n, TRUE))
        /\ handler' = [handler EXCEPT ![s] = "done"]
        /\ UNCHANGED <<streamLimit, heads, serving, flags, clientSide, grants>>
        /\ UNCHANGED <<producer, chunks, producers, starting>>
    BY <1>1 DEF Answer, Answering, Answerable, Answered, HandlerTo, bodies
  <1>3. handler' \in HandlersOfStreams /\ handler'[s] = "done"
    BY <1>2, MoreTypes DEF HandlersOfStreams
  <1>4. \A r \in Streams \ {s} : handler'[r] = handler[r] /\ producer'[r] = producer[r]
    BY <1>2, MoreTypes DEF HandlersOfStreams
  <1>5. H2Types' /\ LoopInv2'
    BY <1>2, <1>3, MoreTypes, WorkTypes
  <1>6. Worked(s, t, Others) /\ Going(s, t, Others) /\ t \in StreamRecord
    BY <1>1, <1>2, HasHandler, TheStream
  <1>7. /\ Others.handler[s] = "running" /\ Others'.handler[s] = "done"
        /\ Others.producer[s] = Others'.producer[s] /\ (Others'.live <=> Others.live)
    BY <1>2, <1>3, <1>4, ConnIs, OthersNext, WorkApart
  <1>8. Others.producer[s] = "none"
    BY <1>6, <1>7, ConnIs, MoreTypes DEF Going, BodyAfterHandler
  <1>9. ~t.rejected => t.out = 0 /\ ~t.endAfter /\ ~t.endSent
    BY <1>6, <1>7 DEF Going, UntouchedBefore
  <1>10. t.known
    BY <1>2, <1>6 DEF Worked
  <1>11. /\ u \in StreamRecord /\ u.state = t.state
         /\ u.known = t.known /\ u.seen = t.seen /\ u.rejected = t.rejected /\ u.out = t.out
         /\ u.win = t.win /\ u.given = t.given /\ u.sent = t.sent /\ u.endSent = t.endSent
         /\ u.endAfter = t.endAfter
    BY <1>1, <1>6, AnsweredIs
  <1>12. CASE n = 0
    <2>1. PICK z : z = EndLocal(u)
      OBVIOUS
    <2>2. /\ z \in StreamRecord
         /\ z.state = (IF u.state \in {"open", "idle"} THEN "local"
                       ELSE IF u.state = "remote" THEN "closed" ELSE u.state)
         /\ z.known = u.known /\ z.rejected = u.rejected /\ z.out = u.out
         /\ z.win = u.win /\ z.given = u.given /\ z.sent = u.sent /\ z.endSent
         /\ z.endAfter = u.endAfter
      BY <1>11, <2>1, EndLocalIs
    <2>3. z.rejected \/ z.state = "closed"
      BY <1>2, <1>6, <1>10, <1>11, <2>2 DEF Worked
    <2>4. Worked(s, z, Others)
      BY <1>6, <1>10, <1>11, <2>2, <2>3 DEF Worked
    <2>5. Worked(s, z, Others')
      BY <1>2, <1>4, <2>4, WorkApart
    <2>6. Going(s, z, Others')
      BY <1>7, <1>8, <1>9, <1>11, <2>2, <2>3 DEF Going, BodyAfterHandler, UntouchedBefore,
         NoEndWhileProduced, EndIsWhole, NotOrphaned
    <2>7. StreamInv(s, z, Others')
      BY <2>5, <2>6, WorkedIsFine
    <2>8. Flushed(z, cwin)
      <3>1. z.rejected => z.out = t.out /\ z.win = t.win
        BY <1>11, <2>2
      <3>2. Flushed(t, cwin)
        BY <1>1, TheStream
      <3>3. Flushed(z, cwin)
        BY <1>2, <1>10, <1>11, <2>2, <3>2, SameOutput
      <3>. QED
        BY <3>3
    <2>9. Settle(With(Conn, s, z)) /\ z.sent = stream[s].sent /\ stream[s].state # "closed"
      BY <1>1, <1>2, <1>11, <1>12, <2>1, <2>2
    <2>10. ConnInv(Conn', Others') /\ NoAnswerAfterClose
      BY <1>2, <1>4, <2>2, <2>7, <2>8, <2>9, WorkApart, StepOn
    <2>. QED
      BY <1>5, <2>10 DEF Preserved
  <1>13. CASE n # 0
    <2>1. PICK last \in BOOLEAN : last = TRUE
      OBVIOUS
    <2>2. PICK z, d : z = Queued(u, n, last) /\ d = SendData(With(Conn, s, u), s, n, last)
      OBVIOUS
    <2>3. /\ z \in StreamRecord /\ z.out = u.out + n /\ z.endAfter = last
         /\ z.state = u.state /\ z.known = u.known /\ z.rejected = u.rejected
         /\ z.win = u.win /\ z.given = u.given /\ z.sent = u.sent /\ z.endSent = u.endSent
      <3>1. u \in StreamRecord /\ n \in Nat /\ last \in BOOLEAN /\ z = Queued(u, n, last)
        BY <1>11, <2>2
      <3>. QED
        BY ONLY <3>1, QueuedIs
    <2>4. z.out > 0
      BY <1>11, <1>13, <2>3 DEF StreamRecord
    <2>5. Worked(s, z, Others)
      BY <1>6, <1>11, <2>3 DEF Worked
    <2>6. Worked(s, z, Others')
      BY <1>2, <1>4, <2>5, WorkApart
    <2>7. Going(s, z, Others')
      <3>1. BodyAfterHandler(s, Others') /\ UntouchedBefore(s, z, Others')
              /\ NoEndWhileProduced(s, z, Others')
        BY <1>7, <1>8 DEF BodyAfterHandler, UntouchedBefore, NoEndWhileProduced, Alive
      <3>2. EndIsWhole(z)
        BY <1>9, <1>11, <2>3 DEF EndIsWhole
      <3>3. NotOrphaned(s, z, Others')
        BY <2>1, <2>3, <2>4 DEF NotOrphaned, Held
      <3>. QED
        BY <3>1, <3>2, <3>3 DEF Going
    <2>8. StreamInv(s, z, Others')
      BY <2>6, <2>7, WorkedIsFine
    <2>9. Settle(d)
      BY <1>2, <1>13, <2>1, <2>2
    <2>10. u.sent = stream[s].sent /\ stream[s].state # "closed"
      BY <1>1, <1>2, <1>11
    <2>11. /\ \A r \in Streams \ {s} : SameFor(r, Others, Others')
           /\ peerInit' = peerInit /\ granted' = granted
      BY <1>2, <1>4, WorkApart
    <2>12. ConnInv(Conn', Others') /\ NoAnswerAfterClose
      BY <1>11, <2>2, <2>8, <2>9, <2>10, <2>11, SendOn
    <2>. QED
      BY <1>5, <2>12 DEF Preserved
  <1>. QED
    BY <1>12, <1>13

\* The handler stays at work on its stream.
LEMMA StillWorking ==
  ASSUME Standing, NEW s \in Streams, handler[s] \in Working,
         UNCHANGED <<streamLimit, heads, serving, flags, clientSide, grants>>,
         \A r \in Streams \ {s} : handler'[r] = handler[r] /\ producer'[r] = producer[r],
         \/ producer[s] \in {"none", "unstarted"} /\ handler'[s] \in {"starting", "failing"}
              /\ producer'[s] \in {producer[s], "unstarted"}
         \/ handler[s] = "starting" /\ handler'[s] = "done" /\ producer'[s] = "fetch",
         NEW u, u = stream[s] \/ u = Answered(stream[s])
  PROVE  StreamInv(s, u, Others')
  <1>1. PICK t : t = stream[s]
    OBVIOUS
  <1>2. Worked(s, t, Others) /\ Going(s, t, Others) /\ t \in StreamRecord
    BY <1>1, HasHandler, TheStream DEF Working
  <1>3. /\ u.state = t.state
         /\ u.known = t.known /\ u.rejected = t.rejected /\ u.out = t.out
         /\ u.win = t.win /\ u.given = t.given /\ u.sent = t.sent /\ u.endSent = t.endSent
         /\ u.endAfter = t.endAfter
    BY <1>1, <1>2, AnsweredIs
  <1>4. Worked(s, u, Others)
    BY <1>2, <1>3 DEF Worked
  <1>5. Worked(s, u, Others')
    BY <1>4, WorkApart
  <1>6. ~t.rejected => t.out = 0 /\ ~t.endAfter /\ ~t.endSent
    BY <1>2, ConnIs DEF Going, UntouchedBefore, Working
  <1>7. BodyAfterHandler(s, Others')
    BY <1>2, ConnIs, OthersNext DEF Going, BodyAfterHandler, Alive
  <1>8. UntouchedBefore(s, u, Others') /\ NoEndWhileProduced(s, u, Others') /\ EndIsWhole(u)
    BY <1>3, <1>6 DEF UntouchedBefore, NoEndWhileProduced, EndIsWhole
  <1>9. NotOrphaned(s, u, Others')
    BY OthersNext DEF NotOrphaned, Held, Working
  <1>. QED
    BY <1>5, <1>7, <1>8, <1>9, WorkedIsFine DEF Going

LEMMA UnencodableKeeps ==
  ASSUME Standing, NEW s \in Streams, Unencodable(s)
  PROVE  Preserved
  <1>1. /\ handler[s] = "running" /\ starting = None /\ UNCHANGED conn
        /\ handler' = [handler EXCEPT ![s] = "failing"]
        /\ UNCHANGED <<streamLimit, heads, serving, flags, clientSide, grants>>
        /\ UNCHANGED <<producer, chunks, producers, starting>>
    BY DEF Unencodable, Answering, HandlerTo, bodies
  <1>2. handler' \in HandlersOfStreams /\ handler'[s] = "failing"
    BY <1>1, MoreTypes DEF HandlersOfStreams, Working
  <1>3. \A r \in Streams \ {s} : handler'[r] = handler[r] /\ producer'[r] = producer[r]
    BY <1>1, MoreTypes DEF HandlersOfStreams
  <1>4. H2Types' /\ LoopInv2'
    BY <1>1, <1>2, MoreTypes, WorkTypes
  <1>5. producer[s] \in {"none", "unstarted"} /\ producer'[s] = producer[s]
    <2>1. Going(s, stream[s], Others)
      BY <1>1, HasHandler
    <2>. QED
      BY <1>1, <2>1, ConnIs, MoreTypes DEF Going, BodyAfterHandler
  <1>6. StreamInv(s, stream[s], Others')
    BY <1>1, <1>2, <1>3, <1>5, StillWorking DEF Working
  <1>7. ConnInv(Conn', Others') /\ NoAnswerAfterClose
    BY <1>1, <1>3, <1>6, WorkApart, StepBy
  <1>. QED
    BY <1>4, <1>7 DEF Preserved

LEMMA AnswerStreamedKeeps ==
  ASSUME Standing, NEW s \in Streams, AnswerStreamed(s)
  PROVE  Preserved
  <1>1. PICK u : u = Answered(stream[s])
    OBVIOUS
  <1>2. /\ handler[s] = "running" /\ starting = None /\ stream[s].state # "closed"
        /\ Become(With(Conn, s, u))
        /\ handler' = [handler EXCEPT ![s] = "starting"]
        /\ producer' = [producer EXCEPT ![s] = "unstarted"]
        /\ producers' = producers \cup {s} /\ starting' = s /\ chunks' = chunks
        /\ UNCHANGED <<streamLimit, heads, serving, flags, clientSide, grants>>
    BY <1>1 DEF AnswerStreamed, Answering, Answerable, Answered, HandlerTo
  <1>3. handler' \in HandlersOfStreams /\ handler'[s] = "starting"
    BY <1>2, MoreTypes DEF HandlersOfStreams, Working
  <1>4. /\ producer' \in [Streams -> {"none", "unstarted", "done", "escaped"} \cup Alive]
        /\ producer'[s] = "unstarted"
    BY <1>2, MoreTypes
  <1>5. \A r \in Streams \ {s} : handler'[r] = handler[r] /\ producer'[r] = producer[r]
    BY <1>2, MoreTypes DEF HandlersOfStreams
  <1>6. H2Types' /\ LoopInv2'
    BY <1>2, <1>3, <1>4, MoreTypes, WorkTypes
  <1>7. producer[s] \in {"none", "unstarted"}
    <2>1. Going(s, stream[s], Others)
      BY <1>2, HasHandler
    <2>. QED
      BY <1>2, <2>1, ConnIs, MoreTypes DEF Going, BodyAfterHandler
  <1>8. StreamInv(s, u, Others')
    BY <1>1, <1>2, <1>3, <1>4, <1>5, <1>7, StillWorking DEF Working
  <1>9. u \in StreamRecord /\ u.sent = stream[s].sent /\ Flushed(u, cwin)
    <2>1. stream[s].known
      BY <1>2, HasHandler DEF Worked
    <2>2. /\ u \in StreamRecord /\ u.sent = stream[s].sent /\ u.out = stream[s].out
          /\ u.win = stream[s].win
      BY <1>1, TheStream, AnsweredIs
    <2>. QED
      BY <1>2, <2>1, <2>2, TheStream, SameOutput
  <1>10. ConnInv(Conn', Others') /\ NoAnswerAfterClose
    BY <1>2, <1>5, <1>8, <1>9, WorkApart, StepOn
  <1>. QED
    BY <1>6, <1>10 DEF Preserved

LEMMA StartProducerKeeps ==
  ASSUME Standing, NEW s \in Streams, StartProducer(s) \/ ProducerNotStarted(s)
  PROVE  Preserved
  <1>1. /\ starting = s /\ starting' = None
        /\ Settle(Conn) \/ UNCHANGED conn
        /\ handler' = [handler EXCEPT ![s] = handler'[s]]
        /\ UNCHANGED <<streamLimit, heads, serving, flags, clientSide, grants, chunks, producers>>
        /\ \/ handler'[s] = "done" /\ producer' = [producer EXCEPT ![s] = "fetch"]
           \/ handler'[s] = "failing" /\ producer' = producer
    BY MoreTypes DEF StartProducer, ProducerNotStarted, HandlerTo, HandlersOfStreams
  <1>2. s # None
    BY Http2Constants DEF Streams, None
  <1>3. handler[s] = "starting" /\ producer[s] = "unstarted"
    BY <1>1, <1>2, MoreTypes
  <1>4. handler' \in HandlersOfStreams
    BY <1>1, MoreTypes DEF HandlersOfStreams, Working
  <1>5. producer' \in [Streams -> {"none", "unstarted", "done", "escaped"} \cup Alive]
    BY <1>1, MoreTypes DEF Alive
  <1>6. \A r \in Streams \ {s} : handler'[r] = handler[r] /\ producer'[r] = producer[r]
    BY <1>1, MoreTypes DEF HandlersOfStreams
  <1>7. H2Types' /\ LoopInv2'
    BY <1>1, <1>4, <1>5, MoreTypes, WorkTypes
  <1>8. \/ producer'[s] = "fetch" /\ handler'[s] = "done"
        \/ producer'[s] = "unstarted" /\ handler'[s] = "failing"
    BY <1>1, <1>3, MoreTypes
  <1>9. StreamInv(s, stream[s], Others')
    BY <1>1, <1>3, <1>6, <1>8, StillWorking DEF Working
  <1>10. ConnInv(Conn', Others') /\ NoAnswerAfterClose
    BY <1>1, <1>6, <1>9, WorkApart, StepBy
  <1>. QED
    BY <1>7, <1>10 DEF Preserved

-----------------------------------------------------------------------------
(* Streamed bodies. *)
\* The thread of a streamed body moves on; its handler has ended.
LEMMA ProducerMoves ==
  ASSUME Standing, NEW s \in Streams, NEW from \in Alive, NEW to \in Alive \cup {"done", "escaped"},
         ProducerTo(s, from, to), chunks' \in [Streams -> 0..ChunkBound]
  PROVE  /\ H2Types' /\ LoopInv2'
         /\ \A r \in Streams \ {s} : SameFor(r, Others, Others')
         /\ UNCHANGED <<peerInit, granted>>
         /\ producer[s] = from /\ Others.producer[s] = from /\ Others'.producer[s] = to
         /\ Others'.handler[s] = "done" /\ (Others'.live <=> Others.live)
         /\ Worked(s, stream[s], Others) /\ Going(s, stream[s], Others)
         /\ \A u : Worked(s, u, Others) => Worked(s, u, Others')
  <1>1. /\ producer[s] = from /\ producer' = [producer EXCEPT ![s] = to] /\ starting = None
        /\ UNCHANGED <<streamLimit, heads, serving, flags, clientSide, grants>>
        /\ UNCHANGED <<handler, producers, starting>>
    BY DEF ProducerTo
  <1>2. /\ producer' \in [Streams -> {"none", "unstarted", "done", "escaped"} \cup Alive]
        /\ producer'[s] = to
    BY <1>1, MoreTypes
  <1>3. \A r \in Streams \ {s} : handler'[r] = handler[r] /\ producer'[r] = producer[r]
    BY <1>1, MoreTypes
  <1>4. H2Types' /\ LoopInv2'
    BY <1>1, <1>2, MoreTypes, WorkTypes
  <1>5. handler[s] = "done"
    BY <1>1, TheStream, ConnIs DEF StreamInv, BodyAfterHandler
  <1>6. Worked(s, stream[s], Others) /\ Going(s, stream[s], Others)
    BY <1>5, HasHandler
  <1>7. /\ \A r \in Streams \ {s} : SameFor(r, Others, Others')
        /\ UNCHANGED <<peerInit, granted>>
        /\ \A u : Worked(s, u, Others) => Worked(s, u, Others')
        /\ Others'.live <=> Others.live
    BY <1>1, <1>3, WorkApart
  <1>. QED
    BY <1>1, <1>2, <1>4, <1>5, <1>6, <1>7, ConnIs, OthersNext

\* Its stream is as it was.
LEMMA ProducerStays ==
  ASSUME Standing, NEW s \in Streams, NEW from \in Alive, NEW to \in Alive \cup {"done", "escaped"},
         ProducerTo(s, from, to), chunks' = chunks, Settle(Conn) \/ UNCHANGED conn,
         \/ from = "blocked" /\ to = "fetch"
         \/ to = "closing" /\ (stream[s].state = "closed" \/ ~Others.live)
         \/ from = "closing" /\ to = "done"
         \/ to \in {"escaping", "escaped"}
  PROVE  Preserved
  <1>1. chunks' \in [Streams -> 0..ChunkBound]
    BY MoreTypes
  <1>2. /\ H2Types' /\ LoopInv2'
        /\ \A r \in Streams \ {s} : SameFor(r, Others, Others')
        /\ UNCHANGED <<peerInit, granted>>
        /\ Others.producer[s] = from /\ Others'.producer[s] = to
        /\ Others'.handler[s] = "done" /\ (Others'.live <=> Others.live)
        /\ Worked(s, stream[s], Others) /\ Going(s, stream[s], Others)
        /\ \A u : Worked(s, u, Others) => Worked(s, u, Others')
    BY <1>1, ProducerMoves
  <1>3. Others.handler[s] = "done"
    BY <1>2, TheStream DEF StreamInv, BodyAfterHandler
  <1>4. BodyAfterHandler(s, Others') /\ UntouchedBefore(s, stream[s], Others')
        /\ EndIsWhole(stream[s])
    BY <1>2 DEF Going, BodyAfterHandler, UntouchedBefore
  <1>5. NoEndWhileProduced(s, stream[s], Others')
    BY <1>2 DEF Going, NoEndWhileProduced, Alive
  <1>6. NotOrphaned(s, stream[s], Others')
    <2>1. UNCHANGED <<ended, pend>>
      BY DEF ProducerTo, clientSide, heads
    <2>. QED
      BY <1>2, <1>3, <2>1, ConnIs, OthersNext DEF Going, NotOrphaned, Held, Working
  <1>7. StreamInv(s, stream[s], Others')
    BY <1>2, <1>4, <1>5, <1>6, WorkedIsFine DEF Going
  <1>8. ConnInv(Conn', Others') /\ NoAnswerAfterClose
    BY <1>2, <1>7, StepBy
  <1>. QED
    BY <1>2, <1>8 DEF Preserved

LEMMA ProducerStaysKeeps ==
  ASSUME Standing, NEW s \in Streams, Wake(s) \/ BodyUnsent(s) \/ BodyEscapes(s) \/ CloseBody(s)
  PROVE  Preserved
  <1>1. CASE Wake(s)
    <2>1. UNCHANGED conn /\ chunks' = chunks
      BY <1>1 DEF Wake
    <2>2. CASE ProducerTo(s, "blocked", "fetch")
      BY <2>1, <2>2, ProducerStays DEF Alive
    <2>3. CASE (~Answerable(s) \/ ~reading) /\ ProducerTo(s, "blocked", "closing")
      BY <2>1, <2>3, NotAnswerable, ProducerStays DEF Alive
    <2>. QED
      BY <1>1, <2>2, <2>3 DEF Wake
  <1>2. CASE BodyUnsent(s)
    <2>1. /\ UNCHANGED conn /\ chunks' = chunks /\ ProducerTo(s, "fetch", "closing")
          /\ ~Answerable(s) \/ ~up
      BY <1>2 DEF BodyUnsent
    <2>. QED
      BY <2>1, NotAnswerable, ProducerStays DEF Alive
  <1>3. CASE CloseBody(s)
    <2>1. /\ Settle(Conn) \/ UNCHANGED conn
          /\ chunks' = chunks
          /\ ProducerTo(s, "closing", "done") \/ ProducerTo(s, "escaping", "escaped")
      BY <1>3 DEF CloseBody
    <2>. QED
      BY <2>1, ProducerStays DEF Alive
  <1>4. CASE BodyEscapes(s)
    <2>1. UNCHANGED conn /\ chunks' = chunks /\ ProducerTo(s, "fetch", "escaping")
      BY <1>4 DEF BodyEscapes
    <2>. QED
      BY <2>1, ProducerStays DEF Alive
  <1>. QED
    BY <1>1, <1>2, <1>3, <1>4

LEMMA BodyFailsKeeps ==
  ASSUME Standing, NEW s \in Streams, BodyFails(s)
  PROVE  Preserved
  <1>1. /\ Become(IF stream[s].state # "closed" THEN With(Conn, s, Reset(stream[s])) ELSE Conn)
        /\ ProducerTo(s, "fetch", "closing") /\ chunks' = chunks
    BY DEF BodyFails
  <1>2. CASE stream[s].state = "closed"
    <2>1. UNCHANGED conn
      BY <1>1, <1>2, ConnIs DEF Become, conn
    <2>. QED
      BY <1>1, <1>2, <2>1, ProducerStays DEF Alive
  <1>3. CASE stream[s].state # "closed"
    <2>1. chunks' \in [Streams -> 0..ChunkBound]
      BY <1>1, MoreTypes
    <2>2. /\ H2Types' /\ LoopInv2'
          /\ \A r \in Streams \ {s} : SameFor(r, Others, Others')
          /\ UNCHANGED <<peerInit, granted>>
          /\ Others.producer[s] = "fetch" /\ Others'.producer[s] = "closing"
          /\ Others'.handler[s] = "done"
          /\ Worked(s, stream[s], Others) /\ Going(s, stream[s], Others)
          /\ \A u : Worked(s, u, Others) => Worked(s, u, Others')
      BY <1>1, <2>1, ProducerMoves DEF Alive
    <2>3. PICK t, z : t = stream[s] /\ z = Reset(t)
      OBVIOUS
    <2>4. /\ z \in StreamRecord /\ z.state = "closed"
         /\ z.known = t.known /\ z.seen = t.seen /\ z.rejected = t.rejected /\ z.out = t.out
         /\ z.win = t.win /\ z.given = t.given /\ z.sent = t.sent /\ z.endSent = t.endSent
         /\ z.endAfter = t.endAfter /\ z.answered = t.answered
      BY <2>3, TheStream, ResetIs
    <2>5. Worked(s, z, Others')
      <3>1. Worked(s, z, Others)
        BY <2>2, <2>3, <2>4 DEF Worked
      <3>. QED
        BY <2>2, <3>1
    <2>6. Going(s, z, Others')
      BY <2>2, <2>3, <2>4 DEF Going, BodyAfterHandler, UntouchedBefore, NoEndWhileProduced,
         EndIsWhole, NotOrphaned
    <2>7. StreamInv(s, z, Others')
      BY <2>5, <2>6, WorkedIsFine
    <2>8. ConnInv(Conn', Others') /\ NoAnswerAfterClose
      BY <1>1, <1>3, <2>2, <2>3, <2>4, <2>7, StepOn DEF Flushed
    <2>. QED
      BY <2>2, <2>8 DEF Preserved
  <1>. QED
    BY <1>2, <1>3

LEMMA WithItself ==
  ASSUME Standing, NEW s \in Streams
  PROVE  With(Conn, s, stream[s]) = Conn
  <1>1. ConnTypes(Conn)
    BY StandingTypes DEF ConnInv, Base
  <1>2. stream \in [Streams -> StreamRecord]
    BY <1>1, ConnIs DEF ConnTypes
  <1>3. [stream EXCEPT ![s] = stream[s]] = stream
    BY <1>2
  <1>. QED
    BY <1>3 DEF With, Conn

LEMMA ChunkKeeps ==
  ASSUME Standing, NEW s \in Streams, Chunk(s)
  PROVE  Preserved
  <1>1. PICK d, to : /\ d = SendData(Conn, s, 1, stream[s].endAfter)
                     /\ to = (IF d.stream[s].out < PendingLimit THEN "fetch"
                              ELSE IF reading THEN "blocked" ELSE "closing")
    OBVIOUS
  <1>2. /\ Answerable(s) /\ chunks[s] < ChunkBound /\ chunks' = [chunks EXCEPT ![s] = @ + 1]
        /\ Become(d) /\ ProducerTo(s, "fetch", to)
    BY <1>1 DEF Chunk
  <1>3. chunks' \in [Streams -> 0..ChunkBound]
    <2>1. PICK a \in 0..ChunkBound : a = chunks[s] + 1
      BY <1>2, MoreTypes, Http2Constants
    <2>. QED
      BY <1>2, <2>1, MoreTypes
  <1>4. to \in {"fetch", "blocked", "closing"} /\ (to = "closing" => ~reading)
    BY <1>1
  <1>5. /\ H2Types' /\ LoopInv2'
        /\ \A r \in Streams \ {s} : SameFor(r, Others, Others')
        /\ UNCHANGED <<peerInit, granted>>
        /\ Others.producer[s] = "fetch" /\ Others'.producer[s] = to
        /\ Others'.handler[s] = "done" /\ (Others'.live <=> Others.live)
        /\ Worked(s, stream[s], Others) /\ Going(s, stream[s], Others)
        /\ \A u : Worked(s, u, Others) => Worked(s, u, Others')
    BY <1>2, <1>3, <1>4, ProducerMoves DEF Alive
  <1>6. PICK t : t = stream[s] /\ t \in StreamRecord
    BY TheStream
  <1>7. PICK n \in Nat, last \in BOOLEAN : n = 1 /\ last = t.endAfter
    BY <1>6 DEF StreamRecord
  <1>8. PICK u : u = Queued(t, n, last)
    OBVIOUS
  <1>9. /\ u \in StreamRecord /\ u.out = t.out + n /\ u.endAfter = last
        /\ u.state = t.state /\ u.known = t.known /\ u.rejected = t.rejected
        /\ u.win = t.win /\ u.given = t.given /\ u.sent = t.sent /\ u.endSent = t.endSent
    <2>1. t \in StreamRecord /\ n \in Nat /\ last \in BOOLEAN /\ u = Queued(t, n, last)
      BY <1>6, <1>8
    <2>. QED
      BY ONLY <2>1, QueuedIs
  <1>10. t.rejected \/ (~t.endAfter /\ ~t.endSent)
    BY <1>5, <1>6 DEF Going, NoEndWhileProduced
  <1>11. Worked(s, u, Others')
    <2>1. Worked(s, u, Others)
      BY <1>5, <1>6, <1>9 DEF Worked
    <2>. QED
      BY <1>5, <2>1
  <1>12. Going(s, u, Others')
    <2>1. BodyAfterHandler(s, Others') /\ UntouchedBefore(s, u, Others')
      BY <1>5 DEF BodyAfterHandler, UntouchedBefore
    <2>2. NoEndWhileProduced(s, u, Others') /\ EndIsWhole(u)
      BY <1>7, <1>9, <1>10 DEF NoEndWhileProduced, EndIsWhole
    <2>3. to = "closing" => ~Others.live
      BY <1>4, ConnIs DEF Standing, LoopInv2
    <2>4. NotOrphaned(s, u, Others')
      BY <1>4, <1>5, <2>3 DEF NotOrphaned, Held
    <2>. QED
      BY <2>1, <2>2, <2>4 DEF Going
  <1>13. StreamInv(s, u, Others')
    BY <1>11, <1>12, WorkedIsFine
  <1>14. d = SendData(With(Conn, s, t), s, n, last)
    BY <1>1, <1>6, <1>7, WithItself
  <1>15. ConnInv(Conn', Others') /\ NoAnswerAfterClose
    BY <1>2, <1>5, <1>6, <1>8, <1>13, <1>14, SendOn
  <1>. QED
    BY <1>5, <1>15 DEF Preserved

LEMMA ExhaustedKeeps ==
  ASSUME Standing, NEW s \in Streams, Exhausted(s)
  PROVE  Preserved
  <1>1. PICK t : t = stream[s] /\ t \in StreamRecord
    BY TheStream
  <1>2. /\ Answerable(s) /\ chunks' = chunks /\ ProducerTo(s, "fetch", "closing")
        /\ Become(IF t.out > 0 THEN SendData(Conn, s, 0, TRUE) ELSE With(Conn, s, EndLocal(t)))
    BY <1>1 DEF Exhausted
  <1>3. /\ H2Types' /\ LoopInv2'
        /\ \A r \in Streams \ {s} : SameFor(r, Others, Others')
        /\ UNCHANGED <<peerInit, granted>>
        /\ Others.producer[s] = "fetch" /\ Others'.producer[s] = "closing"
        /\ Others'.handler[s] = "done" /\ (Others'.live <=> Others.live)
        /\ Worked(s, stream[s], Others) /\ Going(s, stream[s], Others)
        /\ \A u : Worked(s, u, Others) => Worked(s, u, Others')
    <2>1. chunks' \in [Streams -> 0..ChunkBound]
      BY <1>2, MoreTypes
    <2>. QED
      BY <1>2, <2>1, ProducerMoves DEF Alive
  <1>4. t.rejected \/ (~t.endAfter /\ ~t.endSent)
    BY <1>1, <1>3 DEF Going, NoEndWhileProduced
  <1>5. BodyAfterHandler(s, Others')
    BY <1>3 DEF BodyAfterHandler
  <1>6. \A u : UntouchedBefore(s, u, Others') /\ NoEndWhileProduced(s, u, Others')
    BY <1>3 DEF UntouchedBefore, NoEndWhileProduced
  <1>7. t.state = "closed" => ~Others.live
    BY <1>1, <1>2 DEF Answerable
  <1>8. CASE t.out > 0
    <2>1. PICK n \in Nat, last \in BOOLEAN : n = 0 /\ last = TRUE
      OBVIOUS
    <2>2. PICK u : u = Queued(t, n, last)
      OBVIOUS
    <2>3. /\ u \in StreamRecord /\ u.out = t.out + n /\ u.endAfter = last
        /\ u.state = t.state /\ u.known = t.known /\ u.rejected = t.rejected
        /\ u.win = t.win /\ u.given = t.given /\ u.sent = t.sent /\ u.endSent = t.endSent
      <3>1. t \in StreamRecord /\ n \in Nat /\ last \in BOOLEAN /\ u = Queued(t, n, last)
        BY <1>1, <2>2
      <3>. QED
        BY ONLY <3>1, QueuedIs
    <2>4. u.out > 0
      BY <1>1, <1>8, <2>1, <2>3 DEF StreamRecord
    <2>5. Worked(s, u, Others')
      <3>1. Worked(s, u, Others)
        BY <1>1, <1>3, <2>3 DEF Worked
      <3>. QED
        BY <1>3, <3>1
    <2>6. Going(s, u, Others')
      BY <1>4, <1>5, <1>6, <2>1, <2>3, <2>4 DEF Going, EndIsWhole, NotOrphaned, Held
    <2>7. StreamInv(s, u, Others')
      BY <2>5, <2>6, WorkedIsFine
    <2>8. PICK d : d = SendData(With(Conn, s, t), s, n, last)
      OBVIOUS
    <2>9. Become(d)
      BY <1>1, <1>2, <1>8, <2>1, <2>8, WithItself
    <2>10. ConnInv(Conn', Others') /\ NoAnswerAfterClose
      BY <1>1, <1>3, <2>2, <2>7, <2>8, <2>9, SendOn
    <2>. QED
      BY <1>3, <2>10 DEF Preserved
  <1>9. CASE ~(t.out > 0)
    <2>1. PICK z : z = EndLocal(t)
      OBVIOUS
    <2>2. /\ z \in StreamRecord
         /\ z.state = (IF t.state \in {"open", "idle"} THEN "local"
                       ELSE IF t.state = "remote" THEN "closed" ELSE t.state)
         /\ z.known = t.known /\ z.rejected = t.rejected /\ z.out = t.out
         /\ z.win = t.win /\ z.given = t.given /\ z.sent = t.sent /\ z.endSent
         /\ z.endAfter = t.endAfter /\ z.answered = t.answered
      BY <1>1, <2>1, EndLocalIs
    <2>3. z.out = 0
      BY <1>1, <1>9, <2>2 DEF StreamRecord
    <2>4. z.known => z.rejected \/ z.state = "closed"
      BY <1>1, <1>3, <2>2 DEF Worked
    <2>5. Worked(s, z, Others')
      <3>1. Worked(s, z, Others)
        BY <1>1, <1>3, <2>2, <2>4 DEF Worked
      <3>. QED
        BY <1>3, <3>1
    <2>6. Going(s, z, Others')
      BY <1>5, <1>6, <2>3, <2>4 DEF Going, EndIsWhole, NotOrphaned
    <2>7. StreamInv(s, z, Others')
      BY <2>5, <2>6, WorkedIsFine
    <2>8. Flushed(z, cwin)
      BY <2>2, <2>3, TheStream, SendableIs DEF Flushed
    <2>9. ConnInv(Conn', Others') /\ NoAnswerAfterClose
      BY <1>1, <1>2, <1>3, <1>9, <2>1, <2>2, <2>7, <2>8, StepOn
    <2>. QED
      BY <1>3, <2>9 DEF Preserved
  <1>. QED
    BY <1>8, <1>9

LEMMA H2StepKeeps ==
  ASSUME Standing, [H2Next]_h2Vars
  PROVE  Preserved
  <1>1. PICK one \in Nat : one = 1
    OBVIOUS
  <1>2. CASE FrameStep
    <2>1. CASE \E s \in Streams, end \in BOOLEAN, whole \in BOOLEAN, valid \in BOOLEAN, kind \in Kinds :
                 OnHeaders(s, end, whole, kind, valid)
      BY <2>1, OnHeadersKeeps
    <2>2. CASE \E kind \in Kinds, valid \in BOOLEAN : OnContinuation(kind, valid)
      BY <2>2, OnContinuationKeeps
    <2>3. CASE \E s \in Streams, n \in 0..DefaultWindow, end \in BOOLEAN, valid \in BOOLEAN :
                 OnData(s, n, end, valid)
      BY <2>3, OnDataKeeps
    <2>4. CASE \E s \in Streams : OnRstStream(s) \/ BadStreamFrame(s) \/ OnStreamCredit(s, 1)
      BY <1>1, <2>4, OnRstStreamKeeps, BadStreamFrameKeeps, OnStreamCreditKeeps
    <2>5. CASE \E w \in PeerWindows : OnSettings(w)
      BY <2>5, OnSettingsKeeps
    <2>6. CASE OnConnectionCredit(1) \/ OnGoaway \/ BadFrame
      BY <1>1, <2>6, OnConnectionCreditKeeps, OnGoawayKeeps, BadFrameKeeps
    <2>. QED
      BY <1>2, <2>1, <2>2, <2>3, <2>4, <2>5, <2>6 DEF FrameStep
  <1>3. ASSUME NEW s \in Streams, HandlerStep(s) PROVE Preserved
    <2>1. CASE \E n \in Lengths : Answer(s, n)
      BY <2>1, AnswerKeeps, Http2Constants
    <2>. QED
      BY <1>3, <2>1, RunHandlerKeeps, HandlerEscapesKeeps, HandlerEndsKeeps, UnencodableKeeps, AnswerStreamedKeeps,
         StartProducerKeeps DEF HandlerStep
  <1>4. ASSUME NEW s \in Streams, BodyStep(s) PROVE Preserved
    BY <1>4, ChunkKeeps, ProducerStaysKeeps, ExhaustedKeeps, BodyFailsKeeps DEF BodyStep
  <1>5. CASE ServeStep
    BY <1>5, IdleTimesOutKeeps, KeepAliveProducersKeeps, PollHandlersKeeps, OnGoawayKeeps,
       FinishHandlersKeeps, LeavingKeeps DEF ServeStep
  <1>6. CASE LinkLost
    BY <1>6, LinkLostKeeps
  <1>7. CASE UNCHANGED h2Vars
    BY <1>7, StayEndedKeeps
  <1>. QED
    BY <1>2, <1>3, <1>4, <1>5, <1>6, <1>7 DEF H2Next, StayEnded

LEMMA NothingSent ==
  ASSUME NEW f \in [Streams -> StreamRecord], \A s \in Streams : f[s].sent = 0
  PROVE  Octets(f) = 0
  <1>1. N \in Nat /\ N >= 1 /\ f \in Seq(StreamRecord) /\ Len(f) = N
    BY Http2Constants DEF Streams
  <1>2. PICK g : Runs("sent", 0, f, g) /\ Octets(f) = g[N]
    BY <1>1, SentRuns DEF Octets
  <1>3. g[0] = 0 /\ \A k \in 1..N : g[k] = AddSent(g[k - 1], f[k])
    BY <1>1, <1>2 DEF Runs, Op
  <1> DEFINE Good == {k \in 0..N : g[k] = 0}
  <1>4. 0 \in Good
    BY <1>1, <1>3
  <1>5. ASSUME NEW k \in 0..N - 1, k \in Good PROVE k + 1 \in Good
    <2>1. k + 1 \in 1..N /\ k + 1 \in 0..N /\ (k + 1) - 1 = k
      BY <1>1
    <2>2. g[k + 1] = g[k] + f[k + 1].sent
      BY <1>3, <2>1 DEF AddSent
    <2>. QED
      BY <1>5, <2>1, <2>2 DEF Streams
  <1>6. N \in Good
    <2> HIDE DEF Good
    <2>1. \A k \in 0..N : k \in Good
      BY <1>1, <1>4, <1>5, UpwardTo
    <2>. QED
      BY <1>1, <2>1
  <1>. QED
    BY <1>2, <1>6

LEMMA H2InitStands ==
  ASSUME H2Init
  PROVE  Standing
  <1>1. H2Types
    <2>1. /\ lastId \in 0..N /\ peerInit \in 0..MaxWindow /\ credits \in 0..CreditBound
               /\ granted \in Nat
      BY Http2Constants DEF H2Init
    <2>2. pend \in [s : Streams \cup {None}, end : BOOLEAN, request : BOOLEAN]
      BY DEF H2Init, NoBlock
    <2>3. /\ handler \in HandlersOfStreams
          /\ producer \in [Streams -> {"none", "unstarted", "done", "escaped"} \cup Alive]
      BY DEF H2Init, HandlersOfStreams
    <2>4. chunks \in [Streams -> 0..ChunkBound] /\ credit \in [Streams -> 0..DefaultWindow]
      BY Http2Constants DEF H2Init
    <2>5. /\ streamLimit \in StreamLimits
          /\ serve \in InLoop \cup {"failing", "leaving", "stopping", "joining", "over"}
      BY DEF H2Init, InLoop
    <2>6. /\ snap \subseteq Streams /\ producers \subseteq Streams
          /\ starting \in Streams \cup {None} /\ opened \subseteq Streams /\ ended \subseteq opened
      BY DEF H2Init
    <2>7. up \in BOOLEAN /\ reading \in BOOLEAN /\ abandoned \in BOOLEAN
      BY DEF H2Init
    <2>. QED
      BY <2>1, <2>2, <2>3, <2>4, <2>5, <2>6, <2>7 DEF H2Types
  <1>2. LoopInv2
    BY DEF H2Init, LoopInv2, NoBlock
  <1>3. PICK t : t = [NewStream(0) EXCEPT !.known = FALSE]
    OBVIOUS
  <1>4. /\ t \in StreamRecord /\ ~t.known /\ ~t.rejected /\ t.state # "closed" /\ t.sent = 0
        /\ t.out = 0 /\ ~t.endAfter /\ ~t.endSent
    <2>1. 0 \in 0..MaxWindow /\ FALSE \in BOOLEAN
      BY Http2Constants
    <2>2. PICK b : b = NewStream(0)
      OBVIOUS
    <2>3. /\ b \in StreamRecord /\ ~b.rejected /\ b.state = "idle" /\ b.sent = 0
          /\ b.out = 0 /\ ~b.endAfter /\ ~b.endSent
      BY <2>1, <2>2, NewStreamIs DEF NewStream
    <2>. QED
      BY <1>3, <2>1, <2>2, <2>3 DEF StreamRecord
  <1>5. stream = [s \in Streams |-> t]
    BY <1>3 DEF H2Init
  <1>6. \A s \in Streams : StreamInv(s, stream[s], Others)
    <2>1. ASSUME NEW s \in Streams PROVE Begun(s, t, Others)
      BY <1>4, ConnIs DEF H2Init, Begun, NoBlock, None, Streams
    <2>. QED
      BY <1>5, <2>1, BegunIsFine
  <1>7. <<>> \in SeqOf(Streams, RecentlyReset)
    <2>1. 0 \in 0..RecentlyReset
      BY Http2Constants
    <2>2. <<>> \in [1..0 -> Streams]
      OBVIOUS
    <2>. QED
      BY <2>1, <2>2 DEF SeqOf
  <1>8. ConnTypes(Conn)
    <2>1. stream \in [Streams -> StreamRecord] /\ recent = <<>> /\ cwin \in 0..MaxWindow
      BY <1>4, <1>5, Http2Constants DEF H2Init
    <2>. QED
      BY <1>7, <2>1 DEF ConnTypes, Conn
  <1>9. Octets(stream) = 0
    <2>1. stream \in [Streams -> StreamRecord] /\ \A s \in Streams : stream[s].sent = 0
      BY <1>4, <1>5
    <2>. QED
      BY <2>1, NothingSent
  <1>10. Base(Conn, Others)
    <2>1. Others.window \in Int /\ Others.granted = 0 /\ 0 \in Int
      BY ConnIs, Http2Constants DEF H2Init
    <2>2. cwin + Octets(stream) = DefaultWindow + Others.granted
      BY <1>9, <2>1, Http2Constants DEF H2Init
    <2>. QED
      BY <1>6, <1>8, <2>1, <2>2, ConnIs DEF Base
  <1>11. \A s \in Streams : Flushed(Conn.stream[s], Conn.cwin)
    BY <1>4, <1>5, ConnIs DEF Flushed
  <1>. QED
    BY <1>1, <1>2, <1>10, <1>11 DEF Standing, ConnInv

\* H2Inv of the runs is Standing.
LEMMA H2InvIs == H2Inv <=> Standing
  <1>1. ASSUME Standing PROVE H2TypeOK
    <2>1. ConnTypes(Conn)
      BY <1>1 DEF Standing, ConnInv, Base
    <2>. QED
      <3>1. /\ stream \in [Streams -> StreamRecord] /\ cwin \in 0..MaxWindow
            /\ recent \in SeqOf(Streams, RecentlyReset)
        BY <2>1, ConnIs DEF ConnTypes
      <3>2. H2Types
        BY <1>1 DEF Standing
      <3>. QED
        BY <3>1, <3>2 DEF H2TypeOK
  <1>2. ASSUME H2Inv PROVE Standing
    <2>1. H2TypeOK /\ ConnInv(Conn, Others) /\ LoopInv2
      BY <1>2 DEF H2Inv
    <2>2. H2Types
      BY <2>1 DEF H2TypeOK
    <2>. QED
      BY <2>1, <2>2 DEF Standing
  <1>. QED
    BY <1>1, <1>2 DEF H2Inv, Standing

\* What H2Inv says of each stream and of the connection is true at every step,
\* for any number of streams, any windows and sizes of frame and body, however
\* frames, handlers, streamed bodies and the end of the loop interleave.
THEOREM H2InvHolds == H2Spec => []H2Inv
  <1>1. H2Init => Standing
    BY H2InitStands
  <1>2. Standing /\ [H2Next]_h2Vars => Standing'
    BY H2StepKeeps DEF Preserved, Standing
  <1>. QED
    BY <1>1, <1>2, H2InvIs, PTL DEF H2Spec

LEMMA InvGivesFlow == H2Inv => FlowControlled
  <1>. SUFFICES ASSUME H2Inv PROVE FlowControlled
    OBVIOUS
  <1>1. Standing /\ H2TypeOK /\ ConnInv(Conn, Others)
    BY H2InvIs DEF H2Inv
  <1>2. cwin + Octets(stream) = DefaultWindow + granted /\ Octets(stream) \in Int
    <2>1. stream \in [Streams -> StreamRecord]
      BY <1>1 DEF H2TypeOK
    <2>. QED
      BY <1>1, <2>1, ConnIs, OctetsSame DEF ConnInv, Base
  <1>3. cwin = DefaultWindow + granted - FoldLeft(AddSent, 0, stream)
    <2>1. cwin \in Int /\ DefaultWindow \in Int /\ granted \in Int
      BY <1>1, Http2Constants DEF H2TypeOK, H2Types
    <2>. QED
      BY <1>2, <2>1 DEF Octets
  <1>4. \A s \in Streams :
          stream[s].known => stream[s].win = peerInit + stream[s].given - stream[s].sent
    BY <1>1, TheStream, ConnIs DEF StreamInv
  <1>5. NothingStuck
    BY <1>1, TheStream DEF NothingStuck, Flushed
  <1>. QED
    BY <1>1, <1>3, <1>4, <1>5 DEF FlowControlled, WindowsExact

\* For every window the client announces and every credit it gives: what is sent
\* on a connection and on each of its streams is what the windows let out, and
\* no stream is left with output that its windows have room for.
THEOREM FlowIsControlled == H2Spec => []FlowControlled
  BY H2InvHolds, InvGivesFlow, PTL

LEMMA InvGivesNoOrphan == H2Inv => NoOrphanStream
  <1>. SUFFICES ASSUME H2Inv, serve \in InLoop, up, NEW s \in ended,
                       stream[s].known, stream[s].state # "closed", ~stream[s].rejected, pend.s # s,
                       ~Escaped(s)
                PROVE  InHand(s)
    BY DEF NoOrphanStream
  <1>1. Standing /\ s \in Streams
    BY H2InvIs DEF H2Inv, H2TypeOK, H2Types
  <1>2. Others.live
    BY DEF Others
  <1>3. Held(s, stream[s], Others)
    BY <1>1, <1>2, TheStream, ConnIs DEF StreamInv, NotOrphaned
  <1>. QED
    BY <1>3, ConnIs DEF Held, InHand, Escaped

\* A request the client has ended is always in the hands of a handler, of a
\* streamed body or of its last DATA frames, until its stream is closed, but for
\* one whose handler or body ended by what is no Exception.
THEOREM NoStreamOrphaned == H2Spec => []NoOrphanStream
  BY H2InvHolds, InvGivesNoOrphan, PTL

LEMMA InvGivesWholeBody == H2Inv => EndAfterWholeBody
  <1>. SUFFICES ASSUME H2Inv, NEW s \in Streams, stream[s].endSent, ~stream[s].rejected
                PROVE  stream[s].out = 0 /\ producer[s] \notin {"unstarted", "fetch", "blocked"}
    BY DEF EndAfterWholeBody
  <1>1. StreamInv(s, stream[s], Others)
    BY H2InvIs, TheStream
  <1>. QED
    BY <1>1, ConnIs DEF StreamInv, NoEndWhileProduced, EndIsWhole

\* END_STREAM is only sent behind the whole body, and no stream that is closed is
\* given an answer, whatever the handler and the producer of its body do next.
THEOREM AllAnswersEndWell == H2Spec => AnswersEndWell
  <1>1. H2Inv /\ [H2Next]_h2Vars => NoAnswerAfterClose
    BY H2StepKeeps, H2InvIs DEF Preserved
  <1>2. H2Spec => []EndAfterWholeBody
    BY H2InvHolds, InvGivesWholeBody, PTL
  <1>. QED
    BY <1>1, <1>2, H2InvHolds, PTL DEF H2Spec, AnswersEndWell
=============================================================================

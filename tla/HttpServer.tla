----------------------------- MODULE HttpServer ----------------------------
(***************************************************************************)
(* wsbuilder/server.py: HTTPServer, its accept loop, the thread that       *)
(* serves each HTTP/1 connection, keep-alive, graceful shutdown, and the   *)
(* gauges of metrics.py the threads maintain.                              *)
(*                                                                         *)
(* The accept loop runs in one thread, each connection in its own; stop()  *)
(* may come from any thread at any time.  What a peer sends is reduced to  *)
(* how its next message ends, what the application returns to whether the  *)
(* connection may be kept and whether the response can be sent.            *)
(***************************************************************************)
EXTENDS Integers, FiniteSets

CONSTANTS
  Conns,            \* the connections clients open
  WorkerLimits,     \* the values MAX_CONNECTION_WORKERS may have
  MaxRequests,      \* MAX_KEEPALIVE_REQUESTS; 0 means no limit
  StartMayFail,     \* Thread.start() may raise, or Ctrl+C come before it
  RequestBound      \* bound: requests a client sends on one connection

ASSUME ServerConstants ==
  /\ IsFiniteSet(Conns)
  /\ WorkerLimits \subseteq Nat \ {0} /\ MaxRequests \in Nat /\ RequestBound \in Nat
  /\ StartMayFail \in BOOLEAN

VARIABLES
  main,         \* where serve_forever is
  held,         \* the connection the accept loop has in hand
  stop,         \* the _stop event
  limit,        \* MAX_CONNECTION_WORKERS, the bound of worker_limiter
  slots,        \* worker_limiter
  workers,      \* the connections whose thread is in _workers
  pending,      \* the threads _drain_workers has still to join
  deadline,     \* the shutdown deadline has passed
  appClosed,    \* how often app.close() was called
  cpc,          \* where each connection and its thread are
  keep,         \* keep_alive of the response being sent
  served,       \* requests served on each connection
  begunLate,    \* history: requests read on each connection after stop
  tcpGauge, httpGauge, wsGauge,  \* the gauges of metrics.py
  escaped       \* history: requests that ended by what nobody catches

loop == <<main, held, stop, pending, deadline, appClosed, limit>>
gauges == <<tcpGauge, httpGauge, wsGauge, escaped>>
counts == <<served, begunLate>>
vars == <<loop, slots, workers, cpc, counts, gauges, keep>>

NoConn == "none"
\* Inside _handle_conn_with_release.
Threaded == {"begin", "head", "denied", "dispatch", "sending", "sent", "decide", "idle",
             "upgrade", "websocket", "wsover", "leaving", "discard", "release"}
CLocations == {"offered", "held", "stillborn", "dropped", "gone"} \cup Threaded

Count(S) == Cardinality({c \in Conns : cpc[c] \in S})

TypeOK ==
  /\ main \in {"accept", "acquire", "list", "start", "drain", "close", "returned", "crashed"}
  /\ held \in Conns \cup {NoConn}
  /\ stop \in BOOLEAN /\ deadline \in BOOLEAN
  /\ limit \in WorkerLimits /\ slots \in 0..limit
  /\ workers \subseteq Conns /\ pending \subseteq Conns
  /\ appClosed \in 0..1
  /\ cpc \in [Conns -> CLocations]
  /\ keep \in [Conns -> BOOLEAN]
  /\ served \in [Conns -> 0..RequestBound] /\ begunLate \in [Conns -> 0..RequestBound]
  /\ tcpGauge \in Nat /\ httpGauge \in Nat /\ wsGauge \in Nat /\ escaped \in Nat

Init ==
  /\ main = "accept" /\ held = NoConn
  /\ stop = FALSE /\ deadline = FALSE /\ appClosed = 0
  /\ limit \in WorkerLimits /\ slots = limit /\ workers = {} /\ pending = {}
  /\ cpc = [c \in Conns |-> "offered"]
  /\ keep = [c \in Conns |-> FALSE] /\ served = [c \in Conns |-> 0]
  /\ begunLate = [c \in Conns |-> 0]
  /\ tcpGauge = 0 /\ httpGauge = 0 /\ wsGauge = 0 /\ escaped = 0

Move(c, from, to) ==
  /\ cpc[c] = from
  /\ cpc' = [cpc EXCEPT ![c] = to]

(***************************************************************************)
(* serve_forever                                                           *)
(***************************************************************************)
\* HTTPServer.stop(), SIGTERM.
Stop ==
  /\ ~stop
  /\ stop' = TRUE
  /\ UNCHANGED <<main, held, pending, deadline, appClosed, slots, workers, cpc, counts,
                 gauges, keep, limit>>

Accept(c) ==
  /\ main = "accept" /\ ~stop
  /\ Move(c, "offered", "held")
  /\ main' = "acquire" /\ held' = c
  /\ UNCHANGED <<stop, pending, deadline, appClosed, slots, workers, counts, gauges, keep, limit>>

Acquire ==
  /\ main = "acquire" /\ slots > 0
  /\ slots' = slots - 1
  /\ main' = "list"
  /\ UNCHANGED <<held, stop, pending, deadline, appClosed, workers, cpc, counts, gauges, keep, limit>>

\* No worker became free within ACQUIRE_WORKER_TIMEOUT_SECONDS.
AcquireTimesOut ==
  /\ main = "acquire" /\ slots = 0
  /\ Move(held, "held", "dropped")
  /\ main' = "accept" /\ held' = NoConn
  /\ UNCHANGED <<stop, pending, deadline, appClosed, slots, workers, counts, gauges, keep, limit>>

List ==
  /\ main = "list"
  /\ workers' = workers \cup {held}
  /\ main' = "start"
  /\ UNCHANGED <<held, stop, pending, deadline, appClosed, slots, cpc, counts, gauges, keep, limit>>

Start ==
  /\ main = "start"
  /\ Move(held, "held", "begin")
  /\ main' = "accept" /\ held' = NoConn
  /\ UNCHANGED <<stop, pending, deadline, appClosed, slots, workers, counts, gauges, keep, limit>>

\* The finally block: _stop is set and the threads in _workers are copied.
LeaveLoop ==
  /\ stop' = TRUE
  /\ main' = "drain" /\ held' = NoConn
  /\ pending' = workers

LoopEnds ==
  /\ main = "accept" /\ stop
  /\ LeaveLoop
  /\ UNCHANGED <<deadline, appClosed, slots, workers, cpc, counts, gauges, keep, limit>>

\* start() raises (no thread can be created), or KeyboardInterrupt comes just
\* before it: the loop is left with the thread listed and never started.
StartFails ==
  /\ StartMayFail
  /\ main = "start"
  /\ Move(held, "held", "stillborn")
  /\ LeaveLoop
  /\ UNCHANGED <<deadline, appClosed, slots, workers, counts, gauges, keep, limit>>

\* GRACEFUL_SHUTDOWN_TIMEOUT_SECONDS have passed: joins no longer wait.
DeadlinePasses ==
  /\ main = "drain" /\ ~deadline
  /\ deadline' = TRUE
  /\ UNCHANGED <<main, held, stop, pending, appClosed, slots, workers, cpc, counts,
                 gauges, keep, limit>>

JoinsNothing(c) == TRUE  \* Fault: join() is called without waiting
JoinsFully(c) == cpc[c] = "gone"  \* Fault: join() is called without the timeout
Joined(c) == cpc[c] = "gone" \/ deadline

JoinWorker(c) ==
  /\ main = "drain" /\ c \in pending
  /\ cpc[c] # "stillborn" /\ Joined(c)
  /\ pending' = pending \ {c}
  /\ UNCHANGED <<main, held, stop, deadline, appClosed, slots, workers, cpc, counts,
                 gauges, keep, limit>>

\* Thread.join() of a thread that was never started raises RuntimeError.
JoinRaises(c) ==
  /\ main = "drain" /\ c \in pending /\ cpc[c] = "stillborn"
  /\ main' = "crashed"
  /\ UNCHANGED <<held, stop, pending, deadline, appClosed, slots, workers, cpc, counts,
                 gauges, keep, limit>>

\* The drain is over and app.close() is called.
CloseApp ==
  /\ main = "drain" /\ pending = {}
  /\ main' = "close"
  /\ appClosed' = appClosed + 1
  /\ UNCHANGED <<held, stop, pending, deadline, slots, workers, cpc, counts, gauges, keep, limit>>

Return ==
  /\ main = "close"
  /\ main' = "returned"
  /\ UNCHANGED <<held, stop, pending, deadline, appClosed, slots, workers, cpc, counts,
                 gauges, keep, limit>>

(***************************************************************************)
(* One connection's thread                                                 *)
(***************************************************************************)
Drop(gauge) == IF gauge > 0 THEN gauge - 1 ELSE gauge

Begin(c) ==
  /\ Move(c, "begin", "head")
  /\ tcpGauge' = tcpGauge + 1
  /\ UNCHANGED <<loop, slots, workers, counts, httpGauge, wsGauge, escaped, keep>>

\* The TLS handshake fails, the peer closes or resets, or it stalls and gets a
\* 408; the head or the body is refused (4xx, 501, 505).  No gauge moves.
Unserved(c) ==
  /\ Move(c, "head", "leaving")
  /\ UNCHANGED <<loop, slots, workers, counts, gauges, keep>>

\* A whole request: http_request_started, then dispatch or the upgrade.
RequestRead(c) ==
  /\ served[c] < RequestBound
  /\ \/ Move(c, "head", "dispatch") \/ Move(c, "head", "upgrade")
  /\ httpGauge' = httpGauge + 1
  /\ begunLate' = [begunLate EXCEPT ![c] = IF stop THEN @ + 1 ELSE @]
  /\ UNCHANGED <<loop, slots, workers, served, tcpGauge, wsGauge, escaped, keep>>

\* Security refused the head: the answer is sent, then counted by the two
\* metrics calls of _send_early_response, and the connection is closed.
Denied(c) ==
  /\ Move(c, "head", "denied")
  /\ httpGauge' = httpGauge + 1
  /\ UNCHANGED <<loop, slots, workers, counts, tcpGauge, wsGauge, escaped, keep>>

\* http_response_sent without a second request to follow: after a denial, an
\* exception out of dispatch (500), or an upgrade that is refused.
AnsweredAndOver(c) ==
  /\ cpc[c] \in {"denied", "dispatch", "upgrade"}
  /\ cpc' = [cpc EXCEPT ![c] = "leaving"]
  /\ httpGauge' = Drop(httpGauge)
  /\ UNCHANGED <<loop, slots, workers, counts, tcpGauge, wsGauge, escaped, keep>>

\* What nobody catches ends the thread's work without http_response_sent: a
\* handler or a stream that raises SystemExit, a response whose status or
\* headers are of a wrong type, options that WebSocket() refuses.
Escapes(c) ==
  /\ cpc[c] \in {"dispatch", "sending", "upgrade"}
  /\ cpc' = [cpc EXCEPT ![c] = "leaving"]
  /\ escaped' = escaped + 1
  /\ UNCHANGED <<loop, slots, workers, counts, tcpGauge, httpGauge, wsGauge, keep>>

Stopping == stop

ReuseAllowed == MaxRequests # 1 /\ ~Stopping

\* dispatch() returns and should_keep_alive decides: client says whether the
\* client and the framing of the response allow another request.
Dispatched(c) ==
  \E client \in BOOLEAN :
    /\ Move(c, "dispatch", "sending")
    /\ keep' = [keep EXCEPT ![c] = client /\ ReuseAllowed]
    /\ UNCHANGED <<loop, slots, workers, counts, gauges>>

\* The response is sent with "Connection: close" unless keep.  A stream that
\* raises half way is logged and makes no difference to what follows.
Sent(c) ==
  /\ Move(c, "sending", "sent")
  /\ UNCHANGED <<loop, slots, workers, counts, gauges, keep>>

\* A header that cannot be serialised: 500 instead, and no reuse.
Unsendable(c) ==
  /\ Move(c, "sending", "sent")
  /\ keep' = [keep EXCEPT ![c] = FALSE]
  /\ UNCHANGED <<loop, slots, workers, counts, gauges>>

Counted(c) ==
  /\ Move(c, "sent", "decide")
  /\ httpGauge' = Drop(httpGauge)
  /\ UNCHANGED <<loop, slots, workers, counts, tcpGauge, wsGauge, escaped, keep>>

AtCeiling(n) == 0 < MaxRequests /\ MaxRequests <= n

\* handle_conn after one request.
Decide(c) ==
  LET n == served[c] + 1
  IN  /\ Move(c, "decide",
            IF ~keep[c] \/ AtCeiling(n) \/ Stopping THEN "leaving" ELSE "idle")
      /\ served' = [served EXCEPT ![c] = n]
      /\ UNCHANGED <<loop, slots, workers, begunLate, gauges, keep>>

\* wait_for_data: KEEPALIVE_TIMEOUT_SECONDS pass, or the next request begins.
IdleExpires(c) ==
  /\ Move(c, "idle", "leaving")
  /\ UNCHANGED <<loop, slots, workers, counts, gauges, keep>>

NextRequest(c) ==
  /\ served[c] < RequestBound
  /\ Move(c, "idle", "head")
  /\ UNCHANGED <<loop, slots, workers, counts, gauges, keep>>

\* ws_opened and then http_response_sent(101).
Upgraded(c) ==
  /\ Move(c, "upgrade", "websocket")
  /\ wsGauge' = wsGauge + 1
  /\ httpGauge' = Drop(httpGauge)
  /\ UNCHANGED <<loop, slots, workers, counts, tcpGauge, escaped, keep>>

WsHandlerEnds(c) ==
  /\ Move(c, "websocket", "wsover")
  /\ UNCHANGED <<loop, slots, workers, counts, gauges, keep>>

WsClosed(c) ==
  /\ Move(c, "wsover", "leaving")
  /\ wsGauge' = Drop(wsGauge)
  /\ UNCHANGED <<loop, slots, workers, counts, tcpGauge, httpGauge, escaped, keep>>

\* The finally block of _handle_conn_with_release.
Leave(c) ==
  /\ Move(c, "leaving", "discard")
  /\ tcpGauge' = Drop(tcpGauge)
  /\ UNCHANGED <<loop, slots, workers, counts, httpGauge, wsGauge, escaped, keep>>

Discard(c) ==
  /\ Move(c, "discard", "release")
  /\ workers' = workers \ {c}
  /\ UNCHANGED <<loop, slots, counts, gauges, keep>>

SlotKept == slots  \* Fault: limiter.release() is missing
SlotReturned == slots + 1

Release(c) ==
  /\ Move(c, "release", "gone")
  /\ slots' = SlotReturned
  /\ UNCHANGED <<loop, workers, counts, gauges, keep>>

\* Steps the server's own code takes without waiting for anybody.
OwnStep(c) ==
  \/ Begin(c) \/ Counted(c) \/ Decide(c) \/ WsClosed(c)
  \/ Leave(c) \/ Discard(c) \/ Release(c)
  \/ Sent(c) \/ Unsendable(c)
  \/ (cpc[c] = "denied" /\ AnsweredAndOver(c))

\* Steps a silent peer cannot prevent: each read has a timeout.
Timeout(c) == Unserved(c) \/ IdleExpires(c)

\* Steps the peer takes if it likes.
PeerStep(c) == RequestRead(c) \/ Denied(c) \/ NextRequest(c)

\* Steps that wait for the application.
AppStep(c) ==
  \/ (cpc[c] \in {"dispatch", "upgrade"} /\ AnsweredAndOver(c))
  \/ Dispatched(c) \/ Upgraded(c) \/ WsHandlerEnds(c) \/ Escapes(c)

MainStep ==
  \/ Acquire \/ AcquireTimesOut \/ List \/ Start \/ LoopEnds \/ DeadlinePasses
  \/ \E c \in Conns : JoinWorker(c) \/ JoinRaises(c)
  \/ CloseApp \/ Return

Next ==
  \/ Stop
  \/ MainStep \/ StartFails
  \/ \E c \in Conns : Accept(c)
  \/ \E c \in Conns : OwnStep(c) \/ Timeout(c) \/ PeerStep(c) \/ AppStep(c)

Spec == Init /\ [][Next]_vars

\* The main thread runs and accepts; connection threads run, and their reads
\* end by a timeout at the latest.  Nothing is assumed of the application, nor
\* of the clients.
FairSpec ==
  /\ Spec
  /\ WF_vars(MainStep)
  /\ \A c \in Conns : WF_vars(Accept(c)) /\ WF_vars(OwnStep(c)) /\ WF_vars(Timeout(c))

\* What the application owes for its part: its handlers end.
HandlersEnd == \A c \in Conns : WF_vars(AppStep(c))

-----------------------------------------------------------------------------
\* The connections for which a worker slot has been taken.
SlotHolders ==
  {c \in Conns : cpc[c] \in Threaded \cup {"stillborn"}}
    \cup (IF main \in {"list", "start"} THEN {held} ELSE {})

\* MAX_CONNECTION_WORKERS: every slot is free or held by one connection, on
\* every way a connection can end; active_connections() never exceeds it.
SlotConservation ==
  /\ slots + Cardinality(SlotHolders) = limit
  /\ workers \subseteq SlotHolders

\* The gauges of metrics.py are what they are called: connections being
\* served, requests whose answer is awaited, open WebSockets.  One kind of end
\* is never counted down: each request that ended by what nobody catches
\* leaves active_http_requests one too high for good, and nothing else does.
GaugesExact ==
  /\ tcpGauge = Count(Threaded \ {"begin", "discard", "release"})
  /\ httpGauge = Count({"denied", "dispatch", "sending", "sent", "upgrade"}) + escaped
  /\ wsGauge = Count({"websocket", "wsover"})

\* MAX_KEEPALIVE_REQUESTS bounds the requests of a connection, and a
\* connection is kept only while the server is not stopping.
RequestCeiling ==
  \A c \in Conns :
    /\ MaxRequests > 0 => served[c] <= MaxRequests
    /\ cpc[c] = "idle" => keep[c] /\ ~AtCeiling(served[c])

\* app.close() comes once, and unless the shutdown deadline has passed no
\* connection is being served then (docs/app-http.md, "Apagado ordenado").
AppClosedAfterDrain ==
  /\ appClosed <= 1
  /\ appClosed = 1 /\ ~deadline => \A c \in Conns : cpc[c] \in {"offered", "dropped", "release", "gone"}

\* A connection serves at most one request that begins after stop(), the one
\* that was on its way to an idle connection (docstring of stop()).
OneRequestAfterStop == \A c \in Conns : begunLate[c] <= 1

\* Every slot and request of a connection is counted once, on every way a
\* connection or a request can end; so is every gauge, but for the requests
\* GaugesExact names.
CountsExact == TypeOK /\ SlotConservation /\ GaugesExact /\ RequestCeiling

\* What stop() promises of the connections that are open then.
DrainOrdered == AppClosedAfterDrain /\ OneRequestAfterStop

\* A stopped server leaves serve_forever, whatever the application does.
StopReturns == <>[](stop => main \in {"returned", "crashed"})

\* When handlers end, every connection accepted is served to its end.
ConnectionsEnd ==
  HandlersEnd =>
    <>[](\A c \in Conns : cpc[c] \in {"offered", "gone", "dropped", "stillborn"})

\* The server leaves its loop, and each connection its thread.
ShutdownEnds == StopReturns /\ ConnectionsEnd
=============================================================================

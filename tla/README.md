# wsbuilder in TLA+

A verification development for [wsbuilder](../src/README.md), a web framework and server written in
pure Python: HTTP/1.1, HTTP/2 and HTTP/3 servers, a router with thread pools per route, background
tasks, a request policy, caches, an ORM, a reverse proxy and a DNS server. The modules here model the
parts whose correctness depends on the order in which threads, clients and timeouts act; TLC checks
them on small instances, and TLAPS proves the most important statements for every instance.
`PROJECT.json` gives for every definition the lines it was translated from, for every run its
properties and for every property a fault that violates it. Paths in this file are relative to the
repository (`src/`).

## 1. The system

| Component | State it keeps | Operations | Who shares it |
|---|---|---|---|
| **TaskManager** (`tasks.py`) | table of handles, group index, ended handles in order, a semaphore of `max_concurrent` slots, `_closed` | spawn, cancel, cancel_group/all, close, wait/result | each task's thread, the threads that spawn, cancel and close, a task itself |
| **Route worker pools** (`app.py`) | the workers of a route, each worker's queue, load and counters | resolve, submit, the wait with a timeout, the worker's loop, close | the connection threads, the workers |
| **HTTPServer** (`server.py`, `http.py`, `http1.py`, `metrics.py`) | `_stop`, the limiter of worker slots, the set of workers, the gauges | accept, serve a connection, keep-alive, upgrade, stop, drain | the accept loop, a thread per connection, whoever calls stop |
| **SecurityPolicy** (`security.py`) | event times per client, temporary blocks, lists, the next sweep | evaluate, observe_response, block, unblock, list changes, snapshot | every thread that serves requests |
| **HTTP/2 connection** (`http2.py`, `hpack.py`) | streams, windows, settings, pending output, the list of producers | one handler per frame type, the answers, the streamed bodies, the end of the connection | the frame loop, the handlers' pool, a thread per streamed body |
| **QUIC and HTTP/3** (`quic/`, `http3*.py`, `qpack.py`) | sent packets, congestion window, queue of pieces, streams and windows, addresses and challenges, the table of connections | datagrams in, timers, queueing, draining, resets, requests, WebSocket streams | the thread of the socket, the handlers' pool, a thread per streamed body |
| **WebSocket** (`ws.py`) | what is read of a frame, fragments of a message, closing state, keepalive | frames in, sends, ping, close | the handler that reads, the application's other threads |
| **Key-value cache, view cache** (`cache.py`, `caches.py`) | rows with expiry, tags and counters; responses under keys; rules | get, set, incr, pop, expire, tag, delete, invalidate, clean-up; fetch and store around a handler | request threads |
| **ORM and replicas** (`orm.py`, `db_replicas.py`) | one shared connection, its transaction and savepoints, a replica's connection and cursor | statements, nested transactions, save, reads of a replica, close | request threads |
| **ProxyI** (`proxyi.py`) | rules, targets, round-robin and weighted state, gauges of proxy, rule and target | choose a rule and a target, forward, count; build, enable, prioritise, close a rule | connection threads, whoever configures |
| **DNS** (`dns.py`) | records, socket, executor, queries under way upstream | receive, resolve, ask upstream, start, close, change records | the serving thread, the upstream pool, the owner |
| mDNS, PKI (`mdns.py`, `pki.py`) | registered services; the certificate in force | register, browse; issue, rotate | each call is one critical section around an external library |
| **Dispatch** (`app.py`) | routes, middlewares, the caches and the policy it asks | `dispatch`, `close` | connection threads |
| Parsing, headers, logs, AI helpers, command line | none that threads share, or only text and numbers | pure functions | |

A request passes through several of them: the accept loop (`HTTPServer`) gives the connection a slot
and a thread; the thread reads requests, or hands the connection to an HTTP/2 loop; each request goes
to `App.dispatch`, which asks the `SecurityPolicy`, runs the handler in place or submits it to the
route's worker pool, and reports the response back to the policy; between the two it looks into the
view cache, and afterwards stores what may be stored. A handler may spawn tasks in the `TaskManager`,
use the cache and the database, or keep the connection as a WebSocket. HTTP/3 has its own datagram
loop beside the accept loop, and ProxyI answers as an application of its own. Shutting down goes the other way: `stop()`, the drain of connections, `app.close()`,
which closes the pools and the task manager.

What is hard here: every component takes its lock for short stretches, so the interesting states lie
between two critical sections (a load read and then used, an outcome decided and then written, a
stream closed and then forgotten). Timeouts race with answers. Threads may fail to start, handlers may
raise anything (`SystemExit` included), generators may fail in the middle of a response.
`PROJECT.json` lists these hazards at their lines.

What makes each component correct:

- *TaskManager*: at most `max_concurrent` targets at once; slots neither leak nor multiply; a promised
  cancellation is kept; waiters wake after the bookkeeping; live tasks stay in reach of close.
- *Worker pools*: no job lost, run twice or run after it was withdrawn; each request is answered.
- *HTTPServer*: slots and gauges exact on every way a connection ends, but for the gauge of requests that
  end by what nobody catches; the application is closed after the drain; stop and idle connections end.
- *Dispatch and view cache*: the policy is asked once; nobody is answered with what was computed for
  other credentials or another language; an invalidated page does not come back.
- *SecurityPolicy*: rate limits and blocks hold although calls are reordered; bounded maps, whose
  evictions are the one thing that lets a client in more often.
- *HTTP/2*: flow control exact; no output stuck, no stream forgotten after an `Exception`, END_STREAM last; both ends of the
  header compression keep the same table; the connection's threads end.
- *QUIC and HTTP/3*: each byte of a stream sent, resent and delivered in order; each packet
  acknowledged, lost or in flight, once; a timer while something awaits its acknowledgement; credit
  that cannot run out; no address served that did not answer where one is asked to; whole requests in,
  honest ends out.
- *WebSocket*: messages reassembled however the bytes are cut; a CLOSE answered, the end reported, a
  silent peer found out.
- *Key-value cache*: bounded, its counters exact, and a map that may only forget.
- *ORM and replicas*: a transaction is all or nothing and one thread's; what a caller was told is
  stored is stored; the lock is released.
- *ProxyI*: open requests counted exactly; even turns with round robin and exact weighted shares, for as
  long as a rule keeps its balance and its enabled targets (and, for weights, from a time at which they
  were level); the default rule for every request that no other serves.
- *DNS*: places of the upstream pool come back, no query vanishes, close leaves nothing behind, alias
  chains are followed.

## 2. Modules and the code

Each action is one step of a thread between two points where another thread can act: a critical
section, or a stretch that touches nothing shared. History variables are marked as such in each
module. `PROJECT.json` pairs each property with a mutated definition, a plausible bug of that code,
under which TLC finds the property violated; the mutated forms are marked `\* Fault:` and are not part
of the models.

**`TaskContract`** is what the task manager promises to its callers, without threads or tables:
bounded execution, outcomes that are final, results only from bodies that executed, promised
cancellations without result. **`TaskManager`** has the thread of `_run` (gate, acquisition with its
0.1 s retries, start, target, settlement, release, finalization, waking), spawn with its failure,
`cancel`, the sweeps of `cancel_group`/`cancel_all`, and `close` in its three modes, called from
outside or from a task. It implements `TaskContract` under the mapping at the end of the module.
**`TaskManagerProofs`** holds the proofs about it.

**`RouteWorkers`**: `resolve` reads the workers' loads one at a time under the pool's lock, `submit`
checks the load again under the worker's, the requester waits, with or without a timeout, the worker
takes, handles, notifies; `close` goes from worker to worker without the pool's lock.
**`MCRouteWorkers`** names the pool shapes TLC explores, **`WorkersAndPolicyProofs`** has the
proofs, and those about `SecurityPolicy`.

**`HttpServer`**: the accept loop from `accept` to the drain and `app.close()`; each connection's
thread from its first read to the return of its slot; keep-alive, the ceiling of requests, WebSocket
upgrades; `stop()` at any time; the three gauges of `metrics.py`. A handler, a stream or an upgrade may
also end by what `except Exception` does not catch (`Escapes`); the history `escaped` counts these, so
that `GaugesExact` can say by how much the gauge of requests is wrong. **`HttpProofs`** has the proofs about
this module and about `Hpack`.

**`AppDispatch`**: a request's way through `App.dispatch` (policy, static answers, routes, HEAD and
OPTIONS, the cache's `fetch`, the handler, `store_response`, errors) composed with
`ViewResponseCache`, whose store keeps the promise of `CacheContract` and no more. The data that
handlers show has versions, so that a stale page can be told from a fresh one. Proofs:
**`AppAndDnsProofs`**.

**`CacheContract`** is a map that may forget. **`KeyValueCache`** is `SQLiteMemoryCache`: rows, tags
and counters, every call that changes them, with the clock read before the lock is taken where the
code does. It implements `CacheContract`: what a call answers is in the map, what it denies is not.
**`KeyValueCacheProofs`** proves both.

**`SecurityPolicy`**: each call reads the clock, then takes the lock; Python dictionaries are
sequences of entries because eviction follows their order. Eviction makes the policy forget a client's
requests: the histories `letGo` and `lost` keep what it has forgotten, so that `WindowRespected` can
bound what a client gains by it. The result of ACL matching and of resolving
the client's address is an input.

**`Http2`**: one connection. A frame is handled in one step, under the lock. A step is a chain of
operators on the record `Conn` (streams, recently reset identifiers, connection window), as in the
code: credit, flush, end of a side, release of closed streams. Handlers and producers have their own
steps; `starting` is the handler that holds the lock between listing a producer and starting it, which
matters because `_streaming` and `_finish_producers` look at the list without the lock. A handler or a
body that raises what is no `Exception` has steps of its own (`HandlerEscapes`, `BodyEscapes`), after
which nobody resets the stream. The client
keeps to the protocol; what the code answers with `ConnectionError_` or `HPACKError` is `BadFrame`,
which may come at any time, so refusals have no separate guard in the other frame actions.
**`Hpack`** has the two dynamic tables of one direction, the encoder's and the decoder's: a block is a
sequence of representations, so that what it means to the receiver can differ from what was meant.
Proofs about both are in **`HttpProofs`**.

**`QuicSender`** is the sending half of a QUIC connection in its 1-RTT packet space: producers fill and
reset the queue while the socket's thread drains it, behind whatever waits of the same stream (a
response comes in many pieces at once, a head and a FIN wait for no room); cutting to credit, congestion window and
amplification budget; acknowledgement, loss, probes, retransmission. Every byte has a number, so a
frame shows both the offset it claims and the bytes it carries. **`QuicPath`** is where the client is:
Retry tokens, challenges and their echoes, on a network that delays and repeats; a first flight may
begin with another packet than its Initial, and is then not asked for a token.
**`Http3Server`** is the receiving side: admission of connections and eviction of the idle, reassembly
of streams, receive windows, requests and their handlers, streamed bodies, WebSocket streams, drop.
Whether a datagram opens a connection is `QuicPath`'s matter, and an open choice here.
Proofs about these three: **`EdgeProofs`**.

**`WebSocket`**: reads that a timeout may cut between any two bytes, fragments, control frames, the
closing handshake, keepalive and idle time in polls; a send is three steps because `send_frame` asks
`_closed` before the lock and sets it after. Proofs: **`WebSocketProofs`**.

**`Database`**: the one connection that threads share, with its re-entrant lock, savepoints, the
transaction that Python's `sqlite3` begins by itself, `executemany`, `Model.save`; the replicas and
their open cursors; `close`. A row is the number of the last write to its key. Proofs:
**`DatabaseProofs`**.

**`ProxyI`**: `dispatch` in its critical sections (the rule, the list of enabled targets, the choice,
the gauges; for a rule without an enabled target, the default rule's list in a section of its own)
against a builder that changes rules in use; round robin and smooth weighted choice are
computed, what other strategies compute is an input. Two histories say what a rule owes its targets:
`turns` counts the picks since the enabled targets or the balance last changed, and `level` remembers
whether the weights were level at that time; after a change that leaves them uneven (the code keeps
the old weights of targets that stay) no share is claimed until they are. **`EdgeProofs`** has the
proofs about this module too.

**`DnsServer`**: the receiving thread, the depth-first resolution with wildcards and aliases, the pool
that asks upstream servers, `start` and `close` in another thread, unlocked changes of the records.
**`AppAndDnsProofs`** has the proofs about this module and about `AppDispatch`.

**`MC...`** modules give constants their values. Three of them put components that share nothing
into one run: `MCPolicyAndDns` (`SecurityPolicy`, `DnsServer`), `MCQuic` (`QuicSender`, `QuicPath`),
`MCHttp2` (`Http2`, `Hpack`). The first choice of a behaviour is which of the two it runs, the other
keeps its initial state; the states of the run are the sum of the two, not their product.

## 3. Runs

| Run | Instance | Shows |
|---|---|---|
| `tm_core` | 2 tasks of one group, 1 slot, history of 1, one task timed and closing the manager, one raising `SystemExit`, one outside caller | bookkeeping, cancellation, close, progress, and the refinement of `TaskContract` |
| `rw_core` | 3 requests, one that ends its worker; a pool of 1 to 2 workers, and one worker with a timeout; close at any time | no job lost or run twice, honest answers, everyone answered |
| `hs_core` | 2 connections, 1 or 2 slots, keep-alive of 2, threads that fail to start | slots, gauges, drain, end of server and connections |
| `vc_core` | 2 requests at once, with and without credentials, a private view, a POST, a view that shows a language; 1 change of the data | one check, own answers, invalidation |
| `kv_core` | 2 threads, 2 ids, 1 tag, a limit of 1 entry or of 2 bytes, 3 calls, 2 ticks | limits, counters, and the refinement of `CacheContract` |
| `sp_core` | 2 clients, 2 threads, windows of 2 s, one place in each map, 3 calls; or 2 DNS queries, a pool of 1 worker and 1 place, 2 lives of the server, 1 edit | rate limits, blocks, bounds; accounting of queries, close, alias chains |
| `h2_core` | 2 streams, limit 1 with windows of 1 unit, limit 2 with windows of 0, either changed once, bodies up to 2, 1 streamed, 1 frame of credit; or 3 header blocks in a table of 3 units | flow control, stream accounting, ends of answers, no thread waits for ever; tables in step |
| `qs_core` | 1 request stream of 3 bytes in pieces of up to 2 and the control stream, 4 packets, windows of 4 to 5, requests before and after the end of the handshake; or 3 addresses, 3 datagrams, 2 connections | queue, credit, loss recovery, timers; validated addresses |
| `h3_core` | 2 request streams of one connection (plain, streamed, HEAD, WebSocket, malformed, too long), a second client, one place for both, 1 worker | reassembly, credit, one honest answer, handlers and producers end |
| `ws_core` | 8 scripts of a peer, 5 settings of the timeouts, frames of 2 bytes, a second thread | framing, messages, close, silent peers |
| `px_core` | 2 requests, a default rule and a weighted rule with weights 2 and 1, 4 changes | gauges, even turns and weighted shares, default rule |
| `db_core` | 2 threads, 2 keys, 2 writes, 2 blocks, 1 replica, both journal modes | transactions, durability, release of the lock |

Most properties of a run are conjunctions of named parts (`WorkConserved` is `LoadBound`,
`JobConservation`, `WithdrawnNeverRuns` and the type invariant): each part is a statement of its own in
the module, with its own comment.

Why these bounds are enough for what they show: the hazards are races of two parties over one
resource, so each instance has two of the competing parties (three where a third one must find the
resource taken by two) and a resource of size one, where every boundary is met: a full queue, a full
map, an empty window, the last slot. Configurations that change the code's path (the number of slots,
the shape of a pool, the limit of streams, the limits of the cache, the journal mode) are chosen in
`Init`, so that one run covers them. Bounds that stand for "any number" are constants described as
*bound*: requests, calls, clock, packets, chunks, writes, edits. They limit how long a behaviour goes
on, never which steps may follow each other.

A constant keeps a known flaw out of a run so that the rest can be stated exactly: `Recut` in
`Http3Server` (a client repeats a piece as it was cut, or longer). The histories `missed` in `Hpack`,
`hasty` in `DnsServer`, `late` in `AppDispatch`, `refused` in `Database`, `escaped` in `HttpServer` and
`letGo` in `SecurityPolicy` name such a case in the property itself, as the value "escaped" of a handler
or a body does in `Http2`, `asked` in `QuicPath` and a `rejected` WebSocket in `Http3Server`. Section 4 says what the flaws are.

`h2_core` looks at the states through a view: once the frame loop is left, what it knew of frames still
to come is read by no step and by no property, and is left out. With room for one stream its windows
begin at one unit, with room for two they begin closed and wait for credit. The sender of `qs_core`
begins with one byte of credit and nothing it may send before it has received more.

Symmetry is used where no liveness is checked: threads in `sp_core` and `kv_core`, slots in `vc_core`,
requests in `px_core`, the addresses a client may move to in `qs_core`. Deadlock is checked in `h2_core`, where the states at rest are those in which
the connection and all its threads have ended (`Rest`); the other systems may stop when their bounded
inputs are used up, and what must end in them is an eventual property.

### Fairness

Fair are the steps of threads that the operating system runs and that wait for nobody but the lock, and
waits that the code bounds with a timeout (the 0.1 s retry of the gate, idle reads, the drain, a
WebSocket's poll). Nothing is assumed of applications or peers in a specification of the server.
Where progress depends on them the property says so: `TargetsEnd`, `HandlersReturn`, `HandlersEnd` are
premises of `SpawnedTasksEnd`, `EveryRequestAnswered`, `ConnectionsEnd`. `CancelledWaiterEnds` and
`StopReturns` have no premise. Eventual properties are about predicates that stay true, so `<>[]` says
that every instance is served. `Database` is the exception: that the body of a `with` block ends is the
application's part, and `LockFreed` says that then the lock comes back whatever failed. In `Http3Server`
the pool, the pumps and returning handlers go on, the client and the network need not: `HandlersWake`
and `ProducersClosed` hold without them. In `WebSocket` the reader polls and sends end, the peer owes
nothing: so `SilentPeerFound` is about the timeouts alone. In `Http2` no fairness is stated: after the
loop is left every behaviour is finite, so the absence of deadlock is what says that handlers and
producers end.

## 4. Where code and documentation disagree

These were met while modelling. The models contain the steps unless it is said that they do not, and
no property claims the contrary. Each is a reading of the source at the lines given.

Tasks, pools, server:

- A target that raises `SystemExit` is finalized and wakes its waiters with the status still `running`:
  `_run` handles `Exception` (`tasks.py:279`), while `docs/observability-tasks.md:117` says the task
  is in its final state when `wait()` returns.
- Two tasks that both call `close(wait=True)` on their manager join each other (`tasks.py:462`).
- `resolve` and `submit` are not one step, so concurrent requests can pick the same worker and one is
  answered 503 although the pool could grow (`app.py:229` and `121`; `tests/test_app_threads.py:191`).
  Without `timeout_seconds` a job behind a dead worker waits for ever (`app.py:127`).
  `_RouteThreadPool.close` takes no lock: a request resolved meanwhile starts a worker nobody closes
  (`app.py:254`, `CONTEXT.md:325`).
- `_send_http_response` swallows the failure of a stream and the connection is kept (`server.py:868`),
  although the client cannot tell where that response ended (`http1.py:255`). Not modelled.
- `stop()` between the decision on keep-alive and the response: that response does not announce
  `Connection: close` (`server.py:247`, `docs/app-http.md:321`).
- When `Thread.start()` fails in the accept loop, the drain joins a thread that never ran and
  `app.close()` is not reached (`server.py:213`, `docs/app-http.md:323`).
- A handler that raises `SystemExit` in the connection's thread, and whatever else passes `except
  Exception` or comes from where nothing is caught, leaves `active_http_requests` one too high for good
  (`server.py:806`). `GaugesExact` adds these requests, and says that nothing else does it.
- The map of clients is bounded, and a full one lets go of the client that asked longest ago
  (`security.py:318`): its count begins anew, so with one place the calls of a, b, a admit a twice in a
  window with a limit of 1. `WindowRespected` says what an eviction is worth: `RateLimit` admissions.
- A violation that extends a block returns a `Retry-After` shorter than the block; `unblock_ip` leaves
  the client's request times in place.

HTTP/2 and HPACK:

- `_on_window_update` flushes a stream without asking whether it is closed, so DATA can follow
  RST_STREAM (`http2.py:665`; comment at 577). A stream's inbound window starts from the client's
  setting, not from the server's (`http2.py:692`; 8 and 245).
- `serve` asks `_streaming()` before `_handling()` (`http2.py:485`): a handler that starts a streamed
  body and ends between the two makes an idle connection close under the stream. `_streaming`
  replaces the list of producers without the lock and may drop one just added.
- Trailers that arrive while a 413 still waits for window dispatch the refused request
  (`http2.py:739`); an oversized last DATA frame at that moment leaves the stream half closed until
  the connection ends. (`EndAfterWholeBody` and `NoOrphanStream` speak of streams not refused.)
- Only `Exception` is caught around a handler and a streamed body (`http2.py:861`, `:966`, and before
  that `app.py:1340`): after `SystemExit` nobody resets the stream, and it counts against
  `MAX_CONCURRENT_STREAMS` until the client resets it or the connection ends. `NoOrphanStream` names this
  case and excludes every other.
- A stream refused for `MAX_CONCURRENT_STREAMS` is answered before its header block is decoded, and
  an `encode()` that fails half way leaves its entries, and the size update it consumed, behind:
  afterwards the tables of the two ends differ. `TablesInStep` says that nothing else does this.
  Of several table sizes asked for before a block only the last is announced (RFC 7541, 4.2, wants
  the smallest too).

QUIC and HTTP/3:

- A piece of a stream held for a gap is replaced by a shorter one at the same offset, and bytes that
  were acknowledged are lost (`quic/connection.py:138`; comment at 135). Constant `Recut`.
- A packet that the amplification limit refuses is recorded as sent and counted in flight: what it
  carried is repeated although the queue still has it, and when the stream is reset meanwhile, past
  the final size the reset told (`quic/connection.py:647`). Neither the stream's offset nor
  `_sent_data_total` counts what such a packet carried (`quic/connection.py:678`), so when its piece is
  dropped by a reset, or other streams use the credit first, its repetition can exceed the peer's limit
  for the connection. `CreditRespected` therefore sums what left the queue, not what was ever in a
  packet. All of it takes 1-RTT packets that overtake the client's Finished.
- A retransmission puts all lost frames into one packet, which can exceed the datagram's limit; ACK-only packets are
  acknowledged, and the loss of one can start recovery; `MAX_PEER_STREAMS` is never replenished.
- Any datagram with a matching identifier from a new address issues a challenge, every further one
  adds another that is never removed. An echo is judged by `_probe_address`, not by the address it
  came from (`quic/address.py:135`); replies go to the datagram's address while repetitions go to the
  connection's, so a repeated challenge may be received at the old address and validate the new one.
  Two moves in a row lose the first response; a return needs a new challenge; a late datagram from a
  validated address moves the connection back.
- With `require_address_validation` a datagram that begins with a long header other than an Initial is
  not asked for a token (`http3_server.py:256`; `docs/http-versions.md:156`), the connection skips that
  packet (`quic/connection.py:287`) and an Initial behind it opens the connection. The history `asked` of
  `QuicPath` tells these connections from the others in `AddressProved`.
- A malformed HTTP/3 request is neither answered nor reset (`http3_server.py:320`); after an `H3Error`
  in the middle of a stream a FIN still dispatches it.
- A WebSocket stream whose partial frame outgrows the buffer is rejected without waking its handler
  (`http3.py:220`), and its FIN does not wake it either (`http3_server.py:320`): only the end of the
  connection does. `HandlersWake` says so.
- The producer of a streamed response to HEAD is never closed (`http3_server.py:389`), nor is that of a
  response whose head cannot be encoded or whose pump cannot start (`http3_server.py:396`, `:444`), where
  the stream is not ended either. The model has all three; `ProducersClosed` is about producers whose
  pump runs, and those whose connection was closed before the answer.
- A WebSocket's `send` over HTTP/3 asks whether the stream is closed before it queues
  (`http3_websocket.py:72`), so it can queue behind the FIN of a `close()` in another thread. Not
  modelled: the streams of `QuicSender` have one producer each.

WebSocket:

- Data, or a second CLOSE, can follow a CLOSE (`ws.py:510`); `_report_close` checks and sets without
  the lock, so `on_close` may be called twice; `io_poll_interval` also bounds `sendall`, so a slow
  reader is closed with 1006; a keepalive without pong and idle timeouts sends one ping and never
  another; an unmanaged socket times out with the HTTP request's timeout; after a local close the
  handler waits for ever in `recv` if there are no timeouts.

Caches, ORM, proxy, DNS:

- A page computed before `invalidate_path` and stored after it stays for its whole ttl
  (`app.py:1367`). `expire()` brings an expired row back that no sweep has removed (`cache.py:676`).
- An INSERT or a commit that fails outside a transaction leaves sqlite3's own transaction open:
  `transaction()` then raises until another write commits, and that commit stores the change whose
  caller got an error. The same holds for an `executemany` whose RELEASE fails and for
  `execute(commit=False)`. Cursors fetched outside the lock can show rows that are rolled back later.
  A replica's unfinished cursor pins a snapshot and, in the journal mode "delete", blocks commits, and
  a failed commit then keeps new readers out. A read after `close()` reopens the replica's connection.
  `Model.save` looks and then writes in two critical sections (`orm.py:970`).
- ProxyI's streamed relays are counted off before the relay has ended (`proxyi.py:1464`); a rule's
  matchers are half applied during a reload; `builder.default()` on a built rule changes its
  specificity but not the proxy's default rule.
- DNS: a `close()` that comes before the new thread has reached its loop is undone; `start()` after a
  close whose join gave up returns the dying thread; `clear_records` shows an empty table before the
  defaults return, `remove_record` writes back a copy, so a record added meanwhile is lost; one
  datagram is read per upstream; a local name without the asked type is forwarded when fallback is on;
  a malformed raw CNAME leaves the query unanswered.

## 5. Proofs

TLAPS checks the following for every value of the constants that satisfies the assumption the
component's module names. Each is `Spec => []P` for an invariant `P`, but for the action properties
`TerminalStaysFinal`, `AnsweredOnce`, `AllAnswersEndWell` and `BlockedStayOut` and the two refinements, whose form is
`Spec => Contract`.

| Module | Theorem | Statement |
|---|---|---|
| `TaskManagerProofs` | `TypeCorrect`, `SlotsConserved`, `ConcurrencyBounded` | the type invariant; free slots and holders add up to `max_concurrent`; at most that many targets execute |
| | `CancellationHonoured`, `TerminalStaysFinal` | a promised cancellation is kept; a terminal status is final |
| | `TablesSettled` | `BookkeepingSettled`: the tables are right for whoever sweeps, closes or wakes |
| | `ManagerImplementsContract` | the manager implements `TaskContract`, step by step |
| `WorkersAndPolicyProofs` | `PoolConservesWork`, `PoolAnswersHonestly` | `WorkConserved`, `AnswersAreHonest` of `RouteWorkers` |
| | `PolicyLimitsHold`, `BlockedStayOut` | `LimitsHold` of `SecurityPolicy`: bounds, strikes, and at most `RateLimit` admissions in a window but for as many more with each eviction; `NoAdmissionWhileBlocked`, an action property |
| `HttpProofs` | `CountsAreExact`, `DrainIsOrdered` | `CountsExact` (the gauge of requests too high by those that escaped), `DrainOrdered` of `HttpServer` |
| | `TablesStayInStep` | `TablesInStep` of `Hpack` |
| | `H2InvHolds`, `FlowIsControlled` | the inductive invariant of `Http2`; `FlowControlled` |
| | `NoStreamOrphaned`, `AllAnswersEndWell` | `NoOrphanStream` (but for what escaped); `AnswersEndWell`, whose second half is an action property |
| `AppAndDnsProofs` | `DispatchIsSound`, `InvalidationIsKept` | `DispatchSound`, `InvalidationHolds` of `AppDispatch` |
| | `DnsInvHolds`, `QueriesAccounted`, `CloseIsComplete` | the inductive invariant of `DnsServer`; `EveryQueryAccounted`; `CloseHolds` |
| | `AliasChainsFollowed` (when `NoAliasOfWildcard`) | `ChainFollowed`: an answer is exactly what the aliases reach |
| `KeyValueCacheProofs` | `BooksAreBalanced` | `BooksBalance`: limits, tags and counters |
| | `CacheImplementsContract` | the cache implements `CacheContract` |
| `EdgeProofs` | `AddressIsProved` | `AddressProved` of `QuicPath`: an address served was proved, or its first flight was not asked to |
| | `SenderInvHolds`, `QueueIsSound`, `RecoveryIsSound` | the inductive invariant of `QuicSender`; `QueueSound`; `RecoverySound` |
| | `GaugesAreExact`, `DefaultDoesCover`, `SharesAreFair` | `GaugesExact`, `DefaultCovers`, `FairShare` of `ProxyI` |
| | `StreamsAreSound` (when `~Recut`), `CreditIsKept` | `StreamSound`, `CreditNeverStops` of `Http3Server` |
| | `AnsweredOnce` | its action property `OneAnswer`: what has ended is not answered again |
| `WebSocketProofs` | `MessagesAreWhole`, `CloseIsHeard` | `MessagesSound`, `CloseHeard` |
| `DatabaseProofs` | `TransactionsAreAtomic`, `StoredIsTold` | `TransactionsHold`, `StoredAsTold` |

The assumptions (`TaskConstants`, `PoolConstants`, `PolicyConstants`, `ServerConstants`, `HpackConstants`, `Http2Constants`,
`DispatchAssumption`, `DnsConstants`, `DnsNames`, `CacheAssumption`, `PathConstants`, `SenderConstants`, `ProxyAssumption`,
`SocketConstants`, `DatabaseConstants`) say what kind of value each constant is: finite sets of tasks, requests,
connections, rules and keys, natural bounds, markers such as `None` that are nobody's name. Those with
content hold in the code: a pool has `min <= max`; a header's size in the table is positive (RFC 7541
adds 32); a target of a proxy rule has a weight of at least 1 and is an object of its rule; a
WebSocket frame has at least its two bytes; a receive window is larger than 1, so that half of it is
credit. TLC evaluates each of them. `StreamsAreSound` has one premise more, `~Recut`: with a client that
repeats a piece cut shorter its part `HeldUntilDelivered` is false (section 4).
`AliasChainsFollowed` has one too: no alias stands for a wildcard name. A wildcard whose alias leads
back to it answers under the asked name with records that the chain brought in
(`dns.py:991` looks at a row's name only), so there the property, which says the chain's records keep
their names, would not hold.

### The inductive invariants

Hardly any of these properties is inductive by itself. What is added, and why:

- *TaskManager.* A task that acquires must know that a free slot means one holder fewer, one that
  releases that it is a holder: `SlotInv` says which places of `_run` hold a slot. `OutcomeInv` relates
  a status to the place of its thread: terminal only after settlement, never completed or failed when
  a cancellation was promised. `RegistryInv` is about the tables: a live task is in `_tasks` and in its
  group (`TableInv`), the history is the newest of the ended ones in order (`NewestInv`), a closing call
  has still to join every task it found (`CloseInv`). The refinement needs `PhaseInv`: the verdict a
  thread carries tells on which side of its target it is.
- *RouteWorkers.* `PlaceInv` follows each job: in one queue once, or among those its worker took, once,
  or withdrawn, and never in two of these; `HandInv` says what a worker has in its hand, `SelectInv` that
  `close` goes through the workers in order, `DoneInv` why an answer may be given.
- *HttpServer.* `LoopInv` says that `_workers` lists exactly the connections whose thread the drain must
  join and that one socket at most is in the loop's hand; `CountInv` and `ServedInv` count slots and
  gauges by the places of the connections, the gauge of requests with those that escaped on top.
- *Hpack.* The encoder is ahead of the decoder by the blocks on their way. `HpackInv` says that these
  form a chain: decoding each of them takes one table to the next, the first table is the decoder's
  and the last the encoder's, and each block means on its way what it was meant to.
- *Http2.* A step is a chain of operators on the record of the connection, so what the invariant says
  is said of a record (`Base`, `ConnInv`) and of what the step leaves around it (`Others`), and each
  operator of the chain has a lemma that takes it from one record to the next; between two of them the
  invariant may fail for the one stream that is worked on (`Apart`), and a flush or the release makes
  it whole again. `StreamInv` says of a stream what the client has done (`NotYetOpened`,
  `OpenedByClient`), that a handler was asked for only behind END_STREAM (`HasBeenRequested`), that a
  body is produced only when its handler has ended (`BodyAfterHandler`), what END_STREAM waits for
  (`UntouchedBefore`, `NoEndWhileProduced`, `EndIsWhole`) and in whose hands the request is, if
  neither its handler nor its body escaped (`NotOrphaned`). For the connection, the credit left and the octets sent, summed over the streams,
  make up what the client gave; and no stream has output its windows have room for (`Flushed`), which
  every flush restores because a stream that has been flushed stays so when the connection's window
  shrinks. `StateFits` says that a stream whose request is whole is half closed by
  the client, so that the end of its answer closes it and nobody has to hold it any longer.
- *AppDispatch.* `SharingInv`: what a response may show is determined by what its request said, and what
  is stored under a key is right for every request that has this key. `FreshInv`: a response on
  its way to the store is as fresh as the last invalidation, or marked as computed before it.
- *DnsServer.* A query is in somebody's hand at every moment: `HandInv` says that the one the serving
  thread has is the last received, `ExecutorInv` that a query waits in the server's executor, in the
  one that `close` has taken and not shut, or is about to be refused; `OwedInv` that who owes an
  answer has neither been closed nor lost its socket, and `CloseInv` what `close` has given up at each of
  its steps. `PendingExact` is then kept by each step because the set of queries it counts gains or
  loses exactly the one the step is about. The resolution is a function of the depth: `RowsAt` of each
  depth is what the names reached in the steps that are left own, shown for depth 4 down to 0.
- *SecurityPolicy.* Stamps reach the maps out of order, so it is not obvious that what is left in a
  client's queue still counts everything admitted in the window. `AdmissionsKept` says that the admitted
  stamps can be found in the queue, each at a place of its own (`Counted`, by an injection): pruning takes
  from the front only, stops at the first stamp inside the window, and never drops one the history
  still counts, and where a client is evicted from the map both begin anew. As the queue is
  shorter than the limit whenever a call is admitted, the history is at most the limit; so each
  eviction adds at most the limit to what was lost (`LossesBounded`). `BansKept`: a ban
  announced to a client is over or still recorded at least as long. `MapsWithinBounds`, itself part of the property,
  is needed because an eviction makes room only in a map that is within its bound.
- *KeyValueCache.* Each of the calls is one of two kinds: it leaves a part of the store and counts as
  deleted every row that went, or it writes one row first. `IInv` is kept by both kinds, and by what
  they are made of (expiry, removal by tag, eviction until the limits hold), so no call needs an
  argument of its own. The same two kinds are the steps of `CacheContract`.
- *WebSocket.* `FrameInv` says where in the peer's bytes the reader stands: what was handed back to it
  by an interrupted read and what the current read has taken are the bytes since the start of a frame.
  `FragmentInv` says that an unfinished message is all the data frames since its first. `CloseInv`
  orders the flags of the closing handshake.
- *Database.* Inside a block no other thread sees anything, so the invariant is about marks: each
  carries a view older than its block, without anything undone (`MarkInv`), what was written since the
  outermost is the lock holder's (`OwnInv`), and outside of transactions the file differs from what
  callers were told only by writes whose commit was refused (`RowInv`).
- *QuicPath.* `Honest` says what datagrams on the way can say: a token or an echo shows that its sender
  has received something at the address it names. An address that is served without such a proof is
  that of a first flight which was not asked for a token.
- *QuicSender.* `LineInv` is the chain through the queue: for each stream that was not reset, what
  `drain_outbound` keeps leads from the byte sent last to some byte, what it has taken leads on from
  there, and what producers queued meanwhile leads to the byte produced last (`Along`; a reset that is
  queued cuts the end off). That it stays one when a piece is sent rests on `HeldInv`: nothing
  is kept of a stream that is neither stalled nor behind the stop, so the piece looked at starts where
  the sending stands. What is queued in one call is a chain by itself that starts where the last byte
  produced stands (`PiecesAre`). Putting the queue back, filtering it for a reset and cutting a piece each
  keep a chain (`LeadsBoth`, `WithoutIs`, `CutIs`). `KnownInv` follows what has left the queue: every
  byte below the offset (`BytesInv`), the end of a finished stream unless an entry still queued has it
  (`EndInv`) and each reset unless it is among the control frames of the run (`ResetInv`) is in a
  frame that is acknowledged or on record; losses and probes only move frames from one record to
  another. `RecordInv` says of the packets that `bytes_in_flight` is their weight, a sum over the
  record (`FlightOf`), that the timer is armed for what must be acknowledged and that the loss timer is
  armed exactly for what an ACK has passed over. An ACK names only packets that were sent because
  reading its ranges gives back the numbers they were written from (`AckNamesWhatArrived`). `WithinCredit`
  has the sum of all offsets, which `_sent_data_total` is, within the limit of the connection.
- *Http3Server.* `StreamInv` has three parts for each stream. `HoldsAll`: the pieces lie below the highest
  byte seen, and what arrived is delivered or in one of them. `TakenIn`: the request is exactly the
  frames delivered so far, unless it was rejected, and it is finished only when all were. `AnswerAt` ties
  what runs for a stream to the state of our side of it: nothing before the request is marked as
  answered, an unsent answer while the handler runs, an open stream while its pump or WebSocket does
  (and after it, where the pump could not start).
  `CreditInv` needs the sum over a connection's streams: what the server grants is what it checks
  against, and half of a window at least lies beyond what was delivered.
- *ProxyI.* `InStep` says what a request has at each step, `Sheltered` that a request marked as covered
  is still covered, also between the empty list of its rule and the default rule's. `Fair` is the invariant of the two strategies: with round robin the targets that
  had one turn more form an arc that ends where the rule's counter points; with weights, current weights
  sum to 0, `turns * Total + weight = n * Weight` for each target after `n` picks, and the weight is
  above `-Total`. Shares follow: after a full round each current weight is a multiple of `Total` above
  `-Total`, and they sum to 0, so each is 0.

### Sums and chains without induction over data

Sums of bytes in the cache and over packets, the folds of `Hpack` and of the ACK ranges, the filter of a
queue and the weights of `ProxyI` are computed over tables of any size, and no installed prover can use the library's induction theorems. The proofs take the least
counterexample instead: a nonempty set of numbers has a least element (`LeastOfNats`), a nonempty
set of finite sets one with no smaller one in it (`LeastOfSets`), both from the well-foundedness of `<` and
of strict inclusion in `WellFoundedInduction`. A claim is turned into the set of its counterexamples, and
the least of them contradicts itself; `UpwardTo` is the form for positions in a sequence. Such claims are
lemmas with their set written out, and what a function such as a sum computes is related to its
value at one element less by the function's own definition.

### What stays with TLC

- Liveness, which rests on fairness and ENABLED: every property that uses `<>` or `~>`, and the absence of
  deadlock in `h2_core`.

Every invariant the runs check is proved, so a run shows on its instance what a
theorem says in general. Proving found one statement of an earlier version that was true only within a
run's bounds: the share of a target was claimed also after its rule had been given other targets with
uneven weights, and round robin was judged by weights.
`CreditRespected` summed what was ever in a packet, which one request stream keeps within the
connection's limit and two do not (section 4).
Another was too strong for any run to tell: that the body of every handled request is its data whole.
A stream that begins with data fails at that frame, and when its headers and its end come in a later
piece a handler runs all the same, without that data; `RequestIsWhole` says what holds of every handled
stream and what only of those that are requests.

## 6. Not modelled, and the plan

Not modelled at all: parsing and formatting (HTTP/1, headers, cookies, QPACK strings), certificates,
logs, AI helpers and the command line, which are text or numbers without a protocol; `pki.py`, whose
`CertificateManager` does each call in one critical section; and mDNS, of which only the collector of
`discover_mdns_services` is a protocol (step 3 below). Left out of modelled parts:

- *Server, dispatch*: counters other than the gauges, matching of paths, registration and blueprints;
  in `AppDispatch` the time to live is only that the cache may forget.
- *HTTP/2*: the window the server keeps for a connection as a whole (every DATA frame refills what it
  takes), PING and PRIORITY, partial sends when a link breaks in the middle of an answer; in `Hpack`
  octets, Huffman codes and integer prefixes. The other end of the compression is taken to be this
  code.
- *QUIC*: the handshake (TLS, its packet spaces, the amplification limit beyond its budget in
  `QuicSender`), encryption, the wait of a streamed body for room (`wait_for_send_room` holds a chunk up
  only while its stream has 256 KiB queued, more than the runs ever queue; heads, FINs and frames of a
  WebSocket never wait), time (a packet that time may declare lost is lost or not yet), sizes of
  datagrams. The challenges of the client's side keep no state.
- *HTTP/3*: a frame is one unit, the limit of streams and kinds of malformed header sets are left out, and
  so is a WebSocket's handler that cannot be started.
- *WebSocket*: `auto_pong=False`, masking, the choice of a subprotocol; UTF-8 is a "bad" frame.
- *Caches*: `incr` on what is no number and errors of decoding.
- *ORM*: SQL text, conversion of fields, reads through the shared connection's cursor, writers in
  other processes, explicit `commit=`, pragmas.
- *ProxyI*: strategies that rank targets by statistics are inputs; relaying and cleaning of headers.
- *DNS*: the records change between two queries, not while the chain of one is followed
  (`dns.py:952` to `984` reads them without a lock, name by name); bytes and names' decoding are the datagram's kind, sizes are counted in records, the
  upstreams' addresses and loss on the network.

What is left, in the order of its worth:

1. A module of their own for the lemmas on least elements and on sums, which `HttpProofs`, `EdgeProofs`
   and `KeyValueCacheProofs` each state for themselves.
2. The handshake's packet spaces beside the 1-RTT space of `QuicSender`, and its composition with the
   receiving side of `Http3Server` as a reliable ordered stream.
3. The collector of `discover_mdns_services`: notices of a browser's thread against the lookups of the
   caller; a service is reported only as its last notice left it.

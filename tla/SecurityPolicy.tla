--------------------------- MODULE SecurityPolicy --------------------------
(***************************************************************************)
(* wsbuilder/security.py: SecurityPolicy.evaluate, observe_response, the   *)
(* temporary blocks and the lists.                                         *)
(*                                                                         *)
(* A request's thread reads the clock, then waits for the policy's lock:   *)
(* calls reach the maps in another order than their time stamps.  Time is  *)
(* counted in seconds.  Which ACL rule matches a request is the request's  *)
(* own: its effect is an input of evaluate.                                *)
(***************************************************************************)
EXTENDS Integers, FiniteSets, SequencesExt

CONSTANTS
  Threads,             \* the threads that serve requests
  IPs,                 \* client addresses
  RateLimit, RateWindow,            \* rate_limit_requests and its window; 0 is off
  ViolationThreshold, ViolationWindow,
  SuspiciousThreshold, SuspiciousWindow,
  BlockDuration,       \* block_duration_seconds
  MaxTracked,          \* max_tracked_clients
  MaxBlocks,           \* max_temporary_blocks
  SweepInterval,       \* SWEEP_INTERVAL_SECONDS
  AclDefault,          \* acl_default
  WhitelistOverrides,  \* whitelist_overrides_blacklist
  WhitelistBypasses,   \* whitelist_bypass_behavior
  Listable,            \* bound: addresses the lists may name
  MaxClock, MaxCalls   \* bounds: the clock, and the calls of the policy

ASSUME PolicyConstants ==
  /\ IsFiniteSet(IPs) /\ Listable \subseteq IPs
  /\ {RateLimit, RateWindow, ViolationThreshold, ViolationWindow, SuspiciousThreshold,
      SuspiciousWindow, SweepInterval, MaxClock, MaxCalls} \subseteq Nat
  /\ {BlockDuration, MaxTracked, MaxBlocks} \subseteq Nat \ {0}
  /\ AclDefault \in {"allow", "deny"}
  /\ WhitelistOverrides \in BOOLEAN /\ WhitelistBypasses \in BOOLEAN

VARIABLES
  clock,        \* time.time()
  call,         \* where each thread is: its operation, client and time stamp
  calls,        \* how many calls were made
  requests, violations, suspicious,  \* the three maps of event times
  blocks,       \* _temporary_blocks
  nextSweep,    \* _next_sweep_at
  white, black, \* the addresses on the whitelist and the blacklist
  latest,       \* history: the latest time stamp the policy has seen
  admitted,     \* history: stamps of each client's admitted requests of the last window,
                \* since the full map of clients last let go of its row
  letGo, lost,  \* history: how often the map let go of a client's row, and how many of
                \* its admissions it lost count of by that
  banned        \* history: until when each client was last told it is blocked

maps == <<requests, violations, suspicious, blocks, nextSweep>>
history == <<latest, admitted, letGo, lost, banned>>
policyVars == <<clock, call, calls, maps, white, black, history>>

Idle == [op |-> "idle"]

(***************************************************************************)
(* Python's dict keeps its keys in order of insertion: a map is a sequence *)
(* of entries.  Eviction drops the oldest ones until one more fits.        *)
(***************************************************************************)
Keys(d) == {d[i].key : i \in DOMAIN d}
PlaceOf(d, k) == CHOOSE i \in DOMAIN d : d[i].key = k
Lookup(d, k, default) ==
  IF k \in Keys(d) THEN d[PlaceOf(d, k)].val ELSE default
Without(d, k) == IF k \in Keys(d) THEN RemoveAt(d, PlaceOf(d, k)) ELSE d
AddLast(d, k, v) == Append(Without(d, k), [key |-> k, val |-> v])

LeaveRoom(d, max) ==
  IF Len(d) < max THEN d ELSE SubSeq(d, Len(d) - max + 2, Len(d))

\* The elements of a sequence that are in S, in their order.
KeepIn(S, kept, x) == IF x \in S THEN Append(kept, x) ELSE kept
Kept(s, S) == FoldLeft(LAMBDA kept, x : KeepIn(S, kept, x), <<>>, s)

(***************************************************************************)
(* Event times                                                             *)
(***************************************************************************)
TrimsEdge(rows, threshold) ==  \* Fault: an event of the window's first second is dropped
  LET kept == {i \in DOMAIN rows : rows[i] > threshold + 1}
  IN  SubSeq(rows, Min(kept \cup {Len(rows) + 1}), Len(rows))

\* "while rows and rows[0] <= threshold: rows.popleft()"
Trim(rows, threshold) ==
  LET kept == {i \in DOMAIN rows : rows[i] > threshold}
  IN  SubSeq(rows, Min(kept \cup {Len(rows) + 1}), Len(rows))

\* _push_event_locked.
Push(d, ip, now, window) ==
  LET room == IF ip \in Keys(d) THEN d ELSE LeaveRoom(d, MaxTracked)
  IN  AddLast(room, ip, Trim(Append(Lookup(d, ip, <<>>), now), now - window))

Trimmed(d, threshold) ==
  [i \in DOMAIN d |-> [key |-> d[i].key, val |-> Trim(d[i].val, threshold)]]
Pruned(d, now, window) ==
  LET trimmed == Trimmed(d, now - window)
  IN  IF window = 0 THEN <<>> ELSE Kept(trimmed, {e \in Range(trimmed) : e.val # <<>>})

Unexpired(d, now) == Kept(d, {e \in Range(d) : e.val > now})

\* The maps after _sweep_locked, which makes a full pass once per interval.
Sweeps(now) == now >= nextSweep
AfterSweep(now) == now + SweepInterval
SweptEvents(d, now, window) == IF Sweeps(now) THEN Pruned(d, now, window) ELSE d
SweptBlocks(now) == IF Sweeps(now) THEN Unexpired(blocks, now) ELSE blocks
SweptRequests(now) == SweptEvents(requests, now, RateWindow)
SweptViolations(now) == SweptEvents(violations, now, ViolationWindow)
SweptSuspicious(now) == SweptEvents(suspicious, now, SuspiciousWindow)

(***************************************************************************)
(* _set_temporary_block_locked                                             *)
(***************************************************************************)
LatestRequestWins(until, old) == until  \* Fault: a longer block is cut short
LaterOf(until, old) == IF old > until THEN old ELSE until

Until(d, ip, now, duration) == LaterOf(now + duration, Lookup(d, ip, 0))

Block(d, ip, now, duration) ==
  LET room == IF ip \in Keys(d) THEN d ELSE LeaveRoom(d, MaxBlocks)
  IN  AddLast(room, ip, Until(d, ip, now, duration))

(***************************************************************************)
(* _register_violation_locked and _register_suspicious_response_locked: an *)
(* event is pushed; at the threshold the client is blocked and its events  *)
(* are dropped.                                                            *)
(***************************************************************************)
CountsStrikes(threshold, window) == threshold > 0 /\ window > 0

TooMany(n, threshold) == n >= threshold

Struck(d, ip, now, threshold, window) ==
  /\ CountsStrikes(threshold, window)
  /\ TooMany(Len(Lookup(Push(d, ip, now, window), ip, <<>>)), threshold)

AfterStrike(d, ip, now, threshold, window) ==
  IF ~CountsStrikes(threshold, window) THEN d
  ELSE IF Struck(d, ip, now, threshold, window) THEN Without(Push(d, ip, now, window), ip)
  ELSE Push(d, ip, now, window)

-----------------------------------------------------------------------------
PolicyInit ==
  /\ clock = 0 /\ calls = 0
  /\ call = [th \in Threads |-> Idle]
  /\ requests = <<>> /\ violations = <<>> /\ suspicious = <<>>
  /\ blocks = <<>> /\ nextSweep = 0
  /\ white = {} /\ black = {}
  /\ latest = 0
  /\ admitted = [ip \in IPs |-> <<>>]
  /\ letGo = [ip \in IPs |-> 0] /\ lost = [ip \in IPs |-> 0]
  /\ banned = [ip \in IPs |-> 0]

Tick ==
  /\ clock < MaxClock
  /\ clock' = clock + 1
  /\ UNCHANGED <<call, calls, maps, white, black, history>>

\* A call reads the clock before it asks for the lock.
Ask(th, op, ip) ==
  /\ call[th] = Idle /\ calls < MaxCalls
  /\ call' = [call EXCEPT ![th] = [op |-> op, ip |-> ip, now |-> clock]]
  /\ calls' = calls + 1
  /\ UNCHANGED <<clock, maps, white, black, history>>

Whitelisted(ip) == ip \in white
Bypasses(ip) == Whitelisted(ip) /\ WhitelistBypasses
Blacklisted(ip) == ip \in black /\ ~(Whitelisted(ip) /\ WhitelistOverrides)

Recent(stamps, newest) == Kept(stamps, {s \in Nat : s > newest - RateWindow})

(***************************************************************************)
(* What every call under the lock leaves: the maps, and in the history     *)
(* what was admitted and which blocks are due.  The policy starts counting *)
(* anew for a client it let go of, and an evicted block is forgotten.      *)
(***************************************************************************)
Larger(a, b) == IF a > b THEN a ELSE b

Locked(th, next, req, vio, sus, blk) ==
  LET now == call[th].now
      newest == Larger(now, latest)
      forgotten == Keys(SweptRequests(now)) \ Keys(req)
      lifted == Keys(Unexpired(blocks, now)) \ Keys(blk)
      admission == next.op = "allowed" /\ ~Bypasses(next.ip)
      record(a) == IF admission /\ a = next.ip THEN Append(admitted[a], now) ELSE admitted[a]
  IN  /\ call' = [call EXCEPT ![th] = next]
      /\ requests' = req /\ violations' = vio /\ suspicious' = sus /\ blocks' = blk
      /\ nextSweep' = IF Sweeps(now) THEN AfterSweep(now) ELSE nextSweep
      /\ latest' = newest
      /\ admitted' = [a \in IPs |->
           IF a \in forgotten THEN <<>>
           ELSE Recent(record(a), newest)]
      /\ letGo' = [a \in IPs |-> IF a \in forgotten THEN letGo[a] + 1 ELSE letGo[a]]
      /\ lost' = [a \in IPs |-> IF a \in forgotten THEN lost[a] + Len(admitted[a]) ELSE lost[a]]
      /\ banned' = [a \in IPs |->
           IF a \in lifted THEN 0 ELSE Larger(banned[a], Lookup(blk, a, 0))]
      /\ UNCHANGED <<clock, calls, white, black>>

ActivelyBlocked(ip, now) == Lookup(SweptBlocks(now), ip, 0) > now

\* _active_block_locked drops the client's own block when it has run out.
BlocksSeen(ip, now) ==
  IF ActivelyBlocked(ip, now) THEN SweptBlocks(now) ELSE Without(SweptBlocks(now), ip)

\* _deny_locked and _allow_locked; req and blk are what the caller leaves.
Deny(th, req, blk) ==
  LET ip == call[th].ip
      now == call[th].now
      vio == SweptViolations(now)
  IN  Locked(th, [op |-> "denied", ip |-> ip], req,
             AfterStrike(vio, ip, now, ViolationThreshold, ViolationWindow),
             SweptSuspicious(now),
             IF Struck(vio, ip, now, ViolationThreshold, ViolationWindow)
               THEN Block(blk, ip, now, BlockDuration) ELSE blk)

Allow(th, req, blk) ==
  LET now == call[th].now
  IN  Locked(th, [op |-> "allowed", ip |-> call[th].ip], req,
             SweptViolations(now), SweptSuspicious(now), blk)

\* The access list: the effect of the first rule that matches, or the default.
AclAllows(effect) == effect = "allow" \/ (effect = "none" /\ AclDefault = "allow")

Limits(ip) == ~Bypasses(ip) /\ RateLimit > 0 /\ RateWindow > 0

Evaluate(th, effect) ==
  LET ip == call[th].ip
      now == call[th].now
      due == BlocksSeen(ip, now)
      pushed == Push(SweptRequests(now), ip, now, RateWindow)
      refused == (ActivelyBlocked(ip, now) /\ ~Bypasses(ip)) \/ Blacklisted(ip)
      over == Limits(ip) /\ Len(Lookup(pushed, ip, <<>>)) > RateLimit
      counted == IF Limits(ip) THEN pushed ELSE SweptRequests(now)
  IN  /\ call[th].op = "evaluate"
      /\ \/ refused /\ Deny(th, SweptRequests(now), due)
         \/ ~refused /\ over /\ Deny(th, pushed, Block(due, ip, now, BlockDuration))
         \/ ~refused /\ ~over /\ AclAllows(effect) /\ Allow(th, counted, due)
         \/ ~refused /\ ~over /\ ~AclAllows(effect) /\ Deny(th, counted, due)

\* The response is sent; observe_response reads the clock again.
Respond(th) ==
  /\ call[th].op \in {"allowed", "denied"}
  /\ call' = [call EXCEPT ![th] = [op |-> "observe", ip |-> @.ip, now |-> clock]]
  /\ UNCHANGED <<clock, calls, maps, white, black, history>>

\* observe_response of a status in suspicious_status_codes, or of another.
ObserveResponse(th, suspect) ==
  LET ip == call[th].ip
      now == call[th].now
      sus == SweptSuspicious(now)
      counts == suspect /\ ~Bypasses(ip)
  IN  /\ call[th].op = "observe"
      /\ Locked(th, Idle, SweptRequests(now), SweptViolations(now),
                IF counts THEN AfterStrike(sus, ip, now, SuspiciousThreshold, SuspiciousWindow)
                          ELSE sus,
                IF counts /\ Struck(sus, ip, now, SuspiciousThreshold, SuspiciousWindow)
                  THEN Block(SweptBlocks(now), ip, now, BlockDuration)
                  ELSE SweptBlocks(now))

\* block_ip does not sweep.
BlockIp(th, duration) ==
  LET ip == call[th].ip
      now == call[th].now
      blk == Block(blocks, ip, now, duration)
  IN  /\ call[th].op = "block"
      /\ call' = [call EXCEPT ![th] = Idle]
      /\ blocks' = blk
      /\ latest' = Larger(now, latest)
      /\ banned' = [a \in IPs |->
           IF a \in Keys(blocks) \ Keys(blk) THEN 0 ELSE Larger(banned[a], Lookup(blk, a, 0))]
      /\ UNCHANGED <<clock, calls, requests, violations, suspicious, nextSweep, white, black,
                     admitted, letGo, lost>>

\* snapshot sweeps whatever the interval.
Snapshot(th) ==
  LET now == call[th].now
  IN  /\ call[th].op = "snapshot"
      /\ call' = [call EXCEPT ![th] = Idle]
      /\ requests' = Pruned(requests, now, RateWindow)
      /\ violations' = Pruned(violations, now, ViolationWindow)
      /\ suspicious' = Pruned(suspicious, now, SuspiciousWindow)
      /\ blocks' = Unexpired(blocks, now)
      /\ nextSweep' = AfterSweep(now)
      /\ latest' = Larger(now, latest)
      /\ admitted' = [a \in IPs |-> Recent(admitted[a], latest')]
      /\ UNCHANGED <<clock, calls, white, black, letGo, lost, banned>>

UnblockIp(ip) ==
  /\ ip \in Keys(blocks) /\ calls < MaxCalls
  /\ calls' = calls + 1
  /\ blocks' = Without(blocks, ip)
  /\ banned' = [banned EXCEPT ![ip] = 0]
  /\ UNCHANGED <<clock, call, requests, violations, suspicious, nextSweep, white, black,
                 latest, admitted, letGo, lost>>

\* add_whitelist, add_blacklist and their clear counterparts.
ChangeLists ==
  /\ calls < MaxCalls /\ calls' = calls + 1
  /\ \/ \E ip \in Listable \ white : white' = white \cup {ip} /\ UNCHANGED black
     \/ \E ip \in Listable \ black : black' = black \cup {ip} /\ UNCHANGED white
     \/ white # {} /\ white' = {} /\ UNCHANGED black
     \/ black # {} /\ black' = {} /\ UNCHANGED white
  /\ UNCHANGED <<clock, call, maps, history>>

PolicyNext ==
  \/ Tick
  \/ \E th \in Threads, ip \in IPs, op \in {"evaluate", "block"} : Ask(th, op, ip)
  \/ \E th \in Threads : Ask(th, "snapshot", "nobody") \/ Snapshot(th)
  \/ \E th \in Threads, effect \in {"none", "allow", "deny"} : Evaluate(th, effect)
  \/ \E th \in Threads, suspect \in BOOLEAN : ObserveResponse(th, suspect)
  \/ \E th \in Threads : Respond(th) \/ BlockIp(th, BlockDuration) \/ BlockIp(th, 1)
  \/ \E ip \in IPs : UnblockIp(ip)
  \/ ChangeLists

PolicySpec == PolicyInit /\ [][PolicyNext]_policyVars

-----------------------------------------------------------------------------
Entries(values) == Seq([key : IPs, val : values])

Calls(time) ==
  {Idle} \cup [op : {"evaluate", "block", "observe"}, ip : IPs, now : 0..time]
    \cup [op : {"snapshot"}, ip : {"nobody"}, now : 0..time]
    \cup [op : {"allowed", "denied"}, ip : IPs]

PolicyTypeOK ==
  /\ clock \in 0..MaxClock /\ calls \in 0..MaxCalls /\ latest \in 0..clock
  /\ call \in [Threads -> Calls(clock)]
  /\ requests \in Entries(Seq(Nat)) /\ violations \in Entries(Seq(Nat))
  /\ suspicious \in Entries(Seq(Nat)) /\ blocks \in Entries(Nat)
  /\ nextSweep \in 0..(clock + SweepInterval)
  /\ white \subseteq Listable /\ black \subseteq Listable
  /\ admitted \in [IPs -> Seq(Nat)] /\ banned \in [IPs -> Nat]
  /\ letGo \in [IPs -> Nat] /\ lost \in [IPs -> Nat]

\* What one policy keeps is bounded whatever the number of clients, one entry
\* each, and a client with as many strikes as the threshold is not left with
\* them on record: it has been blocked.
OneEach(d) == \A i, j \in DOMAIN d : d[i].key = d[j].key => i = j
Bounded(d, max) == Len(d) <= max /\ OneEach(d)
MapsWithinBounds ==
  /\ Bounded(requests, MaxTracked) /\ Bounded(violations, MaxTracked)
  /\ Bounded(suspicious, MaxTracked) /\ Bounded(blocks, MaxBlocks)
  /\ \A ip \in IPs :
       /\ CountsStrikes(ViolationThreshold, ViolationWindow) =>
            Len(Lookup(violations, ip, <<>>)) < ViolationThreshold
       /\ CountsStrikes(SuspiciousThreshold, SuspiciousWindow) =>
            Len(Lookup(suspicious, ip, <<>>)) < SuspiciousThreshold

\* rate_limit_requests: in the window that ends at the latest time the policy
\* has seen, a client was admitted at most RateLimit times, although calls reach
\* the maps out of the order of their time stamps.  What can let it in more often
\* is the bound of the map alone: each time the full map lets go of the client's
\* row (it is the one that asked longest ago) the count starts anew, so every
\* eviction is worth RateLimit admissions more, and not one beyond these.
WindowRespected ==
  RateLimit > 0 /\ RateWindow > 0 =>
    \A ip \in IPs : /\ Len(admitted[ip]) <= RateLimit
                    /\ Len(admitted[ip]) + lost[ip] <= RateLimit * (1 + letGo[ip])

\* The order of the time stamps loses count of no client; the bounds of the maps
\* do, once for every row that a full map lets go.
LimitsHold == PolicyTypeOK /\ MapsWithinBounds /\ WindowRespected

\* A blocked client is not admitted before the block's last announced end has
\* come, unless it was unblocked, its block was evicted by a newer one, or it is
\* on a whitelist that bypasses behaviour checks.
StaysOut ==
  \A th \in Threads :
    call[th].op = "evaluate" /\ call'[th].op = "allowed" =>
      Bypasses(call[th].ip) \/ banned[call[th].ip] <= latest'
NoAdmissionWhileBlocked == [][StaysOut]_policyVars
=============================================================================

-------------------------------- MODULE ProxyI --------------------------------
(***************************************************************************)
(* src/wsbuilder/proxyi.py: ProxyI.dispatch, which picks a rule for a      *)
(* request and a target of the rule, forwards, and counts the request in   *)
(* the metrics of the proxy, the rule and the target; and the builder,     *)
(* which changes rules that are already in use.                            *)
(*                                                                         *)
(* Requests run in threads of their own.  choose_target() reads the list   *)
(* of enabled targets under the rule's lock, and picks from it in a later  *)
(* critical section; rules become visible before their targets do; and     *)
(* nothing keeps a target from being switched off in between.  What a      *)
(* strategy computes from latencies, sizes, hashes or chance is an input.  *)
(***************************************************************************)
EXTENDS Integers, Sequences, FiniteSetsExt, SequencesExt

CONSTANTS Requests,    \* threads that dispatch
          Kinds,       \* kinds of request that the rules tell apart
          Rules,       \* rules, built or to be built: numbers, in order of creation
          Targets,     \* upstreams
          NoTarget,    \* none of them
          Built,       \* rules that are built before the first request
          Planned,     \* [Rules -> Seq(Targets)]: what upstream() gives each
          Weight,      \* [Targets -> Nat \ {0}]
          Mode,        \* [Rules -> Modes]: the balance each is built with
          Modes,       \* what balance() may set
          IsDefault,   \* [Rules -> BOOLEAN]: whether it is built as a default
          Priorities,  \* priorities that priority() may set
          MaxServed,   \* bound: requests
          MaxChanges   \* bound: changes of the configuration

ASSUME ProxyAssumption ==
    /\ IsFiniteSet(Requests) /\ IsFiniteSet(Rules)
    /\ Rules \subseteq Nat \ {0} /\ Built \subseteq Rules
    /\ MaxServed \in Nat /\ MaxChanges \in Nat
    /\ Planned \in [Rules -> Seq(Targets)]
    /\ \A r \in Rules : IsInjective(Planned[r])   \* upstream() makes a target of its own
    /\ Weight \in [Targets -> Nat \ {0}] /\ IsDefault \in [Rules -> BOOLEAN]
    /\ Modes \subseteq {"round_robin", "weighted", "other"} /\ Mode \in [Rules -> Modes]
    /\ Priorities \subseteq Int /\ NoTarget \notin Targets

None == 0                                   \* no rule

VARIABLES
    listed,   \* _rules: rules that can match
    default,  \* _default_rule, or None
    matches,  \* [Rules -> SUBSET Kinds]: what the matchers of a rule accept
    priority, \* [Rules -> priority]
    marked,   \* [Rules -> rule.default]
    mode,     \* [Rules -> rule.balance]
    targets,  \* [Rules -> Seq(Targets)]
    enabled,  \* [Targets -> BOOLEAN]
    rr,       \* [Rules -> _rr_index]
    wrr,      \* [Rules -> [Targets -> _weighted_state]]
    metrics,  \* bucket -> [requests, responses, active]
    pc,       \* [Requests -> step of dispatch]
    kind,     \* [Requests -> Kinds]
    rule,     \* [Requests -> rule, or None]
    seen,     \* [Requests -> enabled targets when they were listed]
    target,   \* [Requests -> target, or NoTarget]
    status,   \* [Requests -> outcome]
    served,   \* requests so far
    changes,  \* changes of the configuration so far
    turns,    \* history: [Rules -> [Targets -> picks since the enabled ones last changed]]
    level,    \* history: [Rules -> the weights were level when that count began]
    covered   \* history: [Requests -> the default rule had a target all along]

config == <<listed, default, matches, priority, marked, mode, targets, enabled>>
balance == <<rr, wrr, turns, level>>
perRequest == <<kind, rule, seen, target, status>>
vars == <<config, balance, metrics, pc, perRequest, served, changes, covered>>

Proxy == <<"proxy">>
RuleBucket(r) == <<"rule", r>>
TargetBucket(t) == <<"target", t>>
Buckets == {Proxy} \cup {RuleBucket(r) : r \in Rules} \cup {TargetBucket(t) : t \in Targets}
NoTurns == [t \in Targets |-> 0]

Init ==
    /\ listed = Built
    /\ default = IF \E r \in Built : IsDefault[r]
                 THEN Max({r \in Built : IsDefault[r]}) ELSE None
    /\ matches \in [Rules -> {Kinds}] /\ priority = [r \in Rules |-> 0]
    /\ marked = IsDefault /\ mode = Mode
    /\ targets = [r \in Rules |-> IF r \in Built THEN Planned[r] ELSE <<>>]
    /\ enabled = [t \in Targets |-> TRUE]
    /\ rr = [r \in Rules |-> 0]
    /\ wrr = [r \in Rules |-> NoTurns] /\ turns = wrr
    /\ level = [r \in Rules |-> TRUE]
    /\ metrics = [b \in Buckets |-> [requests |-> 0, responses |-> 0, active |-> 0]]
    /\ pc = [q \in Requests |-> "idle"]
    /\ kind = [q \in Requests |-> CHOOSE k \in Kinds : TRUE]
    /\ rule = [q \in Requests |-> None]
    /\ seen = [q \in Requests |-> <<>>]
    /\ target = [q \in Requests |-> NoTarget]
    /\ status = [q \in Requests |-> "none"]
    /\ served = 0 /\ changes = 0
    /\ covered = [q \in Requests |-> FALSE]

-----------------------------------------------------------------------------
(* Metrics.                                                                *)

Begins(b) == metrics' = [metrics EXCEPT ![b].requests = @ + 1, ![b].active = @ + 1]
Finished(m) == [m EXCEPT !.responses = @ + 1, !.active = IF @ > 0 THEN @ - 1 ELSE 0]

\* Fault: the rule is counted off only for requests that reached a target.
TargetedBuckets(q) ==
    IF target[q] = NoTarget THEN {Proxy}
    ELSE {Proxy, RuleBucket(rule[q]), TargetBucket(target[q])}

\* The buckets that are counted off when a request ends.
EndsIn(q) == {Proxy} \cup {RuleBucket(r) : r \in {rule[q]} \ {None}}
                     \cup {TargetBucket(t) : t \in {target[q]} \ {NoTarget}}

-----------------------------------------------------------------------------
(* Rules and targets.                                                      *)

\* enabled_targets(), among the first i targets of the rule.
EnabledOf(r) ==
    LET upTo[i \in 0..Len(targets[r])] ==
          IF i = 0 THEN <<>>
          ELSE IF enabled[targets[r][i]] THEN Append(upTo[i - 1], targets[r][i]) ELSE upTo[i - 1]
    IN  upTo[Len(targets[r])]
Covers == default # None /\ EnabledOf(default) # <<>>
StillCovered == covered' = [q \in Requests |-> covered[q] /\ Covers']

Specificity(r) == IF marked[r] THEN -10000 ELSE 0

Before(r1, r2) ==
    \/ priority[r1] > priority[r2]
    \/ /\ priority[r1] = priority[r2]
       /\ \/ Specificity(r1) > Specificity(r2)
          \/ Specificity(r1) = Specificity(r2) /\ r1 <= r2

\* matches(): method, host, path and headers, for a kind of request.
Accepts(r, k) == k \in matches[r]

\* _resolve_rules: the best rule that matches, else the default rule.
Resolve(k) ==
    LET rows == {r \in listed : Accepts(r, k)}
    IN  IF rows # {} THEN CHOOSE r \in rows : \A s \in rows : Before(r, s) ELSE default

\* Fault: a rule without an enabled target answers for itself.
NoFallback == None

\* _fallback_target: the rule that answers for one without an enabled target.
FallbackRule == default

-----------------------------------------------------------------------------
(* Strategies: pick from `offer' for rule r.                               *)

Level(r) == \A t \in ToSet(EnabledOf(r)) : wrr[r][t] = 0

\* An offer that the rule no longer has starts the count again.
Counted(r, t, offer) ==
    IF offer = EnabledOf(r) THEN turns' = [turns EXCEPT ![r][t] = @ + 1] /\ UNCHANGED level
    ELSE turns' = [turns EXCEPT ![r] = NoTurns] /\ level' = [level EXCEPT ![r] = Level(r)']

RoundRobin(r, t, offer) ==
    /\ t = offer[(rr[r] % Len(offer)) + 1]
    /\ rr' = [rr EXCEPT ![r] = (@ + 1) % Len(offer)]
    /\ UNCHANGED wrr

Total(offer) == MapThenSumSet(LAMBDA t : Weight[t], ToSet(offer))

\* Every target offered gains its weight.
Gained(offer, w) == [u \in Targets |-> IF u \in ToSet(offer) THEN w[u] + Weight[u] ELSE w[u]]

\* Fault: the comparison is the wrong way round.
IsLightest(offer, w, i) == \A j \in DOMAIN offer : w[offer[i]] <= w[offer[j]]

\* The first position of the highest.
IsHeaviest(offer, w, i) ==
    \A j \in DOMAIN offer : \/ w[offer[j]] < w[offer[i]]
                            \/ w[offer[j]] = w[offer[i]] /\ i <= j
Heaviest(offer, w) == CHOOSE i \in DOMAIN offer : IsHeaviest(offer, w, i)

\* Every target gains its weight; the first of the highest pays the total.
WeightedRoundRobin(r, t, offer) ==
    LET gained == Gained(offer, wrr[r])
    IN  /\ t = offer[Heaviest(offer, gained)]
        /\ wrr' = [wrr EXCEPT ![r] = [gained EXCEPT ![t] = @ - Total(offer)]]
        /\ UNCHANGED rr

Pick(r, t, offer) ==
    CASE mode[r] = "round_robin" -> RoundRobin(r, t, offer)
      [] mode[r] = "weighted"    -> WeightedRoundRobin(r, t, offer)
      [] OTHER                   -> t \in ToSet(offer) /\ UNCHANGED <<rr, wrr>>

-----------------------------------------------------------------------------
(* dispatch().                                                             *)

BeginRequest(q) ==
    /\ pc[q] = "idle" /\ served < MaxServed
    /\ \E k \in Kinds : kind' = [kind EXCEPT ![q] = k]
    /\ pc' = [pc EXCEPT ![q] = "begun"]
    /\ Begins(Proxy)
    /\ served' = served + 1
    /\ covered' = [covered EXCEPT ![q] = Covers]
    /\ UNCHANGED <<config, balance, rule, seen, target, status, changes>>

Ends(q, outcome) ==
    /\ status' = [status EXCEPT ![q] = outcome]
    /\ pc' = [pc EXCEPT ![q] = "finally"]

\* 413 before any rule is looked for; then 404, or the rule is counted.
ResolveRule(q) ==
    /\ pc[q] = "begun"
    /\ \/ /\ Ends(q, "413") /\ UNCHANGED <<rule, metrics>>
       \/ LET r == Resolve(kind[q])
          IN  IF r = None THEN Ends(q, "404") /\ UNCHANGED <<rule, metrics>>
              ELSE /\ rule' = [rule EXCEPT ![q] = r]
                   /\ Begins(RuleBucket(r))
                   /\ pc' = [pc EXCEPT ![q] = "ruled"]
                   /\ UNCHANGED status
    /\ UNCHANGED <<config, balance, kind, seen, target, served, changes, covered>>

\* enabled_targets() of rule r, whose strategy will pick from them.
Lists(q, r) ==
    /\ seen' = [seen EXCEPT ![q] = <<r, EnabledOf(r)>>]
    /\ pc' = [pc EXCEPT ![q] = "listed"]
    /\ UNCHANGED status

ListTargets(q) ==
    /\ pc[q] = "ruled"
    /\ IF EnabledOf(rule[q]) # <<>> THEN Lists(q, rule[q])
       ELSE pc' = [pc EXCEPT ![q] = "fallback"] /\ UNCHANGED <<seen, status>>
    /\ UNCHANGED <<config, balance, metrics, kind, rule, target, served, changes, covered>>

\* What is switched meanwhile is seen.
FallBack(q) ==
    /\ pc[q] = "fallback"
    /\ LET r == FallbackRule
       IN  IF r # None /\ EnabledOf(r) # <<>> THEN Lists(q, r)
           ELSE Ends(q, "no target") /\ UNCHANGED seen
    /\ UNCHANGED <<config, balance, metrics, kind, rule, target, served, changes, covered>>

ChooseTarget(q) ==
    /\ pc[q] = "listed"
    /\ UNCHANGED <<config, kind, rule, seen, status, served, changes, covered>>
    /\ LET r     == seen[q][1]
           offer == seen[q][2]
       IN  \E t \in ToSet(offer) :
              /\ Pick(r, t, offer)
              /\ Counted(r, t, offer)
              /\ target' = [target EXCEPT ![q] = t]
              /\ Begins(TargetBucket(t))
    /\ pc' = [pc EXCEPT ![q] = "forwarding"]

\* The body of the upstream is read whole (or is too large, or too late, and
\* becomes a 502 or a 504), or is relayed by a generator after the return.
Outcomes == {"answer", "stream", "raised"}

Forward(q) ==
    /\ pc[q] = "forwarding"
    /\ \E outcome \in Outcomes : Ends(q, outcome)
    /\ UNCHANGED <<config, balance, metrics, kind, rule, seen, target, served, changes, covered>>

\* The finally clause; a streamed body is relayed after it.
Finish(q) ==
    /\ pc[q] = "finally"
    /\ metrics' = [b \in Buckets |-> IF b \in EndsIn(q) THEN Finished(metrics[b]) ELSE metrics[b]]
    /\ pc' = [pc EXCEPT ![q] = "idle"]
    /\ rule' = [rule EXCEPT ![q] = None]
    /\ seen' = [seen EXCEPT ![q] = <<>>]
    /\ target' = [target EXCEPT ![q] = NoTarget]
    /\ status' = [status EXCEPT ![q] = "none"]
    /\ UNCHANGED <<config, balance, kind, served, changes, covered>>

-----------------------------------------------------------------------------
(* The builder and the administrator.                                      *)

Reconfigures ==
    /\ changes < MaxChanges /\ changes' = changes + 1
    /\ StillCovered
    /\ UNCHANGED <<rr, wrr, metrics, pc, perRequest, served>>
    /\ LET same(r) == EnabledOf(r)' = EnabledOf(r) /\ mode'[r] = mode[r]
       IN  /\ turns' = [r \in Rules |-> IF same(r) THEN turns[r] ELSE NoTurns]
           /\ level' = [r \in Rules |-> IF same(r) THEN level[r] ELSE Level(r)']

\* add_rule
Registers(r) == /\ listed' = listed \cup {r}
                /\ default' = IF marked[r] THEN r ELSE default

\* _apply, in two steps: the rule is seen, and then it gets its targets.
AddRule(r) ==
    /\ r \notin listed
    /\ \A s \in Rules : s < r => s \in listed
    /\ Registers(r)
    /\ UNCHANGED <<matches, priority, marked, mode, targets, enabled>>
    /\ Reconfigures

AddTarget(r) ==
    /\ r \in listed /\ Len(targets[r]) < Len(Planned[r])
    /\ targets' = [targets EXCEPT ![r] = Append(@, Planned[r][Len(@) + 1])]
    /\ UNCHANGED <<listed, default, matches, priority, marked, mode, enabled>>
    /\ Reconfigures

\* _sync_rule_from_config assigns the attributes one by one and takes no lock:
\* a request may meet what the rule accepts after any of the assignments.
Assigns(r, accepted) == matches' = [matches EXCEPT ![r] = accepted]

\* host(), location(), header() and the like on a rule that is in use.
Rematch(r) ==
    /\ r \in listed
    /\ \E accepted \in SUBSET Kinds : Assigns(r, accepted)
    /\ UNCHANGED <<listed, default, priority, marked, mode, targets, enabled>>
    /\ Reconfigures

SetPriority(r) ==
    /\ r \in listed
    /\ \E p \in Priorities : priority' = [priority EXCEPT ![r] = p]
    /\ UNCHANGED <<listed, default, matches, marked, mode, targets, enabled>>
    /\ Reconfigures

\* balance(): the index and the weights of the rule stay as they are.
SetBalance(r) ==
    /\ \E m \in Modes \ {mode[r]} : mode' = [mode EXCEPT ![r] = m]
    /\ UNCHANGED <<listed, default, matches, priority, marked, targets, enabled>>
    /\ Reconfigures

\* default(), on a rule that is built too: the proxy's default rule stays.
SetDefault(r) ==
    /\ marked' = [marked EXCEPT ![r] = ~@]
    /\ UNCHANGED <<listed, default, matches, priority, mode, targets, enabled>>
    /\ Reconfigures

Toggle(t) ==
    /\ enabled' = [enabled EXCEPT ![t] = ~@]
    /\ UNCHANGED <<listed, default, matches, priority, marked, mode, targets>>
    /\ Reconfigures

\* close() takes no lock and does not wait for requests.
Close ==
    /\ listed # {}
    /\ listed' = {} /\ default' = None
    /\ UNCHANGED <<matches, priority, marked, mode, targets, enabled>>
    /\ Reconfigures

Next ==
    \/ \E q \in Requests : \/ BeginRequest(q) \/ ResolveRule(q) \/ ListTargets(q) \/ FallBack(q)
                           \/ ChooseTarget(q) \/ Forward(q) \/ Finish(q)
    \/ \E r \in Rules : \/ AddRule(r) \/ AddTarget(r) \/ Rematch(r)
                       \/ SetPriority(r) \/ SetBalance(r) \/ SetDefault(r)
    \/ \E t \in Targets : Toggle(t)
    \/ Close

Spec == Init /\ [][Next]_vars

-----------------------------------------------------------------------------
(* Properties.                                                             *)

TypeOK ==
    /\ listed \subseteq Rules /\ default \in listed \cup {None}
    /\ targets \in [Rules -> Seq(Targets)] /\ enabled \in [Targets -> BOOLEAN]
    /\ rr \in [Rules -> Nat]
    /\ rule \in [Requests -> Rules \cup {None}] /\ target \in [Requests -> Targets \cup {NoTarget}]

\* The gauges the balancing reads are exact: every bucket counts as active
\* the requests that are in it now, and loses none that returned early.
InBucket(b) ==
    {q \in Requests : /\ pc[q] # "idle"
                      /\ \/ b = Proxy
                         \/ rule[q] # None /\ b = RuleBucket(rule[q])
                         \/ target[q] # NoTarget /\ b = TargetBucket(target[q])}

GaugesExact ==
    \A b \in Buckets :
        /\ metrics[b].active = Cardinality(InBucket(b))
        /\ metrics[b].requests = metrics[b].responses + metrics[b].active

\* Round robin never picks one target twice more than another. With weights no
\* target gets a whole turn more than its share, and after every full round each
\* has had exactly its share, from a time at which the weights were level. Both
\* hold however the requests interleave, for as long as the rule keeps its
\* balance and its enabled targets.
FairShare ==
    \A r \in Rules :
        LET offer == EnabledOf(r)
            n     == MapThenSumSet(LAMBDA t : turns[r][t], ToSet(offer))
        IN  /\ mode[r] = "round_robin" =>
                 \A t, u \in ToSet(offer) : turns[r][t] <= turns[r][u] + 1
            /\ mode[r] = "weighted" /\ level[r] => \A t \in ToSet(offer) :
                 /\ turns[r][t] * Total(offer) - n * Weight[t] < Total(offer)
                 /\ \A rounds \in 0..n :
                      n = rounds * Total(offer) => turns[r][t] = rounds * Weight[t]

\* A request is told that there is no route or no target only if, at some
\* moment of it, the default rule was missing or had no target switched on.
DefaultCovers ==
    \A q \in Requests : status[q] \in {"404", "no target"} => ~covered[q]
=============================================================================

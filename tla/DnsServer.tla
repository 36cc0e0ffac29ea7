------------------------------ MODULE DnsServer ------------------------------
(***************************************************************************)
(* src/wsbuilder/dns.py: LocalDNSServer.                                   *)
(*                                                                         *)
(* One thread receives datagrams and answers from the records; what they   *)
(* do not answer it hands to a pool that asks the upstream servers, if the *)
(* count of queries under way there allows.  The owner starts and closes   *)
(* the server, other threads change the records: no lock covers these.     *)
(*                                                                         *)
(* Names are sequences of labels.  Sizes are counted in records.  Bytes    *)
(* and their parsing are what parsing decides: the kind of the datagram.   *)
(***************************************************************************)
EXTENDS Integers, Sequences, FiniteSets, FiniteSetsExt

CONSTANTS
  Datagrams,          \* what clients send: kind, name, type, class, advertised size
  Zones,              \* what the server may be given as its records: sets of entries
  Ttl,                \* the server's ttl
  DefaultRows,        \* what _install_default_records adds
  EditRows,           \* records other threads add and remove
  Upstreams,          \* number of upstream servers
  UpstreamWorkers,    \* upstream_workers
  MaxPendingUpstream, \* max_pending_upstream
  MinPayload,         \* DNS_UDP_MIN_PAYLOAD, in records
  MaxUdpPayload,      \* max_udp_payload, in records
  MaxQueries, MaxStarts, MaxEdits   \* bounds

ASSUME DnsConstants ==
  /\ Upstreams \in Nat
  /\ {UpstreamWorkers, MaxPendingUpstream, MinPayload, Ttl} \subseteq Nat \ {0}
  /\ MaxUdpPayload \in Nat /\ MaxUdpPayload >= MinPayload
  /\ {MaxQueries, MaxStarts, MaxEdits} \subseteq Nat

Ids == 1..MaxQueries

VARIABLES
  fallbackToUpstream,  \* fallback_to_upstream, set once
  table,            \* _records: the set of records
  editing,          \* a change of the records under way
  edits,            \* changes so far
  running, closed,  \* _running, _closed
  sock,             \* _sock: 0 is None; a socket held elsewhere is open while it is this one
  executor,         \* _executor: 0 is None
  pendingUpstream,  \* _pending_upstream
  shut,             \* executors that were shut down
  sockets, pools, starts,  \* how many were made
  server, mine,     \* the serving thread: where it is, the socket it reads
  boss, leaving,    \* the owner: in which step of close(), the executor it shuts down
  received,         \* datagrams received so far; the last one may be in hand
  query,            \* [Ids -> the datagram, while it is handled]
  stage,            \* [Ids -> how far the query is]
  reply,            \* [Ids -> the response about to be sent]
  home, linked,     \* [Ids -> its executor], [Ids -> release is attached to its future]
  tries,            \* [Ids -> upstream servers asked]
  owed,             \* history: queries not answered yet during which no close() ran
  hasty             \* history: the last close() met a thread that had not reached its loop

owner == <<running, closed, sock, executor, shut, sockets, pools, starts, boss, leaving, hasty>>
records == <<fallbackToUpstream, table, editing, edits>>
handled == <<received, query, stage, reply, home, linked, tries, owed>>
dnsVars == <<records, owner, pendingUpstream, server, mine, handled>>

NoDatagram == [kind |-> "none", name |-> <<>>, type |-> "ANY", class |-> "ANY", advertised |-> 0]
NoReply == [rcode |-> "none", answers |-> {}, aa |-> FALSE, tc |-> FALSE]

-----------------------------------------------------------------------------
(***************************************************************************)
(* The records                                                             *)
(***************************************************************************)
RecordRow(name, type, rdata, ttl) ==
  [name |-> name, type |-> type, class |-> "IN", data |-> rdata, ttl |-> IF ttl = 0 THEN Ttl ELSE ttl]

(***************************************************************************)
(* _load_records: an entry's value is a record that names its type         *)
(* ("flat"), records under their types with a ttl for all ("typed"), or    *)
(* bare addresses, whose type is guessed ("plain").  A record among typed  *)
(* ones that names a type itself does not inherit their ttl.  0 is no ttl. *)
(***************************************************************************)
LoadedFlat(name, item) == RecordRow(name, item.type, item.data, item.ttl)

LoadedNamed(entry) ==
  LET inherited(item) == IF item.ttl = 0 THEN [item EXCEPT !.ttl = entry.ttl] ELSE item
      typed == {item \in entry.items : entry.form = "typed" /\ ~item.flat}
  IN  {LoadedFlat(entry.name, inherited(item)) : item \in typed}
        \cup {LoadedFlat(entry.name, item) : item \in entry.items \ typed}

LoadRecords(zone) == UNION {LoadedNamed(entry) : entry \in zone}

\* The records there may be.  Names are decoded before they are looked up.
KnownRows == DefaultRows \cup EditRows \cup UNION {LoadRecords(zone) : zone \in Zones}

ASSUME DnsNames ==
  /\ \A d \in Datagrams : d.name \in Seq(STRING)
  /\ \A r \in KnownRows :
       /\ r = [name |-> r.name, type |-> r.type, class |-> r.class, data |-> r.data, ttl |-> r.ttl]
       /\ r.type = "CNAME" => r.data \in Seq(STRING)

RowsOf(tb, name) == {r \in tb : r.name = name}

\* The name itself, then the wildcards of its parents, nearest first.
Wildcard(name, i) == <<"*">> \o SubSeq(name, i + 1, Len(name))
Tried(name) == <<name>> \o [i \in 1..(Len(name) - 1) |-> Wildcard(name, i)]

\* _find_records_for_name: the name whose records answer for this one.
NameFound(tb, name) ==
  LET hits == {i \in DOMAIN Tried(name) : RowsOf(tb, Tried(name)[i]) # {}}
  IN  IF hits = {} THEN name ELSE Tried(name)[Min(hits)]

InClass(rows, class) == {r \in rows : class = "ANY" \/ r.class \in {class, "ANY"}}
OfType(rows, type) == {r \in rows : type = "ANY" \/ r.type = type}
Aliases(rows, type) ==
  IF type \in {"ANY", "CNAME"} THEN {} ELSE {r \in rows : r.type = "CNAME"}

KeepsWildcard(r, found, name) == r  \* Fault: answers with the wildcard's own name
OwnedBy(r, found, name) ==
  IF found # name /\ r.name = found THEN [r EXCEPT !.name = name] ELSE r

\* The records that _resolve_single_question looks at for a name, of those the
\* ones that answer by themselves, and the names the aliases among them stand for.
RowsFor(tb, name, class) == InClass(RowsOf(tb, NameFound(tb, name)), class)
Matches(tb, name, type, class) ==
  OfType(RowsFor(tb, name, class), type) \cup Aliases(RowsFor(tb, name, class), type)
Onward(tb, name, type, class) == {r.data : r \in Aliases(RowsFor(tb, name, class), type)}

\* _resolve_single_question: whether a name exists, and the records that answer
\* for it.  An alias asks the same of the name it stands for, one level deeper.
ResolveQuestion(tb, qname, type, class) ==
  LET Names == {qname} \cup {r.data : r \in tb}
      Answer(name, chain) ==
        LET found == NameFound(tb, name)
        IN  [exists |-> RowsOf(tb, found) # {},
             rows |-> {OwnedBy(r, found, name) : r \in Matches(tb, name, type, class) \cup chain}]
      Chain(name, deeper) == UNION {deeper[n].rows : n \in Onward(tb, name, type, class)}
      resolve[depth \in 0..4] ==
        [name \in Names |-> Answer(name, IF depth < 4 THEN Chain(name, resolve[depth + 1]) ELSE {})]
  IN  resolve[0][qname]

\* add_record appends a row the name does not have yet.
AddRecord(r) ==
  /\ edits < MaxEdits /\ edits' = edits + 1
  /\ table' = table \cup {r}
  /\ UNCHANGED <<fallbackToUpstream, editing, owner, pendingUpstream, server, mine, handled>>

\* remove_record works on a copy of the rows and puts the ones it keeps back.
RemoveCopies(name, type) ==
  /\ edits < MaxEdits /\ edits' = edits + 1
  /\ editing.op = "none" /\ RowsOf(table, name) # {}
  /\ editing' = [op |-> "remove", name |-> name,
                 keep |-> RowsOf(table, name) \ OfType(RowsOf(table, name), type)]
  /\ UNCHANGED <<fallbackToUpstream, table, owner, pendingUpstream, server, mine, handled>>

NotEditing == [op |-> "none", name |-> <<>>, keep |-> {}]

RemovePutsBack ==
  /\ editing.op = "remove"
  /\ table' = (table \ RowsOf(table, editing.name)) \cup editing.keep
  /\ editing' = NotEditing
  /\ UNCHANGED <<fallbackToUpstream, edits, owner, pendingUpstream, server, mine, handled>>

\* clear_records empties the table, then adds the default records one by one.
ClearEmpties(keepDefaults) ==
  /\ edits < MaxEdits /\ edits' = edits + 1
  /\ editing.op = "none"
  /\ table' = {}
  /\ editing' = IF keepDefaults THEN [NotEditing EXCEPT !.op = "defaults", !.keep = DefaultRows]
                                ELSE NotEditing
  /\ UNCHANGED <<fallbackToUpstream, owner, pendingUpstream, server, mine, handled>>

ClearAddsDefault(r) ==
  /\ editing.op = "defaults" /\ r \in editing.keep
  /\ table' = table \cup {r}
  /\ editing' = IF editing.keep = {r} THEN NotEditing ELSE [editing EXCEPT !.keep = @ \ {r}]
  /\ UNCHANGED <<fallbackToUpstream, edits, owner, pendingUpstream, server, mine, handled>>

-----------------------------------------------------------------------------
(***************************************************************************)
(* Responses                                                               *)
(***************************************************************************)
BuildResponse(rcode, answers, authoritative) ==
  [rcode |-> rcode, answers |-> answers, aa |-> authoritative, tc |-> FALSE]

\* What the OPT record of the query says, 0 without one.
ResponseLimit(d) ==
  IF d.advertised = 0 THEN MinPayload
  ELSE Max({MinPayload, Min({d.advertised, MaxUdpPayload})})

\* A response that does not fit keeps its question and says so.
TruncateResponse(rsp, limit) ==
  IF Cardinality(rsp.answers) <= limit THEN rsp
  ELSE [rsp EXCEPT !.answers = {}, !.tc = TRUE]

ServFail == BuildResponse("SERVFAIL", {}, FALSE)

\* Parsing fails, or the datagram is a response: nothing is answered.
Unanswerable(d) == d.kind \in {"short", "badname", "response"}

Resolved(d) == ResolveQuestion(table, d.name, d.type, d.class)

\* _resolve_questions, of the one question a query may have.
LocalResponse(d) ==
  LET found == Resolved(d)
  IN  BuildResponse(IF found.exists THEN "NOERROR" ELSE "NXDOMAIN", found.rows, TRUE)

GoesUpstream(d) == d.kind = "query" /\ Resolved(d).rows = {} /\ fallbackToUpstream

\* _prepare_response, when it does not go upstream.
Prepared(d) ==
  CASE Unanswerable(d)      -> NoReply
    [] d.kind = "questions" -> BuildResponse("FORMERR", {}, FALSE)
    [] d.kind = "opcode"    -> TruncateResponse(BuildResponse("NOTIMP", {}, FALSE), ResponseLimit(d))
    [] OTHER                -> TruncateResponse(LocalResponse(d), ResponseLimit(d))

-----------------------------------------------------------------------------
DnsInit ==
  /\ fallbackToUpstream \in BOOLEAN
  /\ \E zone \in Zones : table = DefaultRows \cup LoadRecords(zone)
  /\ editing = NotEditing /\ edits = 0
  /\ running = FALSE /\ closed = FALSE
  /\ sock = 0 /\ executor = 0 /\ pendingUpstream = 0 /\ shut = {}
  /\ sockets = 0 /\ pools = 0 /\ starts = 0
  /\ server = "none" /\ mine = 0 /\ boss = "down" /\ leaving = 0
  /\ received = 0 /\ query = [i \in Ids |-> NoDatagram]
  /\ stage = [i \in Ids |-> "none"] /\ reply = [i \in Ids |-> NoReply]
  /\ home = [i \in Ids |-> 0] /\ linked = [i \in Ids |-> FALSE]
  /\ tries = [i \in Ids |-> 0]
  /\ owed = {} /\ hasty = FALSE

(***************************************************************************)
(* The owner                                                               *)
(***************************************************************************)
Alive == server \notin {"none", "ended"}
Reopened(s) == IF s = 0 THEN sockets + 1 ELSE s   \* _open_socket

\* start() returns a thread that is alive as it is.
Start ==
  /\ boss \in {"down", "up"} /\ starts < MaxStarts
  /\ starts' = starts + 1 /\ boss' = "up"
  /\ IF Alive THEN UNCHANGED <<running, closed, sock, sockets, server>>
     ELSE /\ sock' = Reopened(sock) /\ sockets' = Max({sockets, sock'})
          /\ closed' = FALSE /\ running' = TRUE /\ server' = "fresh"
  /\ UNCHANGED <<records, executor, pendingUpstream, shut, pools, mine, leaving, hasty, handled>>

CloseStops ==
  /\ boss = "up"
  /\ boss' = "stopping" /\ running' = FALSE
  /\ hasty' = (server \in {"fresh", "opened"})
  /\ owed' = {}
  /\ UNCHANGED <<records, closed, sock, executor, pendingUpstream, shut, sockets, pools, starts,
                 leaving, server, mine, received, query, stage, reply, home, linked, tries>>

ForgetsFlag == FALSE  \* Fault: close() takes the executor and does not set _closed
MarksClosed == TRUE

CloseTakesExecutor ==
  /\ boss = "stopping"
  /\ boss' = "draining" /\ closed' = MarksClosed
  /\ leaving' = executor /\ executor' = 0
  /\ UNCHANGED <<records, running, sock, pendingUpstream, shut, sockets, pools, starts, hasty,
                 server, mine, handled>>

\* A future that is done or cancelled runs the callback it has by then.
Completed(i) == IF linked[i] THEN "ended" ELSE "done"

\* shutdown(wait=False, cancel_futures=True)
CloseShutsDown ==
  /\ boss = "draining"
  /\ boss' = "closing" /\ leaving' = 0
  /\ shut' = shut \cup ({leaving} \ {0})
  /\ stage' = [i \in Ids |-> IF stage[i] = "queued" /\ home[i] = leaving THEN Completed(i) ELSE stage[i]]
  /\ UNCHANGED <<records, running, closed, sock, executor, pendingUpstream, sockets, pools, starts,
                 hasty, server, mine, received, query, reply, home, linked, tries, owed>>

CloseClosesSocket ==
  /\ boss = "closing"
  /\ boss' = "joining" /\ sock' = 0
  /\ UNCHANGED <<records, running, closed, executor, pendingUpstream, shut, sockets, pools, starts,
                 leaving, hasty, server, mine, handled>>

\* join(timeout=1.0): the thread has ended, or the owner goes on without it.
CloseReturns ==
  /\ boss = "joining"
  /\ boss' = "down"
  /\ UNCHANGED <<records, running, closed, sock, executor, pendingUpstream, shut, sockets, pools,
                 starts, leaving, hasty, server, mine, handled>>

-----------------------------------------------------------------------------
(***************************************************************************)
(* serve_forever                                                           *)
(***************************************************************************)
ServeOpens ==
  /\ server = "fresh"
  /\ server' = "opened"
  /\ sock' = Reopened(sock) /\ sockets' = Max({sockets, sock'})
  /\ UNCHANGED <<records, running, closed, executor, pendingUpstream, shut, pools, starts, boss,
                 leaving, hasty, mine, handled>>

ServeBegins ==
  /\ server = "opened"
  /\ server' = "top" /\ closed' = FALSE /\ running' = TRUE
  /\ UNCHANGED <<records, sock, executor, pendingUpstream, shut, sockets, pools, starts, boss,
                 leaving, hasty, mine, handled>>

ServeEnds ==
  /\ server' = "ended" /\ running' = FALSE /\ mine' = 0
  /\ UNCHANGED <<records, closed, sock, executor, pendingUpstream, shut, sockets, pools, starts,
                 boss, leaving, hasty, handled>>

ServeLoops ==
  /\ server = "top"
  /\ IF running /\ sock # 0
       THEN server' = "recv" /\ mine' = sock /\ UNCHANGED <<records, owner, pendingUpstream, handled>>
       ELSE ServeEnds

\* The 0.2 s pass, or the receive fails for this datagram alone.
ReceiveNothing ==
  /\ server = "recv"
  /\ server' = "top"
  /\ UNCHANGED <<records, owner, pendingUpstream, mine, handled>>

ReceiveFails ==
  /\ server = "recv" /\ (~running \/ mine # sock)
  /\ ServeEnds

\* The datagram comes and _prepare_response makes of it what it can.
Receive(d) ==
  LET i == received + 1
  IN  /\ server = "recv" /\ mine = sock /\ i \in Ids
      /\ received' = i
      /\ query' = [query EXCEPT ![i] = IF Unanswerable(d) THEN NoDatagram ELSE d]
      /\ owed' = IF boss \in {"up", "down"} /\ ~Unanswerable(d) THEN owed \cup {i} ELSE owed
      /\ reply' = [reply EXCEPT ![i] = IF GoesUpstream(d) THEN NoReply ELSE Prepared(d)]
      /\ stage' = [stage EXCEPT ![i] = CASE GoesUpstream(d) -> "admit"
                                         [] Unanswerable(d) -> "gone"
                                         [] OTHER           -> "reply"]
      /\ server' = IF Unanswerable(d) THEN "top" ELSE "handling"
      /\ UNCHANGED <<records, owner, pendingUpstream, mine, home, linked, tries>>

\* The query is out of hand, and what its threads knew of it.
Forgotten(i) ==
  /\ query' = [query EXCEPT ![i] = NoDatagram]
  /\ stage' = [stage EXCEPT ![i] = "gone"] /\ reply' = [reply EXCEPT ![i] = NoReply]
  /\ home' = [home EXCEPT ![i] = 0] /\ linked' = [linked EXCEPT ![i] = FALSE]
  /\ tries' = [tries EXCEPT ![i] = 0]

\* _send sends nothing without a socket, or without a response; the network may
\* lose what it is given.
Send(i) == owed' = IF sock # 0 /\ reply[i] # NoReply THEN owed \ {i} ELSE owed

SendReply(i) ==
  /\ stage[i] = "reply"
  /\ Send(i) /\ Forgotten(i)
  /\ server' = "top"
  /\ UNCHANGED <<records, owner, pendingUpstream, mine, received>>

-----------------------------------------------------------------------------
(***************************************************************************)
(* _forward_in_background                                                  *)
(***************************************************************************)
Saturated == pendingUpstream >= MaxPendingUpstream

Admit(i) ==
  /\ stage[i] = "admit"
  /\ \/ /\ Saturated
        /\ reply' = [reply EXCEPT ![i] = TruncateResponse(ServFail, ResponseLimit(query[i]))]
        /\ stage' = [stage EXCEPT ![i] = "reply"]
        /\ UNCHANGED pendingUpstream
     \/ /\ ~Saturated
        /\ pendingUpstream' = pendingUpstream + 1
        /\ stage' = [stage EXCEPT ![i] = "take"]
        /\ UNCHANGED reply
  /\ UNCHANGED <<records, owner, server, mine, received, query, home, linked, tries, owed>>

LeaksOnRefusal(count) == count  \* Fault: submit() refuses and nothing is released
Released(count) == Max({0, count - 1})

\* The RuntimeError of a closed server or of an executor that was shut down.
Refused(i) ==
  /\ pendingUpstream' = Released(pendingUpstream) /\ Forgotten(i)
  /\ server' = "top"
  /\ UNCHANGED <<records, owner, mine, received, owed>>

GetExecutor(i) ==
  /\ stage[i] = "take"
  /\ \/ closed /\ Refused(i)
     \/ /\ ~closed
        /\ executor' = IF executor = 0 THEN pools + 1 ELSE executor
        /\ pools' = Max({pools, executor'})
        /\ home' = [home EXCEPT ![i] = executor']
        /\ stage' = [stage EXCEPT ![i] = "submit"]
        /\ UNCHANGED <<records, running, closed, sock, pendingUpstream, shut, sockets, starts, boss,
                       leaving, hasty, server, mine, received, query, reply, linked, tries, owed>>

Submit(i) ==
  /\ stage[i] = "submit"
  /\ \/ home[i] \in shut /\ Refused(i)
     \/ /\ home[i] \notin shut
        /\ stage' = [stage EXCEPT ![i] = "queued"]
        /\ UNCHANGED <<records, owner, pendingUpstream, server, mine, received, query, reply, home, linked,
                       tries, owed>>

DoneAlready(i) == stage[i] = "done"

\* add_done_callback calls release() itself when the future is done already.
AddDoneCallback(i) ==
  /\ i = received /\ server = "handling" /\ ~linked[i]
  /\ stage[i] \in {"queued", "asking", "relay", "done"}
  /\ server' = "top"
  /\ IF DoneAlready(i) THEN pendingUpstream' = Released(pendingUpstream) /\ Forgotten(i)
     ELSE /\ linked' = [linked EXCEPT ![i] = TRUE]
          /\ UNCHANGED <<pendingUpstream, query, stage, reply, home, tries>>
  /\ UNCHANGED <<records, owner, mine, received, owed>>

-----------------------------------------------------------------------------
(***************************************************************************)
(* The pool's workers                                                      *)
(***************************************************************************)
Working(e) == {i \in Ids : home[i] = e /\ stage[i] \in {"asking", "relay"}}

TakeUp(i) ==
  /\ stage[i] = "queued" /\ Cardinality(Working(home[i])) < UpstreamWorkers
  /\ stage' = [stage EXCEPT ![i] = "asking"]
  /\ UNCHANGED <<records, owner, pendingUpstream, server, mine, received, query, reply, home, linked, tries,
                 owed>>

\* A datagram that reaches the socket the upstream was asked from.
UpstreamDatagrams == [endpoint : BOOLEAN, isResponse : BOOLEAN, txid : BOOLEAN, questions : BOOLEAN,
            rows : {{}, EditRows}]
IsValidUpstreamResponse(a) == a.endpoint /\ a.isResponse /\ a.txid /\ a.questions

Answered(i, rsp) ==
  /\ reply' = [reply EXCEPT ![i] = TruncateResponse(rsp, ResponseLimit(query[i]))]
  /\ stage' = [stage EXCEPT ![i] = "relay"]

\* One pass of _forward_to_upstream's loop, with the one datagram it reads.
AskUpstream(i) ==
  /\ stage[i] = "asking" /\ tries[i] < Upstreams
  /\ tries' = [tries EXCEPT ![i] = @ + 1]
  /\ \E a \in UpstreamDatagrams :
       IF IsValidUpstreamResponse(a) THEN Answered(i, BuildResponse("NOERROR", a.rows, FALSE))
                                     ELSE UNCHANGED <<reply, stage>>
  /\ UNCHANGED <<records, owner, pendingUpstream, server, mine, received, query, home, linked, owed>>

\* Nothing comes within upstream_timeout, or the socket fails.
UpstreamSilent(i) ==
  /\ stage[i] = "asking" /\ tries[i] < Upstreams
  /\ tries' = [tries EXCEPT ![i] = @ + 1]
  /\ UNCHANGED <<records, owner, pendingUpstream, server, mine, received, query, stage, reply, home, linked, owed>>

GiveUp(i) ==
  /\ stage[i] = "asking" /\ tries[i] = Upstreams
  /\ Answered(i, ServFail)
  /\ UNCHANGED <<records, owner, pendingUpstream, server, mine, received, query, home, linked, tries, owed>>

Relay(i) ==
  /\ stage[i] = "relay"
  /\ Send(i)
  /\ stage' = [stage EXCEPT ![i] = Completed(i)]
  /\ UNCHANGED <<records, owner, pendingUpstream, server, mine, received, query, reply, home, linked, tries>>

Release(i) ==
  /\ stage[i] = "ended"
  /\ pendingUpstream' = Released(pendingUpstream) /\ Forgotten(i)
  /\ UNCHANGED <<records, owner, server, mine, received, owed>>

-----------------------------------------------------------------------------
EditStep ==
  \/ \E r \in EditRows : AddRecord(r)
  \/ \E r \in EditRows : RemoveCopies(r.name, r.type) \/ RemoveCopies(r.name, "ANY")
  \/ RemovePutsBack \/ ClearEmpties(TRUE) \/ ClearEmpties(FALSE)
  \/ \E r \in DefaultRows : ClearAddsDefault(r)

CloseStep ==
  \/ CloseTakesExecutor \/ CloseShutsDown \/ CloseClosesSocket \/ CloseReturns

ServeStep ==
  \/ ServeOpens \/ ServeBegins \/ ServeLoops \/ ReceiveNothing \/ ReceiveFails

HandleStep(i) ==
  \/ SendReply(i) \/ Admit(i) \/ GetExecutor(i) \/ Submit(i) \/ AddDoneCallback(i)

WorkStep(i) ==
  \/ TakeUp(i) \/ AskUpstream(i) \/ UpstreamSilent(i) \/ GiveUp(i)
  \/ Relay(i) \/ Release(i)

DnsNext ==
  \/ EditStep \/ Start \/ CloseStops \/ CloseStep \/ ServeStep
  \/ \E d \in Datagrams : Receive(d)
  \/ \E i \in Ids : HandleStep(i) \/ WorkStep(i)

DnsSpec == DnsInit /\ [][DnsNext]_dnsVars

-----------------------------------------------------------------------------
Counted == {i \in Ids : stage[i] \in {"take", "submit", "queued", "asking", "relay", "done", "ended"}}

\* _pending_upstream counts the queries that hold a place with the pool, whatever
\* became of them: done, cancelled by close() before or after the callback was
\* attached, refused by a closed server or by an executor shut down in between.
\* It never exceeds max_pending_upstream.  A place that leaked would never come
\* back, and the server would end up answering SERVFAIL to everything.
PendingExact ==
  /\ pendingUpstream = Cardinality(Counted)
  /\ pendingUpstream <= MaxPendingUpstream

\* After close() the server holds no socket and no executor and does not run,
\* whatever the serving thread was doing when close() came and even if join gave
\* up on it; the exception is a thread that had not reached its loop (see README).
CloseHolds ==
  boss = "down" /\ ~hasty => ~running /\ sock = 0 /\ executor = 0 /\ leaving = 0

\* A query that can be read gets a response unless a close() ran while it was
\* handled: a full pool, upstream servers that are silent or answer something
\* else, and changes of the records still give one.
NoSilentDrop ==
  \A i \in owed : stage[i] \notin {"gone", "done", "ended"}

\* The names an alias chain of at most four steps reaches, step by step.
Reached(tb, qname, type, class) ==
  LET within[k \in 0..4] ==
        IF k = 0 THEN {qname}
        ELSE within[k - 1] \cup UNION {Onward(tb, n, type, class) : n \in within[k - 1]}
  IN  within[4]

\* The depth-first resolution of a question returns what its chain of aliases
\* reaches in four steps, also when the chain is a loop or passes a wildcard, each
\* record under the name it was asked for, for every state of the records in which
\* a query may come, those that their unlocked changes leave half done included.
ChainFollowed ==
  server = "recv" => \A d \in {e \in Datagrams : e.kind = "query"} :
    Resolved(d).rows =
      UNION {{[r EXCEPT !.name = n] : r \in Matches(table, n, d.type, d.class)}
             : n \in Reached(table, d.name, d.type, d.class)}

\* No query is left behind: one that waits in a queue waits in the executor the
\* server holds or in the one close() is about to shut, which cancels it; one
\* whose future was done before it had its callback, and one on its way to the
\* pool, is in the hands of the serving thread.
NothingLeftBehind ==
  \A i \in Counted :
    LET inHand == server = "handling" /\ i = received
    IN  /\ stage[i] \in {"take", "submit"} => inHand
        /\ stage[i] = "queued" => home[i] \in {executor, leaving}
        /\ stage[i] = "done" => inHand

\* Every query the server took is accounted for: its place, its answer, and who
\* has it in hand.
EveryQueryAccounted == PendingExact /\ NoSilentDrop /\ NothingLeftBehind
=============================================================================

------------------------------ MODULE Database ------------------------------
(***************************************************************************)
(* orm.py: Database, Transaction and the reads and writes of models, and   *)
(* db_replicas.py: the pool of read-only replicas.                         *)
(*                                                                         *)
(* Threads share one connection to the file, guarded by a re-entrant lock  *)
(* that a transaction keeps for its whole block; nested blocks are         *)
(* savepoints.  Replicas are further connections to the same file and show *)
(* what is stored.  The connection is that of Python's sqlite3: the first  *)
(* INSERT, UPDATE or DELETE outside a transaction begins one silently, and *)
(* only commit() or rollback() ends it, so a statement that fails leaves   *)
(* it open.  In the journal mode "delete" nobody can commit while a        *)
(* replica has a cursor open.                                              *)
(*                                                                         *)
(* Writes are numbered; a row is the number of the last write to its key.  *)
(***************************************************************************)
EXTENDS Integers, Sequences, FiniteSets, SequencesExt

CONSTANTS
  Threads, Keys, None,
  Journals,     \* the journal modes: "wal" (the default), "delete"
  Replicas,     \* number of replicas
  MaxWrites,    \* bound: statements that write
  MaxScopes,    \* bound: transactions, nested ones included
  MaxReads      \* bound: reads of replicas

ASSUME DatabaseConstants ==
  /\ None \notin Threads /\ Journals \subseteq {"wal", "delete"}
  /\ Replicas \in Nat \ {0} /\ {MaxWrites, MaxScopes, MaxReads} \subseteq Nat

VARIABLES
  journal,      \* PRAGMA journal_mode
  stored,       \* [Keys -> write]: what is committed
  shown,        \* [Keys -> write]: what the shared connection sees
  open,         \* it is in a transaction
  marks,        \* where each block of the transaction began
  jammed,       \* a commit failed for a reader, and keeps new readers out
  holder, holds,\* _lock: its thread, and how often that has it
  depth,        \* [Threads -> Nat]: _tx_depth
  saving,       \* Model.save between its two statements
  next,         \* the number of the next write
  gone,         \* writes that delete
  turn,         \* _current_index
  picked,       \* the replica a thread is about to read
  cursor,       \* the replica a thread has a cursor of, 0 for none
  connected,    \* replicas with a connection
  closing,      \* the next replica close() closes, 0 outside of it
  closed,       \* the connection is closed
  scopes, reads,
  author,       \* history: who made each write
  undone,       \* history: writes whose block was rolled back
  refused,      \* history: writes whose caller got an error from commit()
  told          \* history: [Keys -> write]: what callers were told is stored

fileVars == <<journal, stored, shown, open, marks, jammed>>
lockVars == <<holder, holds, depth>>
writeVars == <<next, gone, author, undone, refused, told>>
replicaVars == <<turn, picked, cursor, connected, reads>>
closeVars == <<closing, closed>>
vars == <<fileVars, lockVars, saving, writeVars, replicaVars, closeVars, scopes>>

Nothing == [k \in Keys |-> 0]
Live(row) == row # 0 /\ row \notin gone

Init ==
  /\ journal \in Journals
  /\ stored = Nothing /\ shown = Nothing /\ open = FALSE /\ marks = <<>> /\ jammed = FALSE
  /\ holder = None /\ holds = 0 /\ depth = [t \in Threads |-> 0]
  /\ saving = [t \in Threads |-> None]
  /\ next = 1 /\ gone = {} /\ author = <<>> /\ undone = {} /\ refused = {} /\ told = Nothing
  /\ turn = 1 /\ picked = [t \in Threads |-> 0] /\ cursor = [t \in Threads |-> 0]
  /\ connected = {} /\ closing = 0 /\ closed = FALSE /\ scopes = 0 /\ reads = 0

May(t) == holder \in {None, t}    \* with self._lock
InTransaction(t) == depth[t] > 0

-----------------------------------------------------------------------------
(* Writing. *)

CanCommit == journal = "wal" \/ \A t \in Threads : cursor[t] = 0

Commit(view) == stored' = view /\ open' = FALSE /\ marks' = <<>> /\ jammed' = FALSE

\* Fault: a statement of its own is not committed.
LeftToOthers(t) == FALSE
CommitsAtOnce(t) == ~InTransaction(t)

\* A statement that returns outside a transaction tells that it is stored.
Tell(t, ks) == told' = [k \in Keys |-> IF k \in ks /\ ~InTransaction(t) THEN next ELSE told[k]]

\* A statement changes the rows of ks.  Outside a transaction it is committed,
\* with whatever was left open before; when that fails the caller gets the
\* error, and the change stays in the transaction that stays open.
Apply(t, ks, deletes) ==
  LET view == [k \in Keys |-> IF k \in ks THEN next ELSE shown[k]] IN
  /\ shown' = view
  /\ next' = next + 1 /\ author' = Append(author, t)
  /\ gone' = IF deletes THEN gone \cup {next} ELSE gone
  /\ CASE CommitsAtOnce(t) /\ CanCommit ->
            Commit(view) /\ Tell(t, ks) /\ UNCHANGED refused
       [] CommitsAtOnce(t) /\ ~CanCommit ->
            /\ refused' = refused \cup {next} /\ open' = TRUE /\ jammed' = TRUE
            /\ UNCHANGED <<stored, marks, told>>
       [] OTHER -> open' = TRUE /\ Tell(t, ks) /\ UNCHANGED <<stored, marks, jammed, refused>>
  /\ UNCHANGED <<journal, undone>>

\* An INSERT of a key that is taken: nothing is written, but sqlite3 has begun
\* a transaction before it found out.
Raises == open' = TRUE /\ UNCHANGED <<journal, stored, shown, marks, jammed, writeVars>>

\* Database.execute
Insert(t, k) == IF Live(shown[k]) THEN Raises ELSE Apply(t, {k}, FALSE)
Update(t, k) == Apply(t, IF Live(shown[k]) THEN {k} ELSE {}, FALSE)
Delete(t, k) == Apply(t, IF Live(shown[k]) THEN {k} ELSE {}, TRUE)

CanWrite(t) == May(t) /\ ~closed /\ closing = 0 /\ saving[t] = None /\ next <= MaxWrites

Execute(t) ==
  /\ CanWrite(t)
  /\ \E k \in Keys : Insert(t, k) \/ Update(t, k) \/ Delete(t, k)
  /\ UNCHANGED <<lockVars, saving, replicaVars, closeVars, scopes>>

\* executemany: under a savepoint of its own, so all of its rows or none.
ExecuteMany(t) ==
  /\ CanWrite(t)
  /\ \E ks \in SUBSET Keys :
       IF \A k \in ks : ~Live(shown[k]) THEN Apply(t, ks, FALSE)
       ELSE UNCHANGED <<fileVars, writeVars>>
  /\ UNCHANGED <<lockVars, saving, replicaVars, closeVars, scopes>>

\* Model.save: is there a row with the key?
SaveLooks(t) ==
  /\ CanWrite(t)
  /\ \E k \in Keys : saving' = [saving EXCEPT ![t] = [key |-> k, found |-> Live(shown[k])]]
  /\ UNCHANGED <<fileVars, lockVars, writeVars, replicaVars, closeVars, scopes>>

\* And, another statement, UPDATE or INSERT accordingly.
SaveWrites(t) ==
  /\ saving[t] # None /\ May(t) /\ closing = 0
  /\ saving' = [saving EXCEPT ![t] = None]
  /\ IF closed \/ next > MaxWrites THEN UNCHANGED <<fileVars, writeVars>>
     ELSE IF saving[t].found THEN Update(t, saving[t].key) ELSE Insert(t, saving[t].key)
  /\ UNCHANGED <<lockVars, replicaVars, closeVars, scopes>>

-----------------------------------------------------------------------------
(* Transaction *)

\* BEGIN within a transaction raises.
MayBegin == ~open

Enter(t) ==
  /\ May(t) /\ ~closed /\ closing = 0 /\ saving[t] = None /\ scopes < MaxScopes
  /\ InTransaction(t) \/ MayBegin
  /\ holder' = t /\ holds' = holds + 1 /\ depth' = [depth EXCEPT ![t] = @ + 1]
  /\ open' = TRUE /\ marks' = Append(marks, [view |-> shown, from |-> next])
  /\ scopes' = scopes + 1
  /\ UNCHANGED <<journal, stored, shown, jammed, saving, writeVars, replicaVars, closeVars>>

HoldsAfter(n) == n - 1
FreeLock == holds' = HoldsAfter(holds) /\ holder' = IF HoldsAfter(holds) = 0 THEN None ELSE holder

Since(mark) == mark.from..next - 1
Undo(view, mark) == shown' = view /\ undone' = undone \cup Since(mark) /\ UNCHANGED told
RollBack == open' = FALSE /\ jammed' = FALSE /\ marks' = <<>> /\ Undo(stored, marks[1]) /\ UNCHANGED stored

\* Fault: the lock is kept when COMMIT fails.
KeepsOnError == CanCommit
FreesAlways == TRUE

\* The outermost block: COMMIT, or ROLLBACK for an exception or a COMMIT that
\* fails.  On a closed connection both raise and nothing is left to change.
ExitOuter(t, ok) ==
  /\ depth[t] = 1
  /\ IF closed THEN UNCHANGED <<fileVars, writeVars>>
     ELSE /\ IF ok /\ CanCommit
             THEN /\ Commit(shown)
                  /\ told' = [k \in Keys |-> IF shown[k] # stored[k] THEN shown[k] ELSE told[k]]
                  /\ UNCHANGED <<shown, undone>>
             ELSE RollBack
          /\ UNCHANGED <<journal, next, gone, author, refused>>
  /\ IF FreesAlways \/ ~ok THEN FreeLock ELSE UNCHANGED <<holder, holds>>

\* Fault: RELEASE alone, without ROLLBACK TO.
OnlyReleases(mark) == undone' = undone \cup Since(mark) /\ UNCHANGED <<shown, told>>
BackTo(mark) == Undo(mark.view, mark)

ExitInner(t, ok) ==
  /\ depth[t] > 1
  /\ IF closed THEN UNCHANGED <<fileVars, writeVars>>
     ELSE /\ IF ok THEN UNCHANGED <<shown, undone, told>> ELSE BackTo(marks[Len(marks)])
          /\ marks' = Front(marks)
          /\ UNCHANGED <<journal, stored, open, jammed, next, gone, author, refused>>
  /\ FreeLock

Exit(t) ==
  /\ closing = 0 /\ saving[t] = None
  /\ \E ok \in BOOLEAN : ExitOuter(t, ok) \/ ExitInner(t, ok)
  /\ depth' = [depth EXCEPT ![t] = @ - 1]
  /\ UNCHANGED <<saving, replicaVars, closeVars, scopes>>

-----------------------------------------------------------------------------
(* Replicas *)

\* get_replica: round robin.
Pick(t) ==
  /\ picked[t] = 0 /\ cursor[t] = 0 /\ reads < MaxReads
  /\ picked' = [picked EXCEPT ![t] = turn] /\ turn' = (turn % Replicas) + 1
  /\ reads' = reads + 1
  /\ UNCHANGED <<fileVars, lockVars, saving, writeVars, cursor, connected, closeVars, scopes>>

\* connect(), by which a replica that close() has closed is opened again.
Connect(t) ==
  /\ picked[t] # 0 /\ picked[t] \notin connected
  /\ connected' = connected \cup {picked[t]}
  /\ UNCHANGED <<fileVars, lockVars, saving, writeVars, turn, picked, cursor, reads, closeVars, scopes>>

\* fetchone, fetchall, scalar: a SELECT and its rows; read_replica_execute: the
\* SELECT alone, and a cursor.  A jammed file is locked and both raise.
Select(t) ==
  /\ picked[t] \in connected
  /\ picked' = [picked EXCEPT ![t] = 0]
  /\ \/ UNCHANGED cursor
     \/ ~jammed /\ cursor' = [cursor EXCEPT ![t] = picked[t]]
  /\ UNCHANGED <<fileVars, lockVars, saving, writeVars, turn, connected, reads, closeVars, scopes>>

\* The rows of the cursor are all fetched, or it is dropped.
Fetched(t) ==
  /\ cursor[t] # 0 /\ cursor' = [cursor EXCEPT ![t] = 0]
  /\ UNCHANGED <<fileVars, lockVars, saving, writeVars, turn, picked, connected, reads, closeVars, scopes>>

-----------------------------------------------------------------------------
(* Database.close: under the lock, each replica and then the connection. *)

Close(t) ==
  /\ May(t) /\ ~closed /\ closing = 0 /\ saving[t] = None
  /\ holder' = t /\ holds' = holds + 1 /\ closing' = 1
  /\ UNCHANGED <<fileVars, depth, saving, writeVars, replicaVars, closed, scopes>>

CloseReplica ==
  /\ closing \in 1..Replicas
  /\ connected' = connected \ {closing}
  /\ cursor' = [t \in Threads |-> IF cursor[t] = closing THEN 0 ELSE cursor[t]]
  /\ closing' = closing + 1
  /\ UNCHANGED <<fileVars, lockVars, saving, writeVars, turn, picked, reads, closed, scopes>>

\* What is not committed is lost with the connection.
CloseConnection ==
  /\ closing = Replicas + 1 /\ closing' = 0 /\ closed' = TRUE
  /\ shown' = stored /\ open' = FALSE /\ marks' = <<>> /\ jammed' = FALSE
  /\ undone' = undone \cup {n \in 1..next - 1 : \E k \in Keys : shown[k] = n /\ stored[k] # n}
  /\ FreeLock
  /\ UNCHANGED <<journal, stored, depth, saving, next, gone, author, refused, told, replicaVars, scopes>>

-----------------------------------------------------------------------------
CloseStep == CloseReplica \/ CloseConnection

Next ==
  \/ \E t \in Threads :
       \/ Execute(t) \/ ExecuteMany(t) \/ SaveLooks(t) \/ SaveWrites(t)
       \/ Enter(t) \/ Exit(t)
       \/ Pick(t) \/ Connect(t) \/ Select(t) \/ Fetched(t)
       \/ Close(t)
  \/ CloseStep

\* The blocks of transactions end, and so does close(): between the statements
\* of a block nothing is waited for but the application's own code.
Fairness == WF_vars(CloseStep) /\ \A t \in Threads : WF_vars(SaveWrites(t)) /\ WF_vars(Exit(t))

Spec == Init /\ [][Next]_vars /\ Fairness

-----------------------------------------------------------------------------
\* The lock is with the thread that has entered it as often as it is held, and
\* a transaction with the one that has the lock.
TypeOK ==
  /\ {stored, shown} \subseteq [Keys -> 0..next - 1] /\ Len(author) = next - 1
  /\ (holder = None) <=> (holds = 0)
  /\ \A t \in Threads : depth[t] <= holds /\ (InTransaction(t) => holder = t)
  /\ connected \subseteq 1..Replicas /\ \A t \in Threads : cursor[t] \in 0..Replicas

\* A write whose block ended with an exception, or whose COMMIT failed, is
\* nowhere to be seen, whatever blocks were inside or around it, and whatever
\* other threads committed meanwhile.
AllOrNothing == \A k \in Keys : {stored[k], shown[k]} \cap undone = {}

\* What a transaction will commit is its own: no thread finds the change of
\* another in the transaction it began.
OneWriter ==
  \A t \in Threads : InTransaction(t) =>
    \A k \in Keys : shown[k] # stored[k] => author[shown[k]] = t

\* Transactions are all or nothing, and one thread's.
TransactionsHold == TypeOK /\ AllOrNothing /\ OneWriter

\* What a caller was told is stored is stored; what is stored otherwise is a
\* change whose own commit failed and that a later commit took along.
StoredAsTold == \A k \in Keys : stored[k] # told[k] => stored[k] \in refused

\* The lock comes back however a transaction or close() ends.
LockFreed == holder # None ~> holder = None
=============================================================================

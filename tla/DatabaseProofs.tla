---------------------------- MODULE DatabaseProofs ----------------------------
(***************************************************************************)
(* Proofs about Database: transactions are all or nothing and one thread's,*)
(* and what is stored is what callers were told, for any set of threads and*)
(* keys, any number of replicas and either journal mode.                   *)
(*                                                                         *)
(* What the properties need is what holds inside a block, where no other   *)
(* thread sees it: every mark carries a view older than the block, the     *)
(* writes since the outermost mark are the lock holder's, and a row that is*)
(* not committed is later than every row that is.                          *)
(***************************************************************************)
EXTENDS Database, SequenceTheorems, TLAPS

Mark == [view : [Keys -> Nat], from : Nat \ {0}]

FileTyped ==
  /\ next \in Nat \ {0}
  /\ open \in BOOLEAN
  /\ stored \in [Keys -> 0..next - 1]
  /\ shown \in [Keys -> 0..next - 1]
  /\ author \in Seq(Threads)
  /\ Len(author) = next - 1
  /\ undone \subseteq 1..next - 1
  /\ marks \in Seq(Mark)
LockTyped ==
  /\ holder \in Threads \cup {None}
  /\ holds \in Nat
  /\ depth \in [Threads -> Nat]
  /\ closing \in 0..Replicas + 1
  /\ closed \in BOOLEAN
SavingTyped == saving \in [Threads -> [key : Keys, found : BOOLEAN] \cup {None}]
ReplicasTyped ==
  /\ turn \in 1..Replicas
  /\ picked \in [Threads -> 0..Replicas]
  /\ cursor \in [Threads -> 0..Replicas]
  /\ connected \subseteq 1..Replicas
Typed == FileTyped /\ LockTyped /\ SavingTyped /\ ReplicasTyped

\* The lock is held once for every block, and once more by close().
LockInv ==
  /\ holder = None => holds = 0 /\ closing = 0
  /\ holder # None => holds > 0
  /\ \A t \in Threads :
       /\ holder # t => depth[t] = 0
       /\ holder = t => holds = depth[t] + (IF closing = 0 THEN 0 ELSE 1)

\* A mark for every block, and a transaction as long as there is one.
BlockInv ==
  /\ closed => marks = <<>> /\ ~open
  /\ holder = None => marks = <<>>
  /\ ~closed => \A t \in Threads : holder = t => Len(marks) = depth[t]
  /\ marks # <<>> => open
  /\ ~open => shown = stored

\* A mark's view is older than its block and holds nothing that was undone.
SoundMark(i) ==
  /\ marks[i].from <= next
  /\ \A j \in 1..i : marks[j].from <= marks[i].from
  /\ \A k \in Keys :
       /\ marks[i].view[k] < marks[i].from
       /\ marks[i].view[k] \notin undone
       /\ marks[i].view[k] = stored[k] \/ marks[i].view[k] >= marks[1].from
MarkInv == \A i \in 1..Len(marks) : SoundMark(i)

\* What the transaction has changed is the lock holder's and later than what
\* was committed before it.
OwnInv ==
  marks # <<>> =>
    /\ \A k \in Keys : stored[k] < marks[1].from
    /\ \A k \in Keys : shown[k] = stored[k] \/ shown[k] >= marks[1].from
    /\ \A n \in marks[1].from .. next - 1 : author[n] = holder

\* A row that is not committed is later than every row that is, and outside of
\* transactions it is one whose commit failed.
RowInv ==
  /\ \A k, j \in Keys : shown[k] = stored[k] \/ stored[j] < shown[k]
  /\ \A k \in Keys : stored[k] \notin undone /\ shown[k] \notin undone
  /\ marks = <<>> => \A k \in Keys : shown[k] = stored[k] \/ shown[k] \in refused
  /\ \A k \in Keys : stored[k] = told[k] \/ stored[k] \in refused

IInv == Typed /\ LockInv /\ BlockInv /\ MarkInv /\ OwnInv /\ RowInv

-----------------------------------------------------------------------------
(* What the steps do to the file, the lock and the connection. *)

Quiet == UNCHANGED <<fileVars, writeVars, lockVars, closeVars>>
Writing(t) ==
  /\ May(t) /\ ~closed /\ closing = 0
  /\ Raises \/ \E ks \in SUBSET Keys, d \in BOOLEAN : Apply(t, ks, d)
  /\ UNCHANGED <<lockVars, closeVars>>

\* Every statement of Execute, ExecuteMany and SaveWrites writes a set of rows,
\* raises or does nothing; the rest is a block's, close()'s or a replica's.
LEMMA StepCases ==
  ASSUME Typed, [Next]_vars
  PROVE  \/ Quiet
         \/ \E t \in Threads : Writing(t) \/ Enter(t) \/ Exit(t) \/ Close(t)
         \/ CloseReplica \/ CloseConnection
  <1>1. ASSUME NEW t \in Threads, Execute(t) PROVE Writing(t)
    <2>1. PICK k \in Keys : Insert(t, k) \/ Update(t, k) \/ Delete(t, k)
      BY <1>1 DEF Execute
    <2>2. {k} \in SUBSET Keys /\ {} \in SUBSET Keys /\ TRUE \in BOOLEAN /\ FALSE \in BOOLEAN
      OBVIOUS
    <2>3. Raises \/ \E ks \in SUBSET Keys, d \in BOOLEAN : Apply(t, ks, d)
      BY <2>1, <2>2, Zenon DEF Insert, Update, Delete
    <2>. QED
      BY <1>1, <2>3 DEF Execute, CanWrite, Writing
  <1>2. ASSUME NEW t \in Threads, ExecuteMany(t) PROVE Writing(t) \/ Quiet
    <2>1. PICK ks \in SUBSET Keys : Apply(t, ks, FALSE) \/ UNCHANGED <<fileVars, writeVars>>
      BY <1>2 DEF ExecuteMany
    <2>2. UNCHANGED <<lockVars, closeVars>> /\ May(t) /\ ~closed /\ closing = 0
      BY <1>2 DEF ExecuteMany, CanWrite
    <2>3. CASE Apply(t, ks, FALSE)
      BY <2>2, <2>3, Zenon DEF Writing
    <2>. QED
      BY <2>1, <2>2, <2>3 DEF Quiet
  <1>3. ASSUME NEW t \in Threads, SaveWrites(t) PROVE Writing(t) \/ Quiet
    <2>1. saving[t] \in [key : Keys, found : BOOLEAN]
      BY <1>3 DEF SaveWrites, Typed, SavingTyped
    <2>2. UNCHANGED <<lockVars, closeVars>> /\ May(t) /\ closing = 0
      BY <1>3 DEF SaveWrites
    <2>3. CASE closed \/ next > MaxWrites
      BY <1>3, <2>2, <2>3 DEF SaveWrites, Quiet
    <2>4. CASE ~(closed \/ next > MaxWrites)
      <3>1. PICK k : k = saving[t].key
        OBVIOUS
      <3>2. Update(t, k) \/ Insert(t, k)
        BY <1>3, <2>4, <3>1 DEF SaveWrites
      <3>3. {k} \in SUBSET Keys /\ {} \in SUBSET Keys
        BY <2>1, <3>1
      <3>4. Raises \/ \E ks \in SUBSET Keys, d \in BOOLEAN : Apply(t, ks, d)
        BY <3>2, <3>3, Zenon DEF Insert, Update
      <3>. QED
        BY <2>2, <2>4, <3>4, Zenon DEF Writing
    <2>. QED
      BY <2>3, <2>4
  <1>4. ASSUME NEW t \in Threads, SaveLooks(t) \/ Pick(t) \/ Connect(t) \/ Select(t) \/ Fetched(t)
        PROVE  Quiet
    BY <1>4 DEF SaveLooks, Pick, Connect, Select, Fetched, Quiet
  <1>5. CASE UNCHANGED vars
    BY <1>5 DEF vars, Quiet
  <1>. QED
    BY <1>1, <1>2, <1>3, <1>4, <1>5 DEF Next, CloseStep

\* The three ways a statement that writes ends: committed, refused, or within
\* the transaction.
Applied(t, ks) ==
  /\ shown' = [k \in Keys |-> IF k \in ks THEN next ELSE shown[k]]
  /\ next' = next + 1 /\ author' = Append(author, t) /\ undone' = undone
  /\ \/ /\ depth[t] = 0 /\ stored' = shown' /\ open' = FALSE /\ marks' = <<>>
        /\ told' = [k \in Keys |-> IF k \in ks THEN next ELSE told[k]] /\ refused' = refused
     \/ /\ depth[t] = 0 /\ open' = TRUE /\ refused' = refused \cup {next}
        /\ UNCHANGED <<stored, marks, told>>
     \/ /\ depth[t] > 0 /\ open' = TRUE /\ UNCHANGED <<stored, marks, refused>>
        /\ told' = [k \in Keys |-> told[k]]

\* A statement that writes gives its rows the next number, commits or
\* fails, and leaves the rest.
LEMMA ApplyEffect ==
  ASSUME Typed, NEW t \in Threads, NEW ks \in SUBSET Keys, NEW d \in BOOLEAN, Apply(t, ks, d)
  PROVE  Applied(t, ks)
  <1>. DEFINE view == [k \in Keys |-> IF k \in ks THEN next ELSE shown[k]]
  <1>1. shown' = view /\ next' = next + 1 /\ author' = Append(author, t) /\ undone' = undone
    BY DEF Apply
  <1>2. depth[t] \in Nat
    BY DEF Typed, LockTyped
  <1>3. CASE CommitsAtOnce(t) /\ CanCommit
    <2>1. Commit(view) /\ Tell(t, ks) /\ UNCHANGED refused
      BY <1>3 DEF Apply
    <2>2. depth[t] = 0
      BY <1>2, <1>3 DEF CommitsAtOnce, InTransaction
    <2>. QED
      BY <1>1, <2>1, <2>2 DEF Commit, Tell, InTransaction, Applied
  <1>4. CASE CommitsAtOnce(t) /\ ~CanCommit
    <2>1. refused' = refused \cup {next} /\ open' = TRUE /\ UNCHANGED <<stored, marks, told>>
      BY <1>4 DEF Apply
    <2>2. depth[t] = 0
      BY <1>2, <1>4 DEF CommitsAtOnce, InTransaction
    <2>. QED
      BY <1>1, <2>1, <2>2 DEF Applied
  <1>5. CASE ~CommitsAtOnce(t)
    <2>1. open' = TRUE /\ Tell(t, ks) /\ UNCHANGED <<stored, marks, refused>>
      BY <1>5 DEF Apply
    <2>2. depth[t] > 0
      BY <1>5 DEF CommitsAtOnce, InTransaction
    <2>3. told' = [k \in Keys |-> told[k]]
      BY <2>1, <2>2 DEF Tell, InTransaction
    <2>. QED
      BY <1>1, <2>1, <2>2, <2>3 DEF Applied
  <1>. QED
    BY <1>3, <1>4, <1>5
\* A mark added, and the last one taken away.
LEMMA MarksGrow ==
  ASSUME marks \in Seq(Mark), NEW m \in Mark
  PROVE  /\ Append(marks, m) \in Seq(Mark) /\ Append(marks, m) # <<>>
         /\ Len(Append(marks, m)) = Len(marks) + 1
         /\ \A i \in 1..Len(marks) : Append(marks, m)[i] = marks[i]
         /\ Append(marks, m)[Len(marks) + 1] = m
  OBVIOUS

\* The marks that stay when the innermost block ends.
LEMMA MarksShrink ==
  ASSUME marks \in Seq(Mark), Len(marks) > 0
  PROVE  /\ Front(marks) \in Seq(Mark) /\ Len(Front(marks)) = Len(marks) - 1
         /\ \A i \in 1..Len(marks) - 1 : Front(marks)[i] = marks[i]
  BY DEF Front

\* The lock is free again, or its thread has it once less.
LEMMA LockFreedOnce ==
  ASSUME FreeLock, holds \in Nat, holds > 0
  PROVE  /\ holds' = holds - 1 /\ holds' \in Nat
         /\ holder' = IF holds = 1 THEN None ELSE holder
  BY DEF FreeLock, HoldsAfter

\* What the end of a block does to the file: it commits, is rolled back, is
\* released into the block around it, or is undone to its mark.
Committed ==
  /\ Len(marks) = 1
  /\ stored' = shown /\ open' = FALSE /\ marks' = <<>>
  /\ told' = [k \in Keys |-> IF shown[k] # stored[k] THEN shown[k] ELSE told[k]]
  /\ UNCHANGED <<shown, undone, next, author, refused>>
RolledBack ==
  /\ Len(marks) = 1
  /\ shown' = stored /\ open' = FALSE /\ marks' = <<>>
  /\ undone' = undone \cup marks[1].from .. next - 1
  /\ UNCHANGED <<stored, told, next, author, refused>>
Released ==
  /\ Len(marks) > 1 /\ marks' = Front(marks)
  /\ UNCHANGED <<shown, undone, told, stored, open, next, author, refused>>
Undone ==
  /\ Len(marks) > 1 /\ marks' = Front(marks)
  /\ shown' = marks[Len(marks)].view
  /\ undone' = undone \cup marks[Len(marks)].from .. next - 1
  /\ UNCHANGED <<told, stored, open, next, author, refused>>
Exited(t) ==
  /\ closing = 0 /\ depth[t] > 0 /\ holder = t /\ FreeLock
  /\ depth' = [depth EXCEPT ![t] = @ - 1] /\ UNCHANGED closeVars
  /\ \/ closed /\ UNCHANGED <<fileVars, writeVars>>
     \/ /\ ~closed /\ Len(marks) = depth[t]
        /\ Committed \/ RolledBack \/ Released \/ Undone

\* The end of a block releases or rolls back to its savepoint, and the
\* outermost commits, rolls back or fails to.
LEMMA ExitEffect ==
  ASSUME Typed, BlockInv, LockInv, NEW t \in Threads, Exit(t)
  PROVE  Exited(t)
  <1>1. closing = 0 /\ depth' = [depth EXCEPT ![t] = @ - 1] /\ UNCHANGED closeVars
    BY DEF Exit
  <1>2. PICK ok \in BOOLEAN : ExitOuter(t, ok) \/ ExitInner(t, ok)
    BY DEF Exit
  <1>3. depth[t] \in Nat /\ depth[t] > 0 /\ FreeLock
    BY <1>2 DEF ExitOuter, ExitInner, FreesAlways, Typed, LockTyped
  <1>4. holder = t
    BY <1>3 DEF LockInv
  <1>5. ~closed => Len(marks) = depth[t]
    BY <1>4 DEF BlockInv
  <1>6. CASE closed
    BY <1>1, <1>2, <1>3, <1>4, <1>6 DEF ExitOuter, ExitInner, Exited
  <1>7. CASE ~closed /\ ExitOuter(t, ok)
    <2>1. depth[t] = 1 /\ UNCHANGED <<next, author, refused>>
      BY <1>7 DEF ExitOuter
    <2>2. CASE ok /\ CanCommit
      BY <1>1, <1>3, <1>4, <1>5, <1>7, <2>1, <2>2 DEF ExitOuter, Commit, Committed, Exited
    <2>3. CASE ~(ok /\ CanCommit)
      BY <1>1, <1>3, <1>4, <1>5, <1>7, <2>1, <2>3 DEF ExitOuter, RollBack, Undo, Since, RolledBack, Exited
    <2>. QED
      BY <2>2, <2>3
  <1>8. CASE ~closed /\ ExitInner(t, ok)
    <2>1. /\ depth[t] > 1 /\ marks' = Front(marks)
          /\ UNCHANGED <<stored, open, next, author, refused>>
      BY <1>8 DEF ExitInner
    <2>2. CASE ok
      BY <1>1, <1>3, <1>4, <1>5, <1>8, <2>1, <2>2 DEF ExitInner, Released, Exited
    <2>3. CASE ~ok
      BY <1>1, <1>3, <1>4, <1>5, <1>8, <2>1, <2>3 DEF ExitInner, BackTo, Undo, Since, Undone, Exited
    <2>. QED
      BY <2>2, <2>3
  <1>. QED
    BY <1>2, <1>6, <1>7, <1>8

-----------------------------------------------------------------------------
\* An empty file and a free lock keep the invariant.
LEMMA InitInv == Init => IInv
  <1> SUFFICES ASSUME Init PROVE IInv
    OBVIOUS
  <1>1. Typed
    <2>1. <<>> \in Seq(Threads) /\ Len(<<>>) = 0 /\ <<>> \in Seq(Mark)
      OBVIOUS
    <2>2. stored \in [Keys -> 0..next - 1] /\ shown = stored /\ next = 1
      BY DEF Init, Nothing
    <2>3. Replicas \in Nat \ {0}
      BY DatabaseConstants
    <2>4. /\ next \in Nat \ {0} /\ undone \subseteq 1..next - 1
          /\ author \in Seq(Threads) /\ Len(author) = next - 1 /\ marks \in Seq(Mark)
      BY <2>1 DEF Init
    <2>5. /\ depth \in [Threads -> Nat]
          /\ saving \in [Threads -> [key : Keys, found : BOOLEAN] \cup {None}]
          /\ holder \in Threads \cup {None} /\ holds \in Nat
      BY DEF Init
    <2>6. /\ closing \in 0..Replicas + 1 /\ closed \in BOOLEAN /\ open \in BOOLEAN
          /\ turn \in 1..Replicas /\ connected \subseteq 1..Replicas
          /\ picked \in [Threads -> 0..Replicas] /\ cursor \in [Threads -> 0..Replicas]
      <3>1. 0 \in 0..Replicas + 1 /\ 1 \in 1..Replicas /\ 0 \in 0..Replicas
        BY <2>3
      <3>. QED
        BY <3>1 DEF Init
    <2>. QED
      BY <2>2, <2>4, <2>5, <2>6 DEF Typed, FileTyped, LockTyped, SavingTyped, ReplicasTyped
  <1>2. LockInv /\ BlockInv /\ MarkInv /\ OwnInv
    BY DatabaseConstants DEF Init, LockInv, BlockInv, MarkInv, OwnInv
  <1>3. RowInv
    BY DEF Init, Nothing, RowInv
  <1>. QED
    BY <1>1, <1>2, <1>3 DEF IInv

\* The types of what is in the file, of the lock, of save() and of replicas.
LEMMA FileTypeStep ==
  ASSUME IInv, [Next]_vars
  PROVE  FileTyped'
  <1>1. Typed /\ LockInv /\ BlockInv
    BY DEF IInv
  <1>2. CASE Quiet
    BY <1>1, <1>2 DEF Quiet, fileVars, writeVars, Typed, FileTyped
  <1>3. ASSUME NEW t \in Threads, Writing(t) PROVE FileTyped'
    <2>1. CASE Raises
      BY <1>1, <2>1 DEF Raises, writeVars, Typed, FileTyped
    <2>2. ASSUME NEW ks \in SUBSET Keys, NEW d \in BOOLEAN, Apply(t, ks, d) PROVE FileTyped'
      <3>1. /\ shown' = [k \in Keys |-> IF k \in ks THEN next ELSE shown[k]]
            /\ next' = next + 1 /\ author' = Append(author, t) /\ undone' = undone
            /\ stored' = shown' \/ stored' = stored
            /\ open' \in BOOLEAN /\ marks' \in {marks, <<>>}
        <4>1. /\ shown' = [k \in Keys |-> IF k \in ks THEN next ELSE shown[k]]
              /\ next' = next + 1 /\ author' = Append(author, t) /\ undone' = undone
              /\ \/ stored' = shown' /\ open' = FALSE /\ marks' = <<>>
                 \/ open' = TRUE /\ stored' = stored /\ marks' = marks
          <5>1. Applied(t, ks)
            BY <1>1, <2>2, ApplyEffect, Zenon
          <5>. QED
            BY <5>1 DEF Applied
        <4>. QED
          BY <4>1
      <3>2. /\ next' \in Nat \ {0} /\ next' - 1 = next /\ 0..next - 1 \subseteq 0..next' - 1
            /\ next \in 0..next' - 1 /\ 1..next - 1 \subseteq 1..next' - 1
        <4>1. next \in Nat \ {0}
          BY <1>1 DEF Typed, FileTyped
        <4>. QED
          BY <3>1, <4>1
      <3>3. shown' \in [Keys -> 0..next' - 1] /\ stored \in [Keys -> 0..next' - 1]
        <4>1. shown \in [Keys -> 0..next - 1] /\ stored \in [Keys -> 0..next - 1]
          BY <1>1 DEF Typed, FileTyped
        <4>. QED
          BY <3>1, <3>2, <4>1
      <3>4. author' \in Seq(Threads) /\ Len(author') = next' - 1
        BY <1>1, <3>1, <3>2 DEF Typed, FileTyped
      <3>5. undone' \subseteq 1..next' - 1 /\ marks' \in Seq(Mark)
        <4>1. undone \subseteq 1..next - 1 /\ marks \in Seq(Mark) /\ <<>> \in Seq(Mark)
          BY <1>1 DEF Typed, FileTyped
        <4>. QED
          BY <3>1, <3>2, <4>1
      <3>. QED
        BY <3>1, <3>2, <3>3, <3>4, <3>5 DEF FileTyped
    <2>. QED
      BY <1>3, <2>1, <2>2 DEF Writing
  <1>4. ASSUME NEW t \in Threads, Enter(t)
        PROVE  /\ next' = next /\ open' \in BOOLEAN /\ UNCHANGED <<stored, shown, author, undone>>
               /\ marks' \in Seq(Mark)
    <2>1. PICK m : m = [view |-> shown, from |-> next]
      OBVIOUS
    <2>2. m \in Mark /\ marks' = Append(marks, m)
      <3>1. shown \in [Keys -> Nat] /\ next \in Nat \ {0}
        BY <1>1 DEF Typed, FileTyped
      <3>. QED
        BY <1>1, <1>4, <2>1, <3>1 DEF Enter, Mark, Typed, FileTyped
    <2>. QED
      BY <1>1, <1>4, <2>2, MarksGrow DEF Enter, writeVars, Typed, FileTyped
  <1>5. ASSUME NEW t \in Threads, Exit(t)
        PROVE  /\ next' = next /\ open' \in BOOLEAN /\ author' = author
               /\ stored' \in [Keys -> 0..next - 1] /\ shown' \in [Keys -> 0..next - 1]
               /\ undone' \subseteq 1..next - 1 /\ marks' \in Seq(Mark)
    <2>1. ASSUME NEW i \in 1..Len(marks)
          PROVE  /\ marks[i].view \in [Keys -> 0..next - 1]
                 /\ marks[i].from .. next - 1 \subseteq 1..next - 1
      <3>1. marks[i] \in Mark /\ SoundMark(i) /\ next \in Nat
        BY <2>1 DEF IInv, MarkInv, Typed, FileTyped
      <3>2. ASSUME NEW k \in Keys PROVE marks[i].view[k] \in 0..next - 1
        BY <3>1 DEF SoundMark, Mark
      <3>3. marks[i].view = [k \in Keys |-> marks[i].view[k]]
        BY <3>1 DEF Mark
      <3>4. marks[i].view \in [Keys -> 0..next - 1]
        BY <3>2, <3>3
      <3>. QED
        BY <3>1, <3>4 DEF Mark
    <2>2. /\ open \in BOOLEAN /\ undone \subseteq 1..next - 1 /\ marks \in Seq(Mark)
          /\ stored \in [Keys -> 0..next - 1] /\ shown \in [Keys -> 0..next - 1]
      BY <1>1 DEF Typed, FileTyped
    <2>3. <<>> \in Seq(Mark) /\ Len(marks) \in Nat
      BY <2>2
    <2>6. Len(marks) > 0 => Front(marks) \in Seq(Mark) /\ 1 \in 1..Len(marks) /\ Len(marks) \in 1..Len(marks)
      BY <2>2, <2>3, MarksShrink
    <2>4. Exited(t)
      BY <1>1, <1>5, ExitEffect
    <2>5. CASE closed /\ UNCHANGED <<fileVars, writeVars>>
      BY <2>2, <2>5 DEF fileVars, writeVars
    <2>7. CASE Committed
      BY <2>2, <2>3, <2>7 DEF Committed
    <2>8. CASE RolledBack
      <3>1. marks[1].from .. next - 1 \subseteq 1..next - 1
        BY <2>1, <2>6, <2>8 DEF RolledBack
      <3>. QED
        BY <2>2, <2>3, <2>8, <3>1 DEF RolledBack
    <2>9. CASE Released
      BY <2>2, <2>3, <2>6, <2>9 DEF Released
    <2>10. CASE Undone
      <3>1. /\ marks[Len(marks)].from .. next - 1 \subseteq 1..next - 1
            /\ marks[Len(marks)].view \in [Keys -> 0..next - 1]
        BY <2>1, <2>3, <2>6, <2>10 DEF Undone
      <3>2. Front(marks) \in Seq(Mark)
        BY <2>3, <2>6, <2>10 DEF Undone
      <3>. QED
        BY <2>2, <2>10, <3>1, <3>2 DEF Undone
    <2>. QED
      BY <2>4, <2>5, <2>7, <2>8, <2>9, <2>10 DEF Exited
  <1>6. ASSUME NEW t \in Threads, Close(t)
        PROVE  UNCHANGED <<fileVars, writeVars>>
    BY <1>6 DEF Close
  <1>7. CASE CloseReplica
    BY <1>1, <1>7 DEF CloseReplica, fileVars, writeVars, Typed, FileTyped
  <1>9. ASSUME UNCHANGED <<fileVars, writeVars>> PROVE FileTyped'
    BY <1>1, <1>9 DEF fileVars, writeVars, Typed, FileTyped
  <1>10. next \in Nat \ {0} /\ stored \in [Keys -> 0..next - 1] /\ shown \in [Keys -> 0..next - 1]
         /\ author \in Seq(Threads) /\ Len(author) = next - 1 /\ undone \subseteq 1..next - 1
    BY <1>1 DEF Typed, FileTyped
  <1>8. CASE CloseConnection
    <2>1. UNCHANGED <<stored, next, author>> /\ shown' = stored /\ open' = FALSE /\ marks' = <<>>
      BY <1>8 DEF CloseConnection
    <2>2. undone' \subseteq 1..next - 1
      BY <1>8, <1>10 DEF CloseConnection
    <2>. QED
      <3>1. <<>> \in Seq(Mark) /\ FALSE \in BOOLEAN
        OBVIOUS
      <3>. QED
        BY <1>10, <2>1, <2>2, <3>1 DEF FileTyped
  <1>11. ASSUME NEW t \in Threads, Enter(t) \/ Exit(t) PROVE FileTyped'
    BY <1>4, <1>5, <1>10, <1>11 DEF FileTyped
  <1>. QED
    BY <1>1, <1>2, <1>3, <1>6, <1>7, <1>8, <1>9, <1>11, StepCases

\* No step breaks the shape of a variable.
LEMMA TypeStep == IInv /\ [Next]_vars => Typed'
  <1> SUFFICES ASSUME IInv, [Next]_vars PROVE Typed'
    OBVIOUS
  <1>1. Typed /\ LockInv /\ BlockInv /\ Replicas \in Nat \ {0}
    BY DatabaseConstants DEF IInv
  <1>2. LockTyped'
    <2>1. CASE Quiet \/ \E t \in Threads : Writing(t)
      BY <1>1, <2>1 DEF Quiet, Writing, lockVars, closeVars, Typed, LockTyped
    <2>2. ASSUME NEW t \in Threads, Enter(t) \/ Close(t) PROVE LockTyped'
      BY <1>1, <2>2 DEF Enter, Close, closeVars, Typed, LockTyped
    <2>3. ASSUME NEW t \in Threads, Exit(t) PROVE LockTyped'
      <3>1. Exited(t) /\ holder # None /\ holds > 0
        BY <1>1, <2>3, ExitEffect, DatabaseConstants DEF Exited, LockInv
      <3>2. depth[t] - 1 \in Nat
        BY <1>1, <3>1 DEF Exited, Typed, LockTyped
      <3>. QED
        BY <1>1, <3>1, <3>2, LockFreedOnce DEF Exited, closeVars, Typed, LockTyped
    <2>4. CASE CloseReplica
      BY <1>1, <2>4 DEF CloseReplica, lockVars, Typed, LockTyped
    <2>5. CASE CloseConnection
      <3>1. holds > 0 /\ FreeLock
        BY <1>1, <2>5 DEF CloseConnection, LockInv
      <3>. QED
        BY <1>1, <2>5, <3>1, LockFreedOnce DEF CloseConnection, Typed, LockTyped
    <2>. QED
      BY <1>1, <2>1, <2>2, <2>3, <2>4, <2>5, StepCases
  <1>3. SavingTyped'
    <2>1. saving \in [Threads -> [key : Keys, found : BOOLEAN] \cup {None}]
      BY <1>1 DEF Typed, SavingTyped
    <2>2. ASSUME NEW t \in Threads, SaveLooks(t) PROVE SavingTyped'
      <3>1. PICK k \in Keys : saving' = [saving EXCEPT ![t] = [key |-> k, found |-> Live(shown[k])]]
        BY <2>2 DEF SaveLooks
      <3>2. Live(shown[k]) \in BOOLEAN
        BY DEF Live
      <3>. QED
        BY <2>1, <3>1, <3>2 DEF SavingTyped
    <2>3. ASSUME NEW t \in Threads, SaveWrites(t) PROVE SavingTyped'
      BY <2>1, <2>3 DEF SaveWrites, SavingTyped
    <2>4. CASE UNCHANGED saving
      BY <2>1, <2>4 DEF SavingTyped
    <2>5. ASSUME NEW t \in Threads, Execute(t) \/ ExecuteMany(t) \/ Enter(t) \/ Exit(t)
          PROVE  UNCHANGED saving
      BY <2>5 DEF Execute, ExecuteMany, Enter, Exit
    <2>6. ASSUME NEW t \in Threads, Pick(t) \/ Connect(t) \/ Select(t) \/ Fetched(t) \/ Close(t)
          PROVE  UNCHANGED saving
      BY <2>6 DEF Pick, Connect, Select, Fetched, Close
    <2>7. ASSUME CloseReplica \/ CloseConnection \/ UNCHANGED vars PROVE UNCHANGED saving
      BY <2>7 DEF CloseReplica, CloseConnection, vars
    <2>. QED
      BY <2>2, <2>3, <2>4, <2>5, <2>6, <2>7 DEF Next, CloseStep
  <1>4. ReplicasTyped'
    <2>1. /\ turn \in 1..Replicas /\ picked \in [Threads -> 0..Replicas]
          /\ cursor \in [Threads -> 0..Replicas] /\ connected \subseteq 1..Replicas
      BY <1>1 DEF Typed, ReplicasTyped
    <2>2. ASSUME NEW t \in Threads, Pick(t) PROVE ReplicasTyped'
      <3>1. turn' \in 1..Replicas
        <4>1. turn % Replicas \in 0..Replicas - 1
          BY <1>1, <2>1
        <4>. QED
          BY <1>1, <2>2, <4>1 DEF Pick
      <3>2. turn \in 0..Replicas /\ UNCHANGED <<cursor, connected>>
        BY <1>1, <2>1, <2>2 DEF Pick
      <3>. QED
        BY <2>1, <2>2, <3>1, <3>2 DEF Pick, ReplicasTyped
    <2>3. ASSUME NEW t \in Threads, Connect(t) \/ Select(t) \/ Fetched(t) PROVE ReplicasTyped'
      <3>1. picked[t] \in 0..Replicas /\ 0 \in 0..Replicas
        BY <1>1, <2>1
      <3>2. picked[t] # 0 => picked[t] \in 1..Replicas
        BY <1>1, <3>1
      <3>. QED
        BY <2>1, <2>3, <3>1, <3>2 DEF Connect, Select, Fetched, ReplicasTyped
    <2>4. CASE CloseReplica
      <3>1. 0 \in 0..Replicas /\ UNCHANGED <<turn, picked>>
        BY <1>1, <2>4 DEF CloseReplica
      <3>. QED
        BY <2>1, <2>4, <3>1 DEF CloseReplica, ReplicasTyped
    <2>5. CASE UNCHANGED <<turn, picked, cursor, connected>>
      BY <2>1, <2>5 DEF ReplicasTyped
    <2>6. ASSUME NEW t \in Threads,
                 \/ Execute(t) \/ ExecuteMany(t) \/ SaveLooks(t) \/ SaveWrites(t)
                 \/ Enter(t) \/ Exit(t) \/ Close(t)
          PROVE  UNCHANGED <<turn, picked, cursor, connected>>
      BY <2>6 DEF Execute, ExecuteMany, SaveLooks, SaveWrites, Enter, Exit, Close, replicaVars
    <2>7. ASSUME CloseConnection \/ UNCHANGED vars PROVE UNCHANGED <<turn, picked, cursor, connected>>
      BY <2>7 DEF CloseConnection, vars, replicaVars
    <2>. QED
      BY <2>2, <2>3, <2>4, <2>5, <2>6, <2>7 DEF Next, CloseStep
  <1>. QED
    BY <1>2, <1>3, <1>4, FileTypeStep DEF Typed, FileTyped

\* The lock stays with its thread until every block of it, and close(), has
\* given it back.
LEMMA LockStep == IInv /\ [Next]_vars => LockInv'
  <1> SUFFICES ASSUME IInv, [Next]_vars PROVE LockInv'
    OBVIOUS
  <1>1. Typed /\ LockInv /\ BlockInv /\ None \notin Threads /\ Replicas \in Nat \ {0}
    BY DatabaseConstants DEF IInv
  <1>2. /\ depth \in [Threads -> Nat] /\ holds \in Nat /\ closing \in Nat
        /\ holder \in Threads \cup {None}
    BY <1>1 DEF Typed, LockTyped
  <1>3. CASE Quiet \/ \E t \in Threads : Writing(t)
    BY <1>1, <1>3 DEF Quiet, Writing, lockVars, closeVars, LockInv
  <1>4. ASSUME NEW t \in Threads, Enter(t) PROVE LockInv'
    <2>1. /\ closing' = 0 /\ closing = 0 /\ holder' = t /\ holds' = holds + 1
          /\ depth' = [depth EXCEPT ![t] = @ + 1] /\ holder \in {None, t}
      BY <1>4 DEF Enter, closeVars, May
    <2>2. holds = depth[t]
      BY <1>1, <1>2, <2>1 DEF LockInv
    <2>3. \A u \in Threads : u # t => depth'[u] = 0
      BY <1>1, <1>2, <2>1 DEF LockInv
    <2>4. depth'[t] = depth[t] + 1 /\ t # None
      BY <1>1, <1>2, <2>1
    <2>. QED
      BY <1>2, <2>1, <2>2, <2>3, <2>4 DEF LockInv
  <1>5. ASSUME NEW t \in Threads, Exit(t) PROVE LockInv'
    <2>1. Exited(t) /\ closing' = 0
      BY <1>1, <1>5, ExitEffect DEF Exited, closeVars
    <2>2. holds = depth[t] /\ holder = t /\ t # None
      BY <1>1, <1>2, <2>1 DEF Exited, LockInv
    <2>3. holds > 0
      BY <2>1, <2>2 DEF Exited
    <2>4. holds' = holds - 1 /\ holder' = IF holds = 1 THEN None ELSE t
      BY <1>2, <2>1, <2>2, <2>3, LockFreedOnce DEF Exited
    <2>5. \A u \in Threads : u # t => depth'[u] = 0
      BY <1>1, <1>2, <2>1, <2>2 DEF LockInv, Exited
    <2>6. depth'[t] = depth[t] - 1
      BY <1>2, <2>1 DEF Exited
    <2>. QED
      BY <1>2, <2>1, <2>2, <2>3, <2>4, <2>5, <2>6 DEF LockInv
  <1>6. ASSUME NEW t \in Threads, Close(t) PROVE LockInv'
    <2>1. /\ closing' = 1 /\ closing = 0 /\ holder' = t /\ holds' = holds + 1
          /\ depth' = depth /\ holder \in {None, t} /\ t # None
      BY <1>1, <1>6 DEF Close, May
    <2>2. holds = depth[t] /\ \A u \in Threads : u # t => depth[u] = 0
      BY <1>1, <1>2, <2>1 DEF LockInv
    <2>. QED
      BY <1>2, <2>1, <2>2 DEF LockInv
  <1>7. CASE CloseReplica
    <2>1. UNCHANGED <<holder, holds, depth>> /\ closing # 0 /\ closing' = closing + 1
      BY <1>1, <1>7 DEF CloseReplica, lockVars
    <2>. QED
      BY <1>1, <1>2, <2>1 DEF LockInv
  <1>8. CASE CloseConnection
    <2>1. closing # 0 /\ closing' = 0 /\ FreeLock /\ depth' = depth
      BY <1>1, <1>8 DEF CloseConnection
    <2>2. holder # None /\ holds > 0
      BY <1>1, <2>1 DEF LockInv
    <2>3. holds' = holds - 1 /\ holder' = IF holds = 1 THEN None ELSE holder
      BY <1>2, <2>1, <2>2, LockFreedOnce
    <2>4. \A t \in Threads : holder = t => holds = depth[t] + 1
      BY <1>1, <2>1 DEF LockInv
    <2>. QED
      BY <1>1, <1>2, <2>1, <2>2, <2>3, <2>4 DEF LockInv
  <1>. QED
    BY <1>1, <1>3, <1>4, <1>5, <1>6, <1>7, <1>8, StepCases

\* Marks and blocks stay one for one, and outside of a transaction the
\* connection shows the file.
LEMMA BlockStep == IInv /\ [Next]_vars => BlockInv'
  <1> SUFFICES ASSUME IInv, [Next]_vars PROVE BlockInv'
    OBVIOUS
  <1>1. Typed /\ LockInv /\ BlockInv /\ None \notin Threads
    BY DatabaseConstants DEF IInv
  <1>2. /\ depth \in [Threads -> Nat] /\ holds \in Nat /\ closing \in Nat
        /\ holder \in Threads \cup {None} /\ marks \in Seq(Mark) /\ Len(marks) \in Nat
    BY <1>1, DatabaseConstants DEF Typed, FileTyped, LockTyped
  <1>3. CASE Quiet
    BY <1>1, <1>3 DEF Quiet, fileVars, lockVars, closeVars, BlockInv
  <1>4. ASSUME NEW t \in Threads, Writing(t) PROVE BlockInv'
    <2>1. ~closed /\ ~closed' /\ closing = 0 /\ UNCHANGED <<holder, depth>> /\ holder \in {None, t}
      BY <1>4 DEF Writing, lockVars, closeVars, May
    <2>2. CASE Raises
      BY <1>1, <2>1, <2>2 DEF Raises, BlockInv
    <2>3. ASSUME NEW ks \in SUBSET Keys, NEW d \in BOOLEAN, Apply(t, ks, d) PROVE BlockInv'
      <3>1. Applied(t, ks)
        BY <1>1, <2>3, ApplyEffect, Zenon
      <3>2. CASE depth[t] = 0
        <4>1. holder = None
          BY <1>1, <1>2, <2>1, <3>2 DEF LockInv
        <4>2. marks = <<>>
          BY <1>1, <4>1 DEF BlockInv
        <4>. QED
          BY <1>1, <2>1, <3>1, <3>2, <4>1, <4>2 DEF BlockInv, Applied
      <3>3. CASE depth[t] # 0
        BY <1>1, <2>1, <3>1, <3>3 DEF BlockInv, Applied
      <3>. QED
        BY <3>2, <3>3
    <2>. QED
      BY <1>4, <2>2, <2>3 DEF Writing
  <1>5. ASSUME NEW t \in Threads, Enter(t) PROVE BlockInv'
    <2>1. PICK m : m = [view |-> shown, from |-> next]
      OBVIOUS
    <2>2. /\ ~closed /\ closed' = closed /\ holder' = t /\ holder \in {None, t} /\ closing = 0
          /\ depth' = [depth EXCEPT ![t] = @ + 1] /\ open' = TRUE /\ marks' = Append(marks, m)
      BY <1>5, <2>1 DEF Enter, closeVars, May
    <2>3. m \in Mark
      BY <1>1, <2>1 DEF Mark, Typed, FileTyped
    <2>4. Len(marks) = depth[t]
      BY <1>1, <1>2, <2>2 DEF BlockInv, LockInv
    <2>5. marks' # <<>> /\ Len(marks') = depth'[t]
      BY <1>2, <2>2, <2>3, <2>4, MarksGrow
    <2>. QED
      BY <1>1, <2>2, <2>5 DEF BlockInv
  <1>6. ASSUME NEW t \in Threads, Exit(t) PROVE BlockInv'
    <2>1. Exited(t) /\ closed' = closed /\ holder = t /\ closing = 0 /\ holds = depth[t] /\ holds > 0
      BY <1>1, <1>2, <1>6, ExitEffect DEF Exited, closeVars, LockInv
    <2>2. /\ holder' = IF depth[t] = 1 THEN None ELSE t
          /\ depth'[t] = depth[t] - 1
      BY <1>2, <2>1, LockFreedOnce DEF Exited
    <2>3. CASE closed
      BY <1>1, <2>1, <2>3 DEF BlockInv, Exited, fileVars
    <2>4. CASE ~closed
      <3>1. Len(marks) = depth[t] /\ (Committed \/ RolledBack \/ Released \/ Undone)
        BY <2>1, <2>4 DEF Exited
      <3>2. CASE Committed \/ RolledBack
        <4>1. holder' = None /\ marks' = <<>> /\ shown' = stored' /\ t # None
          BY <1>1, <2>2, <3>1, <3>2 DEF Committed, RolledBack
        <4>. QED
          BY <1>1, <2>1, <2>4, <4>1 DEF BlockInv
      <3>3. CASE Released \/ Undone
        <4>1. Len(marks) > 1 /\ marks' = Front(marks) /\ open' = open
          BY <3>3 DEF Released, Undone
        <4>2. holder' = t /\ t # None /\ Len(marks') = depth'[t] /\ Len(marks') > 0
          BY <1>1, <1>2, <2>2, <3>1, <4>1, MarksShrink
        <4>3. open' /\ marks # <<>>
          BY <1>1, <1>2, <4>1 DEF BlockInv
        <4>. QED
          BY <2>1, <2>4, <4>2, <4>3 DEF BlockInv
      <3>. QED
        BY <3>1, <3>2, <3>3
    <2>. QED
      BY <2>3, <2>4
  <1>7. ASSUME NEW t \in Threads, Close(t) PROVE BlockInv'
    <2>1. /\ UNCHANGED <<stored, shown, open, marks, depth, closed>> /\ holder' = t /\ ~closed
          /\ holder \in {None, t}
      BY <1>7 DEF Close, fileVars, May
    <2>2. Len(marks) = depth[t]
      BY <1>1, <1>2, <2>1 DEF BlockInv, LockInv
    <2>. QED
      BY <1>1, <2>1, <2>2 DEF BlockInv
  <1>8. CASE CloseReplica
    BY <1>1, <1>8 DEF CloseReplica, fileVars, lockVars, BlockInv
  <1>9. CASE CloseConnection
    BY <1>1, <1>9 DEF CloseConnection, BlockInv
  <1>. QED
    BY <1>1, <1>3, <1>4, <1>5, <1>6, <1>7, <1>8, <1>9, StepCases
\* Outside of transactions there is no mark, and inside of one there is.
LEMMA InsideOnly ==
  ASSUME Typed, LockInv, BlockInv, NEW t \in Threads, May(t), ~closed, closing = 0
  PROVE  /\ Len(marks) = depth[t] /\ (depth[t] = 0 => holder = None /\ marks = <<>>)
         /\ (depth[t] # 0 => holder = t /\ marks # <<>>)
  <1>1. /\ depth \in [Threads -> Nat] /\ holds \in Nat /\ marks \in Seq(Mark) /\ Len(marks) \in Nat
        /\ None # t /\ holder \in {None, t}
    BY DatabaseConstants DEF Typed, FileTyped, LockTyped, May
  <1>2. CASE depth[t] = 0
    <2>1. holder = None
      BY <1>1, <1>2 DEF LockInv
    <2>. QED
      BY <1>2, <2>1 DEF BlockInv
  <1>3. CASE depth[t] # 0
    <2>1. holder = t
      BY <1>1, <1>3 DEF LockInv
    <2>2. Len(marks) = depth[t]
      BY <2>1 DEF BlockInv
    <2>. QED
      BY <1>1, <1>3, <2>1, <2>2
  <1>. QED
    BY <1>2, <1>3

\* A savepoint's view stays older than its block, whatever is undone inside.
LEMMA MarkStep == IInv /\ [Next]_vars => MarkInv'
  <1> SUFFICES ASSUME IInv, [Next]_vars PROVE MarkInv'
    OBVIOUS
  <1>1. Typed /\ LockInv /\ BlockInv /\ MarkInv /\ OwnInv /\ RowInv
    BY DEF IInv
  <1>2. /\ next \in Nat \ {0} /\ marks \in Seq(Mark) /\ Len(marks) \in Nat
        /\ undone \subseteq 1..next - 1 /\ shown \in [Keys -> 0..next - 1]
        /\ \A i \in 1..Len(marks) : marks[i] \in Mark
    <2>1. /\ next \in Nat \ {0} /\ marks \in Seq(Mark)
          /\ undone \subseteq 1..next - 1 /\ shown \in [Keys -> 0..next - 1]
      BY <1>1 DEF Typed, FileTyped
    <2>. QED
      BY <2>1
  <1>3. ASSUME UNCHANGED <<marks, stored, undone, next>> PROVE MarkInv'
    BY <1>1, <1>3 DEF MarkInv, SoundMark
  <1>4. ASSUME marks' = <<>> PROVE MarkInv'
    BY <1>4 DEF MarkInv
  <1>5. ASSUME NEW t \in Threads, Writing(t) PROVE MarkInv'
    <2>1. CASE Raises
      BY <1>3, <2>1 DEF Raises, writeVars
    <2>2. ASSUME NEW ks \in SUBSET Keys, NEW d \in BOOLEAN, Apply(t, ks, d) PROVE MarkInv'
      <3>1. Applied(t, ks)
        BY <1>1, <2>2, ApplyEffect, Zenon
      <3>2. marks' = <<>> \/ (UNCHANGED <<marks, stored, undone>> /\ next' = next + 1)
        BY <3>1 DEF Applied
      <3>3. CASE UNCHANGED <<marks, stored, undone>> /\ next' = next + 1
        <4>1. ASSUME NEW i \in 1..Len(marks) PROVE SoundMark(i)'
          <5>1. SoundMark(i) /\ marks[i].from \in Nat
            BY <1>1, <1>2 DEF MarkInv, Mark
          <5>. QED
            BY <1>2, <3>3, <5>1, SMTT(30) DEF SoundMark
        <4>. QED
          BY <3>3, <4>1 DEF MarkInv
      <3>. QED
        BY <1>4, <3>2, <3>3
    <2>. QED
      BY <1>5, <2>1, <2>2 DEF Writing
  <1>6. ASSUME NEW t \in Threads, Enter(t) PROVE MarkInv'
    <2>1. PICK m : m = [view |-> shown, from |-> next]
      OBVIOUS
    <2>2. /\ marks' = Append(marks, m) /\ UNCHANGED <<stored, undone, next>>
          /\ May(t) /\ ~closed /\ closing = 0 /\ (InTransaction(t) \/ MayBegin)
      BY <1>6, <2>1 DEF Enter, writeVars
    <2>3. m \in Mark
      BY <1>2, <2>1 DEF Mark
    <2>4. /\ Len(marks') = Len(marks) + 1 /\ marks'[Len(marks) + 1] = m
          /\ \A i \in 1..Len(marks) : marks'[i] = marks[i]
      BY <1>2, <2>2, <2>3, MarksGrow
    <2>5. ASSUME NEW i \in 1..Len(marks) PROVE SoundMark(i)'
      <3>1. SoundMark(i) /\ 1 \in 1..Len(marks) /\ \A j \in 1..i : j \in 1..Len(marks)
        BY <1>1, <1>2 DEF MarkInv
      <3>2. marks'[i] = marks[i] /\ marks'[1] = marks[1] /\ \A j \in 1..i : marks'[j] = marks[j]
        BY <2>4, <3>1
      <3>. QED
        BY <2>2, <3>1, <3>2 DEF SoundMark
    <2>6. PICK last : last = Len(marks) + 1
      OBVIOUS
    <2>7. SoundMark(last)'
      <3>1. \A j \in 1..Len(marks) + 1 : marks'[j].from <= next
        <4>1. ASSUME NEW j \in 1..Len(marks) PROVE marks'[j].from <= next
          BY <1>1, <2>4 DEF MarkInv, SoundMark
        <4>. QED
          BY <1>2, <2>1, <2>4, <4>1
      <3>2. ASSUME NEW k \in Keys
            PROVE  shown[k] < next /\ shown[k] \notin undone
                   /\ (shown[k] = stored[k] \/ shown[k] >= marks'[1].from)
        <4>1. shown[k] < next /\ shown[k] \notin undone
          BY <1>1, <1>2 DEF RowInv
        <4>2. CASE InTransaction(t)
          <5>1. marks # <<>> /\ Len(marks) > 0
            BY <1>1, <1>2, <2>2, <4>2, InsideOnly DEF InTransaction
          <5>. QED
            BY <1>1, <1>2, <2>4, <4>1, <5>1 DEF OwnInv
        <4>3. CASE MayBegin
          BY <1>1, <4>1, <4>3 DEF MayBegin, BlockInv
        <4>. QED
          BY <2>2, <4>2, <4>3, <4>1
      <3>3. /\ marks'[last].view = shown /\ marks'[last].from = next /\ stored' = stored
            /\ undone' = undone /\ next' = next
        BY <2>1, <2>2, <2>4, <2>6
      <3>4. next <= next
        BY <1>2
      <3>. QED
        BY <2>6, <3>1, <3>2, <3>3, <3>4 DEF SoundMark
    <2>. QED
      <3>1. \A i \in 1..Len(marks') : i \in 1..Len(marks) \/ i = last
        BY <1>2, <2>4, <2>6
      <3>. QED
        BY <2>5, <2>7, <3>1 DEF MarkInv
  <1>7. ASSUME NEW t \in Threads, Exit(t) PROVE MarkInv'
    <2>1. Exited(t)
      BY <1>1, <1>7, ExitEffect
    <2>2. CASE closed /\ UNCHANGED <<fileVars, writeVars>>
      BY <1>3, <2>2 DEF fileVars, writeVars
    <2>3. CASE Committed \/ RolledBack
      BY <1>4, <2>3 DEF Committed, RolledBack
    <2>4. CASE Released \/ Undone
      <3>1. /\ Len(marks) > 1 /\ marks' = Front(marks) /\ UNCHANGED <<stored, next>>
            /\ undone' \in {undone, undone \cup marks[Len(marks)].from .. next - 1}
        BY <2>4 DEF Released, Undone
      <3>2. Len(marks') = Len(marks) - 1 /\ \A i \in 1..Len(marks) - 1 : marks'[i] = marks[i]
        BY <1>2, <3>1, MarksShrink
      <3>3. ASSUME NEW i \in 1..Len(marks) - 1 PROVE SoundMark(i)'
        <4>1. /\ SoundMark(i) /\ SoundMark(Len(marks)) /\ i \in 1..Len(marks)
              /\ marks[i] \in Mark /\ marks[Len(marks)] \in Mark
              /\ 1 \in 1..Len(marks) - 1 /\ \A j \in 1..i : j \in 1..Len(marks) - 1
          BY <1>1, <1>2, <3>1 DEF MarkInv
        <4>2. marks'[i] = marks[i] /\ marks'[1] = marks[1] /\ \A j \in 1..i : marks'[j] = marks[j]
          BY <3>2, <4>1
        <4>3. marks[i].from <= marks[Len(marks)].from
          BY <1>2, <4>1 DEF SoundMark
        <4>4. ASSUME NEW k \in Keys PROVE marks[i].view[k] \notin undone'
          BY <1>2, <3>1, <4>1, <4>3, SMTT(30) DEF SoundMark, Mark
        <4>. QED
          BY <3>1, <4>1, <4>2, <4>4 DEF SoundMark
      <3>. QED
        BY <3>2, <3>3 DEF MarkInv
    <2>. QED
      BY <2>1, <2>2, <2>3, <2>4 DEF Exited
  <1>8. ASSUME NEW t \in Threads, Close(t) PROVE MarkInv'
    BY <1>3, <1>8 DEF Close, fileVars, writeVars
  <1>9. CASE Quiet \/ CloseReplica
    BY <1>3, <1>9 DEF Quiet, CloseReplica, fileVars, writeVars
  <1>10. CASE CloseConnection
    BY <1>4, <1>10 DEF CloseConnection
  <1>. QED
    BY <1>1, <1>5, <1>6, <1>7, <1>8, <1>9, <1>10, StepCases

\* Only the holder of the lock writes inside its transaction.
LEMMA OwnStep == IInv /\ [Next]_vars => OwnInv'
  <1> SUFFICES ASSUME IInv, [Next]_vars PROVE OwnInv'
    OBVIOUS
  <1>1. Typed /\ LockInv /\ BlockInv /\ MarkInv /\ OwnInv /\ RowInv
    BY DEF IInv
  <1>2. /\ next \in Nat \ {0} /\ marks \in Seq(Mark) /\ Len(marks) \in Nat
        /\ stored \in [Keys -> 0..next - 1] /\ shown \in [Keys -> 0..next - 1]
        /\ author \in Seq(Threads) /\ Len(author) = next - 1
        /\ (marks # <<>> => Len(marks) > 0 /\ 1 \in 1..Len(marks) /\ marks[1] \in Mark)
    <2>1. /\ next \in Nat \ {0} /\ marks \in Seq(Mark)
          /\ stored \in [Keys -> 0..next - 1] /\ shown \in [Keys -> 0..next - 1]
          /\ author \in Seq(Threads) /\ Len(author) = next - 1
      BY <1>1 DEF Typed, FileTyped
    <2>2. marks # <<>> => Len(marks) > 0 /\ 1 \in 1..Len(marks) /\ marks[1] \in Mark
      BY <2>1
    <2>. QED
      BY <2>1, <2>2
  <1>3. ASSUME UNCHANGED <<marks, stored, shown, author, next>>, marks # <<>> => holder' = holder
        PROVE  OwnInv'
    BY <1>1, <1>3 DEF OwnInv
  <1>4. ASSUME marks' = <<>> PROVE OwnInv'
    BY <1>4 DEF OwnInv
  <1>5. ASSUME NEW t \in Threads, Writing(t) PROVE OwnInv'
    <2>1. May(t) /\ ~closed /\ closing = 0 /\ holder' = holder
      BY <1>5 DEF Writing, lockVars
    <2>2. CASE Raises
      BY <1>3, <2>1, <2>2 DEF Raises, writeVars
    <2>3. ASSUME NEW ks \in SUBSET Keys, NEW d \in BOOLEAN, Apply(t, ks, d) PROVE OwnInv'
      <3>1. Applied(t, ks)
        BY <1>1, <2>3, ApplyEffect, Zenon
      <3>2. CASE depth[t] = 0
        BY <1>1, <1>4, <2>1, <3>1, <3>2, InsideOnly DEF Applied
      <3>3. CASE depth[t] # 0
        <4>1. marks # <<>> /\ holder = t /\ marks' = marks /\ stored' = stored
          BY <1>1, <2>1, <3>1, <3>3, InsideOnly DEF Applied
        <4>2. /\ marks[1].from \in Nat /\ marks[1].from <= next
          BY <1>1, <1>2, <4>1 DEF MarkInv, SoundMark, Mark
        <4>3. ASSUME NEW k \in Keys PROVE shown'[k] = stored[k] \/ shown'[k] >= marks[1].from
          BY <1>1, <1>2, <3>1, <4>1, <4>2 DEF Applied, OwnInv
        <4>4. ASSUME NEW n \in marks[1].from .. next' - 1 PROVE author'[n] = t
          <5>1. author' = Append(author, t) /\ next' = next + 1
            BY <3>1 DEF Applied
          <5>2. CASE n = next
            BY <1>2, <5>1, <5>2
          <5>3. CASE n # next
            <6>1. n \in marks[1].from .. next - 1 /\ (n \in 1..Len(author) \/ n = 0)
              BY <1>2, <4>2, <5>1, <5>3
            <6>2. n # 0
              BY <1>2, <4>1 DEF Mark
            <6>3. author[n] = t
              BY <1>1, <4>1, <6>1 DEF OwnInv
            <6>. QED
              BY <1>2, <5>1, <6>1, <6>2, <6>3
          <5>. QED
            BY <5>2, <5>3
        <4>. QED
          BY <1>1, <2>1, <4>1, <4>3, <4>4 DEF OwnInv
      <3>. QED
        BY <3>2, <3>3
    <2>. QED
      BY <1>5, <2>2, <2>3 DEF Writing
  <1>6. ASSUME NEW t \in Threads, Enter(t) PROVE OwnInv'
    <2>1. PICK m : m = [view |-> shown, from |-> next]
      OBVIOUS
    <2>2. /\ marks' = Append(marks, m) /\ UNCHANGED <<stored, shown, author, next>> /\ holder' = t
          /\ May(t) /\ ~closed /\ closing = 0 /\ (InTransaction(t) \/ MayBegin)
      BY <1>6, <2>1 DEF Enter, writeVars
    <2>3. m \in Mark
      BY <1>2, <2>1 DEF Mark
    <2>4. /\ marks'[Len(marks) + 1] = m /\ \A i \in 1..Len(marks) : marks'[i] = marks[i]
      BY <1>2, <2>2, <2>3, MarksGrow
    <2>5. CASE depth[t] # 0
      <3>1. marks # <<>> /\ holder = t
        BY <1>1, <2>2, <2>5, InsideOnly
      <3>2. marks'[1] = marks[1]
        BY <1>2, <2>4, <3>1
      <3>. QED
        BY <1>1, <2>2, <3>1, <3>2 DEF OwnInv
    <2>6. CASE depth[t] = 0
      <3>1. marks = <<>> /\ ~open
        BY <1>1, <2>2, <2>6, InsideOnly DEF InTransaction, MayBegin
      <3>2. marks'[1] = m /\ shown = stored
        BY <1>1, <2>4, <3>1 DEF BlockInv
      <3>3. \A n \in next .. next - 1 : author'[n] = holder'
        BY <1>2
      <3>. QED
        BY <1>2, <2>1, <2>2, <3>2, <3>3 DEF OwnInv
    <2>. QED
      BY <2>5, <2>6
  <1>7. ASSUME NEW t \in Threads, Exit(t) PROVE OwnInv'
    <2>1. Exited(t) /\ holder = t
      BY <1>1, <1>7, ExitEffect DEF Exited
    <2>2. CASE closed
      <3>1. marks' = <<>>
        BY <1>1, <2>1, <2>2 DEF Exited, fileVars, BlockInv
      <3>. QED
        BY <1>4, <3>1
    <2>3. CASE Committed \/ RolledBack
      BY <1>4, <2>3 DEF Committed, RolledBack
    <2>4. CASE ~closed /\ (Released \/ Undone)
      <3>1. Len(marks) > 1 /\ marks' = Front(marks) /\ UNCHANGED <<stored, next, author>>
        BY <2>4 DEF Released, Undone
      <3>2. marks'[1] = marks[1] /\ marks # <<>>
        BY <1>2, <3>1, MarksShrink
      <3>3. holder' = t
        <4>1. holds = depth[t] /\ Len(marks) = depth[t] /\ holds \in Nat
          BY <1>1, <2>1, <2>4 DEF Exited, LockInv, Typed, FileTyped
        <4>. QED
          BY <2>1, <3>1, <4>1, LockFreedOnce DEF Exited
      <3>4. ASSUME NEW k \in Keys PROVE shown'[k] = stored[k] \/ shown'[k] >= marks[1].from
        <4>1. CASE Released
          BY <1>1, <3>2, <4>1 DEF Released, OwnInv
        <4>2. CASE Undone
          <5>1. SoundMark(Len(marks)) /\ shown' = marks[Len(marks)].view
            BY <1>1, <1>2, <3>1, <4>2 DEF MarkInv, Undone
          <5>. QED
            BY <5>1 DEF SoundMark
        <4>. QED
          BY <2>4, <4>1, <4>2
      <3>. QED
        BY <1>1, <2>1, <3>1, <3>2, <3>3, <3>4 DEF OwnInv
    <2>. QED
      BY <2>1, <2>2, <2>3, <2>4 DEF Exited
  <1>8. ASSUME NEW t \in Threads, Close(t) PROVE OwnInv'
    <2>1. /\ UNCHANGED <<marks, stored, shown, author, next>> /\ holder' = t /\ ~closed
          /\ May(t) /\ closing = 0
      BY <1>8 DEF Close, fileVars, writeVars
    <2>2. marks # <<>> => holder = t
      BY <1>1, <2>1, InsideOnly
    <2>. QED
      BY <1>3, <2>1, <2>2
  <1>9. CASE Quiet \/ CloseReplica
    BY <1>3, <1>9 DEF Quiet, CloseReplica, fileVars, writeVars, lockVars
  <1>10. CASE CloseConnection
    BY <1>4, <1>10 DEF CloseConnection
  <1>. QED
    BY <1>1, <1>5, <1>6, <1>7, <1>8, <1>9, <1>10, StepCases

\* A commit stores what callers were told, or what they were told was refused.
LEMMA RowStep == IInv /\ [Next]_vars => RowInv'
  <1> SUFFICES ASSUME IInv, [Next]_vars PROVE RowInv'
    OBVIOUS
  <1>1. Typed /\ LockInv /\ BlockInv /\ MarkInv /\ OwnInv /\ RowInv
    BY DEF IInv
  <1>2. /\ next \in Nat \ {0} /\ marks \in Seq(Mark) /\ Len(marks) \in Nat
        /\ stored \in [Keys -> 0..next - 1] /\ shown \in [Keys -> 0..next - 1]
        /\ undone \subseteq 1..next - 1
        /\ \A i \in 1..Len(marks) : marks[i] \in Mark /\ SoundMark(i)
    BY <1>1 DEF Typed, FileTyped, MarkInv
  <1>3. ASSUME UNCHANGED <<marks, stored, shown, undone, refused, told>> PROVE RowInv'
    BY <1>1, <1>3 DEF RowInv
  <1>4. ASSUME NEW t \in Threads, Writing(t) PROVE RowInv'
    <2>1. May(t) /\ ~closed /\ closing = 0
      BY <1>4 DEF Writing
    <2>2. CASE Raises
      BY <1>3, <2>2 DEF Raises, writeVars
    <2>3. ASSUME NEW ks \in SUBSET Keys, NEW d \in BOOLEAN, Apply(t, ks, d) PROVE RowInv'
      <3>1. Applied(t, ks)
        BY <1>1, <2>3, ApplyEffect, Zenon
      <3>2. /\ shown' = [k \in Keys |-> IF k \in ks THEN next ELSE shown[k]] /\ undone' = undone
            /\ next \notin undone
        BY <1>2, <3>1 DEF Applied
      <3>3. \A k \in Keys : shown'[k] \notin undone /\ stored[k] \notin undone
        BY <1>1, <3>2 DEF RowInv
      <3>4. \A k, j \in Keys : stored[j] < next /\ shown[k] \in Nat /\ stored[j] \in Nat
        BY <1>2
      <3>5. CASE depth[t] = 0 /\ stored' = shown' /\ marks' = <<>>
        <4>1. marks = <<>>
          BY <1>1, <2>1, <3>5, InsideOnly
        <4>2. CASE /\ told' = [k \in Keys |-> IF k \in ks THEN next ELSE told[k]]
                   /\ refused' = refused
          <5>1. ASSUME NEW k \in Keys PROVE stored'[k] = told'[k] \/ stored'[k] \in refused'
            BY <1>1, <3>2, <3>5, <4>1, <4>2 DEF RowInv
          <5>. QED
            BY <3>2, <3>3, <3>5, <5>1 DEF RowInv
        <4>3. CASE UNCHANGED <<stored, told>> /\ refused' = refused \cup {next}
          BY <1>1, <3>2, <3>3, <3>5, <4>1, <4>3 DEF RowInv
        <4>. QED
          BY <3>1, <3>5, <4>2, <4>3 DEF Applied
      <3>6. CASE depth[t] = 0 /\ refused' = refused \cup {next} /\ UNCHANGED <<stored, marks, told>>
        <4>1. marks = <<>>
          BY <1>1, <2>1, <3>6, InsideOnly
        <4>2. ASSUME NEW k \in Keys PROVE shown'[k] = stored'[k] \/ shown'[k] \in refused'
          BY <1>1, <3>2, <3>6, <4>1 DEF RowInv
        <4>3. ASSUME NEW k \in Keys, NEW j \in Keys
              PROVE  shown'[k] = stored'[k] \/ stored'[j] < shown'[k]
          BY <1>1, <3>2, <3>4, <3>6 DEF RowInv
        <4>4. ASSUME NEW k \in Keys PROVE stored'[k] = told'[k] \/ stored'[k] \in refused'
          BY <1>1, <3>6 DEF RowInv
        <4>. QED
          BY <3>2, <3>3, <3>6, <4>2, <4>3, <4>4 DEF RowInv
      <3>7. CASE depth[t] > 0 /\ UNCHANGED <<stored, marks, refused>> /\ told' = [k \in Keys |-> told[k]]
        <4>1. marks # <<>>
          BY <1>1, <2>1, <3>7, InsideOnly
        <4>2. ASSUME NEW k \in Keys, NEW j \in Keys
              PROVE  shown'[k] = stored'[k] \/ stored'[j] < shown'[k]
          BY <1>1, <3>2, <3>4, <3>7 DEF RowInv
        <4>3. ASSUME NEW k \in Keys PROVE stored'[k] = told'[k] \/ stored'[k] \in refused'
          BY <1>1, <3>7 DEF RowInv
        <4>. QED
          BY <3>2, <3>3, <3>7, <4>1, <4>2, <4>3 DEF RowInv
      <3>. QED
        BY <3>1, <3>5, <3>6, <3>7 DEF Applied
    <2>. QED
      BY <1>4, <2>2, <2>3 DEF Writing
  <1>5. ASSUME NEW t \in Threads, Enter(t) PROVE RowInv'
    <2>1. UNCHANGED <<stored, shown, undone, refused, told>>
      BY <1>5 DEF Enter, writeVars
    <2>2. PICK m : m = [view |-> shown, from |-> next]
      OBVIOUS
    <2>3. marks' = Append(marks, m) /\ m \in Mark
      BY <1>2, <1>5, <2>2 DEF Enter, Mark
    <2>4. marks' # <<>>
      BY <1>2, <2>3, MarksGrow
    <2>. QED
      BY <1>1, <2>1, <2>4 DEF RowInv
  <1>6. ASSUME NEW t \in Threads, Exit(t) PROVE RowInv'
    <2>1. Exited(t)
      BY <1>1, <1>6, ExitEffect
    <2>2. CASE closed /\ UNCHANGED <<fileVars, writeVars>>
      BY <1>3, <2>2 DEF fileVars, writeVars
    <2>3. CASE Committed
      <3>1. ASSUME NEW k \in Keys PROVE stored'[k] = told'[k] \/ stored'[k] \in refused'
        BY <1>1, <2>3 DEF Committed, RowInv
      <3>. QED
        BY <1>1, <2>3, <3>1 DEF Committed, RowInv
    <2>4. CASE RolledBack
      <3>1. /\ shown' = stored /\ stored' = stored /\ marks' = <<>> /\ UNCHANGED <<told, refused>>
            /\ undone' = undone \cup marks[1].from .. next - 1
            /\ marks[1] \in Mark /\ marks # <<>>
        BY <1>2, <2>4 DEF RolledBack
      <3>2. ASSUME NEW k \in Keys PROVE stored[k] \notin undone'
        <4>1. stored[k] \notin undone /\ stored[k] < marks[1].from
          BY <1>1, <3>1 DEF RowInv, OwnInv
        <4>2. stored[k] \in Nat /\ marks[1].from \in Nat
          BY <1>2, <3>1 DEF Mark
        <4>. QED
          BY <1>2, <3>1, <4>1, <4>2
      <3>. QED
        BY <1>1, <3>1, <3>2 DEF RowInv
    <2>5. CASE Released
      <3>1. Len(marks') > 0 /\ marks' \in Seq(Mark)
        BY <1>2, <2>5, MarksShrink DEF Released
      <3>2. marks' # <<>>
        BY <3>1
      <3>. QED
        BY <1>1, <2>5, <3>2 DEF Released, RowInv
    <2>6. CASE Undone
      <3>1. PICK m : m = marks[Len(marks)]
        OBVIOUS
      <3>2. /\ shown' = m.view /\ UNCHANGED <<stored, told, refused>>
            /\ undone' = undone \cup m.from .. next - 1 /\ marks # <<>>
            /\ m \in Mark /\ SoundMark(Len(marks)) /\ marks[1] \in Mark
        BY <1>2, <2>6, <3>1 DEF Undone
      <3>3. Len(marks') > 0 /\ marks' \in Seq(Mark)
        BY <1>2, <2>6, MarksShrink DEF Undone
      <3>4. marks' # <<>>
        BY <3>3
      <3>5. marks[1].from <= m.from /\ marks[1].from \in Nat /\ m.from \in Nat
        <4>1. 1 \in 1..Len(marks)
          BY <1>2, <2>6 DEF Undone
        <4>. QED
          BY <3>1, <3>2, <4>1 DEF SoundMark, Mark
      <3>6. ASSUME NEW k \in Keys
            PROVE  /\ m.view[k] < m.from /\ m.view[k] \notin undone /\ m.view[k] \in Nat
                   /\ m.view[k] = stored[k] \/ m.view[k] >= marks[1].from
                   /\ stored[k] \notin undone /\ stored[k] < marks[1].from /\ stored[k] \in Nat
        BY <1>1, <1>2, <3>1, <3>2 DEF SoundMark, Mark, RowInv, OwnInv
      <3>7. ASSUME NEW k \in Keys PROVE stored'[k] \notin undone' /\ shown'[k] \notin undone'
        BY <1>2, <3>2, <3>5, <3>6
      <3>8. ASSUME NEW k \in Keys, NEW j \in Keys
            PROVE  shown'[k] = stored'[k] \/ stored'[j] < shown'[k]
        BY <3>2, <3>5, <3>6
      <3>. QED
        BY <1>1, <3>2, <3>4, <3>7, <3>8 DEF RowInv
    <2>. QED
      BY <2>1, <2>2, <2>3, <2>4, <2>5, <2>6 DEF Exited
  <1>7. ASSUME NEW t \in Threads, Close(t) PROVE RowInv'
    BY <1>3, <1>7 DEF Close, fileVars, writeVars
  <1>8. CASE Quiet \/ CloseReplica
    BY <1>3, <1>8 DEF Quiet, CloseReplica, fileVars, writeVars
  <1>9. CASE CloseConnection
    <2>1. /\ shown' = stored /\ UNCHANGED <<stored, refused, told>> /\ marks' = <<>>
          /\ undone' = undone \cup {n \in 1..next - 1 : \E k \in Keys : shown[k] = n /\ stored[k] # n}
      BY <1>9 DEF CloseConnection
    <2>2. ASSUME NEW k \in Keys, NEW j \in Keys, shown[k] # stored[k] PROVE stored[j] # shown[k]
      <3>1. stored[j] < shown[k] /\ stored[j] \in Nat /\ shown[k] \in Nat
        BY <1>1, <1>2, <2>2 DEF RowInv
      <3>. QED
        BY <3>1
    <2>3. ASSUME NEW k \in Keys PROVE stored[k] \notin undone'
      BY <1>1, <2>1, <2>2 DEF RowInv
    <2>. QED
      BY <1>1, <2>1, <2>3 DEF RowInv
  <1>. QED
    BY <1>1, <1>4, <1>5, <1>6, <1>7, <1>8, <1>9, StepCases

-----------------------------------------------------------------------------
\* The inductive invariant holds in every reachable state.
LEMMA DatabaseInvariant == Spec => []IInv
  <1>1. IInv /\ [Next]_vars => IInv'
    BY TypeStep, LockStep, BlockStep, MarkStep, OwnStep, RowStep DEF IInv
  <1>. QED
    BY InitInv, <1>1, PTL DEF Spec

\* A write whose block was rolled back is nowhere to be seen, and a transaction
\* commits its own thread's changes alone (Transaction, execute, close).
THEOREM TransactionsAreAtomic == Spec => []TransactionsHold
  <1>1. IInv => TransactionsHold
    <2> SUFFICES ASSUME IInv PROVE TransactionsHold
      OBVIOUS
    <2>1. Typed /\ LockInv /\ BlockInv /\ OwnInv /\ RowInv
      BY DEF IInv
    <2>2. TypeOK
      <3>1. /\ (holder = None) <=> (holds = 0)
            /\ \A t \in Threads : depth[t] <= holds /\ (InTransaction(t) => holder = t)
        <4>1. depth \in [Threads -> Nat] /\ holds \in Nat
          BY <2>1 DEF Typed, LockTyped
        <4>2. ASSUME NEW t \in Threads PROVE depth[t] <= holds /\ (InTransaction(t) => holder = t)
          BY <2>1, <4>1 DEF LockInv, InTransaction
        <4>3. (holder = None) <=> (holds = 0)
          BY <2>1, <4>1 DEF LockInv
        <4>. QED
          BY <4>2, <4>3
      <3>. QED
        BY <2>1, <3>1 DEF Typed, FileTyped, LockTyped, SavingTyped, ReplicasTyped, TypeOK
    <2>3. AllOrNothing
      BY <2>1 DEF RowInv, AllOrNothing
    <2>4. ASSUME NEW t \in Threads, InTransaction(t), NEW k \in Keys, shown[k] # stored[k]
          PROVE  author[shown[k]] = t
      <3>1. holder = t /\ ~closed
        BY <2>1, <2>4 DEF LockInv, BlockInv, InTransaction, Typed, FileTyped
      <3>2. marks # <<>>
        BY <2>1, <2>4, <3>1 DEF BlockInv, InTransaction, Typed, FileTyped
      <3>3. next \in Nat /\ marks \in Seq(Mark) /\ shown[k] \in 0..next - 1
        BY <2>1 DEF Typed, FileTyped
      <3>4. marks[1].from \in Nat /\ marks[1].from <= shown[k]
        <4>1. marks[1] \in Mark
          BY <3>2, <3>3
        <4>. QED
          BY <2>1, <2>4, <3>2, <3>3, <4>1 DEF OwnInv, Mark
      <3>5. shown[k] \in marks[1].from .. next - 1
        BY <3>3, <3>4
      <3>. QED
        BY <2>1, <3>1, <3>2, <3>5 DEF OwnInv
    <2>. QED
      BY <2>2, <2>3, <2>4 DEF TransactionsHold, OneWriter
  <1>. QED
    BY <1>1, DatabaseInvariant, PTL

\* What a caller was told is stored is stored (commit, execute, executemany).
THEOREM StoredIsTold == Spec => []StoredAsTold
  <1>1. IInv => StoredAsTold
    BY DEF IInv, RowInv, StoredAsTold
  <1>. QED
    BY <1>1, DatabaseInvariant, PTL
=============================================================================

---------------------------- MODULE CacheContract ----------------------------
(***************************************************************************)
(* What the key-value cache of src/wsbuilder/cache.py promises its callers,*)
(* without time, limits or counters: a map that may forget any entry at    *)
(* any moment, and whose answers come from what it still holds.            *)
(***************************************************************************)
EXTENDS Functions

CONSTANTS Ids,     \* <<namespace, key>> pairs
          Values   \* what may be stored under them

VARIABLES content, \* Ids -> Values, partial: what has not been forgotten
          told     \* <<>>, <<id>> or <<id, value>>: what the last call told of id

vars == <<content, told>>

Init == content = [id \in {} |-> CHOOSE v \in Values : TRUE] /\ told = <<>>

\* Whatever a call does, it may leave any part of `held' behind.
Keeps(held) == /\ DOMAIN content' \subseteq DOMAIN held
               /\ content' = Restrict(held, DOMAIN content')

\* A value is written; the limits may push out others, or this one.
Put(id, v) == /\ told' = <<id, v>>
              /\ Keeps([i \in DOMAIN content \cup {id} |-> IF i = id THEN v ELSE content[i]])

\* An answer is an entry that was there; the call may also remove it.
Answer(id) == /\ id \in DOMAIN content
              /\ told' = <<id, content[id]>>
              /\ Keeps(content)

\* A caller that is told there is nothing, or that it is gone, can rely on it.
Absent(id) == /\ told' = <<id>>
              /\ id \notin DOMAIN content'
              /\ Keeps(content)

Forget == told' = <<>> /\ Keeps(content)

Next == \/ Forget
        \/ \E id \in Ids : Absent(id) \/ Answer(id) \/ \E v \in Values : Put(id, v)

Spec == Init /\ [][Next]_vars
=============================================================================

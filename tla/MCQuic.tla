------------------------------- MODULE MCQuic -------------------------------
(***************************************************************************)
(* QuicSender and QuicPath for TLC.  What one does the other does not see: *)
(* a behaviour runs the one or the other, and the states of the run are    *)
(* those of the one and those of the other.                                *)
(***************************************************************************)
EXTENDS QuicSender, QuicPath, TLC
CONSTANTS c, r1, a1, a2, a3
OneRequest == {c, r1}
\* The addresses the client may move to are interchangeable.
Elsewhere == Permutations({a2, a3})

VARIABLE half   \* the part of the connection this behaviour runs

halfVars == <<half, senderVars, pathState>>

HalfInit ==
  /\ half \in {"sender", "path"}
  /\ SenderInit /\ PathInit
  /\ here = a1
  /\ half = "sender" => ~asksProof /\ peerMaxData = 1 /\ budget = 0
  /\ half = "path" => peerMaxData = 1 /\ budget = 0

HalfNext ==
  \/ half = "sender" /\ SenderNext /\ UNCHANGED <<half, pathState>>
  \/ half = "path" /\ PathNext /\ UNCHANGED <<half, senderVars>>

HalfSpec == HalfInit /\ [][HalfNext]_halfVars
=============================================================================

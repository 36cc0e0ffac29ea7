----------------------------- MODULE EdgeProofs ------------------------------
(***************************************************************************)
(* Theorems about four components at the edge of the network, for every    *)
(* value of their constants.                                               *)
(*                                                                         *)
(* QuicPath: any addresses, any number of datagrams and connections, and   *)
(* any loss, repetition and reordering on the way.                         *)
(*                                                                         *)
(* ProxyI: any number of requests, rules and targets, any weights, and any *)
(* changes of the configuration while requests run.                        *)
(*                                                                         *)
(* Http3Server: any connections and streams, requests of any frames in any *)
(* pieces, and any order of the threads.  That nothing which arrived is    *)
(* lost needs a client that repeats a piece as it was cut (~Recut).        *)
(*                                                                         *)
(* QuicSender: any streams, sizes, windows and limits, any order of the    *)
(* producers and the thread that drains the queue, any acknowledgements,   *)
(* losses and timeouts.                                                    *)
(***************************************************************************)
EXTENDS QuicPath, ProxyI, Http3Server, QuicSender, FiniteSetTheorems, WellFoundedInduction, TLAPS

-----------------------------------------------------------------------------
(* QuicPath.                                                               *)

Links == [id : Nat, key : Addresses \cup {NoAddress}, asked : BOOLEAN, address : Addresses,
          probe : Addresses \cup {NoAddress}, pending : SUBSET Challenges,
          valid : SUBSET Addresses, unacked : SUBSET Challenges]

\* What the datagrams on the way can say: a token is the one the client was
\* given, an echo one it has heard, a challenge one that was made.
Honest ==
  /\ \A m \in upward :
       /\ m.from \in Addresses
       /\ m.kind = "initial" => m.token \in {NoAddress, proof} /\ m = Initial(m.from, m.token, m.led) /\ m.led \in BOOLEAN
       /\ m.kind = "short" => m.echo \in heard \cup {Unset}
  /\ \A m \in downward :
       /\ m.kind = "retry" => m.to \in Addresses
       /\ m.kind = "challenge" => m.data \in DOMAIN issued

PathTypeOK ==
  /\ asksProof \in BOOLEAN
  /\ here \in Addresses /\ proof \in Addresses \cup {NoAddress}
  /\ opened \in Nat
  /\ issued \in [DOMAIN issued -> Addresses] /\ DOMAIN issued \subseteq Challenges
  /\ heard \subseteq DOMAIN issued
  /\ link \in Links \cup {Closed}
  /\ link # Closed => link.pending \cup link.unacked \subseteq DOMAIN issued

PathInv == PathTypeOK /\ Honest /\ AddressProved

-----------------------------------------------------------------------------
\* Every nonempty set of challenges has a least one, so a fresh one is new.
LEMMA FreshIsNew ==
  ASSUME PathTypeOK, Challenges # DOMAIN issued
  PROVE  FreshChallenge \in Challenges \ DOMAIN issued
  <1> DEFINE T == Challenges \ DOMAIN issued
             R == {ss \in Nat \X Nat : ss[1] < ss[2]}
  <1>1. T \subseteq Nat /\ T # {}
    BY PathConstants DEF PathTypeOK
  <1>2. IsWellFoundedOn(R, Nat)
    BY NatLessThanWellFounded DEF OpToRel
  <1>3. PICK x \in T : \A y \in T : <<y, x>> \notin R
    <2> HIDE DEF T, R
    <2>. QED
      BY <1>1, <1>2, WFMin
  <1>4. ASSUME NEW y \in T PROVE x <= y
    <2>1. x \in Nat /\ y \in Nat /\ <<y, x>> \in Nat \X Nat
      BY <1>1
    <2>. QED
      BY <1>3, <2>1
  <1>. QED
    BY <1>4 DEF FreshChallenge

\* A connection that is not closed has an address, a probe and its challenges.
LEMMA LinkIsOpen ==
  ASSUME PathTypeOK
  PROVE  (link # Closed <=> link \in Links)
  BY PathConstants DEF PathTypeOK, Closed, Links

\* What proves an address goes on proving it.
LEMMA ReceivedKept ==
  ASSUME PathTypeOK, heard \subseteq heard', proof' = proof \/ proof = NoAddress,
         \A d \in DOMAIN issued : d \in DOMAIN issued' /\ issued'[d] = issued[d],
         NEW a \in Addresses, Received(a)
  PROVE  Received(a)'
  BY PathConstants DEF PathTypeOK, Received

\* Where the connection's record is kept, so is what it relies on.
LEMMA ProvedKept ==
  ASSUME PathTypeOK, AddressProved, UNCHANGED link, upward \subseteq upward',
         heard \subseteq heard', proof' = proof \/ proof = NoAddress,
         \A d \in DOMAIN issued : d \in DOMAIN issued' /\ issued'[d] = issued[d]
  PROVE  AddressProved'
  <1> SUFFICES ASSUME link # Closed
               PROVE  AddressProved'
    BY DEF AddressProved
  <1>1. link \in Links /\ link.pending \subseteq DOMAIN issued
    BY LinkIsOpen DEF PathTypeOK
  <1>2. link.valid \cup {link.address} \subseteq Addresses
    BY <1>1 DEF Links
  <1>3. \A a \in link.valid \cup {link.address} :
           Received(a)' \/ (~link.asked /\ FirstFlight(a, link.key)')
    BY <1>2, ReceivedKept DEF AddressProved, FirstFlight
  <1>4. link.probe # NoAddress => \E d \in link.pending : issued'[d] = link.probe
    BY <1>1 DEF AddressProved
  <1>. QED
    BY <1>3, <1>4 DEF AddressProved

-----------------------------------------------------------------------------
\* Before the first datagram no address is proved.
LEMMA PathInvInit == PathInit => PathInv
  <1> SUFFICES ASSUME PathInit PROVE PathInv
    OBVIOUS
  <1>1. issued \in [DOMAIN issued -> Addresses] /\ DOMAIN issued = {}
    BY DEF PathInit
  <1>2. PathTypeOK
    BY <1>1 DEF PathInit, PathTypeOK
  <1>. QED
    BY <1>2 DEF PathInit, PathInv, Honest, AddressProved

\* The client's steps and time's: no address of the connection changes.
LEMMA ClientStep ==
  ASSUME PathInv,
         \/ Wander \/ SendInitial \/ SendShort \/ TakeRetry \/ TakeChallenge
         \/ \E a \in Addresses : Ages(a)
         \/ Repeat
  PROVE  PathInv'
  <1> USE DEF PathInv
  <1>1. CASE Wander \/ (\E a \in Addresses : Ages(a))
    <2>1. PathTypeOK' /\ Honest'
      BY <1>1 DEF Wander, Ages, PathTypeOK, Honest
    <2>. QED
      BY <1>1, <2>1, ProvedKept DEF Wander, Ages
  <1>2. CASE SendInitial
    <2>1. Honest'
      <3>1. PICK led \in BOOLEAN : Emit(Initial(here, proof, led))
        BY <1>2 DEF SendInitial, PathTypeOK
      <3>. QED
        BY <3>1 DEF Emit, Initial, Honest, PathTypeOK
    <2>2. PathTypeOK'
      BY <1>2 DEF SendInitial, Emit, PathTypeOK
    <2>. QED
      BY <1>2, <2>1, <2>2, ProvedKept DEF SendInitial, Emit
  <1>3. CASE SendShort
    <2>1. PICK m \in downward, echo \in heard \cup {Unset} : Emit(Short(m.id, here, echo, heard))
      BY <1>3 DEF SendShort
    <2>2. Honest'
      BY <2>1 DEF Emit, Short, Honest, PathTypeOK
    <2>3. PathTypeOK'
      BY <2>1 DEF Emit, PathTypeOK
    <2>. QED
      BY <2>1, <2>2, <2>3, ProvedKept DEF Emit
  <1>4. CASE TakeRetry
    <2>1. proof = NoAddress /\ proof' \in Addresses
      BY <1>4 DEF TakeRetry, Honest
    <2>2. Honest' /\ PathTypeOK'
      BY <1>4, <2>1 DEF TakeRetry, Honest, PathTypeOK
    <2>. QED
      BY <1>4, <2>1, <2>2, ProvedKept DEF TakeRetry
  <1>5. CASE TakeChallenge
    <2>1. PICK m \in downward : m.kind = "challenge" /\ heard' = heard \cup {m.data}
      BY <1>5 DEF TakeChallenge
    <2>2. m.data \in DOMAIN issued
      BY <2>1 DEF Honest
    <2>3. Honest' /\ PathTypeOK'
      BY <1>5, <2>1, <2>2 DEF TakeChallenge, Honest, PathTypeOK
    <2>. QED
      BY <1>5, <2>1, <2>3, ProvedKept DEF TakeChallenge
  <1>6. CASE Repeat
    <2>1. PICK d \in link.unacked : downward' = downward \cup {ChallengeTo(link.address, d)}
      BY <1>6 DEF Repeat
    <2>2. d \in DOMAIN issued
      BY <1>6 DEF Repeat, PathTypeOK
    <2>3. Honest' /\ PathTypeOK'
      BY <1>6, <2>1, <2>2 DEF Repeat, ChallengeTo, Honest, PathTypeOK
    <2>. QED
      BY <1>6, <2>3, ProvedKept DEF Repeat
  <1>. QED
    BY <1>1, <1>2, <1>3, <1>4, <1>5, <1>6

\* A connection begins at an address whose token the client holds, or at one
\* that was believed because no proof was asked.
LEMMA AdmitStep == ASSUME PathInv, NEW m \in upward, Admit(m) PROVE PathInv'
  <1> USE DEF PathInv
  <1>1. /\ m.from \in Addresses /\ m.token \in {NoAddress, proof} /\ m = Initial(m.from, m.token, m.led)
        /\ m.led \in BOOLEAN
        /\ UNCHANGED <<asksProof, here, proof, heard, upward, issued>>
    BY DEF Admit, Honest
  <1>2. CASE downward' = downward \cup {RetryTo(m.from)} /\ UNCHANGED <<link, opened>>
    <2>1. Honest' /\ PathTypeOK'
      BY <1>1, <1>2 DEF RetryTo, Honest, PathTypeOK
    <2>. QED
      BY <1>1, <1>2, <2>1, ProvedKept
  <1>3. CASE /\ AsksToken(m) => ValidToken(m.token, m.from)
             /\ link' = NewLink(m)
             /\ downward' = downward \cup {HelloTo(m.from, opened + 1)}
             /\ opened' = opened + 1
    <2>1. NewLink(m) \in Links
      BY <1>1 DEF NewLink, AsksToken, Links, PathTypeOK
    <2>2. Honest'
      BY <1>1, <1>3 DEF HelloTo, Honest
    <2>3. PathTypeOK'
      BY <1>1, <1>3, <2>1 DEF PathTypeOK, NewLink
    <2>4. AsksToken(m) => m.from = proof
      BY <1>1, <1>3, PathConstants DEF ValidToken
    <2>5. FirstFlight(m.from, m.token)'
      BY <1>1 DEF FirstFlight
    <2>6. /\ link'.valid \cup {link'.address} = {m.from} /\ link'.asked = AsksToken(m)
          /\ link'.key = m.token /\ link'.probe = NoAddress
      BY <1>3 DEF NewLink
    <2>7. AddressProved'
      BY <1>1, <2>4, <2>5, <2>6 DEF AddressProved, Received
    <2>. QED
      BY <2>2, <2>3, <2>7
  <1>. QED
    BY <1>2, <1>3 DEF Admit

\* A known path is taken at once; another address is probed with a challenge
\* of its own.
LEMMA NoticeStep ==
  ASSUME PathInv, link # Closed, NEW from \in Addresses, Issue(link, from)
  PROVE  LET c == NoticeAddress(link, from)
         IN  /\ c \in Links /\ c.key = link.key /\ c.asked = link.asked /\ c.valid = link.valid
             /\ c.pending \cup c.unacked \subseteq DOMAIN issued'
             /\ c.address \in link.valid \cup {link.address}
             /\ c.probe # NoAddress => \E d \in c.pending : issued'[d] = c.probe
             /\ issued' \in [DOMAIN issued' -> Addresses] /\ DOMAIN issued' \subseteq Challenges
             /\ \A d \in DOMAIN issued : d \in DOMAIN issued' /\ issued'[d] = issued[d]
  <1> DEFINE c == NoticeAddress(link, from)
  <1>1. link \in Links /\ link.pending \cup link.unacked \subseteq DOMAIN issued
    BY LinkIsOpen DEF PathInv, PathTypeOK
  <1>2. CASE KnownPath(link, from)
    <2>1. c = [link EXCEPT !.address = from] /\ issued' = issued
      BY <1>2 DEF NoticeAddress, Issue
    <2>2. from \in link.valid \cup {link.address}
      BY <1>2 DEF KnownPath
    <2>3. link.probe # NoAddress => \E d \in link.pending : issued[d] = link.probe
      BY DEF PathInv, AddressProved
    <2>. QED
      BY <1>1, <2>1, <2>2, <2>3 DEF Links, PathInv, PathTypeOK
  <1>3. CASE ~KnownPath(link, from)
    <2> DEFINE f == FreshChallenge
    <2>1. /\ c = [link EXCEPT !.pending = @ \cup {f}, !.unacked = @ \cup {f}, !.probe = from]
          /\ Challenges # DOMAIN issued
          /\ issued' = [d \in DOMAIN issued \cup {f} |-> IF d = f THEN from ELSE issued[d]]
      BY <1>3 DEF NoticeAddress, Issue
    <2>2. f \in Challenges \ DOMAIN issued
      BY <2>1, FreshIsNew DEF PathInv
    <2> HIDE DEF f
    <2>3. /\ issued \in [DOMAIN issued -> Addresses] /\ DOMAIN issued \subseteq Challenges
          /\ DOMAIN issued' = DOMAIN issued \cup {f} /\ issued'[f] = from
          /\ \A d \in DOMAIN issued : issued'[d] = issued[d]
      BY <2>1, <2>2 DEF PathInv, PathTypeOK
    <2>4. /\ c.key = link.key /\ c.asked = link.asked /\ c.valid = link.valid /\ c.address = link.address
          /\ c.probe = from /\ c.pending = link.pending \cup {f} /\ c.unacked = link.unacked \cup {f}
      BY <1>1, <2>1 DEF Links
    <2>5. c \in Links
      <3>1. link.pending \cup {f} \in SUBSET Challenges /\ link.unacked \cup {f} \in SUBSET Challenges
        BY <1>1, <2>2 DEF Links
      <3>2. c = [id |-> link.id, key |-> link.key, asked |-> link.asked,
                 address |-> link.address, probe |-> from,
                 pending |-> link.pending \cup {f}, valid |-> link.valid,
                 unacked |-> link.unacked \cup {f}]
        BY <1>1, <2>1 DEF Links
      <3>. QED
        BY <1>1, <3>1, <3>2 DEF Links
    <2>6. issued' \in [DOMAIN issued' -> Addresses] /\ DOMAIN issued' \subseteq Challenges
      BY <2>1, <2>2, <2>3
    <2> HIDE DEF c
    <2>. QED
      BY <1>1, <2>3, <2>4, <2>6, <2>5 DEF c
  <1>. QED
    BY <1>2, <1>3

\* Whatever datagram arrives, an address is validated only by a token or an
\* echo that was sent to it.
LEMMA ArriveStep == ASSUME PathInv, NEW m \in upward, Arrive(m) PROVE PathInv'
  <1> USE DEF PathInv
  <1>1. PICK c : c = NoticeAddress(link, m.from)
    OBVIOUS
  <1> DEFINE made == c.unacked \ link.unacked
  <1>2. /\ link # Closed /\ m.from \in Addresses /\ Issue(link, m.from)
        /\ UNCHANGED <<asksProof, here, proof, heard, upward, opened>>
    BY DEF Arrive, Finds, Honest
  <1>3. /\ c \in Links /\ c.key = link.key /\ c.asked = link.asked /\ c.valid = link.valid
        /\ c.pending \cup c.unacked \subseteq DOMAIN issued'
        /\ c.address \in link.valid \cup {link.address}
        /\ c.probe # NoAddress => \E d \in c.pending : issued'[d] = c.probe
        /\ issued' \in [DOMAIN issued' -> Addresses] /\ DOMAIN issued' \subseteq Challenges
        /\ \A d \in DOMAIN issued : d \in DOMAIN issued' /\ issued'[d] = issued[d]
    BY <1>1, <1>2, NoticeStep
  <1>4. link \in Links /\ link.unacked \subseteq DOMAIN issued
    BY <1>2, LinkIsOpen DEF PathTypeOK
  <1>5. \A a \in link.valid \cup {link.address} :
           a \in Addresses /\ (Received(a)' \/ (~link.asked /\ FirstFlight(a, link.key)))
    <2>1. TAKE a \in link.valid \cup {link.address}
    <2>2. a \in Addresses
      BY <1>4 DEF Links
    <2>3. Received(a) => Received(a)'
      BY <1>2, <1>3, <2>2, ReceivedKept
    <2>4. Received(a) \/ (~link.asked /\ FirstFlight(a, link.key))
      BY <1>2, <2>1 DEF AddressProved
    <2>. QED
      BY <2>2, <2>3, <2>4
  \* What goes back carries challenges that were made.
  <1>6. ASSUME NEW data \in SUBSET (made \cup link.unacked),
               downward' = downward \cup Answers(m.from, data)
        PROVE  Honest'
    <2>1. data \subseteq DOMAIN issued'
      BY <1>3, <1>4, <1>6
    <2>. QED
      BY <1>2, <1>3, <1>6, <2>1 DEF Answers, ChallengeTo, Honest
  \* A connection record that relies only on what was proved.
  <1>7. ASSUME NEW r \in Links, link' = r, r.key = link.key, r.asked = link.asked, Honest',
               r.pending \cup r.unacked \subseteq DOMAIN issued',
               \A a \in r.valid \cup {r.address} : a \in link.valid \cup {link.address} \/ Received(a)',
               r.probe # NoAddress => \E d \in r.pending : issued'[d] = r.probe
        PROVE  PathInv'
    <2>1. PathTypeOK'
      BY <1>2, <1>3, <1>7 DEF PathTypeOK
    <2>2. AddressProved'
      BY <1>2, <1>5, <1>7 DEF AddressProved, FirstFlight
    <2>. QED
      BY <1>7, <2>1, <2>2
  <1>8. CASE link' = c /\ downward' = downward \cup Answers(m.from, made)
    <2>1. Honest'
      BY <1>6, <1>8
    <2>. QED
      BY <1>3, <1>7, <1>8, <2>1
  <1>9. CASE /\ m.kind = "short"
             /\ \E lost \in SUBSET (link.unacked \ m.acks) :
                  downward' = downward \cup Answers(m.from, made \cup lost)
             /\ link' = [TakeEcho(c, m.echo) EXCEPT !.unacked = @ \ m.acks]
    <2>1. PICK d : d = m.echo
      OBVIOUS
    <2>2. Honest'
      <3>1. PICK lost \in SUBSET (link.unacked \ m.acks) :
                  downward' = downward \cup Answers(m.from, made \cup lost)
        BY <1>9
      <3>. QED
        BY <1>6, <3>1
    <2>3. d \in heard \cup {Unset}
      BY <1>9, <2>1 DEF Honest
    <2>4. CASE Validates(c, d)
      <3>1. link' = [c EXCEPT !.pending = @ \ {d}, !.address = c.probe, !.valid = @ \cup {c.probe},
                              !.probe = NoAddress, !.unacked = @ \ m.acks]
        BY <1>3, <1>9, <2>1, <2>4 DEF TakeEcho, Validates, Links
      <3>2. d \in Challenges /\ c.probe \in Addresses
        BY <1>3, <2>4 DEF Validates, Links
      <3>3. d \in heard
        BY <2>3, <3>2, PathConstants DEF Unset
      <3>4. Received(c.probe)'
        BY <1>2, <2>4, <3>3 DEF Received, Validates
      <3>5. PICK r : r = link'
        OBVIOUS
      <3>6. r \in Links
        BY <1>3, <3>1, <3>2, <3>5 DEF Links
      <3>7. /\ r.key = c.key /\ r.asked = c.asked /\ r.pending \subseteq c.pending /\ r.unacked \subseteq c.unacked
            /\ r.address = c.probe /\ r.valid = c.valid \cup {c.probe} /\ r.probe = NoAddress
        BY <1>3, <3>1, <3>5 DEF Links
      <3>. QED
        BY <1>3, <1>7, <2>2, <3>4, <3>5, <3>6, <3>7
    <2>5. CASE ~Validates(c, d)
      <3>1. link' = IF c.probe = NoAddress THEN [c EXCEPT !.unacked = @ \ m.acks]
                    ELSE [c EXCEPT !.pending = @ \ {d}, !.unacked = @ \ m.acks]
        BY <1>3, <1>9, <2>1, <2>5 DEF TakeEcho, Links
      <3>2. c.probe # NoAddress => d \notin c.pending \/ issued'[d] # c.probe
        BY <2>5 DEF Validates
      <3>3. PICK r : r = link'
        OBVIOUS
      <3>4. r \in Links
        BY <1>3, <3>1, <3>3 DEF Links
      <3>5. /\ r.key = c.key /\ r.asked = c.asked /\ r.pending \subseteq c.pending /\ r.unacked \subseteq c.unacked
            /\ r.address = c.address /\ r.valid = c.valid /\ r.probe = c.probe
            /\ r.probe # NoAddress => r.pending = c.pending \ {d}
        BY <1>3, <3>1, <3>3 DEF Links
      <3>6. r.probe # NoAddress => \E e \in r.pending : issued'[e] = r.probe
        BY <1>3, <3>2, <3>5
      <3>. QED
        BY <1>3, <1>7, <2>2, <3>3, <3>4, <3>5, <3>6
    <2>. QED
      BY <2>4, <2>5
  <1>. QED
    BY <1>1, <1>8, <1>9 DEF Arrive

\* Wherever a connection is, the client has answered for that address.
THEOREM AddressIsProved == PathSpec => []AddressProved
  <1>1. PathInv /\ [PathNext]_pathState => PathInv'
    <2> SUFFICES ASSUME PathInv, [PathNext]_pathState PROVE PathInv'
      OBVIOUS
    <2>1. CASE Forget
      BY <2>1, PathConstants DEF Forget, PathInv, PathTypeOK, Honest, AddressProved, Closed
    <2>2. CASE UNCHANGED pathState
      BY <2>2 DEF pathState, PathInv, PathTypeOK, Honest, AddressProved, Received, FirstFlight
    <2>. QED
      BY <2>1, <2>2, ClientStep, AdmitStep, ArriveStep DEF PathNext
  <1>2. PathInv => AddressProved
    BY DEF PathInv
  <1>. QED
    BY <1>1, <1>2, PathInvInit, PTL DEF PathSpec

-----------------------------------------------------------------------------
(* ProxyI: least elements and sums over finite sets.                       *)

\* A nonempty set of numbers has a least one.
LEMMA LeastOfNats ==
  ASSUME NEW T, T \subseteq Nat, T # {}
  PROVE  \E x \in T : \A y \in T : x <= y
  <1> DEFINE R == {ss \in Nat \X Nat : ss[1] < ss[2]}
  <1>1. IsWellFoundedOn(R, Nat)
    BY NatLessThanWellFounded DEF OpToRel
  <1>2. PICK x \in T : \A y \in T : <<y, x>> \notin R
    <2> HIDE DEF R
    <2>. QED
      BY <1>1, WFMin
  <1>3. ASSUME NEW y \in T PROVE x <= y
    <2>1. x \in Nat /\ y \in Nat /\ <<y, x>> \in Nat \X Nat
      OBVIOUS
    <2>. QED
      BY <1>2, <2>1
  <1>. QED
    BY <1>3

\* A set that has 0 and with each number the next has all of them.
LEMMA UpwardTo ==
  ASSUME NEW n \in Nat, NEW Good, 0 \in Good, \A k \in 0..n - 1 : k \in Good => k + 1 \in Good
  PROVE  \A k \in 0..n : k \in Good
  <1> SUFFICES ASSUME NEW b \in 0..n, b \notin Good PROVE FALSE
    OBVIOUS
  <1>1. PICK bad : bad = {k \in 0..n : k \notin Good}
    OBVIOUS
  <1>2. bad \subseteq Nat /\ bad # {}
    BY <1>1
  <1>3. PICK k \in bad : \A j \in bad : k <= j
    BY <1>2, LeastOfNats
  <1>4. k \in 0..n /\ k # 0
    BY <1>1
  <1>5. k - 1 \in 0..n - 1 /\ k - 1 \in 0..n /\ (k - 1) + 1 = k /\ ~(k <= k - 1)
    BY <1>4
  <1>6. k - 1 \in Good
    BY <1>1, <1>3, <1>5
  <1>7. k \in Good
    BY <1>5, <1>6
  <1>. QED
    BY <1>1, <1>7

\* Of finite sets of a kind one has no proper subset of that kind.
LEMMA LeastOfSets ==
  ASSUME NEW S, IsFiniteSet(S), NEW B, B \subseteq SUBSET S, B # {}
  PROVE  \E s \in B : \A u \in B : u \subseteq s => u = s
  <1>1. \A s \in SUBSET S : IsFiniteSet(s) /\ Cardinality(s) \in Nat
    BY FS_Subset, FS_CardinalityType
  <1> DEFINE T == {n \in Nat : \E s \in B : n = Cardinality(s)}
  <1>2. T # {} /\ T \subseteq Nat
    BY <1>1
  <1>3. PICK n \in T : \A m \in T : n <= m
    <2> HIDE DEF T
    <2>. QED
      BY <1>2, LeastOfNats
  <1>4. PICK s \in B : n = Cardinality(s)
    OBVIOUS
  <1>5. ASSUME NEW u \in B, u \subseteq s, u # s PROVE FALSE
    <2>1. Cardinality(u) < Cardinality(s)
      BY <1>1, <1>5, FS_Subset
    <2>2. Cardinality(u) \in T
      BY <1>1
    <2>. QED
      BY <1>1, <1>3, <1>4, <2>1, <2>2
  <1>. QED
    BY <1>5

\* An element of a nonempty set, and the sums of w over the subsets of S, taken
\* one such element at a time, as the library's folds over sets do.
Some(s) == CHOOSE x \in s : TRUE
Sums(w, S) ==
  CHOOSE f : f = [s \in SUBSET S |-> IF s = {} THEN 0 ELSE w[Some(s)] + f[s \ {Some(s)}]]

\* Sums exists as a function: its definition by itself is consistent.
LEMMA SumsAre ==
  ASSUME NEW w, NEW S, IsFiniteSet(S)
  PROVE  \A s \in SUBSET S :
           Sums(w, S)[s] = IF s = {} THEN 0 ELSE w[Some(s)] + Sums(w, S)[s \ {Some(s)}]
  <1> DEFINE UpTo(n) == {s \in SUBSET S : Cardinality(s) <= n}
             Step(f, s) == IF s = {} THEN 0 ELSE w[Some(s)] + f[s \ {Some(s)}]
             T == {n \in Nat : ~ \E f : f = [s \in UpTo(n) |-> Step(f, s)]}
  <1>1. \A s \in SUBSET S : IsFiniteSet(s) /\ Cardinality(s) \in Nat /\ Cardinality(s) <= Cardinality(S)
    BY FS_Subset, FS_CardinalityType
  <1>2. \A s \in SUBSET S : s # {} => /\ Some(s) \in s /\ s \ {Some(s)} \in SUBSET S
                                      /\ Cardinality(s \ {Some(s)}) = Cardinality(s) - 1
    <2> SUFFICES ASSUME NEW s \in SUBSET S, s # {}
                 PROVE  /\ Some(s) \in s /\ s \ {Some(s)} \in SUBSET S
                        /\ Cardinality(s \ {Some(s)}) = Cardinality(s) - 1
      OBVIOUS
    <2>1. Some(s) \in s
      BY DEF Some
    <2>. QED
      BY <1>1, <2>1, FS_RemoveElement
  <1>3. T = {}
    <2> SUFFICES ASSUME T # {} PROVE FALSE
      OBVIOUS
    <2>1. PICK n \in T : \A m \in T : n <= m
      <3>1. T \subseteq Nat
        OBVIOUS
      <3> HIDE DEF T
      <3>. QED
        BY <3>1, LeastOfNats
    <2>2. n \in Nat /\ ~ \E f : f = [s \in UpTo(n) |-> Step(f, s)]
      OBVIOUS
    <2>3. CASE n = 0
      <3>1. \A s \in UpTo(0) : s = {}
        BY <1>1, FS_EmptySet
      <3>2. [s \in UpTo(0) |-> 0] = [s \in UpTo(0) |-> Step([u \in UpTo(0) |-> 0], s)]
        BY <3>1
      <3>. QED
        BY <2>2, <2>3, <3>2
    <2>4. CASE n # 0
      <3>1. n - 1 \in Nat /\ n - 1 \notin T
        <4> HIDE DEF T
        <4>. QED
          BY <2>1, <2>2, <2>4
      <3>2. PICK f : f = [s \in UpTo(n - 1) |-> Step(f, s)]
        BY <3>1
      <3>3. PICK g : g = [s \in UpTo(n) |-> Step(f, s)]
        OBVIOUS
      <3>4. \A u \in UpTo(n - 1) : u \in UpTo(n) /\ g[u] = f[u]
        <4> SUFFICES ASSUME NEW u \in UpTo(n - 1) PROVE u \in UpTo(n) /\ g[u] = f[u]
          OBVIOUS
        <4>1. u \in UpTo(n)
          BY <1>1, <2>2
        <4>2. f[u] = Step(f, u)
          <5> HIDE DEF UpTo, Step
          <5>. QED
            BY <3>2
        <4>3. g[u] = Step(f, u)
          <5> HIDE DEF UpTo, Step
          <5>. QED
            BY <3>3, <4>1
        <4>. QED
          BY <4>1, <4>2, <4>3
      <3>5. \A s \in UpTo(n) : s # {} => s \ {Some(s)} \in UpTo(n - 1)
        BY <1>1, <1>2, <2>2
      <3>6. \A s \in UpTo(n) : Step(f, s) = Step(g, s)
        <4> SUFFICES ASSUME NEW s \in UpTo(n) PROVE Step(f, s) = Step(g, s)
          OBVIOUS
        <4> HIDE DEF UpTo
        <4>. QED
          BY <3>4, <3>5
      <3>7. g = [s \in UpTo(n) |-> Step(g, s)]
        <4> HIDE DEF UpTo, Step
        <4>. QED
          BY <3>3, <3>6
      <3>. QED
        BY <2>2, <3>7
    <2>. QED
      BY <2>3, <2>4
  <1>4. Cardinality(S) \in Nat /\ UpTo(Cardinality(S)) = SUBSET S
    BY <1>1
  <1>5. \E f : f = [s \in UpTo(Cardinality(S)) |-> Step(f, s)]
    BY <1>3, <1>4
  <1>6. \E f : f = [s \in SUBSET S |-> Step(f, s)]
    <2> HIDE DEF UpTo
    <2>. QED
      BY <1>4, <1>5
  <1>7. PICK f : f = Sums(w, S)
    OBVIOUS
  <1>8. f = [s \in SUBSET S |-> Step(f, s)]
    BY <1>6, <1>7 DEF Sums
  <1>9. \A s \in SUBSET S : f[s] = Step(f, s)
    <2> HIDE DEF Step
    <2>. QED
      BY <1>8
  <1>. QED
    BY <1>7, <1>9

\* The same for one set, with the two cases apart.
LEMMA SumOf ==
  ASSUME NEW w, NEW S, IsFiniteSet(S), NEW s \in SUBSET S
  PROVE  /\ s = {} => Sums(w, S)[s] = 0
         /\ s # {} => /\ Some(s) \in s /\ s \ {Some(s)} \in SUBSET S
                      /\ Sums(w, S)[s] = w[Some(s)] + Sums(w, S)[s \ {Some(s)}]
  <1>1. Sums(w, S)[s] = IF s = {} THEN 0 ELSE w[Some(s)] + Sums(w, S)[s \ {Some(s)}]
    <2>1. \A u \in SUBSET S :
            Sums(w, S)[u] = IF u = {} THEN 0 ELSE w[Some(u)] + Sums(w, S)[u \ {Some(u)}]
      BY SumsAre, Zenon
    <2>. QED
      BY <2>1, Zenon
  <1>2. s # {} => Some(s) \in s
    BY DEF Some
  <1>. QED
    BY <1>1, <1>2

\* Sums of integers are integers.
LEMMA SumIsInt ==
  ASSUME NEW w, NEW S, IsFiniteSet(S), \A x \in S : w[x] \in Int
  PROVE  \A s \in SUBSET S : Sums(w, S)[s] \in Int
  <1> DEFINE B == {s \in SUBSET S : Sums(w, S)[s] \notin Int}
  <1> SUFFICES ASSUME B # {} PROVE FALSE
    OBVIOUS
  <1>1. PICK s \in B : \A u \in B : u \subseteq s => u = s
    <2>1. B \subseteq SUBSET S
      OBVIOUS
    <2> HIDE DEF B
    <2>. QED
      BY <2>1, LeastOfSets
  <1>2. s # {} /\ Some(s) \in s /\ s \ {Some(s)} \in SUBSET S
        /\ Sums(w, S)[s] = w[Some(s)] + Sums(w, S)[s \ {Some(s)}]
    BY SumOf
  <1>3. Sums(w, S)[s \ {Some(s)}] \in Int
    BY <1>1, <1>2
  <1>4. w[Some(s)] \in Int
    BY <1>2
  <1>. QED
    BY <1>2, <1>3, <1>4

\* A sum does not depend on the order in which it is taken.
LEMMA SumWithout ==
  ASSUME NEW w, NEW S, IsFiniteSet(S), \A x \in S : w[x] \in Int
  PROVE  \A s \in SUBSET S : \A x \in s : Sums(w, S)[s] = w[x] + Sums(w, S)[s \ {x}]
  <1> DEFINE B == {s \in SUBSET S : ~ \A x \in s : Sums(w, S)[s] = w[x] + Sums(w, S)[s \ {x}]}
  <1> SUFFICES ASSUME B # {} PROVE FALSE
    OBVIOUS
  <1>1. PICK s \in B : \A u \in B : u \subseteq s => u = s
    <2>1. B \subseteq SUBSET S
      OBVIOUS
    <2> HIDE DEF B
    <2>. QED
      BY <2>1, LeastOfSets
  <1>2. PICK x \in s : Sums(w, S)[s] # w[x] + Sums(w, S)[s \ {x}]
    OBVIOUS
  <1>3. PICK p : p = Some(s)
    OBVIOUS
  <1>4. p \in s /\ Sums(w, S)[s] = w[p] + Sums(w, S)[s \ {p}]
    BY <1>2, <1>3, SumOf
  <1>5. p # x
    BY <1>2, <1>4
  <1>6. Sums(w, S)[s \ {p}] = w[x] + Sums(w, S)[(s \ {p}) \ {x}]
    <2>1. s \ {p} \notin B /\ s \ {p} \in SUBSET S /\ x \in s \ {p}
      BY <1>1, <1>4, <1>5
    <2>. QED
      BY <2>1
  <1>7. Sums(w, S)[s \ {x}] = w[p] + Sums(w, S)[(s \ {x}) \ {p}]
    <2>1. s \ {x} \notin B /\ s \ {x} \in SUBSET S /\ p \in s \ {x}
      BY <1>1, <1>4, <1>5
    <2>. QED
      BY <2>1
  <1>8. (s \ {p}) \ {x} = (s \ {x}) \ {p} /\ (s \ {x}) \ {p} \in SUBSET S
    OBVIOUS
  <1>9. w[p] \in Int /\ w[x] \in Int /\ Sums(w, S)[(s \ {x}) \ {p}] \in Int
    BY <1>4, <1>8, SumIsInt
  <1>10. PICK rest : rest = Sums(w, S)[(s \ {x}) \ {p}]
    OBVIOUS
  <1>11. Sums(w, S)[s] = w[p] + (w[x] + rest) /\ Sums(w, S)[s \ {x}] = w[p] + rest
    BY <1>4, <1>6, <1>7, <1>8, <1>10
  <1>12. w[p] + (w[x] + rest) = w[x] + (w[p] + rest)
    BY <1>9, <1>10
  <1> HIDE DEF B
  <1>. QED
    BY <1>2, <1>11, <1>12

\* Two weights that agree on a set have the same sums within it.
LEMMA SumAgrees ==
  ASSUME NEW w, NEW v, NEW S, NEW R \in SUBSET S, IsFiniteSet(S), \A x \in R : w[x] = v[x]
  PROVE  \A s \in SUBSET R : Sums(w, R)[s] = Sums(v, S)[s]
  <1>1. IsFiniteSet(R)
    BY FS_Subset
  <1> DEFINE B == {s \in SUBSET R : Sums(w, R)[s] # Sums(v, S)[s]}
  <1> SUFFICES ASSUME B # {} PROVE FALSE
    OBVIOUS
  <1>2. PICK s \in B : \A u \in B : u \subseteq s => u = s
    <2>1. B \subseteq SUBSET R
      OBVIOUS
    <2> HIDE DEF B
    <2>. QED
      BY <1>1, <2>1, LeastOfSets
  <1>3. s \in SUBSET R /\ s \in SUBSET S
    OBVIOUS
  <1>4. s # {} /\ Some(s) \in s /\ s \ {Some(s)} \in SUBSET R
    <2>1. s = {} => Sums(w, R)[s] = 0
      BY <1>1, <1>3, SumOf
    <2>2. s = {} => Sums(v, S)[s] = 0
      BY <1>3, SumOf
    <2>3. Sums(w, R)[s] # Sums(v, S)[s]
      OBVIOUS
    <2>. QED
      BY <1>3, <2>1, <2>2, <2>3 DEF Some
  <1>5. Sums(w, R)[s] = w[Some(s)] + Sums(w, R)[s \ {Some(s)}]
    BY <1>1, <1>3, <1>4, SumOf
  <1>6. Sums(v, S)[s] = v[Some(s)] + Sums(v, S)[s \ {Some(s)}]
    BY <1>3, <1>4, SumOf
  <1>7. Sums(w, R)[s \ {Some(s)}] = Sums(v, S)[s \ {Some(s)}]
    BY <1>2, <1>4
  <1>8. w[Some(s)] = v[Some(s)]
    BY <1>4
  <1>. QED
    BY <1>5, <1>6, <1>7, <1>8

\* The same for all the subsets.
SumsUp(w, S) ==
  \A s \in SUBSET S :
    /\ s = {} => Sums(w, S)[s] = 0
    /\ s # {} => /\ Some(s) \in s /\ s \ {Some(s)} \in SUBSET S
                 /\ Sums(w, S)[s] = w[Some(s)] + Sums(w, S)[s \ {Some(s)}]
LEMMA SumSteps ==
  ASSUME NEW w, NEW S, IsFiniteSet(S)
  PROVE  SumsUp(w, S)
  BY SumOf, Zenon DEF SumsUp

\* What changes in one summand changes in the sum.
LEMMA SumChange ==
  ASSUME NEW w, NEW v, NEW S, IsFiniteSet(S), NEW x \in S,
         \A y \in S : w[y] \in Int /\ v[y] \in Int, \A y \in S \ {x} : v[y] = w[y]
  PROVE  Sums(v, S)[S] = Sums(w, S)[S] + (v[x] - w[x])
  <1>1. S \in SUBSET S /\ S \ {x} \in SUBSET S
    OBVIOUS
  <1>2. Sums(w, S)[S] = w[x] + Sums(w, S)[S \ {x}] /\ Sums(v, S)[S] = v[x] + Sums(v, S)[S \ {x}]
    BY <1>1, SumWithout
  <1>3. Sums(v, S)[S \ {x}] = Sums(w, S)[S \ {x}]
    <2>1. \A y \in S \ {x} : v[y] = w[y]
      OBVIOUS
    <2>2. Sums(v, S \ {x})[S \ {x}] = Sums(w, S)[S \ {x}]
      BY <1>1, <2>1, SumAgrees
    <2>3. Sums(v, S \ {x})[S \ {x}] = Sums(v, S)[S \ {x}]
      BY <1>1, SumAgrees
    <2>. QED
      BY <2>2, <2>3
  <1>4. Sums(w, S)[S \ {x}] \in Int /\ v[x] \in Int /\ w[x] \in Int
    BY <1>1, SumIsInt
  <1>. QED
    BY <1>2, <1>3, <1>4

\* The sum of two weights.
Summands(w, v, u, S) == \A y \in S : w[y] \in Int /\ v[y] \in Int /\ u[y] = w[y] + v[y]
SumsAgree(w, v, u, S) == \A s \in SUBSET S : Sums(u, S)[s] = Sums(w, S)[s] + Sums(v, S)[s]
LEMMA SumPlus ==
  ASSUME NEW w, NEW v, NEW u, NEW S, IsFiniteSet(S), Summands(w, v, u, S)
  PROVE  SumsAgree(w, v, u, S)
  <1> USE DEF Summands, SumsAgree
  <1> DEFINE B == {s \in SUBSET S : Sums(u, S)[s] # Sums(w, S)[s] + Sums(v, S)[s]}
  <1> SUFFICES ASSUME B # {} PROVE FALSE
    OBVIOUS
  <1>1. PICK s \in B : \A r \in B : r \subseteq s => r = s
    <2>1. B \subseteq SUBSET S
      OBVIOUS
    <2> HIDE DEF B
    <2>. QED
      BY <2>1, LeastOfSets
  <1>2. s \in SUBSET S
    OBVIOUS
  <1>3. SumsUp(w, S) /\ SumsUp(v, S) /\ SumsUp(u, S)
    BY SumSteps, Zenon
  <1>4. /\ s = {} => Sums(w, S)[s] = 0 /\ Sums(v, S)[s] = 0 /\ Sums(u, S)[s] = 0
        /\ s # {} => /\ Sums(w, S)[s] = w[Some(s)] + Sums(w, S)[s \ {Some(s)}]
                     /\ Sums(v, S)[s] = v[Some(s)] + Sums(v, S)[s \ {Some(s)}]
                     /\ Sums(u, S)[s] = u[Some(s)] + Sums(u, S)[s \ {Some(s)}]
    BY <1>2, <1>3 DEF SumsUp
  <1>5. Sums(u, S)[s] # Sums(w, S)[s] + Sums(v, S)[s]
    OBVIOUS
  <1>6. s # {}
    BY <1>4, <1>5
  <1>7. PICK x \in s : x = Some(s)
    BY <1>6 DEF Some
  <1>8. PICK rest \in SUBSET S : rest = s \ {x} /\ rest \subseteq s /\ rest # s
    <2> HIDE DEF B
    <2>1. x \in s /\ s \ {x} \in SUBSET S /\ s \ {x} \subseteq s /\ s \ {x} # s
      BY <1>2, <1>7
    <2>. QED
      BY <2>1
  <1>9. /\ Sums(u, S)[s] = u[x] + Sums(u, S)[rest]
        /\ Sums(w, S)[s] = w[x] + Sums(w, S)[rest]
        /\ Sums(v, S)[s] = v[x] + Sums(v, S)[rest]
    BY <1>4, <1>6, <1>7, <1>8
  <1>10. Sums(u, S)[rest] = Sums(w, S)[rest] + Sums(v, S)[rest]
    BY <1>1, <1>8
  <1>11. Sums(w, S)[rest] \in Int
    BY <1>8, SumIsInt
  <1>12. Sums(v, S)[rest] \in Int
    BY <1>8, SumIsInt
  <1>13. u[x] = w[x] + v[x] /\ w[x] \in Int /\ v[x] \in Int
    BY <1>2
  <1>14. Sums(u, S)[s] # Sums(w, S)[s] + Sums(v, S)[s]
    OBVIOUS
  <1> HIDE DEF B
  <1>. QED
    BY <1>9, <1>10, <1>11, <1>12, <1>13, <1>14

\* A sum of what is nowhere negative is not less than any of its summands.
LEMMA SumBounds ==
  ASSUME NEW w, NEW S, IsFiniteSet(S), \A y \in S : w[y] \in Nat
  PROVE  /\ \A s \in SUBSET S : Sums(w, S)[s] \in Nat
         /\ \A x \in S : w[x] <= Sums(w, S)[S]
  <1> DEFINE B == {s \in SUBSET S : Sums(w, S)[s] \notin Nat}
  <1>1. ASSUME B # {} PROVE FALSE
    <2>1. PICK s \in B : \A u \in B : u \subseteq s => u = s
      <3>1. B \subseteq SUBSET S
        OBVIOUS
      <3> HIDE DEF B
      <3>. QED
        BY <1>1, <3>1, LeastOfSets
    <2>2. s \in SUBSET S /\ s \in B
      OBVIOUS
    <2>3. s # {} /\ Some(s) \in s /\ s \ {Some(s)} \in SUBSET S
          /\ Sums(w, S)[s] = w[Some(s)] + Sums(w, S)[s \ {Some(s)}]
      <3>1. SumsUp(w, S)
        BY SumSteps, Zenon
      <3>. QED
        BY <2>2, <3>1 DEF SumsUp
    <2>4. Sums(w, S)[s \ {Some(s)}] \in Nat
      BY <2>1, <2>3
    <2>5. w[Some(s)] \in Nat
      BY <2>3
    <2>. QED
      BY <2>3, <2>4, <2>5
  <1>2. \A s \in SUBSET S : Sums(w, S)[s] \in Nat
    BY <1>1
  <1>3. ASSUME NEW x \in S PROVE w[x] <= Sums(w, S)[S]
    <2>1. S \in SUBSET S /\ S \ {x} \in SUBSET S /\ \A y \in S : w[y] \in Int
      OBVIOUS
    <2>2. Sums(w, S)[S] = w[x] + Sums(w, S)[S \ {x}]
      BY <2>1, SumWithout
    <2>3. Sums(w, S)[S \ {x}] \in Nat /\ w[x] \in Nat
      BY <1>2, <2>1
    <2>. QED
      BY <2>2, <2>3
  <1>. QED
    BY <1>2, <1>3

\* If a sum is positive, so is one of its summands.
LEMMA SumOfNone ==
  ASSUME NEW w, NEW S, IsFiniteSet(S), \A y \in S : w[y] \in Int /\ w[y] <= 0
  PROVE  Sums(w, S)[S] <= 0
  <1> DEFINE B == {s \in SUBSET S : ~(Sums(w, S)[s] <= 0)}
  <1>1. ASSUME B # {} PROVE FALSE
    <2>1. PICK s \in B : \A u \in B : u \subseteq s => u = s
      <3>1. B \subseteq SUBSET S
        OBVIOUS
      <3> HIDE DEF B
      <3>. QED
        BY <1>1, <3>1, LeastOfSets
    <2>2. s \in SUBSET S /\ s \in B
      OBVIOUS
    <2>3. s # {} /\ Some(s) \in s /\ s \ {Some(s)} \in SUBSET S
          /\ Sums(w, S)[s] = w[Some(s)] + Sums(w, S)[s \ {Some(s)}]
      <3>1. SumsUp(w, S)
        BY SumSteps, Zenon
      <3>. QED
        BY <2>2, <3>1 DEF SumsUp
    <2>4. Sums(w, S)[s \ {Some(s)}] <= 0
      BY <2>1, <2>3
    <2>5. w[Some(s)] \in Int /\ w[Some(s)] <= 0
      BY <2>3
    <2>6. Sums(w, S)[s \ {Some(s)}] \in Int
      BY <2>3, SumIsInt
    <2>7. ~(Sums(w, S)[s] <= 0)
      OBVIOUS
    <2> HIDE DEF B
    <2>. QED
      BY <2>3, <2>4, <2>5, <2>6, <2>7
  <1>2. S \in SUBSET S /\ S \notin B
    BY <1>1
  <1>. QED
    BY <1>2

\* A sum of nothing but zeros.
LEMMA SumOfZeros ==
  ASSUME NEW w, NEW S, IsFiniteSet(S), \A y \in S : w[y] = 0
  PROVE  Sums(w, S)[S] = 0
  <1>1. \A y \in S : w[y] \in Nat /\ w[y] \in Int /\ w[y] <= 0
    OBVIOUS
  <1>2. Sums(w, S)[S] <= 0
    BY <1>1, SumOfNone
  <1>3. S \in SUBSET S
    OBVIOUS
  <1>4. Sums(w, S)[S] \in Nat
    BY <1>1, <1>3, SumBounds
  <1>. QED
    BY <1>2, <1>4

\* In an order of a finite set that is total and transitive one comes first.
LEMMA FirstOf ==
  ASSUME NEW S, IsFiniteSet(S), S # {}, NEW R,
         \A x, y \in S : <<x, y>> \in R \/ <<y, x>> \in R,
         \A x, y, z \in S : <<x, y>> \in R /\ <<y, z>> \in R => <<x, z>> \in R
  PROVE  \E x \in S : \A y \in S : <<x, y>> \in R
  <1> DEFINE B == {s \in SUBSET S : s # {} /\ ~ \E x \in s : \A y \in s : <<x, y>> \in R}
  <1>1. ASSUME B # {} PROVE FALSE
    <2>1. PICK s \in B : \A u \in B : u \subseteq s => u = s
      <3>1. B \subseteq SUBSET S
        OBVIOUS
      <3> HIDE DEF B
      <3>. QED
        BY <1>1, <3>1, LeastOfSets
    <2>2. s \in SUBSET S /\ s # {} /\ ~ \E x \in s : \A y \in s : <<x, y>> \in R
      OBVIOUS
    <2>3. PICK x \in s : x \in S
      BY <2>2
    <2>4. PICK u \in SUBSET S : u = s \ {x} /\ u \subseteq s /\ u # s
      <3> HIDE DEF B
      <3>1. x \in s /\ s \ {x} \in SUBSET S /\ s \ {x} \subseteq s /\ s \ {x} # s
        BY <2>2, <2>3
      <3>. QED
        BY <3>1
    <2>5. u = {} \/ \E f \in u : \A y \in u : <<f, y>> \in R
      <3>1. u \notin B
        <4> HIDE DEF B
        <4>. QED
          BY <2>1, <2>4
      <3>. QED
        BY <2>4, <3>1
    <2> HIDE DEF B
    <2>6. s = u \cup {x} /\ u \subseteq S /\ <<x, x>> \in R
      BY <2>3, <2>4
    <2>7. CASE u = {}
      BY <2>2, <2>6, <2>7
    <2>8. CASE u # {}
      <3>1. PICK f \in u : \A y \in u : <<f, y>> \in R
        BY <2>5, <2>8
      <3>2. f \in S /\ (<<f, x>> \in R \/ <<x, f>> \in R)
        BY <2>3, <2>6
      <3>3. CASE <<f, x>> \in R
        <4>1. \A y \in s : <<f, y>> \in R
          BY <2>6, <3>1, <3>3
        <4>. QED
          BY <2>2, <2>6, <4>1
      <3>4. CASE <<x, f>> \in R
        <4>1. \A y \in u : <<x, y>> \in R
          BY <2>3, <2>6, <3>1, <3>2, <3>4
        <4>2. \A y \in s : <<x, y>> \in R
          BY <2>6, <4>1
        <4>. QED
          BY <2>2, <2>3, <4>2
      <3>. QED
        BY <3>2, <3>3, <3>4
    <2>. QED
      BY <2>7, <2>8
  <1>2. S \in SUBSET S /\ S \notin B
    BY <1>1
  <1>. QED
    BY <1>2

\* Counting on in a circle.
LEMMA OneFurther ==
  ASSUME NEW x \in Nat, NEW n \in Nat, n > 0
  PROVE  /\ x % n \in 0..n - 1
         /\ (x + 1) % n = IF x % n = n - 1 THEN 0 ELSE (x % n) + 1
         /\ ((x + 1) % n) % n = (x + 1) % n
  <1>1. PICK a \in Int, b \in Int : a = x \div n /\ b = x % n
    OBVIOUS
  <1>2. b \in 0..n - 1
    BY <1>1
  <1>3. x = n * a + b
    BY <1>1
  <1>4. CASE b = n - 1
    <2>1. x + 1 = n * (a + 1) + 0
      BY <1>3, <1>4
    <2>2. (n * (a + 1) + 0) % n = 0
      BY SMTT(20)
    <2>. QED
      BY <1>1, <1>2, <1>4, <2>1, <2>2
  <1>5. CASE b # n - 1
    <2>1. x + 1 = n * a + (b + 1) /\ 0 <= b + 1 /\ b + 1 < n
      BY <1>2, <1>3, <1>5
    <2>2. (n * a + (b + 1)) % n = b + 1
      BY <2>1, SMTT(20)
    <2>. QED
      BY <1>1, <1>2, <1>5, <2>1, <2>2
  <1>6. (x + 1) % n \in 0..n - 1
    OBVIOUS
  <1>. QED
    BY <1>1, <1>2, <1>4, <1>5, <1>6

-----------------------------------------------------------------------------
(* Lists of targets. *)

Distinct(s) == \A i, j \in DOMAIN s : s[i] = s[j] => i = j

\* The targets of ts that `on' switches on, among the first i.
Chosen(ts, on, f, n) ==
  f = [i \in 0..n |-> IF i = 0 THEN <<>> ELSE IF on[ts[i]] THEN Append(f[i - 1], ts[i]) ELSE f[i - 1]]
Switched(ts, on) == (CHOOSE f : Chosen(ts, on, f, Len(ts)))[Len(ts)]

LEMMA ChosenExists ==
  ASSUME NEW ts, NEW on, NEW n \in Nat
  PROVE  \E f : Chosen(ts, on, f, n)
  <1> DEFINE Step(f, i) == IF i = 0 THEN <<>> ELSE IF on[ts[i]] THEN Append(f[i - 1], ts[i]) ELSE f[i - 1]
             Good == {m \in 0..n : \E f : f = [i \in 0..m |-> Step(f, i)]}
  <1>1. 0 \in Good
    <2>1. PICK f : f = [i \in 0..0 |-> <<>>]
      OBVIOUS
    <2>2. \A i \in 0..0 : Step(f, i) = <<>>
      OBVIOUS
    <2>3. f = [i \in 0..0 |-> Step(f, i)]
      <3> HIDE DEF Step
      <3>. QED
        BY <2>1, <2>2
    <2>4. 0 \in 0..n
      OBVIOUS
    <2> HIDE DEF Step
    <2>. QED
      BY <2>3, <2>4
  <1>2. ASSUME NEW m \in 0..n - 1, m \in Good PROVE m + 1 \in Good
    <2>1. PICK f : f = [i \in 0..m |-> Step(f, i)]
      BY <1>2
    <2>2. PICK g : g = [i \in 0..m + 1 |-> Step(f, i)]
      OBVIOUS
    <2>3. \A i \in 0..m : i \in 0..m + 1 /\ g[i] = f[i]
      <3> SUFFICES ASSUME NEW i \in 0..m PROVE i \in 0..m + 1 /\ g[i] = f[i]
        OBVIOUS
      <3>1. i \in 0..m + 1
        OBVIOUS
      <3>2. f[i] = Step(f, i)
        <4> HIDE DEF Step
        <4>. QED
          BY <2>1
      <3>3. g[i] = Step(f, i)
        <4> HIDE DEF Step
        <4>. QED
          BY <2>2, <3>1
      <3>. QED
        BY <3>1, <3>2, <3>3
    <2>4. \A i \in 0..m + 1 : Step(f, i) = Step(g, i)
      <3> SUFFICES ASSUME NEW i \in 0..m + 1 PROVE Step(f, i) = Step(g, i)
        OBVIOUS
      <3>1. i # 0 => i - 1 \in 0..m
        OBVIOUS
      <3>. QED
        BY <2>3, <3>1
    <2>5. g = [i \in 0..m + 1 |-> Step(g, i)]
      <3> HIDE DEF Step
      <3>. QED
        BY <2>2, <2>4
    <2>6. m + 1 \in 0..n
      OBVIOUS
    <2>. QED
      BY <2>5, <2>6
  <1>3. \A m \in 0..n : m \in Good
    <2> HIDE DEF Good
    <2>. QED
      BY <1>1, <1>2, UpwardTo
  <1>4. \E f : f = [i \in 0..n |-> Step(f, i)]
    <2>1. n \in 0..n
      OBVIOUS
    <2>2. n \in Good
      <3> HIDE DEF Good
      <3>. QED
        BY <1>3, <2>1
    <2> HIDE DEF Step
    <2>. QED
      BY <2>2
  <1>. QED
    BY <1>4 DEF Chosen

\* The enabled targets of a rule are targets of it, each as often as there.
LEMMA SwitchedIs ==
  ASSUME NEW ts \in Seq(Targets), Distinct(ts), NEW on
  PROVE  Switched(ts, on) \in Seq(Targets) /\ Distinct(Switched(ts, on))
  <1>1. PICK n \in Nat : n = Len(ts) /\ DOMAIN ts = 1..n
    OBVIOUS
  <1>2. PICK f : f = (CHOOSE g : Chosen(ts, on, g, n))
    OBVIOUS
  <1>3. Chosen(ts, on, f, n)
    BY <1>2, ChosenExists
  <1>4. f[0] = <<>> /\ \A i \in 1..n : f[i] = IF on[ts[i]] THEN Append(f[i - 1], ts[i]) ELSE f[i - 1]
    <2> DEFINE Step(i) == IF i = 0 THEN <<>> ELSE IF on[ts[i]] THEN Append(f[i - 1], ts[i]) ELSE f[i - 1]
    <2>1. f = [i \in 0..n |-> Step(i)]
      BY <1>3 DEF Chosen
    <2>2. \A i \in 0..n : f[i] = Step(i)
      <3> HIDE DEF Step
      <3>. QED
        BY <2>1
    <2>3. 0 \in 0..n /\ \A i \in 1..n : i \in 0..n /\ i # 0
      OBVIOUS
    <2>. QED
      BY <2>2, <2>3
  <1>5. PICK good : good = {k \in 0..n : /\ f[k] \in Seq(Targets) /\ Distinct(f[k])
                                         /\ \A j \in DOMAIN f[k] : \E i \in 1..k : f[k][j] = ts[i]}
    OBVIOUS
  <1>6. 0 \in good
    <2>1. <<>> \in Seq(Targets) /\ DOMAIN <<>> = {} /\ 0 \in 0..n
      OBVIOUS
    <2>2. Distinct(<<>>) /\ \A j \in DOMAIN <<>> : \E i \in 1..0 : <<>>[j] = ts[i]
      BY <2>1 DEF Distinct
    <2>. QED
      BY <1>4, <1>5, <2>1, <2>2
  <1>7. ASSUME NEW k \in 0..n - 1, k \in good PROVE k + 1 \in good
    <2>1. k + 1 \in 1..n /\ (k + 1) - 1 = k /\ k + 1 \in 0..n
      OBVIOUS
    <2>2. PICK old : old = f[k]
      OBVIOUS
    <2>3. old \in Seq(Targets) /\ Distinct(old) /\ \A j \in DOMAIN old : \E i \in 1..k : old[j] = ts[i]
      BY <1>5, <1>7, <2>2
    <2>4. f[k + 1] = IF on[ts[k + 1]] THEN Append(old, ts[k + 1]) ELSE old
      BY <1>4, <2>1, <2>2
    <2>5. CASE ~on[ts[k + 1]]
      <3>1. \A j \in DOMAIN old : \E i \in 1..k + 1 : old[j] = ts[i]
        BY <2>3
      <3>. QED
        BY <1>5, <2>1, <2>3, <2>4, <2>5, <3>1
    <2>6. CASE on[ts[k + 1]]
      <3>1. PICK t \in Targets : t = ts[k + 1]
        BY <1>1, <2>1
      <3>2. PICK new : new = Append(old, t)
        OBVIOUS
      <3>3. PICK l \in Nat : l = Len(old) /\ DOMAIN old = 1..l
        BY <2>3
      <3>4. /\ new \in Seq(Targets) /\ DOMAIN new = 1..l + 1 /\ new[l + 1] = t
            /\ \A j \in 1..l : new[j] = old[j]
        BY <2>3, <3>2, <3>3
      <3>5. \A j \in 1..l : old[j] # t
        <4> SUFFICES ASSUME NEW j \in 1..l PROVE old[j] # t
          OBVIOUS
        <4>1. PICK i \in 1..k : old[j] = ts[i]
          BY <2>3, <3>3
        <4>2. i \in 1..n /\ i # k + 1
          OBVIOUS
        <4>. QED
          BY <1>1, <2>1, <3>1, <4>1, <4>2 DEF Distinct
      <3>6. \A j \in 1..l + 1 : j \in 1..l \/ j = l + 1
        OBVIOUS
      <3>7. Distinct(new)
        BY <2>3, <3>3, <3>4, <3>5, <3>6 DEF Distinct
      <3>8. \A j \in DOMAIN new : \E i \in 1..k + 1 : new[j] = ts[i]
        <4> SUFFICES ASSUME NEW j \in 1..l + 1 PROVE \E i \in 1..k + 1 : new[j] = ts[i]
          BY <3>4
        <4>1. CASE j = l + 1
          <5>1. k + 1 \in 1..k + 1
            OBVIOUS
          <5>. QED
            BY <3>1, <3>4, <4>1, <5>1
        <4>2. CASE j \in 1..l
          <5>1. PICK i \in 1..k : old[j] = ts[i]
            BY <2>3, <3>3, <4>2
          <5>2. i \in 1..k + 1
            OBVIOUS
          <5>. QED
            BY <3>4, <4>2, <5>1, <5>2
        <4>. QED
          BY <3>6, <4>1, <4>2
      <3>9. f[k + 1] = new
        BY <2>4, <2>6, <3>1, <3>2
      <3>. QED
        BY <1>5, <2>1, <3>4, <3>7, <3>8, <3>9
    <2>. QED
      BY <2>5, <2>6
  <1>8. n \in good
    <2>1. \A k \in 0..n : k \in good
      BY <1>6, <1>7, UpwardTo
    <2>. QED
      BY <2>1
  <1>9. Switched(ts, on) = f[n]
    BY <1>1, <1>2 DEF Switched
  <1>. QED
    BY <1>5, <1>8, <1>9

\* EnabledOf is this selection.
LEMMA EnabledIs == \A r : EnabledOf(r) = Switched(targets[r], enabled)
  BY DEF EnabledOf, Switched, Chosen

\* A list has finitely many members.
LEMMA MembersAre ==
  ASSUME NEW s \in Seq(Targets)
  PROVE  /\ ToSet(s) \subseteq Targets /\ IsFiniteSet(ToSet(s))
         /\ \A t \in ToSet(s) : \E i \in 1..Len(s) : t = s[i]
         /\ \A i \in 1..Len(s) : s[i] \in ToSet(s)
         /\ s # <<>> => ToSet(s) # {} /\ Len(s) > 0
  <1>1. PICK n \in Nat : n = Len(s) /\ DOMAIN s = 1..n
    OBVIOUS
  <1>2. ToSet(s) = {s[i] : i \in 1..n}
    BY <1>1 DEF ToSet
  <1>3. IsFiniteSet(ToSet(s))
    <2>1. IsFiniteSet(1..n)
      BY FS_Interval
    <2>2. s \in [1..n -> ToSet(s)] /\ \A t \in ToSet(s) : \E i \in 1..n : s[i] = t
      BY <1>1, <1>2
    <2>3. s \in Surjection(1..n, ToSet(s))
      BY <2>2 DEF Surjection
    <2>. QED
      BY <2>1, <2>3, FS_Surjection
  <1>4. s # <<>> => n > 0
    BY <1>1
  <1>. QED
    BY <1>1, <1>2, <1>3, <1>4

-----------------------------------------------------------------------------
(* Round robin. *)

\* Position j is among those passed on the way from s on to p in a circle.
Passed(j, s, p) == IF s <= p THEN s <= j /\ j < p ELSE s <= j \/ j < p

\* The count began at position s; every target had m turns, and those that
\* were passed since had one more.
Circled(offer, k, p, s, m) ==
  \A j \in 0..Len(offer) - 1 : k[offer[j + 1]] = IF Passed(j, s, p) THEN m + 1 ELSE m
InTurn(offer, k, i) ==
  \E s \in 0..Len(offer) - 1, m \in Nat : Circled(offer, k, i % Len(offer), s, m)

LEMMA TurnsBegin ==
  ASSUME NEW offer \in Seq(Targets), Len(offer) > 0, NEW i \in Nat
  PROVE  InTurn(offer, NoTurns, i)
  <1>1. PICK n \in Nat : n = Len(offer) /\ n > 0 /\ DOMAIN offer = 1..n
    OBVIOUS
  <1>2. PICK p \in 0..n - 1 : p = i % n
    BY <1>1, OneFurther
  <1>3. \A j \in 0..n - 1 : ~Passed(j, p, p) /\ j + 1 \in 1..n
    BY DEF Passed
  <1>4. \A j \in 0..n - 1 : NoTurns[offer[j + 1]] = 0
    BY <1>1, <1>3 DEF NoTurns
  <1>5. Circled(offer, NoTurns, p, p, 0)
    BY <1>1, <1>3, <1>4 DEF Circled
  <1>. QED
    BY <1>1, <1>2, <1>5 DEF InTurn

LEMMA TurnsGoOn ==
  ASSUME NEW offer \in Seq(Targets), Len(offer) > 0, Distinct(offer), NEW i \in Nat,
         NEW k \in [Targets -> Nat], InTurn(offer, k, i),
         NEW t \in Targets, t = offer[(i % Len(offer)) + 1]
  PROVE  InTurn(offer, [k EXCEPT ![t] = @ + 1], (i + 1) % Len(offer))
  <1>1. PICK n \in Nat : n = Len(offer) /\ n > 0 /\ DOMAIN offer = 1..n
    OBVIOUS
  <1>2. PICK p \in 0..n - 1 : p = i % n
    BY <1>1, OneFurther
  <1>3. PICK s \in 0..n - 1, m \in Nat : Circled(offer, k, p, s, m)
    BY <1>1, <1>2 DEF InTurn
  <1>4. PICK p2 \in 0..n - 1 : p2 = (i + 1) % n /\ p2 % n = p2 /\ p2 = IF p = n - 1 THEN 0 ELSE p + 1
    <2>1. /\ (i + 1) % n = IF i % n = n - 1 THEN 0 ELSE (i % n) + 1
          /\ ((i + 1) % n) % n = (i + 1) % n
      BY <1>1, OneFurther
    <2>2. PICK p2 : p2 = (i + 1) % n
      OBVIOUS
    <2>3. p2 = (IF p = n - 1 THEN 0 ELSE p + 1) /\ p2 % n = p2
      BY <1>2, <2>1, <2>2
    <2>4. p2 \in 0..n - 1
      BY <1>2, <2>3
    <2>. QED
      BY <2>2, <2>3, <2>4
  <1>5. n > 0
    BY <1>1
  <1>6. p2 = IF p = n - 1 THEN 0 ELSE p + 1
    BY <1>4
  <1>7. PICK k2 : k2 = [k EXCEPT ![t] = @ + 1]
    OBVIOUS
  <1>8. \A j \in 0..n - 1 : j + 1 \in 1..n /\ offer[j + 1] \in Targets /\ (offer[j + 1] = t => j = p)
    <2> SUFFICES ASSUME NEW j \in 0..n - 1
                 PROVE  j + 1 \in 1..n /\ offer[j + 1] \in Targets /\ (offer[j + 1] = t => j = p)
      OBVIOUS
    <2>1. j + 1 \in 1..n /\ p + 1 \in 1..n
      OBVIOUS
    <2>2. offer[j + 1] \in Targets
      BY <1>1, <2>1
    <2>3. offer[j + 1] = t => j + 1 = p + 1
      BY <1>1, <1>2, <2>1 DEF Distinct
    <2>. QED
      BY <2>1, <2>2, <2>3
  <1>9. \A j \in 0..n - 1 : k2[offer[j + 1]] = IF j = p THEN k[offer[j + 1]] + 1 ELSE k[offer[j + 1]]
    BY <1>1, <1>2, <1>7, <1>8
  <1>10. \A j \in 0..n - 1 : k[offer[j + 1]] = IF Passed(j, s, p) THEN m + 1 ELSE m
    BY <1>1, <1>3 DEF Circled
  <1>11. \A j \in 0..n - 1 : Passed(j, s, p) <=> IF s <= p THEN s <= j /\ j < p ELSE s <= j \/ j < p
    BY DEF Passed
  <1>12. CASE p2 = s
    <2>1. \A j \in 0..n - 1 : ~Passed(j, s, p2) /\ (Passed(j, s, p) \/ j = p) /\ ~(Passed(j, s, p) /\ j = p)
      BY <1>12, <1>5, <1>6 DEF Passed
    <2>2. \A j \in 0..n - 1 : k2[offer[j + 1]] = m + 1
      BY <1>9, <1>10, <2>1
    <2>3. Circled(offer, k2, p2, s, m + 1)
      BY <1>1, <2>1, <2>2 DEF Circled
    <2>4. m + 1 \in Nat
      OBVIOUS
    <2>. QED
      BY <1>1, <1>4, <1>7, <2>3, <2>4 DEF InTurn
  <1>13. CASE p2 # s
    <2>1. \A j \in 0..n - 1 : /\ Passed(j, s, p2) <=> (Passed(j, s, p) \/ j = p)
                              /\ ~(Passed(j, s, p) /\ j = p)
      BY <1>13, <1>5, <1>6 DEF Passed
    <2>2. \A j \in 0..n - 1 : k2[offer[j + 1]] = IF Passed(j, s, p2) THEN m + 1 ELSE m
      BY <1>9, <1>10, <2>1
    <2>3. Circled(offer, k2, p2, s, m)
      BY <1>1, <2>2 DEF Circled
    <2>. QED
      BY <1>1, <1>4, <1>7, <2>3 DEF InTurn
  <1>. QED
    BY <1>12, <1>13

LEMMA TurnsAreEven ==
  ASSUME NEW offer \in Seq(Targets), NEW k, NEW i \in Nat, InTurn(offer, k, i)
  PROVE  \A t, u \in ToSet(offer) : k[t] <= k[u] + 1
  <1> SUFFICES ASSUME NEW t \in ToSet(offer), NEW u \in ToSet(offer) PROVE k[t] <= k[u] + 1
    OBVIOUS
  <1>1. PICK n \in Nat : n = Len(offer) /\ DOMAIN offer = 1..n
    OBVIOUS
  <1>2. PICK s \in 0..n - 1, m \in Nat : Circled(offer, k, i % n, s, m)
    BY <1>1 DEF InTurn
  <1>3. \A x \in ToSet(offer) : k[x] = m \/ k[x] = m + 1
    <2> SUFFICES ASSUME NEW x \in ToSet(offer) PROVE k[x] = m \/ k[x] = m + 1
      OBVIOUS
    <2>1. PICK l \in 1..n : x = offer[l]
      BY <1>1, MembersAre
    <2>2. l - 1 \in 0..n - 1 /\ (l - 1) + 1 = l
      OBVIOUS
    <2>. QED
      BY <1>1, <1>2, <2>1, <2>2 DEF Circled
  <1>4. (k[t] = m \/ k[t] = m + 1) /\ (k[u] = m \/ k[u] = m + 1)
    BY <1>3
  <1>. QED
    BY <1>4

-----------------------------------------------------------------------------
(* Weighted round robin. *)

\* Total and the count of turns are such sums.
LEMMA TotalIs == ASSUME NEW offer PROVE Total(offer) = Sums(Weight, ToSet(offer))[ToSet(offer)]
  BY DEF Total, MapThenSumSet, MapThenFoldSet, Sums, Some
LEMMA CountIs ==
  ASSUME NEW r, NEW offer
  PROVE  MapThenSumSet(LAMBDA t : turns[r][t], ToSet(offer)) = Sums(turns[r], ToSet(offer))[ToSet(offer)]
  BY DEF MapThenSumSet, MapThenFoldSet, Sums, Some

LEMMA TotalIsPositive ==
  ASSUME NEW offer \in Seq(Targets), offer # <<>>
  PROVE  Total(offer) \in Nat \ {0}
  <1>1. ToSet(offer) \subseteq Targets /\ IsFiniteSet(ToSet(offer)) /\ ToSet(offer) # {}
    BY MembersAre
  <1>2. PICK t \in ToSet(offer) : TRUE
    BY <1>1
  <1>3. \A u \in ToSet(offer) : Weight[u] \in Nat /\ Weight[u] > 0
    BY <1>1, ProxyAssumption
  <1>4. ToSet(offer) \in SUBSET ToSet(offer)
    OBVIOUS
  <1>5. Sums(Weight, ToSet(offer))[ToSet(offer)] \in Nat
    BY <1>1, <1>3, <1>4, SumBounds
  <1>6. Weight[t] <= Sums(Weight, ToSet(offer))[ToSet(offer)]
    BY <1>1, <1>3, SumBounds
  <1>. QED
    BY <1>2, <1>3, <1>5, <1>6, TotalIs

\* What the targets in S are owed, w, after the turns k: nothing altogether, and
\* each what its weight earned it in n turns, less what its own turns cost.
Owed(S, k, w, n, all) ==
  /\ Sums(w, S)[S] = 0
  /\ \A t \in S : k[t] * all + w[t] = n * Weight[t] /\ w[t] > -all
Weighed(offer, k, w) ==
  Owed(ToSet(offer), k, w, Sums(k, ToSet(offer))[ToSet(offer)], Total(offer))

LEMMA WeighingBegins ==
  ASSUME NEW offer \in Seq(Targets), offer # <<>>, NEW w \in [Targets -> Int],
         \A t \in ToSet(offer) : w[t] = 0
  PROVE  Weighed(offer, NoTurns, w)
  <1>1. PICK S : S = ToSet(offer)
    OBVIOUS
  <1>2. S \subseteq Targets /\ IsFiniteSet(S)
    BY <1>1, MembersAre
  <1>3. \A t \in S : NoTurns[t] = 0
    BY <1>2 DEF NoTurns
  <1>4. Sums(NoTurns, S)[S] = 0
    BY <1>2, <1>3, SumOfZeros
  <1>5. \A t \in S : w[t] = 0
    BY <1>1
  <1>6. Sums(w, S)[S] = 0
    BY <1>2, <1>5, SumOfZeros
  <1>7. PICK all \in Nat : all = Total(offer) /\ all > 0
    BY TotalIsPositive
  <1>8. \A t \in S : Weight[t] \in Nat
    BY <1>2, ProxyAssumption
  <1>9. \A t \in S : NoTurns[t] * all + w[t] = 0 * Weight[t] /\ w[t] > -all
    BY <1>3, <1>5, <1>7, <1>8
  <1>. QED
    BY <1>1, <1>4, <1>6, <1>7, <1>9 DEF Weighed, Owed

\* One turn, in numbers.
LEMMA OneTurn ==
  ASSUME NEW k \in Int, NEW w \in Int, NEW n \in Int, NEW c \in Int, NEW all \in Int,
         k * all + w = n * c
  PROVE  /\ k * all + (w + c) = (n + 1) * c
         /\ (k + 1) * all + ((w + c) - all) = (n + 1) * c
  <1>1. (n + 1) * c = n * c + c
    OBVIOUS
  <1>2. (k + 1) * all = k * all + all
    OBVIOUS
  <1>3. PICK a \in Int : a = k * all
    OBVIOUS
  <1>4. PICK b \in Int : b = n * c
    OBVIOUS
  <1>5. a + w = b
    BY <1>3, <1>4
  <1>. QED
    BY <1>1, <1>2, <1>3, <1>4, <1>5

Highest(gained, offer, t) == \A u \in ToSet(offer) : gained[u] <= gained[t]
Turned(k, t) == [k EXCEPT ![t] = @ + 1]
Paid(gained, t, price) == [gained EXCEPT ![t] = @ - price]

LEMMA WeighingGoesOn ==
  ASSUME NEW offer \in Seq(Targets), offer # <<>>, NEW k \in [Targets -> Nat],
         NEW w \in [Targets -> Int], Weighed(offer, k, w),
         NEW t \in ToSet(offer), Highest(Gained(offer, w), offer, t)
  PROVE  Weighed(offer, Turned(k, t), Paid(Gained(offer, w), t, Total(offer)))
  <1>1. PICK S : S = ToSet(offer)
    OBVIOUS
  <1>2. PICK gained : gained = Gained(offer, w)
    OBVIOUS
  <1>3. PICK k2 : k2 = Turned(k, t)
    OBVIOUS
  <1>4. PICK w2 : w2 = Paid(gained, t, Total(offer))
    OBVIOUS
  <1>5. S \subseteq Targets /\ IsFiniteSet(S) /\ t \in S /\ S \in SUBSET S
    BY <1>1, MembersAre
  <1>6. PICK all \in Nat : all = Total(offer) /\ all > 0
    BY TotalIsPositive
  <1>7. PICK n : n = Sums(k, S)[S]
    OBVIOUS
  <1>8. /\ Sums(w, S)[S] = 0
        /\ \A u \in S : k[u] * all + w[u] = n * Weight[u] /\ w[u] > -all
    BY <1>1, <1>6, <1>7 DEF Weighed, Owed
  <1>9. \A u \in S : u \in Targets /\ k[u] \in Nat /\ w[u] \in Int /\ Weight[u] \in Nat /\ Weight[u] > 0
    <2>1. \A u \in Targets : Weight[u] \in Nat /\ Weight[u] > 0
      BY ProxyAssumption
    <2>2. \A u \in Targets : k[u] \in Nat /\ w[u] \in Int
      OBVIOUS
    <2>. QED
      BY <1>5, <2>1, <2>2
  <1>10. \A u \in S : gained[u] = w[u] + Weight[u] /\ gained[u] \in Int
    BY <1>1, <1>9, <1>2 DEF Gained
  <1>11. /\ \A u \in S \ {t} : w2[u] = gained[u] /\ k2[u] = k[u]
        /\ w2[t] = gained[t] - all /\ k2[t] = k[t] + 1
    <2>1. gained \in [Targets -> Int]
      <3>1. \A u \in Targets : w[u] \in Int /\ Weight[u] \in Int
        BY ProxyAssumption
      <3>. QED
        BY <1>2, <3>1 DEF Gained
    <2>2. \A u \in S \ {t} : u \in Targets /\ t \in Targets
      BY <1>5
    <2>3. t \in Targets
      BY <1>5
    <2>4. \A u \in S \ {t} : w2[u] = gained[u]
      BY <1>4, <2>1, <2>2 DEF Paid
    <2>5. \A u \in S \ {t} : k2[u] = k[u]
      BY <1>3, <2>2 DEF Turned
    <2>6. w2[t] = gained[t] - all
      BY <1>6, <1>4, <2>1, <2>3 DEF Paid
    <2>7. k2[t] = k[t] + 1
      BY <1>3, <2>3 DEF Turned
    <2>. QED
      BY <2>4, <2>5, <2>6, <2>7
  <1>12. \A u \in S : w2[u] \in Int /\ k2[u] \in Nat
    <2> SUFFICES ASSUME NEW u \in S PROVE w2[u] \in Int /\ k2[u] \in Nat
      OBVIOUS
    <2>1. k[u] \in Nat /\ gained[u] \in Int
      BY <1>9, <1>10
    <2>2. CASE u = t
      <3>1. w2[u] = gained[u] - all /\ k2[u] = k[u] + 1
        BY <1>11, <2>2
      <3>2. all \in Int
        BY <1>6
      <3>. QED
        BY <2>1, <3>1, <3>2
    <2>3. CASE u # t
      BY <1>11, <2>1, <2>3
    <2>. QED
      BY <2>2, <2>3
  <1>13. Sums(gained, S)[S] = all
    <2>1. Sums(Weight, S)[S] = all
      BY <1>1, <1>6, TotalIs
    <2>2. Summands(w, Weight, gained, S)
      BY <1>9, <1>10 DEF Summands
    <2>3. SumsAgree(w, Weight, gained, S)
      BY <1>5, <2>2, SumPlus
    <2>4. Sums(gained, S)[S] = Sums(w, S)[S] + Sums(Weight, S)[S]
      BY <1>5, <2>3 DEF SumsAgree
    <2>. QED
      BY <1>6, <1>8, <2>1, <2>4
  <1>14. Sums(w2, S)[S] = 0
    <2>1. \A u \in S : gained[u] \in Int /\ w2[u] \in Int
      BY <1>10, <1>12
    <2>2. \A u \in S \ {t} : w2[u] = gained[u]
      BY <1>11
    <2>3. Sums(w2, S)[S] = Sums(gained, S)[S] + (w2[t] - gained[t])
      BY <1>5, <2>1, <2>2, SumChange
    <2>4. gained[t] \in Int
      BY <1>5, <1>10
    <2>. QED
      BY <1>6, <1>11, <1>13, <2>3, <2>4
  <1>15. Sums(k2, S)[S] = n + 1 /\ n \in Int
    <2>1. \A u \in S : k[u] \in Int /\ k2[u] \in Int
      BY <1>9, <1>12
    <2>2. \A u \in S \ {t} : k2[u] = k[u]
      BY <1>11
    <2>3. Sums(k2, S)[S] = Sums(k, S)[S] + (k2[t] - k[t])
      BY <1>5, <2>1, <2>2, SumChange
    <2>4. n \in Int
      BY <1>5, <1>7, <2>1, SumIsInt
    <2>5. k[t] \in Nat
      BY <1>5, <1>9
    <2>. QED
      BY <1>7, <1>11, <2>3, <2>4, <2>5
  <1>16. gained[t] > 0
    <2> SUFFICES ASSUME ~(gained[t] > 0) PROVE FALSE
      OBVIOUS
    <2>1. \A u \in S : gained[u] \in Int /\ gained[u] <= 0
      <3>1. \A u \in S : gained[u] \in Int /\ gained[u] <= gained[t]
        BY <1>1, <1>10, <1>2 DEF Highest
      <3>2. gained[t] \in Int
        BY <1>5, <3>1
      <3>. QED
        BY <3>1, <3>2
    <2>2. Sums(gained, S)[S] <= 0
      BY <1>5, <2>1, SumOfNone
    <2>. QED
      BY <1>6, <1>13, <2>2
  <1>17. \A u \in S : k2[u] * all + w2[u] = (n + 1) * Weight[u] /\ w2[u] > -all
    <2> SUFFICES ASSUME NEW u \in S PROVE k2[u] * all + w2[u] = (n + 1) * Weight[u] /\ w2[u] > -all
      OBVIOUS
    <2>1. PICK a \in Nat, b \in Int, c \in Nat : a = k[u] /\ b = w[u] /\ c = Weight[u] /\ c > 0
      BY <1>9
    <2>2. a * all + b = n * c /\ b > -all
      BY <1>8, <2>1
    <2>3. /\ a * all + (b + c) = (n + 1) * c
          /\ (a + 1) * all + ((b + c) - all) = (n + 1) * c
      <3>1. a \in Int /\ b \in Int /\ n \in Int /\ c \in Int /\ all \in Int /\ a * all + b = n * c
        BY <1>6, <1>15, <2>1, <2>2
      <3>. QED
        BY <3>1, OneTurn
    <2>4. CASE u = t
      <3>1. k2[u] = a + 1 /\ w2[u] = (b + c) - all /\ b + c > 0
        BY <1>10, <1>11, <1>16, <2>1, <2>4
      <3>2. (b + c) - all > -all
        BY <1>6, <3>1
      <3>. QED
        BY <2>1, <2>3, <3>1, <3>2
    <2>5. CASE u # t
      <3>1. k2[u] = a /\ w2[u] = b + c
        BY <1>10, <1>11, <2>1, <2>5
      <3>2. b + c > -all
        <4>1. all \in Int /\ c > 0 /\ b > -all
          BY <1>6, <2>1, <2>2
        <4>. QED
          BY <4>1
      <3>. QED
        BY <2>1, <2>3, <3>1, <3>2
    <2>. QED
      BY <2>4, <2>5
  <1>. QED
    BY <1>1, <1>6, <1>14, <1>15, <1>17, <1>2, <1>3, <1>4 DEF Weighed, Owed

\* A whole number of full rounds, in numbers.
Leaves(k, w, c, all, rounds) == k * all + w = (rounds * all) * c /\ w > -all
Settles(k, w, c, rounds) == w >= 0 /\ (w = 0 => k = rounds * c)
LEMMA NothingLeft ==
  ASSUME NEW k \in Nat, NEW w \in Int, NEW c \in Nat, NEW all \in Nat, all > 0, NEW rounds \in Nat,
         Leaves(k, w, c, all, rounds)
  PROVE  Settles(k, w, c, rounds)
  <1> USE DEF Leaves, Settles
  <1>1. PICK d \in Int : d = rounds * c - k
    OBVIOUS
  <1>2. all * d = w
    <2>1. all * d = all * (rounds * c) - all * k
      BY <1>1, SMTT(20)
    <2>2. (rounds * all) * c = all * (rounds * c)
      BY SMTT(20)
    <2>3. k * all = all * k
      OBVIOUS
    <2>. QED
      BY <2>1, <2>2, <2>3
  <1>3. d >= 0
    <2>1. d <= -1 => all * d <= -all
      BY SMTT(20)
    <2>. QED
      BY <1>2, <2>1
  <1>4. all * d >= 0
    BY <1>3, SMTT(20)
  <1>5. d # 0 => all * d # 0
    BY SMTT(20)
  <1>. QED
    BY <1>1, <1>2, <1>4, <1>5

\* Nobody has a whole turn too many, and after full rounds all is as weighted.
Shares(offer, k, n) ==
  \A t \in ToSet(offer) :
    /\ k[t] * Total(offer) - n * Weight[t] < Total(offer)
    /\ \A rounds \in 0..n : n = rounds * Total(offer) => k[t] = rounds * Weight[t]

LEMMA SharesFollow ==
  ASSUME NEW offer \in Seq(Targets), offer # <<>>, NEW k \in [Targets -> Nat],
         NEW w \in [Targets -> Int], Weighed(offer, k, w),
         NEW n, n = Sums(k, ToSet(offer))[ToSet(offer)]
  PROVE  Shares(offer, k, n)
  <1>1. PICK S : S = ToSet(offer)
    OBVIOUS
  <1>2. S \subseteq Targets /\ IsFiniteSet(S) /\ S \in SUBSET S
    BY <1>1, MembersAre
  <1>3. PICK all \in Nat : all = Total(offer) /\ all > 0
    BY TotalIsPositive
  <1>4. /\ Sums(w, S)[S] = 0
        /\ \A u \in S : k[u] * all + w[u] = n * Weight[u] /\ w[u] > -all
    BY <1>1, <1>3 DEF Weighed, Owed
  <1>5. \A u \in S : k[u] \in Nat /\ w[u] \in Int /\ Weight[u] \in Nat
    <2>1. \A u \in Targets : Weight[u] \in Nat
      BY ProxyAssumption
    <2>2. \A u \in Targets : k[u] \in Nat /\ w[u] \in Int
      OBVIOUS
    <2>. QED
      BY <1>2, <2>1, <2>2
  <1>6. n \in Nat
    <2>1. \A u \in S : k[u] \in Nat
      BY <1>5
    <2>. QED
      BY <1>1, <1>2, <2>1, SumBounds
  <1>7. ASSUME NEW t \in S PROVE k[t] * all - n * Weight[t] < all
    <2>1. PICK x \in Int : x = k[t] * all
      BY <1>3, <1>5
    <2>2. PICK c \in Nat : c = Weight[t]
      BY <1>5
    <2>3. n * c \in Int
      BY <1>6
    <2>4. PICK y \in Int : y = n * c
      BY <2>3
    <2>5. PICK u \in Int : u = w[t]
      BY <1>5
    <2>6. x + u = y /\ u > -all
      BY <1>4, <2>1, <2>2, <2>4, <2>5
    <2>7. x - y < all
      BY <1>3, <2>6
    <2>. QED
      BY <2>1, <2>2, <2>4, <2>7
  <1>8. ASSUME NEW rounds \in 0..n, n = rounds * all
        PROVE  \A t \in S : k[t] = rounds * Weight[t]
    <2>1. rounds \in Nat
      BY <1>6
    <2>2. \A u \in S : w[u] >= 0 /\ (w[u] = 0 => k[u] = rounds * Weight[u])
      <3> SUFFICES ASSUME NEW u \in S PROVE w[u] >= 0 /\ (w[u] = 0 => k[u] = rounds * Weight[u])
        OBVIOUS
      <3>1. PICK a \in Nat, b \in Int, c \in Nat : a = k[u] /\ b = w[u] /\ c = Weight[u]
        BY <1>5
      <3>2. Leaves(a, b, c, all, rounds)
        BY <1>4, <1>8, <3>1 DEF Leaves
      <3>3. Settles(a, b, c, rounds)
        <4>1. a \in Nat /\ b \in Int /\ c \in Nat /\ all \in Nat /\ all > 0 /\ rounds \in Nat
          BY <1>3, <2>1
        <4>. QED
          BY <3>2, <4>1, NothingLeft, Zenon
      <3>. QED
        BY <3>1, <3>3 DEF Settles
    <2>3. \A u \in S : w[u] \in Nat
      BY <1>5, <2>2
    <2>4. \A u \in S : w[u] <= Sums(w, S)[S]
      BY <1>2, <2>3, SumBounds
    <2>5. \A u \in S : w[u] = 0
      BY <1>4, <2>3, <2>4
    <2>. QED
      BY <2>2, <2>5
  <1>. QED
    BY <1>1, <1>3, <1>7, <1>8 DEF Shares

-----------------------------------------------------------------------------
(* The inductive invariant. *)

\* A rule has the first of its planned targets.
Begun(ts, plan) == Len(ts) <= Len(plan) /\ \A i \in 1..Len(ts) : ts[i] = plan[i]

ConfigOK ==
  /\ listed \subseteq Rules /\ default \in listed \cup {None}
  /\ targets \in [Rules -> Seq(Targets)] /\ enabled \in [Targets -> BOOLEAN]
  /\ priority \in [Rules -> Int] /\ marked \in [Rules -> BOOLEAN] /\ mode \in [Rules -> Modes]
  /\ \A r \in Rules : Begun(targets[r], Planned[r])

BalanceOK ==
  /\ rr \in [Rules -> Nat] /\ wrr \in [Rules -> [Targets -> Int]]
  /\ turns \in [Rules -> [Targets -> Nat]] /\ level \in [Rules -> BOOLEAN]

Steps == {"idle", "begun", "ruled", "fallback", "listed", "forwarding", "finally"}
Ending == {"none", "413", "404", "no target"} \cup Outcomes

RequestsOK ==
  /\ pc \in [Requests -> Steps] /\ status \in [Requests -> Ending] /\ covered \in [Requests -> BOOLEAN]
  /\ rule \in [Requests -> Rules \cup {None}] /\ target \in [Requests -> Targets \cup {NoTarget}]
  /\ DOMAIN seen = Requests /\ DOMAIN kind = Requests

\* What a request has by the step it is at: an outcome once it has ended, a rule
\* from the resolution on, an offer between listing and choosing, a target after.
InStep(q) ==
  /\ pc[q] # "finally" => status[q] = "none"
  /\ pc[q] \in {"idle", "begun"} => rule[q] = None
  /\ pc[q] = "ruled" => rule[q] # None
  /\ pc[q] \in {"idle", "begun", "ruled", "fallback", "listed"} => target[q] = NoTarget
  /\ pc[q] = "listed" => seen[q] \in Rules \X (Seq(Targets) \ {<<>>})

Gauges == metrics \in [Buckets -> [requests : Nat, responses : Nat, active : Nat]]
Sheltered == \A q \in Requests : covered[q] => Covers

FairAt(m, offer, k, lev, w, i) ==
  offer # <<>> =>
    /\ m = "round_robin" => InTurn(offer, k, i)
    /\ m = "weighted" /\ lev => Weighed(offer, k, w)
Fair == \A r \in Rules : FairAt(mode[r], EnabledOf(r), turns[r], level[r], wrr[r], rr[r])

ProxyTypeOK == ConfigOK /\ BalanceOK /\ RequestsOK /\ Gauges
ProxyInv ==
  /\ ProxyTypeOK
  /\ \A q \in Requests : InStep(q)
  /\ GaugesExact /\ Sheltered /\ DefaultCovers /\ Fair

-----------------------------------------------------------------------------
(* The configuration. *)

LEMMA ConfigBegins == Init => ConfigOK
  <1> SUFFICES ASSUME Init PROVE ConfigOK
    OBVIOUS
  <1>1. listed = Built /\ Built \subseteq Rules /\ Rules \subseteq Nat /\ IsFiniteSet(Rules)
    BY ProxyAssumption DEF Init
  <1>2. default \in listed \cup {None}
    <2>1. PICK D : D = {r \in Built : IsDefault[r]}
      OBVIOUS
    <2>2. default = IF D # {} THEN Max(D) ELSE None
      BY <2>1 DEF Init
    <2>3. D # {} => Max(D) \in D
      <3> SUFFICES ASSUME D # {} PROVE Max(D) \in D
        OBVIOUS
      <3>1. D \subseteq Nat /\ D \subseteq Rules
        BY <1>1, <2>1
      <3>2. IsFiniteSet(D)
        BY <1>1, <3>1, FS_Subset
      <3>3. PICK R : R = {p \in Nat \X Nat : p[1] >= p[2]}
        OBVIOUS
      <3>4. \A x, y \in D : <<x, y>> \in R <=> x >= y
        BY <3>1, <3>3
      <3>5. \A x, y \in D : <<x, y>> \in R \/ <<y, x>> \in R
        <4>1. \A x, y \in D : x >= y \/ y >= x
          BY <3>1
        <4>. QED
          BY <3>4, <4>1
      <3>6. \A x, y, z \in D : <<x, y>> \in R /\ <<y, z>> \in R => <<x, z>> \in R
        <4> SUFFICES ASSUME NEW x \in D, NEW y \in D, NEW z \in D, <<x, y>> \in R, <<y, z>> \in R
                     PROVE  <<x, z>> \in R
          OBVIOUS
        <4>1. x >= y /\ y >= z
          BY <3>4
        <4>2. x \in Nat /\ y \in Nat /\ z \in Nat
          BY <3>1
        <4>3. x >= z
          BY <4>1, <4>2
        <4>. QED
          BY <3>4, <4>3
      <3>7. \E x \in D : \A y \in D : <<x, y>> \in R
        BY <3>2, <3>5, <3>6, FirstOf
      <3>8. \E x \in D : \A y \in D : x >= y
        BY <3>4, <3>7
      <3>. QED
        BY <3>8 DEF Max
    <2>. QED
      BY <1>1, <2>1, <2>2, <2>3
  <1>3. /\ targets \in [Rules -> Seq(Targets)] /\ enabled \in [Targets -> BOOLEAN]
        /\ priority \in [Rules -> Int] /\ marked \in [Rules -> BOOLEAN] /\ mode \in [Rules -> Modes]
    BY ProxyAssumption DEF Init
  <1>4. ASSUME NEW r \in Rules PROVE Begun(targets[r], Planned[r])
    <2>1. Planned[r] \in Seq(Targets) /\ targets[r] = IF r \in Built THEN Planned[r] ELSE <<>>
      BY ProxyAssumption DEF Init
    <2>2. Begun(Planned[r], Planned[r]) /\ Begun(<<>>, Planned[r])
      BY <2>1 DEF Begun
    <2>. QED
      BY <2>1, <2>2
  <1>. QED
    BY <1>1, <1>2, <1>3, <1>4 DEF ConfigOK

\* add_rule makes a rule that is marked the default one; close() has none left.
LEMMA ConfigKept ==
  ASSUME ConfigOK, [Next]_vars
  PROVE  ConfigOK'
  <1> USE DEF ConfigOK
  <1>1. CASE UNCHANGED config
    BY <1>1 DEF config
  <1>2. ASSUME NEW q \in Requests,
               BeginRequest(q) \/ ResolveRule(q) \/ ListTargets(q) \/ FallBack(q)
                 \/ ChooseTarget(q) \/ Forward(q) \/ Finish(q)
        PROVE  ConfigOK'
    <2>1. UNCHANGED config
      BY <1>2 DEF BeginRequest, ResolveRule, ListTargets, FallBack, ChooseTarget, Forward, Finish
    <2>. QED
      BY <1>1, <2>1
  <1>3. ASSUME NEW r \in Rules, AddRule(r) PROVE ConfigOK'
    BY <1>3 DEF AddRule, Registers
  <1>4. ASSUME NEW r \in Rules, AddTarget(r) PROVE ConfigOK'
    <2>1. /\ targets' = [targets EXCEPT ![r] = Append(@, Planned[r][Len(@) + 1])]
          /\ Len(targets[r]) < Len(Planned[r])
          /\ UNCHANGED <<listed, default, priority, marked, mode, enabled>>
      BY <1>4 DEF AddTarget
    <2>2. Planned[r] \in Seq(Targets) /\ targets[r] \in Seq(Targets) /\ Begun(targets[r], Planned[r])
      BY ProxyAssumption
    <2>3. PICK l \in Nat : l = Len(targets[r]) /\ DOMAIN targets[r] = 1..l
      BY <2>2
    <2>4. PICK t \in Targets : t = Planned[r][l + 1]
      BY <2>1, <2>2, <2>3
    <2>5. PICK ts : ts = Append(targets[r], t)
      OBVIOUS
    <2>6. ts \in Seq(Targets) /\ Len(ts) = l + 1 /\ ts[l + 1] = t /\ \A i \in 1..l : ts[i] = targets[r][i]
      BY <2>2, <2>3, <2>5
    <2>7. targets' = [targets EXCEPT ![r] = ts]
      BY <2>1, <2>3, <2>4, <2>5
    <2>8. Begun(ts, Planned[r])
      <3>1. Len(ts) <= Len(Planned[r])
        BY <2>1, <2>2, <2>3, <2>6
      <3>2. ASSUME NEW i \in 1..Len(ts) PROVE ts[i] = Planned[r][i]
        <4>1. CASE i = l + 1
          BY <2>4, <2>6, <4>1
        <4>2. CASE i # l + 1
          <5>1. i \in 1..l
            BY <2>6, <4>2
          <5>. QED
            BY <2>2, <2>3, <2>6, <5>1 DEF Begun
        <4>. QED
          BY <4>1, <4>2
      <3>. QED
        BY <3>1, <3>2 DEF Begun
    <2>9. targets' \in [Rules -> Seq(Targets)]
      BY <2>6, <2>7
    <2>10. \A s \in Rules : Begun(targets'[s], Planned[s])
      BY <2>7, <2>8
    <2>. QED
      BY <2>1, <2>9, <2>10
  <1>5. ASSUME NEW r \in Rules, Rematch(r) PROVE ConfigOK'
    BY <1>5 DEF Rematch
  <1>6. ASSUME NEW r \in Rules, SetPriority(r) PROVE ConfigOK'
    BY <1>6, ProxyAssumption DEF SetPriority
  <1>7. ASSUME NEW r \in Rules, SetBalance(r) PROVE ConfigOK'
    BY <1>7 DEF SetBalance
  <1>8. ASSUME NEW r \in Rules, SetDefault(r) PROVE ConfigOK'
    BY <1>8 DEF SetDefault
  <1>9. ASSUME NEW t \in Targets, Toggle(t) PROVE ConfigOK'
    BY <1>9 DEF Toggle
  <1>10. CASE Close
    BY <1>10 DEF Close
  <1>. QED
    BY <1>1, <1>2, <1>3, <1>4, <1>5, <1>6, <1>7, <1>8, <1>9, <1>10 DEF Next, vars

\* What is offered for a rule are different targets of it.
LEMMA OffersAre ==
  ASSUME ConfigOK, NEW r \in Rules
  PROVE  EnabledOf(r) \in Seq(Targets) /\ Distinct(EnabledOf(r))
  <1>1. targets[r] \in Seq(Targets) /\ Planned[r] \in Seq(Targets) /\ IsInjective(Planned[r])
        /\ Begun(targets[r], Planned[r])
    BY ProxyAssumption DEF ConfigOK
  <1>2. Distinct(targets[r])
    BY <1>1 DEF Distinct, IsInjective, Begun
  <1>. QED
    BY <1>1, <1>2, EnabledIs, SwitchedIs

-----------------------------------------------------------------------------
(* The steps of requests. *)

\* Everything but dispatch() is a change of the configuration.
LEMMA StepIs ==
  ASSUME [Next]_vars
  PROVE  \/ UNCHANGED vars
         \/ Reconfigures
         \/ \E q \in Requests : \/ BeginRequest(q) \/ ResolveRule(q) \/ ListTargets(q) \/ FallBack(q)
                                \/ ChooseTarget(q) \/ Forward(q) \/ Finish(q)
  BY DEF Next, AddRule, AddTarget, Rematch, SetPriority, SetBalance, SetDefault, Toggle, Close

\* The best of the rules that match exists, and there is no rule only without a default.
LEMMA ResolveIs ==
  ASSUME ConfigOK, NEW k
  PROVE  Resolve(k) \in Rules \cup {None} /\ (Resolve(k) = None => default = None)
  <1>1. PICK rows : rows = {r \in listed : Accepts(r, k)}
    OBVIOUS
  <1>2. Resolve(k) = IF rows # {} THEN CHOOSE r \in rows : \A s \in rows : Before(r, s) ELSE default
    BY <1>1 DEF Resolve
  <1>3. rows \subseteq Rules /\ default \in Rules \cup {None} /\ None \notin Rules
    BY <1>1, ProxyAssumption DEF ConfigOK, None
  <1>4. ASSUME rows # {} PROVE \E r \in rows : \A s \in rows : Before(r, s)
    <2>1. IsFiniteSet(rows)
      BY <1>3, ProxyAssumption, FS_Subset
    <2>2. \A r \in rows : r \in Nat /\ priority[r] \in Int /\ Specificity(r) \in Int
      BY <1>3, ProxyAssumption DEF ConfigOK, Specificity
    <2>3. PICK R : R = {p \in rows \X rows : Before(p[1], p[2])}
      OBVIOUS
    <2>4. \A x, y \in rows : <<x, y>> \in R <=> Before(x, y)
      BY <2>3
    <2>5. \A x, y \in rows : <<x, y>> \in R \/ <<y, x>> \in R
      <3> SUFFICES ASSUME NEW x \in rows, NEW y \in rows PROVE Before(x, y) \/ Before(y, x)
        BY <2>4
      <3>. QED
        BY <2>2 DEF Before
    <2>6. \A x, y, z \in rows : <<x, y>> \in R /\ <<y, z>> \in R => <<x, z>> \in R
      <3> SUFFICES ASSUME NEW x \in rows, NEW y \in rows, NEW z \in rows, Before(x, y), Before(y, z)
                   PROVE  Before(x, z)
        BY <2>4
      <3>. QED
        BY <2>2 DEF Before
    <2>7. \E r \in rows : \A s \in rows : <<r, s>> \in R
      BY <1>4, <2>1, <2>5, <2>6, FirstOf
    <2>. QED
      BY <2>4, <2>7
  <1>5. rows # {} => Resolve(k) \in rows
    BY <1>2, <1>4
  <1>. QED
    BY <1>2, <1>3, <1>5

LEMMA StepsKept ==
  ASSUME ConfigOK, RequestsOK, \A q \in Requests : InStep(q), [Next]_vars
  PROVE  RequestsOK' /\ \A q \in Requests : InStep(q)'
  <1>1. None \notin Rules /\ NoTarget \notin Targets
    BY ProxyAssumption DEF None
  <1>2. CASE UNCHANGED vars
    BY <1>2 DEF vars, perRequest, RequestsOK, InStep
  <1>3. CASE Reconfigures
    <2>1. UNCHANGED <<pc, kind, rule, seen, target, status>>
      BY <1>3 DEF Reconfigures, perRequest
    <2>2. covered' \in [Requests -> BOOLEAN]
      BY <1>3 DEF Reconfigures, StillCovered, Covers, RequestsOK
    <2>. QED
      BY <2>1, <2>2 DEF RequestsOK, InStep
  <1>4. ASSUME NEW q \in Requests, BeginRequest(q)
        PROVE  RequestsOK' /\ \A p \in Requests : InStep(p)'
    <2>1. Covers \in BOOLEAN
      BY DEF Covers
    <2>2. /\ pc[q] = "idle" /\ pc' = [pc EXCEPT ![q] = "begun"] /\ covered' = [covered EXCEPT ![q] = Covers]
          /\ UNCHANGED <<rule, seen, target, status>> /\ DOMAIN kind' = DOMAIN kind
      BY <1>4 DEF BeginRequest
    <2>3. RequestsOK'
      BY <2>1, <2>2 DEF RequestsOK, Steps
    <2>4. ASSUME NEW p \in Requests PROVE InStep(p)'
      BY <2>2 DEF RequestsOK, InStep
    <2>. QED
      BY <2>3, <2>4
  <1>5. ASSUME NEW q \in Requests, ResolveRule(q)
        PROVE  RequestsOK' /\ \A p \in Requests : InStep(p)'
    <2>1. pc[q] = "begun" /\ UNCHANGED <<kind, seen, target, covered>>
      BY <1>5 DEF ResolveRule
    <2>2. CASE /\ UNCHANGED rule /\ pc' = [pc EXCEPT ![q] = "finally"]
               /\ \E o \in {"413", "404"} : status' = [status EXCEPT ![q] = o]
      <3>1. RequestsOK'
        BY <2>1, <2>2 DEF RequestsOK, Steps, Ending
      <3>2. ASSUME NEW p \in Requests PROVE InStep(p)'
        BY <2>1, <2>2 DEF RequestsOK, InStep
      <3>. QED
        BY <3>1, <3>2
    <2>3. CASE /\ UNCHANGED status /\ pc' = [pc EXCEPT ![q] = "ruled"]
               /\ \E r \in Rules : rule' = [rule EXCEPT ![q] = r]
      <3>1. RequestsOK'
        BY <2>1, <2>3 DEF RequestsOK, Steps
      <3>2. ASSUME NEW p \in Requests PROVE InStep(p)'
        BY <1>1, <2>1, <2>3 DEF RequestsOK, InStep
      <3>. QED
        BY <3>1, <3>2
    <2>. QED
      BY <1>5, <2>2, <2>3, ResolveIs DEF ResolveRule, Ends
  <1>10. ASSUME NEW q \in Requests, NEW r \in Rules, Lists(q, r), EnabledOf(r) # <<>>,
                pc[q] \in {"ruled", "fallback"}, UNCHANGED <<kind, rule, target, covered>>
         PROVE  RequestsOK' /\ \A p \in Requests : InStep(p)'
    <2>1. PICK offer \in Seq(Targets) : offer = EnabledOf(r) /\ offer # <<>>
      BY <1>10, OffersAre
    <2>2. /\ seen' = [seen EXCEPT ![q] = <<r, offer>>]
          /\ pc' = [pc EXCEPT ![q] = "listed"] /\ UNCHANGED status
      BY <1>10, <2>1 DEF Lists
    <2>3. RequestsOK'
      BY <1>10, <2>2 DEF RequestsOK, Steps
    <2>4. ASSUME NEW p \in Requests PROVE InStep(p)'
      <3>1. CASE p = q
        <4>1. seen'[q] \in Rules \X (Seq(Targets) \ {<<>>})
          BY <2>1, <2>2 DEF RequestsOK
        <4>. QED
          BY <1>10, <2>2, <3>1, <4>1 DEF RequestsOK, InStep
      <3>2. CASE p # q
        BY <1>10, <2>2, <3>2 DEF RequestsOK, InStep
      <3>. QED
        BY <3>1, <3>2
    <2>. QED
      BY <2>3, <2>4
  <1>6. ASSUME NEW q \in Requests, ListTargets(q)
        PROVE  RequestsOK' /\ \A p \in Requests : InStep(p)'
    <2>1. PICK r \in Rules : r = rule[q] /\ pc[q] = "ruled" /\ UNCHANGED <<kind, rule, target, covered>>
      BY <1>6 DEF ListTargets, InStep, RequestsOK
    <2>2. CASE Lists(q, r) /\ EnabledOf(r) # <<>>
      BY <1>10, <2>1, <2>2
    <2>3. CASE pc' = [pc EXCEPT ![q] = "fallback"] /\ UNCHANGED <<seen, status>>
      <3>1. RequestsOK'
        BY <2>1, <2>3 DEF RequestsOK, Steps
      <3>2. ASSUME NEW p \in Requests PROVE InStep(p)'
        BY <2>1, <2>3 DEF RequestsOK, InStep
      <3>. QED
        BY <3>1, <3>2
    <2>. QED
      BY <1>6, <2>1, <2>2, <2>3 DEF ListTargets
  <1>11. ASSUME NEW q \in Requests, FallBack(q)
         PROVE  RequestsOK' /\ \A p \in Requests : InStep(p)'
    <2>1. pc[q] = "fallback" /\ UNCHANGED <<kind, rule, target, covered>>
      BY <1>11 DEF FallBack
    <2>2. CASE FallbackRule # None /\ EnabledOf(FallbackRule) # <<>> /\ Lists(q, FallbackRule)
      <3>1. PICK r \in Rules : r = FallbackRule
        BY <2>2 DEF FallbackRule, ConfigOK
      <3>. QED
        BY <1>10, <2>1, <2>2, <3>1
    <2>3. CASE Ends(q, "no target") /\ UNCHANGED seen
      <3>1. status' = [status EXCEPT ![q] = "no target"] /\ pc' = [pc EXCEPT ![q] = "finally"]
        BY <2>3 DEF Ends
      <3>2. RequestsOK'
        BY <2>1, <2>3, <3>1 DEF RequestsOK, Steps, Ending
      <3>3. ASSUME NEW p \in Requests PROVE InStep(p)'
        BY <2>1, <2>3, <3>1 DEF RequestsOK, InStep
      <3>. QED
        BY <3>2, <3>3
    <2>. QED
      BY <1>11, <2>2, <2>3 DEF FallBack
  <1>7. ASSUME NEW q \in Requests, ChooseTarget(q)
        PROVE  RequestsOK' /\ \A p \in Requests : InStep(p)'
    <2>1. pc[q] = "listed" /\ pc' = [pc EXCEPT ![q] = "forwarding"]
          /\ UNCHANGED <<kind, rule, seen, status, covered>>
      BY <1>7 DEF ChooseTarget
    <2>2. PICK t \in Targets : target' = [target EXCEPT ![q] = t]
      <3>1. seen[q][2] \in Seq(Targets)
        BY <2>1 DEF InStep
      <3>2. ToSet(seen[q][2]) \subseteq Targets
        BY <3>1, MembersAre
      <3>. QED
        BY <1>7, <3>2 DEF ChooseTarget
    <2>3. RequestsOK'
      BY <2>1, <2>2 DEF RequestsOK, Steps
    <2>4. ASSUME NEW p \in Requests PROVE InStep(p)'
      BY <2>1, <2>2 DEF RequestsOK, InStep
    <2>. QED
      BY <2>3, <2>4
  <1>8. ASSUME NEW q \in Requests, Forward(q)
        PROVE  RequestsOK' /\ \A p \in Requests : InStep(p)'
    <2>1. /\ pc[q] = "forwarding" /\ pc' = [pc EXCEPT ![q] = "finally"]
          /\ \E outcome \in Outcomes : status' = [status EXCEPT ![q] = outcome]
          /\ UNCHANGED <<kind, rule, seen, target, covered>>
      BY <1>8 DEF Forward, Ends
    <2>2. RequestsOK'
      BY <2>1 DEF RequestsOK, Steps, Ending
    <2>3. ASSUME NEW p \in Requests PROVE InStep(p)'
      BY <2>1 DEF RequestsOK, InStep
    <2>. QED
      BY <2>2, <2>3
  <1>9. ASSUME NEW q \in Requests, Finish(q)
        PROVE  RequestsOK' /\ \A p \in Requests : InStep(p)'
    <2>1. /\ pc' = [pc EXCEPT ![q] = "idle"] /\ rule' = [rule EXCEPT ![q] = None]
          /\ seen' = [seen EXCEPT ![q] = <<>>] /\ target' = [target EXCEPT ![q] = NoTarget]
          /\ status' = [status EXCEPT ![q] = "none"] /\ UNCHANGED <<kind, covered>>
      BY <1>9 DEF Finish
    <2>2. RequestsOK'
      BY <2>1 DEF RequestsOK, Steps, Ending
    <2>3. ASSUME NEW p \in Requests PROVE InStep(p)'
      BY <2>1 DEF RequestsOK, InStep
    <2>. QED
      BY <2>2, <2>3
  <1>. QED
    BY <1>2, <1>3, <1>4, <1>5, <1>6, <1>7, <1>8, <1>9, <1>11, StepIs

-----------------------------------------------------------------------------
(* The default rule. *)

LEMMA CoverKept ==
  ASSUME ConfigOK, RequestsOK, \A q \in Requests : InStep(q), Sheltered, DefaultCovers, [Next]_vars
  PROVE  Sheltered' /\ DefaultCovers'
  <1>1. ASSUME UNCHANGED config PROVE Covers' = Covers
    BY <1>1 DEF config, Covers, EnabledOf
  <1>2. ASSUME UNCHANGED <<config, covered, status>> PROVE Sheltered' /\ DefaultCovers'
    <2>1. UNCHANGED config /\ UNCHANGED covered /\ UNCHANGED status
      BY <1>2
    <2>2. Covers' = Covers
      BY <1>1, <2>1
    <2>. QED
      BY <2>1, <2>2 DEF Sheltered, DefaultCovers
  <1>3. CASE UNCHANGED vars
    <2>1. UNCHANGED config /\ UNCHANGED covered /\ UNCHANGED status
      BY <1>3 DEF vars, perRequest
    <2>. QED
      BY <1>2, <2>1
  <1>4. CASE Reconfigures
    <2>1. covered' = [q \in Requests |-> covered[q] /\ Covers'] /\ UNCHANGED status
      BY <1>4 DEF Reconfigures, StillCovered, perRequest
    <2>2. \A q \in Requests : covered'[q] => covered[q] /\ Covers'
      <3> HIDE DEF Covers
      <3>. QED
        BY <2>1
    <2>. QED
      BY <2>1, <2>2 DEF Sheltered, DefaultCovers
  <1>5. ASSUME NEW q \in Requests, BeginRequest(q) PROVE Sheltered' /\ DefaultCovers'
    <2>1. PICK c : c = Covers
      OBVIOUS
    <2>2. /\ pc[q] = "idle" /\ covered' = [covered EXCEPT ![q] = c] /\ UNCHANGED status /\ Covers' = c
      BY <1>1, <1>5, <2>1 DEF BeginRequest
    <2>3. status[q] = "none"
      BY <2>2 DEF InStep
    <2>. QED
      BY <2>1, <2>2, <2>3 DEF Sheltered, DefaultCovers, RequestsOK
  <1>6. ASSUME NEW q \in Requests, UNCHANGED <<config, covered>>, NEW o,
               status' = [status EXCEPT ![q] = o],
               o \in {"404", "no target"} => ~Covers
        PROVE  Sheltered' /\ DefaultCovers'
    <2>1. UNCHANGED config /\ UNCHANGED covered
      BY <1>6
    <2>2. Sheltered'
      <3>1. Covers' = Covers
        BY <1>1, <2>1
      <3>. QED
        BY <2>1, <3>1 DEF Sheltered
    <2>. QED
      BY <1>6, <2>1, <2>2 DEF DefaultCovers, Sheltered, RequestsOK
  <1>7. ASSUME NEW q \in Requests, ResolveRule(q) PROVE Sheltered' /\ DefaultCovers'
    <2>1. UNCHANGED <<config, covered>>
      BY <1>7 DEF ResolveRule
    <2>2. \/ status' = [status EXCEPT ![q] = "413"]
          \/ status' = [status EXCEPT ![q] = "404"] /\ Resolve(kind[q]) = None
          \/ UNCHANGED status
      BY <1>7 DEF ResolveRule, Ends
    <2>3. Resolve(kind[q]) = None => ~Covers
      BY ResolveIs DEF Covers
    <2>. QED
      BY <1>6, <1>2, <2>1, <2>2, <2>3
  <1>8. ASSUME NEW q \in Requests, ListTargets(q) PROVE Sheltered' /\ DefaultCovers'
    BY <1>2, <1>8 DEF ListTargets, Lists
  <1>12. ASSUME NEW q \in Requests, FallBack(q) PROVE Sheltered' /\ DefaultCovers'
    <2>1. UNCHANGED <<config, covered>>
      BY <1>12 DEF FallBack
    <2>2. \/ status' = [status EXCEPT ![q] = "no target"] /\ ~Covers
          \/ UNCHANGED status
      BY <1>12 DEF FallBack, FallbackRule, Lists, Ends, Covers
    <2>. QED
      BY <1>6, <1>2, <2>1, <2>2
  <1>9. ASSUME NEW q \in Requests, ChooseTarget(q) PROVE Sheltered' /\ DefaultCovers'
    BY <1>2, <1>9 DEF ChooseTarget
  <1>10. ASSUME NEW q \in Requests, Forward(q) PROVE Sheltered' /\ DefaultCovers'
    <2>1. UNCHANGED <<config, covered>> /\ \E o \in Outcomes : status' = [status EXCEPT ![q] = o]
      BY <1>10 DEF Forward, Ends
    <2>2. \A o \in Outcomes : o \notin {"404", "no target"}
      BY DEF Outcomes
    <2>. QED
      BY <1>6, <2>1, <2>2
  <1>11. ASSUME NEW q \in Requests, Finish(q) PROVE Sheltered' /\ DefaultCovers'
    <2>1. UNCHANGED <<config, covered>> /\ status' = [status EXCEPT ![q] = "none"]
      BY <1>11 DEF Finish
    <2>. QED
      BY <1>6, <2>1
  <1>. QED
    BY <1>3, <1>4, <1>5, <1>7, <1>8, <1>9, <1>10, <1>11, <1>12, StepIs

-----------------------------------------------------------------------------
(* The gauges. *)

\* No two parts of the proxy share a bucket.
LEMMA BucketsDiffer ==
  /\ \A r, s : RuleBucket(r) = RuleBucket(s) => r = s
  /\ \A t, u : TargetBucket(t) = TargetBucket(u) => t = u
  /\ \A r, t : RuleBucket(r) # TargetBucket(t) /\ RuleBucket(r) # Proxy /\ TargetBucket(t) # Proxy
  <1>1. \A r, s : RuleBucket(r) = RuleBucket(s) => r = s
    BY DEF RuleBucket
  <1>2. \A t, u : TargetBucket(t) = TargetBucket(u) => t = u
    BY DEF TargetBucket
  <1>3. \A r, t : RuleBucket(r) # TargetBucket(t)
    BY DEF RuleBucket, TargetBucket
  <1>4. \A r, t : RuleBucket(r) # Proxy /\ TargetBucket(t) # Proxy
    BY DEF RuleBucket, TargetBucket, Proxy
  <1>. QED
    BY <1>1, <1>2, <1>3, <1>4

Gauge(m) == m \in [requests : Nat, responses : Nat, active : Nat]
\* One bucket's gauge is exact for the requests in it.
Exact(m, s) == m.active = Cardinality(s) /\ m.requests = m.responses + m.active

LEMMA ExactKept ==
  ASSUME NEW m, Gauge(m), NEW s, IsFiniteSet(s), Exact(m, s), NEW q
  PROVE  /\ q \notin s =>
              LET n == [m EXCEPT !.requests = @ + 1, !.active = @ + 1]
              IN  Gauge(n) /\ Exact(n, s \cup {q})
         /\ q \in s => Gauge(Finished(m)) /\ Exact(Finished(m), s \ {q})
  <1>1. PICK a \in Nat, b \in Nat, c \in Nat : a = m.requests /\ b = m.responses /\ c = m.active
    BY DEF Gauge
  <1>2. m = [requests |-> a, responses |-> b, active |-> c]
    BY <1>1 DEF Gauge
  <1>3. c = Cardinality(s) /\ a = b + c
    BY <1>1 DEF Exact
  <1>4. ASSUME q \notin s, NEW n, n = [m EXCEPT !.requests = @ + 1, !.active = @ + 1]
        PROVE  Gauge(n) /\ Exact(n, s \cup {q})
    <2>1. n = [requests |-> a + 1, responses |-> b, active |-> c + 1]
      BY <1>2, <1>4
    <2>2. Cardinality(s \cup {q}) = c + 1
      BY <1>3, <1>4, FS_AddElement
    <2>. QED
      BY <1>3, <2>1, <2>2 DEF Gauge, Exact
  <1>5. ASSUME q \in s PROVE Gauge(Finished(m)) /\ Exact(Finished(m), s \ {q})
    <2>1. Cardinality(s \ {q}) = c - 1
      BY <1>3, <1>5, FS_RemoveElement
    <2>2. c > 0
      BY <1>3, <1>5, FS_EmptySet
    <2>3. Finished(m) = [requests |-> a, responses |-> b + 1, active |-> c - 1]
      <3>1. PICK n : n = [m EXCEPT !.responses = @ + 1]
        OBVIOUS
      <3>2. n = [requests |-> a, responses |-> b + 1, active |-> c]
        BY <1>2, <3>1
      <3>3. Finished(m) = [n EXCEPT !.active = c - 1]
        BY <1>1, <2>2, <3>1 DEF Finished
      <3>. QED
        BY <3>2, <3>3
    <2>. QED
      BY <1>3, <2>1, <2>2, <2>3 DEF Gauge, Exact
  <1>. QED
    BY <1>4, <1>5

LEMMA GaugesAre ==
  Gauges /\ GaugesExact
    <=> /\ metrics = [b \in Buckets |-> metrics[b]]
        /\ \A b \in Buckets : Gauge(metrics[b]) /\ Exact(metrics[b], InBucket(b))
  BY DEF Gauges, GaugesExact, Gauge, Exact
LEMMA GaugesAreNext ==
  (Gauges /\ GaugesExact)'
    <=> /\ metrics' = [b \in Buckets |-> metrics'[b]]
        /\ \A b \in Buckets : Gauge(metrics'[b]) /\ Exact(metrics'[b], InBucket(b)')
  BY DEF Gauges, GaugesExact, Gauge, Exact, Buckets, Proxy, RuleBucket, TargetBucket

LEMMA InBucketIsFinite == \A b : IsFiniteSet(InBucket(b))
  <1>1. \A b : InBucket(b) \in SUBSET Requests
    BY DEF InBucket
  <1>. QED
    BY <1>1, ProxyAssumption, FS_Subset

LEMMA GaugesKept ==
  ASSUME ConfigOK, RequestsOK, \A q \in Requests : InStep(q), Gauges, GaugesExact, [Next]_vars
  PROVE  Gauges' /\ GaugesExact'
  <1> DEFINE Same(b) == InBucket(b)' = InBucket(b)
  <1>1. /\ metrics = [b \in Buckets |-> metrics[b]]
        /\ \A b \in Buckets : Gauge(metrics[b]) /\ Exact(metrics[b], InBucket(b))
    BY GaugesAre
  <1>2. ASSUME UNCHANGED metrics, \A b \in Buckets : Same(b) PROVE (Gauges /\ GaugesExact)'
    BY <1>1, <1>2, GaugesAreNext
  <1>3. ASSUME NEW b0 \in Buckets, Begins(b0), NEW q, q \notin InBucket(b0),
               InBucket(b0)' = InBucket(b0) \cup {q}, \A b \in Buckets \ {b0} : Same(b)
        PROVE  (Gauges /\ GaugesExact)'
    <2>1. PICK n : n = [metrics[b0] EXCEPT !.requests = @ + 1, !.active = @ + 1]
      OBVIOUS
    <2>2. metrics' = [metrics EXCEPT ![b0] = n]
      BY <1>1, <1>3, <2>1 DEF Begins
    <2>3. Gauge(n) /\ Exact(n, InBucket(b0) \cup {q})
      BY <1>1, <1>3, <2>1, ExactKept, InBucketIsFinite
    <2>4. metrics' = [b \in Buckets |-> IF b = b0 THEN n ELSE metrics[b]]
      BY <1>1, <2>2
    <2>5. metrics' = [b \in Buckets |-> metrics'[b]]
      BY <2>4
    <2>6. \A b \in Buckets : Gauge(metrics'[b]) /\ Exact(metrics'[b], InBucket(b)')
      <3> SUFFICES ASSUME NEW b \in Buckets PROVE Gauge(metrics'[b]) /\ Exact(metrics'[b], InBucket(b)')
        OBVIOUS
      <3>1. CASE b = b0
        BY <1>3, <2>3, <2>4, <3>1
      <3>2. CASE b # b0
        <4>1. metrics'[b] = metrics[b] /\ Same(b)
          BY <1>3, <2>4, <3>2
        <4>. QED
          BY <1>1, <4>1
      <3>. QED
        BY <3>1, <3>2
    <2>. QED
      BY <2>5, <2>6, GaugesAreNext
  <1>4. ASSUME UNCHANGED <<rule, target>>, \A p \in Requests : pc'[p] = "idle" <=> pc[p] = "idle"
        PROVE  \A b \in Buckets : Same(b)
    BY <1>4 DEF InBucket
  <1>5. CASE UNCHANGED vars
    <2>1. UNCHANGED metrics /\ UNCHANGED <<rule, target>> /\ UNCHANGED pc
      BY <1>5 DEF vars, perRequest
    <2>. QED
      BY <1>2, <1>4, <2>1
  <1>6. CASE Reconfigures
    <2>1. UNCHANGED metrics /\ UNCHANGED <<rule, target>> /\ UNCHANGED pc
      BY <1>6 DEF Reconfigures, perRequest
    <2>. QED
      BY <1>2, <1>4, <2>1
  <1>7. ASSUME NEW q \in Requests, BeginRequest(q) PROVE (Gauges /\ GaugesExact)'
    <2>1. /\ pc[q] = "idle" /\ pc' = [pc EXCEPT ![q] = "begun"] /\ Begins(Proxy)
          /\ UNCHANGED <<rule, target>>
      BY <1>7 DEF BeginRequest
    <2>2. rule[q] = None /\ target[q] = NoTarget
      BY <2>1 DEF InStep
    <2>3. Proxy \in Buckets /\ q \notin InBucket(Proxy)
      BY <2>1 DEF Buckets, InBucket
    <2>4. InBucket(Proxy)' = InBucket(Proxy) \cup {q}
      BY <2>1 DEF InBucket, RequestsOK, Proxy
    <2>5. \A b \in Buckets \ {Proxy} : Same(b)
      BY <2>1, <2>2 DEF InBucket, RequestsOK, Proxy
    <2>. QED
      BY <1>3, <2>1, <2>3, <2>4, <2>5
  <1>8. ASSUME NEW q \in Requests, ResolveRule(q) PROVE (Gauges /\ GaugesExact)'
    <2>1. pc[q] = "begun" /\ UNCHANGED target /\ rule[q] = None
      BY <1>8 DEF ResolveRule, InStep
    <2>2. CASE UNCHANGED <<rule, metrics>> /\ pc' = [pc EXCEPT ![q] = "finally"]
      <3>1. UNCHANGED metrics /\ UNCHANGED <<rule, target>>
        BY <2>1, <2>2
      <3>2. \A p \in Requests : pc'[p] = "idle" <=> pc[p] = "idle"
        BY <2>1, <2>2 DEF RequestsOK
      <3>. QED
        BY <1>2, <1>4, <3>1, <3>2
    <2>3. ASSUME NEW r \in Rules, rule' = [rule EXCEPT ![q] = r], Begins(RuleBucket(r)),
                 pc' = [pc EXCEPT ![q] = "ruled"]
          PROVE  (Gauges /\ GaugesExact)'
      <3>1. r # None
        BY ProxyAssumption DEF None
      <3>2. \A p \in Requests : /\ pc'[p] = "idle" <=> pc[p] = "idle"
                                /\ p # q => rule'[p] = rule[p]
                                /\ rule'[q] = r /\ pc[q] # "idle"
        BY <2>1, <2>3 DEF RequestsOK
      <3>3. RuleBucket(r) \in Buckets
        BY DEF Buckets
      <3>4. q \notin InBucket(RuleBucket(r))
        BY <2>1, BucketsDiffer, <1>8 DEF InBucket, InStep
      <3>5. \A b \in Buckets : \A p \in Requests : p # q => (p \in InBucket(b)' <=> p \in InBucket(b))
        BY <2>1, <3>2 DEF InBucket
      <3>6. \A b \in Buckets : q \in InBucket(b)' <=> q \in InBucket(b) \/ b = RuleBucket(r)
        BY <2>1, <3>1, <3>2 DEF InBucket
      <3>7. \A b \in Buckets : InBucket(b) \subseteq Requests /\ InBucket(b)' \subseteq Requests
        BY DEF InBucket
      <3>8. InBucket(RuleBucket(r))' = InBucket(RuleBucket(r)) \cup {q}
        BY <3>3, <3>5, <3>6, <3>7
      <3>9. \A b \in Buckets \ {RuleBucket(r)} : Same(b)
        BY <3>5, <3>6, <3>7
      <3>. QED
        BY <1>3, <2>3, <3>3, <3>4, <3>8, <3>9
    <2>. QED
      BY <1>8, <2>2, <2>3, ResolveIs DEF ResolveRule, Ends
  <1>9. ASSUME NEW q \in Requests, ListTargets(q) \/ FallBack(q) PROVE (Gauges /\ GaugesExact)'
    <2>1. UNCHANGED metrics /\ UNCHANGED <<rule, target>>
      BY <1>9 DEF ListTargets, FallBack
    <2>2. \A p \in Requests : pc'[p] = "idle" <=> pc[p] = "idle"
      BY <1>9 DEF ListTargets, FallBack, Lists, Ends, RequestsOK
    <2>. QED
      BY <1>2, <1>4, <2>1, <2>2
  <1>10. ASSUME NEW q \in Requests, ChooseTarget(q) PROVE (Gauges /\ GaugesExact)'
    <2>1. pc[q] = "listed" /\ pc' = [pc EXCEPT ![q] = "forwarding"] /\ UNCHANGED rule /\ target[q] = NoTarget
      BY <1>10 DEF ChooseTarget, InStep
    <2>2. PICK t \in Targets : target' = [target EXCEPT ![q] = t] /\ Begins(TargetBucket(t))
      <3>1. seen[q][2] \in Seq(Targets)
        BY <2>1 DEF InStep
      <3>2. ToSet(seen[q][2]) \subseteq Targets
        BY <3>1, MembersAre
      <3>. QED
        BY <1>10, <3>2 DEF ChooseTarget
    <2>3. t # NoTarget
      BY ProxyAssumption
    <2>4. \A p \in Requests : /\ pc'[p] = "idle" <=> pc[p] = "idle"
                              /\ p # q => target'[p] = target[p]
                              /\ target'[q] = t /\ pc[q] # "idle"
      BY <2>1, <2>2 DEF RequestsOK
    <2>5. TargetBucket(t) \in Buckets
      BY DEF Buckets
    <2>6. q \notin InBucket(TargetBucket(t))
      BY <2>1, BucketsDiffer DEF InBucket
    <2>7. \A b \in Buckets : \A p \in Requests : p # q => (p \in InBucket(b)' <=> p \in InBucket(b))
      BY <2>1, <2>4 DEF InBucket
    <2>8. \A b \in Buckets : q \in InBucket(b)' <=> q \in InBucket(b) \/ b = TargetBucket(t)
      BY <2>1, <2>3, <2>4 DEF InBucket
    <2>9. \A b \in Buckets : InBucket(b) \subseteq Requests /\ InBucket(b)' \subseteq Requests
      BY DEF InBucket
    <2>10. InBucket(TargetBucket(t))' = InBucket(TargetBucket(t)) \cup {q}
      BY <2>5, <2>7, <2>8, <2>9
    <2>11. \A b \in Buckets \ {TargetBucket(t)} : Same(b)
      BY <2>7, <2>8, <2>9
    <2>. QED
      BY <1>3, <2>2, <2>5, <2>6, <2>10, <2>11
  <1>11. ASSUME NEW q \in Requests, Forward(q) PROVE (Gauges /\ GaugesExact)'
    <2>1. UNCHANGED metrics /\ UNCHANGED <<rule, target>>
      BY <1>11 DEF Forward
    <2>2. \A p \in Requests : pc'[p] = "idle" <=> pc[p] = "idle"
      BY <1>11 DEF Forward, Ends, RequestsOK
    <2>. QED
      BY <1>2, <1>4, <2>1, <2>2
  <1>12. ASSUME NEW q \in Requests, Finish(q) PROVE (Gauges /\ GaugesExact)'
    <2>1. /\ pc[q] = "finally" /\ pc' = [pc EXCEPT ![q] = "idle"] /\ rule' = [rule EXCEPT ![q] = None]
          /\ target' = [target EXCEPT ![q] = NoTarget]
          /\ metrics' = [b \in Buckets |-> IF b \in EndsIn(q) THEN Finished(metrics[b]) ELSE metrics[b]]
      BY <1>12 DEF Finish
    <2>2. \A p \in Requests : /\ p # q => pc'[p] = pc[p] /\ rule'[p] = rule[p] /\ target'[p] = target[p]
                              /\ pc'[q] = "idle" /\ pc[q] # "idle"
      BY <2>1 DEF RequestsOK
    <2>3. \A b \in Buckets : q \in InBucket(b) <=> b \in EndsIn(q)
      BY <2>2 DEF InBucket, EndsIn
    <2>4. \A b \in Buckets : \A p \in Requests : p # q => (p \in InBucket(b)' <=> p \in InBucket(b))
      BY <2>2 DEF InBucket
    <2>5. \A b \in Buckets : q \notin InBucket(b)'
      BY <2>2 DEF InBucket
    <2>6. \A b \in Buckets : InBucket(b) \subseteq Requests /\ InBucket(b)' \subseteq Requests
      BY DEF InBucket
    <2>7. \A b \in Buckets : InBucket(b)' = InBucket(b) \ {q}
      BY <2>4, <2>5, <2>6
    <2>8. metrics' = [b \in Buckets |-> metrics'[b]]
      BY <2>1
    <2>9. \A b \in Buckets : Gauge(metrics'[b]) /\ Exact(metrics'[b], InBucket(b)')
      <3> SUFFICES ASSUME NEW b \in Buckets PROVE Gauge(metrics'[b]) /\ Exact(metrics'[b], InBucket(b)')
        OBVIOUS
      <3>1. CASE b \in EndsIn(q)
        <4>1. metrics'[b] = Finished(metrics[b]) /\ q \in InBucket(b)
          BY <2>1, <2>3, <3>1
        <4>. QED
          <5>1. PICK m : m = metrics[b]
            OBVIOUS
          <5>2. Gauge(m) /\ Exact(m, InBucket(b)) /\ IsFiniteSet(InBucket(b)) /\ q \in InBucket(b)
            BY <1>1, <4>1, <5>1, InBucketIsFinite
          <5>3. Gauge(Finished(m)) /\ Exact(Finished(m), InBucket(b) \ {q})
            BY <5>2, ExactKept
          <5>. QED
            BY <2>7, <4>1, <5>1, <5>3
      <3>2. CASE b \notin EndsIn(q)
        <4>1. metrics'[b] = metrics[b] /\ q \notin InBucket(b)
          BY <2>1, <2>3, <3>2
        <4>2. InBucket(b)' = InBucket(b)
          BY <2>7, <4>1
        <4>. QED
          BY <1>1, <4>1, <4>2
      <3>. QED
        BY <3>1, <3>2
    <2>. QED
      BY <2>8, <2>9, GaugesAreNext
  <1>. QED
    BY <1>5, <1>6, <1>7, <1>8, <1>9, <1>10, <1>11, <1>12, StepIs

-----------------------------------------------------------------------------
(* The balance. *)

LEMMA OffersAreNext ==
  ASSUME ConfigOK', NEW r \in Rules
  PROVE  EnabledOf(r)' \in Seq(Targets) /\ Distinct(EnabledOf(r)')
  <1>1. targets'[r] \in Seq(Targets) /\ Planned[r] \in Seq(Targets) /\ IsInjective(Planned[r])
        /\ Begun(targets'[r], Planned[r])
    BY ProxyAssumption DEF ConfigOK
  <1>2. Distinct(targets'[r])
    BY <1>1 DEF Distinct, IsInjective, Begun
  <1>3. EnabledOf(r)' = Switched(targets'[r], enabled')
    BY DEF EnabledOf, Switched, Chosen
  <1>. QED
    BY <1>1, <1>2, <1>3, SwitchedIs

\* When the count begins, it is fair.
LEMMA FairBegins ==
  ASSUME NEW offer \in Seq(Targets), NEW w \in [Targets -> Int], NEW i \in Nat, NEW m, NEW lev,
         lev => \A t \in ToSet(offer) : w[t] = 0
  PROVE  FairAt(m, offer, NoTurns, lev, w, i)
  <1> SUFFICES ASSUME offer # <<>>
               PROVE  InTurn(offer, NoTurns, i) /\ (lev => Weighed(offer, NoTurns, w))
    BY DEF FairAt
  <1>1. Len(offer) > 0
    OBVIOUS
  <1>2. InTurn(offer, NoTurns, i)
    BY <1>1, TurnsBegin
  <1>3. lev => Weighed(offer, NoTurns, w)
    BY WeighingBegins
  <1>. QED
    BY <1>2, <1>3

\* What WeightedRoundRobin picks is the first of the highest, which pays.
LEMMA WeighsIs ==
  ASSUME BalanceOK, NEW r \in Rules, NEW offer \in Seq(Targets), offer # <<>>, NEW t,
         WeightedRoundRobin(r, t, offer)
  PROVE  /\ t \in ToSet(offer) /\ Highest(Gained(offer, wrr[r]), offer, t)
         /\ wrr' = [wrr EXCEPT ![r] = Paid(Gained(offer, wrr[r]), t, Total(offer))]
         /\ UNCHANGED rr
  <1>1. PICK g : g = Gained(offer, wrr[r])
    OBVIOUS
  <1>2. g \in [Targets -> Int]
    <2>1. wrr[r] \in [Targets -> Int] /\ \A u \in Targets : Weight[u] \in Int
      BY ProxyAssumption DEF BalanceOK
    <2>. QED
      BY <1>1, <2>1 DEF Gained
  <1>3. PICK n \in Nat : n = Len(offer) /\ n > 0 /\ DOMAIN offer = 1..n
    OBVIOUS
  <1>4. \A j \in 1..n : offer[j] \in Targets /\ offer[j] \in ToSet(offer) /\ g[offer[j]] \in Int
    BY <1>2, <1>3, MembersAre
  <1>5. \E i \in DOMAIN offer : IsHeaviest(offer, g, i)
    <2>1. 1..n # {}
      <3>1. 1 \in 1..n
        BY <1>3
      <3>. QED
        BY <3>1
    <2>2. IsFiniteSet(1..n)
      BY FS_Interval
    <2>3. PICK h : h = [j \in 1..n |-> g[offer[j]]]
      OBVIOUS
    <2>4. \A j \in 1..n : h[j] = g[offer[j]] /\ h[j] \in Int
      BY <1>4, <2>3
    <2> DEFINE Over(i, j) == h[j] < h[i] \/ (h[j] = h[i] /\ i <= j)
    <2>5. PICK R : R = {p \in (1..n) \X (1..n) : Over(p[1], p[2])}
      OBVIOUS
    <2>6. \A x, y \in 1..n : <<x, y>> \in R <=> Over(x, y)
      BY <2>5
    <2>7. \A x, y \in 1..n : Over(x, y) \/ Over(y, x)
      BY <2>4
    <2>8. \A x, y, z \in 1..n : Over(x, y) /\ Over(y, z) => Over(x, z)
      BY <2>4
    <2>9. \E x \in 1..n : \A y \in 1..n : <<x, y>> \in R
      <3> HIDE DEF Over
      <3>1. \A x, y \in 1..n : <<x, y>> \in R \/ <<y, x>> \in R
        BY <2>6, <2>7
      <3>2. \A x, y, z \in 1..n : <<x, y>> \in R /\ <<y, z>> \in R => <<x, z>> \in R
        BY <2>6, <2>8
      <3>. QED
        BY <2>1, <2>2, <3>1, <3>2, FirstOf
    <2>10. \E x \in 1..n : \A y \in 1..n : Over(x, y)
      <3> HIDE DEF Over
      <3>. QED
        BY <2>6, <2>9
    <2>11. PICK x \in 1..n : \A y \in 1..n : Over(x, y)
      <3> HIDE DEF Over
      <3>. QED
        BY <2>10
    <2>12. ASSUME NEW j \in 1..n
           PROVE  \/ g[offer[j]] < g[offer[x]]
                  \/ g[offer[j]] = g[offer[x]] /\ x <= j
      <3>1. Over(x, j)
        BY <2>11
      <3>. QED
        BY <2>4, <3>1
    <2>13. IsHeaviest(offer, g, x)
      <3> HIDE DEF Over
      <3>. QED
        BY <1>3, <2>12 DEF IsHeaviest
    <2>. QED
      BY <1>3, <2>13
  <1>6. PICK f : f = Heaviest(offer, g)
    OBVIOUS
  <1>7. f \in DOMAIN offer /\ IsHeaviest(offer, g, f)
    BY <1>5, <1>6 DEF Heaviest
  <1>8. t = offer[f] /\ UNCHANGED rr
    BY <1>1, <1>6 DEF WeightedRoundRobin
  <1>9. wrr' = [wrr EXCEPT ![r] = Paid(g, t, Total(offer))]
    BY <1>1 DEF WeightedRoundRobin, Paid
  <1>10. t \in ToSet(offer)
    BY <1>3, <1>4, <1>7, <1>8
  <1>11. Highest(g, offer, t)
    <2> SUFFICES ASSUME NEW u \in ToSet(offer) PROVE g[u] <= g[t]
      BY DEF Highest
    <2>1. PICK j \in 1..n : u = offer[j]
      BY <1>3, MembersAre
    <2>2. g[offer[j]] < g[offer[f]] \/ g[offer[j]] = g[offer[f]]
      BY <1>3, <1>7 DEF IsHeaviest
    <2>3. g[offer[j]] \in Int /\ g[offer[f]] \in Int
      BY <1>3, <1>4, <1>7
    <2>. QED
      BY <1>8, <2>1, <2>2, <2>3
  <1>. QED
    BY <1>1, <1>8, <1>9, <1>10, <1>11

\* A pick from the offer that the rule still has keeps its share fair.
LEMMA PickIsFair ==
  ASSUME BalanceOK, NEW r \in Rules, NEW offer \in Seq(Targets), offer # <<>>, Distinct(offer),
         NEW t \in ToSet(offer), Pick(r, t, offer),
         FairAt(mode[r], offer, turns[r], level[r], wrr[r], rr[r])
  PROVE  FairAt(mode[r], offer, Turned(turns[r], t), level[r], wrr'[r], rr'[r])
  <1>1. /\ rr[r] \in Nat /\ wrr[r] \in [Targets -> Int] /\ turns[r] \in [Targets -> Nat]
        /\ DOMAIN rr = Rules /\ DOMAIN wrr = Rules
    BY DEF BalanceOK
  <1>2. Len(offer) > 0 /\ t \in Targets
    BY MembersAre
  <1>3. CASE mode[r] = "round_robin"
    <2>1. t = offer[(rr[r] % Len(offer)) + 1] /\ rr'[r] = (rr[r] + 1) % Len(offer)
      BY <1>1, <1>3 DEF Pick, RoundRobin
    <2>2. InTurn(offer, turns[r], rr[r])
      BY <1>3 DEF FairAt
    <2>3. InTurn(offer, [turns[r] EXCEPT ![t] = @ + 1], (rr[r] + 1) % Len(offer))
      BY <1>1, <1>2, <2>1, <2>2, TurnsGoOn
    <2>. QED
      BY <1>3, <2>1, <2>3 DEF FairAt, Turned
  <1>4. CASE mode[r] = "weighted"
    <2> SUFFICES ASSUME level[r] PROVE Weighed(offer, Turned(turns[r], t), wrr'[r])
      BY <1>4 DEF FairAt
    <2>1. WeightedRoundRobin(r, t, offer)
      BY <1>4 DEF Pick
    <2>2. /\ Highest(Gained(offer, wrr[r]), offer, t)
          /\ wrr' = [wrr EXCEPT ![r] = Paid(Gained(offer, wrr[r]), t, Total(offer))]
      BY <2>1, WeighsIs
    <2>3. wrr'[r] = Paid(Gained(offer, wrr[r]), t, Total(offer))
      BY <1>1, <2>2
    <2>4. Weighed(offer, turns[r], wrr[r])
      BY <1>4 DEF FairAt
    <2>. QED
      BY <1>1, <2>2, <2>3, <2>4, WeighingGoesOn
  <1>5. CASE mode[r] # "round_robin" /\ mode[r] # "weighted"
    BY <1>5 DEF FairAt
  <1>. QED
    BY <1>3, <1>4, <1>5

\* Picks by a rule leave the other rules' state as it is.
LEMMA PickIsTyped ==
  ASSUME BalanceOK, NEW r \in Rules, NEW offer \in Seq(Targets), offer # <<>>,
         NEW t \in ToSet(offer), Pick(r, t, offer)
  PROVE  /\ rr' \in [Rules -> Nat] /\ wrr' \in [Rules -> [Targets -> Int]]
         /\ \A s \in Rules \ {r} : rr'[s] = rr[s] /\ wrr'[s] = wrr[s]
  <1>1. /\ rr \in [Rules -> Nat] /\ wrr \in [Rules -> [Targets -> Int]]
    BY DEF BalanceOK
  <1>2. CASE mode[r] = "round_robin"
    <2>1. rr' = [rr EXCEPT ![r] = (@ + 1) % Len(offer)] /\ UNCHANGED wrr
      BY <1>2 DEF Pick, RoundRobin
    <2>2. (rr[r] + 1) % Len(offer) \in Nat
      <3>1. Len(offer) \in Nat /\ Len(offer) > 0 /\ rr[r] \in Nat
        BY <1>1
      <3>. QED
        BY <3>1, OneFurther
    <2>. QED
      BY <1>1, <2>1, <2>2
  <1>3. CASE mode[r] = "weighted"
    <2>1. /\ wrr' = [wrr EXCEPT ![r] = Paid(Gained(offer, wrr[r]), t, Total(offer))]
          /\ UNCHANGED rr
      BY <1>3, WeighsIs DEF Pick
    <2>2. Paid(Gained(offer, wrr[r]), t, Total(offer)) \in [Targets -> Int]
      <3>1. \A u \in Targets : Weight[u] \in Int /\ wrr[r][u] \in Int
        BY <1>1, ProxyAssumption
      <3>2. Gained(offer, wrr[r]) \in [Targets -> Int]
        BY <3>1 DEF Gained
      <3>3. Total(offer) \in Int /\ t \in Targets
        BY TotalIsPositive, MembersAre
      <3>. QED
        BY <3>2, <3>3 DEF Paid
    <2>. QED
      BY <1>1, <2>1, <2>2
  <1>4. CASE mode[r] # "round_robin" /\ mode[r] # "weighted"
    BY <1>1, <1>4 DEF Pick
  <1>. QED
    BY <1>2, <1>3, <1>4

LEMMA BalanceKept ==
  ASSUME ConfigOK, ConfigOK', BalanceOK, \A q \in Requests : InStep(q), Fair, [Next]_vars
  PROVE  BalanceOK' /\ Fair'
  <1>1. NoTurns \in [Targets -> Nat]
    BY DEF NoTurns
  <1>2. ASSUME UNCHANGED <<config, balance>> PROVE BalanceOK' /\ Fair'
    <2>1. UNCHANGED <<rr, wrr, turns, level>> /\ UNCHANGED <<targets, enabled, mode>>
      BY <1>2 DEF balance, config
    <2>2. \A r : EnabledOf(r)' = EnabledOf(r)
      BY <2>1 DEF EnabledOf
    <2>. QED
      BY <2>1, <2>2 DEF BalanceOK, Fair
  <1>3. CASE Reconfigures
    <2> DEFINE same(r) == EnabledOf(r)' = EnabledOf(r) /\ mode'[r] = mode[r]
    <2>1. /\ UNCHANGED <<rr, wrr>>
          /\ turns' = [r \in Rules |-> IF same(r) THEN turns[r] ELSE NoTurns]
          /\ level' = [r \in Rules |-> IF same(r) THEN level[r] ELSE Level(r)']
      BY <1>3 DEF Reconfigures
    <2>2. \A r \in Rules : Level(r)' \in BOOLEAN
      BY DEF Level
    <2>3. BalanceOK'
      BY <1>1, <2>1, <2>2 DEF BalanceOK
    <2>4. ASSUME NEW r \in Rules
          PROVE  FairAt(mode'[r], EnabledOf(r)', turns'[r], level'[r], wrr'[r], rr'[r])
      <3>1. CASE same(r)
        <4>1. turns'[r] = turns[r] /\ level'[r] = level[r]
          BY <2>1, <3>1
        <4>. QED
          BY <2>1, <3>1, <4>1 DEF Fair
      <3>2. CASE ~same(r)
        <4>1. turns'[r] = NoTurns /\ level'[r] = Level(r)'
          BY <2>1, <3>2
        <4>2. Level(r)' <=> \A t \in ToSet(EnabledOf(r)') : wrr'[r][t] = 0
          BY DEF Level, ToSet
        <4>3. wrr'[r] \in [Targets -> Int] /\ rr'[r] \in Nat
          BY <2>3 DEF BalanceOK
        <4>4. PICK offer : offer = EnabledOf(r)'
          OBVIOUS
        <4>5. offer \in Seq(Targets)
          BY <4>4, OffersAreNext
        <4>6. level'[r] => \A t \in ToSet(offer) : wrr'[r][t] = 0
          BY <4>1, <4>2, <4>4
        <4>7. FairAt(mode'[r], offer, NoTurns, level'[r], wrr'[r], rr'[r])
          BY <4>3, <4>5, <4>6, FairBegins
        <4>. QED
          BY <4>1, <4>4, <4>7
      <3>. QED
        BY <3>1, <3>2
    <2>. QED
      BY <2>3, <2>4 DEF Fair
  <1>4. ASSUME NEW q \in Requests, ChooseTarget(q) PROVE BalanceOK' /\ Fair'
    <2>1. pc[q] = "listed" /\ UNCHANGED config /\ UNCHANGED <<targets, enabled, mode>>
      BY <1>4 DEF ChooseTarget, config
    <2>2. \A r : EnabledOf(r)' = EnabledOf(r)
      BY <2>1 DEF EnabledOf
    <2>3. PICK r \in Rules, offer \in Seq(Targets) :
            r = seen[q][1] /\ offer = seen[q][2] /\ offer # <<>>
      BY <2>1 DEF InStep
    <2>4. PICK t \in ToSet(offer) : Pick(r, t, offer) /\ Counted(r, t, offer)
      BY <1>4, <2>3 DEF ChooseTarget
    <2>5. /\ rr' \in [Rules -> Nat] /\ wrr' \in [Rules -> [Targets -> Int]]
          /\ \A s \in Rules \ {r} : rr'[s] = rr[s] /\ wrr'[s] = wrr[s]
      BY <2>3, <2>4, PickIsTyped
    <2>6. turns \in [Rules -> [Targets -> Nat]] /\ level \in [Rules -> BOOLEAN] /\ t \in Targets
      BY MembersAre DEF BalanceOK
    <2>7. EnabledOf(r) \in Seq(Targets) /\ Distinct(EnabledOf(r))
      BY OffersAre
    <2>8. CASE offer = EnabledOf(r)
      <3>1. turns' = [turns EXCEPT ![r] = Turned(turns[r], t)] /\ UNCHANGED level
        BY <2>4, <2>6, <2>8 DEF Counted, Turned
      <3>2. Turned(turns[r], t) \in [Targets -> Nat]
        BY <2>6 DEF Turned
      <3>3. BalanceOK'
        BY <2>5, <2>6, <3>1, <3>2 DEF BalanceOK
      <3>4. FairAt(mode[r], offer, turns[r], level[r], wrr[r], rr[r])
        BY <2>8 DEF Fair
      <3>5. FairAt(mode[r], offer, Turned(turns[r], t), level[r], wrr'[r], rr'[r])
        BY <2>3, <2>4, <2>7, <2>8, <3>4, PickIsFair
      <3>6. ASSUME NEW s \in Rules
            PROVE  FairAt(mode'[s], EnabledOf(s)', turns'[s], level'[s], wrr'[s], rr'[s])
        <4>1. CASE s = r
          BY <2>1, <2>2, <2>6, <2>8, <3>1, <3>5, <4>1
        <4>2. CASE s # r
          <5>1. /\ turns'[s] = turns[s] /\ level'[s] = level[s] /\ mode'[s] = mode[s]
                /\ wrr'[s] = wrr[s] /\ rr'[s] = rr[s] /\ EnabledOf(s)' = EnabledOf(s)
            BY <2>1, <2>2, <2>5, <2>6, <3>1, <4>2
          <5>. QED
            BY <5>1 DEF Fair
        <4>. QED
          BY <4>1, <4>2
      <3>. QED
        BY <3>3, <3>6 DEF Fair
    <2>9. CASE offer # EnabledOf(r)
      <3>1. turns' = [turns EXCEPT ![r] = NoTurns] /\ level' = [level EXCEPT ![r] = Level(r)']
        BY <2>4, <2>9 DEF Counted
      <3>2. Level(r)' \in BOOLEAN
        BY DEF Level
      <3>3. BalanceOK'
        BY <1>1, <2>5, <2>6, <3>1, <3>2 DEF BalanceOK
      <3>4. level'[r] => \A u \in ToSet(EnabledOf(r)) : wrr'[r][u] = 0
        <4>1. Level(r)' <=> \A u \in ToSet(EnabledOf(r)') : wrr'[r][u] = 0
          BY DEF Level, ToSet
        <4>. QED
          BY <2>2, <2>6, <3>1, <4>1
      <3>5. FairAt(mode[r], EnabledOf(r), NoTurns, level'[r], wrr'[r], rr'[r])
        <4>1. wrr'[r] \in [Targets -> Int] /\ rr'[r] \in Nat
          BY <2>5
        <4>. QED
          BY <2>7, <3>4, <4>1, FairBegins
      <3>6. ASSUME NEW s \in Rules
            PROVE  FairAt(mode'[s], EnabledOf(s)', turns'[s], level'[s], wrr'[s], rr'[s])
        <4>1. CASE s = r
          <5>1. turns'[r] = NoTurns
            BY <2>6, <3>1
          <5>. QED
            BY <2>1, <2>2, <3>5, <4>1, <5>1
        <4>2. CASE s # r
          <5>1. /\ turns'[s] = turns[s] /\ level'[s] = level[s] /\ mode'[s] = mode[s]
                /\ wrr'[s] = wrr[s] /\ rr'[s] = rr[s] /\ EnabledOf(s)' = EnabledOf(s)
            BY <2>1, <2>2, <2>5, <2>6, <3>1, <4>2
          <5>. QED
            BY <5>1 DEF Fair
        <4>. QED
          BY <4>1, <4>2
      <3>. QED
        BY <3>3, <3>6 DEF Fair
    <2>. QED
      BY <2>8, <2>9
  <1>5. ASSUME NEW q \in Requests,
               BeginRequest(q) \/ ResolveRule(q) \/ ListTargets(q) \/ FallBack(q) \/ Forward(q) \/ Finish(q)
        PROVE  BalanceOK' /\ Fair'
    <2>1. UNCHANGED <<config, balance>>
      BY <1>5 DEF BeginRequest, ResolveRule, ListTargets, FallBack, Forward, Finish
    <2>. QED
      BY <1>2, <2>1
  <1>6. CASE UNCHANGED vars
    BY <1>2, <1>6 DEF vars
  <1>. QED
    BY <1>3, <1>4, <1>5, <1>6, StepIs

\* The count of turns and the weights add up to what FairShare says.
LEMMA FairSharesFollow ==
  ASSUME ConfigOK, BalanceOK, Fair
  PROVE  FairShare
  <1> SUFFICES ASSUME NEW r \in Rules, NEW offer, offer = EnabledOf(r),
                      NEW n, n = MapThenSumSet(LAMBDA t : turns[r][t], ToSet(offer))
               PROVE  /\ mode[r] = "round_robin" =>
                           \A t, u \in ToSet(offer) : turns[r][t] <= turns[r][u] + 1
                      /\ mode[r] = "weighted" /\ level[r] => Shares(offer, turns[r], n)
    BY DEF FairShare, Shares
  <1>1. offer \in Seq(Targets)
    BY OffersAre
  <1>2. CASE offer = <<>>
    <2>1. ToSet(offer) = {}
      BY <1>2 DEF ToSet
    <2>. QED
      BY <2>1 DEF Shares
  <1>3. CASE offer # <<>>
    <2>1. /\ rr[r] \in Nat /\ wrr[r] \in [Targets -> Int] /\ turns[r] \in [Targets -> Nat]
      BY DEF BalanceOK
    <2>2. FairAt(mode[r], offer, turns[r], level[r], wrr[r], rr[r])
      BY DEF Fair
    <2>3. ASSUME mode[r] = "round_robin"
          PROVE  \A t, u \in ToSet(offer) : turns[r][t] <= turns[r][u] + 1
      <3>1. InTurn(offer, turns[r], rr[r])
        BY <1>3, <2>2, <2>3 DEF FairAt
      <3>. QED
        BY <1>1, <2>1, <3>1, TurnsAreEven
    <2>4. ASSUME mode[r] = "weighted", level[r]
          PROVE  Shares(offer, turns[r], n)
      <3>1. Weighed(offer, turns[r], wrr[r])
        BY <1>3, <2>2, <2>4 DEF FairAt
      <3>2. n = Sums(turns[r], ToSet(offer))[ToSet(offer)]
        BY CountIs
      <3>3. /\ offer \in Seq(Targets) /\ offer # <<>>
            /\ turns[r] \in [Targets -> Nat] /\ wrr[r] \in [Targets -> Int]
        BY <1>1, <1>3, <2>1
      <3>. QED
        BY <3>1, <3>2, <3>3, SharesFollow, Zenon
    <2>. QED
      BY <2>3, <2>4
  <1>. QED
    BY <1>2, <1>3

-----------------------------------------------------------------------------
(* The theorems. *)

LEMMA ProxyBegins == Init => ProxyInv
  <1> SUFFICES ASSUME Init PROVE ProxyInv
    OBVIOUS
  <1>1. ConfigOK
    BY ConfigBegins
  <1>2. /\ rr = [r \in Rules |-> 0] /\ wrr = [r \in Rules |-> NoTurns] /\ turns = wrr
        /\ level = [r \in Rules |-> TRUE] /\ NoTurns \in [Targets -> Nat] /\ NoTurns \in [Targets -> Int]
    BY DEF Init, NoTurns
  <1>3. BalanceOK
    BY <1>2 DEF BalanceOK
  <1>4. /\ pc = [q \in Requests |-> "idle"] /\ rule = [q \in Requests |-> None]
        /\ target = [q \in Requests |-> NoTarget] /\ status = [q \in Requests |-> "none"]
        /\ covered = [q \in Requests |-> FALSE] /\ DOMAIN seen = Requests /\ DOMAIN kind = Requests
        /\ metrics = [b \in Buckets |-> [requests |-> 0, responses |-> 0, active |-> 0]]
    BY DEF Init
  <1>5. RequestsOK /\ (\A q \in Requests : InStep(q)) /\ Sheltered /\ DefaultCovers
    <2>1. RequestsOK
      BY <1>4 DEF RequestsOK, Steps, Ending
    <2>2. \A q \in Requests : InStep(q)
      BY <1>4 DEF InStep
    <2>3. Sheltered /\ DefaultCovers
      BY <1>4 DEF Sheltered, DefaultCovers
    <2>. QED
      BY <2>1, <2>2, <2>3
  <1>6. Gauges /\ GaugesExact
    <2>1. Gauges
      BY <1>4 DEF Gauges
    <2>2. \A b \in Buckets : InBucket(b) = {}
      BY <1>4 DEF InBucket
    <2>. QED
      BY <1>4, <2>1, <2>2, FS_EmptySet DEF GaugesExact
  <1>7. Fair
    <2> SUFFICES ASSUME NEW r \in Rules
                 PROVE  FairAt(mode[r], EnabledOf(r), NoTurns, level[r], NoTurns, 0)
      BY <1>2 DEF Fair
    <2>1. EnabledOf(r) \in Seq(Targets)
      BY <1>1, OffersAre
    <2>2. \A t \in ToSet(EnabledOf(r)) : NoTurns[t] = 0
      BY <2>1, MembersAre DEF NoTurns
    <2>. QED
      BY <1>2, <2>1, <2>2, FairBegins
  <1>. QED
    BY <1>1, <1>3, <1>5, <1>6, <1>7 DEF ProxyInv, ProxyTypeOK

LEMMA ProxyInvIsInductive == ProxyInv /\ [Next]_vars => ProxyInv'
  <1> SUFFICES ASSUME ProxyInv, [Next]_vars PROVE ProxyInv'
    OBVIOUS
  <1>1. /\ ConfigOK /\ BalanceOK /\ RequestsOK /\ Gauges
        /\ \A q \in Requests : InStep(q)
        /\ GaugesExact /\ Sheltered /\ DefaultCovers /\ Fair
    BY DEF ProxyInv, ProxyTypeOK
  <1>2. ConfigOK'
    BY <1>1, ConfigKept
  <1>3. RequestsOK' /\ \A q \in Requests : InStep(q)'
    BY <1>1, StepsKept
  <1>4. Sheltered' /\ DefaultCovers'
    BY <1>1, CoverKept
  <1>5. Gauges' /\ GaugesExact'
    BY <1>1, GaugesKept
  <1>6. BalanceOK' /\ Fair'
    BY <1>1, <1>2, BalanceKept
  <1>. QED
    BY <1>2, <1>3, <1>4, <1>5, <1>6 DEF ProxyInv, ProxyTypeOK

LEMMA ProxyInvHolds == Spec => []ProxyInv
  BY ProxyBegins, ProxyInvIsInductive, PTL DEF Spec

\* However many requests, rules and targets there are, and whatever is changed
\* while they run: the gauges the balancing reads count exactly the requests
\* that are under way, in the proxy, each rule and each target.
THEOREM GaugesAreExact == Spec => []GaugesExact
  <1>1. ProxyInv => GaugesExact
    BY DEF ProxyInv
  <1>. QED
    BY <1>1, ProxyInvHolds, PTL

\* A request hears that there is no route or no target only if the default
\* rule was missing or bare at some moment of it.
THEOREM DefaultDoesCover == Spec => []DefaultCovers
  <1>1. ProxyInv => DefaultCovers
    BY DEF ProxyInv
  <1>. QED
    BY <1>1, ProxyInvHolds, PTL

\* For any number of targets, of any weights, and in whatever order requests
\* list and choose them: round robin stays even to one turn, and the weights
\* are kept to less than a turn, and exactly after every full round.
THEOREM SharesAreFair == Spec => []FairShare
  <1>1. ProxyInv => FairShare
    BY FairSharesFollow DEF ProxyInv, ProxyTypeOK
  <1>. QED
    BY <1>1, ProxyInvHolds, PTL

-----------------------------------------------------------------------------
(* Http3Server: what its streams hold.                                     *)

Kinds3 == {"headers", "data", "huge", "bad"}
Request3 == [headers : BOOLEAN, body : Nat, finished : BOOLEAN, answered : BOOLEAN, rejected : BOOLEAN]
Segment == [off : Nat, len : Nat]

LEMMA FramesAre ==
  ASSUME request \in [Streams -> Contents], NEW s \in Streams
  PROVE  /\ Size(s) \in Nat /\ Frames(s) \in Seq(Kinds3)
         /\ \A i \in 1..Size(s) : Frames(s)[i] \in Kinds3
  <1>1. request[s] \in Contents
    OBVIOUS
  <1>2. Frames(s) \in Seq(Kinds3)
    BY <1>1, ServerConstants DEF Frames, Kinds3
  <1>. QED
    BY <1>2 DEF Size

\* The greatest element of a bounded set of numbers.
LEMMA GreatestOf ==
  ASSUME NEW T, NEW b \in Nat, T \subseteq 0..b, T # {}
  PROVE  Max(T) \in T /\ \A y \in T : Max(T) >= y
  <1>1. PICK D : D = {n \in Nat : b - n \in T}
    OBVIOUS
  <1>2. D \subseteq Nat /\ D # {}
    <2>1. PICK x \in T : x \in 0..b
      OBVIOUS
    <2>2. b - x \in Nat /\ b - (b - x) = x
      BY <2>1
    <2>. QED
      BY <1>1, <2>1, <2>2
  <1>3. PICK d \in D : \A e \in D : d <= e
    BY <1>2, LeastOfNats
  <1>4. b - d \in T /\ d \in Nat
    BY <1>1, <1>3
  <1>5. ASSUME NEW y \in T PROVE b - d >= y
    <2>1. y \in 0..b
      OBVIOUS
    <2>2. b - y \in Nat /\ b - (b - y) = y
      BY <2>1
    <2>3. b - y \in D
      BY <1>1, <2>2
    <2>. QED
      BY <1>3, <1>4, <2>1, <2>3
  <1>6. \E x \in T : \A y \in T : x >= y
    BY <1>4, <1>5
  <1>. QED
    BY <1>6 DEF Max

\* The bytes delivered after a piece that closes a gap: as far as pieces reach.
LEMMA ReachedIs ==
  ASSUME NEW s, Size(s) \in Nat, received[s] \in 0..Size(s), NEW p,
         NEW r, r = Reached(s, p)
  PROVE  /\ r \in received[s]..Size(s)
         /\ \A u \in received[s]..r - 1 : \E q \in held[s] \cup {p} : Spans(q, u)
         /\ r < Size(s) => ~ \E q \in held[s] \cup {p} : Spans(q, r)
  <1>1. PICK T : T = {n \in received[s]..Size(s) :
                       \A u \in received[s]..n - 1 : \E q \in held[s] \cup {p} : Spans(q, u)}
    OBVIOUS
  <1>2. r = Max(T)
    BY <1>1 DEF Reached
  <1>3. received[s] \in T
    BY <1>1
  <1>4. T \subseteq 0..Size(s)
    BY <1>1
  <1>5. r \in T /\ \A y \in T : r >= y
    BY <1>2, <1>3, <1>4, GreatestOf
  <1>6. ASSUME r < Size(s), \E q \in held[s] \cup {p} : Spans(q, r) PROVE FALSE
    <2>1. r \in received[s]..Size(s) /\ r + 1 \in received[s]..Size(s)
      BY <1>1, <1>5, <1>6
    <2>2. ASSUME NEW u \in received[s]..(r + 1) - 1 PROVE \E q \in held[s] \cup {p} : Spans(q, u)
      <3>1. u = r \/ u \in received[s]..r - 1
        BY <2>1
      <3>. QED
        BY <1>1, <1>5, <1>6, <3>1
    <2>3. r + 1 \in T
      BY <1>1, <2>1, <2>2
    <2>. QED
      BY <1>5, <2>1, <2>3
  <1>. QED
    BY <1>1, <1>5, <1>6

\* What feed() computes, one frame after the other.
Fed(s, from, to, g) ==
  /\ g[from] = [r |-> h3[s], error |-> FALSE]
  /\ \A n \in from + 1..to : g[n] = OnFrame(g[n - 1], Frames(s)[n], HasSocket(s))
Outcome(r, fed, fin) ==
  IF r.rejected THEN [r |-> [r EXCEPT !.finished = @ \/ fin], error |-> FALSE]
  ELSE IF fed.error \/ fed.r.rejected THEN fed
  ELSE [fed EXCEPT !.r.finished = @ \/ fin]
ResultOf(s, from, to, fin, fed) == \E g : Fed(s, from, to, g) /\ fed = Outcome(h3[s], g[to], fin)

LEMMA FeedRuns ==
  ASSUME NEW s, NEW from \in Nat, NEW to \in Nat, from <= to, NEW fin
  PROVE  ResultOf(s, from, to, fin, Feed(s, from, to, fin))
  <1> DEFINE Step(f, n) == IF n = from THEN [r |-> h3[s], error |-> FALSE]
                           ELSE OnFrame(f[n - 1], Frames(s)[n], HasSocket(s))
             Good == {m \in 0..to - from : \E f : f = [n \in from..from + m |-> Step(f, n)]}
  <1>1. 0 \in Good
    <2>1. PICK f : f = [n \in from..from + 0 |-> Step(n, from)]
      OBVIOUS
    <2>2. \A n \in from..from + 0 : Step(f, n) = Step(n, from)
      OBVIOUS
    <2>3. f = [n \in from..from + 0 |-> Step(f, n)]
      <3> HIDE DEF Step
      <3>. QED
        BY <2>1, <2>2
    <2>4. 0 \in 0..to - from
      OBVIOUS
    <2> HIDE DEF Step
    <2>. QED
      BY <2>3, <2>4
  <1>2. ASSUME NEW m \in 0..(to - from) - 1, m \in Good PROVE m + 1 \in Good
    <2>1. PICK f : f = [n \in from..from + m |-> Step(f, n)]
      BY <1>2
    <2>2. PICK g : g = [n \in from..from + (m + 1) |-> Step(f, n)]
      OBVIOUS
    <2>3. \A n \in from..from + m : g[n] = f[n]
      <3> SUFFICES ASSUME NEW n \in from..from + m PROVE g[n] = f[n]
        OBVIOUS
      <3>1. n \in from..from + (m + 1)
        OBVIOUS
      <3>2. f[n] = Step(f, n)
        <4> HIDE DEF Step
        <4>. QED
          BY <2>1
      <3>3. g[n] = Step(f, n)
        <4> HIDE DEF Step
        <4>. QED
          BY <2>2, <3>1
      <3>. QED
        BY <3>2, <3>3
    <2>4. \A n \in from..from + (m + 1) : Step(f, n) = Step(g, n)
      <3> SUFFICES ASSUME NEW n \in from..from + (m + 1) PROVE Step(f, n) = Step(g, n)
        OBVIOUS
      <3>1. n # from => n - 1 \in from..from + m
        OBVIOUS
      <3>2. n # from => f[n - 1] = g[n - 1]
        BY <2>3, <3>1
      <3>. QED
        BY <3>2
    <2>5. g = [n \in from..from + (m + 1) |-> Step(g, n)]
      <3> HIDE DEF Step
      <3>. QED
        BY <2>2, <2>4
    <2>6. m + 1 \in 0..to - from
      OBVIOUS
    <2> HIDE DEF Step
    <2>. QED
      BY <2>5, <2>6
  <1>3. \A m \in 0..to - from : m \in Good
    <2>1. to - from \in Nat
      OBVIOUS
    <2> HIDE DEF Good
    <2>. QED
      BY <1>1, <1>2, <2>1, UpwardTo
  <1>4. \E f : f = [n \in from..to |-> Step(f, n)]
    <2>1. to - from \in 0..to - from /\ from + (to - from) = to
      OBVIOUS
    <2>2. to - from \in Good
      <3> HIDE DEF Good
      <3>. QED
        BY <1>3, <2>1
    <2> HIDE DEF Step
    <2>3. \E f : f = [n \in from..from + (to - from) |-> Step(f, n)]
      BY <2>2
    <2>. QED
      BY <2>1, <2>3
  <1>5. PICK g : g = CHOOSE f : f = [n \in from..to |-> Step(f, n)]
    OBVIOUS
  <1>6. g = [n \in from..to |-> Step(g, n)]
    <2> HIDE DEF Step
    <2>. QED
      BY <1>4, <1>5
  <1>7. Feed(s, from, to, fin) = Outcome(h3[s], g[to], fin)
    BY <1>5 DEF Feed, Outcome
  <1>8. \A n \in from..to : g[n] = Step(g, n)
    <2> HIDE DEF Step
    <2>. QED
      BY <1>6
  <1>9. Fed(s, from, to, g)
    <2>1. from \in from..to
      OBVIOUS
    <2>2. \A n \in from + 1..to : n \in from..to /\ n # from
      OBVIOUS
    <2>. QED
      BY <1>8, <2>1, <2>2 DEF Fed
  <1>. QED
    BY <1>7, <1>9 DEF ResultOf

-----------------------------------------------------------------------------
(* Http3Server: RequestStream, one frame after the other. *)

Feeding == [r : Request3, error : BOOLEAN]

\* One frame: refused, ignored, or taken into the request.
FrameTaken(st, frame, onSocket, n) ==
  /\ n \in Feeding
  /\ n.r.answered = st.r.answered /\ n.r.finished = st.r.finished
  /\ st.error \/ st.r.rejected => n = st
  /\ ~onSocket /\ st.r.body <= MaxBody => n.r.body <= MaxBody
  /\ ~n.error /\ ~n.r.rejected =>
       /\ frame \notin {"huge", "bad"} /\ ~st.error
       /\ frame = "headers" => n.r.headers /\ n.r.body = st.r.body
       /\ frame = "data" => st.r.headers /\ n.r.headers /\ n.r.body = st.r.body + 1
  /\ n.error => st.error \/ frame = "bad" \/ (frame = "data" /\ ~st.r.headers)

LEMMA OnFrameIs ==
  ASSUME NEW st \in Feeding, NEW frame \in Kinds3, NEW onSocket \in BOOLEAN,
         NEW n, n = OnFrame(st, frame, onSocket)
  PROVE  FrameTaken(st, frame, onSocket, n)
  <1> DEFINE Made(h, b, f, a, j, e) ==
        [r |-> [headers |-> h, body |-> b, finished |-> f, answered |-> a, rejected |-> j], error |-> e]
  <1>1. PICK h \in BOOLEAN, b \in Nat, f \in BOOLEAN, a \in BOOLEAN, j \in BOOLEAN, e \in BOOLEAN :
          st = Made(h, b, f, a, j, e)
    <2>1. st = [r |-> st.r, error |-> st.error] /\ st.r \in Request3 /\ st.error \in BOOLEAN
      BY DEF Feeding
    <2>2. /\ st.r = [headers |-> st.r.headers, body |-> st.r.body, finished |-> st.r.finished,
                     answered |-> st.r.answered, rejected |-> st.r.rejected]
          /\ st.r.headers \in BOOLEAN /\ st.r.body \in Nat /\ st.r.finished \in BOOLEAN
          /\ st.r.answered \in BOOLEAN /\ st.r.rejected \in BOOLEAN
      BY <2>1 DEF Request3
    <2>. QED
      BY <2>1, <2>2
  <1>2. /\ st.r.headers = h /\ st.r.body = b /\ st.r.finished = f /\ st.r.answered = a
        /\ st.r.rejected = j /\ st.error = e /\ MaxBody \in Nat
    BY <1>1, ServerConstants
  <1>3. ASSUME NEW h1 \in BOOLEAN, NEW b1 \in Nat, NEW j1 \in BOOLEAN, NEW e1 \in BOOLEAN,
               n = Made(h1, b1, f, a, j1, e1)
        PROVE  /\ n \in Feeding /\ n.r.headers = h1 /\ n.r.body = b1 /\ n.r.finished = f
               /\ n.r.answered = a /\ n.r.rejected = j1 /\ n.error = e1
    <2>1. n.r \in Request3
      BY <1>1, <1>3 DEF Request3
    <2>2. n.error \in BOOLEAN /\ n = [r |-> n.r, error |-> n.error]
      BY <1>3
    <2>. QED
      BY <1>3, <2>1, <2>2 DEF Feeding
  <1>4. CASE e \/ j
    <2>1. n = st
      BY <1>2, <1>4 DEF OnFrame
    <2>2. n \in Feeding /\ (n.error \/ n.r.rejected)
      BY <1>2, <1>4, <2>1
    <2>3. /\ n.r.answered = st.r.answered /\ n.r.finished = st.r.finished /\ n.r.rejected = st.r.rejected
          /\ n.r.body = st.r.body /\ n.error = st.error
      BY <2>1
    <2>4. (n.error => st.error) /\ (~onSocket /\ st.r.body <= MaxBody => n.r.body <= MaxBody)
      BY <2>1
    <2> HIDE DEF Made
    <2>. QED
      BY <2>1, <2>2, <2>3, <2>4 DEF FrameTaken
  <1>5. CASE ~e /\ ~j /\ frame = "headers"
    <2>1. n = [st EXCEPT !.r.headers = TRUE]
      BY <1>2, <1>5 DEF OnFrame
    <2>2. n = Made(TRUE, b, f, a, j, e)
      BY <1>1, <2>1
    <2> HIDE DEF Made
    <2>3. /\ n \in Feeding /\ n.r.headers = TRUE /\ n.r.body = b /\ n.r.finished = f
          /\ n.r.answered = a /\ n.r.rejected = j /\ n.error = e
      BY <1>3, <2>2
    <2>. QED
      BY <1>2, <1>5, <2>3 DEF FrameTaken
  <1>6. CASE ~e /\ ~j /\ frame = "data" /\ ~h
    <2>1. n = [st EXCEPT !.error = TRUE]
      BY <1>2, <1>6 DEF OnFrame
    <2>2. n = Made(h, b, f, a, j, TRUE)
      BY <1>1, <2>1
    <2>3. TRUE \in BOOLEAN
      OBVIOUS
    <2> HIDE DEF Made
    <2>4. /\ n \in Feeding /\ n.r.headers = h /\ n.r.body = b /\ n.r.finished = f
          /\ n.r.answered = a /\ n.r.rejected = j /\ n.error = TRUE
      BY <1>3, <2>2, <2>3
    <2>. QED
      BY <1>2, <1>6, <2>4 DEF FrameTaken
  <1>7. CASE ~e /\ ~j /\ frame = "data" /\ h /\ ~onSocket /\ b >= MaxBody
    <2>1. n = [st EXCEPT !.r.rejected = TRUE, !.r.body = 0]
      BY <1>2, <1>7 DEF OnFrame
    <2>2. n = Made(h, 0, f, a, TRUE, e)
      BY <1>1, <2>1
    <2>3. 0 \in Nat /\ TRUE \in BOOLEAN /\ 0 <= MaxBody
      BY <1>2
    <2> HIDE DEF Made
    <2>4. /\ n \in Feeding /\ n.r.headers = h /\ n.r.body = 0 /\ n.r.finished = f
          /\ n.r.answered = a /\ n.r.rejected = TRUE /\ n.error = e
      BY <1>3, <2>2, <2>3
    <2>. QED
      BY <1>2, <1>7, <2>4, <2>3 DEF FrameTaken
  <1>11. CASE ~e /\ ~j /\ frame = "huge"
    <2>1. n = [st EXCEPT !.r.rejected = TRUE, !.r.body = 0]
      BY <1>2, <1>11 DEF OnFrame
    <2>2. n = Made(h, 0, f, a, TRUE, e)
      BY <1>1, <2>1
    <2>3. 0 \in Nat /\ TRUE \in BOOLEAN /\ 0 <= MaxBody
      BY <1>2
    <2> HIDE DEF Made
    <2>4. /\ n \in Feeding /\ n.r.headers = h /\ n.r.body = 0 /\ n.r.finished = f
          /\ n.r.answered = a /\ n.r.rejected = TRUE /\ n.error = e
      BY <1>3, <2>2, <2>3
    <2>. QED
      BY <1>2, <1>11, <2>4, <2>3 DEF FrameTaken
  <1>8. CASE ~e /\ ~j /\ frame = "data" /\ h /\ (onSocket \/ b < MaxBody)
    <2>1. n = [st EXCEPT !.r.body = @ + 1]
      BY <1>2, <1>8 DEF OnFrame
    <2>2. n = Made(h, b + 1, f, a, j, e)
      BY <1>1, <2>1
    <2>3. b + 1 \in Nat /\ (~onSocket => b + 1 <= MaxBody)
      BY <1>2, <1>8
    <2> HIDE DEF Made
    <2>4. /\ n \in Feeding /\ n.r.headers = h /\ n.r.body = b + 1 /\ n.r.finished = f
          /\ n.r.answered = a /\ n.r.rejected = j /\ n.error = e
      BY <1>3, <2>2, <2>3
    <2>. QED
      BY <1>2, <1>8, <2>4, <2>3 DEF FrameTaken
  <1>9. CASE ~e /\ ~j /\ frame = "bad"
    <2>1. n = [st EXCEPT !.error = TRUE]
      BY <1>2, <1>9 DEF OnFrame
    <2>2. n = Made(h, b, f, a, j, TRUE)
      BY <1>1, <2>1
    <2> HIDE DEF Made
    <2>3. /\ n \in Feeding /\ n.r.headers = h /\ n.r.body = b /\ n.r.finished = f
          /\ n.r.answered = a /\ n.r.rejected = j /\ n.error = TRUE
      BY <1>3, <2>2
    <2>4. n.error /\ (~onSocket /\ st.r.body <= MaxBody => n.r.body <= MaxBody)
      BY <1>2, <2>3
    <2>5. ~(st.error \/ st.r.rejected)
      BY <1>2, <1>9
    <2>. QED
      BY <1>2, <1>9, <2>3, <2>4, <2>5 DEF FrameTaken
  <1>10. h /\ ~onSocket => b >= MaxBody \/ b < MaxBody
    BY <1>2
  <1>. QED
    BY <1>4, <1>5, <1>6, <1>7, <1>8, <1>9, <1>10, <1>11 DEF Kinds3

\* A request without fault is taken in as it comes: its headers are there from
\* the first frame on, and its body is the data so far.
Gathered(s, n, r) == (r.headers <=> n > 0) /\ r.body = Cardinality(DataUpTo(s, n))

LEMMA OneMoreFrame ==
  ASSUME NEW s, Size(s) \in Nat, NEW n \in 1..Size(s)
  PROVE  /\ Cardinality(DataUpTo(s, n - 1)) \in Nat
         /\ Cardinality(DataUpTo(s, n)) =
              Cardinality(DataUpTo(s, n - 1)) + (IF Frames(s)[n] = "data" THEN 1 ELSE 0)
  <1>1. IsFiniteSet(DataUpTo(s, n - 1)) /\ n \notin DataUpTo(s, n - 1)
    <2>1. n - 1 \in Int /\ DataUpTo(s, n - 1) \subseteq 1..n - 1 /\ n \notin 1..n - 1
      BY DEF DataUpTo
    <2>2. IsFiniteSet(1..n - 1)
      BY <2>1, FS_Interval
    <2>. QED
      BY <2>1, <2>2, FS_Subset
  <1>2. DataUpTo(s, n) = DataUpTo(s, n - 1) \cup (IF Frames(s)[n] = "data" THEN {n} ELSE {})
    <2>1. \A i : i \in 1..n <=> i \in 1..n - 1 \/ i = n
      OBVIOUS
    <2>. QED
      BY <2>1 DEF DataUpTo
  <1>3. Cardinality(DataUpTo(s, n - 1)) \in Nat
    BY <1>1, FS_CardinalityType
  <1>4. Cardinality(DataUpTo(s, n - 1) \cup {n}) = Cardinality(DataUpTo(s, n - 1)) + 1
    BY <1>1, FS_AddElement
  <1>5. Frames(s)[n] # "data" => DataUpTo(s, n) = DataUpTo(s, n - 1)
    BY <1>2
  <1>6. Frames(s)[n] = "data" => DataUpTo(s, n) = DataUpTo(s, n - 1) \cup {n}
    BY <1>2
  <1>. QED
    BY <1>3, <1>4, <1>5, <1>6

FedWell(s, n, st) ==
  /\ st \in Feeding
  /\ st.r.answered = h3[s].answered /\ st.r.finished = h3[s].finished
  /\ ~HasSocket(s) => st.r.body <= MaxBody
  /\ ~HasSocket(s) /\ Sound(s) /\ ~st.r.rejected => ~st.error /\ Gathered(s, n, st.r)

LEMMA FedWellOn ==
  ASSUME request \in [Streams -> Contents], NEW s \in Streams, NEW n \in 1..Size(s),
         NEW st, FedWell(s, n - 1, st), NEW new, new = OnFrame(st, Frames(s)[n], HasSocket(s))
  PROVE  FedWell(s, n, new)
  <1>1. Size(s) \in Nat /\ Frames(s)[n] \in Kinds3 /\ HasSocket(s) \in BOOLEAN
    BY FramesAre DEF HasSocket
  <1>2. FrameTaken(st, Frames(s)[n], HasSocket(s), new)
    <2> st \in Feeding
      BY DEF FedWell
    <2>. QED
      BY <1>1, OnFrameIs
  <1>3. ASSUME ~HasSocket(s), Sound(s), ~new.r.rejected PROVE ~new.error /\ Gathered(s, n, new.r)
    <2>1. ~st.r.rejected
      BY <1>2, <1>3 DEF FrameTaken, FedWell
    <2>2. ~st.error /\ Gathered(s, n - 1, st.r)
      BY <1>3, <2>1 DEF FedWell
    <2>3. Frames(s)[n] \in {"headers", "data"} /\ (n = 1 => Frames(s)[n] = "headers")
      BY <1>1, <1>3 DEF Sound, Kinds3
    <2>4. n # 1 => st.r.headers
      BY <2>2 DEF Gathered
    <2>5. ~new.error
      BY <1>2, <2>2, <2>3, <2>4 DEF FrameTaken
    <2>6. /\ new.r.headers
          /\ new.r.body = IF Frames(s)[n] = "data" THEN st.r.body + 1 ELSE st.r.body
      BY <1>2, <1>3, <2>3, <2>5 DEF FrameTaken
    <2>. QED
      BY <1>1, <2>2, <2>5, <2>6, OneMoreFrame DEF Gathered
  <1>. QED
    BY <1>2, <1>3 DEF FedWell, FrameTaken

LEMMA FeedIsWell ==
  ASSUME request \in [Streams -> Contents], NEW s \in Streams,
         NEW from \in Nat, NEW to \in from..Size(s), NEW fin \in BOOLEAN,
         ~h3[s].rejected => FedWell(s, from, [r |-> h3[s], error |-> FALSE]),
         h3[s] \in Request3, NEW fed, fed = Feed(s, from, to, fin)
  PROVE  /\ fed \in Feeding /\ fed.r.answered = h3[s].answered
         /\ h3[s].rejected => fed.r.rejected /\ ~fed.error /\ fed.r.body = h3[s].body
         /\ ~h3[s].rejected => FedWell(s, to, [fed EXCEPT !.r.finished = h3[s].finished])
         /\ fed.r.finished => h3[s].finished \/ fin
         /\ ~fed.error /\ ~fed.r.rejected => fed.r.finished = (h3[s].finished \/ fin)
         /\ from = to => ~fed.error /\ fed.r.rejected = h3[s].rejected
  <1>1. Size(s) \in Nat /\ to \in Nat /\ from <= to
    BY FramesAre
  <1>2. PICK g : Fed(s, from, to, g) /\ fed = Outcome(h3[s], g[to], fin)
    <2>1. ResultOf(s, from, to, fin, fed)
      BY <1>1, FeedRuns
    <2>. QED
      BY <2>1 DEF ResultOf
  <1>3. /\ h3[s] = [headers |-> h3[s].headers, body |-> h3[s].body, finished |-> h3[s].finished,
                    answered |-> h3[s].answered, rejected |-> h3[s].rejected]
        /\ h3[s].body \in Nat /\ {h3[s].headers, h3[s].finished, h3[s].answered, h3[s].rejected} \subseteq BOOLEAN
    BY DEF Request3
  <1>4. CASE h3[s].rejected
    <2>1. fed = [r |-> [h3[s] EXCEPT !.finished = @ \/ fin], error |-> FALSE]
      BY <1>2, <1>4 DEF Outcome
    <2>2. fed.r = [headers |-> h3[s].headers, body |-> h3[s].body, finished |-> h3[s].finished \/ fin,
                    answered |-> h3[s].answered, rejected |-> h3[s].rejected] /\ fed.error = FALSE
      BY <1>3, <2>1
    <2>3. /\ fed \in Feeding /\ fed.r.answered = h3[s].answered /\ fed.r.rejected = h3[s].rejected
          /\ fed.r.body = h3[s].body /\ fed.r.finished = (h3[s].finished \/ fin) /\ fed.error = FALSE
      BY <1>3, <2>1, <2>2 DEF Feeding, Request3
    <2>. QED
      BY <1>3, <1>4, <2>3
  <1>5. CASE ~h3[s].rejected
    <2>1. FedWell(s, to, g[to])
      <3> DEFINE Good == {k \in 0..to - from : FedWell(s, from + k, g[from + k])}
      <3>1. 0 \in Good
        BY <1>1, <1>2, <1>5 DEF Fed
      <3>2. ASSUME NEW k \in 0..(to - from) - 1, k \in Good PROVE k + 1 \in Good
        <4>1. PICK n \in 1..Size(s) : n = from + (k + 1) /\ n - 1 = from + k /\ n \in from + 1..to
          BY <1>1
        <4>2. FedWell(s, n - 1, g[n - 1])
          BY <3>2, <4>1
        <4>3. g[n] = OnFrame(g[n - 1], Frames(s)[n], HasSocket(s))
          BY <1>2, <4>1 DEF Fed
        <4>4. FedWell(s, n, g[n])
          BY <4>2, <4>3, FedWellOn
        <4>. QED
          BY <4>1, <4>4
      <3>3. \A k \in 0..to - from : k \in Good
        <4>1. to - from \in Nat
          BY <1>1
        <4> HIDE DEF Good
        <4>. QED
          BY <3>1, <3>2, <4>1, UpwardTo
      <3>4. to - from \in 0..to - from /\ from + (to - from) = to
        BY <1>1
      <3>. QED
        BY <3>3, <3>4
    <2>2. PICK e : e = g[to]
      OBVIOUS
    <2>3. /\ e \in Feeding /\ e = [r |-> e.r, error |-> e.error] /\ e.r \in Request3 /\ e.error \in BOOLEAN
          /\ e.r = [headers |-> e.r.headers, body |-> e.r.body, finished |-> e.r.finished,
                    answered |-> e.r.answered, rejected |-> e.r.rejected]
          /\ e.r.body \in Nat /\ {e.r.headers, e.r.finished, e.r.answered, e.r.rejected} \subseteq BOOLEAN
          /\ e.r.answered = h3[s].answered /\ e.r.finished = h3[s].finished
      BY <2>1, <2>2 DEF FedWell, Feeding, Request3
    <2>4. fed = IF e.error \/ e.r.rejected THEN e ELSE [e EXCEPT !.r.finished = @ \/ fin]
      BY <1>2, <1>5, <2>2 DEF Outcome
    <2>5. fed = [r |-> [headers |-> e.r.headers, body |-> e.r.body,
                        finished |-> e.r.finished \/ (fin /\ ~e.error /\ ~e.r.rejected),
                        answered |-> e.r.answered, rejected |-> e.r.rejected], error |-> e.error]
      BY <2>3, <2>4
    <2>6. [fed EXCEPT !.r.finished = h3[s].finished] = e
      BY <2>3, <2>5
    <2>7. fed \in Feeding
      BY <2>3, <2>5 DEF Feeding, Request3
    <2>8. ASSUME from = to PROVE ~fed.error /\ fed.r.rejected = h3[s].rejected
      <3>1. e = [r |-> h3[s], error |-> FALSE]
        BY <1>2, <2>2, <2>8 DEF Fed
      <3>2. e.r = h3[s] /\ e.error = FALSE
        BY <3>1
      <3>. QED
        BY <2>5, <3>2
    <2>. QED
      BY <1>5, <2>1, <2>2, <2>3, <2>5, <2>6, <2>7, <2>8
  <1>. QED
    BY <1>4, <1>5

-----------------------------------------------------------------------------
(* Http3Server: StreamBuffer.add. *)

Pieces(size, at, high, ps) == at <= high /\ high <= size /\ \A q \in ps : q.off + q.len <= high
Keeps(at, ps, came) == \A u \in came : u < at \/ \E q \in ps : Spans(q, u)

\* A piece goes where it belongs, and takes from what is held only what it, or
\* the delivery it lets on, covers.
LEMMA PieceTaken ==
  ASSUME NEW s, Size(s) \in Nat, received[s] \in Nat, highest[s] \in Nat, held[s] \subseteq Segment,
         got[s] \subseteq Nat,
         Pieces(Size(s), received[s], highest[s], held[s]),
         NEW p \in Segment, p.off + p.len <= Size(s), NEW r, NEW ps,
         p.off > received[s] => r = received[s] /\ ps = Hold(held[s], p),
         ~(p.off > received[s]) => r = Reached(s, p) /\ ps = {q \in held[s] : q.off > r}
  PROVE  /\ r \in received[s]..Size(s) /\ ps \subseteq Segment
         /\ Larger(highest[s], p.off + p.len) \in Nat
         /\ Pieces(Size(s), r, Larger(highest[s], p.off + p.len), ps)
         /\ (\A q \in held[s] : q.off = p.off => q.len <= p.len) /\ Keeps(received[s], held[s], got[s])
              => Keeps(r, ps, got[s] \cup p.off..p.off + p.len - 1)
  <1>1. PICK high \in Nat : high = Larger(highest[s], p.off + p.len) /\ high >= highest[s]
                            /\ high >= p.off + p.len /\ high <= Size(s)
    BY DEF Larger, Segment, Pieces
  <1>2. p.off \in Nat /\ p.len \in Nat /\ \A q \in held[s] : q.off \in Nat /\ q.len \in Nat
    BY DEF Segment
  <1>3. received[s] <= Size(s)
    BY DEF Pieces
  <1>4. CASE p.off > received[s]
    <2>1. r = received[s] /\ ps = Hold(held[s], p) /\ p \in ps
      BY <1>4 DEF Hold
    <2>2. ps \subseteq held[s] \cup {p}
      BY <2>1 DEF Hold
    <2>3. Pieces(Size(s), r, high, ps)
      BY <1>1, <1>2, <2>1, <2>2 DEF Pieces
    <2>4. ASSUME \A q \in held[s] : q.off = p.off => q.len <= p.len, Keeps(received[s], held[s], got[s]),
                 NEW u \in got[s] \cup p.off..p.off + p.len - 1
          PROVE  u < r \/ \E q \in ps : Spans(q, u)
      <3>1. u \in Nat
        BY <1>2
      <3>2. CASE u \in p.off..p.off + p.len - 1
        BY <1>2, <2>1, <3>2 DEF Spans
      <3>3. CASE u \in got[s]
        <4>1. CASE u < received[s]
          BY <2>1, <4>1
        <4>2. CASE \E q \in held[s] : Spans(q, u)
          <5>1. PICK q \in held[s] : Spans(q, u)
            BY <4>2
          <5>2. CASE q.off = p.off
            <6>1. q.len <= p.len /\ q.off \in Nat /\ q.len \in Nat /\ q.off <= u /\ u < q.off + q.len
              BY <1>2, <2>4, <5>1, <5>2 DEF Spans
            <6>2. p.off + q.len <= p.off + p.len
              BY <1>2, <6>1
            <6>3. Spans(p, u)
              <7>1. ASSUME NEW a \in Nat, NEW b \in Nat, NEW c \in Nat, b <= c, u < a + b PROVE u < a + c
                <8>1. a + b <= a + c /\ a + b \in Int /\ a + c \in Int
                  BY <7>1
                <8>. QED
                  BY <3>1, <7>1, <8>1
              <7>. QED
                BY <1>2, <5>2, <6>1, <7>1 DEF Spans
            <6>. QED
              BY <2>1, <6>3
          <5>3. CASE q.off # p.off
            BY <2>1, <5>1, <5>3 DEF Hold
          <5>. QED
            BY <5>2, <5>3
        <4>. QED
          BY <2>4, <3>3, <4>1, <4>2 DEF Keeps
      <3>. QED
        BY <2>4, <3>2, <3>3
    <2>5. r \in received[s]..Size(s) /\ ps \subseteq Segment
      BY <1>3, <2>1, <2>2
    <2>. QED
      BY <1>1, <2>3, <2>4, <2>5 DEF Keeps
  <1>5. CASE ~(p.off > received[s])
    <2>1. /\ r \in received[s]..Size(s)
          /\ \A u \in received[s]..r - 1 : \E q \in held[s] \cup {p} : Spans(q, u)
          /\ r < Size(s) => ~ \E q \in held[s] \cup {p} : Spans(q, r)
      <3>1. received[s] \in 0..Size(s) /\ r = Reached(s, p)
        BY <1>3, <1>5
      <3>. QED
        BY <3>1, ReachedIs
    <2>2. ps = {q \in held[s] : q.off > r}
      BY <1>5
    <2>3. r <= high
      <3>1. CASE r = received[s]
        BY <1>1, <3>1 DEF Pieces
      <3>2. CASE r # received[s]
        <4>1. r - 1 \in received[s]..r - 1
          BY <2>1, <3>2
        <4>2. PICK q \in held[s] \cup {p} : Spans(q, r - 1)
          BY <2>1, <4>1
        <4>3. q.off + q.len <= high /\ q.off \in Nat /\ q.len \in Nat
          BY <1>1, <1>2 DEF Pieces
        <4>4. r - 1 < q.off + q.len /\ r \in Nat
          BY <2>1, <4>2 DEF Spans
        <4>. QED
          BY <4>3, <4>4
      <3>. QED
        BY <3>1, <3>2
    <2>4. Pieces(Size(s), r, high, ps)
      BY <1>1, <1>2, <2>2, <2>3 DEF Pieces
    <2>5. ASSUME Keeps(received[s], held[s], got[s]), NEW u \in got[s] \cup p.off..p.off + p.len - 1
          PROVE  u < r \/ \E q \in ps : Spans(q, u)
      <3>1. CASE u < received[s]
        <4>1. received[s] <= r /\ r \in Nat
          BY <2>1
        <4>2. u \in Nat
          BY <1>2
        <4>. QED
          BY <3>1, <4>1, <4>2
      <3>2. CASE \E q \in held[s] \cup {p} : Spans(q, u)
        <4>1. PICK q \in held[s] \cup {p} : Spans(q, u)
          BY <3>2
        <4>2. q.off \in Nat /\ q.len \in Nat /\ q.off + q.len <= Size(s) /\ q.off <= u /\ u < q.off + q.len
          BY <1>1, <1>2, <4>1 DEF Pieces, Spans
        <4>3. CASE q.off > r
          <5>1. q \in ps
            BY <1>5, <2>1, <2>2, <4>3, <1>2
          <5>. QED
            BY <4>1, <5>1
        <4>4. CASE ~(q.off > r) /\ ~(u < r)
          <5>1. u \in Nat /\ r \in Nat
            BY <1>2, <2>1
          <5>2. r <= u
            BY <4>4, <5>1
          <5>3. r < Size(s) /\ Spans(q, r)
            BY <4>2, <4>4, <5>1, <5>2 DEF Spans
          <5>. QED
            BY <2>1, <4>1, <5>3
        <4>. QED
          BY <4>3, <4>4
      <3>3. u \in p.off..p.off + p.len - 1 => Spans(p, u)
        BY <1>2 DEF Spans
      <3>. QED
        BY <2>5, <3>1, <3>2, <3>3 DEF Keeps
    <2>6. ps \subseteq Segment
      BY <2>2
    <2>. QED
      BY <1>1, <2>1, <2>4, <2>5, <2>6 DEF Keeps
  <1>. QED
    BY <1>4, <1>5

-----------------------------------------------------------------------------
(* Http3Server: the inductive invariant. *)

StreamsTyped ==
  /\ request \in [Streams -> Contents]
  /\ got \in [Streams -> SUBSET Nat] /\ held \in [Streams -> SUBSET Segment]
  /\ received \in [Streams -> Nat] /\ highest \in [Streams -> Nat] /\ ended \subseteq Streams
  /\ h3 \in [Streams -> Request3]
AnswersTyped ==
  /\ job \in [Streams -> {"none", "queued", "running", "answering", "pumping", "waiting", "ending", "done"}]
  /\ producer \in [Streams -> {"none", "live", "closed", "left"}]
  /\ queued \in [Streams -> 0..MaxPending + 1]
  /\ out \in [Streams -> {"none", "open", "fin", "reset"}]
  /\ handler \in [Streams -> {"none", "running", "receiving", "done"}]

TableInv ==
  /\ conn \in [Conns -> {"new", "open", "gone"}] /\ IsFiniteSet(OpenConns)
  /\ Cardinality(OpenConns) <= MaxConnections /\ silent \subseteq OpenConns

\* What arrived on a stream is delivered or held, unless pieces are cut shorter.
HoldsAll(s) ==
  /\ Pieces(Size(s), received[s], highest[s], held[s])
  /\ Recut \/ Keeps(received[s], held[s], got[s])

\* Its frames, as far as they were delivered, are in the request.
TakenIn(s) ==
  /\ h3[s].finished => received[s] = Size(s)
  /\ ~HasSocket(s) =>
       /\ h3[s].body <= MaxBody
       /\ Sound(s) /\ ~h3[s].rejected => Gathered(s, received[s], h3[s])

\* One answer: by a handler that has the whole request, by the WebSocket's, or
\* by the server itself.
AnswerAt(s) ==
  /\ ~h3[s].answered => out[s] = "none" /\ job[s] = "none" /\ handler[s] = "none"
  /\ HasSocket(s) => request[s].kind = "socket" /\ h3[s].answered
  /\ handler[s] \in {"running", "receiving"} => out[s] = "open"
  /\ request[s].kind = "socket" => job[s] = "none"
  /\ job[s] # "none" => received[s] = Size(s) /\ h3[s].finished /\ ~h3[s].rejected
  /\ job[s] \in {"queued", "running", "answering"} => out[s] = "none"
  /\ job[s] \in {"pumping", "waiting", "ending"} => out[s] = "open"
  /\ producer[s] = "closed" => job[s] = "done" /\ (out[s] = "fin" => s \in whole)

StreamInv ==
  /\ StreamsTyped /\ AnswersTyped
  /\ \A s \in Streams : HoldsAll(s) /\ TakenIn(s) /\ AnswerAt(s)

LEMMA StreamsBegin == H3Init => TableInv /\ StreamInv
  <1> SUFFICES ASSUME H3Init PROVE TableInv /\ StreamInv
    OBVIOUS
  <1>1. StreamsTyped /\ AnswersTyped
    BY ServerConstants DEF H3Init, StreamsTyped, AnswersTyped, Request3
  <1>2. TableInv
    <2>1. OpenConns = {}
      BY DEF H3Init, OpenConns, Open
    <2>2. IsFiniteSet(OpenConns) /\ Cardinality(OpenConns) = 0
      BY <2>1, FS_EmptySet
    <2>. QED
      BY <2>1, <2>2, ServerConstants DEF H3Init, TableInv
  <1>3. ASSUME NEW s \in Streams PROVE HoldsAll(s) /\ TakenIn(s) /\ AnswerAt(s)
    <2>1. Size(s) \in Nat
      BY <1>1, FramesAre DEF StreamsTyped
    <2>2. received[s] = 0 /\ highest[s] = 0 /\ held[s] = {} /\ got[s] = {}
      BY DEF H3Init
    <2>3. HoldsAll(s)
      BY <2>1, <2>2 DEF HoldsAll, Pieces, Keeps
    <2>4. h3[s].body = 0 /\ ~h3[s].headers /\ ~h3[s].finished /\ ~h3[s].answered /\ ~h3[s].rejected
      BY DEF H3Init
    <2>5. Cardinality(DataUpTo(s, 0)) = 0
      <3>1. DataUpTo(s, 0) = {}
        BY DEF DataUpTo
      <3>. QED
        BY <3>1, FS_EmptySet
    <2>6. TakenIn(s)
      BY <2>2, <2>4, <2>5, ServerConstants DEF TakenIn, Gathered
    <2>7. AnswerAt(s)
      BY <2>4 DEF H3Init, AnswerAt, HasSocket
    <2>. QED
      BY <2>3, <2>6, <2>7
  <1>. QED
    BY <1>1, <1>2, <1>3 DEF StreamInv

\* The table of connections: room is made before a connection is taken in.
LEMMA TableKept ==
  ASSUME TableInv, [H3Next]_h3Vars PROVE TableInv'
  <1>1. MaxConnections \in Nat \ {0} /\ ConnOf \in [Streams -> Conns]
    BY ServerConstants
  <1>2. ASSUME NEW gone \in SUBSET Conns, conn' = [c \in Conns |-> IF c \in gone THEN "gone" ELSE conn[c]],
               silent' = silent \ gone \/ (silent' = silent /\ gone = {})
        PROVE  TableInv'
    <2>1. OpenConns' = OpenConns \ gone /\ conn' \in [Conns -> {"new", "open", "gone"}]
      BY <1>2 DEF OpenConns, Open, TableInv
    <2>2. IsFiniteSet(OpenConns') /\ Cardinality(OpenConns') <= Cardinality(OpenConns)
          /\ Cardinality(OpenConns') \in Nat /\ Cardinality(OpenConns) \in Nat
      BY <2>1, FS_Subset, FS_CardinalityType DEF TableInv
    <2>. QED
      BY <1>1, <1>2, <2>1, <2>2 DEF TableInv
  <1>3. ASSUME NEW c \in Conns, Connect(c) PROVE TableInv'
    <2> DEFINE idle == IF Cardinality(OpenConns) >= MaxConnections THEN silent ELSE {}
    <2>1. PICK room \in {FALSE, RoomWithout(idle)} :
            /\ conn' = [d \in Conns |-> IF d \in idle THEN "gone" ELSE IF d = c /\ room THEN "open" ELSE conn[d]]
            /\ silent' = silent \ idle
      BY <1>3 DEF Connect
    <2>2. conn[c] = "new"
      BY <1>3 DEF Connect
    <2>3. idle \subseteq OpenConns /\ c \notin OpenConns
      BY <2>1, <2>2 DEF TableInv, OpenConns, Open
    <2>4. OpenConns' = (OpenConns \ idle) \cup (IF room THEN {c} ELSE {})
      BY <2>1, <2>3 DEF OpenConns, Open
    <2>5. conn' \in [Conns -> {"new", "open", "gone"}]
      BY <2>1 DEF TableInv
    <2>6. PICK rest : rest = OpenConns \ idle
      OBVIOUS
    <2>7. IsFiniteSet(rest) /\ Cardinality(rest) \in Nat /\ Cardinality(rest) <= MaxConnections
      <3>1. IsFiniteSet(rest) /\ Cardinality(rest) <= Cardinality(OpenConns)
            /\ Cardinality(rest) \in Nat /\ Cardinality(OpenConns) \in Nat
        BY <2>6, FS_Subset, FS_CardinalityType DEF TableInv
      <3>. QED
        BY <1>1, <3>1 DEF TableInv
    <2>8. IsFiniteSet(rest \cup {c}) /\ Cardinality(rest \cup {c}) = Cardinality(rest) + 1
      <3>1. c \notin rest
        BY <2>3, <2>6
      <3>. QED
        BY <2>7, <3>1, FS_AddElement
    <2>9. IsFiniteSet(OpenConns') /\ Cardinality(OpenConns') <= MaxConnections
      <3>1. CASE room
        <4>1. Cardinality(rest) < MaxConnections
          BY <2>1, <2>6, <3>1 DEF RoomWithout
        <4>2. OpenConns' = rest \cup {c}
          BY <2>4, <2>6, <3>1
        <4>. QED
          BY <1>1, <2>7, <2>8, <4>1, <4>2
      <3>2. CASE ~room
        <4>1. OpenConns' = rest
          BY <2>4, <2>6, <3>2
        <4>. QED
          BY <2>7, <4>1
      <3>. QED
        BY <3>1, <3>2
    <2>10. silent' \subseteq OpenConns'
      BY <2>1, <2>4 DEF TableInv
    <2>. QED
      BY <2>5, <2>9, <2>10 DEF TableInv
  <1>5. ASSUME NEW c \in Conns, Silence(c) PROVE TableInv'
    <2>1. UNCHANGED conn /\ silent' = silent \cup {c} /\ c \in OpenConns /\ UNCHANGED OpenConns
      BY <1>5 DEF Silence, OpenConns, Open
    <2>. QED
      BY <2>1 DEF TableInv
  <1>6. ASSUME NEW c \in Conns, PeerCloses(c) PROVE TableInv'
    BY <1>2, <1>6 DEF PeerCloses, Drop
  <1>7. ASSUME Tick PROVE TableInv'
    <2>1. silent \in SUBSET Conns
      BY DEF TableInv, OpenConns
    <2>. QED
      BY <1>2, <1>7, <2>1 DEF Tick, Drop
  <1>8. ASSUME Stop PROVE TableInv'
    <2>1. OpenConns \in SUBSET Conns
      BY DEF OpenConns
    <2>. QED
      BY <1>2, <1>8, <2>1 DEF Stop, Drop
  <1>9. ASSUME NEW s \in Streams, OnStreamFrame(s) PROVE TableInv'
    <2>1. silent' = silent \ {ConnOf[s]}
          /\ conn' \in {conn, [conn EXCEPT ![ConnOf[s]] = "gone"]}
      BY <1>9 DEF OnStreamFrame
    <2>2. CASE conn' = conn
      <3>1. UNCHANGED OpenConns
        BY <2>2 DEF OpenConns, Open
      <3>. QED
        BY <2>1, <2>2, <3>1 DEF TableInv
    <2>3. CASE conn' = [conn EXCEPT ![ConnOf[s]] = "gone"]
      <3>1. conn' = [c \in Conns |-> IF c \in {ConnOf[s]} THEN "gone" ELSE conn[c]] /\ {ConnOf[s]} \in SUBSET Conns
        BY <1>1, <2>3 DEF TableInv
      <3>. QED
        BY <1>2, <2>1, <3>1
    <2>. QED
      BY <2>1, <2>2, <2>3
  <1>10. ASSUME UNCHANGED tableVars PROVE TableInv'
    BY <1>10 DEF tableVars, TableInv, OpenConns, Open
  <1>11. ASSUME NEW s \in Streams, Works(s) \/ Drain(s) \/ WsRecv(s) \/ WsReturn(s) \/ WsLeave(s)
         PROVE  UNCHANGED tableVars
    BY <1>11 DEF Works, Start, Respond, Send, PumpChunk, PumpRoom, PumpEnd, Drain, WsRecv, WsReturn, WsLeave
  <1>12. UNCHANGED h3Vars => UNCHANGED tableVars
    BY DEF h3Vars
  <1>. QED
    BY <1>3, <1>5, <1>6, <1>7, <1>8, <1>9, <1>10, <1>11, <1>12 DEF H3Next

-----------------------------------------------------------------------------
(* Http3Server: the steps. *)

SoundAt(s) == HoldsAll(s) /\ TakenIn(s) /\ AnswerAt(s)
SameInput(s) ==
  /\ request' = request /\ received'[s] = received[s] /\ highest'[s] = highest[s]
  /\ held'[s] = held[s] /\ got'[s] = got[s] /\ h3'[s] = h3[s]

\* What depends on a stream's input and on whether it is a WebSocket.
LEMMA InputKept ==
  ASSUME NEW s, SameInput(s), HasSocket(s)' = HasSocket(s), HoldsAll(s), TakenIn(s)
  PROVE  HoldsAll(s)' /\ TakenIn(s)'
  <1>1. Frames(s)' = Frames(s) /\ Size(s)' = Size(s)
    BY DEF SameInput, Frames, Size
  <1>2. HoldsAll(s)'
    BY <1>1 DEF SameInput, HoldsAll, Pieces, Keeps
  <1>3. Sound(s)' = Sound(s) /\ DataUpTo(s, received[s])' = DataUpTo(s, received[s])
    BY <1>1 DEF Sound, DataUpTo, SameInput
  <1>4. TakenIn(s)'
    BY <1>1, <1>3 DEF SameInput, TakenIn, Gathered
  <1>. QED
    BY <1>2, <1>4

LEMMA AllKept ==
  ASSUME NEW s, SameInput(s), SoundAt(s), job'[s] = job[s], producer'[s] = producer[s], out'[s] = out[s],
         handler'[s] = handler[s], s \in whole => s \in whole'
  PROVE  SoundAt(s)'
  <1>1. HasSocket(s)' = HasSocket(s)
    BY DEF HasSocket
  <1>2. Size(s)' = Size(s)
    BY DEF SameInput, Frames, Size
  <1>3. AnswerAt(s)'
    BY <1>1, <1>2 DEF SoundAt, AnswerAt, SameInput
  <1>. QED
    BY <1>1, <1>3, InputKept DEF SoundAt

\* Connections come and go; what has not started when the server stops is
\* never answered.
LEMMA TableSteps ==
  ASSUME StreamInv, NEW c, Connect(c) \/ Silence(c) \/ PeerCloses(c) \/ Tick \/ Stop
  PROVE  StreamInv'
  <1>1. /\ UNCHANGED <<request, rxVars, h3, producer, whole, queued, out, handler>>
        /\ job' = job \/ job' = [s \in Streams |-> IF job[s] = "queued" THEN "none" ELSE job[s]]
    BY DEF Connect, Silence, PeerCloses, Tick, Stop, answerVars, sendVars, socketVars
  <1>2. StreamsTyped' /\ AnswersTyped'
    BY <1>1 DEF StreamInv, StreamsTyped, AnswersTyped, rxVars
  <1>3. ASSUME NEW s \in Streams PROVE SoundAt(s)'
    <2>1. SoundAt(s) /\ SameInput(s)
      BY <1>1 DEF StreamInv, SoundAt, SameInput, rxVars
    <2>2. CASE job'[s] = job[s]
      BY <1>1, <2>1, <2>2, AllKept
    <2>3. CASE job[s] = "queued" /\ job'[s] = "none"
      <3>1. HasSocket(s)' = HasSocket(s) /\ Size(s)' = Size(s)
        BY <1>1 DEF HasSocket, Size, Frames
      <3>2. AnswerAt(s)'
        BY <1>1, <2>1, <2>3, <3>1 DEF SoundAt, AnswerAt, SameInput
      <3>. QED
        BY <2>1, <3>1, <3>2, InputKept DEF SoundAt
    <2>. QED
      BY <1>1, <2>2, <2>3
  <1>. QED
    BY <1>2, <1>3 DEF StreamInv, SoundAt

\* A step of the work for a stream: what becomes of it, and of nothing else.
MovesTo(s, j, p, n, o, h) ==
  /\ j \in {"none", "queued", "running", "answering", "pumping", "waiting", "ending", "done"}
  /\ p \in {"none", "live", "closed", "left"} /\ n \in 0..MaxPending + 1
  /\ o \in {"none", "open", "fin", "reset"} /\ h \in {"none", "running", "receiving", "done"}
  /\ job' = [job EXCEPT ![s] = j] /\ producer' = [producer EXCEPT ![s] = p]
  /\ queued' = [queued EXCEPT ![s] = n] /\ out' = [out EXCEPT ![s] = o]
  /\ handler' = [handler EXCEPT ![s] = h] /\ whole \subseteq whole'
  /\ h = "none" <=> handler[s] = "none"

\* A handler, a pump or a WebSocket's handler goes on.
LEMMA WorkSteps ==
  ASSUME StreamInv, NEW s \in Streams, Works(s) \/ Drain(s) \/ WsRecv(s) \/ WsReturn(s) \/ WsLeave(s)
  PROVE  StreamInv'
  <1>1. UNCHANGED <<request, rxVars, h3>>
    BY DEF Works, Start, Respond, Send, PumpChunk, PumpRoom, PumpEnd, Drain, WsRecv, WsReturn, WsLeave
  <1>2. StreamsTyped' /\ \A t \in Streams : SameInput(t)
    BY <1>1 DEF StreamInv, StreamsTyped, rxVars, SameInput
  <1>3. MaxPending \in Nat
    BY ServerConstants
  <1>4. /\ job[s] \in {"none", "queued", "running", "answering", "pumping", "waiting", "ending", "done"}
        /\ producer[s] \in {"none", "live", "closed", "left"} /\ queued[s] \in 0..MaxPending + 1
        /\ out[s] \in {"none", "open", "fin", "reset"} /\ handler[s] \in {"none", "running", "receiving", "done"}
        /\ SoundAt(s) /\ AnswersTyped
    BY DEF StreamInv, AnswersTyped, SoundAt
  <1>5. ASSUME NEW j, NEW p, NEW n, NEW o, NEW h, MovesTo(s, j, p, n, o, h), AnswerAt(s)'
        PROVE  StreamInv'
    <2>1. AnswersTyped'
      BY <1>4, <1>5 DEF AnswersTyped, MovesTo
    <2>2. ASSUME NEW t \in Streams PROVE SoundAt(t)'
      <3>1. SoundAt(t) /\ SameInput(t)
        BY <1>2 DEF StreamInv, SoundAt
      <3>2. CASE t # s
        <4>1. /\ job'[t] = job[t] /\ producer'[t] = producer[t] /\ out'[t] = out[t] /\ handler'[t] = handler[t]
              /\ t \in whole => t \in whole'
          BY <1>4, <1>5, <3>2 DEF AnswersTyped, MovesTo
        <4>. QED
          BY <3>1, <4>1, AllKept
      <3>3. CASE t = s
        <4>1. HasSocket(s)' = HasSocket(s)
          BY <1>4, <1>5 DEF HasSocket, AnswersTyped, MovesTo
        <4>. QED
          BY <1>5, <3>1, <3>3, <4>1, InputKept DEF SoundAt
      <3>. QED
        BY <3>2, <3>3
    <2>. QED
      BY <1>2, <2>1, <2>2 DEF StreamInv, SoundAt
  <1>6. AnswerAt(s) /\ Size(s)' = Size(s) /\ h3'[s] = h3[s] /\ request' = request /\ received'[s] = received[s]
    BY <1>1, <1>2, <1>4 DEF SoundAt, SameInput, Size, Frames
  <1>7. /\ job = [job EXCEPT ![s] = job[s]] /\ producer = [producer EXCEPT ![s] = producer[s]]
        /\ queued = [queued EXCEPT ![s] = queued[s]] /\ out = [out EXCEPT ![s] = out[s]]
        /\ handler = [handler EXCEPT ![s] = handler[s]]
    BY <1>4 DEF AnswersTyped
  <1>8. ASSUME NEW j, NEW p, NEW n, NEW o, NEW h, MovesTo(s, j, p, n, o, h)
        PROVE  job'[s] = j /\ producer'[s] = p /\ out'[s] = o /\ handler'[s] = h
    BY <1>4, <1>8 DEF AnswersTyped, MovesTo
  <1>9. CASE Start(s)
    <2>1. /\ job[s] = "queued" /\ job' = [job EXCEPT ![s] = "running"]
          /\ UNCHANGED <<producer, whole, queued, out, handler>>
      BY <1>9 DEF Start, answerVars, sendVars, socketVars
    <2>2. MovesTo(s, "running", producer[s], queued[s], out[s], handler[s])
      BY <1>4, <1>7, <2>1 DEF MovesTo
    <2>3. job'[s] = "running" /\ producer'[s] = producer[s] /\ out'[s] = out[s] /\ handler'[s] = handler[s]
      BY <1>8, <2>2
    <2>4. AnswerAt(s)'
      BY <1>6, <2>1, <2>3 DEF AnswerAt, HasSocket
    <2>. QED
      BY <1>5, <2>2, <2>4
  <1>10. CASE Respond(s)
    <2>1. PICK p \in {"none", "live", "closed", "left"}, j \in {"answering", "done"} :
            /\ producer' = [producer EXCEPT ![s] = p] /\ job' = [job EXCEPT ![s] = j]
            /\ p = "closed" => j = "done"
      <3>1. CASE UNCHANGED producer /\ job' = [job EXCEPT ![s] = "done"]
        BY <1>4, <1>7, <3>1
      <3>2. CASE \E streamed \in {FALSE, request[s].kind \in {"streamed", "head"}} :
                   /\ producer' = [producer EXCEPT ![s] = IF streamed THEN ProducerAfter(s) ELSE "none"]
                   /\ job' = [job EXCEPT ![s] = IF Alive(s) THEN "answering" ELSE "done"]
        BY <3>2 DEF ProducerAfter
      <3>. QED
        BY <1>10, <3>1, <3>2 DEF Respond
    <2>2. job[s] = "running" /\ UNCHANGED <<whole, queued, out, handler>>
      BY <1>10 DEF Respond, sendVars, socketVars
    <2>4. MovesTo(s, j, p, queued[s], out[s], handler[s])
      BY <1>4, <1>7, <2>1, <2>2 DEF MovesTo
    <2>5. job'[s] = j /\ producer'[s] = p /\ out'[s] = out[s] /\ handler'[s] = handler[s]
      BY <1>8, <2>4
    <2>6. (p = "closed" => j = "done") /\ out[s] = "none"
      BY <1>6, <2>1, <2>2 DEF AnswerAt
    <2>7. AnswerAt(s)'
      BY <1>6, <2>2, <2>5, <2>6 DEF AnswerAt, HasSocket
    <2>. QED
      BY <1>5, <2>4, <2>7
  <1>11. CASE Send(s)
    <2>1. PICK j \in {"pumping", "done"}, o \in {"none", "open", "fin"}, p \in {"none", "live", "closed", "left"} :
            /\ job' = [job EXCEPT ![s] = j] /\ out' = [out EXCEPT ![s] = o]
            /\ producer' = [producer EXCEPT ![s] = p]
            /\ j = "pumping" => o = "open"
            /\ p = "closed" => producer[s] = "closed"
      <3>1. out[s] = "none"
        BY <1>6, <1>11 DEF AnswerAt, Send
      <3>2. CASE /\ UNCHANGED producer
                 /\ job' = [job EXCEPT ![s] = "pumping"] /\ out' = [out EXCEPT ![s] = "open"]
        BY <1>4, <1>7, <3>2
      <3>3. CASE /\ out' = [out EXCEPT ![s] = IF AtOnce(s) THEN "fin" ELSE "open"] \/ UNCHANGED out
                 /\ job' = [job EXCEPT ![s] = "done"]
                 /\ producer' = [producer EXCEPT ![s] = IF @ = "live" THEN "left" ELSE @]
        <4>1. PICK o \in {"none", "open", "fin"} : out' = [out EXCEPT ![s] = o]
          BY <1>7, <3>1, <3>3
        <4>2. PICK p \in {"none", "live", "closed", "left"} :
                producer' = [producer EXCEPT ![s] = p] /\ (p = "closed" => producer[s] = "closed")
          BY <1>4, <3>3
        <4>. QED
          BY <3>3, <4>1, <4>2
      <3>. QED
        BY <1>11, <3>2, <3>3 DEF Send
    <2>2. job[s] = "answering" /\ UNCHANGED <<whole, queued, handler>>
      BY <1>11 DEF Send, socketVars
    <2>3. MovesTo(s, j, p, queued[s], o, handler[s])
      BY <1>4, <1>7, <2>1, <2>2 DEF MovesTo
    <2>4. job'[s] = j /\ producer'[s] = p /\ out'[s] = o /\ handler'[s] = handler[s]
      BY <1>8, <2>3
    <2>5. handler[s] \notin {"running", "receiving"} /\ p # "closed"
      BY <1>6, <2>1, <2>2 DEF AnswerAt
    <2>6. AnswerAt(s)'
      BY <1>6, <2>1, <2>2, <2>4, <2>5 DEF AnswerAt, HasSocket
    <2>. QED
      BY <1>5, <2>3, <2>6
  <1>12. CASE PumpChunk(s)
    <2>1. PICK j \in {"waiting", "ending"} : job' = [job EXCEPT ![s] = j]
      BY <1>12 DEF PumpChunk
    <2>2. job[s] = "pumping" /\ whole \subseteq whole' /\ UNCHANGED <<producer, queued, out, handler>>
      BY <1>12 DEF PumpChunk, sendVars, socketVars
    <2>3. MovesTo(s, j, producer[s], queued[s], out[s], handler[s])
      BY <1>4, <1>7, <2>1, <2>2 DEF MovesTo
    <2>4. job'[s] = j /\ producer'[s] = producer[s] /\ out'[s] = out[s] /\ handler'[s] = handler[s]
      BY <1>8, <2>3
    <2>5. AnswerAt(s)'
      BY <1>6, <2>1, <2>2, <2>4 DEF AnswerAt, HasSocket
    <2>. QED
      BY <1>5, <2>3, <2>5
  <1>13. CASE PumpRoom(s)
    <2>1. PICK j \in {"pumping", "ending"}, n \in 0..MaxPending + 1 :
            job' = [job EXCEPT ![s] = j] /\ queued' = [queued EXCEPT ![s] = n]
      <3>1. CASE Alive(s) /\ queued[s] <= MaxPending
        <4>1. job' = [job EXCEPT ![s] = "pumping"] /\ queued' = [queued EXCEPT ![s] = queued[s] + 1]
          BY <1>13, <3>1 DEF PumpRoom
        <4>2. queued[s] + 1 \in 0..MaxPending + 1
          BY <1>3, <1>4, <3>1
        <4>. QED
          BY <4>1, <4>2
      <3>2. CASE ~(Alive(s) /\ queued[s] <= MaxPending)
        <4>1. job' = [job EXCEPT ![s] = "ending"] /\ queued' = [queued EXCEPT ![s] = queued[s]]
          BY <1>7, <1>13, <3>2 DEF PumpRoom
        <4>. QED
          BY <1>4, <4>1
      <3>. QED
        BY <3>1, <3>2
    <2>2. job[s] = "waiting" /\ UNCHANGED <<producer, whole, out, handler>>
      BY <1>13 DEF PumpRoom, socketVars
    <2>3. MovesTo(s, j, producer[s], n, out[s], handler[s])
      BY <1>4, <1>7, <2>1, <2>2 DEF MovesTo
    <2>4. job'[s] = j /\ producer'[s] = producer[s] /\ out'[s] = out[s] /\ handler'[s] = handler[s]
      BY <1>8, <2>3
    <2>5. AnswerAt(s)'
      BY <1>6, <2>1, <2>2, <2>4 DEF AnswerAt, HasSocket
    <2>. QED
      BY <1>5, <2>3, <2>5
  <1>14. CASE PumpEnd(s)
    <2>1. PICK o \in {"fin", "reset"}, n \in 0..MaxPending + 1 :
            /\ out' = [out EXCEPT ![s] = o] /\ (o = "fin" => s \in whole)
            /\ queued' = [queued EXCEPT ![s] = n]
      <3>1. EndOf(s) \in {"fin", "reset"} /\ (EndOf(s) = "fin" => s \in whole)
        BY DEF EndOf
      <3>2. out' = [out EXCEPT ![s] = EndOf(s)]
        BY <1>14 DEF PumpEnd
      <3>3. queued' = [queued EXCEPT ![s] = 0] \/ queued' = [queued EXCEPT ![s] = queued[s]]
        BY <1>7, <1>14 DEF PumpEnd
      <3>4. 0 \in 0..MaxPending + 1
        BY <1>3
      <3>. QED
        BY <1>4, <3>1, <3>2, <3>3, <3>4
    <2>2. /\ job[s] = "ending" /\ UNCHANGED <<whole, handler>>
          /\ job' = [job EXCEPT ![s] = "done"] /\ producer' = [producer EXCEPT ![s] = "closed"]
      BY <1>14 DEF PumpEnd, socketVars
    <2>3. MovesTo(s, "done", "closed", n, o, handler[s])
      BY <1>4, <1>7, <2>1, <2>2 DEF MovesTo
    <2>4. job'[s] = "done" /\ producer'[s] = "closed" /\ out'[s] = o /\ handler'[s] = handler[s]
      BY <1>8, <2>3
    <2>5. handler[s] \notin {"running", "receiving"}
      BY <1>6, <2>2 DEF AnswerAt, HasSocket
    <2>6. AnswerAt(s)'
      BY <1>6, <2>1, <2>2, <2>4, <2>5 DEF AnswerAt, HasSocket
    <2>. QED
      BY <1>5, <2>3, <2>6
  <1>15. CASE Drain(s)
    <2>1. queued' = [queued EXCEPT ![s] = queued[s] - 1] /\ queued[s] > 0 /\ UNCHANGED <<job, producer, whole, out, handler>>
      BY <1>15 DEF Drain, answerVars, socketVars
    <2>2. queued[s] - 1 \in 0..MaxPending + 1
      BY <1>3, <1>4, <2>1
    <2>3. MovesTo(s, job[s], producer[s], queued[s] - 1, out[s], handler[s])
      BY <1>4, <1>7, <2>1, <2>2 DEF MovesTo
    <2>4. AnswerAt(s)'
      BY <1>6, <2>1 DEF AnswerAt, HasSocket
    <2>. QED
      BY <1>5, <2>3, <2>4
  <1>16. CASE WsRecv(s) \/ WsReturn(s) \/ WsLeave(s)
    <2>1. PICK h \in {"running", "receiving", "done"}, o \in {"none", "open", "fin", "reset"} :
            /\ handler' = [handler EXCEPT ![s] = h] /\ out' = [out EXCEPT ![s] = o]
            /\ h = "done" => o = "fin"
            /\ h # "done" => o = out[s]
      BY <1>4, <1>7, <1>16 DEF WsRecv, WsReturn, WsLeave, sendVars
    <2>2. handler[s] \in {"running", "receiving"} /\ UNCHANGED <<job, producer, whole, queued>>
      BY <1>16 DEF WsRecv, WsReturn, WsLeave, answerVars, sendVars
    <2>3. MovesTo(s, job[s], producer[s], queued[s], o, h)
      BY <1>4, <1>7, <2>1, <2>2 DEF MovesTo
    <2>4. job'[s] = job[s] /\ producer'[s] = producer[s] /\ out'[s] = o /\ handler'[s] = h
      BY <1>8, <2>3
    <2>5. job[s] = "none" /\ producer[s] # "closed"
      BY <1>6, <2>2 DEF AnswerAt, HasSocket
    <2>6. AnswerAt(s)'
      BY <1>6, <2>1, <2>2, <2>4, <2>5 DEF AnswerAt, HasSocket
    <2>. QED
      BY <1>5, <2>3, <2>6
  <1>. QED
    BY <1>9, <1>10, <1>11, <1>12, <1>13, <1>14, <1>15, <1>16 DEF Works

-----------------------------------------------------------------------------
(* Http3Server: what a handled piece leaves behind. *)

\* What a stream's state may become when n of its bytes are delivered.
AnswerWell(s, n, x, j, o, h) ==
  /\ ~x.answered => o = "none" /\ j = "none" /\ h = "none"
  /\ h # "none" => request[s].kind = "socket" /\ x.answered
  /\ h \in {"running", "receiving"} => o = "open"
  /\ request[s].kind = "socket" => j = "none"
  /\ j # "none" => n = Size(s) /\ x.finished /\ ~x.rejected
  /\ j \in {"queued", "running", "answering"} => o = "none"
  /\ j \in {"pumping", "waiting", "ending"} => o = "open"
  /\ producer[s] = "closed" => j = "done" /\ (o = "fin" => s \in whole)
  /\ x.finished => n = Size(s)
  /\ h = "none" => x.body <= MaxBody /\ (Sound(s) /\ ~x.rejected => Gathered(s, n, x))
  /\ out[s] \in {"fin", "reset"} => o = out[s] /\ (job[s] # "none" \/ j = "none")
Becomes(s, x, j, o, h) ==
  /\ x \in Request3
  /\ j \in {"none", "queued", "running", "answering", "pumping", "waiting", "ending", "done"}
  /\ o \in {"none", "open", "fin", "reset"} /\ h \in {"none", "running", "receiving", "done"}
  /\ h3' = [h3 EXCEPT ![s] = x] /\ job' = [job EXCEPT ![s] = j]
  /\ out' = [out EXCEPT ![s] = o] /\ handler' = [handler EXCEPT ![s] = h]

\* What feeding the stream made of its request.
FedRight(s, n, fed) ==
  /\ fed \in Feeding /\ fed.r.answered = h3[s].answered
  /\ fed.r.finished => n = Size(s)
  /\ ~HasSocket(s) => /\ fed.r.body <= MaxBody
                      /\ Sound(s) /\ ~fed.r.rejected => ~fed.error /\ Gathered(s, n, fed.r)
  /\ job[s] # "none" => n = Size(s) /\ ~fed.error /\ fed.r.finished /\ ~fed.r.rejected

\* Every way out of _on_stream_data leaves the stream with one answer.
LEMMA DataAnswered ==
  ASSUME StreamInv, NEW s \in Streams, NEW n, NEW fed, FedRight(s, n, fed), OnStreamData(s, fed)
  PROVE  \E x, j, o, h : Becomes(s, x, j, o, h) /\ AnswerWell(s, n, x, j, o, h)
  <1>1. /\ job[s] \in {"none", "queued", "running", "answering", "pumping", "waiting", "ending", "done"}
        /\ out[s] \in {"none", "open", "fin", "reset"} /\ handler[s] \in {"none", "running", "receiving", "done"}
        /\ h3[s] \in Request3 /\ AnswerAt(s) /\ TakenIn(s)
    BY DEF StreamInv, AnswersTyped, StreamsTyped
  <1>2. /\ job = [job EXCEPT ![s] = job[s]] /\ out = [out EXCEPT ![s] = out[s]]
        /\ handler = [handler EXCEPT ![s] = handler[s]]
    BY DEF StreamInv, AnswersTyped
  <1>3. PICK r : r = fed.r /\ r \in Request3
    BY DEF FedRight, Feeding
  <1>4. r.answered = h3[s].answered /\ (HasSocket(s) <=> handler[s] # "none")
    BY <1>3 DEF FedRight, HasSocket
  <1>5. PICK a, b, d : /\ a = [r EXCEPT !.answered = TRUE] /\ b = [r EXCEPT !.body = 0] /\ d = [a EXCEPT !.body = 0]
    OBVIOUS
  <1>6. /\ {a, b, d} \subseteq Request3 /\ a.answered /\ d.answered /\ b.answered = r.answered
        /\ a.headers = r.headers /\ a.body = r.body /\ a.finished = r.finished /\ a.rejected = r.rejected
        /\ b.headers = r.headers /\ b.body = 0 /\ b.finished = r.finished /\ b.rejected = r.rejected
        /\ d.finished = r.finished /\ d.rejected = r.rejected
    <2>1. PICK he \in BOOLEAN, bo \in Nat, fi \in BOOLEAN, an \in BOOLEAN, re \in BOOLEAN :
            r = [headers |-> he, body |-> bo, finished |-> fi, answered |-> an, rejected |-> re]
      BY <1>3 DEF Request3
    <2>2. a = [headers |-> he, body |-> bo, finished |-> fi, answered |-> TRUE, rejected |-> re]
      BY <1>5, <2>1
    <2>3. b = [headers |-> he, body |-> 0, finished |-> fi, answered |-> an, rejected |-> re]
      BY <1>5, <2>1
    <2>4. d = [headers |-> he, body |-> 0, finished |-> fi, answered |-> TRUE, rejected |-> re]
      <3>1. d = [a EXCEPT !.body = 0]
        BY <1>5
      <3>. QED
        BY <2>2, <3>1
    <2>. QED
      BY <2>1, <2>2, <2>3, <2>4 DEF Request3
  <1>7. CASE fed.error /\ h3' = [h3 EXCEPT ![s] = r] /\ UNCHANGED <<out, job, handler>>
    <2>1. Becomes(s, r, job[s], out[s], handler[s])
      BY <1>1, <1>2, <1>3, <1>7 DEF Becomes
    <2>2. AnswerWell(s, n, r, job[s], out[s], handler[s])
      BY <1>1, <1>3, <1>4, <1>7 DEF AnswerWell, FedRight, AnswerAt
    <2>. QED
      BY <2>1, <2>2
  <1>8. CASE /\ ~fed.error /\ r.rejected /\ h3' = [h3 EXCEPT ![s] = a] /\ UNCHANGED <<job, handler>>
             /\ out' = IF r.answered THEN out ELSE [out EXCEPT ![s] = "fin"]
    <2>1. /\ job[s] = "none" /\ producer[s] # "closed"
          /\ handler[s] # "none" => request[s].kind = "socket"
          /\ handler[s] \in {"running", "receiving"} => out[s] = "open"
      BY <1>1, <1>3, <1>4, <1>8 DEF FedRight, AnswerAt, HasSocket
    <2>2. PICK o \in {"none", "open", "fin", "reset"} :
            out' = [out EXCEPT ![s] = o] /\ (out[s] # "none" => o = out[s])
      <3>1. ~r.answered => out[s] = "none"
        BY <1>1, <1>4 DEF AnswerAt
      <3>. QED
        BY <1>1, <1>2, <1>8, <3>1
    <2>3. Becomes(s, a, job[s], o, handler[s])
      BY <1>1, <1>2, <1>6, <1>8, <2>2 DEF Becomes
    <2>4. AnswerWell(s, n, a, job[s], o, handler[s])
      BY <1>1, <1>3, <1>4, <1>6, <1>8, <2>1, <2>2 DEF AnswerWell, FedRight
    <2>. QED
      BY <2>3, <2>4
  <1>9. CASE ~fed.error /\ ~r.rejected /\ HasSocket(s) /\ h3' = [h3 EXCEPT ![s] = b] /\ UNCHANGED <<out, job, handler>>
    <2>1. Becomes(s, b, job[s], out[s], handler[s])
      BY <1>1, <1>2, <1>6, <1>9 DEF Becomes
    <2>2. AnswerWell(s, n, b, job[s], out[s], handler[s])
      BY <1>1, <1>3, <1>4, <1>6, <1>9 DEF AnswerWell, FedRight, AnswerAt
    <2>. QED
      BY <2>1, <2>2
  <1>10. CASE /\ ~fed.error /\ ~r.rejected /\ ~HasSocket(s) /\ ~r.answered /\ request[s].kind = "socket"
              /\ h3' = [h3 EXCEPT ![s] = a] /\ out' = [out EXCEPT ![s] = "fin"] /\ UNCHANGED <<job, handler>>
    <2>1. Becomes(s, a, job[s], "fin", handler[s])
      BY <1>1, <1>2, <1>6, <1>10 DEF Becomes
    <2>2. AnswerWell(s, n, a, job[s], "fin", handler[s])
      <3>1. job[s] = "none" /\ handler[s] = "none" /\ producer[s] # "closed" /\ out[s] = "none"
        BY <1>1, <1>4, <1>10 DEF AnswerAt
      <3>2. Sound(s) => Gathered(s, n, a)
        BY <1>3, <1>6, <1>10 DEF FedRight, Gathered
      <3>. QED
        BY <1>3, <1>6, <1>10, <3>1, <3>2 DEF AnswerWell, FedRight
    <2>. QED
      BY <2>1, <2>2
  <1>11. CASE /\ ~fed.error /\ ~r.rejected /\ ~HasSocket(s) /\ ~r.answered /\ request[s].kind = "socket"
              /\ h3' = [h3 EXCEPT ![s] = d] /\ out' = [out EXCEPT ![s] = "open"]
              /\ handler' = [handler EXCEPT ![s] = "running"] /\ UNCHANGED job
    <2>1. Becomes(s, d, job[s], "open", "running")
      BY <1>1, <1>2, <1>6, <1>11 DEF Becomes
    <2>2. AnswerWell(s, n, d, job[s], "open", "running")
      <3>1. job[s] = "none" /\ producer[s] # "closed" /\ out[s] = "none"
        BY <1>1, <1>4, <1>11 DEF AnswerAt
      <3>. QED
        BY <1>3, <1>6, <1>11, <3>1 DEF AnswerWell, FedRight
    <2>. QED
      BY <2>1, <2>2
  <1>12. CASE /\ ~fed.error /\ ~r.rejected /\ request[s].kind # "socket" /\ r.finished /\ ~r.answered
              /\ h3' = [h3 EXCEPT ![s] = a] /\ job' = [job EXCEPT ![s] = "queued"] /\ UNCHANGED <<out, handler>>
    <2>1. Becomes(s, a, "queued", out[s], handler[s])
      BY <1>1, <1>2, <1>6, <1>12 DEF Becomes
    <2>2. AnswerWell(s, n, a, "queued", out[s], handler[s])
      <3>1. out[s] = "none" /\ handler[s] = "none" /\ producer[s] # "closed"
        BY <1>1, <1>4, <1>12 DEF AnswerAt
      <3>2. Sound(s) => Gathered(s, n, a)
        BY <1>3, <1>4, <1>6, <1>12, <3>1 DEF FedRight, Gathered
      <3>3. a.body <= MaxBody /\ n = Size(s)
        BY <1>3, <1>4, <1>6, <1>12, <3>1 DEF FedRight
      <3>. QED
        BY <1>3, <1>6, <1>12, <3>1, <3>2, <3>3 DEF AnswerWell
    <2>. QED
      BY <2>1, <2>2
  <1>13. CASE ~fed.error /\ ~r.rejected /\ ~HasSocket(s) /\ h3' = [h3 EXCEPT ![s] = r] /\ UNCHANGED <<out, job, handler>>
    <2>1. Becomes(s, r, job[s], out[s], handler[s])
      BY <1>1, <1>2, <1>3, <1>13 DEF Becomes
    <2>2. AnswerWell(s, n, r, job[s], out[s], handler[s])
      BY <1>1, <1>3, <1>4, <1>13 DEF AnswerWell, FedRight, AnswerAt
    <2>. QED
      BY <2>1, <2>2
  <1>. QED
    BY <1>3, <1>5, <1>6, <1>7, <1>8, <1>9, <1>10, <1>11, <1>12, <1>13 DEF OnStreamData, Pushed, Ready, Answered

LEMMA FedIsRight ==
  ASSUME StreamInv, NEW s \in Streams, NEW r \in received[s]..Size(s),
         NEW fin \in BOOLEAN, fin => r = Size(s), NEW fed, fed = Feed(s, received[s], r, fin)
  PROVE  FedRight(s, r, fed)
  <1>1. /\ request \in [Streams -> Contents] /\ received[s] \in Nat /\ Size(s) \in Nat
        /\ h3[s] \in Request3 /\ AnswerAt(s) /\ TakenIn(s)
    BY FramesAre DEF StreamInv, StreamsTyped
  <1>2. /\ h3[s] = [headers |-> h3[s].headers, body |-> h3[s].body, finished |-> h3[s].finished,
                    answered |-> h3[s].answered, rejected |-> h3[s].rejected]
        /\ h3[s].body \in Nat /\ {h3[s].headers, h3[s].finished, h3[s].answered, h3[s].rejected} \subseteq BOOLEAN
    BY <1>1 DEF Request3
  <1>3. ~h3[s].rejected => FedWell(s, received[s], [r |-> h3[s], error |-> FALSE])
    <2>1. SUFFICES ASSUME ~h3[s].rejected PROVE FedWell(s, received[s], [r |-> h3[s], error |-> FALSE])
      OBVIOUS
    <2>2. [r |-> h3[s], error |-> FALSE] \in Feeding
      BY <1>1 DEF Feeding
    <2>. QED
      BY <1>1, <2>1, <2>2 DEF FedWell, TakenIn
  <1>4. /\ fed \in Feeding /\ fed.r.answered = h3[s].answered
        /\ h3[s].rejected => fed.r.rejected /\ ~fed.error /\ fed.r.body = h3[s].body
        /\ ~h3[s].rejected => FedWell(s, r, [fed EXCEPT !.r.finished = h3[s].finished])
        /\ fed.r.finished => h3[s].finished \/ fin
        /\ ~fed.error /\ ~fed.r.rejected => fed.r.finished = (h3[s].finished \/ fin)
        /\ received[s] = r => ~fed.error /\ fed.r.rejected = h3[s].rejected
    BY <1>1, <1>3, FeedIsWell
  <1>5. fed.r.finished => r = Size(s)
    <2>1. h3[s].finished => r = Size(s)
      BY <1>1 DEF TakenIn
    <2>. QED
      BY <1>4, <2>1
  <1>7. ASSUME ~h3[s].rejected, ~HasSocket(s)
        PROVE  /\ fed.r.body <= MaxBody
               /\ Sound(s) /\ ~fed.r.rejected => ~fed.error /\ Gathered(s, r, fed.r)
    <2>1. PICK w : w = [fed EXCEPT !.r.finished = h3[s].finished] /\ FedWell(s, r, w)
      BY <1>4, <1>7
    <2>2. PICK q, e : q = fed.r /\ e = fed.error
      OBVIOUS
    <2>3. fed = [r |-> q, error |-> e] /\ q \in Request3 /\ e \in BOOLEAN
      BY <1>4, <2>2 DEF Feeding
    <2>4. PICK he \in BOOLEAN, bo \in Nat, fi \in BOOLEAN, an \in BOOLEAN, re \in BOOLEAN :
            q = [headers |-> he, body |-> bo, finished |-> fi, answered |-> an, rejected |-> re]
      BY <2>3 DEF Request3
    <2>5. w = [r |-> [headers |-> he, body |-> bo, finished |-> h3[s].finished, answered |-> an, rejected |-> re],
               error |-> e]
      BY <2>1, <2>3, <2>4
    <2>6. w.r.rejected = fed.r.rejected /\ w.r.body = fed.r.body /\ w.r.headers = fed.r.headers /\ w.error = fed.error
      BY <2>2, <2>3, <2>4, <2>5
    <2>. QED
      BY <1>7, <2>1, <2>6 DEF FedWell, Gathered
  <1>8. ASSUME job[s] # "none" PROVE r = Size(s) /\ ~fed.error /\ fed.r.finished /\ ~fed.r.rejected
    <2>1. received[s] = Size(s) /\ h3[s].finished /\ ~h3[s].rejected
      BY <1>1, <1>8 DEF AnswerAt
    <2>2. r = Size(s) /\ received[s] = r
      BY <1>1, <2>1
    <2>. QED
      BY <1>4, <2>1, <2>2
  <1>. QED
    BY <1>1, <1>4, <1>5, <1>7, <1>8 DEF FedRight, TakenIn

\* A piece arrives: the client kept to its windows, or the connection is closed.
AnswersStay ==
  \A s \in Streams : out[s] \in {"fin", "reset"} => out'[s] = out[s] /\ (Ran(s) \/ job'[s] = "none")
LEMMA FrameStep ==
  ASSUME StreamInv, NEW s \in Streams, OnStreamFrame(s)
  PROVE  StreamInv' /\ AnswersStay
  <1>1. /\ request \in [Streams -> Contents] /\ Size(s) \in Nat
        /\ received \in [Streams -> Nat] /\ highest \in [Streams -> Nat] /\ ended \subseteq Streams
        /\ got \in [Streams -> SUBSET Nat] /\ held \in [Streams -> SUBSET Segment] /\ h3 \in [Streams -> Request3]
        /\ AnswersTyped /\ \A t \in Streams : SoundAt(t)
    BY FramesAre DEF StreamInv, StreamsTyped, SoundAt
  <1>2. UNCHANGED <<request, producer, whole, queued>>
    BY DEF OnStreamFrame
  <1>3. PICK off \in 0..Size(s), len \in 0..Size(s) :
         LET p == [off |-> off, len |-> len]
             end == off + len
             fin == end = Size(s) \/ s \in ended
             r == IF off > received[s] THEN received[s] ELSE Reached(s, p)
         IN
         /\ end <= Size(s) /\ Permitted(s, p)
         /\ IF OverLimit(s, p)
            THEN UNCHANGED <<rxVars, h3, job, out, handler>>
            ELSE /\ got' = [got EXCEPT ![s] = @ \cup off..end - 1]
                 /\ highest' = [highest EXCEPT ![s] = Larger(@, end)]
                 /\ received' = [received EXCEPT ![s] = r]
                 /\ held' = [held EXCEPT ![s] = IF off > received[s] THEN Hold(@, p) ELSE {q \in @ : q.off > r}]
                 /\ ended' = IF fin THEN ended \cup {s} ELSE ended
                 /\ OnStreamData(s, Feed(s, received[s], r, fin /\ r = Size(s)))
    BY DEF OnStreamFrame
  <1>4. PICK p, r, fin : /\ p = [off |-> off, len |-> len] /\ fin = (off + len = Size(s) \/ s \in ended)
                         /\ r = IF off > received[s] THEN received[s] ELSE Reached(s, p)
    OBVIOUS
  <1>5. p \in Segment /\ p.off = off /\ p.len = len /\ off \in Nat /\ len \in Nat /\ p.off + p.len <= Size(s)
    BY <1>1, <1>3, <1>4 DEF Segment
  <1>6. CASE OverLimit(s, p)
    <2>1. UNCHANGED <<rxVars, h3, job, out, handler>>
      BY <1>3, <1>4, <1>6
    <2>2. StreamsTyped' /\ AnswersTyped'
      BY <1>2, <2>1 DEF StreamInv, StreamsTyped, AnswersTyped, rxVars
    <2>3. ASSUME NEW t \in Streams PROVE SoundAt(t)'
      <3>1. SoundAt(t) /\ SameInput(t)
        BY <1>1, <1>2, <2>1 DEF SameInput, rxVars
      <3>. QED
        BY <1>2, <2>1, <3>1, AllKept
    <2>. QED
      BY <2>1, <2>2, <2>3 DEF StreamInv, SoundAt, AnswersStay, Ran
  <1>7. CASE ~OverLimit(s, p)
    <2>1. PICK ps, high, all :
            /\ ps = IF off > received[s] THEN Hold(held[s], p) ELSE {q \in held[s] : q.off > r}
            /\ high = Larger(highest[s], p.off + p.len)
            /\ all = got[s] \cup p.off..p.off + p.len - 1
      OBVIOUS
    <2>2. /\ got' = [got EXCEPT ![s] = all] /\ highest' = [highest EXCEPT ![s] = high]
          /\ received' = [received EXCEPT ![s] = r] /\ held' = [held EXCEPT ![s] = ps]
          /\ ended' \subseteq Streams /\ OnStreamData(s, Feed(s, received[s], r, fin /\ r = Size(s)))
          /\ Permitted(s, p)
      <3>1. /\ got' = [got EXCEPT ![s] = @ \cup off..(off + len) - 1]
            /\ highest' = [highest EXCEPT ![s] = Larger(@, off + len)]
            /\ received' = [received EXCEPT ![s] = r]
            /\ held' = [held EXCEPT ![s] = IF off > received[s] THEN Hold(@, p) ELSE {q \in @ : q.off > r}]
            /\ ended' = (IF fin THEN ended \cup {s} ELSE ended)
            /\ OnStreamData(s, Feed(s, received[s], r, fin /\ r = Size(s)))
            /\ Permitted(s, p)
        BY <1>3, <1>4, <1>7
      <3>2. got[s] \cup off..(off + len) - 1 = all /\ Larger(highest[s], off + len) = high
        BY <1>5, <2>1
      <3>3. got' = [got EXCEPT ![s] = all] /\ highest' = [highest EXCEPT ![s] = high]
        BY <3>1, <3>2
      <3>4. held' = [held EXCEPT ![s] = ps]
        BY <2>1, <3>1
      <3>5. ended' \subseteq Streams
        BY <1>1, <3>1
      <3>. QED
        BY <3>1, <3>3, <3>4, <3>5
    <2>3. /\ received[s] \in Nat /\ highest[s] \in Nat /\ held[s] \subseteq Segment /\ got[s] \subseteq Nat
          /\ Pieces(Size(s), received[s], highest[s], held[s])
          /\ Recut \/ Keeps(received[s], held[s], got[s])
      BY <1>1 DEF SoundAt, HoldsAll
    <2>4. /\ r \in received[s]..Size(s) /\ ps \subseteq Segment /\ high \in Nat
          /\ Pieces(Size(s), r, high, ps)
          /\ (\A q \in held[s] : q.off = p.off => q.len <= p.len) /\ Keeps(received[s], held[s], got[s])
               => Keeps(r, ps, all)
      BY <1>1, <1>4, <1>5, <2>1, <2>3, PieceTaken
    <2>5. all \subseteq Nat /\ r \in Nat
      BY <1>1, <1>5, <2>1, <2>3, <2>4
    <2>6. Recut \/ Keeps(r, ps, all)
      BY <2>2, <2>3, <2>4 DEF Permitted
    <2>7. PICK fed : fed = Feed(s, received[s], r, fin /\ r = Size(s))
      OBVIOUS
    <2>8. FedRight(s, r, fed) /\ OnStreamData(s, fed)
      <3>1. PICK f \in BOOLEAN : f = (fin /\ r = Size(s))
        BY <1>4
      <3>2. fed = Feed(s, received[s], r, f) /\ (f => r = Size(s))
        BY <2>7, <3>1
      <3>3. FedRight(s, r, fed)
        BY <2>4, <3>2, FedIsRight
      <3>. QED
        BY <2>2, <2>7, <3>3
    <2>9. PICK x, j, o, h : Becomes(s, x, j, o, h) /\ AnswerWell(s, r, x, j, o, h)
      <3>1. \E x, j, o, h : Becomes(s, x, j, o, h) /\ AnswerWell(s, r, x, j, o, h)
        BY <2>8, DataAnswered
      <3>. QED
        BY <3>1
    <2>10. StreamsTyped'
      BY <1>1, <1>2, <2>2, <2>4, <2>5, <2>9 DEF StreamsTyped, Becomes
    <2>11. AnswersTyped'
      BY <1>1, <1>2, <2>9 DEF AnswersTyped, Becomes
    <2>12. /\ h3'[s] = x /\ job'[s] = j /\ out'[s] = o /\ handler'[s] = h
           /\ received'[s] = r /\ highest'[s] = high /\ held'[s] = ps /\ got'[s] = all
      <3>1. h3'[s] = x /\ job'[s] = j /\ out'[s] = o /\ handler'[s] = h
        BY <1>1, <2>9 DEF AnswersTyped, Becomes
      <3>. QED
        BY <1>1, <2>2, <3>1
    <2>13. SoundAt(s)'
      <3>1. Size(s)' = Size(s) /\ Sound(s)' = Sound(s) /\ DataUpTo(s, received[s])' = DataUpTo(s, r)
        BY <1>2, <2>12 DEF Size, Frames, Sound, DataUpTo
      <3>2. HoldsAll(s)'
        BY <2>4, <2>6, <2>12, <3>1 DEF HoldsAll, Pieces, Keeps
      <3>3. HasSocket(s)' <=> h # "none"
        BY <2>12 DEF HasSocket
      <3>4. TakenIn(s)'
        BY <2>9, <2>12, <3>1, <3>3 DEF TakenIn, AnswerWell, Gathered
      <3>5. AnswerAt(s)'
        BY <1>2, <2>9, <2>12, <3>1, <3>3 DEF AnswerAt, AnswerWell
      <3>. QED
        BY <3>2, <3>4, <3>5 DEF SoundAt
    <2>14. ASSUME NEW t \in Streams, t # s PROVE SoundAt(t)'
      <3>1. SameInput(t)
        BY <1>1, <1>2, <2>2, <2>9, <2>14 DEF SameInput, Becomes
      <3>2. job'[t] = job[t] /\ out'[t] = out[t] /\ handler'[t] = handler[t]
        BY <1>1, <2>9, <2>14 DEF AnswersTyped, Becomes
      <3>3. SoundAt(t) /\ producer'[t] = producer[t] /\ whole' = whole
        BY <1>1, <1>2
      <3>. QED
        BY <3>1, <3>2, <3>3, AllKept
    <2>15. \A t \in Streams : SoundAt(t)'
      BY <2>13, <2>14
    <2>16. AnswersStay
      <3>1. \A t \in Streams \ {s} : job'[t] = job[t] /\ out'[t] = out[t]
        BY <1>1, <2>9 DEF AnswersTyped, Becomes
      <3>2. out[s] \in {"fin", "reset"} => out'[s] = out[s] /\ (job[s] # "none" \/ job'[s] = "none")
        BY <2>9, <2>12 DEF AnswerWell
      <3>. QED
        BY <3>1, <3>2 DEF AnswersStay, Ran
    <2>. QED
      BY <2>10, <2>11, <2>15, <2>16 DEF StreamInv, SoundAt
  <1>. QED
    BY <1>6, <1>7

LEMMA StreamsKept ==
  ASSUME StreamInv, [H3Next]_h3Vars PROVE StreamInv'
  <1>1. ASSUME UNCHANGED h3Vars PROVE StreamInv'
    <2>1. UNCHANGED <<request, rxVars, h3, job, producer, whole, queued, out, handler>>
      BY <1>1 DEF h3Vars, answerVars, sendVars, socketVars
    <2>2. StreamsTyped' /\ AnswersTyped'
      BY <2>1 DEF StreamInv, StreamsTyped, AnswersTyped, rxVars
    <2>3. ASSUME NEW t \in Streams PROVE SoundAt(t)'
      <3>1. SoundAt(t) /\ SameInput(t)
        BY <2>1 DEF StreamInv, SoundAt, SameInput, rxVars
      <3>. QED
        BY <2>1, <3>1, AllKept
    <2>. QED
      BY <2>2, <2>3 DEF StreamInv, SoundAt
  <1>2. ASSUME NEW c \in Conns, Connect(c) \/ Silence(c) \/ PeerCloses(c) PROVE StreamInv'
    BY <1>2, TableSteps
  <1>3. ASSUME Tick \/ Stop PROVE StreamInv'
    <2>1. PICK c : c = 0
      OBVIOUS
    <2>. QED
      BY <1>3, TableSteps
  <1>4. ASSUME NEW s \in Streams, OnStreamFrame(s) PROVE StreamInv'
    BY <1>4, FrameStep
  <1>5. ASSUME NEW s \in Streams, Works(s) \/ Drain(s) \/ WsRecv(s) \/ WsReturn(s) \/ WsLeave(s) PROVE StreamInv'
    BY <1>5, WorkSteps
  <1>. QED
    BY <1>1, <1>2, <1>3, <1>4, <1>5 DEF H3Next

-----------------------------------------------------------------------------
(* Http3Server: the theorems on its streams. *)

\* What is answered stays answered as it was.
LEMMA AnswersKept ==
  ASSUME StreamInv, [H3Next]_h3Vars PROVE AnswersStay
  <1>1. AnswersTyped /\ \A s \in Streams : AnswerAt(s)
    BY DEF StreamInv
  <1>2. ASSUME NEW s \in Streams, OnStreamFrame(s) PROVE AnswersStay
    BY <1>2, FrameStep
  <1>3. ASSUME NEW s \in Streams, Works(s) \/ WsRecv(s) \/ WsReturn(s) \/ WsLeave(s) PROVE AnswersStay
    <2>1. \A t \in Streams \ {s} : job'[t] = job[t] /\ out'[t] = out[t]
      BY <1>1, <1>3 DEF AnswersTyped, Works, Start, Respond, Send, PumpChunk, PumpRoom, PumpEnd, WsRecv, WsReturn,
                        WsLeave, sendVars, answerVars
    <2>2. \/ job[s] \in {"queued", "running", "answering", "pumping", "waiting", "ending"}
          \/ handler[s] \in {"running", "receiving"}
      BY <1>3 DEF Works, Start, Respond, Send, PumpChunk, PumpRoom, PumpEnd, WsRecv, WsReturn, WsLeave
    <2>3. out[s] \notin {"fin", "reset"}
      BY <1>1, <2>2 DEF AnswerAt
    <2>. QED
      BY <2>1, <2>3 DEF AnswersStay, Ran
  <1>4. ASSUME NEW c, Connect(c) \/ Silence(c) \/ PeerCloses(c) \/ Tick PROVE AnswersStay
    <2>1. UNCHANGED <<out, job>>
      BY <1>4 DEF Connect, Silence, PeerCloses, Tick, answerVars, sendVars
    <2>. QED
      BY <2>1 DEF AnswersStay, Ran
  <1>5. ASSUME Stop PROVE AnswersStay
    <2>1. UNCHANGED out /\ job' = [s \in Streams |-> IF job[s] = "queued" THEN "none" ELSE job[s]]
      BY <1>5 DEF Stop, sendVars
    <2>. QED
      BY <2>1 DEF AnswersStay, Ran
  <1>6. ASSUME UNCHANGED <<out, job>> PROVE AnswersStay
    BY <1>6 DEF AnswersStay, Ran
  <1>7. \A s : Drain(s) => UNCHANGED <<out, job>>
    BY DEF Drain, answerVars
  <1>8. UNCHANGED h3Vars => UNCHANGED <<out, job>>
    BY DEF h3Vars, answerVars, sendVars
  <1>. QED
    BY <1>2, <1>3, <1>4, <1>5, <1>6, <1>7, <1>8 DEF H3Next

LEMMA SoundBecause ==
  ASSUME ~Recut, TableInv, StreamInv PROVE StreamSound
  <1>1. MaxPending \in Nat
    BY ServerConstants
  <1>2. ASSUME NEW s \in Streams
        PROVE  /\ received[s] <= highest[s] /\ highest[s] <= Size(s) /\ queued[s] \in 0..MaxPending + 1
               /\ job[s] \in {"none", "queued", "running", "answering", "pumping", "waiting", "ending", "done"}
               /\ out[s] \in {"none", "open", "fin", "reset"}
    BY DEF StreamInv, AnswersTyped, HoldsAll, Pieces
  <1>3. HeldUntilDelivered
    BY DEF StreamInv, HoldsAll, Keeps, HeldUntilDelivered
  <1>4. ASSUME NEW s \in Streams, Ran(s)
        PROVE  /\ received[s] = Size(s) /\ h3[s].finished /\ h3[s].body <= MaxBody
               /\ Sound(s) => h3[s].body = Cardinality(DataUpTo(s, Size(s)))
    <2>1. TakenIn(s) /\ AnswerAt(s)
      BY DEF StreamInv
    <2>2. ~HasSocket(s) /\ received[s] = Size(s) /\ h3[s].finished /\ ~h3[s].rejected
      BY <1>4, <2>1 DEF AnswerAt, Ran
    <2>. QED
      BY <2>1, <2>2 DEF TakenIn, Gathered
  <1>5. HonestEnd
    BY DEF StreamInv, AnswerAt, HonestEnd
  <1>. QED
    BY <1>2, <1>3, <1>4, <1>5 DEF StreamSound, H3TypeOK, TableInv, RequestIsWhole

\* When the client cuts what it repeats as before, every byte that arrived is
\* delivered or held, a handler sees whole requests only, and an answer that
\* ends with FIN is whole: the receiving half, RequestStream and the pump.
THEOREM StreamsAreSound == ~Recut => (H3Spec => []StreamSound)
  <1> SUFFICES ASSUME ~Recut PROVE H3Spec => []StreamSound
    OBVIOUS
  <1>1. H3Init => TableInv /\ StreamInv
    BY StreamsBegin
  <1>2. TableInv /\ StreamInv /\ [H3Next]_h3Vars => TableInv' /\ StreamInv'
    BY TableKept, StreamsKept
  <1>3. TableInv /\ StreamInv => StreamSound
    BY SoundBecause
  <1>. QED
    BY <1>1, <1>2, <1>3, PTL DEF H3Spec

\* A stream is answered once: what was ended stays as it was ended, and no
\* handler starts for it afterwards (_on_stream_data, _send_response, pump).
THEOREM AnsweredOnce == H3Spec => OneAnswer
  <1>1. H3Init => StreamInv
    BY StreamsBegin
  <1>2. StreamInv /\ [H3Next]_h3Vars => StreamInv'
    BY StreamsKept
  <1>3. StreamInv /\ [H3Next]_h3Vars =>
          [\A s \in Streams : out[s] \in {"fin", "reset"} => out'[s] = out[s] /\ (Ran(s) \/ job'[s] = "none")]_h3Vars
    BY AnswersKept DEF AnswersStay
  <1>. QED
    BY <1>1, <1>2, <1>3, PTL DEF H3Spec, OneAnswer

-----------------------------------------------------------------------------
(* Http3Server: more than half of each window is always left to send.     *)

CreditInv ==
  /\ limit \in [Streams -> Int] /\ maxData \in [Conns -> Int]
  /\ granted = [stream |-> limit, conn |-> maxData]
  /\ \A s \in Streams : s \in ended \/ limit[s] - received[s] >= StreamWindow \div 2
  /\ \A c \in Conns : maxData[c] - SumIn(received, c) >= ConnWindow \div 2

LEMMA WindowsAre ==
  ASSUME NEW n \in Nat \ {0, 1} PROVE n \div 2 \in Nat /\ n \div 2 >= 1 /\ n \div 2 <= n
  OBVIOUS

LEMMA WindowsSplit ==
  /\ StreamWindow \in Nat /\ StreamWindow \div 2 \in Nat /\ StreamWindow \div 2 >= 1 /\ StreamWindow \div 2 <= StreamWindow
  /\ ConnWindow \in Nat /\ ConnWindow \div 2 \in Nat /\ ConnWindow \div 2 >= 1 /\ ConnWindow \div 2 <= ConnWindow
  <1>1. StreamWindow \in Nat \ {0, 1} /\ ConnWindow \in Nat \ {0, 1}
    BY ServerConstants
  <1>. QED
    BY <1>1, WindowsAre

LEMMA SumInIs ==
  ASSUME NEW f, NEW c
  PROVE  SumIn(f, c) = Sums(f, StreamsOf(c))[StreamsOf(c)]
  BY DEF SumIn, MapThenSumSet, MapThenFoldSet, Sums, Some

LEMMA OfStreams ==
  ASSUME NEW c
  PROVE  StreamsOf(c) \subseteq Streams /\ IsFiniteSet(StreamsOf(c)) /\ StreamsOf(c) \in SUBSET StreamsOf(c)
  <1>1. StreamsOf(c) \subseteq Streams /\ IsFiniteSet(Streams)
    BY ServerConstants DEF StreamsOf
  <1>. QED
    BY <1>1, FS_Subset

LEMMA SumInType ==
  ASSUME NEW f \in [Streams -> Nat], NEW c PROVE SumIn(f, c) \in Int
  <1>1. PICK S : S = StreamsOf(c) /\ S \subseteq Streams /\ IsFiniteSet(S) /\ S \in SUBSET S
    BY OfStreams
  <1>2. \A x \in S : f[x] \in Int
    BY <1>1
  <1>3. Sums(f, S)[S] \in Int
    BY <1>1, <1>2, SumIsInt
  <1>. QED
    BY <1>1, <1>3, SumInIs

LEMMA SumInSame ==
  ASSUME NEW f, NEW g, NEW c, \A s \in StreamsOf(c) : f[s] = g[s]
  PROVE  SumIn(f, c) = SumIn(g, c)
  <1>1. PICK S : S = StreamsOf(c) /\ IsFiniteSet(S) /\ S \in SUBSET S
    BY OfStreams
  <1>2. \A x \in S : f[x] = g[x]
    BY <1>1
  <1>3. Sums(f, S)[S] = Sums(g, S)[S]
    BY <1>1, <1>2, SumAgrees
  <1>. QED
    BY <1>1, <1>3, SumInIs

LEMMA SumInChange ==
  ASSUME NEW f \in [Streams -> Nat], NEW g \in [Streams -> Nat], NEW s \in Streams,
         \A t \in Streams \ {s} : g[t] = f[t]
  PROVE  /\ SumIn(g, ConnOf[s]) = SumIn(f, ConnOf[s]) + (g[s] - f[s])
         /\ \A c : c # ConnOf[s] => SumIn(g, c) = SumIn(f, c)
  <1>1. PICK S : S = StreamsOf(ConnOf[s]) /\ S \subseteq Streams /\ IsFiniteSet(S) /\ s \in S
    BY OfStreams DEF StreamsOf
  <1>2. (\A y \in S : f[y] \in Int /\ g[y] \in Int) /\ \A y \in S \ {s} : g[y] = f[y]
    BY <1>1
  <1>3. Sums(g, S)[S] = Sums(f, S)[S] + (g[s] - f[s])
    BY <1>1, <1>2, SumChange
  <1>4. SumIn(g, ConnOf[s]) = SumIn(f, ConnOf[s]) + (g[s] - f[s])
    BY <1>1, <1>3, SumInIs
  <1>5. ASSUME NEW c, c # ConnOf[s] PROVE SumIn(g, c) = SumIn(f, c)
    <2>1. \A t \in StreamsOf(c) : g[t] = f[t]
      BY <1>5 DEF StreamsOf
    <2>. QED
      BY <2>1, SumInSame
  <1>. QED
    BY <1>4, <1>5

LEMMA CreditBegins == H3Init => CreditInv
  <1> SUFFICES ASSUME H3Init PROVE CreditInv
    OBVIOUS
  <1>1. /\ limit = [s \in Streams |-> StreamWindow] /\ maxData = [c \in Conns |-> ConnWindow]
        /\ granted = [stream |-> limit, conn |-> maxData] /\ received = [s \in Streams |-> 0]
    BY DEF H3Init
  <1>2. ASSUME NEW c \in Conns PROVE SumIn(received, c) = 0
    <2>1. PICK S : S = StreamsOf(c) /\ S \subseteq Streams /\ IsFiniteSet(S)
      BY OfStreams
    <2>2. \A y \in S : received[y] = 0
      BY <1>1, <2>1
    <2>3. Sums(received, S)[S] = 0
      BY <2>1, <2>2, SumOfZeros
    <2>. QED
      BY <2>1, <2>3, SumInIs
  <1>. QED
    BY <1>1, <1>2, WindowsSplit DEF CreditInv

\* _replenish_windows keeps half a window open for the bytes now delivered.
LEMMA Replenished ==
  ASSUME CreditInv, received \in [Streams -> Nat], NEW s \in Streams, NEW r \in Nat, r >= received[s],
         NEW fin \in BOOLEAN, Replenish(s, r, fin), received' = [received EXCEPT ![s] = r],
         ended' = IF fin THEN ended \cup {s} ELSE ended
  PROVE  CreditInv'
  <1>1. PICK c : c = ConnOf[s] /\ c \in Conns
    BY ServerConstants
  <1>2. PICK consumed : consumed = SumIn(received, c) - received[s] + r
    OBVIOUS
  <1>3. received' \in [Streams -> Nat] /\ received'[s] = r /\ \A t \in Streams \ {s} : received'[t] = received[t]
    OBVIOUS
  <1>4. SumIn(received, c) \in Int /\ received[s] \in Nat
    BY SumInType
  <1>5. PICK next : next = received' /\ next \in [Streams -> Nat] /\ next[s] = r
                    /\ \A t \in Streams \ {s} : next[t] = received[t]
    BY <1>3
  <1>6. SumIn(next, c) = consumed /\ \A d : d # c => SumIn(next, d) = SumIn(received, d)
    <2>1. SumIn(next, c) = SumIn(received, c) + (next[s] - received[s])
          /\ \A d : d # c => SumIn(next, d) = SumIn(received, d)
      <3>1. /\ SumIn(next, ConnOf[s]) = SumIn(received, ConnOf[s]) + (next[s] - received[s])
            /\ \A d : d # ConnOf[s] => SumIn(next, d) = SumIn(received, d)
        BY <1>5, SumInChange
      <3>. QED
        BY <1>1, <3>1
    <2>2. SumIn(received, c) + (next[s] - received[s]) = consumed
      BY <1>2, <1>4, <1>5
    <2>. QED
      BY <2>1, <2>2
  <1>7. \A d : SumIn(received, d)' = SumIn(next, d)
    <2>1. \A d : SumIn(received, d)' = SumIn(received', d)
      BY DEF SumIn, MapThenSumSet, MapThenFoldSet, StreamsOf
    <2>. QED
      BY <1>5, <2>1
  <1>8. PICK newLimit, newMax :
          /\ newLimit = IF ~fin /\ TopsUp(limit[s] - r, StreamWindow) THEN r + StreamWindow ELSE limit[s]
          /\ newMax = IF TopsUp(maxData[c] - consumed, ConnWindow) THEN consumed + ConnWindow ELSE maxData[c]
          /\ limit' = [limit EXCEPT ![s] = newLimit] /\ maxData' = [maxData EXCEPT ![c] = newMax]
          /\ granted' = [stream |-> [granted.stream EXCEPT ![s] = Larger(@, newLimit)],
                         conn |-> [granted.conn EXCEPT ![c] = Larger(@, newMax)]]
    BY <1>1, <1>2 DEF Replenish
  <1>9. limit[s] \in Int /\ maxData[c] \in Int /\ consumed \in Int
    BY <1>1, <1>2, <1>4 DEF CreditInv
  <1>10. /\ newLimit \in Int /\ newLimit >= limit[s]
         /\ ~fin => newLimit - r >= StreamWindow \div 2
    BY <1>8, <1>9, WindowsSplit DEF TopsUp
  <1>11. newMax \in Int /\ newMax >= maxData[c] /\ newMax - consumed >= ConnWindow \div 2
    BY <1>8, <1>9, WindowsSplit DEF TopsUp
  <1>12. granted' = [stream |-> limit', conn |-> maxData']
    <2>1. granted.stream = limit /\ granted.conn = maxData
      BY DEF CreditInv
    <2>2. Larger(limit[s], newLimit) = newLimit /\ Larger(maxData[c], newMax) = newMax
      BY <1>9, <1>10, <1>11 DEF Larger
    <2>. QED
      BY <1>8, <2>1, <2>2
  <1>13. limit' \in [Streams -> Int] /\ maxData' \in [Conns -> Int]
    BY <1>8, <1>10, <1>11 DEF CreditInv
  <1>14. ASSUME NEW t \in Streams PROVE t \in ended' \/ limit'[t] - received'[t] >= StreamWindow \div 2
    <2>1. CASE t = s
      <3>1. limit'[s] = newLimit
        BY <1>8 DEF CreditInv
      <3>. QED
        BY <1>3, <1>10, <2>1, <3>1
    <2>2. CASE t # s
      <3>1. limit'[t] = limit[t] /\ received'[t] = received[t] /\ (t \in ended => t \in ended')
        BY <1>3, <1>8, <2>2 DEF CreditInv
      <3>. QED
        BY <3>1 DEF CreditInv
    <2>. QED
      BY <2>1, <2>2
  <1>15. ASSUME NEW d \in Conns PROVE maxData'[d] - SumIn(received, d)' >= ConnWindow \div 2
    <2>1. CASE d = c
      <3>1. maxData'[c] = newMax
        BY <1>1, <1>8 DEF CreditInv
      <3>. QED
        BY <1>6, <1>7, <1>11, <2>1, <3>1
    <2>2. CASE d # c
      <3>1. maxData'[d] = maxData[d] /\ SumIn(received, d)' = SumIn(received, d)
        BY <1>6, <1>7, <1>8, <2>2 DEF CreditInv
      <3>. QED
        BY <3>1 DEF CreditInv
    <2>. QED
      BY <2>1, <2>2
  <1>. QED
    BY <1>12, <1>13, <1>14, <1>15 DEF CreditInv

LEMMA CreditKept ==
  ASSUME StreamInv, CreditInv, [H3Next]_h3Vars PROVE CreditInv'
  <1>1. ASSUME UNCHANGED rxVars PROVE CreditInv'
    <2>1. UNCHANGED <<limit, maxData, granted, received, ended>>
      BY <1>1 DEF rxVars
    <2>2. \A c : SumIn(received, c)' = SumIn(received, c)
      <3>1. \A c : SumIn(received, c)' = SumIn(received', c)
        BY DEF SumIn, MapThenSumSet, MapThenFoldSet, StreamsOf
      <3>. QED
        BY <2>1, <3>1
    <2>. QED
      BY <2>1, <2>2 DEF CreditInv
  <1>2. ASSUME NEW s \in Streams, OnStreamFrame(s), ~UNCHANGED rxVars PROVE CreditInv'
    <2>1. PICK off \in 0..Size(s), len \in 0..Size(s) :
            LET fin == off + len = Size(s) \/ s \in ended
                r == IF off > received[s] THEN received[s] ELSE Reached(s, [off |-> off, len |-> len])
            IN
            /\ received' = [received EXCEPT ![s] = r]
            /\ ended' = (IF fin THEN ended \cup {s} ELSE ended)
            /\ Replenish(s, r, fin)
      BY <1>2 DEF OnStreamFrame
    <2>2. PICK fin, r :
            /\ fin = (off + len = Size(s) \/ s \in ended)
            /\ r = IF off > received[s] THEN received[s] ELSE Reached(s, [off |-> off, len |-> len])
      OBVIOUS
    <2>3. /\ received' = [received EXCEPT ![s] = r]
           /\ ended' = (IF fin THEN ended \cup {s} ELSE ended)
           /\ Replenish(s, r, fin)
      BY <2>1, <2>2
    <2>4. /\ received \in [Streams -> Nat] /\ Size(s) \in Nat /\ received[s] \in 0..Size(s)
      <3>1. /\ received \in [Streams -> Nat] /\ highest \in [Streams -> Nat] /\ Size(s) \in Nat
            /\ Pieces(Size(s), received[s], highest[s], held[s])
        BY FramesAre DEF StreamInv, StreamsTyped, HoldsAll
      <3>. QED
        BY <3>1 DEF Pieces
    <2>5. r \in Nat /\ r >= received[s]
      <3>1. CASE off > received[s]
        BY <2>4, <2>2, <3>1
      <3>2. CASE ~(off > received[s])
        <4>1. r = Reached(s, [off |-> off, len |-> len])
          BY <2>2, <3>2
        <4>2. r \in received[s]..Size(s)
          BY <2>4, <4>1, ReachedIs
        <4>. QED
          BY <2>4, <4>2
      <3>. QED
        BY <3>1, <3>2
    <2>6. fin \in BOOLEAN
      BY <2>2
    <2>. QED
      BY <2>3, <2>4, <2>5, <2>6, Replenished
  <1>3. ASSUME NEW c, Connect(c) \/ Silence(c) \/ PeerCloses(c) \/ Tick \/ Stop PROVE UNCHANGED rxVars
    BY <1>3 DEF Connect, Silence, PeerCloses, Tick, Stop
  <1>4. ASSUME NEW s, Works(s) \/ Drain(s) \/ WsRecv(s) \/ WsReturn(s) \/ WsLeave(s) PROVE UNCHANGED rxVars
    BY <1>4 DEF Works, Start, Respond, Send, PumpChunk, PumpRoom, PumpEnd, Drain, WsRecv, WsReturn, WsLeave
  <1>5. UNCHANGED h3Vars => UNCHANGED rxVars
    BY DEF h3Vars
  <1>. QED
    BY <1>1, <1>2, <1>3, <1>4, <1>5 DEF H3Next

LEMMA CreditBecause ==
  ASSUME StreamInv, CreditInv PROVE CreditNeverStops
  <1> SUFFICES ASSUME NEW s \in Streams, s \notin ended
               PROVE  /\ \A p \in [off : 0..Size(s), len : 0..Size(s)] : Permitted(s, p) => ~OverLimit(s, p)
                      /\ (\A t \in StreamsOf(ConnOf[s]) : received[t] = highest[t]) =>
                           granted.stream[s] > received[s] /\ granted.conn[ConnOf[s]] > SumIn(highest, ConnOf[s])
    BY DEF CreditNeverStops
  <1>1. PICK c : c = ConnOf[s] /\ c \in Conns
    BY ServerConstants
  <1>2. /\ received \in [Streams -> Nat] /\ highest \in [Streams -> Nat]
        /\ received[s] \in Nat /\ highest[s] \in Nat /\ Size(s) \in Nat
    BY FramesAre DEF StreamInv, StreamsTyped
  <1>3. SumIn(highest, c) \in Int /\ SumIn(received, c) \in Int
    BY <1>2, SumInType
  <1>4. /\ limit[s] \in Int /\ maxData[c] \in Int /\ granted.stream = limit /\ granted.conn = maxData
        /\ limit[s] - received[s] >= StreamWindow \div 2 /\ maxData[c] - SumIn(received, c) >= ConnWindow \div 2
    BY <1>1 DEF CreditInv
  <1>5. ASSUME NEW p \in [off : 0..Size(s), len : 0..Size(s)], Permitted(s, p) PROVE ~OverLimit(s, p)
    <2>1. PICK end : end = p.off + p.len /\ end \in Nat
      BY <1>2
    <2>2. end <= limit[s] /\ SumIn(highest, c) - highest[s] + Larger(highest[s], end) <= maxData[c]
      BY <1>1, <1>4, <1>5, <2>1 DEF Permitted
    <2>3. Larger(0, end - highest[s]) = Larger(highest[s], end) - highest[s]
      BY <1>2, <2>1 DEF Larger
    <2>4. Larger(highest[s], end) \in Nat
      BY <1>2, <2>1 DEF Larger
    <2>5. SumIn(highest, c) + Larger(0, end - highest[s]) <= maxData[c]
      BY <1>2, <1>3, <1>4, <2>2, <2>3, <2>4
    <2>6. ~(end > limit[s]) /\ ~(SumIn(highest, c) + Larger(0, end - highest[s]) > maxData[c])
      <3>1. Larger(0, end - highest[s]) \in Int
        BY <1>2, <2>3, <2>4
      <3>. QED
        BY <1>3, <1>4, <2>1, <2>2, <2>5, <3>1
    <2>. QED
      BY <1>1, <2>1, <2>6 DEF OverLimit
  <1>6. ASSUME \A t \in StreamsOf(ConnOf[s]) : received[t] = highest[t]
        PROVE  granted.stream[s] > received[s] /\ granted.conn[ConnOf[s]] > SumIn(highest, ConnOf[s])
    <2>1. SumIn(received, c) = SumIn(highest, c)
      BY <1>1, <1>6, SumInSame
    <2>. QED
      BY <1>1, <1>2, <1>3, <1>4, <2>1, WindowsSplit
  <1>. QED
    BY <1>5, <1>6

\* Credit cannot run out: a client that stays within what it was granted is
\* never closed for it, and one whose bytes were all delivered may send on
\* (_replenish_windows, StreamBuffer.limit and _recv_max_data).
THEOREM CreditIsKept == H3Spec => []CreditNeverStops
  <1>1. H3Init => StreamInv /\ CreditInv
    BY StreamsBegin, CreditBegins
  <1>2. StreamInv /\ CreditInv /\ [H3Next]_h3Vars => StreamInv' /\ CreditInv'
    BY StreamsKept, CreditKept
  <1>3. StreamInv /\ CreditInv => CreditNeverStops
    BY CreditBecause
  <1>. QED
    BY <1>1, <1>2, <1>3, PTL DEF H3Spec

-----------------------------------------------------------------------------
(* QuicSender: what a queue holds of a stream. *)

\* An entry takes stream s from its byte a to its byte b, or does not concern it.
Moves(e, s, a, b) == IF PieceOf(e, s) THEN e.from = a /\ b = a + e.len ELSE b = a

\* The entries of a queue take it there, one after the other: f is where they do.
Way(q, s, a, b, f) ==
  /\ f \in [0..Len(q) -> Nat] /\ f[0] = a /\ f[Len(q)] = b
  /\ \A k \in 1..Len(q) : Moves(q[k], s, f[k - 1], f[k])
Leads(q, s, a, b) == \E f : Way(q, s, a, b, f)

LEMMA LeadsNowhere ==
  ASSUME NEW s, NEW a \in Nat, NEW b
  PROVE  Leads(<<>>, s, a, a) /\ (Leads(<<>>, s, a, b) => a = b)
  <1>1. PICK f : f = [k \in 0..0 |-> a]
    OBVIOUS
  <1>2. Way(<<>>, s, a, a, f)
    BY <1>1 DEF Way
  <1>. QED
    BY <1>2 DEF Leads, Way

LEMMA LeadsTyped ==
  ASSUME NEW q \in Seq(Entries), NEW s, NEW a, NEW b, Leads(q, s, a, b)
  PROVE  a \in Nat /\ b \in Nat
  <1>1. PICK n \in Nat : n = Len(q)
    OBVIOUS
  <1>2. PICK f : Way(q, s, a, b, f)
    BY DEF Leads
  <1>3. f \in [0..n -> Nat] /\ f[0] = a /\ f[n] = b /\ 0 \in 0..n /\ n \in 0..n
    BY <1>1, <1>2 DEF Way
  <1>. QED
    BY <1>3

\* An entry more.
LEMMA LeadsOn ==
  ASSUME NEW q \in Seq(Entries), NEW e \in Entries, NEW s, NEW a, NEW b, NEW c \in Nat,
         Leads(q, s, a, b), Moves(e, s, b, c)
  PROVE  Leads(Append(q, e), s, a, c)
  <1>1. PICK n \in Nat : n = Len(q)
    OBVIOUS
  <1>2. PICK f : Way(q, s, a, b, f)
    BY DEF Leads
  <1>3. PICK p : p = Append(q, e)
    OBVIOUS
  <1>4. Len(p) = n + 1 /\ p[n + 1] = e /\ \A k \in 1..n : p[k] = q[k]
    BY <1>1, <1>3
  <1>5. PICK g : g = [k \in 0..n + 1 |-> IF k = n + 1 THEN c ELSE f[k]]
    OBVIOUS
  <1>6. f \in [0..n -> Nat] /\ f[0] = a /\ f[n] = b
    BY <1>1, <1>2 DEF Way
  <1>7. g \in [0..n + 1 -> Nat] /\ g[n + 1] = c /\ \A k \in 0..n : g[k] = f[k]
    BY <1>5, <1>6
  <1>8. ASSUME NEW k \in 1..n + 1 PROVE Moves(p[k], s, g[k - 1], g[k])
    <2>1. CASE k = n + 1
      <3>1. k - 1 = n /\ n \in 0..n
        BY <2>1
      <3>2. g[k - 1] = b /\ g[k] = c /\ p[k] = e
        BY <1>4, <1>6, <1>7, <2>1, <3>1
      <3>. QED
        BY <3>2
    <2>2. CASE k \in 1..n
      <3>1. k - 1 \in 0..n /\ k \in 0..n
        BY <2>2
      <3>2. g[k - 1] = f[k - 1] /\ g[k] = f[k] /\ p[k] = q[k]
        BY <1>4, <1>7, <2>2, <3>1
      <3>. QED
        BY <1>1, <1>2, <2>2, <3>2 DEF Way
    <2>. QED
      BY <2>1, <2>2
  <1>9. g[0] = a
    BY <1>6, <1>7
  <1>10. Way(p, s, a, c, g)
    BY <1>4, <1>7, <1>8, <1>9 DEF Way
  <1>. QED
    BY <1>3, <1>10 DEF Leads

\* One queue after the other.
LEMMA LeadsBoth ==
  ASSUME NEW q \in Seq(Entries), NEW r \in Seq(Entries), NEW s, NEW a, NEW b, NEW c,
         Leads(q, s, a, b), Leads(r, s, b, c)
  PROVE  Leads(q \o r, s, a, c)
  <1>1. PICK n \in Nat : n = Len(q)
    OBVIOUS
  <1>2. PICK m \in Nat : m = Len(r)
    OBVIOUS
  <1>3. PICK f : Way(q, s, a, b, f)
    BY DEF Leads
  <1>4. PICK g : Way(r, s, b, c, g)
    BY DEF Leads
  <1>5. PICK p : p = q \o r
    OBVIOUS
  <1>6. Len(p) = n + m /\ (\A k \in 1..n : p[k] = q[k]) /\ \A k \in 1..m : p[n + k] = r[k]
    BY <1>1, <1>2, <1>5
  <1>7. PICK h : h = [k \in 0..n + m |-> IF k <= n THEN f[k] ELSE g[k - n]]
    OBVIOUS
  <1>8. f \in [0..n -> Nat] /\ f[0] = a /\ f[n] = b
    BY <1>1, <1>3 DEF Way
  <1>9. g \in [0..m -> Nat] /\ g[0] = b /\ g[m] = c
    BY <1>2, <1>4 DEF Way
  <1>10. h \in [0..n + m -> Nat] /\ (\A k \in 0..n : h[k] = f[k])
    <2>1. \A k \in 0..n + m : ~(k <= n) => k - n \in 0..m
      OBVIOUS
    <2>2. \A k \in 0..n + m : k <= n => k \in 0..n
      OBVIOUS
    <2>3. \A k \in 0..n + m : (IF k <= n THEN f[k] ELSE g[k - n]) \in Nat
      BY <1>8, <1>9, <2>1, <2>2
    <2>4. \A k \in 0..n : k \in 0..n + m /\ k <= n
      OBVIOUS
    <2>. QED
      BY <1>7, <2>3, <2>4
  <1>11. ASSUME NEW k \in 0..m PROVE h[n + k] = g[k]
    <2>1. n + k \in 0..n + m /\ (n + k) - n = k
      OBVIOUS
    <2>2. CASE k = 0
      <3>1. n + k = n /\ n \in 0..n
        BY <2>2
      <3>. QED
        BY <1>8, <1>9, <1>10, <2>2, <3>1
    <2>3. CASE k # 0
      <3>1. ~(n + k <= n)
        BY <2>3
      <3>. QED
        BY <1>7, <2>1, <3>1
    <2>. QED
      BY <2>2, <2>3
  <1>12. ASSUME NEW k \in 1..n + m PROVE Moves(p[k], s, h[k - 1], h[k])
    <2>1. CASE k \in 1..n
      <3>1. k - 1 \in 0..n /\ k \in 0..n
        BY <2>1
      <3>2. h[k - 1] = f[k - 1] /\ h[k] = f[k] /\ p[k] = q[k]
        BY <1>6, <1>10, <2>1, <3>1
      <3>. QED
        BY <1>1, <1>3, <2>1, <3>2 DEF Way
    <2>2. CASE ~(k <= n)
      <3>1. PICK j \in 1..m : k = n + j
        <4>1. k - n \in 1..m /\ k = n + (k - n)
          BY <2>2
        <4>. QED
          BY <4>1
      <3>2. j - 1 \in 0..m /\ j \in 0..m /\ k - 1 = n + (j - 1)
        BY <3>1
      <3>3. h[k - 1] = g[j - 1] /\ h[k] = g[j] /\ p[k] = r[j]
        BY <1>6, <1>11, <3>1, <3>2
      <3>. QED
        BY <1>2, <1>4, <3>1, <3>3 DEF Way
    <2>. QED
      BY <2>1, <2>2
  <1>13. h[0] = a /\ h[n + m] = c
    <2>1. 0 \in 0..n /\ m \in 0..m
      OBVIOUS
    <2>. QED
      BY <1>8, <1>9, <1>10, <1>11, <2>1
  <1>14. Way(p, s, a, c, h)
    BY <1>6, <1>10, <1>12, <1>13 DEF Way
  <1>. QED
    BY <1>5, <1>14 DEF Leads

\* The first entry, and the rest.
LEMMA LeadsFirst ==
  ASSUME NEW q \in Seq(Entries), q # <<>>, NEW s, NEW a, NEW c, Leads(q, s, a, c)
  PROVE  \E b \in Nat : Moves(Head(q), s, a, b) /\ Leads(Tail(q), s, b, c)
  <1>1. PICK n \in Nat : n = Len(q) /\ n > 0
    OBVIOUS
  <1>2. PICK f : Way(q, s, a, c, f)
    BY DEF Leads
  <1>3. PICK t : t = Tail(q)
    OBVIOUS
  <1>4. Len(t) = n - 1 /\ (\A k \in 1..n - 1 : t[k] = q[k + 1]) /\ Head(q) = q[1] /\ n - 1 \in Nat
    BY <1>1, <1>3
  <1>5. f \in [0..n -> Nat] /\ f[0] = a /\ f[n] = c
    BY <1>1, <1>2 DEF Way
  <1>6. PICK g : g = [k \in 0..n - 1 |-> f[k + 1]]
    OBVIOUS
  <1>7. g \in [0..n - 1 -> Nat] /\ \A k \in 0..n - 1 : g[k] = f[k + 1]
    <2>1. \A k \in 0..n - 1 : k + 1 \in 0..n
      BY <1>1
    <2>. QED
      BY <1>5, <1>6, <2>1
  <1>8. ASSUME NEW k \in 1..n - 1 PROVE Moves(t[k], s, g[k - 1], g[k])
    <2>1. k + 1 \in 1..n /\ (k + 1) - 1 = k /\ k - 1 \in 0..n - 1 /\ (k - 1) + 1 = k /\ k \in 0..n - 1
      BY <1>1
    <2>2. Moves(q[k + 1], s, f[k], f[k + 1])
      BY <1>1, <1>2, <2>1 DEF Way
    <2>. QED
      BY <1>4, <1>7, <2>1, <2>2
  <1>9. PICK b \in Nat : b = f[1]
    BY <1>1, <1>5
  <1>10. g[0] = b /\ g[n - 1] = c
    BY <1>1, <1>5, <1>7, <1>9
  <1>11. Way(t, s, b, c, g)
    BY <1>4, <1>7, <1>8, <1>10 DEF Way
  <1>12. Moves(Head(q), s, a, b)
    <2>1. 1 \in 1..n /\ 1 - 1 = 0
      BY <1>1
    <2>2. Moves(q[1], s, f[0], f[1])
      BY <1>1, <1>2, <2>1 DEF Way
    <2>. QED
      BY <1>4, <1>5, <1>9, <2>2
  <1>. QED
    BY <1>3, <1>9, <1>11, <1>12 DEF Leads

\* A queue with nothing of the stream leads nowhere.
LEMMA LeadsPast ==
  ASSUME NEW q \in Seq(Entries), NEW s, NEW a, NEW b,
         Leads(q, s, a, b), \A i \in DOMAIN q : ~PieceOf(q[i], s)
  PROVE  a = b
  <1>1. PICK n \in Nat : n = Len(q) /\ DOMAIN q = 1..n
    OBVIOUS
  <1>2. PICK f : Way(q, s, a, b, f)
    BY DEF Leads
  <1>3. f \in [0..n -> Nat] /\ f[0] = a /\ f[n] = b
    BY <1>1, <1>2 DEF Way
  <1> DEFINE Good == {k \in 0..n : f[k] = a}
  <1>4. 0 \in Good
    BY <1>3
  <1>5. ASSUME NEW k \in 0..n - 1, k \in Good PROVE k + 1 \in Good
    <2>1. k + 1 \in 1..n /\ (k + 1) - 1 = k /\ k + 1 \in 0..n /\ f[k] = a
      BY <1>5
    <2>2. Moves(q[k + 1], s, f[k], f[k + 1])
      BY <1>1, <1>2, <2>1 DEF Way
    <2>3. f[k + 1] = f[k]
      BY <1>1, <2>1, <2>2 DEF Moves
    <2>. QED
      BY <2>1, <2>3
  <1>6. n \in Good
    <2> HIDE DEF Good
    <2>1. \A k \in 0..n : k \in Good
      BY <1>4, <1>5, UpwardTo
    <2>. QED
      BY <2>1
  <1>. QED
    BY <1>3, <1>6

LEMMA SumIs == ASSUME NEW w, NEW S PROVE SumFunctionOnSet(w, S) = Sums(w, S)[S]
  BY DEF SumFunctionOnSet, FoldFunctionOnSet, MapThenFoldSet, Sums, Some

\* A sum over some of them, and one over the whole of them that agrees.
LEMMA SumPart ==
  ASSUME NEW w, NEW v, NEW S, IsFiniteSet(S), NEW R \in SUBSET S, \A x \in R : w[x] = v[x]
  PROVE  SumFunctionOnSet(w, R) = Sums(v, S)[R]
  <1>1. \A s \in SUBSET R : Sums(w, R)[s] = Sums(v, S)[s]
    BY SumAgrees
  <1>2. R \in SUBSET R
    OBVIOUS
  <1>. QED
    BY <1>1, <1>2, SumIs

\* A sum without one of its summands.
Weighs(w, S) == IsFiniteSet(S) /\ \A x \in S : w[x] \in Int
Lessens(w, S) == \A R \in SUBSET S : \A x \in R : Sums(w, S)[R] = w[x] + Sums(w, S)[R \ {x}]
LEMMA SumLessens ==
  ASSUME NEW w, NEW S, Weighs(w, S)
  PROVE  Lessens(w, S)
  <1>1. IsFiniteSet(S) /\ \A x \in S : w[x] \in Int
    BY DEF Weighs
  <1>2. ASSUME NEW R \in SUBSET S, NEW x \in R
        PROVE  Sums(w, S)[R] = w[x] + Sums(w, S)[R \ {x}]
    BY <1>1, SumWithout
  <1>. QED
    BY <1>2 DEF Lessens

LEMMA EntryLength ==
  ASSUME NEW e \in Entries, NEW s
  PROVE  LengthIn(e, s) \in Nat /\ (PieceOf(e, s) => e.from \in Nat /\ e.len \in Nat /\ LengthIn(e, s) = e.len)
  BY DEF Entries, LengthIn, PieceOf

\* The bytes of a stream among the entries, one after the other.
LEMMA BytesAre ==
  ASSUME NEW q \in Seq(Entries), NEW s
  PROVE  /\ BytesOf(q, s, 0) = 0
         /\ \A k \in 0..Len(q) : BytesOf(q, s, k) \in Nat
         /\ \A k \in 1..Len(q) : BytesOf(q, s, k) = LengthIn(q[k], s) + BytesOf(q, s, k - 1)
  <1>1. PICK n \in Nat : n = Len(q) /\ DOMAIN q = 1..n
    OBVIOUS
  <1>2. PICK w : w = [i \in 1..n |-> LengthIn(q[i], s)]
    OBVIOUS
  <1>3. \A i \in 1..n : w[i] = LengthIn(q[i], s) /\ w[i] \in Nat /\ w[i] \in Int
    <2>1. \A i \in 1..n : q[i] \in Entries
      BY <1>1
    <2>2. \A i \in 1..n : LengthIn(q[i], s) \in Nat
      BY <2>1, EntryLength
    <2>. QED
      BY <1>2, <2>2
  <1>4. IsFiniteSet(1..n)
    BY FS_Interval
  <1>5. ASSUME NEW k \in 0..n PROVE BytesOf(q, s, k) = Sums(w, 1..n)[1..k]
    <2>1. PICK v : v = [i \in 1..k |-> LengthIn(q[i], s)]
      OBVIOUS
    <2>2. 1..k \in SUBSET (1..n)
      OBVIOUS
    <2>3. \A i \in 1..k : v[i] = w[i]
      BY <1>3, <2>1
    <2>4. SumFunctionOnSet(v, 1..k) = Sums(w, 1..n)[1..k]
      BY <1>4, <2>2, <2>3, SumPart
    <2>. QED
      BY <2>1, <2>4 DEF BytesOf
  <1>6. \A r \in SUBSET (1..n) : Sums(w, 1..n)[r] \in Nat
    BY <1>3, <1>4, SumBounds
  <1>7. ASSUME NEW k \in 0..n PROVE BytesOf(q, s, k) \in Nat
    <2>1. 1..k \in SUBSET (1..n)
      OBVIOUS
    <2>. QED
      BY <1>5, <1>6, <2>1
  <1>8. ASSUME NEW k \in 1..n PROVE BytesOf(q, s, k) = LengthIn(q[k], s) + BytesOf(q, s, k - 1)
    <2>1. 1..k \in SUBSET (1..n) /\ k \in 1..k /\ (1..k) \ {k} = 1..k - 1 /\ k - 1 \in 0..n /\ k \in 0..n
      OBVIOUS
    <2>2. Weighs(w, 1..n)
      BY <1>3, <1>4 DEF Weighs
    <2>3. Lessens(w, 1..n)
      BY <2>2, SumLessens
    <2>4. Sums(w, 1..n)[1..k] = w[k] + Sums(w, 1..n)[(1..k) \ {k}]
      BY <2>1, <2>3 DEF Lessens
    <2>. QED
      BY <1>3, <1>5, <2>1, <2>4
  <1>9. BytesOf(q, s, 0) = 0
    <2>1. 1..0 = {} /\ 1..0 \in SUBSET (1..n) /\ 0 \in 0..n
      OBVIOUS
    <2>2. Sums(w, 1..n)[1..0] = 0
      BY <1>4, <2>1, SumOf
    <2>. QED
      BY <1>5, <2>1, <2>2
  <1>. QED
    BY <1>1, <1>7, <1>8, <1>9

\* A queue that leads from one byte to another holds the bytes in between.
LEMMA LeadsBytes ==
  ASSUME NEW q \in Seq(Entries), NEW s, NEW a, NEW b, Leads(q, s, a, b)
  PROVE  /\ \A i \in DOMAIN q : PieceOf(q[i], s) => q[i].from = a + BytesOf(q, s, i - 1)
         /\ b = a + BytesOf(q, s, Len(q))
  <1>1. PICK n \in Nat : n = Len(q) /\ DOMAIN q = 1..n
    OBVIOUS
  <1>2. PICK f : Way(q, s, a, b, f)
    BY DEF Leads
  <1>3. f \in [0..n -> Nat] /\ f[0] = a /\ f[n] = b /\ 0 \in 0..n
    BY <1>1, <1>2 DEF Way
  <1>4. BytesOf(q, s, 0) = 0 /\ (\A k \in 0..n : BytesOf(q, s, k) \in Nat)
        /\ \A k \in 1..n : BytesOf(q, s, k) = LengthIn(q[k], s) + BytesOf(q, s, k - 1)
    BY <1>1, BytesAre
  <1> DEFINE Good == {k \in 0..n : f[k] = a + BytesOf(q, s, k)}
  <1>5. 0 \in Good
    BY <1>3, <1>4
  <1>6. ASSUME NEW k \in 0..n - 1, k \in Good PROVE k + 1 \in Good
    <2>1. k + 1 \in 1..n /\ (k + 1) - 1 = k /\ k + 1 \in 0..n /\ k \in 0..n
      BY <1>6
    <2>2. f[k] = a + BytesOf(q, s, k)
      BY <1>6
    <2>3. Moves(q[k + 1], s, f[k], f[k + 1])
      BY <1>1, <1>2, <2>1 DEF Way
    <2>4. q[k + 1] \in Entries
      BY <1>1, <2>1
    <2>5. LengthIn(q[k + 1], s) \in Nat
          /\ (PieceOf(q[k + 1], s) => LengthIn(q[k + 1], s) = q[k + 1].len)
          /\ (~PieceOf(q[k + 1], s) => LengthIn(q[k + 1], s) = 0)
      BY <2>4, EntryLength DEF LengthIn
    <2>6. f[k + 1] = f[k] + LengthIn(q[k + 1], s)
      <3>1. f[k] \in Nat
        BY <1>3, <2>1
      <3>. QED
        BY <2>3, <2>5, <3>1 DEF Moves
    <2>7. BytesOf(q, s, k + 1) = LengthIn(q[k + 1], s) + BytesOf(q, s, k)
      BY <1>4, <2>1
    <2>8. BytesOf(q, s, k) \in Nat /\ a \in Nat
      BY <1>3, <1>4, <2>1
    <2>9. f[k + 1] = a + BytesOf(q, s, k + 1)
      BY <2>2, <2>5, <2>6, <2>7, <2>8
    <2>. QED
      BY <2>1, <2>9
  <1>7. \A k \in 0..n : f[k] = a + BytesOf(q, s, k)
    <2>1. \A k \in 0..n : k \in Good
      <3> HIDE DEF Good
      <3>. QED
        BY <1>5, <1>6, UpwardTo
    <2>. QED
      BY <2>1
  <1>8. ASSUME NEW i \in 1..n, PieceOf(q[i], s) PROVE q[i].from = a + BytesOf(q, s, i - 1)
    <2>1. i - 1 \in 0..n
      OBVIOUS
    <2>2. Moves(q[i], s, f[i - 1], f[i])
      BY <1>1, <1>2 DEF Way
    <2>. QED
      BY <1>7, <1>8, <2>1, <2>2 DEF Moves
  <1>9. n \in 0..n
    OBVIOUS
  <1>. QED
    BY <1>1, <1>3, <1>7, <1>8, <1>9

-----------------------------------------------------------------------------
(* The folds of QuicSender: over the entries of a queue, and over numbers, from *)
(* the lowest or from the highest on.  The first argument says which it is.     *)

Adds(of, n, x) ==
  IF of[1] = "without" THEN IF of[2][n].s = of[3] THEN x ELSE Append(x, of[2][n])
  ELSE IF of[1] = "grow" THEN GrownBy(x, n)
  ELSE Append(x, n)
Outermost(of, S) == IF of[1] = "downwards" THEN Min(S) ELSE Max(S)

IsFold(of, base, S, f) ==
  f = [s \in SUBSET S |-> IF s = {} THEN base ELSE Adds(of, Outermost(of, s), f[s \ {Outermost(of, s)}])]

\* Highest and lowest of a set of numbers.
LEMMA MaxIs ==
  ASSUME NEW n \in Nat, NEW s, s \subseteq 0..n, s # {}
  PROVE  Max(s) \in s /\ \A y \in s : Max(s) >= y
  <1> DEFINE Above == {y \in Nat : \A x \in s : x <= y}
  <1>1. n \in Above
    OBVIOUS
  <1>2. PICK m \in Above : \A y \in Above : m <= y
    <2>1. Above \subseteq Nat
      OBVIOUS
    <2> HIDE DEF Above
    <2>. QED
      BY <1>1, <2>1, LeastOfNats
  <1>3. m \in Nat /\ \A x \in s : x \in Nat /\ x <= m
    OBVIOUS
  <1>4. m \in s
    <2> SUFFICES ASSUME m \notin s PROVE FALSE
      OBVIOUS
    <2>1. PICK x \in s : x \in Nat /\ x <= m /\ x # m
      BY <1>3
    <2>2. m - 1 \in Nat /\ ~(m <= m - 1)
      BY <1>3, <2>1
    <2>3. \A y \in s : y <= m - 1
      BY <1>3
    <2>4. m - 1 \in Above
      BY <2>2, <2>3
    <2>. QED
      BY <1>2, <2>2, <2>4
  <1>5. \E x \in s : \A y \in s : x >= y
    BY <1>3, <1>4
  <1> HIDE DEF Above
  <1>. QED
    BY <1>5 DEF Max

LEMMA MinIs ==
  ASSUME NEW s, s \subseteq Nat, s # {}
  PROVE  Min(s) \in s /\ \A y \in s : Min(s) <= y
  <1>1. PICK m \in s : \A y \in s : m <= y
    BY LeastOfNats
  <1>. QED
    BY <1>1 DEF Min

LEMMA OutermostIs ==
  ASSUME NEW of, NEW n \in Nat, NEW s, s \subseteq 0..n, s # {}
  PROVE  Outermost(of, s) \in s
  <1>1. Max(s) \in s
    BY MaxIs
  <1>2. s \subseteq Nat
    OBVIOUS
  <1>3. Min(s) \in s
    BY <1>2, MinIs
  <1>. QED
    BY <1>1, <1>3 DEF Outermost

\* Such a fold exists.
LEMMA FoldExists ==
  ASSUME NEW of, NEW base, NEW n \in Nat, NEW S, S \subseteq 0..n
  PROVE  \E f : IsFold(of, base, S, f)
  <1> DEFINE UpTo(m) == {s \in SUBSET S : Cardinality(s) <= m}
             Step(f, s) == IF s = {} THEN base ELSE Adds(of, Outermost(of, s), f[s \ {Outermost(of, s)}])
             T == {m \in Nat : ~ \E f : f = [s \in UpTo(m) |-> Step(f, s)]}
  <1>0. IsFiniteSet(S)
    <2>1. IsFiniteSet(0..n)
      BY FS_Interval
    <2>. QED
      BY <2>1, FS_Subset
  <1>1. \A s \in SUBSET S : IsFiniteSet(s) /\ Cardinality(s) \in Nat /\ Cardinality(s) <= Cardinality(S)
    BY <1>0, FS_Subset, FS_CardinalityType
  <1>2. \A s \in SUBSET S : s # {} => /\ Outermost(of, s) \in s /\ s \ {Outermost(of, s)} \in SUBSET S
                                      /\ Cardinality(s \ {Outermost(of, s)}) = Cardinality(s) - 1
    <2> SUFFICES ASSUME NEW s \in SUBSET S, s # {}
                 PROVE  /\ Outermost(of, s) \in s /\ s \ {Outermost(of, s)} \in SUBSET S
                        /\ Cardinality(s \ {Outermost(of, s)}) = Cardinality(s) - 1
      OBVIOUS
    <2>1. Outermost(of, s) \in s
      <3>1. s \subseteq 0..n
        OBVIOUS
      <3>. QED
        BY <3>1, OutermostIs
    <2>. QED
      BY <1>1, <2>1, FS_RemoveElement
  <1>3. T = {}
    <2> SUFFICES ASSUME T # {} PROVE FALSE
      OBVIOUS
    <2>1. PICK m \in T : \A k \in T : m <= k
      <3>1. T \subseteq Nat
        OBVIOUS
      <3> HIDE DEF T
      <3>. QED
        BY <3>1, LeastOfNats
    <2>2. m \in Nat /\ ~ \E f : f = [s \in UpTo(m) |-> Step(f, s)]
      OBVIOUS
    <2>3. CASE m = 0
      <3>1. \A s \in UpTo(0) : s = {}
        BY <1>1, FS_EmptySet
      <3>2. [s \in UpTo(0) |-> base] = [s \in UpTo(0) |-> Step([u \in UpTo(0) |-> base], s)]
        BY <3>1
      <3>. QED
        BY <2>2, <2>3, <3>2
    <2>4. CASE m # 0
      <3>1. m - 1 \in Nat /\ m - 1 \notin T
        <4> HIDE DEF T
        <4>. QED
          BY <2>1, <2>2, <2>4
      <3>2. PICK f : f = [s \in UpTo(m - 1) |-> Step(f, s)]
        BY <3>1
      <3>3. PICK g : g = [s \in UpTo(m) |-> Step(f, s)]
        OBVIOUS
      <3>4. \A u \in UpTo(m - 1) : u \in UpTo(m) /\ g[u] = f[u]
        <4> SUFFICES ASSUME NEW u \in UpTo(m - 1) PROVE u \in UpTo(m) /\ g[u] = f[u]
          OBVIOUS
        <4>1. u \in UpTo(m)
          BY <1>1, <2>2
        <4>2. f[u] = Step(f, u)
          <5> HIDE DEF UpTo, Step
          <5>. QED
            BY <3>2
        <4>3. g[u] = Step(f, u)
          <5> HIDE DEF UpTo, Step
          <5>. QED
            BY <3>3, <4>1
        <4>. QED
          BY <4>1, <4>2, <4>3
      <3>5. \A s \in UpTo(m) : s # {} => s \ {Outermost(of, s)} \in UpTo(m - 1)
        BY <1>1, <1>2, <2>2
      <3>6. \A s \in UpTo(m) : Step(f, s) = Step(g, s)
        <4> SUFFICES ASSUME NEW s \in UpTo(m) PROVE Step(f, s) = Step(g, s)
          OBVIOUS
        <4> HIDE DEF UpTo
        <4>. QED
          BY <3>4, <3>5
      <3>7. g = [s \in UpTo(m) |-> Step(g, s)]
        <4> HIDE DEF UpTo, Step
        <4>. QED
          BY <3>3, <3>6
      <3>. QED
        BY <2>2, <3>7
    <2>. QED
      BY <2>3, <2>4
  <1>4. Cardinality(S) \in Nat /\ UpTo(Cardinality(S)) = SUBSET S
    BY <1>1
  <1>5. \E f : f = [s \in UpTo(Cardinality(S)) |-> Step(f, s)]
    BY <1>3, <1>4
  <1>6. \E f : f = [s \in SUBSET S |-> Step(f, s)]
    <2> HIDE DEF UpTo
    <2>. QED
      BY <1>4, <1>5
  <1>. QED
    BY <1>6 DEF IsFold

-----------------------------------------------------------------------------
(* What is left of a queue without a stream. *)

LEMMA WithoutRuns ==
  ASSUME NEW q \in Seq(Entries), NEW s
  PROVE  \E g : /\ g[0] = <<>> /\ g[Len(q)] = Without(q, s)
                /\ \A k \in 1..Len(q) : g[k] = IF q[k].s = s THEN g[k - 1] ELSE Append(g[k - 1], q[k])
  <1>1. PICK n \in Nat : n = Len(q) /\ DOMAIN q = 1..n
    OBVIOUS
  <1> DEFINE It == CHOOSE f : f = [S \in SUBSET (1..n) |->
                     IF S = {} THEN <<>>
                     ELSE IF q[Max(S)].s = s THEN f[S \ {Max(S)}] ELSE Append(f[S \ {Max(S)}], q[Max(S)])]
  <1>2. PICK of : of = <<"without", q, s>>
    OBVIOUS
  <1>3. of[1] = "without" /\ of[2] = q /\ of[3] = s /\ of[1] # "downwards"
    BY <1>2
  <1>4. \A S : Outermost(of, S) = Max(S)
    BY <1>3 DEF Outermost
  <1>5. \A m, x : Adds(of, m, x) = IF q[m].s = s THEN x ELSE Append(x, q[m])
    BY <1>3 DEF Adds
  <1>6. \E f : f = [S \in SUBSET (1..n) |->
                     IF S = {} THEN <<>>
                     ELSE IF q[Max(S)].s = s THEN f[S \ {Max(S)}] ELSE Append(f[S \ {Max(S)}], q[Max(S)])]
    <2>1. 1..n \subseteq 0..n
      OBVIOUS
    <2>2. PICK f : IsFold(of, <<>>, 1..n, f)
      BY <2>1, FoldExists
    <2> DEFINE One(S) == IF S = {} THEN <<>> ELSE Adds(of, Outermost(of, S), f[S \ {Outermost(of, S)}])
               Two(S) == IF S = {} THEN <<>>
                         ELSE IF q[Max(S)].s = s THEN f[S \ {Max(S)}] ELSE Append(f[S \ {Max(S)}], q[Max(S)])
    <2>3. f = [S \in SUBSET (1..n) |-> One(S)]
      BY <2>2 DEF IsFold
    <2>4. ASSUME NEW S PROVE One(S) = Two(S)
      <3>1. Outermost(of, S) = Max(S)
        BY <1>4
      <3>2. Adds(of, Max(S), f[S \ {Max(S)}])
              = IF q[Max(S)].s = s THEN f[S \ {Max(S)}] ELSE Append(f[S \ {Max(S)}], q[Max(S)])
        BY <1>5, Zenon
      <3>. QED
        BY <3>1, <3>2
    <2>5. f = [S \in SUBSET (1..n) |-> Two(S)]
      <3> HIDE DEF One, Two
      <3>. QED
        BY <2>3, <2>4, Zenon
    <2>. QED
      BY <2>5
  <1>7. It = [S \in SUBSET (1..n) |->
                IF S = {} THEN <<>>
                ELSE IF q[Max(S)].s = s THEN It[S \ {Max(S)}] ELSE Append(It[S \ {Max(S)}], q[Max(S)])]
    BY <1>6, Zenon
  <1>8. Without(q, s) = It[1..n]
    BY <1>1 DEF Without, FoldLeft, MapThenFoldSet
  <1>9. PICK f : f = It
    OBVIOUS
  <1> HIDE DEF It
  <1> DEFINE Step(S) == IF S = {} THEN <<>>
                        ELSE IF q[Max(S)].s = s THEN f[S \ {Max(S)}] ELSE Append(f[S \ {Max(S)}], q[Max(S)])
  <1>10. f = [S \in SUBSET (1..n) |-> Step(S)]
    BY <1>7, <1>9
  <1>11. \A S \in SUBSET (1..n) : f[S] = Step(S)
    <2> HIDE DEF Step
    <2>. QED
      BY <1>10
  <1>12. PICK g : g = [k \in 0..n |-> f[1..k]]
    OBVIOUS
  <1>13. g[0] = <<>>
    <2>1. 1..0 = {} /\ 1..0 \in SUBSET (1..n) /\ 0 \in 0..n
      OBVIOUS
    <2>2. f[1..0] = <<>>
      BY <1>11, <2>1
    <2>. QED
      BY <1>12, <2>1, <2>2
  <1>14. ASSUME NEW k \in 1..n
         PROVE  g[k] = IF q[k].s = s THEN g[k - 1] ELSE Append(g[k - 1], q[k])
    <2>1. 1..k \in SUBSET (1..n) /\ 1..k # {} /\ 1..k \subseteq 0..n
      <3>1. k \in 1..k
        OBVIOUS
      <3>2. \A y \in 1..k : y \in 1..n /\ y \in 0..n
        OBVIOUS
      <3>. QED
        BY <3>1, <3>2
    <2>0. k \in 0..n /\ k - 1 \in 0..n
      OBVIOUS
    <2>2. Max(1..k) \in 1..k /\ \A y \in 1..k : Max(1..k) >= y
      BY <2>1, MaxIs
    <2>3. Max(1..k) = k /\ (1..k) \ {k} = 1..k - 1
      BY <2>2
    <2>4. f[1..k] = IF q[k].s = s THEN f[1..k - 1] ELSE Append(f[1..k - 1], q[k])
      BY <1>11, <2>1, <2>3
    <2>5. g[k] = f[1..k] /\ g[k - 1] = f[1..k - 1]
      BY <1>12, <2>0
    <2>. QED
      BY <2>4, <2>5
  <1>15. g[n] = Without(q, s)
    BY <1>8, <1>9, <1>12
  <1>. QED
    BY <1>1, <1>13, <1>14, <1>15

\* Without a stream: the entries of the others, as they were.
LEMMA WithoutIs ==
  ASSUME NEW q \in Seq(Entries), NEW s
  PROVE  /\ Without(q, s) \in Seq(Entries)
         /\ \A x : x \in Range(Without(q, s)) <=> x \in Range(q) /\ x.s # s
         /\ \A r, a, b : r # s /\ Leads(q, r, a, b) => Leads(Without(q, s), r, a, b)
  <1>1. PICK n \in Nat : n = Len(q) /\ DOMAIN q = 1..n
    OBVIOUS
  <1>2. PICK g : /\ g[0] = <<>> /\ g[n] = Without(q, s)
                 /\ \A k \in 1..n : g[k] = IF q[k].s = s THEN g[k - 1] ELSE Append(g[k - 1], q[k])
    BY <1>1, WithoutRuns
  <1>3. \A k \in 1..n : q[k] \in Entries
    BY <1>1
  <1> DEFINE Typed == {k \in 0..n : g[k] \in Seq(Entries)}
  <1>4. \A k \in 0..n : g[k] \in Seq(Entries)
    <2>1. 0 \in Typed
      <3>1. <<>> \in Seq(Entries) /\ 0 \in 0..n
        OBVIOUS
      <3>. QED
        BY <1>2, <3>1
    <2>2. ASSUME NEW k \in 0..n - 1, k \in Typed PROVE k + 1 \in Typed
      <3>1. k + 1 \in 1..n /\ (k + 1) - 1 = k /\ g[k] \in Seq(Entries) /\ k + 1 \in 0..n
        BY <2>2
      <3>2. g[k + 1] = IF q[k + 1].s = s THEN g[k] ELSE Append(g[k], q[k + 1])
        BY <1>2, <3>1
      <3>3. q[k + 1] \in Entries
        BY <1>3, <3>1
      <3>4. Append(g[k], q[k + 1]) \in Seq(Entries)
        BY <3>1, <3>3
      <3>. QED
        BY <3>1, <3>2, <3>4
    <2>3. \A k \in 0..n : k \in Typed
      <3> HIDE DEF Typed
      <3>. QED
        BY <2>1, <2>2, UpwardTo
    <2>. QED
      BY <2>3
  <1> HIDE DEF Typed
  <1>5. ASSUME NEW x PROVE x \in Range(g[n]) <=> x \in Range(q) /\ x.s # s
    <2> DEFINE Met(k) == \E i \in 1..k : q[i] = x /\ x.s # s
               Good == {k \in 0..n : x \in Range(g[k]) <=> Met(k)}
    <2>1. 0 \in Good
      <3>1. 1..0 = {} /\ Range(<<>>) = {}
        BY DEF Range
      <3>. QED
        BY <1>2, <3>1
    <2>2. ASSUME NEW k \in 0..n - 1, k \in Good PROVE k + 1 \in Good
      <3>1. k + 1 \in 1..n /\ (k + 1) - 1 = k /\ k + 1 \in 0..n /\ k \in 0..n /\ k \in Nat
        BY <2>2
      <3>2. PICK e \in Entries : e = q[k + 1]
        BY <1>3, <3>1
      <3>3. g[k + 1] = IF e.s = s THEN g[k] ELSE Append(g[k], e)
        BY <1>2, <3>1, <3>2
      <3>4. PICK old \in Seq(Entries) : old = g[k]
        BY <1>4, <3>1
      <3>5. PICK m \in Nat : m = Len(old) /\ DOMAIN old = 1..m
        OBVIOUS
      <3>6. PICK new : new = Append(old, e)
        OBVIOUS
      <3>7. DOMAIN new = 1..m + 1 /\ new[m + 1] = e /\ \A i \in 1..m : new[i] = old[i]
        BY <3>5, <3>6
      <3>8. x \in Range(new) <=> x \in Range(old) \/ x = e
        <4>1. ASSUME x \in Range(new) PROVE x \in Range(old) \/ x = e
          <5>1. PICK i \in 1..m + 1 : x = new[i]
            BY <3>7, <4>1 DEF Range
          <5>2. CASE i = m + 1
            BY <3>7, <5>1, <5>2
          <5>3. CASE i \in 1..m
            BY <3>5, <3>7, <5>1, <5>3 DEF Range
          <5>. QED
            BY <5>2, <5>3
        <4>2. ASSUME x \in Range(old) PROVE x \in Range(new)
          <5>1. PICK i \in 1..m : x = old[i]
            BY <3>5, <4>2 DEF Range
          <5>2. i \in 1..m + 1 /\ x = new[i]
            BY <3>7, <5>1
          <5>. QED
            BY <3>7, <5>2 DEF Range
        <4>3. m + 1 \in 1..m + 1 /\ (x = e => x = new[m + 1])
          BY <3>7
        <4>4. x = e => x \in Range(new)
          BY <3>7, <4>3 DEF Range
        <4>. QED
          BY <4>1, <4>2, <4>4
      <3>9. Met(k + 1) <=> Met(k) \/ (q[k + 1] = x /\ x.s # s)
        <4>1. \A i \in 1..k + 1 : i \in 1..k \/ i = k + 1
          BY <3>1
        <4>2. k + 1 \in 1..k + 1 /\ \A i \in 1..k : i \in 1..k + 1
          BY <3>1
        <4>. QED
          BY <4>1, <4>2
      <3>10. x \in Range(old) <=> Met(k)
        BY <2>2, <3>4
      <3>11. x \in Range(g[k + 1]) <=> Met(k + 1)
        <4> HIDE DEF Met
        <4>1. CASE e.s = s
          BY <3>2, <3>3, <3>4, <3>9, <3>10, <4>1
        <4>2. CASE e.s # s
          BY <3>2, <3>3, <3>4, <3>6, <3>8, <3>9, <3>10, <4>2
        <4>. QED
          BY <4>1, <4>2
      <3> HIDE DEF Met
      <3>. QED
        BY <3>1, <3>11
    <2>3. n \in Good
      <3> HIDE DEF Good
      <3>1. \A k \in 0..n : k \in Good
        BY <2>1, <2>2, UpwardTo
      <3>. QED
        BY <3>1
    <2>4. x \in Range(g[n]) <=> Met(n)
      BY <2>3
    <2>5. x \in Range(q) <=> \E i \in 1..n : q[i] = x
      BY <1>1 DEF Range
    <2>. QED
      BY <2>4, <2>5
  <1>6. ASSUME NEW r, NEW a, NEW b, r # s, Leads(q, r, a, b) PROVE Leads(g[n], r, a, b)
    <2>1. PICK f : Way(q, r, a, b, f)
      BY <1>6 DEF Leads
    <2>2. f \in [0..n -> Nat] /\ f[0] = a /\ f[n] = b /\ \A k \in 1..n : Moves(q[k], r, f[k - 1], f[k])
      BY <1>1, <2>1 DEF Way
    <2> DEFINE Good == {k \in 0..n : Leads(g[k], r, a, f[k])}
    <2>3. 0 \in Good
      <3>1. a \in Nat
        BY <2>2
      <3>2. Leads(<<>>, r, a, a)
        BY <3>1, LeadsNowhere
      <3>. QED
        BY <1>2, <2>2, <3>2
    <2>4. ASSUME NEW k \in 0..n - 1, k \in Good PROVE k + 1 \in Good
      <3>1. k + 1 \in 1..n /\ (k + 1) - 1 = k /\ k + 1 \in 0..n /\ k \in 0..n /\ Leads(g[k], r, a, f[k])
        BY <2>4
      <3>2. PICK e \in Entries : e = q[k + 1]
        BY <1>3, <3>1
      <3>3. g[k + 1] = IF e.s = s THEN g[k] ELSE Append(g[k], e)
        BY <1>2, <3>1, <3>2
      <3>4. Moves(e, r, f[k], f[k + 1]) /\ f[k + 1] \in Nat /\ g[k] \in Seq(Entries)
        BY <1>4, <2>2, <3>1, <3>2
      <3>5. Leads(g[k + 1], r, a, f[k + 1])
        <4>1. CASE e.s = s
          <5>1. f[k + 1] = f[k]
            BY <1>6, <3>4, <4>1 DEF Moves, PieceOf
          <5>. QED
            BY <3>1, <3>3, <4>1, <5>1
        <4>2. CASE e.s # s
          <5>1. Leads(Append(g[k], e), r, a, f[k + 1])
            BY <3>1, <3>4, LeadsOn
          <5>. QED
            BY <3>3, <4>2, <5>1
        <4>. QED
          BY <4>1, <4>2
      <3>. QED
        BY <3>1, <3>5
    <2>5. n \in Good
      <3> HIDE DEF Good
      <3>1. \A k \in 0..n : k \in Good
        BY <2>3, <2>4, UpwardTo
      <3>. QED
        BY <3>1
    <2>. QED
      BY <2>2, <2>5
  <1>7. n \in 0..n
    OBVIOUS
  <1>. QED
    BY <1>2, <1>4, <1>5, <1>6, <1>7

\* A queue with nothing of the stream leads from each byte to itself.
LEMMA LeadsStill ==
  ASSUME NEW q \in Seq(Entries), NEW s, NEW a \in Nat, \A i \in DOMAIN q : ~PieceOf(q[i], s)
  PROVE  Leads(q, s, a, a)
  <1>1. PICK n \in Nat : n = Len(q) /\ DOMAIN q = 1..n
    OBVIOUS
  <1>2. PICK f : f = [k \in 0..n |-> a]
    OBVIOUS
  <1>3. f \in [0..n -> Nat] /\ \A k \in 0..n : f[k] = a
    BY <1>2
  <1>4. ASSUME NEW k \in 1..n PROVE Moves(q[k], s, f[k - 1], f[k])
    <2>1. k - 1 \in 0..n /\ k \in 0..n
      OBVIOUS
    <2>. QED
      BY <1>1, <1>3, <2>1 DEF Moves
  <1>5. f[0] = a /\ f[n] = a
    BY <1>3
  <1>6. Way(q, s, a, a, f)
    BY <1>1, <1>3, <1>4, <1>5 DEF Way
  <1>. QED
    BY <1>6 DEF Leads

\* Two sums over what has nothing in common, in one.
LEMMA SumSplits ==
  ASSUME NEW w, NEW S, Weighs(w, S), NEW Q \in SUBSET S
  PROVE  \A R \in SUBSET S : R \cap Q = {} => Sums(w, S)[R \cup Q] = Sums(w, S)[R] + Sums(w, S)[Q]
  <1> DEFINE B == {R \in SUBSET S : R \cap Q = {} /\ Sums(w, S)[R \cup Q] # Sums(w, S)[R] + Sums(w, S)[Q]}
  <1> SUFFICES ASSUME B # {} PROVE FALSE
    OBVIOUS
  <1>0. IsFiniteSet(S) /\ \A x \in S : w[x] \in Int
    BY DEF Weighs
  <1>1. PICK R \in B : \A u \in B : u \subseteq R => u = R
    <2>1. B \subseteq SUBSET S
      OBVIOUS
    <2> HIDE DEF B
    <2>. QED
      BY <1>0, <2>1, LeastOfSets
  <1>2. R \in SUBSET S /\ R \cap Q = {} /\ Sums(w, S)[R \cup Q] # Sums(w, S)[R] + Sums(w, S)[Q]
    OBVIOUS
  <1>3. \A u \in SUBSET S : Sums(w, S)[u] \in Int
    BY <1>0, SumIsInt
  <1>4. Sums(w, S)[{}] = 0
    <2>1. PICK s \in SUBSET S : s = {}
      OBVIOUS
    <2>2. Sums(w, S)[s] = 0
      <3>1. IsFiniteSet(S)
        BY <1>0
      <3>2. SumsUp(w, S)
        BY <3>1, SumSteps
      <3>. QED
        BY <2>1, <3>2 DEF SumsUp
    <2>. QED
      BY <2>1, <2>2
  <1>5. R # {}
    <2> SUFFICES ASSUME R = {} PROVE FALSE
      OBVIOUS
    <2>1. R \cup Q = Q
      OBVIOUS
    <2>2. Sums(w, S)[Q] \in Int
      BY <1>3
    <2>. QED
      BY <1>2, <1>4, <2>1, <2>2
  <1>6. PICK x : x \in R
    BY <1>5
  <1>7. PICK P \in SUBSET S : P = R \ {x}
    BY <1>2
  <1>8. P \cap Q = {} /\ P \subseteq R /\ P # R /\ (R \cup Q) \ {x} = P \cup Q /\ x \in R \cup Q /\ R \cup Q \in SUBSET S
    BY <1>2, <1>6, <1>7
  <1>9. Sums(w, S)[P \cup Q] = Sums(w, S)[P] + Sums(w, S)[Q]
    BY <1>1, <1>8
  <1>10. Lessens(w, S)
    BY SumLessens
  <1>11. Sums(w, S)[R] = w[x] + Sums(w, S)[P]
    BY <1>2, <1>6, <1>7, <1>10 DEF Lessens
  <1>12. Sums(w, S)[R \cup Q] = w[x] + Sums(w, S)[P \cup Q]
    BY <1>8, <1>10 DEF Lessens
  <1>13. w[x] \in Int /\ Sums(w, S)[P] \in Int /\ Sums(w, S)[Q] \in Int
    BY <1>0, <1>2, <1>3, <1>6
  <1>. QED
    BY <1>2, <1>9, <1>11, <1>12, <1>13

-----------------------------------------------------------------------------
(* Packets on record: p is a function from numbers to packets.             *)

PacketShapes == [frames : SUBSET SentFrames, size : Nat, out : BOOLEAN]
Packets(p, top) ==
  /\ p \in [DOMAIN p -> PacketShapes]
  /\ \A n \in DOMAIN p : n \in 1..top /\ p[n].size = SizeOf(p[n].frames) /\ IsFiniteSet(p[n].frames)
FlightOf(p, R) == SumFunctionOnSet([n \in R |-> FlightSize(p[n])], R)
FramesIn(p, R) == UNION {p[n].frames : n \in R}

LEMMA PacketsAre ==
  ASSUME NEW p, NEW top \in Nat, Packets(p, top)
  PROVE  /\ IsFiniteSet(DOMAIN p)
         /\ \A n \in DOMAIN p : /\ n \in 1..top /\ p[n] \in PacketShapes /\ p[n].frames \subseteq SentFrames
                                /\ p[n].size \in Nat /\ FlightSize(p[n]) \in Nat
  <1>1. \A n \in DOMAIN p : n \in 1..top /\ p[n] \in PacketShapes
    BY DEF Packets
  <1>2. IsFiniteSet(DOMAIN p)
    <2>1. DOMAIN p \subseteq 1..top /\ IsFiniteSet(1..top)
      BY <1>1, FS_Interval
    <2>. QED
      BY <2>1, FS_Subset
  <1>. QED
    BY <1>1, <1>2 DEF PacketShapes, FlightSize

\* The summands of the packets on record.
FlightsOf(p) == [n \in DOMAIN p |-> FlightSize(p[n])]

LEMMA FlightIs ==
  ASSUME NEW p, NEW top \in Nat, Packets(p, top)
  PROVE  /\ Weighs(FlightsOf(p), DOMAIN p)
         /\ \A R \in SUBSET DOMAIN p : FlightOf(p, R) = Sums(FlightsOf(p), DOMAIN p)[R] /\ FlightOf(p, R) \in Nat
  <1>1. IsFiniteSet(DOMAIN p) /\ \A n \in DOMAIN p : FlightSize(p[n]) \in Nat
    BY PacketsAre
  <1>2. PICK v : v = FlightsOf(p)
    OBVIOUS
  <1>3. \A n \in DOMAIN p : v[n] = FlightSize(p[n]) /\ v[n] \in Nat
    BY <1>1, <1>2 DEF FlightsOf
  <1>4. Weighs(v, DOMAIN p)
    BY <1>1, <1>3 DEF Weighs
  <1>5. ASSUME NEW R \in SUBSET DOMAIN p
        PROVE  FlightOf(p, R) = Sums(v, DOMAIN p)[R] /\ FlightOf(p, R) \in Nat
    <2>1. PICK w : w = [n \in R |-> FlightSize(p[n])]
      OBVIOUS
    <2>2. \A n \in R : w[n] = v[n]
      BY <1>3, <2>1
    <2>3. SumFunctionOnSet(w, R) = Sums(v, DOMAIN p)[R]
      BY <1>1, <2>2, SumPart
    <2>4. Sums(v, DOMAIN p)[R] \in Nat
      BY <1>1, <1>3, SumBounds
    <2>. QED
      BY <2>1, <2>3, <2>4 DEF FlightOf
  <1>. QED
    BY <1>2, <1>4, <1>5

\* What is taken off the record is taken off its weight.
LEMMA FlightLess ==
  ASSUME NEW p, NEW top \in Nat, Packets(p, top), NEW A \in SUBSET DOMAIN p, NEW R \in SUBSET A
  PROVE  FlightOf(p, A \ R) = FlightOf(p, A) - FlightOf(p, R)
  <1>1. PICK v : v = FlightsOf(p)
    OBVIOUS
  <1>2. Weighs(v, DOMAIN p)
    BY <1>1, FlightIs
  <1>3. R \in SUBSET DOMAIN p /\ A \ R \in SUBSET DOMAIN p /\ (A \ R) \cap R = {} /\ (A \ R) \cup R = A
    OBVIOUS
  <1>4. Sums(v, DOMAIN p)[A] = Sums(v, DOMAIN p)[A \ R] + Sums(v, DOMAIN p)[R]
    BY <1>2, <1>3, SumSplits
  <1>5. /\ FlightOf(p, A) = Sums(v, DOMAIN p)[A] /\ FlightOf(p, R) = Sums(v, DOMAIN p)[R]
        /\ FlightOf(p, A \ R) = Sums(v, DOMAIN p)[A \ R]
        /\ FlightOf(p, A) \in Nat /\ FlightOf(p, R) \in Nat /\ FlightOf(p, A \ R) \in Nat
    BY <1>1, <1>3, FlightIs
  <1>. QED
    BY <1>4, <1>5

\* What stays on record weighs what it weighed.
LEMMA FlightStays ==
  ASSUME NEW p, NEW top \in Nat, Packets(p, top), NEW R \in SUBSET DOMAIN p, NEW q, NEW up \in Nat, Packets(q, up),
         R \subseteq DOMAIN q, \A n \in R : q[n] = p[n]
  PROVE  FlightOf(q, R) = FlightOf(p, R)
  <1>1. [n \in R |-> FlightSize(q[n])] = [n \in R |-> FlightSize(p[n])]
    OBVIOUS
  <1>. QED
    BY <1>1 DEF FlightOf

\* The length of what is put into a packet.
LEMMA SizeIs ==
  ASSUME NEW frames \in SUBSET SentFrames, IsFiniteSet(frames)
  PROVE  SizeOf(frames) \in Nat
  <1>1. PICK w : w = [f \in frames |-> LengthOf(f)]
    OBVIOUS
  <1>2. \A f \in frames : LengthOf(f) \in Nat
    BY DEF SentFrames, LengthOf, Carries, OtherFrame
  <1>3. \A f \in frames : w[f] \in Nat
    BY <1>1, <1>2
  <1>4. frames \in SUBSET frames
    OBVIOUS
  <1>5. SumFunctionOnSet(w, frames) \in Nat
    BY <1>3, <1>4, SumBounds, SumIs
  <1>. QED
    BY <1>1, <1>5, SenderConstants DEF SizeOf

\* A packet more.
LEMMA PacketMore ==
  ASSUME NEW p, NEW top \in Nat, Packets(p, top), NEW kept \in SUBSET DOMAIN p,
         NEW frames \in SUBSET SentFrames, IsFiniteSet(frames), NEW goes \in BOOLEAN,
         NEW packet, packet = [frames |-> frames, size |-> SizeOf(frames), out |-> goes],
         NEW q, q = [n \in kept \cup {top + 1} |-> IF n = top + 1 THEN packet ELSE p[n]]
  PROVE  /\ Packets(q, top + 1) /\ DOMAIN q = kept \cup {top + 1}
         /\ q[top + 1] = packet /\ \A n \in kept : q[n] = p[n] /\ n # top + 1
         /\ FlightSize(packet) \in Nat
         /\ FlightOf(q, DOMAIN q) = FlightOf(p, kept) + FlightSize(packet)
         /\ FramesIn(q, DOMAIN q) = FramesIn(p, kept) \cup frames
  <1>1. \A n \in DOMAIN p : n \in 1..top /\ p[n] \in PacketShapes /\ p[n].size = SizeOf(p[n].frames) /\ IsFiniteSet(p[n].frames)
    BY DEF Packets
  <1>2. SizeOf(frames) \in Nat
    BY SizeIs
  <1>3. packet \in PacketShapes /\ packet.frames = frames /\ packet.size = SizeOf(frames)
    BY <1>2 DEF PacketShapes
  <1>4. \A n \in kept : n # top + 1 /\ n \in 1..top
    BY <1>1
  <1>5. DOMAIN q = kept \cup {top + 1} /\ q[top + 1] = packet /\ \A n \in kept : q[n] = p[n]
    BY <1>4
  <1>6. Packets(q, top + 1)
    <2>1. \A n \in DOMAIN q : q[n] \in PacketShapes
      BY <1>1, <1>3, <1>5
    <2>2. ASSUME NEW n \in DOMAIN q PROVE n \in 1..top + 1 /\ q[n].size = SizeOf(q[n].frames) /\ IsFiniteSet(q[n].frames)
      <3>1. CASE n = top + 1
        BY <1>3, <1>5, <3>1
      <3>2. CASE n \in kept
        <4>1. n \in 1..top /\ q[n] = p[n]
          BY <1>4, <1>5, <3>2
        <4>. QED
          BY <1>1, <3>2, <4>1
      <3>. QED
        BY <1>5, <3>1, <3>2
    <2>3. q \in [DOMAIN q -> PacketShapes]
      <3>1. q = [n \in DOMAIN q |-> q[n]]
        OBVIOUS
      <3>. QED
        BY <2>1, <3>1
    <2>. QED
      BY <2>2, <2>3 DEF Packets
  <1>7. FlightSize(packet) \in Nat
    BY <1>2, <1>3 DEF FlightSize
  <1>8. FlightOf(q, DOMAIN q) = FlightOf(p, kept) + FlightSize(packet)
    <2>1. PICK v : v = FlightsOf(q)
      OBVIOUS
    <2>2. Weighs(v, DOMAIN q) /\ top + 1 \in Nat
      BY <1>6, <2>1, FlightIs
    <2>3. top + 1 \in DOMAIN q /\ DOMAIN q \in SUBSET DOMAIN q /\ DOMAIN q \ {top + 1} = kept /\ kept \in SUBSET DOMAIN q
      BY <1>4, <1>5
    <2>4. Lessens(v, DOMAIN q)
      BY <2>2, SumLessens
    <2>5. Sums(v, DOMAIN q)[DOMAIN q] = v[top + 1] + Sums(v, DOMAIN q)[DOMAIN q \ {top + 1}]
      <3>1. PICK D : D = DOMAIN q
        OBVIOUS
      <3>2. PICK x : x = top + 1
        OBVIOUS
      <3>3. D \in SUBSET D /\ x \in D /\ Lessens(v, D)
        BY <2>3, <2>4, <3>1, <3>2
      <3>4. Sums(v, D)[D] = v[x] + Sums(v, D)[D \ {x}]
        BY <3>3, Zenon DEF Lessens
      <3>. QED
        BY <3>1, <3>2, <3>4
    <2>6. v[top + 1] = FlightSize(packet)
      BY <1>5, <2>1, <2>3 DEF FlightsOf
    <2>7. FlightOf(q, DOMAIN q) = Sums(v, DOMAIN q)[DOMAIN q] /\ FlightOf(q, kept) = Sums(v, DOMAIN q)[kept]
          /\ FlightOf(q, kept) \in Nat
      BY <1>6, <2>1, <2>2, <2>3, FlightIs
    <2>8. FlightOf(q, kept) = FlightOf(p, kept)
      BY <1>5, <1>6, <2>2, <2>3, FlightStays
    <2>9. FlightOf(q, DOMAIN q) = FlightSize(packet) + FlightOf(p, kept)
      <3>1. Sums(v, DOMAIN q)[DOMAIN q \ {top + 1}] = FlightOf(p, kept)
        BY <2>3, <2>7, <2>8
      <3>. QED
        BY <2>5, <2>6, <2>7, <3>1
    <2>10. FlightOf(p, kept) \in Nat
      BY <2>7, <2>8
    <2>. QED
      BY <1>7, <2>9, <2>10
  <1>9. FramesIn(q, DOMAIN q) = FramesIn(p, kept) \cup frames
    <2>1. \A n \in kept : q[n].frames = p[n].frames
      BY <1>5
    <2>2. q[top + 1].frames = frames
      BY <1>3, <1>5
    <2>3. FramesIn(q, DOMAIN q) = FramesIn(q, kept) \cup q[top + 1].frames
      <3>1. PICK x : x = top + 1
        OBVIOUS
      <3>2. DOMAIN q = kept \cup {x}
        BY <1>5, <3>1
      <3>3. FramesIn(q, DOMAIN q) = FramesIn(q, kept) \cup q[x].frames
        BY <3>2 DEF FramesIn
      <3>. QED
        BY <3>1, <3>3
    <2>4. FramesIn(q, kept) = FramesIn(p, kept)
      BY <2>1 DEF FramesIn
    <2>. QED
      BY <2>2, <2>3, <2>4
  <1>. QED
    BY <1>4, <1>5, <1>6, <1>7, <1>8, <1>9

\* Packets taken off.
LEMMA PacketsLess ==
  ASSUME NEW p, NEW top \in Nat, Packets(p, top), NEW kept \in SUBSET DOMAIN p, NEW q, q = [n \in kept |-> p[n]]
  PROVE  /\ Packets(q, top) /\ DOMAIN q = kept /\ \A n \in kept : q[n] = p[n]
         /\ FlightOf(q, DOMAIN q) = FlightOf(p, kept) /\ FramesIn(q, DOMAIN q) = FramesIn(p, kept)
  <1>1. DOMAIN q = kept /\ \A n \in kept : q[n] = p[n]
    OBVIOUS
  <1>2. \A n \in DOMAIN p : n \in 1..top /\ p[n] \in PacketShapes /\ p[n].size = SizeOf(p[n].frames) /\ IsFiniteSet(p[n].frames)
    BY DEF Packets
  <1>3. q \in [DOMAIN q -> PacketShapes]
    BY <1>1, <1>2
  <1>4. Packets(q, top)
    <2>1. \A n \in DOMAIN q : n \in DOMAIN p /\ q[n] = p[n]
      BY <1>1
    <2>. QED
      BY <1>2, <1>3, <2>1 DEF Packets
  <1>5. FlightOf(q, kept) = FlightOf(p, kept)
    BY <1>1, <1>4, FlightStays
  <1>. QED
    BY <1>1, <1>4, <1>5 DEF FramesIn

-----------------------------------------------------------------------------
(* The congestion window grows with what is acknowledged.                  *)

LEMMA QuotientIsNat ==
  ASSUME NEW a \in Nat, NEW b \in Nat, NEW c \in Nat, c > 0
  PROVE  (a * b) \div c \in Nat
  <1>1. a * b \in Nat
    OBVIOUS
  <1>2. PICK m \in Nat : m = a * b
    BY <1>1
  <1>3. m \div c \in Nat
    OBVIOUS
  <1>. QED
    BY <1>2, <1>3

LEMMA GrownIs ==
  ASSUME NEW x \in Nat, NEW p, p.size \in Nat
  PROVE  Grown(x, p) \in Nat /\ Grown(x, p) >= x
  <1>1. 2 * Largest(1, x) \in Nat /\ 2 * Largest(1, x) > 0 /\ MinimumWindow \in Nat
    BY SenderConstants DEF Largest
  <1>2. PICK m \in Nat : m = (MinimumWindow * p.size) \div (2 * Largest(1, x))
    <2>1. (MinimumWindow * p.size) \div (2 * Largest(1, x)) \in Nat
      BY <1>1, QuotientIsNat
    <2>. QED
      BY <2>1
  <1>3. Grown(x, p) = x + p.size \/ Grown(x, p) = x + m
    BY <1>2 DEF Grown
  <1>. QED
    BY <1>3

LEMMA GrowIs ==
  ASSUME NEW top \in Nat, Packets(sent, top), NEW numbers \in SUBSET DOMAIN sent, NEW w \in Nat
  PROVE  Grow(w, numbers) \in Nat /\ Grow(w, numbers) >= w
  <1>0. /\ IsFiniteSet(DOMAIN sent)
        /\ \A n \in DOMAIN sent : n \in 1..top /\ sent[n].size \in Nat
    BY PacketsAre
  <1>1. numbers \subseteq 0..top /\ IsFiniteSet(numbers)
    <2>1. \A n \in 1..top : n \in 0..top
      OBVIOUS
    <2>. QED
      BY <1>0, <2>1, FS_Subset
  <1> DEFINE It == CHOOSE f : f = [S \in SUBSET numbers |->
                     IF S = {} THEN w ELSE GrownBy(f[S \ {Max(S)}], Max(S))]
  <1>2. PICK of : of = <<"grow">>
    OBVIOUS
  <1>3. of[1] = "grow" /\ of[1] # "downwards" /\ of[1] # "without"
    BY <1>2
  <1>4. \A S : Outermost(of, S) = Max(S)
    BY <1>3 DEF Outermost
  <1>5. \A m, x : Adds(of, m, x) = GrownBy(x, m)
    BY <1>3 DEF Adds
  <1>6. \E f : f = [S \in SUBSET numbers |-> IF S = {} THEN w ELSE GrownBy(f[S \ {Max(S)}], Max(S))]
    <2>2. PICK f : IsFold(of, w, numbers, f)
      BY <1>1, FoldExists
    <2> DEFINE One(S) == IF S = {} THEN w ELSE Adds(of, Outermost(of, S), f[S \ {Outermost(of, S)}])
               Two(S) == IF S = {} THEN w ELSE GrownBy(f[S \ {Max(S)}], Max(S))
    <2>3. f = [S \in SUBSET numbers |-> One(S)]
      BY <2>2 DEF IsFold
    <2>4. ASSUME NEW S PROVE One(S) = Two(S)
      <3>1. Outermost(of, S) = Max(S)
        BY <1>4
      <3>2. Adds(of, Max(S), f[S \ {Max(S)}]) = GrownBy(f[S \ {Max(S)}], Max(S))
        BY <1>5
      <3>. QED
        BY <3>1, <3>2
    <2>5. f = [S \in SUBSET numbers |-> Two(S)]
      <3> HIDE DEF One, Two
      <3>. QED
        BY <2>3, <2>4
    <2>. QED
      BY <2>5
  <1>7. It = [S \in SUBSET numbers |-> IF S = {} THEN w ELSE GrownBy(It[S \ {Max(S)}], Max(S))]
    BY <1>6
  <1>8. Grow(w, numbers) = It[numbers]
    BY DEF Grow, MapThenFoldSet
  <1>9. PICK f : f = It
    OBVIOUS
  <1> HIDE DEF It
  <1> DEFINE Step(S) == IF S = {} THEN w ELSE GrownBy(f[S \ {Max(S)}], Max(S))
  <1>10. f = [S \in SUBSET numbers |-> Step(S)]
    BY <1>7, <1>9
  <1>11. \A S \in SUBSET numbers : f[S] = Step(S)
    <2> HIDE DEF Step
    <2>. QED
      BY <1>10
  <1> DEFINE B == {S \in SUBSET numbers : ~(f[S] \in Nat /\ f[S] >= w)}
  <1>12. B = {}
    <2> SUFFICES ASSUME B # {} PROVE FALSE
      OBVIOUS
    <2>1. PICK S \in B : \A u \in B : u \subseteq S => u = S
      <3>1. B \subseteq SUBSET numbers
        OBVIOUS
      <3> HIDE DEF B
      <3>. QED
        BY <1>1, <3>1, LeastOfSets
    <2>2. S \in SUBSET numbers /\ ~(f[S] \in Nat /\ f[S] >= w) /\ f[S] = Step(S)
      <3> HIDE DEF Step
      <3>. QED
        BY <1>11
    <2>3. S # {}
      BY <2>2
    <2>4. PICK m : m = Max(S) /\ m \in S
      <3>1. S \subseteq 0..top
        BY <1>1
      <3>. QED
        BY <2>3, <3>1, MaxIs
    <2>5. PICK u \in SUBSET numbers : u = S \ {m}
      BY <2>2
    <2>6. u \notin B
      <3>1. u \subseteq S /\ u # S
        BY <2>4, <2>5
      <3> HIDE DEF B
      <3>. QED
        BY <2>1, <3>1
    <2>7. f[u] \in Nat /\ f[u] >= w
      BY <2>6
    <2>8. f[S] = GrownBy(f[u], m)
      BY <2>2, <2>3, <2>4, <2>5
    <2>9. GrownBy(f[u], m) \in Nat /\ GrownBy(f[u], m) >= f[u]
      <3>1. sent[m].size \in Nat
        BY <1>0, <2>2, <2>4
      <3>2. Grown(f[u], sent[m]) \in Nat /\ Grown(f[u], sent[m]) >= f[u]
        BY <2>7, <3>1, GrownIs
      <3>. QED
        BY <2>7, <3>2 DEF GrownBy
    <2> HIDE DEF Step, B
    <2>. QED
      BY <2>2, <2>7, <2>8, <2>9
  <1>13. numbers \in SUBSET numbers /\ numbers \notin B
    BY <1>12
  <1>14. f[numbers] \in Nat /\ f[numbers] >= w
    BY <1>13
  <1>. QED
    BY <1>8, <1>9, <1>14

-----------------------------------------------------------------------------
(* What an ACK says.                                                       *)

LEMMA DownwardsIs ==
  ASSUME NEW top \in Nat, NEW T \in SUBSET (0..top), T # {}
  PROVE  Downwards(T) \in Seq(T) /\ Len(Downwards(T)) >= 1 /\ Downwards(T)[1] = Max(T)
  <1>0. IsFiniteSet(T)
    <2>1. IsFiniteSet(0..top)
      BY FS_Interval
    <2>. QED
      BY <2>1, FS_Subset
  <1> DEFINE It == CHOOSE f : f = [S \in SUBSET T |-> IF S = {} THEN <<>> ELSE Append(f[S \ {Min(S)}], Min(S))]
  <1>2. PICK of : of = <<"downwards">>
    OBVIOUS
  <1>3. of[1] # "grow" /\ of[1] = "downwards" /\ of[1] # "without"
    BY <1>2
  <1>4. \A S : Outermost(of, S) = Min(S)
    BY <1>3 DEF Outermost
  <1>5. \A m, x : Adds(of, m, x) = Append(x, m)
    BY <1>3 DEF Adds
  <1>6. \E f : f = [S \in SUBSET T |-> IF S = {} THEN <<>> ELSE Append(f[S \ {Min(S)}], Min(S))]
    <2>2. PICK f : IsFold(of, <<>>, T, f)
      BY FoldExists
    <2> DEFINE One(S) == IF S = {} THEN <<>> ELSE Adds(of, Outermost(of, S), f[S \ {Outermost(of, S)}])
               Two(S) == IF S = {} THEN <<>> ELSE Append(f[S \ {Min(S)}], Min(S))
    <2>3. f = [S \in SUBSET T |-> One(S)]
      BY <2>2 DEF IsFold
    <2>4. ASSUME NEW S PROVE One(S) = Two(S)
      <3>1. Outermost(of, S) = Min(S)
        BY <1>4
      <3>2. Adds(of, Min(S), f[S \ {Min(S)}]) = Append(f[S \ {Min(S)}], Min(S))
        BY <1>5, Zenon
      <3>. QED
        BY <3>1, <3>2
    <2>5. f = [S \in SUBSET T |-> Two(S)]
      <3> HIDE DEF One, Two
      <3>. QED
        BY <2>3, <2>4, Zenon
    <2>. QED
      BY <2>5
  <1>7. It = [S \in SUBSET T |-> IF S = {} THEN <<>> ELSE Append(It[S \ {Min(S)}], Min(S))]
    BY <1>6
  <1>8. Downwards(T) = It[T]
    BY DEF Downwards, MapThenFoldSet
  <1>9. PICK f : f = It
    OBVIOUS
  <1> HIDE DEF It
  <1> DEFINE Step(S) == IF S = {} THEN <<>> ELSE Append(f[S \ {Min(S)}], Min(S))
  <1>10. f = [S \in SUBSET T |-> Step(S)]
    BY <1>7, <1>9
  <1>11. \A S \in SUBSET T : f[S] = Step(S)
    <2> HIDE DEF Step
    <2>. QED
      BY <1>10
  <1> DEFINE First(S) == Len(f[S]) >= 1 /\ f[S][1] = Max(S)
             B == {S \in SUBSET T : ~(f[S] \in Seq(T) /\ (S # {} => First(S)))}
  <1>12. B = {}
    <2> SUFFICES ASSUME B # {} PROVE FALSE
      OBVIOUS
    <2>1. PICK S \in B : \A u \in B : u \subseteq S => u = S
      <3>1. PICK D : D = T
        OBVIOUS
      <3>2. IsFiniteSet(D) /\ B \subseteq SUBSET D
        BY <1>0, <3>1
      <3> HIDE DEF B
      <3>. QED
        BY <3>2, LeastOfSets
    <2>2. S \in SUBSET T /\ ~(f[S] \in Seq(T) /\ (S # {} => First(S))) /\ f[S] = Step(S)
      <3> HIDE DEF Step, First
      <3>. QED
        BY <1>11
    <2>3. S # {}
      <3> SUFFICES ASSUME S = {} PROVE FALSE
        OBVIOUS
      <3>1. f[S] = <<>> /\ <<>> \in Seq(T)
        BY <2>2
      <3> HIDE DEF First, Step
      <3>. QED
        BY <2>2, <3>1
    <2>4. S \subseteq 0..top /\ S \subseteq Nat
      OBVIOUS
    <2>5. PICK m : m = Min(S) /\ m \in S /\ \A y \in S : m <= y
      BY <2>3, <2>4, MinIs
    <2>6. PICK u \in SUBSET T : u = S \ {m}
      BY <2>2
    <2>7. u \notin B
      <3>1. u \subseteq S /\ u # S
        BY <2>5, <2>6
      <3> HIDE DEF B
      <3>. QED
        BY <2>1, <3>1
    <2>8. f[u] \in Seq(T) /\ (u # {} => First(u))
      <3> HIDE DEF First
      <3>. QED
        BY <2>7
    <2>9. f[S] = Append(f[u], m)
      BY <2>2, <2>3, <2>5, <2>6
    <2>10. PICK old \in Seq(T) : old = f[u]
      BY <2>8
    <2>11. PICK k \in Nat : k = Len(old)
      OBVIOUS
    <2>12. f[S] \in Seq(T) /\ Len(f[S]) = k + 1 /\ f[S][k + 1] = m /\ \A i \in 1..k : f[S][i] = old[i]
      <3>1. PICK new : new = Append(old, m)
        OBVIOUS
      <3>2. m \in T
        BY <2>2, <2>5
      <3>3. new \in Seq(T) /\ Len(new) = k + 1 /\ new[k + 1] = m /\ \A i \in 1..k : new[i] = old[i]
        BY <2>11, <3>1, <3>2
      <3>4. f[S] = new
        BY <2>9, <2>10, <3>1
      <3>. QED
        BY <3>3, <3>4
    <2>13. First(S)
      <3>1. PICK top1 : top1 = Max(S) /\ top1 \in S /\ \A y \in S : top1 >= y
        BY <2>3, <2>4, MaxIs
      <3>2. CASE u = {}
        <4>1. f[u] = Step(u)
          <5> HIDE DEF Step
          <5>. QED
            BY <1>11, <2>6
        <4>2. k = 0
          BY <2>10, <2>11, <3>2, <4>1
        <4>3. top1 = m
          BY <2>6, <3>1, <3>2
        <4>. QED
          BY <2>12, <3>1, <4>2, <4>3
      <3>3. CASE u # {}
        <4>1. k >= 1 /\ old[1] = Max(u)
          BY <2>8, <2>10, <2>11, <3>3
        <4>2. PICK t : t = Max(u) /\ t \in u /\ \A y \in u : t >= y
          <5>1. u \subseteq 0..top
            BY <2>4, <2>6
          <5>. QED
            BY <3>3, <5>1, MaxIs
        <4>3. t = top1
          <5>1. t \in Nat /\ top1 \in Nat /\ m \in Nat /\ t \in S /\ t # m
            BY <2>4, <2>5, <2>6, <3>1, <4>2
          <5>2. top1 >= t /\ m <= t
            BY <2>5, <3>1, <5>1
          <5>3. top1 # m
            BY <5>1, <5>2
          <5>4. t >= top1
            BY <2>6, <3>1, <4>2, <5>3
          <5>. QED
            BY <5>1, <5>2, <5>4
        <4>4. f[S][1] = old[1]
          BY <2>11, <2>12, <4>1
        <4>5. Len(f[S]) >= 1
          BY <2>11, <2>12
        <4>. QED
          BY <3>1, <4>1, <4>2, <4>3, <4>4, <4>5
      <3>. QED
        BY <3>2, <3>3
    <2> HIDE DEF First, Step, B
    <2>. QED
      BY <2>2, <2>12, <2>13
  <1>13. T \in SUBSET T /\ T \notin B
    BY <1>12
  <1>14. f[T] \in Seq(T) /\ First(T)
    <2> HIDE DEF First
    <2>. QED
      BY <1>13
  <1>. QED
    BY <1>8, <1>9, <1>14

\* Every packet the ACK names has arrived.
LEMMA AckNamesWhatArrived ==
  ASSUME NEW S, S \subseteq 1..MaxPackets, S # {}
  PROVE  AcknowledgedNumbers(AckRanges(S)) \subseteq S
  <1>0. MaxPackets \in Nat
    BY SenderConstants
  <1>1. S \subseteq 0..MaxPackets
    BY <1>0
  <1>2. PICK max : max = Max(S) /\ max \in S /\ \A y \in S : max >= y
    BY <1>0, <1>1, MaxIs
  <1>3. PICK T : T = {n \in S : n + 1 \notin S}
    OBVIOUS
  <1>4. T \subseteq 0..MaxPackets /\ T \subseteq S /\ max \in T
    <2>1. max \in Nat /\ ~(max >= max + 1)
      BY <1>1, <1>2
    <2>2. max + 1 \notin S
      BY <1>2, <2>1
    <2>. QED
      BY <1>1, <1>2, <1>3, <2>2
  <1>5. Max(T) = max
    <2>1. PICK t : t = Max(T) /\ t \in T /\ \A y \in T : t >= y
      BY <1>0, <1>4, MaxIs
    <2>2. t \in Nat /\ max \in Nat /\ t >= max /\ max >= t
      BY <1>1, <1>2, <1>4, <2>1
    <2>. QED
      BY <2>1, <2>2
  <1>6. PICK tops \in Seq(T) : tops = Downwards(T) /\ Len(tops) >= 1 /\ tops[1] = max
    BY <1>0, <1>4, <1>5, DownwardsIs
  <1>7. PICK n \in Nat : n = Len(tops) /\ DOMAIN tops = 1..n /\ n >= 1
    BY <1>6
  <1>8. \A i \in 1..n : tops[i] \in T /\ tops[i] \in S /\ tops[i] \in Nat
    <2>1. \A i \in 1..n : tops[i] \in T
      BY <1>7
    <2>2. \A t \in T : t \in S /\ t \in Nat
      BY <1>1, <1>4
    <2>. QED
      BY <2>1, <2>2
  <1>9. PICK L : L = [i \in 1..n |-> Lowest(S, tops[i])]
    OBVIOUS
  <1>10. ASSUME NEW i \in 1..n PROVE L[i] \in S /\ L[i] \in Nat /\ L[i]..tops[i] \subseteq S
    <2>1. PICK t \in Nat : t = tops[i] /\ t \in S
      BY <1>8
    <2>2. PICK R : R = {m \in S : m..t \subseteq S}
      OBVIOUS
    <2>3. t..t = {t}
      OBVIOUS
    <2>4. t \in R /\ R \subseteq Nat
      <3>1. R \subseteq Nat
        <4>1. R \subseteq S
          BY <2>2
        <4>2. S \subseteq Nat
          BY <1>0, <1>1
        <4>. QED
          BY <4>1, <4>2
      <3>2. t..t \subseteq S
        BY <2>1, <2>3
      <3>. QED
        BY <2>1, <2>2, <3>1, <3>2
    <2>5. Min(R) \in R
      BY <2>4, MinIs
    <2>6. L[i] = Min(R)
      BY <1>9, <2>1, <2>2 DEF Lowest
    <2>. QED
      BY <2>1, <2>2, <2>4, <2>5, <2>6
  <1>11. PICK ack : ack = AckRanges(S)
    OBVIOUS
  <1>12. /\ ack.largest = max /\ DOMAIN ack.ranges = 1..n
         /\ \A i \in 1..n : /\ ack.ranges[i].run = tops[i] - L[i]
                            /\ ack.ranges[i].gap = IF i = 1 THEN 0 ELSE L[i - 1] - tops[i] - 2
    <2>1. ack = [largest |-> max,
                 ranges |-> [i \in 1..n |->
                   [gap |-> IF i = 1 THEN 0 ELSE Lowest(S, tops[i - 1]) - tops[i] - 2,
                    run |-> tops[i] - Lowest(S, tops[i])]]]
      BY <1>2, <1>3, <1>6, <1>7, <1>11 DEF AckRanges
    <2>2. \A i \in 1..n : i # 1 => i - 1 \in 1..n
      OBVIOUS
    <2>3. \A i \in 1..n : Lowest(S, tops[i]) = L[i]
      BY <1>9
    <2>. QED
      BY <2>1, <2>2, <2>3
  <1> DEFINE Next1(l, i) == (IF i = 1 THEN ack.largest ELSE l[i - 1] - ack.ranges[i].gap - 2) - ack.ranges[i].run
             Low == CHOOSE l : l = [i \in DOMAIN ack.ranges |-> Next1(l, i)]
  <1>13. ASSUME NEW i \in 1..n PROVE Next1(L, i) = L[i]
    <2>1. tops[i] \in Nat /\ L[i] \in Nat
      BY <1>8, <1>10
    <2>2. CASE i = 1
      <3>1. ack.largest = tops[i]
        BY <1>6, <1>12, <2>2
      <3>2. ack.ranges[i].run = tops[i] - L[i]
        BY <1>12
      <3>. QED
        BY <2>1, <2>2, <3>1, <3>2
    <2>3. CASE i # 1
      <3>1. i - 1 \in 1..n
        BY <2>3
      <3>2. L[i - 1] \in Nat
        BY <1>10, <3>1
      <3>3. ack.ranges[i].run = tops[i] - L[i] /\ ack.ranges[i].gap = L[i - 1] - tops[i] - 2
        BY <1>12, <2>3
      <3>. QED
        BY <2>1, <2>3, <3>2, <3>3
    <2>. QED
      BY <2>2, <2>3
  <1>14. L = [i \in DOMAIN ack.ranges |-> Next1(L, i)]
    <2>1. L = [i \in 1..n |-> L[i]]
      BY <1>9
    <2> HIDE DEF Next1
    <2>. QED
      BY <1>12, <1>13, <2>1
  <1>15. Low = [i \in DOMAIN ack.ranges |-> Next1(Low, i)]
    <2> HIDE DEF Next1
    <2>. QED
      BY <1>14
  <1>16. AcknowledgedNumbers(ack) = UNION {Low[i]..Low[i] + ack.ranges[i].run : i \in DOMAIN ack.ranges}
    BY DEF AcknowledgedNumbers
  <1>17. PICK low : low = Low
    OBVIOUS
  <1> HIDE DEF Low
  <1>18. \A i \in 1..n : low[i] = Next1(low, i)
    <2> HIDE DEF Next1
    <2>. QED
      BY <1>12, <1>15, <1>17
  <1> DEFINE Good == {k \in 0..n : k = 0 \/ low[k] = L[k]}
  <1>19. \A k \in 1..n : low[k] = L[k]
    <2>1. 0 \in Good
      OBVIOUS
    <2>2. ASSUME NEW k \in 0..n - 1, k \in Good PROVE k + 1 \in Good
      <3>1. k + 1 \in 1..n /\ (k + 1) - 1 = k /\ k + 1 \in 0..n
        OBVIOUS
      <3>2. Next1(low, k + 1) = Next1(L, k + 1)
        <4>1. CASE k = 0
          BY <4>1
        <4>2. CASE k # 0
          <5>1. low[k] = L[k]
            BY <2>2, <4>2
          <5>. QED
            BY <3>1, <5>1
        <4>. QED
          BY <4>1, <4>2
      <3> HIDE DEF Next1
      <3>3. low[k + 1] = L[k + 1]
        BY <1>13, <1>18, <3>1, <3>2
      <3>. QED
        BY <3>1, <3>3
    <2>3. \A k \in 0..n : k \in Good
      <3> HIDE DEF Good
      <3>. QED
        BY <2>1, <2>2, UpwardTo
    <2>4. \A k \in 1..n : k \in 0..n /\ k # 0
      OBVIOUS
    <2>. QED
      BY <2>3, <2>4
  <1> HIDE DEF Next1, Good
  <1>20. ASSUME NEW i \in 1..n PROVE low[i]..low[i] + ack.ranges[i].run \subseteq S
    <2>1. low[i] = L[i] /\ ack.ranges[i].run = tops[i] - L[i] /\ L[i] \in Nat /\ tops[i] \in Nat
      BY <1>8, <1>10, <1>12, <1>19
    <2>2. low[i] + ack.ranges[i].run = tops[i]
      BY <2>1
    <2>. QED
      BY <1>10, <2>1, <2>2
  <1>. QED
    BY <1>11, <1>12, <1>16, <1>17, <1>20

-----------------------------------------------------------------------------
(* QuicSender: the inductive invariant.                                    *)

\* What is queued of a stream leads from the byte sent last to the byte produced
\* last, through what drain_outbound keeps, has taken and has not seen.
Along(s, kept, taken, waiting, from, made) ==
  \E b, c, d : /\ Leads(kept, s, from, b) /\ Leads(taken, s, b, c) /\ Leads(waiting, s, c, d)
               /\ d <= made
               /\ Abandon(s) \notin Range(taken) \cup Range(waiting) => d = made
LineInv == \A s \in SendStreams \ resets : Along(s, keep, batch, outbound, offset[s], produced[s])

\* Between two runs drain_outbound holds nothing; what it keeps is of a stream
\* that is stalled, or anything once it has stopped; whose reset is queued has finished.
RestInv == ~draining => keep = <<>> /\ batch = <<>> /\ control = {} /\ stalled = {} /\ ~stopped
HeldInv == \A e \in Range(keep) : e.kind = "data" /\ (stopped \/ e.s \in stalled)
GivenUpInv ==
  Control \in finished
  /\ \A e \in Range(batch) \cup Range(outbound) : e.kind = "reset" => e.s \in finished \ {Control}

QueueTyped ==
  /\ outbound \in Seq(Entries) /\ batch \in Seq(Entries) /\ keep \in Seq(Entries)
  /\ queuedBytes \in [SendStreams -> Nat] /\ produced \in [SendStreams -> 0..MaxBytes]
  /\ finished \subseteq SendStreams /\ resets \subseteq finished \ {Control} /\ stalled \subseteq SendStreams
  /\ draining \in BOOLEAN /\ stopped \in BOOLEAN
QueueInv == QueueTyped /\ LineInv /\ RestInv /\ HeldInv /\ GivenUpInv

CreditTyped ==
  /\ offset \in [SendStreams -> 0..MaxBytes] /\ total \in Nat /\ reported \in [SendStreams \cup {Absent} -> Nat]
  /\ peerMaxData \in Nat /\ peerStreamMax \in [SendStreams -> Nat]
  /\ control \subseteq SentFrames /\ IsFiniteSet(control) /\ acked \subseteq SentFrames
  /\ \A f \in control : ~Carries(f)
WithinCredit ==
  /\ \A s \in SendStreams : offset[s] <= peerStreamMax[s]
  /\ total = SumFunctionOnSet(offset, SendStreams) /\ total <= peerMaxData
SentInv == CreditTyped /\ WithinCredit

\* What is known says where its bytes belong, and holds the bytes sent, the end
\* of what has finished unless it is still queued, and the resets.
Truthful(f, most) == Carries(f) => f.off = f.from /\ f.off + f.len <= most[f.s]
TruthInv == \A f \in Known : Truthful(f, peerStreamMax)
HasEnd(e, s) == PieceOf(e, s) /\ e.fin
EndInv ==
  \A s \in finished \ {Control} :
    Live(s) => (\E e \in Range(keep) \cup Range(batch) \cup Range(outbound) : HasEnd(e, s)) \/ \E f \in KnownOf(s) : f.fin
Resets(f, s) == f.kind = "reset" /\ f.s = s
ResetInv == \A s \in resets : \E f \in Known \cup control : Resets(f, s)
HasByte(f, b) == b \in f.off..f.off + f.len - 1
BytesInv == \A s \in SendStreams : \A b \in 0..offset[s] - 1 : \E f \in KnownOf(s) : HasByte(f, b)
KnownInv == TruthInv /\ EndInv /\ ResetInv /\ BytesInv

PacketInv ==
  /\ number \in 1..MaxPackets + 1 /\ Packets(sent, number - 1)
  /\ inFlight \in Nat /\ inFlight = FlightOf(sent, DOMAIN sent) /\ budget \in Nat
TimedBy(p, loss, alarm, largest) ==
  /\ (\E n \in DOMAIN p : Eliciting(p[n])) => alarm
  /\ loss <=> \E n \in DOMAIN p : n <= largest
WindowTyped ==
  /\ window \in Nat /\ window >= Smallest(InitialWindow, MinimumWindow) /\ ssthresh \in Nat \cup {Absent}
  /\ recoveryFrom \in 0..number /\ largestAcked \in 0..number - 1
  /\ validated \in BOOLEAN /\ lossTime \in BOOLEAN /\ armed \in BOOLEAN /\ closed \in BOOLEAN /\ arrived \in Nat
RecordInv == PacketInv /\ TimedBy(sent, lossTime, armed, largestAcked) /\ WindowTyped

SenderInv == QueueInv /\ SentInv /\ KnownInv /\ RecordInv

-----------------------------------------------------------------------------
(* It says what the two properties say.                                    *)

LEMMA KnownAre == Known = acked \cup FramesIn(sent, DOMAIN sent)
  BY DEF Known, FramesOf, FramesIn

LEMMA SenderInvTyped ==
  ASSUME SenderInv
  PROVE  SenderTypeOK
  <1>1. \A n \in DOMAIN sent : n \in 1..number - 1 /\ sent[n].size = SizeOf(sent[n].frames)
    BY DEF SenderInv, RecordInv, PacketInv, Packets
  <1>2. sent \in [DOMAIN sent -> [frames : SUBSET SentFrames, size : Nat, out : BOOLEAN]]
    BY DEF SenderInv, RecordInv, PacketInv, Packets, PacketShapes
  <1>3. {outbound, batch, keep} \subseteq Seq(Entries)
        /\ queuedBytes \in [SendStreams -> Nat] /\ produced \in [SendStreams -> 0..MaxBytes]
        /\ finished \subseteq SendStreams /\ resets \subseteq finished \ {Control} /\ stalled \subseteq SendStreams
        /\ draining \in BOOLEAN /\ stopped \in BOOLEAN
    BY DEF SenderInv, QueueInv, QueueTyped
  <1>4. /\ offset \in [SendStreams -> 0..MaxBytes] /\ total \in Nat /\ reported \in [SendStreams \cup {Absent} -> Nat]
        /\ peerMaxData \in Nat /\ peerStreamMax \in [SendStreams -> Nat]
        /\ control \cup acked \subseteq SentFrames
    BY DEF SenderInv, SentInv, CreditTyped
  <1>5. number \in 1..MaxPackets + 1 /\ inFlight \in Nat /\ budget \in Nat
    BY DEF SenderInv, RecordInv, PacketInv
  <1>6. WindowTyped
    BY DEF SenderInv, RecordInv
  <1>7. {draining, stopped, validated, lossTime, armed, closed} \subseteq BOOLEAN
    BY <1>3, <1>6 DEF WindowTyped
  <1>. QED
    BY <1>1, <1>2, <1>3, <1>4, <1>5, <1>6, <1>7 DEF SenderTypeOK, WindowTyped

LEMMA SenderInvQueued ==
  ASSUME SenderInv
  PROVE  QueueContinues /\ CreditRespected
  <1>1. ASSUME NEW s \in SendStreams, Live(s), NEW line, line = keep \o batch \o outbound
        PROVE  /\ \A i \in DOMAIN line : PieceOf(line[i], s) => line[i].from = offset[s] + BytesOf(line, s, i - 1)
               /\ produced[s] = offset[s] + BytesOf(line, s, Len(line))
    <2>1. s \in SendStreams \ resets /\ Abandon(s) \notin Range(batch) \cup Range(outbound)
      BY <1>1 DEF Live
    <2>2. Along(s, keep, batch, outbound, offset[s], produced[s])
      BY <2>1 DEF SenderInv, QueueInv, LineInv
    <2>3. PICK b, c, d : /\ Leads(keep, s, offset[s], b) /\ Leads(batch, s, b, c) /\ Leads(outbound, s, c, d)
                         /\ d = produced[s]
      BY <2>1, <2>2 DEF Along
    <2>4. outbound \in Seq(Entries) /\ batch \in Seq(Entries) /\ keep \in Seq(Entries)
      BY DEF SenderInv, QueueInv, QueueTyped
    <2>5. PICK front : front = keep \o batch /\ front \in Seq(Entries)
      <3>1. keep \o batch \in Seq(Entries)
        BY <2>4
      <3>. QED
        BY <3>1
    <2>6. Leads(front, s, offset[s], c)
      BY <2>3, <2>4, <2>5, LeadsBoth
    <2>7. line = front \o outbound /\ line \in Seq(Entries)
      BY <1>1, <2>4, <2>5
    <2>8. Leads(line, s, offset[s], d)
      BY <2>3, <2>4, <2>5, <2>6, <2>7, LeadsBoth
    <2>. QED
      <3>1. PICK a : a = offset[s]
        OBVIOUS
      <3>2. line \in Seq(Entries) /\ Leads(line, s, a, d)
        BY <2>7, <2>8, <3>1
      <3>3. /\ \A i \in DOMAIN line : PieceOf(line[i], s) => line[i].from = a + BytesOf(line, s, i - 1)
            /\ d = a + BytesOf(line, s, Len(line))
        BY <3>2, LeadsBytes
      <3>. QED
        BY <2>3, <3>1, <3>3
  <1>2. \A f \in Known : Carries(f) => f.off = f.from /\ f.off + f.len <= peerStreamMax[f.s]
    BY DEF SenderInv, KnownInv, TruthInv, Truthful
  <1>3. SumFunctionOnSet(offset, SendStreams) <= peerMaxData
    BY DEF SenderInv, SentInv, WithinCredit
  <1>4. QueueContinues
    BY <1>1, <1>2 DEF QueueContinues
  <1>. QED
    BY <1>2, <1>3, <1>4 DEF CreditRespected

LEMMA SenderInvRecovers ==
  ASSUME SenderInv
  PROVE  RecoverySound
  <1>1. FlightExact
    BY DEF SenderInv, RecordInv, PacketInv, FlightExact, WeightOf, FlightOf
  <1>2. TimerHonest
    <2>1. TimedBy(sent, lossTime, armed, largestAcked) /\ lossTime \in BOOLEAN
      BY DEF SenderInv, RecordInv, WindowTyped
    <2>. QED
      BY <2>1 DEF TimerHonest, TimedBy
  <1>3. ASSUME ~draining
        PROVE  /\ \A s \in SendStreams : \A b \in 0..offset[s] - 1 : \E f \in KnownOf(s) : b \in f.off..f.off + f.len - 1
               /\ \A s \in finished \ {Control} : Live(s) /\ outbound = <<>> => \E f \in KnownOf(s) : f.fin
               /\ \A s \in resets : \E f \in Known : f.kind = "reset" /\ f.s = s
    <2>1. keep = <<>> /\ batch = <<>> /\ control = {}
      BY <1>3 DEF SenderInv, QueueInv, RestInv
    <2>2. Range(<<>>) = {}
      BY DEF Range
    <2>3. \A s \in SendStreams : \A b \in 0..offset[s] - 1 : \E f \in KnownOf(s) : b \in f.off..f.off + f.len - 1
      BY DEF SenderInv, KnownInv, BytesInv, HasByte
    <2>4. \A s \in finished \ {Control} : Live(s) /\ outbound = <<>> => \E f \in KnownOf(s) : f.fin
      BY <2>1, <2>2 DEF SenderInv, KnownInv, EndInv
    <2>5. \A s \in resets : \E f \in Known : f.kind = "reset" /\ f.s = s
      BY <2>1 DEF SenderInv, KnownInv, ResetInv, Resets
    <2>. QED
      BY <2>3, <2>4, <2>5
  <1>4. NothingForgotten
    BY <1>3 DEF NothingForgotten
  <1>. QED
    BY <1>1, <1>2, <1>4 DEF RecoverySound

-----------------------------------------------------------------------------
(* The initial state.                                                      *)

LEMMA RangeOfOne ==
  ASSUME NEW e
  PROVE  Range(<<e>>) = {e} /\ Range(<<>>) = {}
  BY DEF Range

LEMMA SenderInvInit ==
  ASSUME SenderInit
  PROVE  SenderInv
  <1> USE SenderConstants
  <1>0. Absent \notin SendStreams /\ Control \in SendStreams /\ MaxBytes \in Nat /\ MaxBytes >= 1 /\ MaxPackets \in Nat
        /\ InitialWindow \in Nat /\ MinimumWindow \in Nat /\ IsFiniteSet(SendStreams) /\ MaxCredit \in Nat
    OBVIOUS
  <1>1. PICK e : e = Piece(Control, 0, 1, FALSE)
    OBVIOUS
  <1>2. e \in Entries /\ e.kind = "data" /\ e.s = Control /\ e.from = 0 /\ e.len = 1 /\ e.fin = FALSE
    BY <1>0, <1>1 DEF Entries, Piece
  <1>3. outbound = <<e>> /\ batch = <<>> /\ keep = <<>>
    BY <1>1 DEF SenderInit
  <1>4. produced = [s \in SendStreams |-> IF s = Control THEN 1 ELSE 0] /\ queuedBytes = produced /\ finished = {Control}
        /\ resets = {} /\ stalled = {} /\ control = {} /\ draining = FALSE /\ stopped = FALSE
        /\ offset = [s \in SendStreams |-> 0]
    BY DEF SenderInit
  <1>5. QueueTyped
    <2>1. outbound \in Seq(Entries) /\ batch \in Seq(Entries) /\ keep \in Seq(Entries)
      BY <1>2, <1>3
    <2>2. produced \in [SendStreams -> 0..MaxBytes] /\ queuedBytes \in [SendStreams -> Nat]
      BY <1>0, <1>4
    <2>. QED
      BY <1>0, <1>4, <2>1, <2>2 DEF QueueTyped
  <1>6. LineInv
    <2> SUFFICES ASSUME NEW s \in SendStreams PROVE Along(s, keep, batch, outbound, offset[s], produced[s])
      BY DEF LineInv
    <2>1. offset[s] = 0 /\ produced[s] = IF s = Control THEN 1 ELSE 0
      BY <1>4
    <2>2. PICK d \in Nat : d = produced[s]
      BY <2>1
    <2>3. Leads(<<>>, s, 0, 0)
      BY LeadsNowhere
    <2>4. Moves(e, s, 0, d)
      BY <1>2, <2>1, <2>2 DEF Moves, PieceOf
    <2>5. Leads(Append(<<>>, e), s, 0, d)
      <3>1. <<>> \in Seq(Entries)
        OBVIOUS
      <3>. QED
        BY <1>2, <2>3, <2>4, <3>1, LeadsOn
    <2>6. Append(<<>>, e) = <<e>>
      OBVIOUS
    <2>7. Leads(keep, s, 0, 0) /\ Leads(batch, s, 0, 0) /\ Leads(outbound, s, 0, d) /\ d <= produced[s]
      BY <1>3, <2>2, <2>3, <2>5, <2>6
    <2>. QED
      BY <2>1, <2>2, <2>7 DEF Along
  <1>7. RestInv /\ HeldInv
    BY <1>3, <1>4, RangeOfOne DEF RestInv, HeldInv
  <1>8. GivenUpInv
    <2>1. Range(batch) \cup Range(outbound) = {e}
      BY <1>3, RangeOfOne
    <2>. QED
      BY <1>2, <1>4, <2>1 DEF GivenUpInv
  <1>9. SentInv
    <2>1. total = 0 /\ reported = [k \in SendStreams \cup {Absent} |-> 0] /\ peerMaxData \in 1..MaxCredit
          /\ peerStreamMax = [s \in SendStreams |-> 1] /\ acked = {}
      BY DEF SenderInit
    <2>2. peerMaxData \in Nat
      BY <1>0, <2>1
    <2>3. CreditTyped
      BY <1>0, <1>4, <2>1, <2>2, FS_EmptySet DEF CreditTyped
    <2>4. SumFunctionOnSet(offset, SendStreams) = 0
      <3>1. \A s \in SendStreams : offset[s] = 0
        BY <1>4
      <3>2. Sums(offset, SendStreams)[SendStreams] = 0
        BY <1>0, <3>1, SumOfZeros
      <3>. QED
        BY <3>2, SumIs
    <2>5. \A s \in SendStreams : offset[s] <= peerStreamMax[s]
      BY <1>4, <2>1
    <2>6. WithinCredit
      BY <2>1, <2>2, <2>4, <2>5 DEF WithinCredit
    <2>. QED
      BY <2>3, <2>6 DEF SentInv
  <1>10. sent = <<>> /\ number = 1 /\ inFlight = 0 /\ budget \in Nat /\ DOMAIN sent = {}
    BY DEF SenderInit
  <1>11. KnownInv
    <2>1. Known = {}
      BY <1>10, KnownAre DEF FramesIn, SenderInit
    <2>2. \A s \in SendStreams : \A b \in 0..offset[s] - 1 : FALSE
      BY <1>4
    <2>. QED
      BY <1>4, <2>1, <2>2 DEF KnownInv, TruthInv, EndInv, ResetInv, BytesInv
  <1>12. PacketInv
    <2>1. Packets(sent, number - 1)
      <3>1. sent \in [DOMAIN sent -> PacketShapes]
        BY <1>10
      <3>. QED
        BY <1>10, <3>1 DEF Packets
    <2>2. FlightOf(sent, {}) = 0
      <3>1. PICK w : w = [n \in {} |-> FlightSize(sent[n])]
        OBVIOUS
      <3>2. Sums(w, {})[{}] = 0
        BY FS_EmptySet, SumOfZeros
      <3>. QED
        BY <3>1, <3>2, SumIs DEF FlightOf
    <2>. QED
      BY <1>0, <1>10, <2>1, <2>2 DEF PacketInv
  <1>13. TimedBy(sent, lossTime, armed, largestAcked)
    BY <1>10 DEF TimedBy, SenderInit
  <1>14. WindowTyped
    <2>1. window = InitialWindow /\ ssthresh = Absent /\ recoveryFrom = 0 /\ largestAcked = 0 /\ lossTime = FALSE
          /\ armed = FALSE /\ closed = FALSE /\ validated = FALSE /\ arrived = 1
      BY DEF SenderInit
    <2>2. window \in Nat /\ window >= Smallest(InitialWindow, MinimumWindow)
      BY <1>0, <2>1 DEF Smallest
    <2>3. recoveryFrom \in 0..number /\ largestAcked \in 0..number - 1
      BY <1>10, <2>1
    <2>. QED
      BY <2>1, <2>2, <2>3 DEF WindowTyped
  <1>. QED
    BY <1>5, <1>6, <1>7, <1>8, <1>9, <1>11, <1>12, <1>13, <1>14 DEF SenderInv, QueueInv, RecordInv

-----------------------------------------------------------------------------
(* A packet goes on record.                                                *)

LEMMA Recorded ==
  ASSUME RecordInv, NEW kept \in SUBSET DOMAIN sent, NEW frames \in SUBSET SentFrames, IsFiniteSet(frames),
         NEW goes \in BOOLEAN, NEW flight, flight = FlightOf(sent, kept), Record(kept, flight, frames, goes)
  PROVE  /\ number' \in 1..MaxPackets + 1 /\ number' = number + 1 /\ Packets(sent', number' - 1)
         /\ inFlight' \in Nat /\ inFlight' = FlightOf(sent', DOMAIN sent')
         /\ FramesIn(sent', DOMAIN sent') = FramesIn(sent, kept) \cup frames
         /\ armed' \in BOOLEAN /\ ((\E n \in DOMAIN sent' : Eliciting(sent'[n])) => armed')
         /\ \A k \in 0..number - 1 : (\E n \in DOMAIN sent' : n <= k) <=> \E n \in kept : n <= k
  <1>0. MaxPackets \in Nat
    BY SenderConstants
  <1>1. number \in 1..MaxPackets + 1 /\ Packets(sent, number - 1) /\ number <= MaxPackets
    BY DEF RecordInv, PacketInv, Record
  <1>2. PICK top \in Nat : top = number - 1 /\ number = top + 1
    BY <1>0, <1>1
  <1>3. PICK packet : packet = [frames |-> frames, size |-> SizeOf(frames), out |-> goes]
    OBVIOUS
  <1>4. sent' = [n \in kept \cup {top + 1} |-> IF n = top + 1 THEN packet ELSE sent[n]]
        /\ number' = number + 1 /\ inFlight' = flight + FlightSize(packet) /\ armed' = (armed \/ frames # {})
    BY <1>2, <1>3 DEF Record
  <1>5. /\ Packets(sent', top + 1) /\ DOMAIN sent' = kept \cup {top + 1}
        /\ sent'[top + 1] = packet /\ \A n \in kept : sent'[n] = sent[n] /\ n # top + 1
        /\ FlightSize(packet) \in Nat
        /\ FlightOf(sent', DOMAIN sent') = FlightOf(sent, kept) + FlightSize(packet)
        /\ FramesIn(sent', DOMAIN sent') = FramesIn(sent, kept) \cup frames
    <2>1. Packets(sent, top)
      BY <1>1, <1>2
    <2>2. PICK q : q = sent'
      OBVIOUS
    <2>3. q = [n \in kept \cup {top + 1} |-> IF n = top + 1 THEN packet ELSE sent[n]]
      BY <1>4, <2>2
    <2>4. /\ Packets(q, top + 1) /\ DOMAIN q = kept \cup {top + 1}
          /\ q[top + 1] = packet /\ (\A n \in kept : q[n] = sent[n] /\ n # top + 1)
          /\ FlightSize(packet) \in Nat
          /\ FlightOf(q, DOMAIN q) = FlightOf(sent, kept) + FlightSize(packet)
          /\ FramesIn(q, DOMAIN q) = FramesIn(sent, kept) \cup frames
      BY <1>3, <2>1, <2>3, PacketMore
    <2>. QED
      BY <2>2, <2>4
  <1>6. number' = top + 2 /\ number' - 1 = top + 1 /\ number' \in 1..MaxPackets + 1
    BY <1>0, <1>1, <1>2, <1>4
  <1>7. FlightOf(sent, kept) \in Nat
    BY <1>1, <1>2, FlightIs
  <1>8. inFlight' \in Nat /\ inFlight' = FlightOf(sent', DOMAIN sent')
    BY <1>4, <1>5, <1>7
  <1>9. armed \in BOOLEAN /\ ((\E n \in DOMAIN sent : Eliciting(sent[n])) => armed)
    BY DEF RecordInv, WindowTyped, TimedBy
  <1>10. armed' \in BOOLEAN
    BY <1>4, <1>9
  <1>11. ASSUME NEW n \in DOMAIN sent', Eliciting(sent'[n]) PROVE armed'
    <2>1. CASE n = top + 1
      BY <1>3, <1>4, <1>5, <1>11, <2>1 DEF Eliciting
    <2>2. CASE n \in kept
      BY <1>4, <1>5, <1>9, <1>11, <2>2
    <2>. QED
      BY <1>5, <2>1, <2>2
  <1>12. ASSUME NEW k \in 0..number - 1 PROVE (\E n \in DOMAIN sent' : n <= k) <=> \E n \in kept : n <= k
    <2>1. ~(top + 1 <= k)
      BY <1>2
    <2>. QED
      BY <1>5, <2>1
  <1>. QED
    BY <1>4, <1>5, <1>6, <1>8, <1>10, <1>11, <1>12

LEMMA PacketBuilt ==
  ASSUME RecordInv, NEW kept \in SUBSET DOMAIN sent, NEW frames \in SUBSET SentFrames, IsFiniteSet(frames),
         NEW flight, flight = FlightOf(sent, kept), Build(kept, flight, frames)
  PROVE  /\ Record(kept, flight, frames, MaySend(SizeOf(frames))) /\ MaySend(SizeOf(frames)) \in BOOLEAN
         /\ budget' \in Nat
  <1>1. SizeOf(frames) \in Nat
    BY SizeIs
  <1>2. budget \in Nat /\ validated \in BOOLEAN
    BY DEF RecordInv, PacketInv, WindowTyped
  <1>3. PICK size \in Nat : size = SizeOf(frames)
    BY <1>1
  <1>4. MaySend(size) \in BOOLEAN /\ (MaySend(size) /\ ~validated => size <= budget)
    BY <1>2 DEF MaySend
  <1>5. budget' = IF validated \/ ~MaySend(size) THEN budget ELSE budget - size
    BY <1>3 DEF Build
  <1>6. budget' \in Nat
    <2>1. CASE validated \/ ~MaySend(size)
      BY <1>2, <1>5, <2>1
    <2>2. CASE ~validated /\ MaySend(size)
      <3>1. budget' = budget - size /\ size <= budget
        BY <1>4, <1>5, <2>2
      <3>. QED
        BY <1>2, <3>1
    <2>. QED
      BY <2>1, <2>2
  <1>. QED
    BY <1>3, <1>4, <1>6 DEF Build

\* All frames on record are of the shapes there are, and finitely many.
LEMMA RecordedFrames ==
  ASSUME NEW p, NEW top \in Nat, Packets(p, top), NEW R \in SUBSET DOMAIN p
  PROVE  FramesIn(p, R) \subseteq SentFrames /\ IsFiniteSet(FramesIn(p, R))
  <1>1. IsFiniteSet(DOMAIN p) /\ \A n \in DOMAIN p : p[n].frames \subseteq SentFrames
    BY PacketsAre
  <1>2. \A n \in DOMAIN p : IsFiniteSet(p[n].frames)
    BY DEF Packets
  <1>3. IsFiniteSet(R)
    BY <1>1, FS_Subset
  <1>4. IsFiniteSet({p[n].frames : n \in R})
    <2>1. PICK T : T = {p[n].frames : n \in R}
      OBVIOUS
    <2>2. PICK f : f = [n \in R |-> p[n].frames]
      OBVIOUS
    <2>3. f \in Surjection(R, T)
      BY <2>1, <2>2 DEF Surjection
    <2>. QED
      BY <1>3, <2>1, <2>3, FS_Surjection
  <1>5. IsFiniteSet(UNION {p[n].frames : n \in R})
    BY <1>2, <1>4, FS_UNION
  <1>. QED
    BY <1>1, <1>5 DEF FramesIn

\* What is on record is known, and what is known has a shape.
LEMMA KnownShapes ==
  ASSUME SenderInv
  PROVE  Known \subseteq SentFrames
  <1>1. number - 1 \in Nat /\ Packets(sent, number - 1)
    BY SenderConstants DEF SenderInv, RecordInv, PacketInv
  <1>2. DOMAIN sent \in SUBSET DOMAIN sent
    OBVIOUS
  <1>3. FramesIn(sent, DOMAIN sent) \subseteq SentFrames
    BY <1>1, <1>2, RecordedFrames
  <1>. QED
    BY <1>3, KnownAre DEF SenderInv, SentInv, CreditTyped

\* A step that leaves the queue alone and sends nothing new of a stream.
LEMMA QuietStep ==
  ASSUME SenderInv, UNCHANGED <<queueVars, producerVars, drainVars, streamVars>>,
         Known \subseteq Known', \A f \in Known' \ Known : ~Carries(f),
         peerMaxData' \in Nat, peerMaxData' >= peerMaxData, peerStreamMax' \in [SendStreams -> Nat],
         \A s \in SendStreams : peerStreamMax'[s] >= peerStreamMax[s], acked' \subseteq SentFrames
  PROVE  QueueInv' /\ SentInv' /\ KnownInv'
  <1>1. UNCHANGED <<outbound, queuedBytes, produced, finished, batch, draining, keep, control, stalled, stopped, offset,
                    total, resets, reported>>
    BY DEF queueVars, producerVars, drainVars, streamVars
  <1>2. QueueInv'
    <2>1. QueueTyped /\ LineInv /\ RestInv /\ HeldInv /\ GivenUpInv
      BY DEF SenderInv, QueueInv
    <2>2. QueueTyped'
      BY <1>1, <2>1 DEF QueueTyped
    <2>3. LineInv'
      BY <1>1, <2>1 DEF LineInv
    <2>4. RestInv' /\ HeldInv' /\ GivenUpInv'
      BY <1>1, <2>1 DEF RestInv, HeldInv, GivenUpInv
    <2>. QED
      BY <2>2, <2>3, <2>4 DEF QueueInv
  <1>3. CreditTyped /\ WithinCredit
    BY DEF SenderInv, SentInv
  <1>4. CreditTyped'
    BY <1>1, <1>3 DEF CreditTyped
  <1>5. WithinCredit'
    <2>1. ASSUME NEW s \in SendStreams PROVE offset[s] <= peerStreamMax'[s]
      <3>1. offset[s] \in 0..MaxBytes /\ MaxBytes \in Nat
        BY <1>3, SenderConstants DEF CreditTyped
      <3>2. offset[s] \in Nat /\ peerStreamMax[s] \in Nat /\ peerStreamMax'[s] \in Nat /\ offset[s] <= peerStreamMax[s]
        BY <1>3, <3>1 DEF CreditTyped, WithinCredit
      <3>3. peerStreamMax'[s] >= peerStreamMax[s]
        OBVIOUS
      <3>. QED
        BY <3>2, <3>3
    <2>2. total \in Nat /\ peerMaxData \in Nat /\ total <= peerMaxData /\ total = SumFunctionOnSet(offset, SendStreams)
      BY <1>3 DEF CreditTyped, WithinCredit
    <2>3. total <= peerMaxData'
      BY <2>2
    <2>. QED
      BY <1>1, <2>1, <2>2, <2>3 DEF WithinCredit
  <1>6. TruthInv /\ EndInv /\ ResetInv /\ BytesInv
    BY DEF SenderInv, KnownInv
  <1>7. TruthInv'
    <2> SUFFICES ASSUME NEW f \in Known', Carries(f) PROVE f.off = f.from /\ f.off + f.len <= peerStreamMax'[f.s]
      BY DEF TruthInv, Truthful
    <2>1. f \in Known
      OBVIOUS
    <2>2. f \in SentFrames
      BY <2>1, KnownShapes
    <2>3. f.s \in SendStreams /\ f.off \in Nat /\ f.len \in Nat
      BY <2>2 DEF SentFrames, Carries, OtherFrame
    <2>4. f.off = f.from /\ f.off + f.len <= peerStreamMax[f.s]
      BY <1>6, <2>1 DEF TruthInv, Truthful
    <2>5. peerStreamMax[f.s] \in Nat /\ peerStreamMax'[f.s] \in Nat /\ peerStreamMax'[f.s] >= peerStreamMax[f.s]
      BY <1>3, <2>3 DEF CreditTyped
    <2>. QED
      BY <2>3, <2>4, <2>5
  <1>8. \A s : KnownOf(s) \subseteq KnownOf(s)'
    BY DEF KnownOf
  <1>9. EndInv'
    <2>1. \A s : Live(s)' => Live(s)
      BY <1>1 DEF Live
    <2>. QED
      BY <1>1, <1>6, <1>8, <2>1 DEF EndInv
  <1>10. ResetInv'
    BY <1>1, <1>6 DEF ResetInv
  <1>11. BytesInv'
    BY <1>1, <1>6, <1>8 DEF BytesInv
  <1>. QED
    BY <1>2, <1>4, <1>5, <1>7, <1>9, <1>10, <1>11 DEF SentInv, KnownInv

\* The same where the credit does not change either.
LEMMA StillStep ==
  ASSUME SenderInv, UNCHANGED <<queueVars, producerVars, drainVars, streamVars, creditVars>>,
         Known \subseteq Known', \A f \in Known' \ Known : ~Carries(f), acked' \subseteq SentFrames
  PROVE  QueueInv' /\ SentInv' /\ KnownInv'
  <1>1. peerMaxData \in Nat /\ peerStreamMax \in [SendStreams -> Nat] /\ UNCHANGED <<peerMaxData, peerStreamMax>>
    BY DEF SenderInv, SentInv, CreditTyped, creditVars
  <1>2. peerMaxData' \in Nat /\ peerMaxData' >= peerMaxData /\ peerStreamMax' \in [SendStreams -> Nat]
    BY <1>1
  <1>3. \A s \in SendStreams : peerStreamMax'[s] >= peerStreamMax[s]
    <2>1. \A s \in SendStreams : peerStreamMax[s] \in Nat
      BY <1>1
    <2>. QED
      BY <1>1, <2>1
  <1>4. UNCHANGED <<queueVars, producerVars, drainVars, streamVars>>
    OBVIOUS
  <1>. QED
    BY <1>2, <1>3, <1>4, QuietStep

\* What is kept about the packets when one goes on record.
LEMMA RecordStep ==
  ASSUME RecordInv, NEW kept \in SUBSET DOMAIN sent, NEW frames \in SUBSET SentFrames, IsFiniteSet(frames),
         NEW goes \in BOOLEAN, NEW flight, flight = FlightOf(sent, kept), Record(kept, flight, frames, goes),
         budget' \in Nat, largestAcked' \in 0..number - 1, lossTime' \in BOOLEAN,
         lossTime' <=> \E n \in kept : n <= largestAcked',
         window' \in Nat, window' >= Smallest(InitialWindow, MinimumWindow), ssthresh' \in Nat \cup {Absent},
         recoveryFrom' \in 0..number, validated' \in BOOLEAN, closed' \in BOOLEAN, arrived' \in Nat
  PROVE  RecordInv' /\ FramesIn(sent', DOMAIN sent') = FramesIn(sent, kept) \cup frames
  <1>1. /\ number' \in 1..MaxPackets + 1 /\ number' = number + 1 /\ Packets(sent', number' - 1)
        /\ inFlight' \in Nat /\ inFlight' = FlightOf(sent', DOMAIN sent')
        /\ FramesIn(sent', DOMAIN sent') = FramesIn(sent, kept) \cup frames
        /\ armed' \in BOOLEAN /\ ((\E n \in DOMAIN sent' : Eliciting(sent'[n])) => armed')
        /\ \A k \in 0..number - 1 : (\E n \in DOMAIN sent' : n <= k) <=> \E n \in kept : n <= k
    BY Recorded
  <1>2. PacketInv'
    BY <1>1 DEF PacketInv
  <1>3. TimedBy(sent', lossTime', armed', largestAcked')
    <2>1. (\E n \in DOMAIN sent' : n <= largestAcked') <=> \E n \in kept : n <= largestAcked'
      BY <1>1
    <2>. QED
      BY <1>1, <2>1 DEF TimedBy
  <1>4. WindowTyped'
    <2>1. number \in Nat
      BY SenderConstants DEF RecordInv, PacketInv
    <2>2. recoveryFrom' \in 0..number' /\ largestAcked' \in 0..number' - 1
      BY <1>1, <2>1
    <2>. QED
      BY <1>1, <2>2 DEF WindowTyped
  <1>. QED
    BY <1>1, <1>2, <1>3, <1>4 DEF RecordInv

\* The same through _flush.
LEMMA BuildStep ==
  ASSUME RecordInv, NEW kept \in SUBSET DOMAIN sent, NEW frames \in SUBSET SentFrames, IsFiniteSet(frames),
         NEW flight, flight = FlightOf(sent, kept), Build(kept, flight, frames),
         largestAcked' \in 0..number - 1, lossTime' \in BOOLEAN,
         lossTime' <=> \E n \in kept : n <= largestAcked',
         window' \in Nat, window' >= Smallest(InitialWindow, MinimumWindow), ssthresh' \in Nat \cup {Absent},
         recoveryFrom' \in 0..number, validated' \in BOOLEAN, closed' \in BOOLEAN, arrived' \in Nat
  PROVE  RecordInv' /\ FramesIn(sent', DOMAIN sent') = FramesIn(sent, kept) \cup frames
  <1>1. PICK goes \in BOOLEAN : Record(kept, flight, frames, goes)
    BY PacketBuilt
  <1>2. budget' \in Nat
    BY PacketBuilt
  <1>. QED
    BY <1>1, <1>2, RecordStep

\* The same where nothing else changes and all packets stay on record.
LEMMA BuildOnly ==
  ASSUME RecordInv, NEW frames \in SUBSET SentFrames, IsFiniteSet(frames),
         Build(DOMAIN sent, inFlight, frames), UNCHANGED <<pathVars, congestionVars, lossVars, closed>>
  PROVE  RecordInv' /\ FramesIn(sent', DOMAIN sent') = FramesIn(sent, DOMAIN sent) \cup frames
  <1>1. UNCHANGED <<validated, arrived, window, ssthresh, recoveryFrom, largestAcked, lossTime, closed>>
    BY DEF pathVars, congestionVars, lossVars
  <1>2. WindowTyped /\ TimedBy(sent, lossTime, armed, largestAcked) /\ inFlight = FlightOf(sent, DOMAIN sent)
    BY DEF RecordInv, PacketInv
  <1>3. /\ largestAcked' \in 0..number - 1 /\ lossTime' \in BOOLEAN
        /\ (lossTime' <=> \E n \in DOMAIN sent : n <= largestAcked')
        /\ window' \in Nat /\ window' >= Smallest(InitialWindow, MinimumWindow) /\ ssthresh' \in Nat \cup {Absent}
        /\ recoveryFrom' \in 0..number /\ validated' \in BOOLEAN /\ closed' \in BOOLEAN /\ arrived' \in Nat
    BY <1>1, <1>2 DEF WindowTyped, TimedBy
  <1>4. DOMAIN sent \in SUBSET DOMAIN sent
    OBVIOUS
  <1>. QED
    BY <1>2, <1>3, <1>4, BuildStep

LEMMA WindowAfterLoss ==
  ASSUME RecordInv, NEW w \in Nat, w >= Smallest(InitialWindow, MinimumWindow), NEW lost, EnterRecovery(w, lost)
  PROVE  /\ window' \in Nat /\ window' >= Smallest(InitialWindow, MinimumWindow) /\ ssthresh' \in Nat \cup {Absent}
         /\ recoveryFrom' \in 0..number
  <1>1. InitialWindow \in Nat /\ MinimumWindow \in Nat /\ MaxPackets \in Nat
    BY SenderConstants
  <1>2. number \in Nat /\ recoveryFrom \in 0..number /\ ssthresh \in Nat \cup {Absent}
    BY <1>1 DEF RecordInv, PacketInv, WindowTyped
  <1>3. w \div 2 \in Nat
    OBVIOUS
  <1>4. Largest(w \div 2, MinimumWindow) \in Nat /\ Largest(w \div 2, MinimumWindow) >= Smallest(InitialWindow, MinimumWindow)
    <2>1. PICK h \in Nat : h = w \div 2
      BY <1>3
    <2>2. Largest(h, MinimumWindow) \in Nat /\ Largest(h, MinimumWindow) >= Smallest(InitialWindow, MinimumWindow)
      BY <1>1 DEF Largest, Smallest
    <2>. QED
      BY <2>1, <2>2
  <1>5. AfterLoss(w, lost) \in Nat /\ AfterLoss(w, lost) >= Smallest(InitialWindow, MinimumWindow)
    BY <1>4 DEF AfterLoss
  <1>6. window' \in Nat /\ window' >= Smallest(InitialWindow, MinimumWindow) /\ ssthresh' \in Nat \cup {Absent}
    BY <1>2, <1>5 DEF EnterRecovery
  <1>7. recoveryFrom' \in 0..number
    BY <1>2 DEF EnterRecovery
  <1>. QED
    BY <1>6, <1>7

-----------------------------------------------------------------------------
(* Acknowledgements and the timer.                                         *)

LEMMA NumbersSent ==
  ASSUME RecordInv
  PROVE  /\ number \in Nat /\ number - 1 \in Nat /\ number - 1 <= MaxPackets /\ MaxPackets \in Nat
         /\ Packets(sent, number - 1) /\ \A n \in DOMAIN sent : n \in 1..number - 1
  BY SenderConstants DEF RecordInv, PacketInv, Packets

LEMMA RecvAckKeeps ==
  ASSUME SenderInv, RecvAck
  PROVE  SenderInv'
  <1>1. UNCHANGED <<queueVars, producerVars, drainVars, streamVars, creditVars, pathVars, closed>>
    BY DEF RecvAck
  <1>2. RecordInv
    BY DEF SenderInv
  <1>3. /\ number \in Nat /\ number - 1 \in Nat /\ number - 1 <= MaxPackets /\ MaxPackets \in Nat
        /\ Packets(sent, number - 1) /\ \A n \in DOMAIN sent : n \in 1..number - 1
    BY <1>2, NumbersSent
  <1>4. PICK told \in SUBSET {n \in DOMAIN sent : sent[n].out} :
        \E some \in {IF told = {} THEN {} ELSE Read[told] \cap DOMAIN sent} :
          LET rest == DOMAIN sent \ some
              largest == IF some = {} THEN largestAcked ELSE Largest(largestAcked, Max(some))
              grown == Grow(window, some)
          IN
          \E lost \in LossCuts(rest, largest) :
             /\ largestAcked' = largest
             /\ lossTime' = StillPending(rest \ lost, largest)
             /\ acked' = acked \cup FramesOf(told)
             /\ EnterRecovery(grown, lost)
             /\ Build(rest \ lost, inFlight - WeightOf(some) - WeightOf(lost), Again(lost))
    BY DEF RecvAck
  <1>5. PICK some : some = IF told = {} THEN {} ELSE Read[told] \cap DOMAIN sent
    OBVIOUS
  <1>6. PICK rest : rest = DOMAIN sent \ some
    OBVIOUS
  <1>7. PICK largest : largest = IF some = {} THEN largestAcked ELSE Largest(largestAcked, Max(some))
    OBVIOUS
  <1>8. PICK lost : /\ lost \in LossCuts(rest, largest)
                    /\ largestAcked' = largest
                    /\ lossTime' = StillPending(rest \ lost, largest)
                    /\ acked' = acked \cup FramesOf(told)
                    /\ EnterRecovery(Grow(window, some), lost)
                    /\ Build(rest \ lost, inFlight - WeightOf(some) - WeightOf(lost), Again(lost))
    BY <1>4, <1>5, <1>6, <1>7
  <1>9. told \subseteq DOMAIN sent
    OBVIOUS
  <1>10. some \subseteq told
    <2>1. ASSUME told # {} PROVE Read[told] \subseteq told
      <3>1. \A n \in 1..number - 1 : n \in 1..MaxPackets
        BY <1>3
      <3>2. told \subseteq 1..MaxPackets
        BY <1>3, <1>9, <3>1
      <3>3. told \in (SUBSET (1..MaxPackets)) \ {{}}
        BY <2>1, <3>2
      <3>4. Read[told] = AcknowledgedNumbers(AckRanges(told))
        BY <3>3 DEF Read
      <3>. QED
        <4>1. PICK S : S = told
          OBVIOUS
        <4>2. S \subseteq 1..MaxPackets /\ S # {} /\ MaxPackets \in Nat
          BY <1>3, <2>1, <3>2, <4>1
        <4>3. AcknowledgedNumbers(AckRanges(S)) \subseteq S
          BY <4>2, AckNamesWhatArrived
        <4>. QED
          BY <3>4, <4>1, <4>3
    <2>. QED
      BY <1>5, <2>1
  <1>11. some \in SUBSET DOMAIN sent /\ rest \in SUBSET DOMAIN sent /\ lost \in SUBSET rest
    BY <1>6, <1>8, <1>9, <1>10 DEF LossCuts, Overtaken
  <1>12. largestAcked \in 0..number - 1 /\ window \in Nat /\ window >= Smallest(InitialWindow, MinimumWindow)
    BY <1>2 DEF RecordInv, WindowTyped
  <1>13. largest \in 0..number - 1
    <2>1. CASE some = {}
      BY <1>7, <1>12, <2>1
    <2>2. CASE some # {}
      <3>1. some \subseteq 0..number - 1
        <4>1. \A n \in 1..number - 1 : n \in 0..number - 1
          OBVIOUS
        <4>. QED
          BY <1>3, <1>11, <4>1
      <3>2. Max(some) \in some
        BY <1>3, <2>2, <3>1, MaxIs
      <3>3. Max(some) \in 0..number - 1
        BY <3>1, <3>2
      <3>. QED
        BY <1>7, <1>12, <2>2, <3>3 DEF Largest
    <2>. QED
      BY <2>1, <2>2
  <1>14. PICK kept : kept = rest \ lost
    OBVIOUS
  <1>15. kept \in SUBSET DOMAIN sent
    BY <1>11, <1>14
  <1>16. inFlight - WeightOf(some) - WeightOf(lost) = FlightOf(sent, kept)
    <2>1. inFlight = FlightOf(sent, DOMAIN sent)
      BY <1>2 DEF RecordInv, PacketInv
    <2>2. WeightOf(some) = FlightOf(sent, some) /\ WeightOf(lost) = FlightOf(sent, lost)
      BY DEF WeightOf, FlightOf
    <2>3. FlightOf(sent, rest) = FlightOf(sent, DOMAIN sent) - FlightOf(sent, some)
      <3>1. DOMAIN sent \in SUBSET DOMAIN sent
        OBVIOUS
      <3>. QED
        BY <1>3, <1>6, <1>11, <3>1, FlightLess
    <2>4. FlightOf(sent, kept) = FlightOf(sent, rest) - FlightOf(sent, lost)
      BY <1>3, <1>11, <1>14, FlightLess
    <2>. QED
      BY <2>1, <2>2, <2>3, <2>4
  <1>17. PICK again : again = Again(lost)
    OBVIOUS
  <1>18. again = FramesIn(sent, lost)
    BY <1>17 DEF Again, FramesOf, FramesIn
  <1>19. again \in SUBSET SentFrames /\ IsFiniteSet(again)
    <2>1. lost \in SUBSET DOMAIN sent
      BY <1>11
    <2>. QED
      BY <1>3, <1>18, <2>1, RecordedFrames
  <1>20. Grow(window, some) \in Nat /\ Grow(window, some) >= Smallest(InitialWindow, MinimumWindow)
    <2>1. Grow(window, some) \in Nat /\ Grow(window, some) >= window
      BY <1>3, <1>11, <1>12, GrowIs
    <2>2. Smallest(InitialWindow, MinimumWindow) \in Nat
      BY SenderConstants DEF Smallest
    <2>. QED
      BY <1>12, <2>1, <2>2
  <1>21. /\ window' \in Nat /\ window' >= Smallest(InitialWindow, MinimumWindow) /\ ssthresh' \in Nat \cup {Absent}
         /\ recoveryFrom' \in 0..number
    BY <1>2, <1>8, <1>20, WindowAfterLoss
  <1>22. validated' \in BOOLEAN /\ closed' \in BOOLEAN /\ arrived' \in Nat
    BY <1>1, <1>2 DEF RecordInv, WindowTyped, pathVars
  <1>23. lossTime' \in BOOLEAN /\ (lossTime' <=> \E n \in kept : n <= largestAcked')
    BY <1>8, <1>14 DEF StillPending
  <1>24. Build(kept, inFlight - WeightOf(some) - WeightOf(lost), again)
    BY <1>8, <1>14, <1>17
  <1>25. RecordInv' /\ FramesIn(sent', DOMAIN sent') = FramesIn(sent, kept) \cup again
    BY <1>2, <1>8, <1>13, <1>15, <1>16, <1>19, <1>21, <1>22, <1>23, <1>24, BuildStep
  <1>26. FramesIn(sent', DOMAIN sent') = FramesIn(sent, rest)
    <2>1. FramesIn(sent, rest) = FramesIn(sent, rest \ lost) \cup FramesIn(sent, lost)
      BY <1>11 DEF FramesIn
    <2>. QED
      BY <1>14, <1>18, <1>25, <2>1
  <1>27. FramesIn(sent, DOMAIN sent) = FramesIn(sent, rest) \cup FramesIn(sent, some)
    <2>1. PICK D : D = DOMAIN sent
      OBVIOUS
    <2>2. some \in SUBSET D
      BY <1>11, <2>1
    <2>3. FramesIn(sent, D) = FramesIn(sent, D \ some) \cup FramesIn(sent, some)
      BY <2>2 DEF FramesIn
    <2>. QED
      BY <1>6, <2>1, <2>3
  <1>28. FramesIn(sent, some) \subseteq FramesOf(told) /\ FramesOf(told) \subseteq FramesIn(sent, DOMAIN sent)
    BY <1>9, <1>10 DEF FramesIn, FramesOf
  <1>29. acked' = acked \cup FramesOf(told)
    BY <1>8
  <1>30. Known = acked \cup FramesIn(sent, DOMAIN sent) /\ Known' = acked' \cup FramesIn(sent', DOMAIN sent')
    BY DEF Known, FramesOf, FramesIn
  <1>31. Known' = Known
    BY <1>26, <1>27, <1>28, <1>29, <1>30
  <1>32. acked' \subseteq SentFrames
    BY <1>30, <1>31, KnownShapes
  <1>33. QueueInv' /\ SentInv' /\ KnownInv'
    BY <1>1, <1>31, <1>32, StillStep
  <1>. QED
    BY <1>25, <1>33 DEF SenderInv

LEMMA OnTimeoutKeeps ==
  ASSUME SenderInv, OnTimeout
  PROVE  SenderInv'
  <1>1. UNCHANGED <<queueVars, producerVars, drainVars, streamVars, creditVars, pathVars, largestAcked, closed, acked>>
    BY DEF OnTimeout
  <1>2. RecordInv
    BY DEF SenderInv
  <1>3. /\ number \in Nat /\ number - 1 \in Nat /\ Packets(sent, number - 1)
        /\ \A n \in DOMAIN sent : n \in 1..number - 1
    BY <1>2, NumbersSent
  <1>4. /\ largestAcked' = largestAcked /\ largestAcked \in 0..number - 1 /\ window \in Nat
        /\ window >= Smallest(InitialWindow, MinimumWindow)
    BY <1>1, <1>2 DEF RecordInv, WindowTyped
  <1>5. validated' \in BOOLEAN /\ closed' \in BOOLEAN /\ arrived' \in Nat
    BY <1>1, <1>2 DEF RecordInv, WindowTyped, pathVars
  <1>6. acked' = acked /\ acked \subseteq SentFrames
    BY <1>1 DEF SenderInv, SentInv, CreditTyped
  <1>7. inFlight = FlightOf(sent, DOMAIN sent) /\ inFlight \in Nat
    BY <1>2 DEF RecordInv, PacketInv
  <1>8. DOMAIN sent \in SUBSET DOMAIN sent
    OBVIOUS
  <1>9. Known = acked \cup FramesIn(sent, DOMAIN sent) /\ Known' = acked' \cup FramesIn(sent', DOMAIN sent')
    BY DEF Known, FramesOf, FramesIn
  <1>10. CASE /\ lossTime
              /\ \E cut \in {n \in DOMAIN sent : n <= largestAcked} :
                   LET lost == {n \in DOMAIN sent : n <= cut} \cup Overtaken(DOMAIN sent, largestAcked) IN
                   /\ lossTime' = StillPending(DOMAIN sent \ lost, largestAcked)
                   /\ EnterRecovery(window, lost)
                   /\ IF Again(lost) = {}
                      THEN /\ sent' = [n \in DOMAIN sent \ lost |-> sent[n]] /\ inFlight' = inFlight - WeightOf(lost)
                           /\ UNCHANGED <<number, budget, armed>>
                      ELSE Build(DOMAIN sent \ lost, inFlight - WeightOf(lost), Again(lost))
    <2>1. PICK lost : /\ lost \subseteq DOMAIN sent
                      /\ lossTime' = StillPending(DOMAIN sent \ lost, largestAcked)
                      /\ EnterRecovery(window, lost)
                      /\ IF Again(lost) = {}
                         THEN /\ sent' = [n \in DOMAIN sent \ lost |-> sent[n]] /\ inFlight' = inFlight - WeightOf(lost)
                              /\ UNCHANGED <<number, budget, armed>>
                         ELSE Build(DOMAIN sent \ lost, inFlight - WeightOf(lost), Again(lost))
      BY <1>10 DEF Overtaken
    <2>2. PICK kept : kept = DOMAIN sent \ lost /\ kept \in SUBSET DOMAIN sent
      OBVIOUS
    <2>3. PICK again : again = Again(lost)
      OBVIOUS
    <2>4. again = FramesIn(sent, lost)
      BY <2>3 DEF Again, FramesOf, FramesIn
    <2>5. lost \in SUBSET DOMAIN sent
      BY <2>1
    <2>6. again \in SUBSET SentFrames /\ IsFiniteSet(again)
      BY <1>3, <2>4, <2>5, RecordedFrames
    <2>7. inFlight - WeightOf(lost) = FlightOf(sent, kept)
      <3>1. WeightOf(lost) = FlightOf(sent, lost)
        BY DEF WeightOf, FlightOf
      <3>2. FlightOf(sent, kept) = FlightOf(sent, DOMAIN sent) - FlightOf(sent, lost)
        BY <1>3, <1>8, <2>2, <2>5, FlightLess
      <3>. QED
        BY <1>7, <3>1, <3>2
    <2>8. /\ window' \in Nat /\ window' >= Smallest(InitialWindow, MinimumWindow) /\ ssthresh' \in Nat \cup {Absent}
          /\ recoveryFrom' \in 0..number
      BY <1>2, <1>4, <2>1, WindowAfterLoss
    <2>9. lossTime' \in BOOLEAN /\ (lossTime' <=> \E n \in kept : n <= largestAcked')
      BY <1>4, <2>1, <2>2 DEF StillPending
    <2>10. FramesIn(sent, DOMAIN sent) = FramesIn(sent, kept) \cup again
      BY <2>2, <2>4, <2>5 DEF FramesIn
    <2>11. RecordInv' /\ FramesIn(sent', DOMAIN sent') = FramesIn(sent, kept) \cup again
      <3>1. CASE again = {}
        <4>1. PICK q : q = sent'
          OBVIOUS
        <4>2. q = [n \in kept |-> sent[n]] /\ inFlight' = FlightOf(sent, kept) /\ UNCHANGED <<number, budget, armed>>
          BY <2>1, <2>2, <2>3, <2>7, <3>1, <4>1
        <4>3. /\ Packets(q, number - 1) /\ DOMAIN q = kept /\ (\A n \in kept : q[n] = sent[n])
              /\ FlightOf(q, DOMAIN q) = FlightOf(sent, kept) /\ FramesIn(q, DOMAIN q) = FramesIn(sent, kept)
          BY <1>3, <2>2, <4>2, PacketsLess
        <4>4. FlightOf(sent, kept) \in Nat
          BY <1>3, <2>2, FlightIs
        <4>5. PacketInv'
          BY <1>2, <4>1, <4>2, <4>3, <4>4 DEF RecordInv, PacketInv
        <4>6. TimedBy(sent', lossTime', armed', largestAcked')
          BY <1>2, <2>2, <2>9, <4>1, <4>2, <4>3 DEF RecordInv, TimedBy
        <4>7. WindowTyped'
          BY <1>2, <1>4, <1>5, <2>8, <2>9, <4>2 DEF RecordInv, WindowTyped
        <4>. QED
          BY <3>1, <4>1, <4>3, <4>5, <4>6, <4>7 DEF RecordInv
      <3>2. CASE again # {}
        <4>1. Build(kept, inFlight - WeightOf(lost), again)
          BY <2>1, <2>2, <2>3, <3>2
        <4>. QED
          BY <1>2, <1>4, <1>5, <2>2, <2>6, <2>7, <2>8, <2>9, <4>1, BuildStep
      <3>. QED
        BY <3>1, <3>2
    <2>12. Known' = Known
      BY <1>6, <1>9, <2>10, <2>11
    <2>13. QueueInv' /\ SentInv' /\ KnownInv'
      BY <1>1, <1>6, <2>12, StillStep
    <2>. QED
      BY <2>11, <2>13 DEF SenderInv
  <1>11. CASE /\ ~lossTime /\ \E n \in DOMAIN sent : Eliciting(sent[n])
              /\ LET oldest == {Min({n \in DOMAIN sent : Eliciting(sent[n])})} IN
                 Build(Tracked(oldest), inFlight, FramesOf(oldest))
              /\ UNCHANGED <<lossTime, congestionVars>>
    <2>1. PICK R : R = {n \in DOMAIN sent : Eliciting(sent[n])}
      OBVIOUS
    <2>2. PICK oldest : oldest = {Min(R)}
      OBVIOUS
    <2>3. Build(DOMAIN sent, inFlight, FramesOf(oldest)) /\ UNCHANGED <<lossTime, congestionVars>> /\ R # {}
      BY <1>11, <2>1, <2>2 DEF Tracked
    <2>4. oldest \in SUBSET DOMAIN sent
      <3>1. R \subseteq Nat
        <4>1. \A n \in 1..number - 1 : n \in Nat
          OBVIOUS
        <4>. QED
          BY <1>3, <2>1, <4>1
      <3>2. Min(R) \in R
        BY <2>3, <3>1, MinIs
      <3>. QED
        BY <2>1, <2>2, <3>2
    <2>5. PICK again : again = FramesOf(oldest)
      OBVIOUS
    <2>6. again = FramesIn(sent, oldest)
      BY <2>5 DEF FramesOf, FramesIn
    <2>7. again \in SUBSET SentFrames /\ IsFiniteSet(again)
      BY <1>3, <2>4, <2>6, RecordedFrames
    <2>8. UNCHANGED <<pathVars, congestionVars, lossVars, closed>>
      BY <1>1, <2>3 DEF lossVars
    <2>9. RecordInv' /\ FramesIn(sent', DOMAIN sent') = FramesIn(sent, DOMAIN sent) \cup again
      BY <1>2, <2>3, <2>5, <2>7, <2>8, BuildOnly
    <2>10. again \subseteq FramesIn(sent, DOMAIN sent)
      BY <2>4, <2>6 DEF FramesIn
    <2>11. Known' = Known
      BY <1>6, <1>9, <2>9, <2>10
    <2>12. QueueInv' /\ SentInv' /\ KnownInv'
      BY <1>1, <1>6, <2>11, StillStep
    <2>. QED
      BY <2>9, <2>12 DEF SenderInv
  <1>. QED
    BY <1>10, <1>11 DEF OnTimeout

-----------------------------------------------------------------------------
(* The other datagrams.                                                    *)

LEMMA RecvCreditKeeps ==
  ASSUME SenderInv, RecvCredit
  PROVE  SenderInv'
  <1>1. /\ Build(DOMAIN sent, inFlight, {})
        /\ UNCHANGED <<queueVars, producerVars, drainVars, streamVars, pathVars, congestionVars, lossVars, closed, acked>>
    BY DEF RecvCredit
  <1>2. RecordInv' /\ FramesIn(sent', DOMAIN sent') = FramesIn(sent, DOMAIN sent) \cup {}
    <2>1. {} \in SUBSET SentFrames /\ IsFiniteSet({})
      BY FS_EmptySet
    <2>2. RecordInv
      BY DEF SenderInv
    <2>3. UNCHANGED <<pathVars, congestionVars, lossVars, closed>>
      BY <1>1
    <2>. QED
      BY <1>1, <2>1, <2>2, <2>3, BuildOnly
  <1>3. acked' = acked /\ acked \subseteq SentFrames
    BY <1>1 DEF SenderInv, SentInv, CreditTyped
  <1>4. Known' = Known
    BY <1>2, <1>3 DEF Known, FramesOf, FramesIn
  <1>5. peerMaxData \in Nat /\ peerStreamMax \in [SendStreams -> Nat] /\ MaxCredit \in Nat
    BY SenderConstants DEF SenderInv, SentInv, CreditTyped
  <1>6. PICK most \in 1..MaxCredit :
          \/ peerMaxData' = Largest(peerMaxData, most) /\ UNCHANGED peerStreamMax
          \/ /\ \E s \in SendStreams : peerStreamMax' = [peerStreamMax EXCEPT ![s] = Largest(@, most)]
             /\ UNCHANGED peerMaxData
    BY DEF RecvCredit
  <1>7. most \in Nat
    BY <1>5
  <1>8. /\ peerMaxData' \in Nat /\ peerMaxData' >= peerMaxData /\ peerStreamMax' \in [SendStreams -> Nat]
        /\ \A s \in SendStreams : peerStreamMax'[s] >= peerStreamMax[s]
    <2>1. CASE peerMaxData' = Largest(peerMaxData, most) /\ UNCHANGED peerStreamMax
      <3>1. peerMaxData' \in Nat /\ peerMaxData' >= peerMaxData
        BY <1>5, <1>7, <2>1 DEF Largest
      <3>2. \A s \in SendStreams : peerStreamMax[s] \in Nat
        BY <1>5
      <3>. QED
        BY <1>5, <2>1, <3>1, <3>2
    <2>2. CASE /\ \E s \in SendStreams : peerStreamMax' = [peerStreamMax EXCEPT ![s] = Largest(@, most)]
               /\ UNCHANGED peerMaxData
      <3>1. PICK r \in SendStreams : peerStreamMax' = [peerStreamMax EXCEPT ![r] = Largest(peerStreamMax[r], most)]
        BY <2>2
      <3>2. peerStreamMax[r] \in Nat /\ Largest(peerStreamMax[r], most) \in Nat
            /\ Largest(peerStreamMax[r], most) >= peerStreamMax[r]
        BY <1>5, <1>7 DEF Largest
      <3>3. peerStreamMax' \in [SendStreams -> Nat]
        BY <1>5, <3>1, <3>2
      <3>4. ASSUME NEW s \in SendStreams PROVE peerStreamMax'[s] >= peerStreamMax[s]
        <4>1. peerStreamMax[s] \in Nat
          BY <1>5
        <4>2. peerStreamMax'[s] = IF s = r THEN Largest(peerStreamMax[r], most) ELSE peerStreamMax[s]
          BY <1>5, <3>1
        <4>. QED
          BY <3>2, <4>1, <4>2
      <3>. QED
        BY <1>5, <2>2, <3>3, <3>4
    <2>. QED
      BY <1>6, <2>1, <2>2
  <1>9. QueueInv' /\ SentInv' /\ KnownInv'
    <2>1. UNCHANGED <<queueVars, producerVars, drainVars, streamVars>>
      BY <1>1
    <2>. QED
      BY <1>3, <1>4, <1>8, <2>1, QuietStep
  <1>. QED
    BY <1>2, <1>9 DEF SenderInv

LEMMA RecvEarlyKeeps ==
  ASSUME SenderInv, RecvEarly
  PROVE  SenderInv'
  <1>1. /\ arrived' = arrived + 1 /\ budget' \in {budget, budget + 3}
        /\ UNCHANGED <<queueVars, producerVars, drainVars, streamVars, creditVars, validated, congestionVars, lossVars,
                       sent, number, inFlight, armed, closed, acked>>
    BY DEF RecvEarly
  <1>2. PacketInv /\ TimedBy(sent, lossTime, armed, largestAcked) /\ WindowTyped
    BY DEF SenderInv, RecordInv
  <1>3. UNCHANGED <<window, ssthresh, recoveryFrom, largestAcked, lossTime>>
    BY <1>1 DEF congestionVars, lossVars
  <1>4. budget' \in Nat
    BY <1>1, <1>2 DEF PacketInv
  <1>5. PacketInv'
    BY <1>1, <1>2, <1>4 DEF PacketInv
  <1>6. TimedBy(sent', lossTime', armed', largestAcked')
    BY <1>1, <1>2, <1>3
  <1>7. WindowTyped'
    BY <1>1, <1>2, <1>3 DEF WindowTyped
  <1>8. Known' = Known
    BY <1>1 DEF Known, FramesOf
  <1>9. acked' \subseteq SentFrames
    BY <1>1 DEF SenderInv, SentInv, CreditTyped
  <1>10. QueueInv' /\ SentInv' /\ KnownInv'
    BY <1>1, <1>8, <1>9, StillStep
  <1>. QED
    BY <1>5, <1>6, <1>7, <1>10 DEF SenderInv, RecordInv

LEMMA RecvFinishedKeeps ==
  ASSUME SenderInv, RecvFinished
  PROVE  SenderInv'
  <1>1. /\ validated' = TRUE /\ Record(DOMAIN sent, inFlight, {OtherFrame}, TRUE) /\ budget' = 0
        /\ UNCHANGED <<queueVars, producerVars, drainVars, streamVars, creditVars, arrived, congestionVars, lossVars,
                       closed, acked>>
    BY DEF RecvFinished
  <1>2. RecordInv
    BY DEF SenderInv
  <1>3. PICK frames : frames = {OtherFrame}
    OBVIOUS
  <1>4. frames \in SUBSET SentFrames /\ IsFiniteSet(frames) /\ \A f \in frames : ~Carries(f)
    <2>1. frames \subseteq SentFrames
      BY <1>3 DEF SentFrames
    <2>2. IsFiniteSet(frames)
      BY <1>3, FS_Singleton
    <2>3. ~Carries(OtherFrame)
      BY DEF OtherFrame, Carries
    <2>. QED
      BY <1>3, <2>1, <2>2, <2>3
  <1>5. UNCHANGED <<arrived, window, ssthresh, recoveryFrom, largestAcked, lossTime, closed>>
    BY <1>1 DEF congestionVars, lossVars
  <1>6. WindowTyped /\ TimedBy(sent, lossTime, armed, largestAcked) /\ inFlight = FlightOf(sent, DOMAIN sent)
    BY <1>2 DEF RecordInv, PacketInv
  <1>7. /\ largestAcked' \in 0..number - 1 /\ lossTime' \in BOOLEAN
        /\ (lossTime' <=> \E n \in DOMAIN sent : n <= largestAcked')
        /\ window' \in Nat /\ window' >= Smallest(InitialWindow, MinimumWindow) /\ ssthresh' \in Nat \cup {Absent}
        /\ recoveryFrom' \in 0..number /\ validated' \in BOOLEAN /\ closed' \in BOOLEAN /\ arrived' \in Nat
        /\ budget' \in Nat
    BY <1>1, <1>5, <1>6 DEF WindowTyped, TimedBy
  <1>8. DOMAIN sent \in SUBSET DOMAIN sent /\ TRUE \in BOOLEAN /\ Record(DOMAIN sent, inFlight, frames, TRUE)
    BY <1>1, <1>3
  <1>9. RecordInv' /\ FramesIn(sent', DOMAIN sent') = FramesIn(sent, DOMAIN sent) \cup frames
    BY <1>2, <1>4, <1>6, <1>7, <1>8, RecordStep
  <1>10. acked' = acked /\ acked \subseteq SentFrames
    BY <1>1 DEF SenderInv, SentInv, CreditTyped
  <1>11. Known' = Known \cup frames
    BY <1>9, <1>10 DEF Known, FramesOf, FramesIn
  <1>12. Known \subseteq Known' /\ \A f \in Known' \ Known : ~Carries(f)
    BY <1>4, <1>11
  <1>13. QueueInv' /\ SentInv' /\ KnownInv'
    BY <1>1, <1>10, <1>12, StillStep
  <1>. QED
    BY <1>9, <1>13 DEF SenderInv

\* A step that touches nothing but who is still there.
LEMMA EndConnectionKeeps ==
  ASSUME SenderInv, EndConnection
  PROVE  SenderInv'
  <1>1. /\ closed' = TRUE
        /\ UNCHANGED <<queueVars, producerVars, drainVars, streamVars, creditVars, pathVars, congestionVars, lossVars,
                       packetVars, acked>>
    BY DEF EndConnection
  <1>2. UNCHANGED <<sent, number, inFlight, budget, armed, window, ssthresh, recoveryFrom, largestAcked, lossTime,
                    validated, arrived>>
    BY <1>1 DEF packetVars, congestionVars, lossVars, pathVars
  <1>3. RecordInv'
    BY <1>1, <1>2 DEF SenderInv, RecordInv, PacketInv, WindowTyped
  <1>4. Known' = Known
    BY <1>1, <1>2 DEF Known, FramesOf
  <1>5. acked' \subseteq SentFrames
    BY <1>1 DEF SenderInv, SentInv, CreditTyped
  <1>6. QueueInv' /\ SentInv' /\ KnownInv'
    BY <1>1, <1>4, <1>5, StillStep
  <1>. QED
    BY <1>3, <1>6 DEF SenderInv

-----------------------------------------------------------------------------
(* QuicSender: what the steps of the queue need.                           *)

LEMMA RangeOnAppend ==
  ASSUME NEW q \in Seq(Entries), NEW e \in Entries
  PROVE  Append(q, e) \in Seq(Entries) /\ Range(Append(q, e)) = Range(q) \cup {e}
  <1>1. PICK n \in Nat : n = Len(q) /\ DOMAIN q = 1..n
    OBVIOUS
  <1>2. PICK p : p = Append(q, e)
    OBVIOUS
  <1>3. p \in Seq(Entries) /\ DOMAIN p = 1..n + 1 /\ p[n + 1] = e /\ \A i \in 1..n : p[i] = q[i]
    BY <1>1, <1>2
  <1>4. \A x : x \in Range(p) <=> \E i \in 1..n + 1 : x = p[i]
    BY <1>3 DEF Range
  <1>5. \A x : x \in Range(q) <=> \E i \in 1..n : x = q[i]
    BY <1>1 DEF Range
  <1>6. \A i \in 1..n + 1 : i = n + 1 \/ i \in 1..n
    OBVIOUS
  <1>7. n + 1 \in 1..n + 1 /\ \A i \in 1..n : i \in 1..n + 1
    OBVIOUS
  <1>8. ASSUME NEW x PROVE x \in Range(p) <=> x \in Range(q) \cup {e}
    BY <1>3, <1>4, <1>5, <1>6, <1>7
  <1>. QED
    BY <1>2, <1>3, <1>8

LEMMA RangeOnConcat ==
  ASSUME NEW q \in Seq(Entries), NEW r \in Seq(Entries)
  PROVE  q \o r \in Seq(Entries) /\ Range(q \o r) = Range(q) \cup Range(r)
  <1>1. PICK n \in Nat : n = Len(q) /\ DOMAIN q = 1..n
    OBVIOUS
  <1>2. PICK m \in Nat : m = Len(r) /\ DOMAIN r = 1..m
    OBVIOUS
  <1>3. PICK p : p = q \o r
    OBVIOUS
  <1>4. p \in Seq(Entries) /\ DOMAIN p = 1..n + m /\ (\A i \in 1..n : p[i] = q[i]) /\ \A i \in 1..m : p[n + i] = r[i]
    BY <1>1, <1>2, <1>3
  <1>5. \A x : x \in Range(p) <=> \E i \in 1..n + m : x = p[i]
    BY <1>4 DEF Range
  <1>6. \A x : x \in Range(q) <=> \E i \in 1..n : x = q[i]
    BY <1>1 DEF Range
  <1>7. \A x : x \in Range(r) <=> \E i \in 1..m : x = r[i]
    BY <1>2 DEF Range
  <1>8. ASSUME NEW x \in Range(p) PROVE x \in Range(q) \cup Range(r)
    <2>1. PICK i \in 1..n + m : x = p[i]
      BY <1>5
    <2>2. CASE i \in 1..n
      BY <1>4, <1>6, <2>1, <2>2
    <2>3. CASE ~(i <= n)
      <3>1. i - n \in 1..m /\ i = n + (i - n)
        BY <2>3
      <3>2. PICK j \in 1..m : i = n + j
        BY <3>1
      <3>. QED
        BY <1>4, <1>7, <2>1, <3>2
    <2>. QED
      BY <2>2, <2>3
  <1>9. ASSUME NEW x \in Range(q) \cup Range(r) PROVE x \in Range(p)
    <2>1. \A i \in 1..n : i \in 1..n + m
      OBVIOUS
    <2>2. \A i \in 1..m : n + i \in 1..n + m
      OBVIOUS
    <2>. QED
      BY <1>4, <1>5, <1>6, <1>7, <2>1, <2>2
  <1>. QED
    BY <1>3, <1>4, <1>8, <1>9

LEMMA RangeOfFirst ==
  ASSUME NEW q \in Seq(Entries), q # <<>>
  PROVE  /\ Head(q) \in Entries /\ Tail(q) \in Seq(Entries)
         /\ Head(q) \in Range(q) /\ Range(q) = {Head(q)} \cup Range(Tail(q))
  <1>1. PICK n \in Nat : n = Len(q) /\ DOMAIN q = 1..n /\ n > 0
    OBVIOUS
  <1>2. PICK t : t = Tail(q)
    OBVIOUS
  <1>3. PICK e : e = Head(q)
    OBVIOUS
  <1>4. t \in Seq(Entries) /\ DOMAIN t = 1..n - 1 /\ (\A i \in 1..n - 1 : t[i] = q[i + 1]) /\ e = q[1] /\ n - 1 \in Nat
    BY <1>1, <1>2, <1>3
  <1>5. \A x : x \in Range(q) <=> \E i \in 1..n : x = q[i]
    BY <1>1 DEF Range
  <1>6. \A x : x \in Range(t) <=> \E i \in 1..n - 1 : x = t[i]
    BY <1>4 DEF Range
  <1>7. 1 \in 1..n
    BY <1>1
  <1>8. e \in Entries /\ e \in Range(q)
    BY <1>1, <1>4, <1>5, <1>7
  <1>9. ASSUME NEW x \in Range(q) PROVE x = e \/ x \in Range(t)
    <2>1. PICK i \in 1..n : x = q[i]
      BY <1>5
    <2>2. CASE i = 1
      BY <1>4, <2>1, <2>2
    <2>3. CASE i # 1
      <3>1. i - 1 \in 1..n - 1 /\ i = (i - 1) + 1
        BY <1>1, <2>3
      <3>2. PICK j \in 1..n - 1 : i = j + 1
        BY <3>1
      <3>. QED
        BY <1>4, <1>6, <2>1, <3>2
    <2>. QED
      BY <2>2, <2>3
  <1>10. ASSUME NEW x \in Range(t) PROVE x \in Range(q)
    <2>1. PICK i \in 1..n - 1 : x = t[i]
      BY <1>6
    <2>2. i + 1 \in 1..n
      BY <1>1
    <2>. QED
      BY <1>4, <1>5, <2>1, <2>2
  <1>. QED
    BY <1>2, <1>3, <1>4, <1>8, <1>9, <1>10

\* A way never leads back.
LEMMA LeadsForward ==
  ASSUME NEW q \in Seq(Entries), NEW s, NEW a, NEW b, Leads(q, s, a, b)
  PROVE  a \in Nat /\ b \in Nat /\ a <= b
  <1>1. PICK n \in Nat : n = Len(q)
    OBVIOUS
  <1>2. a \in Nat /\ b \in Nat
    BY LeadsTyped
  <1>3. PICK m \in Nat : m = BytesOf(q, s, Len(q))
    <2>1. n \in 0..n
      OBVIOUS
    <2>. QED
      BY <1>1, <2>1, BytesAre
  <1>4. b = a + m
    BY <1>3, LeadsBytes
  <1>. QED
    BY <1>2, <1>4

\* An entry that is no piece of the stream.
LEMMA LeadsAside ==
  ASSUME NEW q \in Seq(Entries), NEW e \in Entries, NEW s, ~PieceOf(e, s), NEW a, NEW b, Leads(q, s, a, b)
  PROVE  Leads(Append(q, e), s, a, b)
  <1>1. b \in Nat
    BY LeadsTyped
  <1>2. Moves(e, s, b, b)
    BY DEF Moves
  <1>. QED
    BY <1>1, <1>2, LeadsOn

\* A step that records no packet.
LEMMA NothingRecorded ==
  ASSUME SenderInv, UNCHANGED <<pathVars, congestionVars, lossVars, packetVars, closed, acked>>
  PROVE  RecordInv' /\ Known' = Known
  <1>1. UNCHANGED <<sent, number, inFlight, budget, armed, window, ssthresh, recoveryFrom, largestAcked, lossTime,
                    validated, arrived, closed, acked>>
    BY DEF packetVars, congestionVars, lossVars, pathVars
  <1>2. RecordInv'
    BY <1>1 DEF SenderInv, RecordInv, PacketInv, WindowTyped
  <1>3. Known' = Known
    BY <1>1 DEF Known, FramesOf
  <1>. QED
    BY <1>2, <1>3

\* Nor sends anything of a stream.
LEMMA NothingSent ==
  ASSUME SenderInv, UNCHANGED <<pathVars, congestionVars, lossVars, packetVars, closed, acked>>,
         UNCHANGED <<offset, total, creditVars>>
  PROVE  RecordInv' /\ Known' = Known /\ WithinCredit' /\ TruthInv' /\ BytesInv' /\ \A s : KnownOf(s)' = KnownOf(s)
  <1>1. RecordInv' /\ Known' = Known
    BY NothingRecorded
  <1>2. UNCHANGED <<peerMaxData, peerStreamMax, offset, total>>
    BY DEF creditVars
  <1>3. WithinCredit /\ TruthInv /\ BytesInv
    BY DEF SenderInv, SentInv, KnownInv
  <1>4. WithinCredit'
    BY <1>2, <1>3 DEF WithinCredit
  <1>5. TruthInv'
    BY <1>1, <1>2, <1>3 DEF TruthInv
  <1>6. \A s : KnownOf(s)' = KnownOf(s)
    BY <1>1 DEF KnownOf
  <1>7. BytesInv'
    BY <1>2, <1>3, <1>6 DEF BytesInv
  <1>. QED
    BY <1>1, <1>4, <1>5, <1>6, <1>7

-----------------------------------------------------------------------------
(* The producers.                                                          *)

\* A queue without a piece of the stream leaves it where it was.
LEMMA LeadsAround ==
  ASSUME NEW q \in Seq(Entries), NEW s, \A e \in Range(q) : ~PieceOf(e, s), NEW a \in Nat
  PROVE  Leads(q, s, a, a)
  <1>1. PICK n \in Nat : n = Len(q) /\ DOMAIN q = 1..n
    OBVIOUS
  <1>2. PICK f : f = [k \in 0..n |-> a]
    OBVIOUS
  <1>3. f \in [0..n -> Nat] /\ f[0] = a /\ f[n] = a /\ \A k \in 1..n : f[k - 1] = a /\ f[k] = a
    BY <1>2
  <1>4. \A k \in 1..n : Moves(q[k], s, f[k - 1], f[k])
    BY <1>1, <1>3 DEF Moves, Range
  <1>5. Way(q, s, a, a, f)
    BY <1>1, <1>3, <1>4 DEF Way
  <1>. QED
    BY <1>5 DEF Leads

\* The pieces of one call lead from its first byte to its last.
LEMMA PiecesAre ==
  ASSUME NEW s \in SendStreams, NEW a \in Nat, NEW len \in Nat, NEW fin \in BOOLEAN,
         NEW q, q = PiecesOf(s, a, len, fin)
  PROVE  /\ q \in Seq(Entries) /\ \A e \in Range(q) : e.kind = "data" /\ e.s = s
         /\ Leads(q, s, a, a + len)
         /\ fin = TRUE => \E e \in Range(q) : HasEnd(e, s)
  <1>1. Chunk \in Nat /\ Chunk >= 1
    BY SenderConstants
  <1>2. PICK n : n = Largest(1, (len + Chunk - 1) \div Chunk)
    OBVIOUS
  <1>3. n \in Nat /\ n >= 1 /\ len <= n * Chunk /\ (n = 1 \/ (n - 1) * Chunk <= len)
    <2>1. PICK d : d = (len + Chunk - 1) \div Chunk
      OBVIOUS
    <2>2. d \in Int /\ Chunk * d <= len + Chunk - 1 /\ len + Chunk - 1 < Chunk * d + Chunk
      BY <1>1, <2>1
    <2>3. CASE 1 > d
      <3>1. n = 1
        BY <1>2, <2>1, <2>2, <2>3 DEF Largest
      <3>2. Chunk * d <= 0
        BY <1>1, <2>2, <2>3
      <3>. QED
        BY <1>1, <2>2, <3>1, <3>2
    <2>4. CASE d >= 1
      <3>1. n = d
        BY <1>2, <2>1, <2>2, <2>4 DEF Largest
      <3>2. n * Chunk = Chunk * d /\ (n - 1) * Chunk = Chunk * d - Chunk
        BY <1>1, <2>2, <3>1
      <3>. QED
        BY <1>1, <2>2, <2>4, <3>1, <3>2
    <2>. QED
      BY <2>2, <2>3, <2>4
  <1>4. PICK L : L = [i \in 1..n |-> IF i < n THEN Chunk ELSE len - (n - 1) * Chunk]
    OBVIOUS
  <1>5. PICK at : at = [i \in 1..n |-> a + (i - 1) * Chunk]
    OBVIOUS
  <1>6. \A i \in 1..n : L[i] \in Nat
    <2>1. ASSUME NEW i \in 1..n PROVE L[i] \in Nat
      <3>1. CASE i < n
        BY <1>1, <1>4, <3>1
      <3>2. CASE i = n
        <4>1. L[i] = len - (n - 1) * Chunk
          BY <1>4, <3>2
        <4>2. CASE n = 1
          BY <1>1, <4>1, <4>2
        <4>3. CASE (n - 1) * Chunk <= len
          BY <1>1, <1>3, <4>1, <4>3
        <4>. QED
          BY <1>3, <4>2, <4>3
      <3>. QED
        BY <1>3, <3>1, <3>2
    <2>. QED
      BY <2>1
  <1>7. \A i \in 1..n : at[i] \in Nat
    <2>1. ASSUME NEW i \in 1..n PROVE at[i] \in Nat
      <3>1. PICK j \in Nat : j = i - 1
        BY <1>3
      <3>2. j * Chunk \in Nat
        BY <1>1
      <3>. QED
        BY <1>5, <3>1, <3>2
    <2>. QED
      BY <2>1
  <1>8. q = [i \in 1..n |-> Piece(s, at[i], L[i], fin /\ i = n)]
    BY <1>2, <1>4, <1>5 DEF PiecesOf
  <1>9. \A i \in 1..n : /\ q[i] \in Entries /\ q[i].kind = "data" /\ q[i].s = s
                         /\ q[i].from = at[i] /\ q[i].len = L[i] /\ q[i].fin = (fin /\ i = n)
    BY <1>6, <1>7, <1>8 DEF Piece, Entries
  <1>10. q \in [1..n -> Entries] /\ DOMAIN q = 1..n
    BY <1>8, <1>9
  <1>11. q \in Seq(Entries) /\ Len(q) = n
    BY <1>3, <1>10
  <1>12. PICK f : f = [k \in 0..n |-> IF k = n THEN a + len ELSE a + k * Chunk]
    OBVIOUS
  <1>13. f \in [0..n -> Nat] /\ f[0] = a /\ f[n] = a + len
    <2>1. ASSUME NEW k \in 0..n PROVE f[k] \in Nat
      <3>1. k \in Nat /\ k * Chunk \in Nat
        BY <1>1, <1>3
      <3>. QED
        BY <1>12, <3>1
    <2>2. 0 \in 0..n /\ n \in 0..n /\ 0 # n /\ 0 * Chunk = 0
      BY <1>1, <1>3
    <2>. QED
      BY <1>12, <2>1, <2>2
  <1>14. ASSUME NEW i \in 1..n PROVE Moves(q[i], s, f[i - 1], f[i])
    <2>1. i - 1 \in 0..n /\ i \in 0..n /\ i - 1 # n
      BY <1>3
    <2>2. f[i - 1] = at[i]
      BY <1>5, <1>12, <2>1
    <2>3. f[i] = at[i] + L[i]
      <3>1. CASE i < n
        <4>1. i * Chunk = (i - 1) * Chunk + Chunk
          BY <1>1
        <4>2. L[i] = Chunk /\ f[i] = a + i * Chunk /\ at[i] = a + (i - 1) * Chunk
          BY <1>4, <1>5, <1>12, <2>1, <3>1
        <4>3. (i - 1) * Chunk \in Int
          BY <1>1
        <4>. QED
          BY <1>1, <4>1, <4>2, <4>3
      <3>2. CASE i = n
        <4>1. (n - 1) * Chunk \in Int
          BY <1>1, <1>3
        <4>2. L[i] = len - (n - 1) * Chunk /\ f[i] = a + len /\ at[i] = a + (n - 1) * Chunk
          BY <1>4, <1>5, <1>12, <2>1, <3>2
        <4>. QED
          BY <4>1, <4>2
      <3>. QED
        BY <1>3, <3>1, <3>2
    <2>4. PieceOf(q[i], s)
      BY <1>9 DEF PieceOf
    <2>. QED
      BY <1>9, <2>2, <2>3, <2>4 DEF Moves
  <1>15. Way(q, s, a, a + len, f)
    BY <1>11, <1>13, <1>14 DEF Way
  <1>16. \A e \in Range(q) : e.kind = "data" /\ e.s = s
    BY <1>9, <1>10 DEF Range
  <1>17. ASSUME fin = TRUE PROVE \E e \in Range(q) : HasEnd(e, s)
    <2>1. n \in 1..n
      BY <1>3
    <2>2. HasEnd(q[n], s)
      BY <1>9, <1>17, <2>1 DEF HasEnd, PieceOf
    <2>. QED
      BY <1>10, <2>1, <2>2 DEF Range
  <1>. QED
    BY <1>11, <1>15, <1>16, <1>17 DEF Leads

LEMMA QueueKeeps ==
  ASSUME SenderInv, NEW s \in SendStreams, Queue(s)
  PROVE  SenderInv'
  <1>1. PICK len \in 0..MaxBytes - produced[s], fin \in BOOLEAN :
          /\ outbound' = outbound \o PiecesOf(s, produced[s], len, fin)
          /\ queuedBytes' = [queuedBytes EXCEPT ![s] = queuedBytes[s] + len]
          /\ produced' = [produced EXCEPT ![s] = produced[s] + len]
          /\ finished' = IF fin THEN finished \cup {s} ELSE finished
    BY DEF Queue
  <1>2. /\ s \notin finished
        /\ UNCHANGED <<drainVars, streamVars, creditVars, pathVars, congestionVars, lossVars, packetVars, closed, acked>>
    BY DEF Queue
  <1>3. UNCHANGED <<batch, draining, keep, control, stalled, stopped, offset, total, resets, reported>>
    BY <1>2 DEF drainVars, streamVars
  <1>4. QueueTyped /\ LineInv /\ RestInv /\ HeldInv /\ GivenUpInv
    BY DEF SenderInv, QueueInv
  <1>5. MaxBytes \in Nat
    BY SenderConstants
  <1>6. produced[s] \in Nat /\ queuedBytes[s] \in Nat /\ len \in Nat /\ produced[s] + len <= MaxBytes
    <2>1. produced[s] \in 0..MaxBytes
      BY <1>4 DEF QueueTyped
    <2>. QED
      BY <1>4, <1>5, <2>1 DEF QueueTyped
  <1>7. PICK q : q = PiecesOf(s, produced[s], len, fin)
    OBVIOUS
  <1>8. /\ q \in Seq(Entries) /\ \A e \in Range(q) : e.kind = "data" /\ e.s = s
        /\ Leads(q, s, produced[s], produced[s] + len)
        /\ fin = TRUE => \E e \in Range(q) : HasEnd(e, s)
    <2>0. s \in SendStreams /\ len \in Nat /\ fin \in BOOLEAN
      BY <1>6
    <2>1. PICK a \in Nat : a = produced[s]
      BY <1>6
    <2>2. q = PiecesOf(s, a, len, fin)
      BY <1>7, <2>1
    <2>3. /\ q \in Seq(Entries) /\ \A e \in Range(q) : e.kind = "data" /\ e.s = s
          /\ Leads(q, s, a, a + len)
          /\ fin = TRUE => \E e \in Range(q) : HasEnd(e, s)
      BY ONLY <2>0, <2>2, PiecesAre, ZenonT(30)
    <2>. QED
      BY <2>1, <2>3
  <1>9. outbound \in Seq(Entries) /\ batch \in Seq(Entries) /\ keep \in Seq(Entries)
    BY <1>4 DEF QueueTyped
  <1>10. outbound' = outbound \o q /\ outbound' \in Seq(Entries) /\ Range(outbound') = Range(outbound) \cup Range(q)
    BY <1>1, <1>7, <1>8, <1>9, RangeOnConcat
  <1>11. QueueTyped'
    <2>1. produced' \in [SendStreams -> 0..MaxBytes] /\ queuedBytes' \in [SendStreams -> Nat]
      <3>1. produced[s] + len \in 0..MaxBytes /\ queuedBytes[s] + len \in Nat
        BY <1>5, <1>6
      <3>. QED
        BY <1>1, <1>4, <3>1 DEF QueueTyped
    <2>2. finished' \subseteq SendStreams /\ resets' \subseteq finished' \ {Control}
      BY <1>1, <1>3, <1>4 DEF QueueTyped
    <2>. QED
      BY <1>3, <1>4, <1>10, <2>1, <2>2 DEF QueueTyped
  <1>12. Abandon(s) \notin Range(batch) \cup Range(outbound)
    <2>1. Abandon(s).kind = "reset" /\ Abandon(s).s = s
      BY DEF Abandon
    <2>. QED
      BY <1>2, <1>4, <2>1 DEF GivenUpInv
  <1>13. \A r : Abandon(r) \notin Range(q)
    BY <1>8 DEF Abandon
  <1>14. LineInv'
    <2> SUFFICES ASSUME NEW r \in SendStreams \ resets
                 PROVE  Along(r, keep, batch, outbound', offset[r], produced'[r])
      BY <1>3 DEF LineInv
    <2>1. PICK b, c, d : /\ Leads(keep, r, offset[r], b) /\ Leads(batch, r, b, c) /\ Leads(outbound, r, c, d)
                         /\ d <= produced[r]
                         /\ Abandon(r) \notin Range(batch) \cup Range(outbound) => d = produced[r]
      BY <1>4 DEF LineInv, Along
    <2>2. CASE r = s
      <3>1. d = produced[s]
        BY <1>12, <2>1, <2>2
      <3>2. d \in Nat /\ d + len \in Nat
        BY <1>6, <3>1
      <3>3. Leads(q, r, d, d + len)
        BY <1>8, <2>2, <3>1
      <3>4. Leads(outbound', r, c, d + len)
        BY <1>8, <1>9, <1>10, <2>1, <3>3, LeadsBoth
      <3>5. produced'[r] = d + len
        BY <1>1, <1>4, <2>2, <3>1 DEF QueueTyped
      <3>6. d + len <= produced'[r]
        BY <3>2, <3>5
      <3>. QED
        BY <2>1, <3>4, <3>5, <3>6 DEF Along
    <2>3. CASE r # s
      <3>1. \A e \in Range(q) : ~PieceOf(e, r)
        BY <1>8, <2>3 DEF PieceOf
      <3>2. Leads(outbound', r, c, d)
        <4>1. d \in Nat
          BY <1>9, <2>1, LeadsTyped
        <4>2. Leads(q, r, d, d)
          BY <1>8, <3>1, <4>1, LeadsAround
        <4>. QED
          BY <1>8, <1>9, <1>10, <2>1, <4>2, LeadsBoth
      <3>3. produced'[r] = produced[r]
        BY <1>1, <1>4, <2>3 DEF QueueTyped
      <3>. QED
        BY <1>10, <2>1, <3>2, <3>3 DEF Along
    <2>. QED
      BY <2>2, <2>3
  <1>15. RestInv' /\ HeldInv'
    BY <1>3, <1>4 DEF RestInv, HeldInv
  <1>16. GivenUpInv'
    BY <1>1, <1>3, <1>4, <1>8, <1>10 DEF GivenUpInv
  <1>17. RecordInv' /\ Known' = Known /\ WithinCredit' /\ TruthInv' /\ BytesInv' /\ \A r : KnownOf(r)' = KnownOf(r)
    BY <1>2, <1>3, NothingSent
  <1>18. CreditTyped /\ EndInv /\ ResetInv
    BY DEF SenderInv, SentInv, KnownInv
  <1>19. CreditTyped'
    BY <1>2, <1>3, <1>18 DEF CreditTyped, creditVars
  <1>20. EndInv'
    <2> SUFFICES ASSUME NEW r \in finished' \ {Control}, Live(r)'
                 PROVE  (\E x \in Range(keep)' \cup Range(batch)' \cup Range(outbound)' : HasEnd(x, r))
                        \/ \E f \in KnownOf(r)' : f.fin
      BY DEF EndInv
    <2>1. Live(r)
      BY <1>3, <1>10 DEF Live
    <2>2. CASE r \in finished
      BY <1>3, <1>10, <1>17, <1>18, <2>1, <2>2 DEF EndInv
    <2>3. CASE r \notin finished
      <3>1. r = s /\ fin
        BY <1>1, <2>3
      <3>2. \E e \in Range(q) : HasEnd(e, r)
        BY <1>8, <3>1
      <3>. QED
        BY <1>10, <3>2
    <2>. QED
      BY <2>2, <2>3
  <1>21. ResetInv'
    BY <1>3, <1>17, <1>18 DEF ResetInv
  <1>. QED
    BY <1>11, <1>14, <1>15, <1>16, <1>17, <1>19, <1>20, <1>21 DEF SenderInv, QueueInv, SentInv, KnownInv

LEMMA ResetStreamKeeps ==
  ASSUME SenderInv, NEW s \in SendStreams, ResetStream(s)
  PROVE  SenderInv'
  <1>1. /\ s \notin finished
        /\ outbound' = Append(Without(outbound, s), Abandon(s))
        /\ queuedBytes' = [queuedBytes EXCEPT ![s] = 0]
        /\ finished' = finished \cup {s}
        /\ UNCHANGED <<produced, drainVars, streamVars, creditVars, pathVars, congestionVars, lossVars, packetVars,
                       closed, acked>>
    BY DEF ResetStream
  <1>3. UNCHANGED <<batch, draining, keep, control, stalled, stopped, offset, total, resets, reported>>
    BY <1>1 DEF drainVars, streamVars
  <1>4. QueueTyped /\ LineInv /\ RestInv /\ HeldInv /\ GivenUpInv
    BY DEF SenderInv, QueueInv
  <1>5. PICK e : e = Abandon(s)
    OBVIOUS
  <1>6. e \in Entries /\ e.kind = "reset" /\ e.s = s
    BY <1>5 DEF Abandon, Entries
  <1>7. outbound \in Seq(Entries) /\ batch \in Seq(Entries) /\ keep \in Seq(Entries)
    BY <1>4 DEF QueueTyped
  <1>8. PICK left : left = Without(outbound, s)
    OBVIOUS
  <1>9. /\ left \in Seq(Entries)
        /\ \A x : x \in Range(left) <=> x \in Range(outbound) /\ x.s # s
        /\ \A r, a, b : r # s /\ Leads(outbound, r, a, b) => Leads(left, r, a, b)
    BY <1>7, <1>8, WithoutIs
  <1>10. outbound' = Append(left, e) /\ outbound' \in Seq(Entries) /\ Range(outbound') = Range(left) \cup {e}
    BY <1>1, <1>5, <1>6, <1>8, <1>9, RangeOnAppend
  <1>11. QueueTyped'
    <2>1. queuedBytes' \in [SendStreams -> Nat]
      BY <1>1, <1>4 DEF QueueTyped
    <2>2. finished' \subseteq SendStreams /\ resets' \subseteq finished' \ {Control}
      BY <1>1, <1>3, <1>4 DEF QueueTyped
    <2>. QED
      BY <1>1, <1>3, <1>4, <1>10, <2>1, <2>2 DEF QueueTyped
  <1>12. \A r : r # s => (Abandon(r) \in Range(outbound)' <=> Abandon(r) \in Range(outbound))
    <2>1. \A r : Abandon(r).s = r
      BY DEF Abandon
    <2>. QED
      BY <1>6, <1>9, <1>10, <2>1
  <1>13. Abandon(s) \in Range(outbound)'
    BY <1>5, <1>10
  <1>14. LineInv'
    <2> SUFFICES ASSUME NEW r \in SendStreams \ resets
                 PROVE  Along(r, keep, batch, outbound', offset[r], produced[r])
      BY <1>1, <1>3 DEF LineInv
    <2>1. PICK b, c, d : /\ Leads(keep, r, offset[r], b) /\ Leads(batch, r, b, c) /\ Leads(outbound, r, c, d)
                         /\ d <= produced[r]
                         /\ Abandon(r) \notin Range(batch) \cup Range(outbound) => d = produced[r]
      BY <1>4 DEF LineInv, Along
    <2>2. ~PieceOf(e, r)
      BY <1>6 DEF PieceOf
    <2>3. CASE r = s
      <3>1. \A i \in DOMAIN left : ~PieceOf(left[i], s)
        <4>1. \A i \in DOMAIN left : left[i] \in Range(left)
          BY DEF Range
        <4>. QED
          BY <1>9, <4>1 DEF PieceOf
      <3>2. c \in Nat /\ d \in Nat /\ c <= d
        BY <1>7, <2>1, LeadsForward
      <3>3. Leads(left, s, c, c)
        BY <1>9, <3>1, <3>2, LeadsStill
      <3>4. Leads(outbound', r, c, c)
        BY <1>6, <1>9, <1>10, <2>2, <2>3, <3>3, LeadsAside
      <3>5. c <= produced[r]
        <4>1. produced[r] \in 0..MaxBytes /\ MaxBytes \in Nat
          BY <1>4, SenderConstants DEF QueueTyped
        <4>. QED
          BY <2>1, <3>2, <4>1
      <3>. QED
        BY <1>13, <2>1, <2>3, <3>4, <3>5 DEF Along
    <2>4. CASE r # s
      <3>1. Leads(left, r, c, d)
        BY <1>9, <2>1, <2>4
      <3>2. Leads(outbound', r, c, d)
        BY <1>6, <1>9, <1>10, <2>2, <3>1, LeadsAside
      <3>. QED
        BY <1>12, <2>1, <2>4, <3>2 DEF Along
    <2>. QED
      BY <2>3, <2>4
  <1>15. RestInv' /\ HeldInv'
    BY <1>3, <1>4 DEF RestInv, HeldInv
  <1>16. GivenUpInv'
    <2>1. s # Control
      BY <1>1, <1>4 DEF GivenUpInv
    <2>. QED
      BY <1>1, <1>3, <1>4, <1>6, <1>9, <1>10, <2>1 DEF GivenUpInv
  <1>17. RecordInv' /\ Known' = Known /\ WithinCredit' /\ TruthInv' /\ BytesInv' /\ \A r : KnownOf(r)' = KnownOf(r)
    BY <1>1, <1>3, NothingSent
  <1>18. CreditTyped /\ EndInv /\ ResetInv
    BY DEF SenderInv, SentInv, KnownInv
  <1>19. CreditTyped'
    BY <1>1, <1>3, <1>18 DEF CreditTyped, creditVars
  <1>20. EndInv'
    <2> SUFFICES ASSUME NEW r \in finished' \ {Control}, Live(r)'
                 PROVE  (\E x \in Range(keep)' \cup Range(batch)' \cup Range(outbound)' : HasEnd(x, r))
                        \/ \E f \in KnownOf(r)' : f.fin
      BY DEF EndInv
    <2>1. r # s
      BY <1>13 DEF Live
    <2>2. Live(r) /\ r \in finished \ {Control}
      BY <1>1, <1>3, <1>12, <2>1 DEF Live
    <2>3. (\E x \in Range(keep) \cup Range(batch) \cup Range(outbound) : HasEnd(x, r)) \/ \E f \in KnownOf(r) : f.fin
      BY <1>18, <2>2 DEF EndInv
    <2>4. \A x \in Range(outbound) : HasEnd(x, r) => x \in Range(outbound')
      BY <1>9, <1>10, <2>1 DEF HasEnd, PieceOf
    <2>. QED
      BY <1>3, <1>17, <2>3, <2>4
  <1>21. ResetInv'
    BY <1>3, <1>17, <1>18 DEF ResetInv
  <1>. QED
    BY <1>11, <1>14, <1>15, <1>16, <1>17, <1>19, <1>20, <1>21 DEF SenderInv, QueueInv, SentInv, KnownInv

-----------------------------------------------------------------------------
(* drain_outbound.                                                         *)

LEMMA DrainTakeKeeps ==
  ASSUME SenderInv, DrainTake
  PROVE  SenderInv'
  <1>1. /\ ~draining /\ draining' = TRUE /\ batch' = outbound /\ outbound' = <<>>
        /\ keep' = <<>> /\ control' = {} /\ stalled' = {} /\ stopped' = FALSE
        /\ UNCHANGED <<queuedBytes, producerVars, streamVars, creditVars, pathVars, congestionVars, lossVars, packetVars,
                       closed, acked>>
    BY DEF DrainTake, Idle
  <1>2. UNCHANGED <<produced, finished, offset, total, resets, reported>>
    BY <1>1 DEF producerVars, streamVars
  <1>3. QueueTyped /\ LineInv /\ RestInv /\ HeldInv /\ GivenUpInv
    BY DEF SenderInv, QueueInv
  <1>4. keep = <<>> /\ batch = <<>> /\ control = {}
    BY <1>1, <1>3 DEF RestInv
  <1>5. Range(keep') = {} /\ Range(outbound') = {} /\ Range(batch') = Range(outbound) /\ Range(keep) = {} /\ Range(batch) = {}
    BY <1>1, <1>4, RangeOfOne
  <1>6. QueueTyped'
    <2>1. <<>> \in Seq(Entries)
      OBVIOUS
    <2>. QED
      BY <1>1, <1>2, <1>3, <2>1 DEF QueueTyped
  <1>7. LineInv'
    <2> SUFFICES ASSUME NEW r \in SendStreams \ resets
                 PROVE  Along(r, keep', batch', outbound', offset[r], produced[r])
      BY <1>2 DEF LineInv
    <2>1. PICK b, c, d : /\ Leads(keep, r, offset[r], b) /\ Leads(batch, r, b, c) /\ Leads(outbound, r, c, d)
                         /\ d <= produced[r]
                         /\ Abandon(r) \notin Range(batch) \cup Range(outbound) => d = produced[r]
      BY <1>3 DEF LineInv, Along
    <2>2. b \in Nat /\ c \in Nat /\ d \in Nat
      BY <1>3, <2>1, LeadsTyped DEF QueueTyped
    <2>3. b = c
      BY <1>4, <2>1, <2>2, LeadsNowhere
    <2>4. Leads(keep', r, offset[r], b) /\ Leads(batch', r, b, d)
      BY <1>1, <1>4, <2>1, <2>3
    <2>5. Leads(outbound', r, d, d)
      BY <1>1, <2>2, LeadsNowhere
    <2>. QED
      BY <1>5, <2>1, <2>4, <2>5 DEF Along
  <1>8. RestInv' /\ HeldInv' /\ GivenUpInv'
    BY <1>1, <1>2, <1>3, <1>5 DEF RestInv, HeldInv, GivenUpInv
  <1>9. RecordInv' /\ Known' = Known /\ WithinCredit' /\ TruthInv' /\ BytesInv' /\ \A r : KnownOf(r)' = KnownOf(r)
    BY <1>1, <1>2, NothingSent
  <1>10. CreditTyped /\ EndInv /\ ResetInv
    BY DEF SenderInv, SentInv, KnownInv
  <1>11. CreditTyped'
    <2>1. control' = control
      BY <1>1, <1>4
    <2>. QED
      BY <1>1, <1>2, <1>10, <2>1 DEF CreditTyped, creditVars
  <1>12. EndInv'
    <2>1. \A r : Live(r)' => Live(r)
      BY <1>2, <1>5 DEF Live
    <2>. QED
      BY <1>2, <1>5, <1>9, <1>10, <2>1 DEF EndInv
  <1>13. ResetInv'
    BY <1>1, <1>2, <1>4, <1>9, <1>10 DEF ResetInv
  <1>. QED
    BY <1>6, <1>7, <1>8, <1>9, <1>11, <1>12, <1>13 DEF SenderInv, QueueInv, SentInv, KnownInv

LEMMA DrainResetKeeps ==
  ASSUME SenderInv, DrainReset
  PROVE  SenderInv'
  <1>1. PICK e : e = Head(batch)
    OBVIOUS
  <1>2. /\ draining /\ batch # <<>> /\ batch' = Tail(batch) /\ draining' = draining
        /\ e.kind = "reset" /\ control' = control \cup {ResetFrame(e.s, offset[e.s])}
        /\ resets' = resets \cup {e.s} /\ keep' = Without(keep, e.s)
        /\ UNCHANGED <<stalled, stopped, offset, total, reported, queueVars, producerVars, creditVars, pathVars,
                       congestionVars, lossVars, packetVars, closed, acked>>
    BY <1>1 DEF DrainReset, NextEntry
  <1>3. UNCHANGED <<outbound, queuedBytes, produced, finished>>
    BY <1>2 DEF queueVars, producerVars
  <1>4. QueueTyped /\ LineInv /\ RestInv /\ HeldInv /\ GivenUpInv
    BY DEF SenderInv, QueueInv
  <1>5. outbound \in Seq(Entries) /\ batch \in Seq(Entries) /\ keep \in Seq(Entries)
    BY <1>4 DEF QueueTyped
  <1>6. e \in Entries /\ batch' \in Seq(Entries) /\ e \in Range(batch) /\ Range(batch) = {e} \cup Range(batch)'
    <2>1. PICK q : q = batch
      OBVIOUS
    <2>2. Head(q) \in Entries /\ Tail(q) \in Seq(Entries) /\ Head(q) \in Range(q) /\ Range(q) = {Head(q)} \cup Range(Tail(q))
      BY <1>2, <1>5, <2>1, RangeOfFirst
    <2>. QED
      BY <1>1, <1>2, <2>1, <2>2
  <1>7. e.s \in finished \ {Control}
    BY <1>2, <1>4, <1>6 DEF GivenUpInv
  <1>8. /\ keep' \in Seq(Entries)
        /\ \A x : x \in Range(keep)' <=> x \in Range(keep) /\ x.s # e.s
        /\ \A r, a, b : r # e.s /\ Leads(keep, r, a, b) => Leads(keep', r, a, b)
    BY <1>2, <1>5, WithoutIs
  <1>9. QueueTyped'
    BY <1>2, <1>3, <1>4, <1>6, <1>7, <1>8 DEF QueueTyped
  <1>10. \A r : r # e.s => (Abandon(r) \in Range(batch)' <=> Abandon(r) \in Range(batch))
    <2>1. \A r : Abandon(r).s = r
      BY DEF Abandon
    <2>. QED
      BY <1>6, <2>1
  <1>11. LineInv'
    <2> SUFFICES ASSUME NEW r \in SendStreams \ resets'
                 PROVE  Along(r, keep', batch', outbound, offset[r], produced[r])
      BY <1>2, <1>3 DEF LineInv
    <2>1. r \in SendStreams \ resets /\ r # e.s
      BY <1>2
    <2>2. PICK b, c, d : /\ Leads(keep, r, offset[r], b) /\ Leads(batch, r, b, c) /\ Leads(outbound, r, c, d)
                         /\ d <= produced[r]
                         /\ Abandon(r) \notin Range(batch) \cup Range(outbound) => d = produced[r]
      BY <1>4, <2>1 DEF LineInv, Along
    <2>3. PICK m \in Nat : Moves(e, r, b, m) /\ Leads(batch', r, m, c)
      BY <1>1, <1>2, <1>5, <2>2, LeadsFirst
    <2>4. m = b
      BY <1>2, <2>3 DEF Moves, PieceOf
    <2>5. Leads(keep', r, offset[r], b) /\ Leads(batch', r, b, c)
      BY <1>8, <2>1, <2>2, <2>3, <2>4
    <2>. QED
      BY <1>10, <2>1, <2>2, <2>5 DEF Along
  <1>12. RestInv' /\ HeldInv' /\ GivenUpInv'
    <2>1. RestInv'
      BY <1>2 DEF RestInv
    <2>2. HeldInv'
      BY <1>2, <1>4, <1>8 DEF HeldInv
    <2>3. GivenUpInv'
      BY <1>3, <1>4, <1>6 DEF GivenUpInv
    <2>. QED
      BY <2>1, <2>2, <2>3
  <1>13. RecordInv' /\ Known' = Known /\ WithinCredit' /\ TruthInv' /\ BytesInv' /\ \A r : KnownOf(r)' = KnownOf(r)
    BY <1>2, NothingSent
  <1>14. CreditTyped /\ EndInv /\ ResetInv
    BY DEF SenderInv, SentInv, KnownInv
  <1>15. PICK f : f = ResetFrame(e.s, offset[e.s])
    OBVIOUS
  <1>16. f \in SentFrames /\ ~Carries(f) /\ Resets(f, e.s)
    <2>1. e.s \in SendStreams
      BY <1>4, <1>7 DEF QueueTyped
    <2>2. offset[e.s] \in 0..MaxBytes /\ MaxBytes \in Nat
      BY <1>14, <2>1, SenderConstants DEF CreditTyped
    <2>3. offset[e.s] \in Nat
      BY <2>2
    <2>. QED
      BY <1>15, <2>1, <2>3 DEF ResetFrame, SentFrames, Carries, Resets
  <1>17. CreditTyped'
    <2>1. control' = control \cup {f}
      BY <1>2, <1>15
    <2>2. IsFiniteSet(control \cup {f})
      BY <1>14, FS_AddElement DEF CreditTyped
    <2>3. control' \subseteq SentFrames /\ IsFiniteSet(control') /\ \A g \in control' : ~Carries(g)
      BY <1>14, <1>16, <2>1, <2>2 DEF CreditTyped
    <2>. QED
      BY <1>2, <1>14, <2>3 DEF CreditTyped, creditVars
  <1>18. EndInv'
    <2> SUFFICES ASSUME NEW r \in finished \ {Control}, Live(r)'
                 PROVE  (\E x \in Range(keep)' \cup Range(batch)' \cup Range(outbound) : HasEnd(x, r))
                        \/ \E g \in KnownOf(r)' : g.fin
      BY <1>3 DEF EndInv
    <2>1. r # e.s
      BY <1>2 DEF Live
    <2>2. Live(r)
      BY <1>2, <1>3, <1>10, <2>1 DEF Live
    <2>3. (\E x \in Range(keep) \cup Range(batch) \cup Range(outbound) : HasEnd(x, r)) \/ \E g \in KnownOf(r) : g.fin
      BY <1>14, <2>2 DEF EndInv
    <2>4. \A x \in Range(keep) : HasEnd(x, r) => x \in Range(keep)'
      BY <1>8, <2>1 DEF HasEnd, PieceOf
    <2>5. \A x \in Range(batch) : HasEnd(x, r) => x \in Range(batch)'
      BY <1>2, <1>6 DEF HasEnd, PieceOf
    <2>. QED
      BY <1>13, <2>3, <2>4, <2>5
  <1>19. ResetInv'
    BY <1>2, <1>13, <1>14, <1>15, <1>16 DEF ResetInv
  <1>. QED
    BY <1>9, <1>11, <1>12, <1>13, <1>17, <1>18, <1>19 DEF SenderInv, QueueInv, SentInv, KnownInv

LEMMA DrainHoldKeeps ==
  ASSUME SenderInv, DrainHold
  PROVE  SenderInv'
  <1>1. PICK e : e = Head(batch)
    OBVIOUS
  <1>2. /\ draining /\ batch # <<>> /\ batch' = Tail(batch) /\ draining' = draining /\ e.kind = "data"
        /\ \/ e.s \in resets /\ keep' = keep
           \/ e.s \notin resets /\ (stopped \/ e.s \in stalled) /\ keep' = Append(keep, e)
        /\ UNCHANGED <<control, stalled, stopped, streamVars, queueVars, producerVars, creditVars, pathVars,
                       congestionVars, lossVars, packetVars, closed, acked>>
    BY <1>1 DEF DrainHold, NextEntry
  <1>3. UNCHANGED <<outbound, queuedBytes, produced, finished, offset, total, resets, reported>>
    BY <1>2 DEF queueVars, producerVars, streamVars
  <1>4. QueueTyped /\ LineInv /\ RestInv /\ HeldInv /\ GivenUpInv
    BY DEF SenderInv, QueueInv
  <1>5. outbound \in Seq(Entries) /\ batch \in Seq(Entries) /\ keep \in Seq(Entries)
    BY <1>4 DEF QueueTyped
  <1>6. e \in Entries /\ batch' \in Seq(Entries) /\ Range(batch) = {e} \cup Range(batch)'
    <2>1. PICK q : q = batch
      OBVIOUS
    <2>2. Head(q) \in Entries /\ Tail(q) \in Seq(Entries) /\ Range(q) = {Head(q)} \cup Range(Tail(q))
      BY <1>2, <1>5, <2>1, RangeOfFirst
    <2>. QED
      BY <1>1, <1>2, <2>1, <2>2
  <1>7. Append(keep, e) \in Seq(Entries) /\ Range(Append(keep, e)) = Range(keep) \cup {e}
    BY <1>5, <1>6, RangeOnAppend
  <1>8. /\ keep' \in Seq(Entries) /\ Range(keep) \subseteq Range(keep)' /\ Range(keep)' \subseteq Range(keep) \cup {e}
        /\ e.s \notin resets => e \in Range(keep)' /\ (stopped \/ e.s \in stalled)
        /\ e.s \in resets => Range(keep)' = Range(keep)
    BY <1>2, <1>5, <1>7
  <1>9. QueueTyped'
    BY <1>2, <1>3, <1>4, <1>6, <1>8 DEF QueueTyped
  <1>10. \A r : Abandon(r) \in Range(batch)' <=> Abandon(r) \in Range(batch)
    <2>1. \A r : Abandon(r).kind = "reset"
      BY DEF Abandon
    <2>. QED
      BY <1>2, <1>6, <2>1
  <1>11. LineInv'
    <2> SUFFICES ASSUME NEW r \in SendStreams \ resets
                 PROVE  Along(r, keep', batch', outbound, offset[r], produced[r])
      BY <1>3 DEF LineInv
    <2>1. PICK b, c, d : /\ Leads(keep, r, offset[r], b) /\ Leads(batch, r, b, c) /\ Leads(outbound, r, c, d)
                         /\ d <= produced[r]
                         /\ Abandon(r) \notin Range(batch) \cup Range(outbound) => d = produced[r]
      BY <1>4 DEF LineInv, Along
    <2>2. PICK m \in Nat : Moves(e, r, b, m) /\ Leads(batch', r, m, c)
      BY <1>1, <1>2, <1>5, <2>1, LeadsFirst
    <2>3. Leads(keep', r, offset[r], m)
      <3>1. CASE e.s \in resets
        <4>1. m = b
          BY <2>2, <3>1 DEF Moves, PieceOf
        <4>. QED
          BY <1>2, <2>1, <3>1, <4>1
      <3>2. CASE e.s \notin resets
        <4>1. keep' = Append(keep, e)
          BY <1>2, <3>2
        <4>. QED
          BY <1>5, <1>6, <2>1, <2>2, <4>1, LeadsOn
      <3>. QED
        BY <3>1, <3>2
    <2>. QED
      BY <1>10, <2>1, <2>2, <2>3 DEF Along
  <1>12. RestInv' /\ HeldInv' /\ GivenUpInv'
    <2>1. RestInv'
      BY <1>2 DEF RestInv
    <2>2. HeldInv'
      BY <1>2, <1>4, <1>8 DEF HeldInv
    <2>3. GivenUpInv'
      BY <1>3, <1>4, <1>6 DEF GivenUpInv
    <2>. QED
      BY <2>1, <2>2, <2>3
  <1>13. RecordInv' /\ Known' = Known /\ WithinCredit' /\ TruthInv' /\ BytesInv' /\ \A r : KnownOf(r)' = KnownOf(r)
    BY <1>2, <1>3, NothingSent
  <1>14. CreditTyped /\ EndInv /\ ResetInv
    BY DEF SenderInv, SentInv, KnownInv
  <1>15. CreditTyped'
    BY <1>2, <1>3, <1>14 DEF CreditTyped, creditVars
  <1>16. EndInv'
    <2> SUFFICES ASSUME NEW r \in finished \ {Control}, Live(r)'
                 PROVE  (\E x \in Range(keep)' \cup Range(batch)' \cup Range(outbound) : HasEnd(x, r))
                        \/ \E g \in KnownOf(r)' : g.fin
      BY <1>3 DEF EndInv
    <2>1. Live(r) /\ r \notin resets
      BY <1>3, <1>10 DEF Live
    <2>2. (\E x \in Range(keep) \cup Range(batch) \cup Range(outbound) : HasEnd(x, r)) \/ \E g \in KnownOf(r) : g.fin
      BY <1>14, <2>1 DEF EndInv
    <2>3. \A x \in Range(batch) : HasEnd(x, r) => x \in Range(batch)' \cup Range(keep)'
      BY <1>6, <1>8, <2>1 DEF HasEnd, PieceOf
    <2>. QED
      BY <1>8, <1>13, <2>2, <2>3
  <1>17. ResetInv'
    BY <1>2, <1>3, <1>13, <1>14 DEF ResetInv
  <1>. QED
    BY <1>9, <1>11, <1>12, <1>13, <1>15, <1>16, <1>17 DEF SenderInv, QueueInv, SentInv, KnownInv

LEMMA DrainPutKeeps ==
  ASSUME SenderInv, DrainPut
  PROVE  SenderInv'
  <1>1. /\ batch = <<>> /\ (IF control = {} THEN UNCHANGED packetVars ELSE Build(DOMAIN sent, inFlight, control))
        /\ outbound' = keep \o outbound /\ queuedBytes' = Recount(keep \o outbound)
        /\ draining' = FALSE /\ keep' = <<>> /\ control' = {} /\ stalled' = {} /\ stopped' = FALSE
        /\ UNCHANGED <<batch, producerVars, streamVars, creditVars, pathVars, congestionVars, lossVars, closed, acked>>
    BY DEF DrainPut, PutBack
  <1>2. UNCHANGED <<produced, finished, offset, total, resets, reported, peerMaxData, peerStreamMax>>
    BY <1>1 DEF producerVars, streamVars, creditVars
  <1>3. QueueTyped /\ LineInv /\ RestInv /\ HeldInv /\ GivenUpInv
    BY DEF SenderInv, QueueInv
  <1>4. CreditTyped /\ WithinCredit /\ TruthInv /\ EndInv /\ ResetInv /\ BytesInv /\ RecordInv
    BY DEF SenderInv, SentInv, KnownInv
  <1>5. outbound \in Seq(Entries) /\ batch \in Seq(Entries) /\ keep \in Seq(Entries)
    BY <1>3 DEF QueueTyped
  <1>6. outbound' \in Seq(Entries) /\ Range(outbound)' = Range(keep) \cup Range(outbound)
    BY <1>1, <1>5, RangeOnConcat
  <1>7. Range(batch) = {} /\ Range(batch)' = {} /\ Range(keep)' = {}
    BY <1>1, RangeOfOne
  <1>8. QueueTyped'
    <2>1. queuedBytes' \in [SendStreams -> Nat]
      <3>1. PICK q \in Seq(Entries) : q = keep \o outbound
        BY <1>1, <1>6
      <3>2. ASSUME NEW s PROVE BytesOf(q, s, Len(q)) \in Nat
        <4>1. Len(q) \in 0..Len(q)
          OBVIOUS
        <4>. QED
          BY <4>1, BytesAre
      <3>3. queuedBytes' = [s \in SendStreams |-> BytesOf(q, s, Len(q))]
        BY <1>1, <3>1 DEF Recount
      <3>. QED
        BY <3>2, <3>3
    <2>2. <<>> \in Seq(Entries)
      OBVIOUS
    <2>. QED
      BY <1>1, <1>2, <1>3, <1>6, <2>1, <2>2 DEF QueueTyped
  <1>9. \A r : Abandon(r) \in Range(outbound) => Abandon(r) \in Range(outbound)'
    BY <1>6
  <1>10. LineInv'
    <2> SUFFICES ASSUME NEW r \in SendStreams \ resets
                 PROVE  Along(r, keep', batch', outbound', offset[r], produced[r])
      BY <1>2 DEF LineInv
    <2>1. PICK b, c, d : /\ Leads(keep, r, offset[r], b) /\ Leads(batch, r, b, c) /\ Leads(outbound, r, c, d)
                         /\ d <= produced[r]
                         /\ Abandon(r) \notin Range(batch) \cup Range(outbound) => d = produced[r]
      BY <1>3 DEF LineInv, Along
    <2>2. offset[r] \in Nat /\ b \in Nat
      BY <1>5, <2>1, LeadsTyped
    <2>3. b = c
      BY <1>1, <2>1, <2>2, LeadsNowhere
    <2>4. Leads(outbound', r, offset[r], d)
      BY <1>1, <1>5, <2>1, <2>3, LeadsBoth
    <2>5. Leads(keep', r, offset[r], offset[r]) /\ Leads(batch', r, offset[r], offset[r])
      BY <1>1, <2>2, LeadsNowhere
    <2>. QED
      BY <1>7, <1>9, <2>1, <2>4, <2>5 DEF Along
  <1>11. RestInv' /\ HeldInv' /\ GivenUpInv'
    <2>1. RestInv' /\ HeldInv'
      BY <1>1, <1>7 DEF RestInv, HeldInv
    <2>2. GivenUpInv'
      BY <1>2, <1>3, <1>6, <1>7 DEF GivenUpInv, HeldInv
    <2>. QED
      BY <2>1, <2>2
  <1>12. RecordInv' /\ Known' = Known \cup control
    <2>1. CASE control = {}
      BY <1>1, <2>1, NothingRecorded
    <2>2. CASE control # {}
      <3>1. Build(DOMAIN sent, inFlight, control)
        BY <1>1, <2>2
      <3>2. control \in SUBSET SentFrames /\ IsFiniteSet(control)
        BY <1>4 DEF CreditTyped
      <3>3. UNCHANGED <<pathVars, congestionVars, lossVars, closed>>
        BY <1>1
      <3>4. RecordInv' /\ FramesIn(sent', DOMAIN sent') = FramesIn(sent, DOMAIN sent) \cup control
        BY <1>4, <3>1, <3>2, <3>3, BuildOnly
      <3>. QED
        BY <1>1, <3>4 DEF Known, FramesOf, FramesIn
    <2>. QED
      BY <2>1, <2>2
  <1>13. CreditTyped'
    BY <1>1, <1>2, <1>4, FS_EmptySet DEF CreditTyped
  <1>14. WithinCredit'
    BY <1>2, <1>4 DEF WithinCredit
  <1>15. TruthInv'
    BY <1>2, <1>4, <1>12 DEF TruthInv, Truthful, CreditTyped
  <1>16. \A r : KnownOf(r) \subseteq KnownOf(r)'
    BY <1>12 DEF KnownOf
  <1>17. EndInv'
    <2>1. \A r : Live(r)' => Live(r)
      BY <1>2, <1>7, <1>9 DEF Live
    <2>. QED
      BY <1>2, <1>4, <1>6, <1>7, <1>16, <2>1 DEF EndInv
  <1>18. ResetInv'
    BY <1>1, <1>2, <1>4, <1>12 DEF ResetInv
  <1>19. BytesInv'
    BY <1>2, <1>4, <1>16 DEF BytesInv
  <1>. QED
    BY <1>8, <1>10, <1>11, <1>12, <1>13, <1>14, <1>15, <1>17, <1>18, <1>19 DEF SenderInv, QueueInv, SentInv, KnownInv

-----------------------------------------------------------------------------
(* drain_outbound sends a piece, or what it may of it.                     *)

\* A queue of one entry.
LEMMA LeadsAlone ==
  ASSUME NEW e \in Entries, NEW s, NEW a \in Nat, NEW b \in Nat, Moves(e, s, a, b)
  PROVE  Leads(<<e>>, s, a, b) /\ <<e>> \in Seq(Entries)
  <1>1. Leads(<<>>, s, a, a)
    BY LeadsNowhere
  <1>2. <<>> \in Seq(Entries) /\ Append(<<>>, e) = <<e>> /\ <<e>> \in Seq(Entries)
    OBVIOUS
  <1>. QED
    BY <1>1, <1>2, LeadsOn

\* What is cut from a piece and what is left of it lead where the piece led.
LEMMA CutIs ==
  ASSUME NEW e \in Entries, e.kind = "data", NEW n \in Nat, n <= e.len, NEW cut, cut = Cut(e, n)
  PROVE  /\ cut \in Seq(Entries) /\ Tail(cut) \in Seq(Entries)
         /\ (\A x \in Range(cut) : PieceOf(x, e.s)) /\ \A x \in Range(Tail(cut)) : PieceOf(x, e.s)
         /\ Leads(cut, e.s, e.from, e.from + e.len) /\ Leads(Tail(cut), e.s, e.from + n, e.from + e.len)
         /\ n = e.len => Tail(cut) = <<>>
         /\ e.fin => \E x \in Range(cut) : x.fin
         /\ e.fin => n = e.len \/ \E x \in Range(Tail(cut)) : x.fin
         /\ cut[1].s = e.s /\ cut[1].from = e.from /\ cut[1].len = n /\ cut[1].fin \in BOOLEAN
         /\ n = e.len => cut[1].fin = e.fin
  <1>1. e.s \in SendStreams /\ e.from \in Nat /\ e.len \in Nat /\ e.fin \in BOOLEAN
    BY DEF Entries
  <1>2. PICK from \in Nat : from = e.from
    BY <1>1
  <1>3. PICK len \in Nat : len = e.len
    BY <1>1
  <1>4. CASE n < len
    <2>1. PICK one : one = Piece(e.s, e.from, n, FALSE)
      OBVIOUS
    <2>2. PICK two : two = Piece(e.s, e.from + n, e.len - n, e.fin)
      OBVIOUS
    <2>3. one \in Entries /\ one.kind = "data" /\ one.s = e.s /\ one.from = from /\ one.len = n /\ one.fin = FALSE
      BY <1>1, <1>2, <2>1 DEF Piece, Entries
    <2>4. two \in Entries /\ two.kind = "data" /\ two.s = e.s /\ two.from = from + n /\ two.len = len - n /\ two.fin = e.fin
      BY <1>1, <1>2, <1>3, <1>4, <2>2 DEF Piece, Entries
    <2>5. cut = <<one, two>>
      BY <1>3, <1>4, <2>1, <2>2 DEF Cut
    <2>6. cut \in Seq(Entries) /\ Tail(cut) = <<two>> /\ Tail(cut) \in Seq(Entries) /\ cut[1] = one
          /\ cut = Append(<<one>>, two)
      BY <2>3, <2>4, <2>5
    <2>7. Range(cut) = {one, two} /\ Range(Tail(cut)) = {two}
      BY <2>5, <2>6, RangeOfOne DEF Range
    <2>8. PieceOf(one, e.s) /\ PieceOf(two, e.s)
      BY <2>3, <2>4 DEF PieceOf
    <2>9. Moves(one, e.s, from, from + n) /\ Moves(two, e.s, from + n, from + len)
      BY <1>2, <1>3, <2>3, <2>4, <2>8 DEF Moves
    <2>10. from + n \in Nat /\ from + len \in Nat
      OBVIOUS
    <2>11. Leads(<<one>>, e.s, from, from + n) /\ <<one>> \in Seq(Entries)
      BY <2>3, <2>9, <2>10, LeadsAlone
    <2>12. Leads(cut, e.s, from, from + len)
      BY <2>4, <2>6, <2>9, <2>10, <2>11, LeadsOn
    <2>13. Leads(Tail(cut), e.s, from + n, from + len)
      BY <2>4, <2>6, <2>9, <2>10, LeadsAlone
    <2>14. n # e.len
      BY <1>3, <1>4
    <2>15. (\A x \in Range(cut) : PieceOf(x, e.s)) /\ \A x \in Range(Tail(cut)) : PieceOf(x, e.s)
      BY <2>7, <2>8
    <2>16. e.fin => (\E x \in Range(cut) : x.fin) /\ \E x \in Range(Tail(cut)) : x.fin
      BY <2>4, <2>7
    <2>17. cut[1].s = e.s /\ cut[1].from = e.from /\ cut[1].len = n /\ cut[1].fin \in BOOLEAN
      BY <1>2, <2>3, <2>6
    <2>. QED
      BY <1>2, <1>3, <2>6, <2>12, <2>13, <2>14, <2>15, <2>16, <2>17
  <1>5. CASE ~(n < len)
    <2>1. n = len
      BY <1>3, <1>5
    <2>2. cut = <<e>>
      BY <1>3, <1>5 DEF Cut
    <2>3. Tail(cut) = <<>> /\ cut[1] = e /\ cut \in Seq(Entries) /\ Tail(cut) \in Seq(Entries)
      BY <2>2
    <2>4. Range(cut) = {e} /\ Range(Tail(cut)) = {}
      BY <2>2, <2>3, RangeOfOne
    <2>5. PieceOf(e, e.s)
      BY DEF PieceOf
    <2>6. from + len \in Nat /\ from + n = from + len
      BY <2>1
    <2>7. Moves(e, e.s, from, from + len)
      BY <1>2, <1>3, <2>5 DEF Moves
    <2>8. Leads(cut, e.s, from, from + len)
      BY <2>2, <2>6, <2>7, LeadsAlone
    <2>9. Leads(Tail(cut), e.s, from + n, from + len)
      <3>1. PICK last \in Nat : last = from + len
        BY <2>6
      <3>2. Leads(<<>>, e.s, last, last)
        BY LeadsNowhere
      <3>. QED
        BY <2>3, <2>6, <3>1, <3>2
    <2>. QED
      BY <1>1, <1>2, <1>3, <2>1, <2>3, <2>4, <2>5, <2>8, <2>9
  <1>. QED
    BY <1>4, <1>5

\* The piece that is looked at is the next one of its stream.
LEMMA NextPiece ==
  ASSUME SenderInv, batch # <<>>, NEW e, e = Head(batch), e.kind = "data", e.s \notin resets, ~stopped, e.s \notin stalled
  PROVE  /\ e \in Entries /\ e.s \in SendStreams /\ e.from \in Nat /\ e.len \in Nat /\ e.fin \in BOOLEAN
         /\ e.from = offset[e.s] /\ offset[e.s] + e.len <= MaxBytes
         /\ \A i \in DOMAIN keep : ~PieceOf(keep[i], e.s)
  <1>1. QueueTyped /\ LineInv /\ HeldInv
    BY DEF SenderInv, QueueInv
  <1>2. outbound \in Seq(Entries) /\ batch \in Seq(Entries) /\ keep \in Seq(Entries)
    BY <1>1 DEF QueueTyped
  <1>3. e \in Entries
    BY <1>2
  <1>4. e.s \in SendStreams /\ e.from \in Nat /\ e.len \in Nat /\ e.fin \in BOOLEAN
    BY <1>3 DEF Entries
  <1>5. \A i \in DOMAIN keep : ~PieceOf(keep[i], e.s)
    <2>1. \A i \in DOMAIN keep : keep[i] \in Range(keep)
      BY DEF Range
    <2>. QED
      BY <1>1, <2>1 DEF HeldInv, PieceOf
  <1>6. PICK b, c, d : /\ Leads(keep, e.s, offset[e.s], b) /\ Leads(batch, e.s, b, c) /\ Leads(outbound, e.s, c, d)
                       /\ d <= produced[e.s]
    BY <1>1, <1>4 DEF LineInv, Along
  <1>7. offset[e.s] = b
    BY <1>2, <1>5, <1>6, LeadsPast
  <1>8. PICK m \in Nat : Moves(e, e.s, b, m) /\ Leads(Tail(batch), e.s, m, c)
    BY <1>2, <1>6, LeadsFirst
  <1>9. e.from = b /\ m = b + e.len
    BY <1>8 DEF Moves, PieceOf
  <1>10. Tail(batch) \in Seq(Entries)
    BY <1>2
  <1>11. m <= c /\ c <= d /\ c \in Nat /\ d \in Nat /\ b \in Nat
    BY <1>2, <1>6, <1>8, <1>10, LeadsForward, LeadsTyped
  <1>12. produced[e.s] \in 0..MaxBytes /\ MaxBytes \in Nat
    BY <1>1, <1>4, SenderConstants DEF QueueTyped
  <1>13. m <= MaxBytes
    BY <1>6, <1>11, <1>12
  <1>. QED
    BY <1>3, <1>4, <1>5, <1>7, <1>9, <1>13

\* What the peer's limits allow of it.
LEMMA AllowanceIs ==
  ASSUME SentInv, NEW e, e.s \in SendStreams, e.len \in Nat
  PROVE  /\ Allowance(e) \in Nat /\ Allowance(e) <= e.len
         /\ offset[e.s] + Allowance(e) <= peerStreamMax[e.s] /\ total + Allowance(e) <= peerMaxData
  <1>1. MaxBytes \in Nat
    BY SenderConstants
  <1>2. offset[e.s] \in 0..MaxBytes /\ peerStreamMax[e.s] \in Nat /\ offset[e.s] <= peerStreamMax[e.s]
        /\ total \in Nat /\ peerMaxData \in Nat /\ total <= peerMaxData
    BY DEF SentInv, CreditTyped, WithinCredit
  <1>3. PICK len \in Nat : len = e.len
    OBVIOUS
  <1>4. PICK off \in Nat : off = offset[e.s]
    BY <1>1, <1>2
  <1>5. PICK max \in Nat : max = peerStreamMax[e.s]
    BY <1>2
  <1>6. PICK x \in Nat : x = Smallest(max - off, peerMaxData - total)
    BY <1>2, <1>4, <1>5 DEF Smallest
  <1>7. off + x <= max /\ total + x <= peerMaxData
    BY <1>2, <1>4, <1>5, <1>6 DEF Smallest
  <1>8. PICK y \in Nat : y = Smallest(len, x) /\ y <= len /\ y <= x
    BY DEF Smallest
  <1>9. Largest(0, y) = y
    BY DEF Largest
  <1>10. Allowance(e) = y
    BY <1>3, <1>4, <1>5, <1>6, <1>8, <1>9 DEF Allowance
  <1>11. off + y <= max /\ total + y <= peerMaxData
    BY <1>2, <1>7, <1>8
  <1>. QED
    BY <1>3, <1>4, <1>5, <1>8, <1>10, <1>11

\* The blocked frames.
LEMMA ReportIs ==
  ASSUME SentInv, NEW e, e.s \in SendStreams, Report(e)
  PROVE  /\ control' \subseteq SentFrames /\ IsFiniteSet(control') /\ (\A f \in control' : ~Carries(f))
         /\ control \subseteq control' /\ reported' \in [SendStreams \cup {Absent} -> Nat]
         /\ stalled' = stalled \cup {e.s}
  <1>1. CreditTyped
    BY DEF SentInv
  <1>2. PICK b : b = Blocked(e)
    OBVIOUS
  <1>3. PICK f : f = BlockedFrame(e.s, peerStreamMax[e.s])
    OBVIOUS
  <1>4. PICK g : g = BlockedFrame(Absent, peerMaxData)
    OBVIOUS
  <1>5. b.s \subseteq {f} /\ b.c \subseteq {g}
    BY <1>2, <1>3, <1>4 DEF Blocked
  <1>6. peerMaxData \in Nat /\ peerStreamMax[e.s] \in Nat
    BY <1>1 DEF CreditTyped
  <1>7. f \in SentFrames /\ g \in SentFrames
    BY <1>3, <1>4, <1>6 DEF BlockedFrame, SentFrames
  <1>8. ~Carries(f) /\ ~Carries(g)
    BY <1>3, <1>4 DEF BlockedFrame, Carries
  <1>9. control' = control \cup b.s \cup b.c /\ stalled' = stalled \cup {e.s}
        /\ reported' = [k \in DOMAIN reported |->
             IF k = e.s /\ b.s # {} THEN peerStreamMax[e.s]
             ELSE IF k = Absent /\ b.c # {} THEN peerMaxData ELSE reported[k]]
    BY <1>2 DEF Report
  <1>10. reported' \in [SendStreams \cup {Absent} -> Nat]
    <2>1. DOMAIN reported = SendStreams \cup {Absent} /\ \A k \in SendStreams \cup {Absent} : reported[k] \in Nat
      BY <1>1 DEF CreditTyped
    <2>. QED
      BY <1>6, <1>9, <2>1
  <1>11. IsFiniteSet(control')
    <2>1. IsFiniteSet({f}) /\ IsFiniteSet({g}) /\ IsFiniteSet(control)
      BY <1>1, FS_Singleton DEF CreditTyped
    <2>2. IsFiniteSet(b.s) /\ IsFiniteSet(b.c)
      BY <1>5, <2>1, FS_Subset
    <2>3. IsFiniteSet(control \cup b.s)
      BY <2>1, <2>2, FS_Union
    <2>4. IsFiniteSet((control \cup b.s) \cup b.c)
      BY <2>2, <2>3, FS_Union
    <2>. QED
      BY <1>9, <2>4
  <1>12. control' \subseteq SentFrames /\ \A h \in control' : ~Carries(h)
    BY <1>1, <1>5, <1>7, <1>8, <1>9 DEF CreditTyped
  <1>. QED
    BY <1>9, <1>10, <1>11, <1>12

\* The queue while a piece is looked at: what is left of it is kept.
LEMMA EntryTaken ==
  ASSUME SenderInv, draining, draining' = draining, batch # <<>>, batch' = Tail(batch),
         NEW e, e = Head(batch), e.kind = "data", e.s \notin resets, ~stopped, e.s \notin stalled,
         UNCHANGED <<resets, queueVars, producerVars>>,
         NEW left \in Seq(Entries), \A x \in Range(left) : PieceOf(x, e.s), keep' = keep \o left,
         stalled' \subseteq SendStreams, stalled \subseteq stalled', stopped' \in BOOLEAN,
         left = <<>> \/ stopped' \/ e.s \in stalled',
         offset'[e.s] \in Nat, Leads(left, e.s, offset'[e.s], offset[e.s] + e.len),
         \A r \in SendStreams \ {e.s} : offset'[r] = offset[r],
         \A r : KnownOf(r) \subseteq KnownOf(r)',
         e.fin => (\E x \in Range(left) : x.fin) \/ \E f \in KnownOf(e.s)' : f.fin
  PROVE  QueueInv' /\ EndInv'
  <1>1. UNCHANGED <<outbound, queuedBytes, produced, finished, resets>>
    BY DEF queueVars, producerVars
  <1>2. QueueTyped /\ LineInv /\ RestInv /\ HeldInv /\ GivenUpInv /\ EndInv
    BY DEF SenderInv, QueueInv, KnownInv
  <1>3. outbound \in Seq(Entries) /\ batch \in Seq(Entries) /\ keep \in Seq(Entries)
    BY <1>2 DEF QueueTyped
  <1>4. /\ e \in Entries /\ e.s \in SendStreams /\ e.from = offset[e.s]
        /\ \A i \in DOMAIN keep : ~PieceOf(keep[i], e.s)
    BY NextPiece
  <1>5. batch' \in Seq(Entries) /\ Range(batch) = {e} \cup Range(batch)'
    <2>1. PICK q : q = batch
      OBVIOUS
    <2>2. Tail(q) \in Seq(Entries) /\ Range(q) = {Head(q)} \cup Range(Tail(q))
      BY <1>3, <2>1, RangeOfFirst
    <2>. QED
      BY <2>1, <2>2
  <1>6. keep' \in Seq(Entries) /\ Range(keep)' = Range(keep) \cup Range(left)
    BY <1>3, RangeOnConcat
  <1>7. QueueTyped'
    BY <1>1, <1>2, <1>5, <1>6 DEF QueueTyped
  <1>8. \A r : Abandon(r) \in Range(batch)' <=> Abandon(r) \in Range(batch)
    <2>1. \A r : Abandon(r).kind = "reset"
      BY DEF Abandon
    <2>. QED
      BY <1>5, <2>1
  <1>9. LineInv'
    <2> SUFFICES ASSUME NEW r \in SendStreams \ resets
                 PROVE  Along(r, keep', batch', outbound, offset'[r], produced[r])
      BY <1>1 DEF LineInv
    <2>1. PICK b, c, d : /\ Leads(keep, r, offset[r], b) /\ Leads(batch, r, b, c) /\ Leads(outbound, r, c, d)
                         /\ d <= produced[r]
                         /\ Abandon(r) \notin Range(batch) \cup Range(outbound) => d = produced[r]
      BY <1>2 DEF LineInv, Along
    <2>2. PICK m \in Nat : Moves(e, r, b, m) /\ Leads(batch', r, m, c)
      BY <1>3, <2>1, LeadsFirst
    <2>3. Leads(keep', r, offset'[r], m)
      <3>1. CASE r = e.s
        <4>1. b = offset[r]
          BY <1>3, <1>4, <2>1, <3>1, LeadsPast
        <4>2. m = offset[e.s] + e.len
          BY <2>2, <3>1, <4>1 DEF Moves, PieceOf
        <4>3. Leads(keep, e.s, offset'[e.s], offset'[e.s])
          BY <1>3, <1>4, LeadsStill
        <4>4. Leads(left, e.s, offset'[e.s], m)
          BY <4>2
        <4>5. Leads(keep \o left, e.s, offset'[e.s], m)
          BY <1>3, <4>3, <4>4, LeadsBoth
        <4>. QED
          BY <3>1, <4>5
      <3>2. CASE r # e.s
        <4>1. m = b
          BY <2>2, <3>2 DEF Moves, PieceOf
        <4>2. \A i \in DOMAIN left : ~PieceOf(left[i], r)
          <5>1. \A i \in DOMAIN left : left[i] \in Range(left)
            BY DEF Range
          <5>. QED
            BY <3>2, <5>1 DEF PieceOf
        <4>3. Leads(left, r, b, b)
          BY <2>2, <4>1, <4>2, LeadsStill
        <4>4. Leads(keep \o left, r, offset[r], b)
          BY <1>3, <2>1, <4>3, LeadsBoth
        <4>. QED
          BY <3>2, <4>1, <4>4
      <3>. QED
        BY <3>1, <3>2
    <2>. QED
      BY <1>8, <2>1, <2>2, <2>3 DEF Along
  <1>10. RestInv'
    BY DEF RestInv
  <1>11. HeldInv'
    <2> SUFFICES ASSUME NEW x \in Range(keep)' PROVE x.kind = "data" /\ (stopped' \/ x.s \in stalled')
      BY DEF HeldInv
    <2>1. CASE x \in Range(keep)
      BY <1>2, <2>1 DEF HeldInv
    <2>2. CASE x \in Range(left)
      <3>1. left # <<>>
        BY <2>2, RangeOfOne
      <3>. QED
        BY <2>2, <3>1 DEF PieceOf
    <2>. QED
      BY <1>6, <2>1, <2>2
  <1>12. GivenUpInv'
    BY <1>1, <1>2, <1>5 DEF GivenUpInv
  <1>13. EndInv'
    <2> SUFFICES ASSUME NEW r \in finished \ {Control}, Live(r)'
                 PROVE  (\E x \in Range(keep)' \cup Range(batch)' \cup Range(outbound) : HasEnd(x, r))
                        \/ \E g \in KnownOf(r)' : g.fin
      BY <1>1 DEF EndInv
    <2>1. Live(r)
      BY <1>1, <1>8 DEF Live
    <2>2. (\E x \in Range(keep) \cup Range(batch) \cup Range(outbound) : HasEnd(x, r)) \/ \E g \in KnownOf(r) : g.fin
      BY <1>2, <2>1 DEF EndInv
    <2>3. ASSUME HasEnd(e, r)
          PROVE  (\E x \in Range(keep)' : HasEnd(x, r)) \/ \E g \in KnownOf(r)' : g.fin
      <3>1. r = e.s /\ e.fin
        BY <2>3 DEF HasEnd, PieceOf
      <3>. QED
        BY <1>6, <3>1 DEF HasEnd
    <2>. QED
      BY <1>5, <1>6, <2>2, <2>3
  <1>. QED
    BY <1>7, <1>9, <1>10, <1>11, <1>12, <1>13 DEF QueueInv

\* What is sent of all streams together.
LEMMA SentMore ==
  ASSUME SentInv, NEW s \in SendStreams, NEW n \in Nat, offset[s] + n <= MaxBytes,
         offset' = [offset EXCEPT ![s] = offset[s] + n]
  PROVE  /\ offset' \in [SendStreams -> 0..MaxBytes] /\ offset'[s] = offset[s] + n /\ offset'[s] \in Nat
         /\ \A r \in SendStreams \ {s} : offset'[r] = offset[r]
         /\ SumFunctionOnSet(offset', SendStreams) = total + n
  <1>1. MaxBytes \in Nat /\ IsFiniteSet(SendStreams)
    BY SenderConstants
  <1>2. PICK w : w = offset
    OBVIOUS
  <1>3. PICK v : v = offset'
    OBVIOUS
  <1>4. w \in [SendStreams -> 0..MaxBytes] /\ total \in Nat /\ total = SumFunctionOnSet(w, SendStreams)
    BY <1>2 DEF SentInv, CreditTyped, WithinCredit
  <1>5. \A r \in SendStreams : w[r] \in Nat
    <2>1. \A k \in 0..MaxBytes : k \in Nat
      OBVIOUS
    <2>. QED
      BY <1>4, <2>1
  <1>6. w[s] + n \in 0..MaxBytes
    BY <1>1, <1>2, <1>5
  <1>7. v \in [SendStreams -> 0..MaxBytes] /\ v[s] = w[s] + n /\ \A r \in SendStreams \ {s} : v[r] = w[r]
    BY <1>2, <1>3, <1>4, <1>6
  <1>8. \A r \in SendStreams : w[r] \in Int /\ v[r] \in Int
    <2>1. \A k \in 0..MaxBytes : k \in Int
      OBVIOUS
    <2>. QED
      BY <1>4, <1>7, <2>1
  <1>9. Sums(v, SendStreams)[SendStreams] = Sums(w, SendStreams)[SendStreams] + (v[s] - w[s])
    BY <1>1, <1>7, <1>8, SumChange
  <1>10. SumFunctionOnSet(v, SendStreams) = total + n
    <2>1. PICK x \in Nat : x = w[s]
      BY <1>5
    <2>2. v[s] - w[s] = n
      BY <1>7, <2>1
    <2>3. Sums(v, SendStreams)[SendStreams] = total + n
      BY <1>4, <1>9, <2>2, SumIs
    <2>. QED
      BY <2>3, SumIs
  <1>11. v[s] \in Nat
    BY <1>1, <1>6, <1>7
  <1>. QED
    BY <1>2, <1>3, <1>7, <1>10, <1>11

LEMMA DrainSendKeeps ==
  ASSUME SenderInv, DrainSend
  PROVE  SenderInv'
  <1>1. PICK e : e = Head(batch)
    OBVIOUS
  <1>2. PICK n : n = Allowance(e)
    OBVIOUS
  <1>3. PICK cut : cut = Cut(e, n)
    OBVIOUS
  <1>4. PICK frame : frame = DataFrame(cut[1], offset[e.s])
    OBVIOUS
  <1>5. PICK frames : frames = {frame}
    OBVIOUS
  <1>6. /\ draining /\ batch # <<>> /\ batch' = Tail(batch) /\ draining' = draining
        /\ e.kind = "data" /\ e.s \notin resets /\ ~stopped /\ e.s \notin stalled
        /\ IF n < e.len THEN Report(e) ELSE UNCHANGED <<control, reported, stalled>>
        /\ UNCHANGED <<resets, queueVars, producerVars, creditVars, pathVars, congestionVars, lossVars, closed, acked>>
    BY <1>1, <1>2 DEF DrainSend, NextEntry
  <1>7. \/ n < e.len /\ n = 0 /\ keep' = Append(keep, e) /\ UNCHANGED <<stopped, offset, total, packetVars>>
        \/ stopped' = TRUE /\ keep' = keep \o cut /\ UNCHANGED <<offset, total, packetVars>>
        \/ /\ Build(DOMAIN sent, inFlight, frames)
           /\ \/ /\ offset' = [offset EXCEPT ![e.s] = offset[e.s] + n] /\ total' = total + n
                 /\ keep' = keep \o Tail(cut) /\ UNCHANGED stopped
              \/ stopped' = TRUE /\ keep' = keep \o cut /\ UNCHANGED <<offset, total>>
    BY <1>1, <1>2, <1>3, <1>4, <1>5 DEF DrainSend
  <1>8. /\ e \in Entries /\ e.s \in SendStreams /\ e.from \in Nat /\ e.len \in Nat /\ e.fin \in BOOLEAN
        /\ e.from = offset[e.s] /\ offset[e.s] + e.len <= MaxBytes
    BY <1>1, <1>6, NextPiece
  <1>9. SentInv /\ CreditTyped /\ WithinCredit /\ TruthInv /\ ResetInv /\ BytesInv /\ RecordInv /\ QueueTyped
    BY DEF SenderInv, SentInv, KnownInv, QueueInv
  <1>10. /\ n \in Nat /\ n <= e.len /\ offset[e.s] + n <= peerStreamMax[e.s] /\ total + n <= peerMaxData
    BY <1>2, <1>8, <1>9, AllowanceIs
  <1>11. PICK off \in Nat : off = offset[e.s]
    BY <1>8
  <1>12. PICK len \in Nat : len = e.len
    BY <1>8
  <1>13. /\ cut \in Seq(Entries) /\ Tail(cut) \in Seq(Entries)
         /\ (\A x \in Range(cut) : PieceOf(x, e.s)) /\ \A x \in Range(Tail(cut)) : PieceOf(x, e.s)
         /\ Leads(cut, e.s, off, off + len) /\ Leads(Tail(cut), e.s, off + n, off + len)
         /\ n = len => Tail(cut) = <<>>
         /\ e.fin => \E x \in Range(cut) : x.fin
         /\ e.fin => n = len \/ \E x \in Range(Tail(cut)) : x.fin
         /\ cut[1].s = e.s /\ cut[1].from = off /\ cut[1].len = n /\ cut[1].fin \in BOOLEAN
         /\ n = len => cut[1].fin = e.fin
    BY <1>3, <1>6, <1>8, <1>10, <1>11, <1>12, CutIs
  <1>14. /\ control' \subseteq SentFrames /\ IsFiniteSet(control') /\ (\A f \in control' : ~Carries(f))
         /\ control \subseteq control' /\ reported' \in [SendStreams \cup {Absent} -> Nat]
         /\ stalled' \subseteq SendStreams /\ stalled \subseteq stalled' /\ (n < len => e.s \in stalled')
    <2>1. CASE n < e.len
      <3>1. Report(e)
        BY <1>6, <2>1
      <3>2. /\ control' \subseteq SentFrames /\ IsFiniteSet(control') /\ (\A f \in control' : ~Carries(f))
            /\ control \subseteq control' /\ reported' \in [SendStreams \cup {Absent} -> Nat]
            /\ stalled' = stalled \cup {e.s}
        BY <1>8, <1>9, <3>1, ReportIs
      <3>3. stalled \subseteq SendStreams
        BY <1>9 DEF QueueTyped
      <3>. QED
        BY <1>8, <3>2, <3>3
    <2>2. CASE ~(n < e.len)
      <3>1. UNCHANGED <<control, reported, stalled>>
        BY <1>6, <2>2
      <3>. QED
        BY <1>9, <1>12, <2>2, <3>1 DEF CreditTyped, QueueTyped
    <2>. QED
      BY <2>1, <2>2
  <1>15. /\ UNCHANGED <<peerMaxData, peerStreamMax, resets, acked>>
    BY <1>6 DEF creditVars
  <1>16. ASSUME Known \subseteq Known' PROVE ResetInv' /\ \A r : KnownOf(r) \subseteq KnownOf(r)'
    <2>1. ResetInv'
      BY <1>9, <1>14, <1>15, <1>16 DEF ResetInv
    <2>. QED
      BY <1>16, <2>1 DEF KnownOf
  <1>17. ASSUME Known \subseteq Known', UNCHANGED <<offset, total>>, stopped' \in BOOLEAN,
                NEW left \in Seq(Entries), \A x \in Range(left) : PieceOf(x, e.s), keep' = keep \o left,
                stopped' \/ e.s \in stalled', Leads(left, e.s, off, off + len), e.fin => \E x \in Range(left) : x.fin
         PROVE  QueueInv' /\ EndInv' /\ CreditTyped' /\ WithinCredit'
    <2>1. \A r : KnownOf(r) \subseteq KnownOf(r)'
      BY <1>16, <1>17
    <2>2. offset'[e.s] \in Nat /\ Leads(left, e.s, offset'[e.s], offset[e.s] + e.len)
      BY <1>11, <1>12, <1>17
    <2>3. \A r \in SendStreams \ {e.s} : offset'[r] = offset[r]
      BY <1>17
    <2>4. UNCHANGED <<resets, queueVars, producerVars>>
      BY <1>6
    <2>5. QueueInv' /\ EndInv'
      BY <1>1, <1>6, <1>14, <1>17, <2>1, <2>2, <2>3, <2>4, EntryTaken
    <2>6. CreditTyped'
      BY <1>9, <1>14, <1>15, <1>17 DEF CreditTyped
    <2>7. WithinCredit'
      BY <1>9, <1>15, <1>17 DEF WithinCredit
    <2>. QED
      BY <2>5, <2>6, <2>7
  <1>18. ASSUME UNCHANGED <<offset, total, packetVars>>
         PROVE  RecordInv' /\ Known' = Known /\ TruthInv' /\ BytesInv' /\ ResetInv'
    <2>1. UNCHANGED <<pathVars, congestionVars, lossVars, packetVars, closed, acked>>
      BY <1>6, <1>18
    <2>2. UNCHANGED <<offset, total, creditVars>>
      BY <1>6, <1>18
    <2>3. RecordInv' /\ Known' = Known /\ TruthInv' /\ BytesInv'
      BY <2>1, <2>2, NothingSent
    <2>. QED
      BY <1>16, <2>3
  <1>19. CASE n < e.len /\ n = 0 /\ keep' = Append(keep, e) /\ UNCHANGED <<stopped, offset, total, packetVars>>
    <2>1. PICK left : left = <<e>>
      OBVIOUS
    <2>2. Moves(e, e.s, off, off + len) /\ off + len \in Nat /\ PieceOf(e, e.s)
      BY <1>6, <1>8, <1>11, <1>12 DEF Moves, PieceOf
    <2>3. Leads(left, e.s, off, off + len) /\ left \in Seq(Entries)
      BY <1>8, <2>1, <2>2, LeadsAlone
    <2>4. Range(left) = {e}
      BY <2>1, RangeOfOne
    <2>5. keep' = keep \o left
      <3>1. keep \in Seq(Entries)
        BY <1>9 DEF QueueTyped
      <3>. QED
        BY <1>8, <1>19, <2>1, <3>1
    <2>6. e.s \in stalled' /\ stopped' \in BOOLEAN
      BY <1>9, <1>12, <1>14, <1>19 DEF QueueTyped
    <2>7. RecordInv' /\ Known' = Known /\ TruthInv' /\ BytesInv' /\ ResetInv'
      BY <1>18, <1>19
    <2>8. (\A x \in Range(left) : PieceOf(x, e.s)) /\ (e.fin => \E x \in Range(left) : x.fin)
      BY <2>2, <2>4
    <2>9. QueueInv' /\ EndInv' /\ CreditTyped' /\ WithinCredit'
      BY <1>17, <1>19, <2>3, <2>5, <2>6, <2>7, <2>8
    <2>. QED
      BY <2>7, <2>9 DEF SenderInv, SentInv, KnownInv
  <1>20. CASE stopped' = TRUE /\ keep' = keep \o cut /\ UNCHANGED <<offset, total, packetVars>>
    <2>1. RecordInv' /\ Known' = Known /\ TruthInv' /\ BytesInv' /\ ResetInv'
      BY <1>18, <1>20
    <2>2. QueueInv' /\ EndInv' /\ CreditTyped' /\ WithinCredit'
      BY <1>13, <1>17, <1>20, <2>1
    <2>. QED
      BY <2>1, <2>2 DEF SenderInv, SentInv, KnownInv
  <1>21. CASE /\ Build(DOMAIN sent, inFlight, frames)
              /\ \/ /\ offset' = [offset EXCEPT ![e.s] = offset[e.s] + n] /\ total' = total + n
                    /\ keep' = keep \o Tail(cut) /\ UNCHANGED stopped
                 \/ stopped' = TRUE /\ keep' = keep \o cut /\ UNCHANGED <<offset, total>>
    <2>1. /\ frame \in SentFrames /\ Carries(frame) /\ frame.s = e.s /\ frame.off = off /\ frame.from = off
          /\ frame.len = n /\ frame.fin = cut[1].fin
      BY <1>4, <1>8, <1>10, <1>11, <1>13 DEF DataFrame, SentFrames, Carries
    <2>2. frames \in SUBSET SentFrames /\ IsFiniteSet(frames)
      BY <1>5, <2>1, FS_Singleton
    <2>3. UNCHANGED <<pathVars, congestionVars, lossVars, closed>>
      BY <1>6
    <2>4. RecordInv' /\ FramesIn(sent', DOMAIN sent') = FramesIn(sent, DOMAIN sent) \cup frames
      BY <1>9, <1>21, <2>2, <2>3, BuildOnly
    <2>5. Known' = Known \cup frames
      BY <1>15, <2>4 DEF Known, FramesOf, FramesIn
    <2>6. Known \subseteq Known' /\ frame \in KnownOf(e.s)'
      BY <1>5, <2>1, <2>5 DEF KnownOf
    <2>7. TruthInv'
      <3>1. Truthful(frame, peerStreamMax)
        BY <1>10, <1>11, <2>1 DEF Truthful
      <3>2. \A f \in Known' : Truthful(f, peerStreamMax)
        BY <1>5, <1>9, <2>5, <3>1 DEF TruthInv
      <3>. QED
        BY <1>15, <3>2 DEF TruthInv
    <2>8. ResetInv' /\ \A r : KnownOf(r) \subseteq KnownOf(r)'
      BY <1>16, <2>6
    <2>9. CASE stopped' = TRUE /\ keep' = keep \o cut /\ UNCHANGED <<offset, total>>
      <3>1. QueueInv' /\ EndInv' /\ CreditTyped' /\ WithinCredit'
        BY <1>13, <1>17, <2>6, <2>9
      <3>2. BytesInv'
        BY <1>9, <2>8, <2>9 DEF BytesInv
      <3>. QED
        BY <2>4, <2>7, <2>8, <3>1, <3>2 DEF SenderInv, SentInv, KnownInv
    <2>10. CASE /\ offset' = [offset EXCEPT ![e.s] = offset[e.s] + n] /\ total' = total + n
                /\ keep' = keep \o Tail(cut) /\ UNCHANGED stopped
      <3>1. offset[e.s] + n <= MaxBytes
        BY <1>8, <1>10, <1>11, <1>12, SenderConstants
      <3>2. /\ offset' \in [SendStreams -> 0..MaxBytes] /\ offset'[e.s] = offset[e.s] + n /\ offset'[e.s] \in Nat
            /\ \A r \in SendStreams \ {e.s} : offset'[r] = offset[r]
            /\ SumFunctionOnSet(offset', SendStreams) = total + n
        BY <1>8, <1>9, <1>10, <2>10, <3>1, SentMore
      <3>3. CreditTyped'
        <4>1. total' \in Nat
          BY <1>9, <1>10, <2>10 DEF CreditTyped
        <4>. QED
          BY <1>9, <1>14, <1>15, <3>2, <4>1 DEF CreditTyped
      <3>4. WithinCredit'
        <4>1. \A r \in SendStreams : offset'[r] <= peerStreamMax[r]
          BY <1>9, <1>10, <3>2 DEF WithinCredit
        <4>. QED
          BY <1>10, <1>15, <2>10, <3>2, <4>1 DEF WithinCredit
      <3>5. QueueInv' /\ EndInv'
        <4>1. PICK left : left = Tail(cut)
          OBVIOUS
        <4>2. left \in Seq(Entries) /\ (\A x \in Range(left) : PieceOf(x, e.s)) /\ keep' = keep \o left
          BY <1>13, <2>10, <4>1
        <4>3. left = <<>> \/ stopped' \/ e.s \in stalled'
          BY <1>10, <1>12, <1>13, <1>14, <4>1
        <4>4. Leads(left, e.s, offset'[e.s], offset[e.s] + e.len)
          BY <1>11, <1>12, <1>13, <3>2, <4>1
        <4>5. e.fin => (\E x \in Range(left) : x.fin) \/ \E f \in KnownOf(e.s)' : f.fin
          BY <1>13, <2>1, <2>6, <4>1
        <4>6. UNCHANGED <<resets, queueVars, producerVars>> /\ stopped' \in BOOLEAN
          BY <1>6, <1>9, <2>10 DEF QueueTyped
        <4>. QED
          BY <1>1, <1>6, <1>14, <2>8, <3>2, <4>2, <4>3, <4>4, <4>5, <4>6, EntryTaken
      <3>6. BytesInv'
        <4> SUFFICES ASSUME NEW r \in SendStreams, NEW b \in 0..offset'[r] - 1
                     PROVE  \E f \in KnownOf(r)' : HasByte(f, b)
          BY DEF BytesInv
        <4>1. CASE b \in 0..offset[r] - 1
          BY <1>9, <2>8, <4>1 DEF BytesInv
        <4>2. CASE b \notin 0..offset[r] - 1
          <5>1. r = e.s
            BY <3>2, <4>2
          <5>2. b \in off..off + n - 1
            BY <1>10, <1>11, <3>2, <4>2, <5>1
          <5>3. HasByte(frame, b)
            BY <2>1, <5>2 DEF HasByte
          <5>. QED
            BY <2>6, <5>1, <5>3
        <4>. QED
          BY <4>1, <4>2
      <3>. QED
        BY <2>4, <2>7, <2>8, <3>3, <3>4, <3>5, <3>6 DEF SenderInv, SentInv, KnownInv
    <2>. QED
      BY <1>21, <2>9, <2>10
  <1>. QED
    BY <1>7, <1>19, <1>20, <1>21

-----------------------------------------------------------------------------
(* The invariant, and what it makes of every state.                        *)

LEMMA SenderInvStands ==
  ASSUME SenderInv, UNCHANGED senderVars
  PROVE  SenderInv'
  <1>1. UNCHANGED <<queueVars, producerVars, drainVars, streamVars, creditVars, pathVars, congestionVars, lossVars,
                    packetVars, closed, acked>>
    BY DEF senderVars
  <1>2. RecordInv' /\ Known' = Known
    BY <1>1, NothingRecorded
  <1>3. acked' \subseteq SentFrames
    BY <1>1 DEF SenderInv, SentInv, CreditTyped
  <1>4. QueueInv' /\ SentInv' /\ KnownInv'
    BY <1>1, <1>2, <1>3, StillStep
  <1>. QED
    BY <1>2, <1>4 DEF SenderInv

LEMMA SenderInvNext ==
  ASSUME SenderInv, [SenderNext]_senderVars
  PROVE  SenderInv'
  <1>1. ASSUME NEW s \in SendStreams, Queue(s) \/ ResetStream(s) PROVE SenderInv'
    BY <1>1, QueueKeeps, ResetStreamKeeps
  <1>2. CASE DrainTake \/ DrainReset \/ DrainHold \/ DrainSend \/ DrainPut
    BY <1>2, DrainTakeKeeps, DrainResetKeeps, DrainHoldKeeps, DrainSendKeeps, DrainPutKeeps
  <1>3. CASE RecvAck \/ OnTimeout \/ RecvCredit \/ RecvEarly \/ RecvFinished \/ EndConnection
    BY <1>3, RecvAckKeeps, OnTimeoutKeeps, RecvCreditKeeps, RecvEarlyKeeps, RecvFinishedKeeps, EndConnectionKeeps
  <1>4. CASE UNCHANGED senderVars
    BY <1>4, SenderInvStands
  <1>. QED
    BY <1>1, <1>2, <1>3, <1>4 DEF SenderNext

\* The inductive invariant of the sending half holds in every state: the chain
\* through the queue, the record of the packets and what is known of each byte.
THEOREM SenderInvHolds == SenderSpec => []SenderInv
  <1>1. SenderInit => SenderInv
    BY SenderInvInit
  <1>2. SenderInv /\ [SenderNext]_senderVars => SenderInv'
    BY SenderInvNext
  <1>. QED
    BY <1>1, <1>2, PTL DEF SenderSpec

\* What drain_outbound takes, keeps and puts back while producers go on queueing
\* continues what was sent without a gap, each frame says where its bytes belong
\* and no credit of the peer is passed, for any number of streams, any sizes and
\* any window (queue_stream_data, drain_outbound, _flow_allowance).
THEOREM QueueIsSound == SenderSpec => []QueueSound
  <1>1. SenderInv => QueueSound
    BY SenderInvTyped, SenderInvQueued DEF QueueSound
  <1>. QED
    BY <1>1, SenderInvHolds, PTL

\* Whatever is acknowledged, lost, probed or refused: bytes_in_flight is what the
\* packets on record weigh, all that left the queue is acknowledged or on record,
\* and a timer is armed while something must be acknowledged (quic/recovery.py).
THEOREM RecoveryIsSound == SenderSpec => []RecoverySound
  <1>1. SenderInv => RecoverySound
    BY SenderInvRecovers
  <1>. QED
    BY <1>1, SenderInvHolds, PTL
=============================================================================

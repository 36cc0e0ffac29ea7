------------------------------- MODULE QuicPath -------------------------------
(***************************************************************************)
(* Where a QUIC connection's client is: the Retry tokens and the path      *)
(* validation of quic/address.py, used by http3_server.py and by           *)
(* receive_datagram of quic/connection.py.                                 *)
(*                                                                         *)
(* A client whose address changes sends from the new one.  The server then *)
(* challenges that address, and moves the connection when the challenge is *)
(* echoed.  Datagrams are lost, repeated and reordered; the answers to a   *)
(* datagram go to the address it came from, what the loss timer repeats to *)
(* the address the connection is at.  A client keeps receiving at          *)
(* addresses it has used.  What else the packets carry is in QuicSender.   *)
(***************************************************************************)
EXTENDS Integers, FiniteSets

CONSTANTS Addresses, NoAddress,
          Challenges,  \* data of challenges: numbers, in the order they are made
          MaxUpward,   \* bound: different datagrams the client sends
          MaxLinks     \* bound: connections opened

ASSUME PathConstants ==
  /\ NoAddress \notin Addresses
  /\ Challenges \subseteq Nat \ {0} /\ {MaxUpward, MaxLinks} \subseteq Nat

Unset == 0                      \* no challenge
Closed == [address |-> NoAddress]

VARIABLES
  asksProof,  \* require_address_validation
  here,       \* the client's address
  proof,      \* the address its Retry token names, or NoAddress
  expired,    \* addresses whose token has outlived its lifetime
  heard,      \* challenges the client has received
  upward,     \* datagrams the client has sent
  downward,   \* datagrams the server has sent
  link,       \* the connection, or Closed
  opened,     \* connections opened so far: the last one's id
  issued      \* history: the address each challenge was made for

pathState == <<asksProof, here, proof, expired, heard, upward, downward, link, opened, issued>>

\* led: a long header that is no Initial comes first in the datagram.
Initial(from, token, led) == [kind |-> "initial", from |-> from, token |-> token, led |-> led]
Short(id, from, echo, acks) == [kind |-> "short", id |-> id, from |-> from, echo |-> echo, acks |-> acks]
RetryTo(to) == [kind |-> "retry", to |-> to]
ChallengeTo(to, d) == [kind |-> "challenge", to |-> to, data |-> d]
HelloTo(to, id) == [kind |-> "hello", to |-> to, id |-> id]

PathInit ==
  /\ asksProof \in BOOLEAN
  /\ here \in Addresses /\ proof = NoAddress /\ expired = {} /\ heard = {}
  /\ upward = {} /\ downward = {} /\ link = Closed
  /\ opened = 0 /\ issued = <<>>

-----------------------------------------------------------------------------
(* The client. *)

Wander ==
  /\ \E a \in Addresses \ {here} : here' = a
  /\ UNCHANGED <<asksProof, proof, expired, heard, upward, downward, link, opened, issued>>

Emit(m) == /\ Cardinality(upward) < MaxUpward /\ upward' = upward \cup {m}
           /\ UNCHANGED <<asksProof, here, proof, expired, heard, downward, link, opened, issued>>

\* Where no proof is required, what comes first makes no difference.
SendInitial == \E led \in {FALSE, asksProof} : Emit(Initial(here, proof, led))

SendShort ==
  /\ \E m \in downward, echo \in heard \cup {Unset} :
       m.kind = "hello" /\ Emit(Short(m.id, here, echo, heard))

\* A client follows one Retry.
TakeRetry ==
  /\ proof = NoAddress
  /\ \E m \in downward : m.kind = "retry" /\ proof' = m.to
  /\ UNCHANGED <<asksProof, here, expired, heard, upward, downward, link, opened, issued>>

TakeChallenge ==
  /\ \E m \in downward : m.kind = "challenge" /\ heard' = heard \cup {m.data}
  /\ UNCHANGED <<asksProof, here, proof, expired, upward, downward, link, opened, issued>>

-----------------------------------------------------------------------------
(* AddressValidator. *)

\* validate: the token names the address it was made for, and its age.
ValidToken(token, from) == token = from /\ token \notin expired

\* _maybe_retry asks by the first packet of the datagram alone.
AsksToken(m) == asksProof /\ ~m.led

\* lifetime
Ages(a) ==
  /\ proof = a /\ a \notin expired /\ expired' = expired \cup {a}
  /\ UNCHANGED <<asksProof, here, proof, heard, upward, downward, link, opened, issued>>

-----------------------------------------------------------------------------
(* PathValidator and the connection's use of it. *)

\* asked (history): a token was asked for when the connection was opened.
NewLink(m) ==
  [id |-> opened + 1, key |-> m.token, asked |-> AsksToken(m), address |-> m.from,
   probe |-> NoAddress, pending |-> {}, valid |-> {}, unacked |-> {}]

\* Under the id of the first flight that opened it, or its own.
Finds(m) == link # Closed /\ (IF m.kind = "initial" THEN m.token = link.key ELSE m.id = link.id)

\* Fault: an echo validates whatever address is being probed.
EchoCounts(c, d) == c.probe # NoAddress /\ d \in c.pending
\* on_response: it counts for the address its challenge was made for.
Validates(c, d) == c.probe # NoAddress /\ d \in c.pending /\ issued'[d] = c.probe

\* _on_address_change: a known path at once, another one after a challenge.
KnownPath(c, from) == from = c.address \/ from \in c.valid
FreshChallenge == CHOOSE d \in Challenges \ DOMAIN issued : \A e \in Challenges \ DOMAIN issued : d <= e
NoticeAddress(c, from) ==
  IF KnownPath(c, from)
  THEN [c EXCEPT !.address = from]
  ELSE [c EXCEPT !.pending = @ \cup {FreshChallenge}, !.unacked = @ \cup {FreshChallenge}, !.probe = from]
Issue(c, from) ==
  IF KnownPath(c, from) THEN UNCHANGED issued
  ELSE /\ Challenges # DOMAIN issued
       /\ issued' = [d \in DOMAIN issued \cup {FreshChallenge} |-> IF d = FreshChallenge THEN from ELSE issued[d]]

\* _on_path_frame: while nothing is probed an echo is not looked at; else its
\* challenge is used up, and the probed path may be the connection's.
TakeEcho(c, d) ==
  LET spent == IF c.probe = NoAddress THEN c ELSE [c EXCEPT !.pending = @ \ {d}]
  IN  IF Validates(c, d)
      THEN [spent EXCEPT !.address = c.probe, !.valid = @ \cup {c.probe}, !.probe = NoAddress]
      ELSE spent

\* What goes back where the datagram came from: the new challenge, and those
\* of packets that its ACK shows, or time has shown, to be lost.
Answers(from, data) == {ChallengeTo(from, d) : d \in data}

\* receive_datagram for a connection. The address is looked at before the
\* packet is opened; a packet that does not open is dropped.
Arrive(m) ==
  LET noticed == NoticeAddress(link, m.from)
      made == noticed.unacked \ link.unacked
  IN
  /\ Finds(m) /\ Issue(link, m.from)
  /\ \/ /\ link' = noticed
        /\ downward' = downward \cup Answers(m.from, made)
     \/ /\ m.kind = "short"
        /\ \E lost \in SUBSET (link.unacked \ m.acks) :
             downward' = downward \cup Answers(m.from, made \cup lost)
        /\ link' = [TakeEcho(noticed, m.echo) EXCEPT !.unacked = @ \ m.acks]
  /\ UNCHANGED <<asksProof, here, proof, expired, heard, upward, opened>>

\* handle_datagram for a first flight that finds none: a Retry, or a connection.
\* What comes before the Initial is skipped, and the Initial opens it.
Admit(m) ==
  /\ m.kind = "initial" /\ ~Finds(m)
  /\ \/ /\ AsksToken(m) /\ ~ValidToken(m.token, m.from)
        /\ downward' = downward \cup {RetryTo(m.from)}
        /\ UNCHANGED <<link, opened>>
     \/ /\ link = Closed /\ (AsksToken(m) => ValidToken(m.token, m.from))
        /\ link' = NewLink(m)
        /\ downward' = downward \cup {HelloTo(m.from, opened + 1)}
        /\ opened < MaxLinks /\ opened' = opened + 1
  /\ UNCHANGED <<asksProof, here, proof, expired, heard, upward, issued>>

\* _tick: a challenge that nothing has acknowledged is sent again.
Repeat ==
  /\ link # Closed /\ link.unacked # {}
  /\ \E d \in link.unacked : downward' = downward \cup {ChallengeTo(link.address, d)}
  /\ UNCHANGED <<asksProof, here, proof, expired, heard, upward, link, opened, issued>>

\* Closed by the peer or by the idle timeout.
Forget ==
  /\ link # Closed /\ link' = Closed
  /\ UNCHANGED <<asksProof, here, proof, expired, heard, upward, downward, opened, issued>>

PathNext ==
  \/ Wander \/ SendInitial \/ SendShort \/ TakeRetry \/ TakeChallenge
  \/ \E a \in Addresses : Ages(a)
  \/ \E m \in upward : Admit(m) \/ Arrive(m)
  \/ Repeat \/ Forget

PathSpec == PathInit /\ [][PathNext]_pathState

-----------------------------------------------------------------------------
\* A connection is only ever at an address the client has answered for: one
\* whose token or whose own challenge the client has received, whatever was
\* lost, repeated or overtaken on the way.  The one exception is the address
\* a first flight came from when no token was asked for: where none is
\* required, and where the flight's datagram begins with another packet than
\* its Initial, which _maybe_retry lets through unasked.
Received(a) == a = proof \/ \E d \in heard : issued[d] = a
FirstFlight(a, key) == \E led \in BOOLEAN : Initial(a, key, led) \in upward
AddressProved ==
  link # Closed =>
    /\ \A a \in link.valid \cup {link.address} :
         Received(a) \/ (~link.asked /\ FirstFlight(a, link.key))
    /\ link.probe # NoAddress => \E d \in link.pending : issued[d] = link.probe
=============================================================================

--------------------------- MODULE MCPolicyAndDns ---------------------------
(***************************************************************************)
(* SecurityPolicy and DnsServer for TLC.  They share nothing, neither      *)
(* state nor calls: a behaviour runs the one or the other, and the states  *)
(* of the run are those of the one and those of the other.                 *)
(***************************************************************************)
EXTENDS SecurityPolicy, DnsServer, TLC

Interchangeable == Permutations(Threads)

VARIABLE part   \* the component this behaviour runs

partVars == <<part, policyVars, dnsVars>>

Localhost == <<"localhost">>
Www == <<"www", "lan">>
App == <<"app", "lan">>

LocalhostRow == {RecordRow(Localhost, "A", <<"ip0">>, 0)}

Item(type, data, ttl, flat) == [type |-> type, data |-> data, ttl |-> ttl, flat |-> flat]
Alias(name) == Item("CNAME", name, 0, TRUE)
Entry(name, form, ttl, items) == [name |-> name, form |-> form, ttl |-> ttl, items |-> items]

\* A wildcard, aliases with an address at the fourth step, and a loop of them.
AliasZone == {{Entry(<<"*", "lan">>, "flat", 0, {Alias(App)}),
               Entry(App, "flat", 0, {Alias(<<"n2">>)}), Entry(<<"n2">>, "flat", 0, {Alias(<<"n3">>)}),
               Entry(<<"n3">>, "flat", 0, {Alias(<<"n4">>)}),
               Entry(<<"n4">>, "typed", 2, {Item("A", <<"ip2">>, 0, FALSE), Alias(App)})}}

WwwRow == {RecordRow(Www, "A", <<"ip3">>, 0)}

Asked(kind, name, type, class, advertised) ==
  [kind |-> kind, name |-> name, type |-> type, class |-> class, advertised |-> advertised]

\* A name behind the wildcard, an exact one that may be cleared, a class without
\* records, and datagrams that no record is looked up for.
Asks == {Asked("query", Www, "A", "IN", 0), Asked("query", Localhost, "ANY", "ANY", 3),
         Asked("query", Www, "A", "CH", 0), Asked("opcode", Localhost, "A", "IN", 0),
         Asked("questions", <<>>, "A", "IN", 0), Asked("short", <<>>, "A", "IN", 0)}

EitherInit ==
  /\ part \in {"policy", "dns"}
  /\ PolicyInit /\ DnsInit
  /\ part = "policy" => ~fallbackToUpstream

EitherNext ==
  \/ part = "policy" /\ PolicyNext /\ UNCHANGED <<part, dnsVars>>
  \/ part = "dns" /\ DnsNext /\ UNCHANGED <<part, policyVars>>

EitherSpec == EitherInit /\ [][EitherNext]_partVars
=============================================================================

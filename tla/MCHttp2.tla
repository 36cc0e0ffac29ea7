------------------------------ MODULE MCHttp2 ------------------------------
(***************************************************************************)
(* Http2 and Hpack for TLC.  A behaviour runs the streams or the header    *)
(* tables of a connection: which fields a block has makes no difference to *)
(* the streams, and to the tables a stream is only refused or not.         *)
(***************************************************************************)
EXTENDS Http2, Hpack, TLC

Field(name, value, size, static) == [name |-> name, value |-> value, size |-> size, static |-> static]

\* Two fields with one name, one whose name the static table has, and one that
\* is never indexed.
HeaderFields == {Field("server", 1, 1, "name"), Field("x", 1, 1, "none"), Field("x", 2, 2, "none"),
                 Field("cookie", 1, 4, "none")}

VARIABLE side   \* the side of the connection this behaviour runs

sideVars == <<side, h2Vars, hpackVars>>

SideInit ==
  /\ side \in {"streams", "tables"}
  /\ H2Init /\ HpackInit
  /\ side = "streams" => way = "requests"
  /\ side = "tables" => streamLimit = Max(StreamLimits)
  /\ streamLimit = 2 <=> peerInit = 0   \* two streams at once wait for their windows to open

SideNext ==
  \/ side = "streams" /\ H2Next /\ UNCHANGED <<side, hpackVars>>
  \/ side = "tables" /\ HpackNext /\ UNCHANGED <<side, h2Vars>>

\* Once the loop is left nobody reads what it knew of frames still to come, nor
\* does any property: states that differ in that alone are one.
Remaining ==
  IF serve \in InLoop THEN <<"in", sideVars>>
  ELSE <<"out", streamLimit, stream, cwin, serve, flags, handler, bodies>>

SideSpec == SideInit /\ [][SideNext]_sideVars
=============================================================================

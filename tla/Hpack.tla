--------------------------------- MODULE Hpack ---------------------------------
(***************************************************************************)
(* Header compression of an HTTP/2 connection: src/wsbuilder/hpack.py, as  *)
(* http2.py uses it.                                                       *)
(*                                                                         *)
(* An encoder and the decoder at the other end each keep a table of recent *)
(* fields, and refer to it by position: every block must change both in    *)
(* the same way.  The server decodes requests, and does not decode those   *)
(* of a stream it refuses; it encodes responses, and the encoding may fail *)
(* half way.  The other end of either is taken to be this code as well.    *)
(*                                                                         *)
(* A field is [name, value, size, static]: static tells whether the static *)
(* table has the field ("exact"), its name or nothing of it.  Octets,      *)
(* Huffman codes and the integers' prefixes are left out.                  *)
(***************************************************************************)
EXTENDS Integers, Sequences, FiniteSets, SequencesExt

CONSTANTS Fields,       \* fields that are sent
          NeverIndexed, \* NEVER_INDEXED: names
          TableSizes,   \* sizes SETTINGS_HEADER_TABLE_SIZE may ask for
          DefaultSize,  \* DEFAULT_DYNAMIC_TABLE_SIZE
          MaxList,      \* max_header_bytes
          MaxFields,    \* bound: fields in a block
          MaxBlocks,    \* bound: blocks
          MaxOnWay      \* bound: blocks on their way

NoSize == -1
Unknown == [name |-> "HPACKError"]   \* what an index that leads nowhere gives

ASSUME HpackConstants ==
  /\ TableSizes \subseteq Nat /\ {DefaultSize, MaxList, MaxFields, MaxBlocks, MaxOnWay} \subseteq Nat
  /\ \A f \in Fields : /\ f = [name |-> f.name, value |-> f.value, size |-> f.size, static |-> f.static]
                       /\ f.size \in Nat \ {0} /\ f.static \in {"exact", "name", "none"}
                       /\ f.name # Unknown.name

VARIABLES
  way,      \* what the blocks carry: requests or responses
  encoder,  \* Encoder.table: [entries, max]
  pendingSize, \* Encoder._pending_size, or NoSize
  wire,     \* blocks on their way: [rows, meant]
  decoder,  \* Decoder.table
  blocks,   \* blocks so far
  got,      \* what the last block gave: [outcome, and (history) whether as meant]
  missed    \* history: a block changed one of the tables and never the other

hpackVars == <<way, encoder, pendingSize, wire, decoder, blocks, got, missed>>

HpackInit ==
  /\ way \in {"requests", "responses"}
  /\ encoder = [entries |-> <<>>, max |-> DefaultSize] /\ decoder = encoder
  /\ pendingSize = NoSize /\ wire = <<>> /\ blocks = 0
  /\ got = [outcome |-> "decoded", right |-> TRUE] /\ missed = FALSE

-----------------------------------------------------------------------------
(* DynamicTable. *)

Occupies(entries) == FoldLeft(LAMBDA n, f : n + f.size, 0, entries)

\* _evict: the oldest go, one by one.
Evicted(entries, max) ==
  LET fits == {k \in 0..Len(entries) : Occupies(SubSeq(entries, 1, k)) <= max}
  IN  SubSeq(entries, 1, CHOOSE k \in fits : \A j \in fits : j <= k)

Resized(table, size) == [entries |-> Evicted(table.entries, size), max |-> size]

\* add: an entry larger than the table empties it.
Added(table, f) ==
  [table EXCEPT !.entries = IF f.size > table.max THEN <<>> ELSE Evicted(<<f>> \o @, table.max)]

\* Fault: the decoder leaves its table alone when an entry is too large for it.
KeepsTable(table, f) == IF f.size > table.max THEN table ELSE Added(table, f)
\* The decoder's use of it.
Received(table, f) == Added(table, f)

\* find: the first entry that is the field, or else the first of its name.
Find(table, f) ==
  LET of(test(_)) == {i \in DOMAIN table.entries : test(table.entries[i])}
      exact == of(LAMBDA e : e = f)
      named == of(LAMBDA e : e.name = f.name)
      first(S) == CHOOSE i \in S : \A j \in S : i <= j
  IN  [exact |-> exact # {},
       index |-> IF exact # {} THEN first(exact) ELSE IF named # {} THEN first(named) ELSE 0]

-----------------------------------------------------------------------------
(* Encoder. *)

SizeRow(n) == [kind |-> "size", size |-> n]
StaticRow(f) == [kind |-> "static", field |-> f]
IndexRow(i) == [kind |-> "index", index |-> i]
\* index 0: the name is spelled out, or is in the static table.
LiteralRow(i, f, adds) == [kind |-> "literal", index |-> i, field |-> f, adds |-> adds]

\* _encode_field
EncodeField(table, f) ==
  LET found == Find(table, f)
      at == IF f.static = "name" THEN 0 ELSE found.index
  IN  CASE f.static = "exact" -> [table |-> table, row |-> StaticRow(f)]
        [] f.static # "exact" /\ found.exact -> [table |-> table, row |-> IndexRow(found.index)]
        [] OTHER -> IF f.name \in NeverIndexed
                    THEN [table |-> table, row |-> LiteralRow(at, f, FALSE)]
                    ELSE [table |-> Added(table, f), row |-> LiteralRow(at, f, TRUE)]

EncodeNext(done, f) ==
  LET e == EncodeField(done.table, f) IN [table |-> e.table, rows |-> Append(done.rows, e.row)]

\* encode: a size that waits goes first, then the fields in their order.
Encoded(fields) ==
  LET head == IF pendingSize = NoSize THEN [table |-> encoder, rows |-> <<>>]
              ELSE [table |-> Resized(encoder, pendingSize), rows |-> <<SizeRow(pendingSize)>>]
  IN  FoldLeft(EncodeNext, head, fields)

Blocks == UNION {[1..n -> Fields] : n \in 1..MaxFields}

\* A block goes out in the order in which it was encoded: under the lock.
SendBlock ==
  /\ blocks < MaxBlocks /\ Len(wire) < MaxOnWay /\ blocks' = blocks + 1
  /\ \E fields \in Blocks :
       LET e == Encoded(fields)
       IN  encoder' = e.table /\ wire' = Append(wire, [rows |-> e.rows, meant |-> fields])
  /\ pendingSize' = NoSize
  /\ UNCHANGED <<way, decoder, got, missed>>

\* A field that cannot be encoded comes after these: the response is given up,
\* and the stream is reset.
EncodeFails ==
  /\ way = "responses" /\ blocks < MaxBlocks /\ blocks' = blocks + 1
  /\ \E fields \in Blocks \cup {<<>>} :
       LET e == Encoded(fields)
       IN  encoder' = e.table /\ missed' = (missed \/ e.table # encoder)
  /\ pendingSize' = NoSize
  /\ UNCHANGED <<way, wire, decoder, got>>

\* _on_settings: only the last size asked for before a block is told.
AskSize ==
  /\ \E n \in TableSizes : pendingSize' = n
  /\ UNCHANGED <<way, encoder, wire, decoder, blocks, got, missed>>

-----------------------------------------------------------------------------
(* Decoder. *)

Lookup(table, i) == IF i \in DOMAIN table.entries THEN table.entries[i] ELSE Unknown

\* decode, one representation: the table, and the fields so far.
DecodeRow(done, row) ==
  LET named == IF row.index = 0 THEN row.field ELSE [row.field EXCEPT !.name = Lookup(done.table, row.index).name]
      yields(table, f) == [table |-> table, fields |-> Append(done.fields, f)]
  IN  CASE row.kind = "size" -> [done EXCEPT !.table = Resized(@, row.size)]
        [] row.kind = "static" -> yields(done.table, row.field)
        [] row.kind = "index" -> yields(done.table, Lookup(done.table, row.index))
        [] row.kind = "literal" -> yields(IF row.adds THEN Received(done.table, named) ELSE done.table, named)

Decoded(table, rows) == FoldLeft(DecodeRow, [table |-> table, fields |-> <<>>], rows)

\* An error ends the connection. A list over the limit is decoded to its end,
\* so that the table stays in step, and is then dropped.
Outcome(fields) ==
  IF \E i \in DOMAIN fields : fields[i].name = Unknown.name THEN "error"
  ELSE IF way = "requests" /\ Occupies(fields) > MaxList THEN "too large" ELSE "decoded"

Unbroken == got.outcome # "error"

DecodeBlock ==
  /\ wire # <<>> /\ Unbroken
  /\ LET d == Decoded(decoder, Head(wire).rows)
     IN  /\ decoder' = d.table
         /\ got' = [outcome |-> Outcome(d.fields), right |-> d.fields = Head(wire).meant]
  /\ wire' = Tail(wire)
  /\ UNCHANGED <<way, encoder, pendingSize, blocks, missed>>

Changes(row) == row.kind = "size" \/ (row.kind = "literal" /\ row.adds)

\* _on_headers refuses a stream over the limit before its block is decoded.
RefuseBlock ==
  /\ way = "requests" /\ wire # <<>> /\ Unbroken
  /\ wire' = Tail(wire)
  /\ missed' = (missed \/ \E i \in DOMAIN Head(wire).rows : Changes(Head(wire).rows[i]))
  /\ UNCHANGED <<way, encoder, pendingSize, decoder, blocks, got>>

HpackNext == SendBlock \/ EncodeFails \/ AskSize \/ DecodeBlock \/ RefuseBlock

HpackSpec == HpackInit /\ [][HpackNext]_hpackVars

-----------------------------------------------------------------------------
\* Whatever was inserted, evicted, too large for the table or resized on the
\* way, every block means to the decoder what it meant to the encoder, and the
\* tables agree whenever nothing is on its way; as long as no block that
\* changes a table was given up or refused.
TablesInStep ==
  ~missed => /\ got.right /\ Unbroken
             /\ wire = <<>> => encoder = decoder
=============================================================================

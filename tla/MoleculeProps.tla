---------------------------- MODULE MoleculeProps -----------------------------
(***************************************************************************)
(* What the parser should make of a transaction, defined on the            *)
(* transaction as a value and on the whole of it at once: its encoding,    *)
(* the callbacks it should lead to, and the encoding that is to be hashed. *)
(*                                                                         *)
(* A value is its units for a type without parts, the tuple of the values  *)
(* of its parts for a struct or a table, a sequence for a vector, and for  *)
(* an option a sequence with one value or none.                            *)
(***************************************************************************)
EXTENDS Molecule, SequencesExt

CONSTANTS Txs   \* values of type AnnotatedTransaction

\* A function on 1 .. n as the sequence it is, so that TLC evaluates it once.
Listed(f) == <<>> \o f

\* The encoding of offsets and contents, as in a table or in a nonempty DynVec.
Offsets(parts) ==
  LET head == NUM * (Len(parts) + 1)
      upto == Listed([k \in 1 .. Len(parts) + 1 |->
                        head + Len(FlattenSeq(SubSeq(parts, 1, k - 1)))])
  IN Pack(upto[Len(parts) + 1])
       \o FlattenSeq(Listed([k \in 1 .. Len(parts) |-> Pack(upto[k])]))
       \o FlattenSeq(parts)

RECURSIVE Encode(_, _)
Encode(t, v) ==
  LET type == TransactionTypes[t]
      part == Listed([k \in 1 .. Len(v) |->
                 Encode(IF type.kind \in {"fixvec", "dynvec", "option"} THEN type.fields[1]
                        ELSE type.fields[k], v[k])])
  IN CASE type.kind \in {"fixed", "byte"} -> v
       [] type.kind = "bytes" -> Pack(Len(v)) \o v
       [] type.kind \in {"struct", "option"} -> FlattenSeq(part)
       [] type.kind = "fixvec" -> Pack(Len(v)) \o FlattenSeq(part)
       [] type.kind = "dynvec" -> IF v = <<>> THEN Pack(NUM) ELSE Offsets(part)
       [] type.kind = "table" -> Offsets(part)

Event(c, arg) == IF c = "NULL" THEN <<>> ELSE <<<<c, arg>>>>

\* The callbacks for value v of type t with table c.  "on" says whether the cell
\* at hand is looked at, "spent" which output of the source transaction it is.
RECURSIVE Walk(_, _, _, _, _)
Walk(t, c, v, on, spent) ==
  LET type == TransactionTypes[t]
      cb == SignCallbacks[c]
      sub(k) == IF k \in DOMAIN cb.sub THEN cb.sub[k] ELSE "NULL"
      E(n, arg) == IF n \in Guarded /\ ~on THEN <<>> ELSE Event(n, arg)
      start(k) == IF k \in DOMAIN type.fields
                  THEN E(SignCallbacks[sub(k)].start, <<>>) ELSE <<>>
      \* The item k of a vector, the initialization of the next, and its index.
      item(k) ==
        Walk(type.fields[1], sub(1), v[k],
             IF cb.index = "input_context_start_idx" THEN k - 1 = spent
             ELSE IF cb.index = "output_start" THEN TRUE ELSE on,
             IF c = "inputs" THEN Unpack(v[k][1][2][2]) ELSE spent)
          \o start(1) \o Event(cb.index, <<k>>)
      field(k) == Walk(type.fields[k], sub(k), v[k],
                       IF c = "raw" THEN k = 6 /\ v[5] # <<>> ELSE on, spent)
      header == LET e == Encode(t, v)
                IN [k \in 1 .. Len(v) + 1 |-> Unpack(SubSeq(e, NUM * (k - 1) + 1, NUM * k))]
      prefix == LET size == NUM + type.size * Len(v) IN E(cb.size, <<size>>)
      after == E(cb.end, <<>>)
  IN CASE type.kind \in {"fixed", "byte"} -> E(cb.end, v)
       [] type.kind = "bytes" ->
            prefix \o (IF v = <<>> THEN <<>> ELSE E(cb.body_chunk, v)) \o after
       [] type.kind \in {"struct", "table"} ->
            (IF type.kind = "table" THEN start(1) \o Event(cb.offsets, header) ELSE <<>>)
              \o FlattenSeq(Listed([k \in 1 .. Len(v) |-> field(k) \o start(k + 1)]))
              \o after
       [] type.kind = "option" ->
            (IF v = <<>> THEN <<>> ELSE item(1)) \o after
       [] type.kind = "fixvec" ->
            prefix \o Event(cb.index, <<0>>)
              \o FlattenSeq(Listed([k \in 1 .. Len(v) |-> item(k)])) \o after
       [] type.kind = "dynvec" ->
            (IF v = <<>> THEN <<>>
             ELSE start(1) \o Event(cb.length, <<Len(v)>>) \o Event(cb.index, <<0>>)
                    \o FlattenSeq(Listed([k \in 1 .. Len(v) |-> item(k)])))
              \o after

\* The transaction without annotations, of type RawTransaction: an input names
\* the output it spends by the digest of the transaction that made it.
Stripped(tx) ==
  LET raw == tx[4]
      plain(i) == <<i[1][1], <<Digest(Encode("RawTransaction", i[2])), i[1][2][2]>>>>
  IN [raw EXCEPT ![4] = [k \in 1 .. Len(raw[4]) |-> plain(raw[4][k])]]

\* Each computed once.
Encoded == [tx \in Txs |-> Encode("AnnotatedTransaction", tx)]
Expected == [tx \in Txs |-> Walk("AnnotatedTransaction", "transaction", tx, FALSE, 0)]
ToHash == [tx \in Txs |-> Encode("RawTransaction", Stripped(tx))]

-----------------------------------------------------------------------------

\* What was heard of a body may still be a part of it.
Begins(heard, events) ==
  /\ Len(heard) <= Len(events)
  /\ \A i \in DOMAIN heard :
       /\ heard[i][1] = events[i][1]
       /\ IF i = Len(heard) /\ heard[i][1] \in Piecewise
          THEN IsPrefix(heard[i][2], events[i][2])
          ELSE heard[i][2] = events[i][2]

\* However a transaction is cut into chunks, and whatever was sent before it, the
\* callbacks are those a parser of the whole transaction calls: in that order,
\* with those arguments, and those about a cell only for the output that the
\* input spends.  Nothing is called twice at a cut and nothing is left out.
CallbacksAsSent ==
  \A tx \in Txs : wire = Encoded[tx] =>
    /\ Begins(sign.heard, Expected[tx])
    /\ stack = <<>> => sign.heard = Expected[tx]

\* The hash that is signed is that of the transaction without its annotations
\* (apdu_sign.c computes it on the way, from offsets it corrects): each input
\* names the digest of the source transaction that was checked.
HashIsOfRawTransaction ==
  \A tx \in Txs : phase = "valid" /\ wire = Encoded[tx] =>
    sign.transaction_hash = ToHash[tx]

\* What the prompt is computed from: the cells and their data.
OfCells(events) ==
  SelectSeq(events, LAMBDA e : e[1] \in Guarded \cup {"output_end", "finish_output_cell_data"})

\* The hash binds the prompt: whatever was received, if its hash is that of a
\* transaction, the callbacks about cells were those of that transaction.
HashBindsCells ==
  \A tx \in Txs : phase = "valid" /\ sign.transaction_hash = ToHash[tx] =>
    OfCells(sign.heard) = OfCells(Expected[tx])
==============================================================================

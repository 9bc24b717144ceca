------------------------------ MODULE Molecule -------------------------------
(***************************************************************************)
(* The streaming parser: a transaction comes in chunks that may end        *)
(* anywhere, the parser stops where a chunk ends and goes on with the next *)
(* one, and calls callbacks on the way.                                    *)
(*                                                                         *)
(* The nested parser states are a stack of frames.  An action is one step  *)
(* of the parser at the top of it: a number, a field, an item, a body, or  *)
(* the end of the chunk.  handle_apdu begins and ends a chunk.             *)
(***************************************************************************)
EXTENDS RawHash, FiniteSets

CONSTANTS
  Types,      \* the types, by name
  Callbacks,  \* the tables of callbacks, by name
  Uses,       \* which type is parsed with which table
  Inner,      \* the tables found beneath a table with a chunk callback
  Wires,      \* what the host may send as a transaction
  Rejected,   \* those that TxSign finds unsafe to sign
  Lens        \* lengths of chunks; the last one may be shorter

Kinds == {"fixed", "byte", "bytes", "struct", "table", "fixvec", "dynvec", "option"}

\* The table of callbacks for part k: MOL_NULL_BIND gives none where cb has none.
Sub(c, k) == IF k \in DOMAIN Callbacks[c].sub THEN Callbacks[c].sub[k] ELSE "NULL"

Slots == {"start", "end", "offsets", "size", "length", "index", "body_chunk"}

ASSUME TypesAssumption ==
  \A t \in DOMAIN Types :
    /\ Types[t].kind \in Kinds
    /\ Types[t].size \in Nat \ {0}
    /\ Types[t].fields \in Seq(DOMAIN Types)
    /\ Types[t].kind \in {"fixvec", "dynvec", "option"} => Len(Types[t].fields) = 1

ASSUME CallbacksAssumption ==
  /\ "NULL" \in DOMAIN Callbacks
  /\ \A c \in DOMAIN Callbacks :
       /\ Callbacks[c].sub \in Seq(DOMAIN Callbacks)
       /\ Callbacks[c].chunk \in {"NULL"} \cup OfUnits
       /\ \A s \in Slots : Callbacks[c][s] \in STRING

\* A callback stands where the parser calls it with an argument of the kind and of
\* the length it relies on ("guaranteed by parser", apdu_sign.c).
ASSUME UsesAssumption ==
  /\ <<"AnnotatedTransaction", "transaction">> \in Uses
  /\ \A u \in Uses :
       LET t == Types[u[1]]
           cb == Callbacks[u[2]]
       IN /\ u \in (DOMAIN Types) \X (DOMAIN Callbacks)
          /\ \A k \in DOMAIN t.fields : <<t.fields[k], Sub(u[2], k)>> \in Uses
          /\ \A s \in {"start", "size", "body_chunk"} : cb[s] \notin OfArgument
          /\ cb.index \notin OfArgument \ OfIndex
          /\ cb.length \notin OfArgument \ OfLength
          /\ cb.offsets \notin OfArgument \ OfHeader
          /\ cb.offsets \in OfHeader => Len(t.fields) = 6
          /\ cb.end \in OfArgument =>
               /\ t.kind = "fixed"
               /\ cb.end = "blake2b_chunk" \/ (cb.end \in OfNumber /\ t.size = NUM)

\* Beneath a table with a chunk callback no other callback touches the hashes.
ASSUME InnerAssumption ==
  /\ Inner \subseteq DOMAIN Callbacks /\ "NULL" \in Inner
  /\ \A c \in DOMAIN Callbacks :
       (Callbacks[c].chunk # "NULL" \/ c \in Inner) =>
         /\ \A k \in DOMAIN Callbacks[c].sub : Callbacks[c].sub[k] \in Inner
         /\ \A s \in Slots \ {"end"} : Callbacks[c][s] \notin Hashing
  /\ \A c \in Inner : Callbacks[c].chunk = "NULL" /\ Callbacks[c].end \notin Hashing

ASSUME WiresAssumption == Wires \subseteq Seq(Unit) /\ Lens \subseteq Nat

VARIABLES
  wire,   \* the transaction the host is sending
  pos,    \* how much of it the parser has consumed
  limit,  \* where the chunk at hand ends
  phase,  \* "idle", "parsing", the parser's return value, or "valid"
  stack,  \* the states of the nested parsers, outermost first
  sign    \* the state of apdu_sign.c

vars == <<wire, pos, limit, phase, stack, sign>>

\* The state of a parser: state_num, field_idx, the numbers of its header, and
\* the bytes_state for what it reads at the moment.  start is start_idx; entry
\* and mark record where the parser began, in the wire and in its hash.
Frame(t, c, size, p, d) ==
  [type |-> t, cb |-> c, size |-> size, entry |-> p, start |-> p,
   mark |-> Len(IF Callbacks[c].chunk = "context_blake2b_chunk" THEN d.context
                ELSE d.hash_state),
   state_num |-> 0, field_idx |-> 0, nums |-> <<>>, buffer |-> <<>>]

Outermost == <<Frame("AnnotatedTransaction", "transaction", MOL_NUM_MAX, 0, Zeroed)>>

Cleared == /\ wire' = <<>> /\ pos' = 0 /\ limit' = 0 /\ phase' = "idle"
           /\ stack' = Outermost /\ sign' = Zeroed

Init == /\ wire = <<>> /\ pos = 0 /\ limit = 0 /\ phase = "idle"
        /\ stack = Outermost /\ sign = Zeroed

-----------------------------------------------------------------------------
(* The frame at the top *)

Top == stack[Len(stack)]
Is(kind) == phase = "parsing" /\ Types[Top.type].kind = kind
Cb == Callbacks[Top.cb]
Fields == Types[Top.type].fields

\* The state_num of a parser that has read its header, or its value.
HeaderEnd(kind) ==
  CASE kind \in {"fixed", "bytes", "fixvec"} -> 1
    [] kind = "table" -> 2 [] kind = "dynvec" -> 3 [] OTHER -> 0
IsReading(f) == f.state_num < HeaderEnd(Types[f.type].kind)

\* What mol_parse_bytes still needs, and the buffer once it has that.
Wanted ==
  CASE Types[Top.type].kind = "fixed" -> Types[Top.type].size - Len(Top.buffer)
    [] Types[Top.type].kind = "byte" -> IF Top.size = 1 THEN 1 ELSE 0
    [] OTHER -> IF IsReading(Top) THEN NUM - Len(Top.buffer) ELSE 0
Available == limit - pos
Enough == Wanted <= Available
Slice(from, to) == SubSeq(wire, from + 1, to)
Taken == Top.buffer \o Slice(pos, pos + Wanted)
Number == Unpack(Taken)

Same == UNCHANGED <<wire, limit>>

\* The parser goes on with frame f, at position p and with state d.
Continue(f, p, d) ==
  /\ stack' = [stack EXCEPT ![Len(stack)] = f]
  /\ pos' = p /\ sign' = d /\ phase' = phase /\ Same

Reject == phase' = "REJECT" /\ UNCHANGED <<pos, stack, sign>> /\ Same

\* The chunk callback is given what was consumed since start_idx.
Tell(d, f, p) == Effect(d, Callbacks[f.cb].chunk, Slice(f.start, p))

Chunked == {i \in DOMAIN stack : Callbacks[stack[i].cb].chunk # "NULL"}

\* Mutant: the parsers around the one that stops are not asked for their chunk.
SuspendSilently(f, p, d) ==
  /\ stack' = [i \in DOMAIN stack |->
                 [(IF i = Len(stack) THEN f ELSE stack[i]) EXCEPT !.start = p]]
  /\ pos' = p /\ phase' = "INCOMPLETE" /\ sign' = d /\ Same

\* The chunk ends.  Every parser returns INCOMPLETE, those with a chunk callback
\* call it (there is at most one on the stack), and when the next chunk comes
\* each begins with start_idx at its beginning.
Suspend(f, p, d) ==
  /\ stack' = [i \in DOMAIN stack |->
                 [(IF i = Len(stack) THEN f ELSE stack[i]) EXCEPT !.start = p]]
  /\ pos' = p /\ phase' = "INCOMPLETE" /\ Same
  /\ sign' = IF Chunked = {} THEN d
             ELSE Tell(d, stack[CHOOSE i \in Chunked : TRUE], p)

\* MOL_INIT_SUBPARSER: the start callback of part k, if the type has one.
InitPart(d, f, k) ==
  LET t == Types[f.type]
      part == IF t.kind \in {"fixvec", "dynvec"} THEN 1 ELSE k
  IN IF part \in DOMAIN t.fields THEN Call(d, Callbacks[Sub(f.cb, part)].start, <<>>)
     ELSE d

\* MOL_CALL_SUBPARSER for part k, of the given size.
CallPart(k, size) ==
  /\ stack' = Append(stack, Frame(Fields[k], Sub(Top.cb, k), size, pos, sign))
  /\ UNCHANGED <<pos, sign, phase>> /\ Same

\* The parser at the top returns COMPLETE, and the one below it counts the part,
\* initializes the next one and, being a vector, tells its index.
Return(p, d) ==
  /\ pos' = p /\ Same
  /\ IF Len(stack) = 1
     THEN stack' = <<>> /\ phase' = "COMPLETE" /\ sign' = d
     ELSE LET n == Len(stack) - 1
              f == [stack[n] EXCEPT !.field_idx = @ + 1]
          IN /\ stack' = [SubSeq(stack, 1, n) EXCEPT ![n] = f]
             /\ phase' = phase
             /\ sign' = IF Types[f.type].kind = "option" THEN d
                        ELSE Call(InitPart(d, f, f.field_idx + 1),
                                  Callbacks[f.cb].index, <<f.field_idx>>)

\* DONE
Done(p, d) == Return(p, Call(Tell(d, Top, p), Cb.end, <<>>))

Sizes(v) == Top.size \in {MOL_NUM_MAX, v}

-----------------------------------------------------------------------------
(* The parsers *)

\* Mutant: a number that is cut is begun again with the next chunk.
CutForgetting ==
  /\ phase = "parsing" /\ ~Enough
  /\ Suspend([Top EXCEPT !.buffer = <<>>], limit, sign)

\* Mutant: the parser tries again what the chunk does not have.
CutAndRetry ==
  /\ phase = "parsing" /\ ~Enough
  /\ Continue([Top EXCEPT !.buffer = @ \o Slice(pos, limit)], limit, sign)

\* mol_parse_bytes, MOL_CALL_NUM and the parser of a byte, when the chunk ends.
Cut ==
  /\ phase = "parsing" /\ ~Enough
  /\ Suspend([Top EXCEPT !.buffer = @ \o Slice(pos, limit)], limit, sign)

ParseFixed ==
  /\ Is("fixed") /\ Enough
  /\ Return(pos + Wanted, Call(sign, Cb.end, Taken))

ParseByte ==
  /\ Is("byte") /\ Enough
  /\ IF Top.size = 1 THEN Return(pos + 1, Call(sign, Cb.end, Taken)) ELSE Reject

ParseStruct ==
  /\ Is("struct")
  /\ IF ~Sizes(Types[Top.type].size) THEN Reject
     ELSE LET k == Top.field_idx + 1
          IN IF k \in DOMAIN Fields THEN CallPart(k, Types[Fields[k]].size)
             ELSE Done(pos, sign)

ParseOption ==
  /\ Is("option")
  /\ IF Top.size = 0 \/ Top.field_idx = 1 THEN Done(pos, sign)
     ELSE CallPart(1, Top.size)

\* The frame after the number that was just read.
Numbered == [Top EXCEPT !.buffer = <<>>, !.nums = Append(@, Number)]

TableSize ==
  /\ Is("table") /\ Top.state_num = 0 /\ Enough
  /\ IF ~Sizes(Number) THEN Reject
     ELSE Continue([Numbered EXCEPT !.state_num = 1], pos + Wanted, sign)

TableOffset ==
  /\ Is("table") /\ Top.state_num = 1 /\ Enough
  /\ IF Len(Numbered.nums) <= Len(Fields) THEN Continue(Numbered, pos + Wanted, sign)
     ELSE Continue([Numbered EXCEPT !.state_num = 2], pos + Wanted,
                   Call(InitPart(sign, Top, 1), Cb.offsets, Numbered.nums))

\* A field extends to the offset of the next one, the last one to the end.
TableField ==
  /\ Is("table") /\ Top.state_num = 2
  /\ LET k == Top.field_idx + 1
         next == IF k < Len(Fields) THEN Top.nums[k + 2] ELSE Top.nums[1]
     IN IF k \in DOMAIN Fields THEN CallPart(k, (next - Top.nums[k + 1]) % MOD)
        ELSE Done(pos, sign)

\* The prefix of a FixVec or of Bytes: neither the product nor the sum may
\* overflow, and the size must be the one expected and agree with the callback.
Acceptable(length, item) ==
  LET size == length * item + NUM
  IN size < MOD /\ Sizes(size) /\ Allows(Cb.size, size)

FixVecLength ==
  /\ Is("fixvec") /\ Top.state_num = 0 /\ Enough
  /\ LET item == Types[Top.type].size
         d == Call(sign, Cb.size, <<Number * item + NUM>>)
     IN IF ~Acceptable(Number, item) THEN Reject
        ELSE Continue([Numbered EXCEPT !.state_num = 1], pos + Wanted,
                      Call(InitPart(d, Top, 1), Cb.index, <<0>>))

FixVecItem ==
  /\ Is("fixvec") /\ Top.state_num = 1
  /\ IF Top.field_idx < Top.nums[1] THEN CallPart(1, Types[Top.type].size)
     ELSE Done(pos, sign)

BytesLength ==
  /\ Is("bytes") /\ Top.state_num = 0 /\ Enough
  /\ IF ~Acceptable(Number, 1) THEN Reject
     ELSE Continue([Numbered EXCEPT !.state_num = 1], pos + Wanted,
                   Call(sign, Cb.size, <<Number + NUM>>))

\* Mutant: the body is taken to be in the chunk.
BodyBeyondChunk ==
  /\ Is("bytes") /\ Top.state_num = 1
  /\ LET needed == Top.nums[1] - Top.field_idx
     IN Done(pos + needed, Call(sign, Cb.body_chunk, Slice(pos, pos + needed)))

\* field_idx is state_num - 1 of the code: how much of the body was seen.
BytesBody ==
  /\ Is("bytes") /\ Top.state_num = 1
  /\ LET needed == Top.nums[1] - Top.field_idx
         copy == IF needed < Available THEN needed ELSE Available
         d == IF needed = 0 THEN sign
              ELSE Call(sign, Cb.body_chunk, Slice(pos, pos + copy))
     IN IF copy = needed THEN Done(pos + copy, d)
        ELSE Suspend([Top EXCEPT !.field_idx = @ + copy], pos + copy, d)

\* A vector whose size is that of the size itself is empty.
DynVecSize ==
  /\ Is("dynvec") /\ Top.state_num = 0 /\ Enough
  /\ LET d == Call(sign, Cb.size, <<Number>>)
     IN IF ~Allows(Cb.size, Number) THEN Reject
        ELSE IF Number = NUM THEN Done(pos + Wanted, d)
        ELSE IF ~Sizes(Number) THEN Reject
        ELSE Continue([Numbered EXCEPT !.state_num = 1], pos + Wanted, d)

\* How many items there are, from the offset of the first.
Items(f) == ((f.nums[2] \div NUM) - 1) % MOD

\* The offsets of the other items are skipped.  field_idx counts them, and then
\* the items.
DynVecOffset ==
  /\ Is("dynvec") /\ Top.state_num \in {1, 2} /\ Enough
  /\ LET read == IF Top.state_num = 1 THEN [Numbered EXCEPT !.field_idx = 1]
                 ELSE [Top EXCEPT !.buffer = <<>>, !.field_idx = @ + 1]
         d == Call(InitPart(sign, Top, 1), Cb.length, <<Items(read)>>)
     IN IF read.field_idx < Items(read)
        THEN Continue([read EXCEPT !.state_num = 2], pos + Wanted, sign)
        ELSE Continue([read EXCEPT !.state_num = 3, !.field_idx = 0], pos + Wanted,
                      Call(d, Cb.index, <<0>>))

DynVecItem ==
  /\ Is("dynvec") /\ Top.state_num = 3
  /\ IF Top.field_idx < Items(Top) THEN CallPart(1, MOL_NUM_MAX)
     ELSE Done(pos, sign)

ParseStep ==
  \/ Cut \/ ParseFixed \/ ParseByte \/ ParseStruct \/ ParseOption
  \/ TableSize \/ TableOffset \/ TableField \/ FixVecLength \/ FixVecItem
  \/ BytesLength \/ BytesBody \/ DynVecSize \/ DynVecOffset \/ DynVecItem

-----------------------------------------------------------------------------
(* handle_apdu *)

Least(a, b) == IF a < b THEN a ELSE b

\* P1_FIRST, at any time; in zeroed memory P1_NEXT comes to the same.
FirstChunk(w, n) ==
  /\ phase = "idle"
  /\ wire' = w /\ pos' = 0 /\ limit' = Least(n, Len(w)) /\ phase' = "parsing"
  /\ stack' = Outermost /\ sign' = [Zeroed EXCEPT !.rejected = (w \in Rejected)]

NextChunk(n) ==
  /\ phase = "idle" /\ wire # <<>>
  /\ IF sign.hard_reject THEN Cleared
     ELSE /\ limit' = Least(pos + n, Len(wire)) /\ phase' = "parsing"
          /\ UNCHANGED <<wire, pos, stack, sign>>

\* The exception of a refused transaction makes main_loop clear everything; that of
\* an unsafe one is raised by handle_apdu or, for want of a tag, by sign_complete.
EndChunk(last) ==
  /\ phase \in {"INCOMPLETE", "COMPLETE", "REJECT"}
  /\ IF last
     THEN IF phase # "COMPLETE" \/ sign.hard_reject \/ sign.unsafe THEN Cleared
          ELSE phase' = "valid" /\ UNCHANGED <<wire, pos, limit, stack, sign>>
     ELSE IF phase # "INCOMPLETE" THEN Cleared
          ELSE phase' = "idle" /\ UNCHANGED <<wire, pos, limit, stack, sign>>

\* The answer to the prompt, after which the state is cleared.
Answered == phase = "valid" /\ Cleared

Next ==
  \/ ParseStep
  \/ \E w \in Wires, n \in Lens : FirstChunk(w, n)
  \/ \E n \in Lens : NextChunk(n)
  \/ \E last \in BOOLEAN : EndChunk(last)
  \/ Answered

\* The parser is a call of a function: once begun, its steps are taken.
Spec == Init /\ [][Next]_vars /\ WF_vars(ParseStep)

-----------------------------------------------------------------------------
(* What holds for every input and every way to cut it *)

FrameType ==
  [type : DOMAIN Types, cb : DOMAIN Callbacks, size : Nat, entry : Nat, start : Nat,
   mark : Nat, state_num : 0 .. 3, field_idx : Nat, nums : Seq(Num), buffer : Seq(Unit)]

SignType ==
  [hash_state : Seq(Unit), context : Seq(Unit), index : Num, input_count : Num,
   active : BOOLEAN, hard_reject : BOOLEAN, unsafe : BOOLEAN, rejected : BOOLEAN,
   transaction_hash : Seq(Unit),
   heard : Seq(STRING \X Seq(Nat))]

TypeOK ==
  /\ wire \in Seq(Unit) /\ pos \in Nat /\ limit \in Nat
  /\ pos <= limit /\ limit <= Len(wire)
  /\ phase \in {"idle", "parsing", "INCOMPLETE", "COMPLETE", "REJECT", "valid"}
  /\ stack \in Seq(FrameType) /\ sign \in SignType
  /\ \A i \in DOMAIN stack : <<stack[i].type, stack[i].cb>> \in Uses
  /\ phase = "parsing" => stack # <<>>

\* How many numbers of its header parser f has read.
NumbersRead(f) ==
  IF Types[f.type].kind = "dynvec" /\ f.state_num = 2 THEN f.field_idx + 1 ELSE Len(f.nums)
\* mol_parse_bytes, MOL_CALL_NUM: a number of a header is what was received at its
\* place, and what has been collected of the next one, or of a field, is all that
\* came since, in order, however often chunks ended within it.  Sizes, offsets and
\* item counts, and so the way the rest is parsed, are those that were sent.
NumbersAsReceived ==
  \A i \in DOMAIN stack :
    LET f == stack[i]
        At(k) == f.entry + NUM * k
    IN /\ \A k \in DOMAIN f.nums : f.nums[k] = Unpack(Slice(At(k - 1), At(k)))
       /\ f.buffer = IF i = Len(stack) /\ IsReading(f) THEN Slice(At(NumbersRead(f)), pos)
                     ELSE <<>>

\* What parser f was given to hash since it began.
HashedBy(f) ==
  LET stream == IF Callbacks[f.cb].chunk = "context_blake2b_chunk" THEN sign.context
                ELSE sign.hash_state
  IN SubSeq(stream, f.mark + 1, Len(stream))

\* MOL_CALL_SUBPARSER, DONE: the chunk callback of a parser is given all the parser
\* has consumed, each unit once and in order, whatever the chunks; and nothing
\* else gets into that hash meanwhile.
ChunksCoverReceived ==
  \A i \in DOMAIN stack :
    Callbacks[stack[i].cb].chunk # "NULL" =>
      HashedBy(stack[i]) = Slice(stack[i].entry, stack[i].start)

\* How many source transactions were hashed.
SourcesHashed(d) ==
  Cardinality({i \in DOMAIN d.heard : d.heard[i][1] = "finish_context_txn"})

\* blake2b_input_count: the announced number of inputs, from which the offsets in
\* the hash are computed before any input is seen, is the number of inputs whose
\* source was hashed, also when a transmission was damaged.
CountIsOfInputs == phase = "valid" => SourcesHashed(sign) \in {0, sign.input_count}

\* MolReader_AnnotatedTransaction_parse returns, whatever sizes, lengths and offsets
\* a transaction claims: no loop of a vector or of nested parsers goes on without
\* consuming what was received.
ParserReturns == phase = "parsing" ~> phase \in {"INCOMPLETE", "COMPLETE", "REJECT"}
==============================================================================

---------------------------- MODULE MoleculeProof ----------------------------
(***************************************************************************)
(* What the streaming parser reads and what it hands over to be hashed,    *)
(* for any types, tables of callbacks, transmissions and chunks.           *)
(***************************************************************************)
EXTENDS Molecule, SequenceTheorems, FiniteSetTheorems, TLAPS

-----------------------------------------------------------------------------
(* The inductive invariant *)

\* The kinds with parts: their parsers wait for that of a part to return.
Composite == {"struct", "table", "fixvec", "dynvec", "option"}
Waiting(f) == Types[f.type].kind \in Composite /\ ~IsReading(f)

\* How much of its header a parser has read, and where it stands in it.
Shape(f) ==
  LET kind == Types[f.type].kind
      n == Len(f.nums)
      m == Len(Types[f.type].fields)
  IN /\ kind \in {"fixed", "byte", "struct", "option"} => f.state_num = 0 /\ n = 0
     /\ kind \in {"bytes", "fixvec"} => f.state_num = n /\ n <= 1
     /\ kind = "bytes" => f.field_idx <= IF n = 1 THEN f.nums[1] ELSE 0
     /\ kind = "table" =>
          /\ f.state_num \in 0 .. 2
          /\ f.state_num = 0 => n = 0
          /\ f.state_num = 1 => n > 0 /\ (n = 1 \/ n <= m)
          /\ f.state_num = 2 => n > m /\ n > 1
     /\ kind = "dynvec" => n = IF f.state_num = 3 THEN 2 ELSE f.state_num

\* Where the next number of a header begins, or the field.
NextAt(f) == f.entry + NUM * NumbersRead(f)

\* The units a parser collects before it looks at them.
Collects(f) == IF Types[f.type].kind = "fixed" THEN Types[f.type].size ELSE NUM

\* The units of transmission w from place a to place b.
Piece(w, a, b) == SubSeq(w, a + 1, b)

\* A parser, when all of w up to p is consumed.
FrameInv(f, p, w) ==
  /\ Shape(f)
  /\ f.entry <= f.start /\ f.start <= p
  /\ \A k \in DOMAIN f.nums :
       /\ f.entry + NUM * k <= p
       /\ f.nums[k] = Unpack(Piece(w, f.entry + NUM * (k - 1), f.entry + NUM * k))
  /\ IF IsReading(f)
     THEN /\ NextAt(f) + Len(f.buffer) = p /\ f.buffer = Piece(w, NextAt(f), p)
          /\ Len(f.buffer) <= Collects(f)
     ELSE f.buffer = <<>>

\* The hash that the chunk callback of a parser adds to.
Stream(f, d) ==
  IF Callbacks[f.cb].chunk = "context_blake2b_chunk" THEN d.context ELSE d.hash_state
HasChunk(f) == Callbacks[f.cb].chunk # "NULL"

\* Beneath a parser with a chunk callback only inner tables are in use.
Nested ==
  \A i, j \in DOMAIN stack : i < j /\ HasChunk(stack[i]) => stack[j].cb \in Inner

\* Such a parser has handed over what it consumed of w.
Handed(f, d, w) ==
  /\ f.mark <= Len(Stream(f, d))
  /\ SubSeq(Stream(f, d), f.mark + 1, Len(Stream(f, d))) = Piece(w, f.entry, f.start)

Alive == phase \notin {"COMPLETE", "valid"} => stack # <<>>

\* The parsers beneath the top.
Beneath == \A i \in DOMAIN stack : i < Len(stack) => Waiting(stack[i])

Inv ==
  /\ TypeOK /\ Alive /\ Beneath /\ Nested
  /\ \A i \in DOMAIN stack : FrameInv(stack[i], pos, wire)
  /\ \A i \in DOMAIN stack : HasChunk(stack[i]) => Handed(stack[i], sign, wire)

-----------------------------------------------------------------------------
(* Numbers *)

\* Numbers lie below MOD, which is positive.
LEMMA NumFacts ==
  /\ BASE \in Nat /\ BASE > 1 /\ MOD \in Nat /\ MOD > 3 /\ NUM = 2
  /\ \A n : n \in Num <=> n \in Nat /\ n < MOD
  /\ Unit \subseteq Nat /\ Num \subseteq Nat /\ MOL_NUM_MAX \in Nat
  /\ 0 \in Num
<1>1. BASE \in Nat /\ BASE > 1
  BY UnitAssumption
<1>2. BASE * BASE \in Nat /\ BASE * BASE > 3
  <2>1. BASE * BASE \in Nat /\ BASE * BASE = (BASE - 2) * (BASE - 2) + 4 * BASE - 4
    BY <1>1
  <2>2. (BASE - 2) * (BASE - 2) \in Nat
    <3>1. BASE - 2 \in Nat
      BY <1>1
    <3>. QED
      BY <3>1
  <2>. QED
    BY <1>1, <2>1, <2>2
<1>3. MOD \in Nat /\ MOD > 3
  BY <1>2 DEF MOD
<1>4. \A n : n \in Num <=> n \in Nat /\ n < MOD
  BY <1>3 DEF Num
<1>5. Unit \subseteq Nat /\ Num \subseteq Nat
  BY <1>1, <1>4 DEF Unit
<1>6. MOL_NUM_MAX \in Nat /\ NUM = 2 /\ 0 \in Num
  BY <1>3, <1>4 DEF MOL_NUM_MAX, NUM
<1>. QED
  BY <1>1, <1>3, <1>4, <1>5, <1>6, Zenon

\* mol_unpack_number gives a number.
LEMMA UnpackType ==
  ASSUME NEW s \in Seq(Unit), Len(s) = NUM
  PROVE  Unpack(s) \in Num
<1>1. s[1] \in Unit /\ s[2] \in Unit
  <2>1. 1 \in 1 .. Len(s) /\ 2 \in 1 .. Len(s)
    BY DEF NUM
  <2>. QED
    BY <2>1, ElementOfSeq
<1> DEFINE low == s[1]  high == s[2]
<1>2. /\ BASE \in Nat /\ BASE > 1 /\ low \in Nat /\ low <= BASE - 1
      /\ high \in Nat /\ high <= BASE - 1
  BY <1>1, NumFacts DEF Unit
<1> HIDE DEF low, high
<1>3. high * BASE \in Nat /\ high * BASE <= (BASE - 1) * BASE
  <2>1. high * BASE \in Nat
    BY <1>2
  <2>2. (BASE - 1 - high) * BASE \in Nat
    <3>1. BASE - 1 - high \in Nat
      BY <1>2
    <3>. QED
      BY <1>2, <3>1
  <2>3. (BASE - 1 - high) * BASE = (BASE - 1) * BASE - high * BASE
    BY <1>2
  <2>4. (BASE - 1) * BASE \in Int
    BY <1>2
  <2>. QED
    BY <2>1, <2>2, <2>3, <2>4
<1>4. (BASE - 1) * BASE = BASE * BASE - BASE
  BY <1>2
<1>5. low + high * BASE \in Nat /\ low + high * BASE < BASE * BASE
  BY <1>2, <1>3, <1>4
<1>6. low + high * BASE \in Num
  BY <1>5, NumFacts DEF MOD
<1>. QED
  BY <1>6 DEF Unpack, low, high

\* A number is packed into units.
LEMMA PackType ==
  ASSUME NEW n \in Num
  PROVE  Pack(n) \in Seq(Unit)
<1>1. n \in Nat /\ n < BASE * BASE /\ BASE \in Nat /\ BASE > 1
  BY NumFacts DEF MOD
<1>2. n % BASE \in Nat /\ n % BASE < BASE
  BY <1>1
<1>3. n \div BASE \in Nat /\ n \div BASE < BASE
  <2>1. n = (BASE * (n \div BASE)) + (n % BASE) /\ n \div BASE \in Int
    BY <1>1
  <2> DEFINE q == n \div BASE
  <2>2. q \in Int /\ BASE * q <= n /\ BASE * q > n - BASE
    BY <1>1, <1>2, <2>1
  <2> HIDE DEF q
  <2>3. q >= 0
    <3>1. ~(q <= -1)
      <4>1. q <= -1 => BASE * q <= -BASE
        BY <1>1, <2>2
      <4>. QED
        BY <1>1, <2>2, <4>1
    <3>. QED
      BY <2>2, <3>1
  <2>4. q < BASE
    <3>1. q >= BASE => BASE * q >= BASE * BASE
      BY <1>1, <2>2
    <3>. QED
      BY <1>1, <2>2, <3>1
  <2>. QED
    BY <2>2, <2>3, <2>4 DEF q
<1>4. n % BASE \in Unit /\ n \div BASE \in Unit
  BY <1>1, <1>2, <1>3 DEF Unit
<1>. QED
  BY <1>4 DEF Pack

\* Units are numbers.
LEMMA UnitsAreNumbers == Seq(Unit) \subseteq Seq(Nat)
<1> SUFFICES ASSUME NEW s \in Seq(Unit) PROVE s \in Seq(Nat)
  OBVIOUS
<1>1. Unit \subseteq Nat
  BY NumFacts
<1>2. Len(s) \in Nat /\ s \in [1 .. Len(s) -> Unit]
  BY LenProperties
<1>3. s \in [1 .. Len(s) -> Nat]
  BY <1>1, <1>2
<1>. QED
  BY <1>2, <1>3

\* mol_num_t wraps.
LEMMA WrapType == \A n \in Int : n % MOD \in Num
BY NumFacts

-----------------------------------------------------------------------------
(* What was received *)

\* A piece of a transmission.
LEMMA PieceType ==
  ASSUME NEW w \in Seq(Unit), NEW a \in Nat, NEW b \in Nat, a <= b, b <= Len(w)
  PROVE  Piece(w, a, b) \in Seq(Unit) /\ Len(Piece(w, a, b)) = b - a
<1>1. \A i \in a + 1 .. b : w[i] \in Unit
  OBVIOUS
<1>2. SubSeq(w, a + 1, b) \in Seq(Unit)
  BY <1>1, SubSeqProperties
<1>3. Len(SubSeq(w, a + 1, b)) = IF a + 1 <= b THEN b - (a + 1) + 1 ELSE 0
  BY <1>1, SubSeqProperties
<1>. QED
  BY <1>2, <1>3 DEF Piece

\* There is nothing between a place and itself.
LEMMA PieceEmpty ==
  ASSUME NEW w, NEW a \in Nat
  PROVE  Piece(w, a, a) = <<>>
BY SubSeqEmpty DEF Piece

\* Two adjacent pieces are one.
LEMMA PieceConcat ==
  ASSUME NEW w \in Seq(Unit), NEW a \in Nat, NEW b \in Nat, NEW c \in Nat,
         a <= b, b <= c, c <= Len(w)
  PROVE  Piece(w, a, b) \o Piece(w, b, c) = Piece(w, a, c)
<1>1. /\ a + 1 \in 1 .. Len(w) + 1 /\ b \in (a + 1) - 1 .. Len(w)
      /\ c \in b .. Len(w)
  OBVIOUS
<1>2. SubSeq(w, a + 1, b) \o SubSeq(w, b + 1, c) = SubSeq(w, a + 1, c)
  BY <1>1, ConcatAdjacentSubSeq
<1>. QED
  BY <1>2 DEF Piece

-----------------------------------------------------------------------------
(* Callbacks *)

\* An argument is what the callback looks at.
Fits(c, arg) ==
  /\ arg \in Seq(Nat)
  /\ c \in OfUnits \cup OfNumber => arg \in Seq(Unit)
  /\ c \in OfNumber => Len(arg) = NUM
  /\ c \in OfHeader => arg \in Seq(Num) /\ Len(arg) = 7

\* The digest of a source transaction is a sequence of units.
LEMMA DigestType == \A s : Digest(s) \in Seq(Unit)
<1>1. \A n : AsUnit(n) \in Unit
  BY NumFacts DEF AsUnit, Unit
<1>2. HASH \in Nat
  BY SizeAssumption
<1>. QED
  BY <1>1, <1>2 DEF Digest

\* The fields of the state of apdu_sign.c.
LEMMA SignFields ==
  ASSUME NEW d \in SignType
  PROVE  /\ d.hash_state \in Seq(Unit) /\ d.context \in Seq(Unit)
         /\ d.index \in Num /\ d.input_count \in Num
         /\ d.active \in BOOLEAN /\ d.rejected \in BOOLEAN
         /\ d.heard \in Seq(STRING \X Seq(Nat))
BY DEF SignType

\* A callback changes the state to one of its type and leaves what was heard.
LEMMA EffectType ==
  ASSUME NEW d \in SignType, NEW c, NEW arg, Fits(c, arg)
  PROVE  Effect(d, c, arg) \in SignType /\ Effect(d, c, arg).heard = d.heard
<1> USE SignFields
<1>1. CASE c = "blake2b_chunk"
  <2>1. arg \in Seq(Unit)
    BY <1>1 DEF Fits, OfUnits
  <2>2. Effect(d, c, arg) = blake2b_chunk(d, arg)
    BY <1>1 DEF Effect
  <2>3. d.hash_state \o arg \in Seq(Unit)
    BY <2>1, ConcatProperties
  <2>. QED
    BY <2>2, <2>3 DEF blake2b_chunk, SignType
<1>2. CASE c = "context_blake2b_chunk"
  <2>1. arg \in Seq(Unit)
    BY <1>2 DEF Fits, OfUnits
  <2>2. Effect(d, c, arg) = context_blake2b_chunk(d, arg)
    BY <1>2 DEF Effect
  <2>3. d.context \o arg \in Seq(Unit)
    BY <2>1, ConcatProperties
  <2>. QED
    BY <2>2, <2>3 DEF context_blake2b_chunk, SignType
<1>3. CASE c \in OfNumber
  <2>1. arg \in Seq(Unit) /\ Unpack(arg) \in Num
    BY <1>3, UnpackType DEF Fits
  <2>2. d.context \o arg \in Seq(Unit)
    BY <2>1, ConcatProperties
  <2>3. CASE c = "bip32_component"
    <3>1. Effect(d, c, arg) = bip32_component(d, arg)
      BY <2>3 DEF Effect
    <3>. QED
      BY <2>1, <2>2, <3>1 DEF bip32_component, SignType
  <2>4. CASE c = "set_input_count"
    <3>1. Effect(d, c, arg) = set_input_count(d, arg)
      BY <2>4 DEF Effect
    <3>. QED
      BY <2>1, <3>1 DEF set_input_count, SignType
  <2>5. CASE c = "input_save_index"
    <3>1. Effect(d, c, arg) = input_save_index(d, arg)
      BY <2>5 DEF Effect
    <3>. QED
      BY <2>1, <3>1 DEF input_save_index, SignType
  <2>. QED
    BY <1>3, <2>3, <2>4, <2>5 DEF OfNumber
<1>4. CASE c = "input_start"
  <2>1. Effect(d, c, arg) = input_start(d)
    BY <1>4 DEF Effect
  <2>2. <<>> \in Seq(Unit) /\ 0 \in Num
    BY NumFacts
  <2>. QED
    BY <2>1, <2>2 DEF input_start, SignType
<1>5. CASE c = "input_context_start_idx"
  <2>1. Effect(d, c, arg) = input_context_start_idx(d, arg[1])
    BY <1>5 DEF Effect
  <2>. QED
    BY <2>1 DEF input_context_start_idx, SignType
<1>6. CASE c = "finish_context_txn"
  <2>1. Effect(d, c, arg) = finish_context_txn(d)
    BY <1>6 DEF Effect
  <2>2. d.hash_state \o Digest(d.context) \in Seq(Unit)
    BY DigestType, ConcatProperties
  <2>3. Pack(d.index) \in Seq(Unit)
    BY PackType
  <2>4. (d.hash_state \o Digest(d.context)) \o Pack(d.index) \in Seq(Unit)
    BY <2>2, <2>3, ConcatProperties
  <2>5. <<>> \in Seq(Unit) /\ 0 \in Num
    BY NumFacts
  <2>. QED
    BY <2>1, <2>4, <2>5 DEF finish_context_txn, SignType
<1>7. CASE c = "finish_inputs"
  <2>1. Effect(d, c, arg) = finish_inputs(d)
    BY <1>7 DEF Effect
  <2>2. <<>> \in Seq(Unit) /\ 0 \in Num
    BY NumFacts
  <2>. QED
    BY <2>1, <2>2 DEF finish_inputs, SignType
<1>8. CASE c = "output_start"
  <2>1. Effect(d, c, arg) = output_start(d)
    BY <1>8 DEF Effect
  <2>. QED
    BY <2>1 DEF output_start, SignType
<1>9. CASE c = "blake2b_input_count"
  <2>1. Effect(d, c, arg) = blake2b_input_count(d, arg[1])
    BY <1>9 DEF Effect
  <2>2. CASE arg[1] = d.input_count
    <3>1. d.hash_state \o Pack(arg[1]) \in Seq(Unit)
      BY <2>2, PackType, ConcatProperties
    <3>. QED
      BY <2>1, <2>2, <3>1 DEF blake2b_input_count, SignType
  <2>3. CASE arg[1] # d.input_count
    BY <2>1, <2>3 DEF blake2b_input_count, SignType
  <2>. QED
    BY <2>2, <2>3
<1>10. CASE c = "computeNewOffsetsToHash"
  <2>1. Effect(d, c, arg) = computeNewOffsetsToHash(d, arg)
    BY <1>10 DEF Effect
  <2>2. arg \in Seq(Num) /\ Len(arg) = 7
    BY <1>10 DEF Fits, OfHeader
  <2> DEFINE cut == (arg[6] - arg[5] - (CELL_INPUT * d.input_count + NUM)) % MOD
             near(n) == Pack((n - cut) % MOD)
  <2>3. \A k \in 1 .. 7 : arg[k] \in Num /\ arg[k] \in Int /\ Pack(arg[k]) \in Seq(Unit)
    <3>1. \A k \in 1 .. 7 : arg[k] \in Num
      BY <2>2, ElementOfSeq
    <3>2. \A n \in Num : n \in Int
      BY NumFacts
    <3>. QED
      BY <3>1, <3>2, PackType, Zenon
  <2>4. cut \in Int
    <3>1. CELL_INPUT * d.input_count + NUM \in Int
      <4>1. CELL_INPUT \in Nat
        BY SizeAssumption DEF CELL_INPUT, OUT_POINT, NUM
      <4>. QED
        BY <4>1, NumFacts
    <3>2. arg[6] - arg[5] - (CELL_INPUT * d.input_count + NUM) \in Int
      <4>1. arg[6] \in Int /\ arg[5] \in Int
        BY <2>3
      <4>. QED
        BY <3>1, <4>1
    <3>. QED
      BY <3>2, WrapType, NumFacts
  <2> HIDE DEF cut
  <2>5. \A k \in 1 .. 7 : near(arg[k]) \in Seq(Unit)
    <3>1. \A k \in 1 .. 7 : (arg[k] - cut) % MOD \in Num
      <4>1. ASSUME NEW k \in 1 .. 7 PROVE (arg[k] - cut) % MOD \in Num
        <5> DEFINE n == arg[k] - cut
        <5>1. n \in Int
          <6>1. arg[k] \in Int
            BY <2>3
          <6>2. arg[k] - cut \in Int
            BY <2>4, <6>1
          <6>. QED
            BY <6>2
        <5> HIDE DEF n
        <5>2. n % MOD \in Num
          BY <5>1, WrapType
        <5>. QED
          BY <5>2 DEF n
      <4>. QED
        BY <4>1
    <3>. QED
      BY <3>1, PackType
  <2> HIDE DEF near
  <2>6. d.hash_state \o near(arg[1]) \o Pack(arg[2]) \o Pack(arg[3]) \o Pack(arg[4])
          \o Pack(arg[5]) \o near(arg[6]) \o near(arg[7]) \in Seq(Unit)
    <3>1. \A s, t \in Seq(Unit) : s \o t \in Seq(Unit)
      BY ConcatProperties
    <3>. QED
      BY <2>3, <2>5, <3>1
  <2>. QED
    BY <2>1, <2>6 DEF computeNewOffsetsToHash, SignType, near, cut
<1>11. CASE c = "finalize_raw_transaction"
  <2>1. Effect(d, c, arg) = finalize_raw_transaction(d)
    BY <1>11 DEF Effect
  <2>2. <<>> \in Seq(Unit)
    OBVIOUS
  <2>. QED
    BY ZenonT(40), <2>1, <2>2 DEF finalize_raw_transaction, SignType
<1>12. CASE c \notin OfArgument \cup Hashing \cup {"output_start"}
  <2>1. Effect(d, c, arg) = d
    BY <1>12 DEF Effect, OfArgument, OfUnits, OfNumber, OfIndex, OfLength, OfHeader, Hashing
  <2>. QED
    BY <2>1
<1>. QED
  BY <1>1, <1>2, <1>3, <1>4, <1>5, <1>6, <1>7, <1>8, <1>9, <1>10, <1>11, <1>12
     DEF OfArgument, OfUnits, OfNumber, OfIndex, OfLength, OfHeader, Hashing

\* The record of the callbacks changes nothing else.
LEMMA HeardType ==
  ASSUME NEW d \in SignType, NEW c \in STRING, NEW arg \in Seq(Nat)
  PROVE  /\ Heard(d, c, arg) \in SignType
         /\ Heard(d, c, arg).hash_state = d.hash_state
         /\ Heard(d, c, arg).context = d.context
<1> DEFINE n == Len(d.heard)
           more == c \in Piecewise /\ n > 0 /\ d.heard[n][1] = c
           quiet == (c \in Guarded /\ ~d.active) \/ (c \in Piecewise /\ arg = <<>>)
<1>1. d.heard \in Seq(STRING \X Seq(Nat)) /\ n \in Nat
  BY SignFields
<1>2. CASE quiet
  BY <1>2 DEF Heard
<1>3. CASE ~quiet /\ more
  <2>1. Heard(d, c, arg) = [d EXCEPT !.heard[n] = <<c, @[2] \o arg>>]
    BY <1>3 DEF Heard
  <2>2. d.heard[n] \in STRING \X Seq(Nat)
    BY <1>1, <1>3
  <2>3. <<c, d.heard[n][2] \o arg>> \in STRING \X Seq(Nat)
    <3>1. d.heard[n][2] \in Seq(Nat)
      BY <2>2
    <3>2. d.heard[n][2] \o arg \in Seq(Nat)
      BY <3>1, ConcatProperties
    <3>. QED
      BY <3>2
  <2>4. [d.heard EXCEPT ![n] = <<c, d.heard[n][2] \o arg>>] \in Seq(STRING \X Seq(Nat))
    BY <1>1, <1>3, <2>3, ExceptSeq
  <2>. QED
    BY <2>1, <2>4 DEF SignType
<1>4. CASE ~quiet /\ ~more
  <2>1. Heard(d, c, arg) = [d EXCEPT !.heard = Append(@, <<c, arg>>)]
    BY <1>4 DEF Heard
  <2>2. Append(d.heard, <<c, arg>>) \in Seq(STRING \X Seq(Nat))
    BY <1>1, AppendProperties
  <2>. QED
    BY <2>1, <2>2 DEF SignType
<1>. QED
  BY <1>2, <1>3, <1>4

\* A callback keeps the types.
LEMMA CallType ==
  ASSUME NEW d \in SignType, NEW c \in STRING, NEW arg, Fits(c, arg)
  PROVE  Call(d, c, arg) \in SignType
<1>1. arg \in Seq(Nat)
  BY DEF Fits
<1>. QED
  BY <1>1, EffectType, HeardType DEF Call

\* A callback that is not one of those that hash leaves both hashes alone.
LEMMA CallQuiet ==
  ASSUME NEW d \in SignType, NEW c \in STRING, NEW arg, Fits(c, arg), c \notin Hashing
  PROVE  /\ Call(d, c, arg).hash_state = d.hash_state
         /\ Call(d, c, arg).context = d.context
<1> DEFINE e == Effect(d, c, arg)
<1>1. e.hash_state = d.hash_state /\ e.context = d.context
  <2>1. CASE c = "set_input_count"
    <3>1. e = set_input_count(d, arg)
      BY <2>1 DEF Effect
    <3>. QED
      BY <3>1 DEF set_input_count, SignType
  <2>2. CASE c = "input_save_index"
    <3>1. e = input_save_index(d, arg)
      BY <2>2 DEF Effect
    <3>. QED
      BY <3>1 DEF input_save_index, SignType
  <2>3. CASE c = "input_context_start_idx"
    <3>1. e = input_context_start_idx(d, arg[1])
      BY <2>3 DEF Effect
    <3>. QED
      BY <3>1 DEF input_context_start_idx, SignType
  <2>4. CASE c = "output_start"
    <3>1. e = output_start(d)
      BY <2>4 DEF Effect
    <3>. QED
      BY <3>1 DEF output_start, SignType
  <2>5. CASE c \notin {"set_input_count", "input_save_index", "input_context_start_idx",
                       "output_start"}
    BY <2>5 DEF Effect, Hashing
  <2>. QED
    BY <2>1, <2>2, <2>3, <2>4, <2>5
<1>2. e \in SignType /\ arg \in Seq(Nat)
  BY EffectType DEF Fits
<1> HIDE DEF e
<1>3. Heard(e, c, arg).hash_state = e.hash_state /\ Heard(e, c, arg).context = e.context
  BY <1>2, HeardType
<1>. QED
  BY <1>1, <1>3 DEF Call, e

\* A chunk callback adds what it is given to its hash, and only there.
LEMMA ChunkCallback ==
  ASSUME NEW d \in SignType, NEW f, f.cb \in DOMAIN Callbacks, NEW s \in Seq(Unit)
  PROVE  LET e == Effect(d, Callbacks[f.cb].chunk, s)
         IN /\ e \in SignType
            /\ HasChunk(f) => Stream(f, e) = Stream(f, d) \o s
            /\ ~HasChunk(f) => e = d
<1> DEFINE c == Callbacks[f.cb].chunk
           e == Effect(d, c, s)
<1>1. c \in {"NULL"} \cup OfUnits
  BY CallbacksAssumption
<1>2. s \in Seq(Nat)
  BY UnitsAreNumbers
<1>3. CASE c = "NULL"
  <2>1. e = d
    BY <1>3 DEF Effect
  <2>. QED
    BY <1>3, <2>1 DEF HasChunk
<1>4. CASE c = "blake2b_chunk"
  <2>1. e = blake2b_chunk(d, s)
    BY <1>4 DEF Effect
  <2>2. Fits(c, s)
    BY <1>2, <1>4 DEF Fits, OfUnits, OfNumber, OfHeader
  <2>3. e \in SignType
    BY <2>2, EffectType
  <2>4. e.hash_state = d.hash_state \o s
    BY <2>1 DEF blake2b_chunk, SignType
  <2>. QED
    BY <1>4, <2>3, <2>4 DEF Stream, HasChunk
<1>5. CASE c = "context_blake2b_chunk"
  <2>1. e = context_blake2b_chunk(d, s)
    BY <1>5 DEF Effect
  <2>2. Fits(c, s)
    BY <1>2, <1>5 DEF Fits, OfUnits, OfNumber, OfHeader
  <2>3. e \in SignType
    BY <2>2, EffectType
  <2>4. e.context = d.context \o s
    BY <2>1 DEF context_blake2b_chunk, SignType
  <2>. QED
    BY <1>5, <2>3, <2>4 DEF Stream, HasChunk
<1>. QED
  BY <1>1, <1>3, <1>4, <1>5 DEF OfUnits

\* A callback that does not look at its argument takes any.
LEMMA AnyFits ==
  ASSUME NEW c, c \notin OfArgument, NEW arg \in Seq(Nat)
  PROVE  Fits(c, arg)
BY DEF Fits, OfArgument

\* What the assumptions say of a type parsed with a table.
LEMMA UseFacts ==
  ASSUME NEW t, NEW c, <<t, c>> \in Uses
  PROVE  /\ t \in DOMAIN Types /\ c \in DOMAIN Callbacks
         /\ Types[t].kind \in Kinds /\ Types[t].size \in Nat /\ Types[t].size > 0
         /\ Types[t].fields \in Seq(DOMAIN Types)
         /\ Types[t].kind \in {"fixvec", "dynvec", "option"} => Len(Types[t].fields) = 1
         /\ \A k \in DOMAIN Types[t].fields : <<Types[t].fields[k], Sub(c, k)>> \in Uses
<1> DEFINE u == <<t, c>>
<1>1. u \in Uses /\ u[1] = t /\ u[2] = c
  OBVIOUS
<1>2. u \in (DOMAIN Types) \X (DOMAIN Callbacks)
  BY <1>1, UsesAssumption
<1>3. \A k \in DOMAIN Types[u[1]].fields : <<Types[u[1]].fields[k], Sub(u[2], k)>> \in Uses
  BY <1>1, UsesAssumption, Zenon
<1>4. t \in DOMAIN Types /\ c \in DOMAIN Callbacks
  BY <1>1, <1>2
<1>5. \A k \in DOMAIN Types[t].fields : <<Types[t].fields[k], Sub(c, k)>> \in Uses
  BY <1>1, <1>3, Zenon
<1>. QED
  BY <1>4, <1>5, TypesAssumption

\* What they say of the callbacks of a table.
LEMMA SlotFacts ==
  ASSUME NEW t, NEW c, <<t, c>> \in Uses
  PROVE  LET cb == Callbacks[c]
         IN /\ cb.start \in STRING /\ cb.start \notin OfArgument
            /\ cb.size \in STRING /\ cb.size \notin OfArgument
            /\ cb.body_chunk \in STRING /\ cb.body_chunk \notin OfArgument
            /\ cb.index \in STRING /\ cb.index \notin OfArgument \ OfIndex
            /\ cb.length \in STRING /\ cb.length \notin OfArgument \ OfLength
            /\ cb.offsets \in STRING /\ cb.offsets \notin OfArgument \ OfHeader
            /\ cb.offsets \in OfHeader => Len(Types[t].fields) = 6
            /\ cb.end \in STRING
            /\ cb.end \in OfArgument =>
                 /\ Types[t].kind = "fixed"
                 /\ cb.end = "blake2b_chunk" \/ (cb.end \in OfNumber /\ Types[t].size = NUM)
<1> DEFINE u == <<t, c>>  cb == Callbacks[c]
<1>1. u \in Uses /\ u[1] = t /\ u[2] = c
  OBVIOUS
<1>2. /\ \A s \in {"start", "size", "body_chunk"} : Callbacks[u[2]][s] \notin OfArgument
      /\ Callbacks[u[2]].index \notin OfArgument \ OfIndex
      /\ Callbacks[u[2]].length \notin OfArgument \ OfLength
      /\ Callbacks[u[2]].offsets \notin OfArgument \ OfHeader
      /\ Callbacks[u[2]].offsets \in OfHeader => Len(Types[u[1]].fields) = 6
      /\ Callbacks[u[2]].end \in OfArgument =>
           /\ Types[u[1]].kind = "fixed"
           /\ \/ Callbacks[u[2]].end = "blake2b_chunk"
              \/ Callbacks[u[2]].end \in OfNumber /\ Types[u[1]].size = NUM
  BY <1>1, UsesAssumption, Zenon
<1>3. /\ \A s \in {"start", "size", "body_chunk"} : cb[s] \notin OfArgument
      /\ cb.index \notin OfArgument \ OfIndex
      /\ cb.length \notin OfArgument \ OfLength
      /\ cb.offsets \notin OfArgument \ OfHeader
      /\ cb.offsets \in OfHeader => Len(Types[t].fields) = 6
      /\ cb.end \in OfArgument =>
           /\ Types[t].kind = "fixed"
           /\ cb.end = "blake2b_chunk" \/ (cb.end \in OfNumber /\ Types[t].size = NUM)
  BY <1>1, <1>2, Zenon
<1>4. \A s \in Slots : cb[s] \in STRING
  BY UseFacts, CallbacksAssumption
<1> HIDE DEF cb
<1>5. /\ cb.start \in STRING /\ cb.size \in STRING /\ cb.body_chunk \in STRING
      /\ cb.index \in STRING /\ cb.length \in STRING /\ cb.offsets \in STRING
      /\ cb.end \in STRING
  BY <1>4 DEF Slots
<1>6. cb.start \notin OfArgument /\ cb.size \notin OfArgument /\ cb.body_chunk \notin OfArgument
  BY <1>3
<1>. QED
  BY <1>3, <1>5, <1>6 DEF cb

\* Parsers that must not touch the hashes.
Inside(f) == HasChunk(f) \/ f.cb \in Inner
SameHashes(d, e) == e.hash_state = d.hash_state /\ e.context = d.context

\* The tables beneath such a parser are inner ones, and none of its callbacks hashes.
LEMMA InsideFacts ==
  ASSUME NEW f, f.cb \in DOMAIN Callbacks, Inside(f)
  PROVE  /\ \A k : Sub(f.cb, k) \in Inner
         /\ LET cb == Callbacks[f.cb]
            IN /\ cb.start \notin Hashing /\ cb.size \notin Hashing
               /\ cb.body_chunk \notin Hashing /\ cb.index \notin Hashing
               /\ cb.length \notin Hashing /\ cb.offsets \notin Hashing
         /\ f.cb \in Inner => ~HasChunk(f) /\ Callbacks[f.cb].end \notin Hashing
<1> DEFINE cb == Callbacks[f.cb]
<1>1. cb.chunk # "NULL" \/ f.cb \in Inner
  BY DEF Inside, HasChunk
<1>2. /\ \A k \in DOMAIN cb.sub : cb.sub[k] \in Inner
      /\ \A s \in Slots \ {"end"} : cb[s] \notin Hashing
  BY <1>1, InnerAssumption
<1>3. \A k : Sub(f.cb, k) \in Inner
  BY <1>2, InnerAssumption DEF Sub
<1>4. f.cb \in Inner => ~HasChunk(f) /\ Callbacks[f.cb].end \notin Hashing
  BY InnerAssumption DEF HasChunk
<1> HIDE DEF cb
<1>5. /\ cb.start \notin Hashing /\ cb.size \notin Hashing
      /\ cb.body_chunk \notin Hashing /\ cb.index \notin Hashing
      /\ cb.length \notin Hashing /\ cb.offsets \notin Hashing
  BY <1>2 DEF Slots
<1>. QED
  BY <1>3, <1>4, <1>5 DEF cb

\* The start callback of a part.
LEMMA InitPartFacts ==
  ASSUME NEW d \in SignType, NEW f, <<f.type, f.cb>> \in Uses, NEW k
  PROVE  /\ InitPart(d, f, k) \in SignType
         /\ Inside(f) => SameHashes(d, InitPart(d, f, k))
<1> DEFINE t == Types[f.type]
           part == IF t.kind \in {"fixvec", "dynvec"} THEN 1 ELSE k
           c == Callbacks[Sub(f.cb, part)].start
<1>1. CASE part \notin DOMAIN t.fields
  BY <1>1 DEF InitPart, SameHashes
<1>2. CASE part \in DOMAIN t.fields
  <2>1. <<t.fields[part], Sub(f.cb, part)>> \in Uses
    BY <1>2, UseFacts
  <2>2. c \in STRING /\ c \notin OfArgument
    <3> DEFINE x == t.fields[part]  y == Sub(f.cb, part)
    <3>1. <<x, y>> \in Uses
      BY <2>1
    <3> HIDE DEF x, y
    <3>2. Callbacks[y].start \in STRING /\ Callbacks[y].start \notin OfArgument
      BY <3>1, SlotFacts
    <3>. QED
      BY <3>2 DEF y
  <2>3. Fits(c, <<>>)
    <3>1. <<>> \in Seq(Nat)
      OBVIOUS
    <3> HIDE DEF c
    <3>. QED
      BY <2>2, <3>1, AnyFits
  <2>4. InitPart(d, f, k) = Call(d, c, <<>>)
    BY <1>2 DEF InitPart
  <2>5. Inside(f) => c \notin Hashing
    <3>1. SUFFICES ASSUME Inside(f) PROVE c \notin Hashing
      OBVIOUS
    <3>2. Sub(f.cb, part) \in Inner /\ Inner \subseteq DOMAIN Callbacks
      BY <3>1, UseFacts, InsideFacts, InnerAssumption
    <3>3. "start" \in Slots \ {"end"}
      BY DEF Slots
    <3>4. Callbacks[Sub(f.cb, part)]["start"] \notin Hashing
      BY <3>2, <3>3, InnerAssumption
    <3>. QED
      BY <3>4
  <2> HIDE DEF c
  <2>. QED
    BY <2>2, <2>3, <2>4, <2>5, CallType, CallQuiet DEF SameHashes
<1>. QED
  BY <1>1, <1>2

-----------------------------------------------------------------------------
(* The ways a step leaves the stack *)

\* The frame at the top of the stack, while the parser runs.
LEMMA TopFacts ==
  ASSUME Inv, phase = "parsing"
  PROVE  /\ wire \in Seq(Unit) /\ pos \in Nat /\ limit \in Nat /\ Len(wire) \in Nat
         /\ pos <= limit /\ limit <= Len(wire)
         /\ stack \in Seq(FrameType) /\ Len(stack) \in Nat /\ Len(stack) > 0
         /\ sign \in SignType
         /\ Top \in FrameType /\ <<Top.type, Top.cb>> \in Uses
         /\ FrameInv(Top, pos, wire)
<1>1. /\ wire \in Seq(Unit) /\ pos \in Nat /\ limit \in Nat
      /\ pos <= limit /\ limit <= Len(wire) /\ stack \in Seq(FrameType) /\ stack # <<>>
      /\ sign \in SignType
  BY DEF Inv, TypeOK
<1>2. /\ Len(stack) \in Nat /\ Len(stack) > 0 /\ Len(stack) \in DOMAIN stack
      /\ Len(wire) \in Nat
  BY <1>1
<1>3. Top \in FrameType /\ <<Top.type, Top.cb>> \in Uses
  <2>1. Top \in FrameType
    BY <1>1, <1>2, ElementOfSeq DEF Top
  <2>2. \A i \in DOMAIN stack : <<stack[i].type, stack[i].cb>> \in Uses
    BY DEF Inv, TypeOK
  <2>. QED
    BY <1>2, <2>1, <2>2, Zenon DEF Top
<1>4. FrameInv(Top, pos, wire)
  BY <1>2, Zenon DEF Inv, Top
<1>. QED
  BY <1>1, <1>2, <1>3, <1>4, Zenon

\* The types of a frame.
LEMMA FrameFields ==
  ASSUME NEW f \in FrameType
  PROVE  /\ f.type \in DOMAIN Types /\ f.cb \in DOMAIN Callbacks /\ f.size \in Nat
         /\ f.entry \in Nat /\ f.start \in Nat /\ f.mark \in Nat /\ f.state_num \in 0 .. 3
         /\ f.field_idx \in Nat /\ f.nums \in Seq(Num) /\ f.buffer \in Seq(Unit)
         /\ Len(f.nums) \in Nat /\ Len(f.buffer) \in Nat
BY DEF FrameType

\* A frame with a chunk callback on the stack: the one at the top is inside it.
LEMMA TopInside ==
  ASSUME Inv, phase = "parsing", NEW i \in DOMAIN stack, HasChunk(stack[i])
  PROVE  Inside(Top) /\ (i # Len(stack) => Top.cb \in Inner)
<1>1. stack \in Seq(FrameType) /\ Len(stack) \in DOMAIN stack /\ i \in 1 .. Len(stack)
  BY TopFacts
<1>2. i # Len(stack) => Top.cb \in Inner
  BY <1>1 DEF Inv, Nested, Top
<1>. QED
  BY <1>1, <1>2 DEF Inside, Top

\* Two frames of one parser.
SameParser(f, g) ==
  g.type = f.type /\ g.cb = f.cb /\ g.entry = f.entry /\ g.mark = f.mark

\* A parser that waits is not concerned with what others consume.
LEMMA FrameKeeps ==
  ASSUME NEW f \in FrameType, NEW a \in Nat, NEW p \in Nat, a <= p, NEW w,
         FrameInv(f, a, w), Waiting(f)
  PROVE  FrameInv(f, p, w)
<1>1. ~IsReading(f) /\ f.entry \in Nat /\ f.start \in Nat /\ f.nums \in Seq(Num)
  BY FrameFields DEF Waiting
<1>2. \A k \in DOMAIN f.nums :
        /\ f.entry + NUM * k <= p
        /\ f.nums[k] = Unpack(Piece(w, f.entry + NUM * (k - 1), f.entry + NUM * k))
  <2>1. \A k \in DOMAIN f.nums :
          /\ f.entry + NUM * k <= a
          /\ f.nums[k] = Unpack(Piece(w, f.entry + NUM * (k - 1), f.entry + NUM * k))
    BY Zenon DEF FrameInv
  <2>2. \A k \in DOMAIN f.nums : f.entry + NUM * k \in Int
    BY <1>1 DEF NUM
  <2>. QED
    BY <2>1, <2>2
<1>3. f.start <= p
  BY <1>1 DEF FrameInv
<1>. QED
  BY <1>1, <1>2, <1>3 DEF FrameInv

\* What was handed over stays so as long as the hashes are left alone.
LEMMA HandedKeeps ==
  ASSUME NEW f, NEW g, SameParser(f, g), g.start = f.start, NEW d, NEW e, NEW w,
         Handed(f, d, w), SameHashes(d, e)
  PROVE  Handed(g, e, w) /\ Stream(g, e) = Stream(f, d)
<1>1. Stream(g, e) = Stream(f, d)
  BY DEF SameParser, SameHashes, Stream
<1>. QED
  BY <1>1 DEF Handed, SameParser

\* The parser at the top goes on.
LEMMA ContinueInv ==
  ASSUME Inv, phase = "parsing", NEW g \in FrameType, SameParser(Top, g),
         g.start = Top.start, NEW p \in Nat, pos <= p, p <= limit,
         FrameInv(g, p, wire), NEW d \in SignType, Inside(Top) => SameHashes(sign, d),
         stack' = [stack EXCEPT ![Len(stack)] = g], pos' = p, sign' = d,
         phase' = phase, wire' = wire, limit' = limit
  PROVE  Inv'
<1> DEFINE n == Len(stack)
<1>1. /\ stack \in Seq(FrameType) /\ n \in Nat /\ n > 0 /\ wire \in Seq(Unit)
      /\ Len(wire) \in Nat /\ pos \in Nat /\ limit \in Nat /\ limit <= Len(wire)
      /\ sign \in SignType
  BY TopFacts
<1>2. /\ stack' \in Seq(FrameType) /\ Len(stack') = n
      /\ DOMAIN stack' = 1 .. n /\ DOMAIN stack = 1 .. n
      /\ \A i \in 1 .. n : stack'[i] = IF i = n THEN g ELSE stack[i]
  BY <1>1
<1>3. \A i \in 1 .. n : SameParser(stack[i], stack'[i]) /\ stack'[i].start = stack[i].start
  BY <1>2 DEF SameParser, Top
<1>4. \A i \in 1 .. n : stack[i] \in FrameType
  BY <1>1, ElementOfSeq
<1>5. TypeOK'
  <2>1. \A i \in 1 .. n : <<stack[i].type, stack[i].cb>> \in Uses
    BY <1>2 DEF Inv, TypeOK
  <2>2. \A i \in 1 .. n : <<stack'[i].type, stack'[i].cb>> \in Uses
    BY <1>3, <2>1 DEF SameParser
  <2>3. stack' # <<>>
    BY <1>1, <1>2
  <2>. QED
    BY <1>1, <1>2, <2>2, <2>3 DEF TypeOK
<1>6. Alive' /\ Beneath' /\ Nested'
  <2>1. Beneath'
    <3>1. \A i \in 1 .. n : i < n => Waiting(stack[i])
      BY <1>2 DEF Inv, Beneath
    <3>2. ASSUME NEW i \in 1 .. n, i < n PROVE Waiting(stack'[i])
      <4>1. i # n
        BY <1>1, <3>2
      <4>2. stack'[i] = stack[i]
        BY <1>2, <4>1, Zenon
      <4>. QED
        BY <3>1, <3>2, <4>2, Zenon
    <3>. QED
      BY <1>2, <3>2 DEF Beneath
  <2>2. Nested'
    <3>1. \A i, j \in 1 .. n : i < j /\ HasChunk(stack[i]) => stack[j].cb \in Inner
      BY <1>2 DEF Inv, Nested
    <3>2. \A i \in 1 .. n :
            stack'[i].cb = stack[i].cb /\ (HasChunk(stack'[i]) <=> HasChunk(stack[i]))
      BY <1>3 DEF HasChunk, SameParser
    <3>3. ASSUME NEW i \in 1 .. n, NEW j \in 1 .. n, i < j, HasChunk(stack'[i])
          PROVE  stack'[j].cb \in Inner
      <4>1. HasChunk(stack[i])
        BY <3>2, <3>3, Zenon
      <4>2. stack'[j].cb = stack[j].cb
        BY <3>2, Zenon
      <4>3. stack[j].cb \in Inner
        BY <3>1, <3>3, <4>1, Zenon
      <4>. QED
        BY <4>2, <4>3
    <3>. QED
      BY <1>2, <3>3, Zenon DEF Nested
  <2>. QED
    BY <1>1, <1>2, <2>1, <2>2 DEF Alive
<1>7. \A i \in 1 .. n : FrameInv(stack'[i], p, wire)
  <2>1. ASSUME NEW i \in 1 .. n, i < n PROVE FrameInv(stack[i], p, wire)
    <3>1. FrameInv(stack[i], pos, wire) /\ Waiting(stack[i])
      BY <1>2, <2>1, Zenon DEF Inv, Beneath
    <3>2. stack[i] \in FrameType
      BY <1>4
    <3>. QED
      BY <1>1, <3>1, <3>2, FrameKeeps, Zenon
  <2>2. ASSUME NEW i \in 1 .. n PROVE i = n \/ i < n
    BY <1>1
  <2>. QED
    BY <1>2, <2>1, <2>2, Zenon
<1>8. \A i \in 1 .. n : HasChunk(stack'[i]) => Handed(stack'[i], d, wire)
  <2>1. SUFFICES ASSUME NEW i \in 1 .. n, HasChunk(stack'[i])
                 PROVE  Handed(stack'[i], d, wire)
    OBVIOUS
  <2>2. HasChunk(stack[i])
    BY <1>3, <2>1 DEF HasChunk, SameParser
  <2>3. SameHashes(sign, d)
    BY <1>2, <2>2, TopInside
  <2>4. Handed(stack[i], sign, wire)
    BY <1>2, <2>2, Zenon DEF Inv
  <2>. QED
    BY <1>3, <2>3, <2>4, HandedKeeps
<1>. QED
  BY <1>2, <1>5, <1>6, <1>7, <1>8 DEF Inv

\* A parser begins anew with start_idx where the chunk ended.
LEMMA StartFacts ==
  ASSUME NEW f \in FrameType, NEW p \in Nat, NEW w
  PROVE  LET g == [f EXCEPT !.start = p]
         IN /\ g \in FrameType /\ SameParser(f, g) /\ g.start = p
            /\ Waiting(f) => Waiting(g)
            /\ FrameInv(f, p, w) => FrameInv(g, p, w)
<1> DEFINE g == [f EXCEPT !.start = p]
<1>1. /\ g \in FrameType /\ g.type = f.type /\ g.cb = f.cb /\ g.entry = f.entry
      /\ g.mark = f.mark /\ g.start = p /\ g.state_num = f.state_num /\ g.nums = f.nums
      /\ g.field_idx = f.field_idx /\ g.buffer = f.buffer
  BY DEF FrameType
<1> HIDE DEF g
<1>2. SameParser(f, g)
  BY <1>1 DEF SameParser
<1>3. (IsReading(g) <=> IsReading(f)) /\ NumbersRead(g) = NumbersRead(f)
  BY <1>1 DEF IsReading, NumbersRead
<1>4. Waiting(f) => Waiting(g)
  BY <1>1, <1>3 DEF Waiting
<1>5. (Shape(f) <=> Shape(g)) /\ NextAt(g) = NextAt(f) /\ Collects(g) = Collects(f)
  BY <1>1, <1>3, Zenon DEF Shape, NextAt, Collects
<1>6. f.entry \in Nat /\ f.start \in Nat
  BY FrameFields
<1>7. ASSUME FrameInv(f, p, w) PROVE FrameInv(g, p, w)
  <2>1. Shape(g) /\ g.entry <= g.start /\ g.start <= p
    BY <1>1, <1>5, <1>6, <1>7 DEF FrameInv
  <2>2. \A k \in DOMAIN g.nums :
          /\ g.entry + NUM * k <= p
          /\ g.nums[k] = Unpack(Piece(w, g.entry + NUM * (k - 1), g.entry + NUM * k))
    BY <1>1, <1>7, Zenon DEF FrameInv
  <2>3. IF IsReading(g)
        THEN /\ NextAt(g) + Len(g.buffer) = p /\ g.buffer = Piece(w, NextAt(g), p)
             /\ Len(g.buffer) <= Collects(g)
        ELSE g.buffer = <<>>
    BY <1>1, <1>3, <1>5, <1>7, Zenon DEF FrameInv
  <2>. QED
    BY <2>1, <2>2, <2>3, Zenon DEF FrameInv
<1>. QED
  BY <1>1, <1>2, <1>4, <1>7 DEF g

\* A parser that hands over a piece has handed over all up to its end.
LEMMA HandedMore ==
  ASSUME NEW f \in FrameType, NEW p \in Nat, NEW w \in Seq(Unit), NEW a \in Nat,
         FrameInv(f, a, w), a <= p, p <= Len(w), NEW d \in SignType, NEW e \in SignType,
         Handed(f, d, w), Stream(f, e) = Stream(f, d) \o Piece(w, f.start, p),
         NEW g, SameParser(f, g), g.start = p
  PROVE  Handed(g, e, w)
<1> DEFINE s == Stream(f, d)  t == Piece(w, f.start, p)
<1>1. /\ f.entry \in Nat /\ f.start \in Nat /\ f.mark \in Nat /\ Len(w) \in Nat
      /\ f.entry <= f.start /\ f.start <= p
  BY FrameFields DEF FrameInv
<1>2. s \in Seq(Unit) /\ Len(s) \in Nat
  BY SignFields DEF Stream
<1>3. t \in Seq(Unit) /\ Len(t) = p - f.start
  BY <1>1, PieceType
<1>4. f.mark <= Len(s) /\ SubSeq(s, f.mark + 1, Len(s)) = Piece(w, f.entry, f.start)
  BY DEF Handed
<1>5. Piece(w, f.entry, f.start) \o t = Piece(w, f.entry, p)
  <2>1. \A x, y, z \in Nat : x <= y /\ y <= z /\ z <= Len(w) =>
          Piece(w, x, y) \o Piece(w, y, z) = Piece(w, x, z)
    BY SMTT(40), PieceConcat
  <2>. QED
    BY ZenonT(40), <1>1, <2>1
<1>6. Stream(g, e) = s \o t
  BY DEF SameParser, Stream
<1> HIDE DEF s, t
<1>7. s \o t \in Seq(Unit) /\ Len(s \o t) = Len(s) + Len(t)
  BY <1>2, <1>3, ConcatProperties
<1>8. SubSeq(s \o t, f.mark + 1, Len(s \o t)) = SubSeq(s, f.mark + 1, Len(s)) \o t
  <2>1. SubSeq(s \o t, f.mark + 1, Len(s)) \o SubSeq(s \o t, Len(s) + 1, Len(s \o t))
          = SubSeq(s \o t, f.mark + 1, Len(s \o t))
    <3>1. /\ f.mark + 1 \in 1 .. Len(s \o t) + 1 /\ Len(s) \in (f.mark + 1) - 1 .. Len(s \o t)
          /\ Len(s \o t) \in Len(s) .. Len(s \o t)
      <4>1. /\ f.mark \in Nat /\ Len(s) \in Nat /\ Len(t) \in Nat /\ f.mark <= Len(s)
            /\ Len(s \o t) = Len(s) + Len(t)
        <5>1. Len(t) \in Nat
          BY <1>3
        <5>. QED
          BY <1>1, <1>2, <1>4, <1>7, <5>1
      <4>. QED
        BY <4>1
    <3>. QED
      BY <1>7, <3>1, ConcatAdjacentSubSeq
  <2>2. SubSeq(s \o t, f.mark + 1, Len(s)) = SubSeq(s, f.mark + 1, Len(s))
    <3>1. CASE f.mark = Len(s)
      <4>1. Len(s) < f.mark + 1 /\ f.mark + 1 \in Int /\ Len(s) \in Int
        BY <1>1, <1>2, <3>1
      <4>. QED
        BY <4>1, SubSeqEmpty
    <3>2. CASE f.mark # Len(s)
      <4>1. f.mark + 1 \in 1 .. Len(s) /\ Len(s) \in 1 .. Len(s)
        BY SMTT(40), <1>1, <1>2, <1>4, <3>2
      <4>. QED
        BY <1>2, <1>3, <4>1, SubSeqOfConcat1
    <3>. QED
      BY <3>1, <3>2
  <2>3. SubSeq(s \o t, Len(s) + 1, Len(s \o t)) = t
    <3>1. CASE Len(t) = 0
      <4>1. t = <<>> /\ Len(s \o t) < Len(s) + 1 /\ Len(s \o t) \in Int /\ Len(s) + 1 \in Int
        BY <1>2, <1>3, <1>7, <3>1
      <4>. QED
        BY <4>1, SubSeqEmpty
    <3>2. CASE Len(t) # 0
      <4>1. /\ Len(t) \in Nat /\ Len(s) + 1 \in Len(s) + 1 .. Len(s) + Len(t)
            /\ Len(s) + Len(t) \in Len(s) + 1 .. Len(s) + Len(t)
        BY <1>2, <1>3, <3>2
      <4>2. SubSeq(s \o t, Len(s) + 1, Len(s) + Len(t))
              = SubSeq(t, (Len(s) + 1) - Len(s), (Len(s) + Len(t)) - Len(s))
        BY <1>2, <1>3, <4>1, SubSeqOfConcat2
      <4>3. (Len(s) + 1) - Len(s) = 1 /\ (Len(s) + Len(t)) - Len(s) = Len(t)
        BY <1>2, <4>1
      <4>. QED
        BY <1>3, <1>7, <4>2, <4>3, SubSeqFull
    <3>. QED
      BY <3>1, <3>2
  <2>. QED
    BY <2>1, <2>2, <2>3
<1>9. f.mark <= Len(s \o t)
  BY <1>1, <1>2, <1>3, <1>4, <1>7
<1>. QED
  BY <1>4, <1>5, <1>6, <1>8, <1>9 DEF Handed, SameParser

\* At most one parser on the stack has a chunk callback.
LEMMA OneChunk ==
  ASSUME Nested, NEW i \in DOMAIN stack, NEW j \in DOMAIN stack,
         stack \in Seq(FrameType), HasChunk(stack[i]), HasChunk(stack[j])
  PROVE  i = j
<1>1. \A a, b \in DOMAIN stack : a < b /\ HasChunk(stack[a]) => ~HasChunk(stack[b])
  <2>1. SUFFICES ASSUME NEW a \in DOMAIN stack, NEW b \in DOMAIN stack, a < b,
                        HasChunk(stack[a])
                 PROVE  ~HasChunk(stack[b])
    OBVIOUS
  <2>2. stack[b].cb \in Inner
    BY <2>1, Zenon DEF Nested
  <2>. QED
    BY <2>2, InnerAssumption DEF HasChunk
<1>2. i \in Nat /\ j \in Nat
  OBVIOUS
<1>3. i < j \/ j < i \/ i = j
  BY <1>2
<1>. QED
  BY <1>1, <1>3, Zenon

\* The chunk ends.
LEMMA SuspendInv ==
  ASSUME Inv, phase = "parsing", NEW g \in FrameType, SameParser(Top, g),
         g.start = Top.start, NEW p \in Nat, pos <= p, p <= limit,
         FrameInv(g, p, wire), NEW d \in SignType, Inside(Top) => SameHashes(sign, d),
         Suspend(g, p, d)
  PROVE  Inv'
<1> DEFINE n == Len(stack)
           base(i) == IF i = n THEN g ELSE stack[i]
           next(i) == [base(i) EXCEPT !.start = p]
<1>1. /\ stack \in Seq(FrameType) /\ n \in Nat /\ n > 0 /\ wire \in Seq(Unit)
      /\ Len(wire) \in Nat /\ pos \in Nat /\ limit \in Nat /\ limit <= Len(wire)
      /\ sign \in SignType /\ DOMAIN stack = 1 .. n
  BY TopFacts
<1>2. \A i \in 1 .. n : stack[i] \in FrameType
  BY <1>1, ElementOfSeq
<1>3. \A i \in 1 .. n :
        /\ base(i) \in FrameType /\ SameParser(stack[i], base(i))
        /\ base(i).start = stack[i].start
  BY <1>2 DEF SameParser, Top
<1>4. \A i \in 1 .. n : i < n => Waiting(base(i))
  <2>1. ASSUME NEW i \in 1 .. n, i < n PROVE Waiting(base(i))
    <3>1. i # n
      <4>1. n \in Nat
        BY <1>1
      <4> HIDE DEF n, base, next
      <4>. QED
        BY <2>1, <4>1
    <3>2. Waiting(stack[i])
      BY <1>1, <2>1, Zenon DEF Inv, Beneath
    <3>. QED
      BY <3>1, <3>2
  <2>. QED
    BY <2>1
<1>5. \A i \in 1 .. n : FrameInv(base(i), p, wire)
  <2>1. ASSUME NEW i \in 1 .. n, i < n PROVE FrameInv(stack[i], p, wire)
    <3>1. FrameInv(stack[i], pos, wire) /\ Waiting(stack[i])
      BY <1>1, <2>1, Zenon DEF Inv, Beneath
    <3>2. stack[i] \in FrameType
      BY <1>2
    <3>. QED
      BY <1>1, <3>1, <3>2, FrameKeeps, Zenon
  <2>2. ASSUME NEW i \in 1 .. n PROVE i = n \/ i < n
    <3>1. n \in Nat
      BY <1>1
    <3> HIDE DEF n, base, next
    <3>. QED
      BY <2>2, <3>1
  <2>. QED
    BY <2>1, <2>2, Zenon
<1>6. \A i \in 1 .. n : HasChunk(stack[i]) => Handed(base(i), d, wire)
  <2>1. SUFFICES ASSUME NEW i \in 1 .. n, HasChunk(stack[i])
                 PROVE  Handed(base(i), d, wire)
    OBVIOUS
  <2>2. SameHashes(sign, d)
    BY <1>1, <2>1, TopInside
  <2>3. Handed(stack[i], sign, wire)
    BY <1>1, <2>1, Zenon DEF Inv
  <2> HIDE DEF base
  <2>. QED
    BY <1>3, <2>2, <2>3, HandedKeeps
<1>7. stack' = [i \in 1 .. n |-> next(i)]
  BY <1>1, Zenon DEF Suspend
<1> HIDE DEF base
<1>8. \A i \in 1 .. n :
        /\ next(i) \in FrameType /\ SameParser(base(i), next(i)) /\ next(i).start = p
        /\ Waiting(base(i)) => Waiting(next(i))
        /\ FrameInv(next(i), p, wire)
  BY <1>3, <1>5, StartFacts
<1> HIDE DEF next
<1>9. stack' \in Seq(FrameType) /\ Len(stack') = n /\ DOMAIN stack' = 1 .. n
      /\ \A i \in 1 .. n : stack'[i] = next(i)
  BY <1>1, <1>7, <1>8
<1>10. \A i \in 1 .. n : SameParser(stack[i], stack'[i])
  BY <1>3, <1>8, <1>9 DEF SameParser
<1>11. \A i \in 1 .. n : HasChunk(stack'[i]) <=> HasChunk(stack[i])
  BY <1>10 DEF HasChunk, SameParser
<1>12. Beneath'
  <2>1. \A i \in 1 .. n : i < n => Waiting(stack'[i])
    BY <1>4, <1>8, <1>9, Zenon
  <2>. QED
    BY <1>9, <2>1, Zenon DEF Beneath
<1>13. Nested'
  <2>1. ASSUME NEW i \in 1 .. n, NEW j \in 1 .. n, i < j, HasChunk(stack'[i])
        PROVE  stack'[j].cb \in Inner
    <3>1. stack[j].cb \in Inner
      BY <1>1, <1>11, <2>1, Zenon DEF Inv, Nested
    <3>. QED
      BY <1>10, <3>1 DEF SameParser
  <2>. QED
    BY <1>9, <2>1, Zenon DEF Nested
<1>14. /\ sign' \in SignType
       /\ \A i \in 1 .. n : HasChunk(stack[i]) => Handed(stack'[i], sign', wire)
  <2>1. CASE Chunked = {}
    <3>1. sign' = d
      BY <2>1 DEF Suspend
    <3>2. \A i \in 1 .. n : ~HasChunk(stack[i])
      BY <1>1, <2>1 DEF Chunked, HasChunk
    <3>. QED
      BY <3>1, <3>2
  <2>2. CASE Chunked # {}
    <3>1. PICK j \in Chunked : j = CHOOSE i \in Chunked : TRUE
      BY <2>2
    <3>2. j \in 1 .. n /\ HasChunk(stack[j])
      BY <1>1, <3>1 DEF Chunked, HasChunk
    <3>3. \A i \in 1 .. n : HasChunk(stack[i]) => i = j
      BY <1>1, <3>2, OneChunk DEF Inv
    <3> DEFINE f == stack[j]  s == Piece(wire, f.start, p)
    <3>4. sign' = Effect(d, Callbacks[f.cb].chunk, s)
      BY <2>2, <3>1 DEF Suspend, Tell, Slice, Piece
    <3>5. /\ f \in FrameType /\ f.cb \in DOMAIN Callbacks /\ f.start \in Nat
          /\ f.start <= pos
      <4>1. f \in FrameType
        BY <1>2, <3>2
      <4>2. FrameInv(f, pos, wire)
        BY <1>1, <3>2, Zenon DEF Inv
      <4> HIDE DEF f
      <4>3. f.cb \in DOMAIN Callbacks /\ f.start \in Nat
        BY <4>1, FrameFields
      <4>4. f.start <= pos
        BY <4>2, Zenon DEF FrameInv
      <4>. QED
        BY <4>1, <4>3, <4>4 DEF f
    <3>6. s \in Seq(Unit)
      <4>1. f.start \in Nat /\ f.start <= p /\ p <= Len(wire)
        <5> HIDE DEF f
        <5>. QED
          BY <1>1, <3>5
      <4>. QED
        BY <1>1, <4>1, PieceType
    <3>7. sign' \in SignType /\ Stream(f, sign') = Stream(f, d) \o s
      BY <3>2, <3>4, <3>5, <3>6, ChunkCallback
    <3>8. Stream(base(j), sign') = Stream(base(j), d) \o Piece(wire, base(j).start, p)
      BY <1>3, <3>2, <3>7 DEF SameParser, Stream
    <3>9. Handed(stack'[j], sign', wire)
      <4>1. /\ base(j) \in FrameType /\ FrameInv(base(j), p, wire)
            /\ Handed(base(j), d, wire) /\ SameParser(base(j), stack'[j])
            /\ stack'[j].start = p
        BY <1>3, <1>5, <1>6, <1>8, <1>9, <3>2, Zenon
      <4>2. p <= p /\ p <= Len(wire)
        BY <1>1
      <4> HIDE DEF f, s
      <4>. QED
        BY <1>1, <3>7, <3>8, <4>1, <4>2, HandedMore
    <3>. QED
      BY <3>3, <3>7, <3>9, Zenon
  <2>. QED
    BY <2>1, <2>2
<1>15. pos' = p /\ phase' = "INCOMPLETE" /\ wire' = wire /\ limit' = limit
  BY DEF Suspend, Same
<1>16. TypeOK'
  <2>1. \A i \in 1 .. n : <<stack[i].type, stack[i].cb>> \in Uses
    BY <1>1 DEF Inv, TypeOK
  <2>2. \A i \in 1 .. n : <<stack'[i].type, stack'[i].cb>> \in Uses
    BY <1>10, <2>1 DEF SameParser
  <2>. QED
    BY <1>1, <1>9, <1>14, <1>15, <2>2 DEF TypeOK
<1>17. Alive'
  BY <1>1, <1>9 DEF Alive
<1>18. \A i \in 1 .. n : FrameInv(stack'[i], p, wire)
  BY <1>8, <1>9, Zenon
<1>19. \A i \in 1 .. n : HasChunk(stack'[i]) => Handed(stack'[i], sign', wire)
  BY <1>11, <1>14, Zenon
<1>. QED
  BY <1>9, <1>12, <1>13, <1>15, <1>16, <1>17, <1>18, <1>19 DEF Inv

\* A parser that is called has read nothing, and handed over nothing.
LEMMA NewFrame ==
  ASSUME NEW t, NEW c, <<t, c>> \in Uses, NEW size \in Nat, NEW p \in Nat,
         NEW d \in SignType, NEW w
  PROVE  LET g == Frame(t, c, size, p, d)
         IN /\ g \in FrameType /\ g.type = t /\ g.cb = c
            /\ FrameInv(g, p, w) /\ Handed(g, d, w)
<1> DEFINE g == Frame(t, c, size, p, d)
           s == IF Callbacks[c].chunk = "context_blake2b_chunk" THEN d.context
                ELSE d.hash_state
<1>1. s \in Seq(Unit) /\ Len(s) \in Nat
  BY SignFields
<1>2. /\ g.type = t /\ g.cb = c /\ g.size = size /\ g.entry = p /\ g.start = p
      /\ g.mark = Len(s) /\ g.state_num = 0 /\ g.field_idx = 0 /\ g.nums = <<>>
      /\ g.buffer = <<>>
  BY DEF Frame
<1>3. t \in DOMAIN Types /\ c \in DOMAIN Callbacks
  BY UseFacts
<1>4. g \in FrameType
  BY <1>1, <1>3 DEF FrameType, Frame
<1>5. Stream(g, d) = s
  BY <1>2 DEF Stream
<1> HIDE DEF g, s
<1>6. Handed(g, d, w)
  <2>1. SubSeq(s, Len(s) + 1, Len(s)) = <<>>
    BY <1>1, SubSeqEmpty
  <2>2. Piece(w, p, p) = <<>>
    BY PieceEmpty
  <2>. QED
    BY <1>1, <1>2, <1>5, <2>1, <2>2 DEF Handed
<1>7. FrameInv(g, p, w)
  <2>1. Len(<<>>) = 0 /\ DOMAIN <<>> = {}
    OBVIOUS
  <2>2. Shape(g)
    BY <1>2, <2>1 DEF Shape
  <2>3. NextAt(g) = p /\ NextAt(g) + Len(g.buffer) = p
    BY <1>2, <2>1 DEF NextAt, NumbersRead, NUM
  <2>4. g.buffer = Piece(w, NextAt(g), p)
    BY <1>2, <2>3, PieceEmpty
  <2>5. Len(g.buffer) <= Collects(g)
    <3>1. Collects(g) \in Nat
      BY <1>2, UseFacts DEF Collects, NUM
    <3>. QED
      BY <1>2, <2>1, <3>1
  <2>6. \A k \in DOMAIN g.nums :
          /\ g.entry + NUM * k <= p
          /\ g.nums[k] = Unpack(Piece(w, g.entry + NUM * (k - 1), g.entry + NUM * k))
    BY <1>2, <2>1
  <2>7. g.entry <= g.start /\ g.start <= p
    BY <1>2
  <2>. QED
    BY <1>2, <2>2, <2>3, <2>4, <2>5, <2>6, <2>7, Zenon DEF FrameInv
<1>. QED
  BY <1>2, <1>4, <1>6, <1>7 DEF g

\* The parser at the top calls that of a part.
LEMMA CallInv ==
  ASSUME Inv, phase = "parsing", Waiting(Top), NEW k \in DOMAIN Fields, NEW size \in Nat,
         CallPart(k, size)
  PROVE  Inv'
<1> DEFINE n == Len(stack)
           c == Sub(Top.cb, k)
           g == Frame(Fields[k], c, size, pos, sign)
<1>1. /\ stack \in Seq(FrameType) /\ n \in Nat /\ n > 0 /\ wire \in Seq(Unit)
      /\ pos \in Nat /\ sign \in SignType /\ DOMAIN stack = 1 .. n
  BY TopFacts
<1>2. <<Fields[k], c>> \in Uses
  BY TopFacts, UseFacts DEF Fields
<1>3. /\ g \in FrameType /\ g.type = Fields[k] /\ g.cb = c
      /\ FrameInv(g, pos, wire) /\ Handed(g, sign, wire)
  BY <1>1, <1>2, NewFrame
<1>4. /\ stack' = Append(stack, g) /\ pos' = pos /\ sign' = sign /\ phase' = phase
      /\ wire' = wire /\ limit' = limit
  BY DEF CallPart, Same
<1> HIDE DEF g
<1>5. /\ stack' \in Seq(FrameType) /\ Len(stack') = n + 1 /\ DOMAIN stack' = 1 .. n + 1
      /\ \A i \in 1 .. n : stack'[i] = stack[i]
      /\ stack'[n + 1] = g
  BY <1>1, <1>3, <1>4
<1>6. \A i \in 1 .. n + 1 : i \in 1 .. n \/ i = n + 1
  BY <1>1
<1>7. TypeOK'
  <2>1. \A i \in 1 .. n : <<stack'[i].type, stack'[i].cb>> \in Uses
    BY <1>1, <1>5 DEF Inv, TypeOK
  <2>2. <<stack'[n + 1].type, stack'[n + 1].cb>> \in Uses
    BY <1>2, <1>3, <1>5
  <2>3. \A i \in 1 .. n + 1 : <<stack'[i].type, stack'[i].cb>> \in Uses
    BY <1>6, <2>1, <2>2, Zenon
  <2>4. stack' # <<>>
    BY <1>1, <1>5
  <2>5. /\ wire \in Seq(Unit) /\ pos \in Nat /\ limit \in Nat
        /\ pos <= limit /\ limit <= Len(wire)
    BY TopFacts
  <2>. QED
    BY <1>1, <1>4, <1>5, <2>3, <2>4, <2>5 DEF TypeOK
<1>8. Alive'
  BY <1>1, <1>5 DEF Alive
<1>9. Beneath'
  <2>1. ASSUME NEW i \in 1 .. n + 1, i < n + 1 PROVE Waiting(stack'[i])
    <3>1. i \in 1 .. n
      BY <1>1, <2>1
    <3>2. CASE i = n
      BY <1>5, <3>1, <3>2 DEF Top
    <3>3. CASE i # n
      <4>1. i < n
        <5> HIDE DEF n
        <5>. QED
          BY <1>1, <3>1, <3>3
      <4>2. Waiting(stack[i])
        BY <1>1, <3>1, <4>1, Zenon DEF Inv, Beneath
      <4>. QED
        BY <1>5, <3>1, <4>2
    <3>. QED
      BY <3>2, <3>3
  <2>. QED
    BY <1>5, <2>1, Zenon DEF Beneath
<1>10. Nested'
  <2>1. ASSUME NEW i \in 1 .. n + 1, NEW j \in 1 .. n + 1, i < j, HasChunk(stack'[i])
        PROVE  stack'[j].cb \in Inner
    <3>1. i \in 1 .. n
      BY <1>1, <2>1
    <3>2. HasChunk(stack[i])
      BY <1>5, <2>1, <3>1
    <3>3. CASE j = n + 1
      <4>1. Inside(Top) /\ Top.cb \in DOMAIN Callbacks
        BY <1>1, <3>1, <3>2, TopInside, TopFacts, UseFacts
      <4>2. c \in Inner
        BY <4>1, InsideFacts
      <4>. QED
        BY <1>3, <1>5, <3>3, <4>2
    <3>4. CASE j \in 1 .. n
      <4>1. stack[j].cb \in Inner
        BY <1>1, <2>1, <3>1, <3>2, <3>4, Zenon DEF Inv, Nested
      <4>. QED
        BY <1>5, <3>4, <4>1
    <3>. QED
      BY <1>6, <3>3, <3>4
  <2>. QED
    BY <1>5, <2>1, Zenon DEF Nested
<1>11. \A i \in 1 .. n + 1 : FrameInv(stack'[i], pos, wire)
  <2>1. \A i \in 1 .. n : FrameInv(stack[i], pos, wire)
    BY <1>1, Zenon DEF Inv
  <2>. QED
    BY <1>3, <1>5, <1>6, <2>1, Zenon
<1>12. \A i \in 1 .. n + 1 : HasChunk(stack'[i]) => Handed(stack'[i], sign, wire)
  <2>1. \A i \in 1 .. n : HasChunk(stack[i]) => Handed(stack[i], sign, wire)
    BY <1>1, Zenon DEF Inv
  <2>2. \A i \in 1 .. n : stack'[i] = stack[i]
    BY <1>5
  <2>. QED
    BY <1>3, <1>5, <1>6, <2>1, <2>2
<1>. QED
  BY <1>4, <1>5, <1>7, <1>8, <1>9, <1>10, <1>11, <1>12 DEF Inv

\* A parser that waits counts a part.
LEMMA CountFacts ==
  ASSUME NEW f \in FrameType, NEW p \in Nat, NEW w, Waiting(f), FrameInv(f, p, w)
  PROVE  LET g == [f EXCEPT !.field_idx = @ + 1]
         IN /\ g \in FrameType /\ SameParser(f, g) /\ g.start = f.start
            /\ Waiting(g) /\ FrameInv(g, p, w)
<1> DEFINE g == [f EXCEPT !.field_idx = @ + 1]
<1>1. /\ g \in FrameType /\ g.type = f.type /\ g.cb = f.cb /\ g.entry = f.entry
      /\ g.mark = f.mark /\ g.start = f.start /\ g.state_num = f.state_num
      /\ g.nums = f.nums /\ g.buffer = f.buffer
  BY SMTT(40) DEF FrameType
<1> HIDE DEF g
<1>2. SameParser(f, g)
  BY <1>1 DEF SameParser
<1>3. ~IsReading(f) /\ ~IsReading(g) /\ Waiting(g) /\ Types[f.type].kind # "bytes"
  BY <1>1 DEF Waiting, IsReading, Composite
<1>4. Shape(g)
  <2>1. Shape(f)
    BY DEF FrameInv
  <2>. QED
    BY <1>1, <1>3, <2>1, Zenon DEF Shape
<1>5. g.entry <= g.start /\ g.start <= p
  BY <1>1 DEF FrameInv
<1>6. \A k \in DOMAIN g.nums :
        /\ g.entry + NUM * k <= p
        /\ g.nums[k] = Unpack(Piece(w, g.entry + NUM * (k - 1), g.entry + NUM * k))
  BY <1>1, Zenon DEF FrameInv
<1>7. g.buffer = <<>>
  BY <1>1, <1>3, Zenon DEF FrameInv
<1>8. FrameInv(g, p, w)
  BY <1>3, <1>4, <1>5, <1>6, <1>7, Zenon DEF FrameInv
<1>. QED
  BY <1>1, <1>2, <1>3, <1>8 DEF g

\* The callbacks that a parser makes when a part returned.
LEMMA PartCallbacks ==
  ASSUME NEW d \in SignType, NEW f \in FrameType, <<f.type, f.cb>> \in Uses
  PROVE  LET e == IF Types[f.type].kind = "option" THEN d
                  ELSE Call(InitPart(d, f, f.field_idx + 1),
                            Callbacks[f.cb].index, <<f.field_idx>>)
         IN e \in SignType /\ (Inside(f) => SameHashes(d, e))
<1> DEFINE c == Callbacks[f.cb].index
           h == InitPart(d, f, f.field_idx + 1)
           e == Call(h, c, <<f.field_idx>>)
<1>1. h \in SignType /\ (Inside(f) => SameHashes(d, h))
  BY InitPartFacts
<1>2. c \in STRING /\ c \notin OfArgument \ OfIndex
  BY SlotFacts
<1>3. Inside(f) => c \notin Hashing
  BY FrameFields, InsideFacts
<1>4. <<f.field_idx>> \in Seq(Nat)
  <2>1. f.field_idx \in Nat
    BY FrameFields
  <2>. QED
    BY <2>1
<1> HIDE DEF c, h
<1>5. Fits(c, <<f.field_idx>>)
  BY <1>2, <1>4 DEF Fits, OfArgument, OfUnits, OfNumber, OfIndex, OfHeader
<1>6. e \in SignType
  BY <1>1, <1>2, <1>5, CallType
<1>7. Inside(f) => SameHashes(d, e)
  BY <1>1, <1>2, <1>3, <1>5, CallQuiet DEF SameHashes
<1> HIDE DEF e
<1>8. SameHashes(d, d)
  BY DEF SameHashes
<1>. QED
  BY <1>6, <1>7, <1>8 DEF e, h, c

\* The parser at the top returns.
LEMMA ReturnInv ==
  ASSUME Inv, phase = "parsing", NEW p \in Nat, pos <= p, p <= limit,
         NEW d \in SignType, Top.cb \in Inner => SameHashes(sign, d), Return(p, d)
  PROVE  Inv'
<1> DEFINE n == Len(stack) - 1
           f == [stack[n] EXCEPT !.field_idx = @ + 1]
<1>1. /\ stack \in Seq(FrameType) /\ wire \in Seq(Unit) /\ Len(wire) \in Nat
      /\ pos \in Nat /\ limit \in Nat /\ limit <= Len(wire) /\ sign \in SignType
      /\ n \in Nat /\ Len(stack) = n + 1 /\ DOMAIN stack = 1 .. n + 1
  BY TopFacts
<1>2. pos' = p /\ wire' = wire /\ limit' = limit
  BY DEF Return, Same
<1>3. CASE n = 0
  <2>1. stack' = <<>> /\ phase' = "COMPLETE" /\ sign' = d
    BY <1>1, <1>3 DEF Return
  <2>2. DOMAIN stack' = {} /\ stack' \in Seq(FrameType)
    BY <2>1
  <2>3. TypeOK'
    BY <1>1, <1>2, <2>1, <2>2 DEF TypeOK
  <2>. QED
    BY <2>1, <2>2, <2>3 DEF Inv, Alive, Beneath, Nested
<1>4. CASE n # 0
  <2>1. n \in 1 .. n + 1 /\ n + 1 \in 1 .. n + 1 /\ n < n + 1 /\ n > 0
    BY <1>1, <1>4
  <2>2. stack[n] \in FrameType /\ Waiting(stack[n]) /\ <<stack[n].type, stack[n].cb>> \in Uses
    <3>1. stack[n] \in FrameType
      BY <1>1, <2>1, ElementOfSeq
    <3>2. \A i \in DOMAIN stack : <<stack[i].type, stack[i].cb>> \in Uses
      BY DEF Inv, TypeOK
    <3>3. \A i \in DOMAIN stack : i < Len(stack) => Waiting(stack[i])
      BY DEF Inv, Beneath
    <3> HIDE DEF n
    <3>. QED
      BY <1>1, <2>1, <3>1, <3>2, <3>3
  <2>3. FrameInv(stack[n], p, wire)
    <3>1. FrameInv(stack[n], pos, wire)
      <4> HIDE DEF n
      <4>. QED
        BY <1>1, <2>1, Zenon DEF Inv
    <3>. QED
      BY <1>1, <2>2, <3>1, FrameKeeps, Zenon
  <2>4. /\ f \in FrameType /\ SameParser(stack[n], f) /\ f.start = stack[n].start
        /\ Waiting(f) /\ FrameInv(f, p, wire)
    BY <2>2, <2>3, CountFacts
  <2>5. /\ stack' = [SubSeq(stack, 1, n) EXCEPT ![n] = f] /\ phase' = phase
        /\ sign' = IF Types[f.type].kind = "option" THEN d
                   ELSE Call(InitPart(d, f, f.field_idx + 1),
                             Callbacks[f.cb].index, <<f.field_idx>>)
    BY <1>1, <1>4 DEF Return
  <2>6. <<f.type, f.cb>> \in Uses
    BY <2>2, <2>4 DEF SameParser
  <2> HIDE DEF f
  <2>7. sign' \in SignType /\ (Inside(f) => SameHashes(d, sign'))
    BY <2>4, <2>5, <2>6, PartCallbacks
  <2>8. /\ SubSeq(stack, 1, n) \in Seq(FrameType) /\ Len(SubSeq(stack, 1, n)) = n
        /\ \A i \in 1 .. n : SubSeq(stack, 1, n)[i] = stack[i]
    <3> HIDE DEF n
    <3>. QED
      BY <1>1
  <2>9. /\ stack' \in Seq(FrameType) /\ Len(stack') = n /\ DOMAIN stack' = 1 .. n
        /\ \A i \in 1 .. n : stack'[i] = IF i = n THEN f ELSE stack[i]
    <3> DEFINE s == SubSeq(stack, 1, n)
    <3>1. stack' = [s EXCEPT ![n] = f]
      BY <2>5
    <3>2. s \in Seq(FrameType) /\ Len(s) = n /\ \A i \in 1 .. n : s[i] = stack[i]
      BY <2>8
    <3>3. n \in Nat /\ n > 0 /\ f \in FrameType
      BY <1>1, <2>1, <2>4
    <3> HIDE DEF s, n
    <3>4. DOMAIN s = 1 .. n /\ \A i \in 1 .. n : s[i] \in FrameType
      BY <3>2, <3>3
    <3>5. DOMAIN stack' = 1 .. n /\ \A i \in 1 .. n : stack'[i] = IF i = n THEN f ELSE s[i]
      BY <3>1, <3>4
    <3>6. stack' \in Seq(FrameType) /\ Len(stack') = n
      BY <3>1, <3>2, <3>3
    <3>. QED
      BY <3>2, <3>5, <3>6
  <2>10. \A i \in 1 .. n : i \in 1 .. n + 1 /\ i < n + 1
    BY <1>1
  <2>11. \A i \in 1 .. n :
           SameParser(stack[i], stack'[i]) /\ stack'[i].start = stack[i].start
    BY <2>4, <2>9 DEF SameParser
  <2>12. \A i \in 1 .. n : HasChunk(stack'[i]) <=> HasChunk(stack[i])
    BY <2>11 DEF HasChunk, SameParser
  <2>13. TypeOK'
    <3>1. \A i \in 1 .. n : <<stack[i].type, stack[i].cb>> \in Uses
      BY <1>1, <2>10 DEF Inv, TypeOK
    <3>2. \A i \in 1 .. n : <<stack'[i].type, stack'[i].cb>> \in Uses
      BY <2>11, <3>1 DEF SameParser
    <3>3. stack' # <<>>
      BY <1>1, <1>4, <2>9
    <3>. QED
      BY <1>1, <1>2, <2>5, <2>7, <2>9, <3>2, <3>3 DEF TypeOK
  <2>14. Alive'
    BY <1>1, <1>4, <2>9 DEF Alive
  <2>15. Beneath'
    <3>1. \A i \in 1 .. n : Waiting(stack[i])
      <4> HIDE DEF n
      <4>. QED
        BY <1>1, <2>10, Zenon DEF Inv, Beneath
    <3>2. \A i \in 1 .. n : Waiting(stack'[i])
      BY <2>4, <2>9, <3>1, Zenon
    <3>. QED
      BY <2>9, <3>2, Zenon DEF Beneath
  <2>16. Nested'
    <3>1. \A i, j \in 1 .. n + 1 : i < j /\ HasChunk(stack[i]) => stack[j].cb \in Inner
      BY <1>1, Zenon DEF Inv, Nested
    <3>2. ASSUME NEW i \in 1 .. n, NEW j \in 1 .. n, i < j, HasChunk(stack'[i])
          PROVE  stack'[j].cb \in Inner
      <4>1. stack[j].cb \in Inner
        BY <2>10, <2>12, <3>1, <3>2, Zenon
      <4>. QED
        BY <2>11, <4>1 DEF SameParser
    <3>. QED
      BY <2>9, <3>2, Zenon DEF Nested
  <2>17. \A i \in 1 .. n : FrameInv(stack'[i], p, wire)
    <3>1. ASSUME NEW i \in 1 .. n PROVE FrameInv(stack'[i], p, wire)
      <4>1. CASE i = n
        BY <2>4, <2>9, <4>1
      <4>2. CASE i # n
        <5>1. FrameInv(stack[i], pos, wire) /\ Waiting(stack[i])
          <6> HIDE DEF n
          <6>. QED
            BY <1>1, <2>10, Zenon DEF Inv, Beneath
        <5>2. stack[i] \in FrameType
          BY <1>1, <2>10, ElementOfSeq
        <5>3. FrameInv(stack[i], p, wire)
          BY <1>1, <5>1, <5>2, FrameKeeps, Zenon
        <5>. QED
          BY <2>9, <4>2, <5>3
      <4>. QED
        BY <4>1, <4>2
    <3>. QED
      BY <3>1
  <2>18. \A i \in 1 .. n : HasChunk(stack'[i]) => Handed(stack'[i], sign', wire)
    <3>1. SUFFICES ASSUME NEW i \in 1 .. n, HasChunk(stack'[i])
                   PROVE  Handed(stack'[i], sign', wire)
      OBVIOUS
    <3>2. HasChunk(stack[i]) /\ i \in DOMAIN stack
      BY <1>1, <2>10, <2>12, <3>1
    <3>3. SameHashes(sign, d)
      <4>1. i # Len(stack)
        <5>1. n \in Nat /\ Len(stack) = n + 1
          BY <1>1
        <5> HIDE DEF n
        <5>. QED
          BY <5>1
      <4>2. Top.cb \in Inner
        BY <3>2, <4>1, TopInside
      <4>. QED
        BY <4>2
    <3>4. Inside(f)
      <4>1. CASE i = n
        <5>1. HasChunk(f)
          BY <2>9, <3>1, <4>1
        <5>. QED
          BY <5>1 DEF Inside
      <4>2. CASE i # n
        <5>1. i < n
          <6> HIDE DEF n
          <6>. QED
            BY <1>1, <4>2
        <5>2. stack[n].cb \in Inner
          <6> HIDE DEF n
          <6>. QED
            BY <1>1, <2>1, <3>2, <5>1, Zenon DEF Inv, Nested
        <5>. QED
          BY <2>4, <5>2 DEF Inside, SameParser
      <4>. QED
        BY <4>1, <4>2
    <3>5. SameHashes(sign, sign')
      BY <2>7, <3>3, <3>4 DEF SameHashes
    <3>6. Handed(stack[i], sign, wire)
      BY <3>2, Zenon DEF Inv
    <3>. QED
      BY <2>11, <3>5, <3>6, HandedKeeps
  <2>. QED
    BY <1>2, <2>9, <2>13, <2>14, <2>15, <2>16, <2>17, <2>18 DEF Inv
<1>. QED
  BY <1>3, <1>4

\* The parser at the top is done: it hands over the last of its chunk.
LEMMA DoneInv ==
  ASSUME Inv, phase = "parsing", Types[Top.type].kind # "fixed",
         NEW p \in Nat, pos <= p, p <= limit,
         NEW d \in SignType, Top.cb \in Inner => SameHashes(sign, d), Done(p, d)
  PROVE  Inv'
<1> DEFINE f == Top  s == Piece(wire, Top.start, p)
           e == Effect(d, Callbacks[Top.cb].chunk, s)
           c == Callbacks[Top.cb].end
           h == Call(e, c, <<>>)
<1>1. f \in FrameType /\ <<f.type, f.cb>> \in Uses /\ FrameInv(f, pos, wire)
  BY TopFacts
<1>2. f.start \in Nat /\ f.start <= pos /\ f.cb \in DOMAIN Callbacks
  <2> HIDE DEF f
  <2>. QED
    BY <1>1, FrameFields DEF FrameInv
<1>3. s \in Seq(Unit)
  <2>1. Top.start \in Nat /\ Top.start <= p /\ p <= Len(wire) /\ wire \in Seq(Unit)
    BY <1>2, TopFacts
  <2>. QED
    BY <2>1, PieceType
<1>4. e \in SignType /\ (~HasChunk(f) => e = d)
  <2> HIDE DEF s
  <2>. QED
    BY <1>2, <1>3, ChunkCallback
<1>5. c \in STRING /\ c \notin OfArgument
  <2>1. c \in STRING /\ (c \in OfArgument => Types[f.type].kind = "fixed")
    BY <1>1, SlotFacts
  <2>. QED
    BY <2>1
<1>6. Top.cb \in Inner => ~HasChunk(f) /\ c \notin Hashing
  BY <1>2, InsideFacts DEF Inside
<1>7. Return(p, h)
  BY DEF Done, Tell, Slice, Piece, Cb
<1> HIDE DEF e, c
<1>8. Fits(c, <<>>)
  <2>1. <<>> \in Seq(Nat)
    OBVIOUS
  <2>. QED
    BY <1>5, <2>1, AnyFits
<1>9. h \in SignType
  BY <1>4, <1>5, <1>8, CallType
<1>10. Top.cb \in Inner => SameHashes(sign, h)
  BY <1>4, <1>5, <1>6, <1>8, CallQuiet DEF SameHashes
<1> HIDE DEF h
<1>. QED
  BY <1>7, <1>9, <1>10, ReturnInv

-----------------------------------------------------------------------------
(* Reading *)

\* What a parser that reads a number or a field still needs.
LEMMA WantedFacts ==
  ASSUME Inv, phase = "parsing"
  PROVE  /\ Collects(Top) \in Nat /\ NextAt(Top) \in Nat /\ Len(Top.buffer) \in Nat
         /\ NumbersRead(Top) \in Nat /\ Wanted \in Nat
         /\ IsReading(Top) =>
              /\ Wanted = Collects(Top) - Len(Top.buffer)
              /\ Len(Top.buffer) <= Collects(Top)
              /\ NextAt(Top) + Len(Top.buffer) = pos
              /\ Top.buffer = Piece(wire, NextAt(Top), pos)
         /\ ~IsReading(Top) => Top.buffer = <<>>
<1>1. Top \in FrameType /\ <<Top.type, Top.cb>> \in Uses /\ FrameInv(Top, pos, wire)
  BY TopFacts
<1>2. /\ Len(Top.buffer) \in Nat /\ Len(Top.nums) \in Nat /\ Top.field_idx \in Nat
      /\ Top.entry \in Nat
  BY <1>1, FrameFields
<1>3. Types[Top.type].size \in Nat
  BY <1>1, UseFacts
<1>4. Collects(Top) \in Nat
  BY <1>3 DEF Collects, NUM
<1>5. NumbersRead(Top) \in Nat
  BY <1>2 DEF NumbersRead
<1>6. NextAt(Top) \in Nat
  BY <1>2, <1>5 DEF NextAt, NUM
<1>7. IsReading(Top) =>
        /\ Len(Top.buffer) <= Collects(Top)
        /\ NextAt(Top) + Len(Top.buffer) = pos
        /\ Top.buffer = Piece(wire, NextAt(Top), pos)
  BY <1>1, Zenon DEF FrameInv
<1>8. ~IsReading(Top) => Top.buffer = <<>>
  BY <1>1, Zenon DEF FrameInv
<1>9. Types[Top.type].kind = "fixed" => IsReading(Top)
  <2>1. Types[Top.type].kind = "fixed" => Top.state_num = 0
    BY <1>1 DEF FrameInv, Shape
  <2>. QED
    BY <2>1 DEF IsReading, HeaderEnd
<1>10. Types[Top.type].kind = "byte" => ~IsReading(Top)
  <2>1. Top.state_num \in Nat
    BY <1>1, FrameFields
  <2>. QED
    BY <2>1 DEF IsReading, HeaderEnd
<1>11. IsReading(Top) => Wanted = Collects(Top) - Len(Top.buffer)
  BY <1>10 DEF Wanted, Collects
<1>12. Wanted \in Nat
  <2>1. CASE IsReading(Top)
    BY <1>2, <1>4, <1>7, <1>11, <2>1
  <2>2. CASE ~IsReading(Top)
    BY <1>9, <2>2 DEF Wanted
  <2>. QED
    BY <2>1, <2>2
<1>. QED
  BY <1>2, <1>4, <1>5, <1>6, <1>7, <1>8, <1>11, <1>12

\* All of it is there.
LEMMA TakenFacts ==
  ASSUME Inv, phase = "parsing", IsReading(Top), Enough
  PROVE  /\ pos + Wanted \in Nat /\ pos <= pos + Wanted /\ pos + Wanted <= limit
         /\ pos + Wanted = NextAt(Top) + Collects(Top)
         /\ Taken \in Seq(Unit) /\ Len(Taken) = Collects(Top)
         /\ Taken = Piece(wire, NextAt(Top), NextAt(Top) + Collects(Top))
<1> DEFINE q == pos + Wanted  a == NextAt(Top)  c == Collects(Top)  l == Len(Top.buffer)
<1>1. /\ wire \in Seq(Unit) /\ pos \in Nat /\ limit \in Nat /\ Len(wire) \in Nat
      /\ limit <= Len(wire)
  BY TopFacts
<1>2. /\ c \in Nat /\ a \in Nat /\ l \in Nat /\ Wanted \in Nat
      /\ Wanted = c - l /\ l <= c /\ a + l = pos /\ Top.buffer = Piece(wire, a, pos)
  BY WantedFacts
<1>3. Wanted <= limit - pos
  BY DEF Enough, Available
<1> HIDE DEF a, c, l
<1>4. q \in Nat /\ pos <= q /\ q <= limit /\ q = a + c /\ a <= pos /\ q <= Len(wire)
  BY <1>1, <1>2, <1>3
<1>5. Taken = Piece(wire, a, pos) \o Piece(wire, pos, q)
  BY <1>2 DEF Taken, Slice, Piece
<1> HIDE DEF q
<1>6. Taken = Piece(wire, a, q)
  BY <1>1, <1>2, <1>4, <1>5, PieceConcat
<1>7. Piece(wire, a, q) \in Seq(Unit) /\ Len(Piece(wire, a, q)) = q - a
  <2>1. a <= q
    BY <1>1, <1>2, <1>4
  <2>. QED
    BY <1>1, <1>2, <1>4, <2>1, PieceType
<1>8. Len(Taken) = c
  BY <1>2, <1>4, <1>6, <1>7
<1>. QED
  BY <1>4, <1>6, <1>7, <1>8 DEF q, a, c, l

\* A parser that has read a number of its header.
LEMMA NumberFacts ==
  ASSUME Inv, phase = "parsing", IsReading(Top), Enough, Types[Top.type].kind # "fixed"
  PROVE  /\ Number \in Num
         /\ pos + Wanted \in Nat /\ pos <= pos + Wanted /\ pos + Wanted <= limit
         /\ pos + Wanted = NextAt(Top) + NUM
         /\ Number = Unpack(Piece(wire, NextAt(Top), NextAt(Top) + NUM))
<1>1. Collects(Top) = NUM
  BY DEF Collects
<1>2. Number = Unpack(Taken)
  BY DEF Number
<1>3. /\ Taken \in Seq(Unit) /\ Len(Taken) = NUM
      /\ Taken = Piece(wire, NextAt(Top), NextAt(Top) + NUM)
      /\ pos + Wanted \in Nat /\ pos <= pos + Wanted /\ pos + Wanted <= limit
      /\ pos + Wanted = NextAt(Top) + NUM
  BY <1>1, TakenFacts
<1>. QED
  BY <1>2, <1>3, UnpackType

\* The number is added to those of the header.
LEMMA HeaderRead ==
  ASSUME Inv, phase = "parsing", IsReading(Top), Enough, Types[Top.type].kind # "fixed",
         NumbersRead(Top) = Len(Top.nums),
         NEW g \in FrameType, SameParser(Top, g), g.start = Top.start,
         g.nums = Append(Top.nums, Number), g.buffer = <<>>, Shape(g),
         IsReading(g) => NumbersRead(g) = Len(g.nums)
  PROVE  FrameInv(g, pos + Wanted, wire)
<1> DEFINE q == pos + Wanted  n == Len(Top.nums)  a == Top.entry
<1>1. /\ n \in Nat /\ a \in Nat /\ Top.start \in Nat /\ Top.nums \in Seq(Num)
      /\ pos \in Nat /\ Top \in FrameType /\ FrameInv(Top, pos, wire)
  BY TopFacts, FrameFields
<1>2. /\ Number \in Num /\ q \in Nat /\ pos <= q
      /\ q = NextAt(Top) + NUM
      /\ Number = Unpack(Piece(wire, NextAt(Top), NextAt(Top) + NUM))
  BY NumberFacts
<1>3. NextAt(Top) = a + NUM * n
  BY DEF NextAt
<1>4. g.entry = a /\ g.type = Top.type
  BY DEF SameParser
<1>5. a <= g.start /\ g.start <= pos
  BY <1>1, Zenon DEF FrameInv
<1>6. \A k \in 1 .. n :
        /\ a + NUM * k <= pos
        /\ Top.nums[k] = Unpack(Piece(wire, a + NUM * (k - 1), a + NUM * k))
  <2>1. DOMAIN Top.nums = 1 .. n
    BY <1>1
  <2>. QED
    BY <1>1, <2>1, Zenon DEF FrameInv
<1>7. /\ Len(g.nums) = n + 1 /\ DOMAIN g.nums = 1 .. n + 1
      /\ \A k \in 1 .. n : g.nums[k] = Top.nums[k]
      /\ g.nums[n + 1] = Number
  BY <1>1, <1>2
<1> HIDE DEF q, n, a
<1>8. q = a + NUM * (n + 1) /\ a + NUM * n + NUM = a + NUM * (n + 1)
  BY <1>1, <1>2, <1>3 DEF NUM
<1>9. \A k \in DOMAIN g.nums :
        /\ g.entry + NUM * k <= q
        /\ g.nums[k] = Unpack(Piece(wire, g.entry + NUM * (k - 1), g.entry + NUM * k))
  <2>1. ASSUME NEW k \in 1 .. n + 1
        PROVE  /\ a + NUM * k <= q
               /\ g.nums[k] = Unpack(Piece(wire, a + NUM * (k - 1), a + NUM * k))
    <3>1. CASE k \in 1 .. n
      <4>1. a + NUM * k <= q
        <5>1. a + NUM * k <= pos
          BY <1>6, <3>1, Zenon
        <5>2. a + NUM * k \in Int
          <6>1. a \in Nat /\ k \in Int /\ NUM \in Int
            BY <1>1, <3>1 DEF NUM
          <6>. QED
            BY <6>1
        <5>. QED
          BY <1>1, <1>2, <5>1, <5>2
      <4>. QED
        BY <1>6, <1>7, <3>1, <4>1, Zenon
    <3>2. CASE k = n + 1
      <4>1. k - 1 = n
        BY <1>1, <3>2
      <4>2. g.nums[k] = Unpack(Piece(wire, a + NUM * (k - 1), a + NUM * k))
        BY <1>2, <1>3, <1>7, <1>8, <3>2, <4>1
      <4>3. a + NUM * k <= q
        BY <1>2, <1>8, <3>2
      <4>. QED
        BY <4>2, <4>3
    <3>3. k \in 1 .. n \/ k = n + 1
      BY <1>1
    <3>. QED
      BY <3>1, <3>2, <3>3
  <2>. QED
    BY <1>4, <1>7, <2>1, Zenon
<1>10. ASSUME IsReading(g)
       PROVE  /\ NextAt(g) + Len(g.buffer) = q /\ g.buffer = Piece(wire, NextAt(g), q)
              /\ Len(g.buffer) <= Collects(g)
  <2>1. NextAt(g) = q
    BY <1>4, <1>7, <1>8, <1>10 DEF NextAt
  <2>2. Piece(wire, q, q) = <<>>
    BY <1>2, PieceEmpty
  <2>3. Collects(g) = NUM
    BY <1>4 DEF Collects
  <2>4. Len(<<>>) = 0
    OBVIOUS
  <2>. QED
    BY <1>2, <2>1, <2>2, <2>3, <2>4 DEF NUM
<1>11. g.entry <= g.start /\ g.start <= q
  <2>1. g.start \in Nat
    BY <1>1
  <2>. QED
    BY <1>1, <1>2, <1>4, <1>5, <2>1
<1>12. FrameInv(g, q, wire)
  BY <1>9, <1>10, <1>11, Zenon DEF FrameInv
<1>. QED
  BY <1>12 DEF q

\* The chunk ends within a number, a field or before a byte.
LEMMA CutInv == Inv /\ Cut => Inv'
<1> SUFFICES ASSUME Inv, Cut PROVE Inv' OBVIOUS
<1> DEFINE f == Top  s == Piece(wire, pos, limit)  g == [f EXCEPT !.buffer = @ \o s]
<1>1. phase = "parsing" /\ ~Enough /\ Suspend(g, limit, sign)
  BY DEF Cut, Slice, Piece
<1>2. /\ wire \in Seq(Unit) /\ pos \in Nat /\ limit \in Nat /\ Len(wire) \in Nat
      /\ pos <= limit /\ limit <= Len(wire) /\ sign \in SignType
      /\ f \in FrameType /\ FrameInv(f, pos, wire)
  BY <1>1, TopFacts
<1>3. s \in Seq(Unit) /\ Len(s) = limit - pos
  BY <1>2, PieceType
<1>4. f.buffer \in Seq(Unit) /\ Len(f.buffer) \in Nat /\ f.start \in Nat
  BY <1>2, FrameFields
<1>5. Wanted \in Nat /\ Wanted > limit - pos
  BY <1>1, <1>2, WantedFacts DEF Enough, Available
<1> HIDE DEF s, f
<1>6. f.buffer \o s \in Seq(Unit) /\ Len(f.buffer \o s) = Len(f.buffer) + Len(s)
  BY <1>3, <1>4, ConcatProperties
<1>7. /\ g \in FrameType /\ g.type = f.type /\ g.cb = f.cb /\ g.entry = f.entry
      /\ g.mark = f.mark /\ g.start = f.start /\ g.state_num = f.state_num
      /\ g.nums = f.nums /\ g.field_idx = f.field_idx /\ g.buffer = f.buffer \o s
  BY <1>2, <1>6 DEF FrameType
<1> HIDE DEF g
<1>8. SameParser(f, g)
  BY <1>7 DEF SameParser
<1>9. /\ IsReading(g) <=> IsReading(f)
      /\ NumbersRead(g) = NumbersRead(f) /\ Collects(g) = Collects(f)
  BY <1>7 DEF IsReading, NumbersRead, Collects
<1>10. NextAt(g) = NextAt(f) /\ (Shape(f) <=> Shape(g))
  BY <1>7, <1>9, Zenon DEF NextAt, Shape
<1>11. CASE IsReading(f)
  <2>1. /\ Collects(f) \in Nat /\ NextAt(f) \in Nat
        /\ Wanted = Collects(f) - Len(f.buffer)
        /\ NextAt(f) + Len(f.buffer) = pos /\ f.buffer = Piece(wire, NextAt(f), pos)
    BY <1>1, <1>11, WantedFacts DEF f
  <2>2. g.buffer = Piece(wire, NextAt(g), limit)
    <3>1. NextAt(f) <= pos
      BY <1>2, <1>4, <2>1
    <3>2. Piece(wire, NextAt(f), pos) \o Piece(wire, pos, limit) = Piece(wire, NextAt(f), limit)
      BY ZenonT(80), <1>2, <2>1, <3>1, PieceConcat
    <3>. QED
      BY <1>7, <1>10, <2>1, <3>2 DEF s
  <2>3. NextAt(g) + Len(g.buffer) = limit /\ Len(g.buffer) <= Collects(g)
    <3>1. /\ limit \in Nat /\ pos \in Nat /\ Len(f.buffer) \in Nat
          /\ Len(s) = limit - pos /\ Len(g.buffer) = Len(f.buffer) + Len(s)
      BY <1>2, <1>3, <1>4, <1>6, <1>7
    <3>. QED
      BY SMTT(40), <1>5, <1>9, <1>10, <2>1, <3>1
  <2>4. g.entry <= g.start /\ g.start <= limit
    <3>1. f.entry <= f.start /\ f.start <= pos
      BY <1>2, Zenon DEF FrameInv
    <3>. QED
      BY <1>2, <1>4, <1>7, <3>1
  <2>5. \A k \in DOMAIN g.nums :
          /\ g.entry + NUM * k <= limit
          /\ g.nums[k] = Unpack(Piece(wire, g.entry + NUM * (k - 1), g.entry + NUM * k))
    <3>1. \A k \in DOMAIN f.nums :
            /\ f.entry + NUM * k <= pos
            /\ f.nums[k] = Unpack(Piece(wire, f.entry + NUM * (k - 1), f.entry + NUM * k))
      BY <1>2, Zenon DEF FrameInv
    <3>2. \A k \in DOMAIN f.nums : f.entry + NUM * k <= limit
      <4>1. ASSUME NEW k \in DOMAIN f.nums PROVE f.entry + NUM * k <= limit
        <5>1. f.entry + NUM * k \in Int
          BY <1>2, FrameFields DEF NUM
        <5>2. f.entry + NUM * k <= pos
          BY <3>1
        <5>. QED
          BY <1>2, <5>1, <5>2
      <4>. QED
        BY <4>1
    <3>. QED
      BY <1>7, <3>1, <3>2, Zenon
  <2>6. Shape(g)
    BY <1>2, <1>10, Zenon DEF FrameInv
  <2>7. FrameInv(g, limit, wire)
    BY <1>9, <1>11, <2>2, <2>3, <2>4, <2>5, <2>6, Zenon DEF FrameInv
  <2>8. SameHashes(sign, sign) /\ limit <= limit
    BY <1>2 DEF SameHashes
  <2>. QED
    BY <1>1, <1>2, <1>7, <1>8, <2>7, <2>8, SuspendInv DEF f
<1>12. CASE ~IsReading(f)
  <2>1. Wanted = 1 /\ limit = pos
    <3>1. Wanted \in {0, 1}
      <4>1. f.state_num = 0 \/ Types[f.type].kind # "fixed"
        BY <1>2 DEF FrameInv, Shape
      <4>2. Types[f.type].kind # "fixed"
        BY <1>12, <4>1 DEF IsReading, HeaderEnd
      <4>. QED
        BY <1>12, <4>2 DEF Wanted, f
    <3>. QED
      BY <1>2, <1>5, <3>1
  <2>2. s = <<>>
    BY <1>2, <2>1, PieceEmpty DEF s
  <2>3. g.buffer = <<>>
    <3>1. f.buffer = <<>>
      BY <1>2, <1>12, Zenon DEF FrameInv
    <3>. QED
      BY <1>7, <2>2, <3>1
  <2>4. FrameInv(g, limit, wire)
    <3>1. /\ Shape(f) /\ f.entry <= f.start /\ f.start <= pos
          /\ \A k \in DOMAIN f.nums :
               /\ f.entry + NUM * k <= pos
               /\ f.nums[k] = Unpack(Piece(wire, f.entry + NUM * (k - 1), f.entry + NUM * k))
      BY <1>2, Zenon DEF FrameInv
    <3>. QED
      BY <1>7, <1>9, <1>10, <1>12, <2>1, <2>3, <3>1, Zenon DEF FrameInv
  <2>5. SameHashes(sign, sign) /\ limit <= limit
    BY <1>2 DEF SameHashes
  <2>. QED
    BY <1>1, <1>2, <1>7, <1>8, <2>4, <2>5, SuspendInv DEF f
<1>. QED
  BY <1>11, <1>12

\* The parser gives up.
LEMMA RejectInv ==
  ASSUME Inv, phase = "parsing", Reject
  PROVE  Inv'
<1>1. /\ phase' = "REJECT" /\ pos' = pos /\ stack' = stack /\ sign' = sign
      /\ wire' = wire /\ limit' = limit
  BY DEF Reject, Same
<1>2. TypeOK'
  BY <1>1 DEF Inv, TypeOK
<1>3. Alive' /\ Beneath' /\ Nested'
  BY <1>1 DEF Inv, Alive, Beneath, Nested, TypeOK
<1>. QED
  BY <1>1, <1>2, <1>3 DEF Inv

-----------------------------------------------------------------------------
(* The steps of the parsers *)

\* Numbers of the wire are natural numbers.
LEMMA NumsAreNumbers == Seq(Num) \subseteq Seq(Nat)
<1> SUFFICES ASSUME NEW s \in Seq(Num) PROVE s \in Seq(Nat)
  OBVIOUS
<1>1. Num \subseteq Nat
  BY NumFacts
<1>2. Len(s) \in Nat /\ s \in [1 .. Len(s) -> Num]
  BY LenProperties
<1>3. s \in [1 .. Len(s) -> Nat]
  BY <1>1, <1>2
<1>. QED
  BY <1>2, <1>3

\* A field or a byte is handed to the end callback.
LEMMA ParseFixedInv == Inv /\ ParseFixed => Inv'
<1> SUFFICES ASSUME Inv, ParseFixed PROVE Inv' OBVIOUS
<1> DEFINE c == Callbacks[Top.cb].end  d == Call(sign, c, Taken)
<1>1. /\ phase = "parsing" /\ Types[Top.type].kind = "fixed" /\ Enough
      /\ Return(pos + Wanted, d)
  BY DEF ParseFixed, Is, Cb
<1>2. /\ Top \in FrameType /\ <<Top.type, Top.cb>> \in Uses /\ FrameInv(Top, pos, wire)
      /\ sign \in SignType
  BY <1>1, TopFacts
<1>3. IsReading(Top)
  BY <1>1, <1>2 DEF FrameInv, Shape, IsReading, HeaderEnd
<1>4. /\ pos + Wanted \in Nat /\ pos <= pos + Wanted /\ pos + Wanted <= limit
      /\ Taken \in Seq(Unit) /\ Len(Taken) = Types[Top.type].size
  BY <1>1, <1>3, TakenFacts DEF Collects
<1>5. c \in STRING
      /\ (c \in OfArgument => c = "blake2b_chunk"
                              \/ (c \in OfNumber /\ Types[Top.type].size = NUM))
  BY <1>2, SlotFacts
<1> HIDE DEF c
<1>6. Fits(c, Taken)
  <2>1. Taken \in Seq(Nat)
    BY <1>4, UnitsAreNumbers
  <2>. QED
    BY <1>4, <1>5, <2>1 DEF Fits, OfArgument, OfUnits, OfNumber, OfHeader
<1>7. d \in SignType
  BY <1>2, <1>5, <1>6, CallType
<1>8. Top.cb \in Inner => SameHashes(sign, d)
  <2>1. Top.cb \in Inner => c \notin Hashing
    BY <1>2, FrameFields, InsideFacts DEF Inside, c
  <2>. QED
    BY <1>2, <1>5, <1>6, <2>1, CallQuiet DEF SameHashes
<1> HIDE DEF d
<1>. QED
  BY <1>1, <1>4, <1>7, <1>8, ReturnInv

\* The same of a byte.
LEMMA ParseByteInv == Inv /\ ParseByte => Inv'
<1> SUFFICES ASSUME Inv, ParseByte PROVE Inv' OBVIOUS
<1> DEFINE c == Callbacks[Top.cb].end  d == Call(sign, c, Taken)
<1>1. /\ phase = "parsing" /\ Types[Top.type].kind = "byte" /\ Enough
      /\ IF Top.size = 1 THEN Return(pos + 1, d) ELSE Reject
  BY DEF ParseByte, Is, Cb
<1>2. /\ Top \in FrameType /\ <<Top.type, Top.cb>> \in Uses /\ FrameInv(Top, pos, wire)
      /\ sign \in SignType /\ wire \in Seq(Unit) /\ pos \in Nat /\ limit \in Nat
      /\ limit <= Len(wire) /\ Len(wire) \in Nat
  BY <1>1, TopFacts
<1>3. CASE Top.size # 1
  BY <1>1, <1>3, RejectInv
<1>4. CASE Top.size = 1
  <2>1. Wanted = 1
    BY <1>1, <1>4 DEF Wanted
  <2>2. pos + 1 \in Nat /\ pos <= pos + 1 /\ pos + 1 <= limit /\ pos + 1 <= Len(wire)
    BY <1>1, <1>2, <2>1 DEF Enough, Available
  <2>3. Top.buffer \in Seq(Unit)
    BY <1>2, FrameFields
  <2>4. Piece(wire, pos, pos + 1) \in Seq(Unit)
    BY <1>2, <2>2, PieceType
  <2>5. Taken \in Seq(Unit)
    <3>1. Taken = Top.buffer \o Piece(wire, pos, pos + 1)
      BY <2>1 DEF Taken, Slice, Piece
    <3>. QED
      BY <2>3, <2>4, <3>1, ConcatProperties
  <2>6. c \in STRING /\ c \notin OfArgument
    <3>1. c \in STRING /\ (c \in OfArgument => Types[Top.type].kind = "fixed")
      BY <1>2, SlotFacts
    <3>. QED
      BY <1>1, <3>1
  <2> HIDE DEF c
  <2>7. Fits(c, Taken)
    <3>1. Taken \in Seq(Nat)
      BY <2>5, UnitsAreNumbers
    <3>. QED
      BY <2>6, <3>1, AnyFits
  <2>8. d \in SignType
    BY <1>2, <2>6, <2>7, CallType
  <2>9. Top.cb \in Inner => SameHashes(sign, d)
    <3>1. Top.cb \in Inner => c \notin Hashing
      BY <1>2, FrameFields, InsideFacts DEF Inside, c
    <3>. QED
      BY <1>2, <2>6, <2>7, <3>1, CallQuiet DEF SameHashes
  <2>10. Return(pos + 1, d)
    BY <1>1, <1>4
  <2> HIDE DEF d
  <2>. QED
    BY <1>1, <2>2, <2>8, <2>9, <2>10, ReturnInv
<1>. QED
  BY <1>3, <1>4

\* A struct parses one part after the other.
LEMMA ParseStructInv == Inv /\ ParseStruct => Inv'
<1> SUFFICES ASSUME Inv, ParseStruct PROVE Inv' OBVIOUS
<1> DEFINE k == Top.field_idx + 1
<1>1. /\ phase = "parsing" /\ Types[Top.type].kind = "struct"
      /\ \/ Reject
         \/ k \in DOMAIN Fields /\ CallPart(k, Types[Fields[k]].size)
         \/ Done(pos, sign)
  BY Zenon DEF ParseStruct, Is
<1>2. /\ Top \in FrameType /\ <<Top.type, Top.cb>> \in Uses /\ sign \in SignType
      /\ pos \in Nat /\ pos <= limit
  BY <1>1, TopFacts
<1>3. CASE Reject
  BY <1>1, <1>3, RejectInv
<1>4. CASE k \in DOMAIN Fields /\ CallPart(k, Types[Fields[k]].size)
  <2>1. Waiting(Top)
    <3>1. Top.state_num \in Nat
      BY <1>2, FrameFields
    <3>. QED
      BY <1>1, <3>1 DEF Waiting, Composite, IsReading, HeaderEnd
  <2>2. Types[Fields[k]].size \in Nat
    <3>1. <<Fields[k], Sub(Top.cb, k)>> \in Uses
      BY <1>2, <1>4, UseFacts DEF Fields
    <3> DEFINE t == Fields[k]  c == Sub(Top.cb, k)
    <3>2. <<t, c>> \in Uses
      BY <3>1
    <3> HIDE DEF t, c
    <3>3. Types[t].size \in Nat
      BY <3>2, UseFacts
    <3>. QED
      BY <3>3 DEF t
  <2> HIDE DEF k
  <2>. QED
    BY <1>1, <1>4, <2>1, <2>2, CallInv
<1>5. CASE Done(pos, sign)
  <2>1. SameHashes(sign, sign) /\ pos <= pos
    BY <1>2 DEF SameHashes
  <2>. QED
    BY <1>1, <1>2, <1>5, <2>1, DoneInv
<1>. QED
  BY <1>1, <1>3, <1>4, <1>5

\* An option parses its part, if it is there.
LEMMA ParseOptionInv == Inv /\ ParseOption => Inv'
<1> SUFFICES ASSUME Inv, ParseOption PROVE Inv' OBVIOUS
<1>1. /\ phase = "parsing" /\ Types[Top.type].kind = "option"
      /\ CallPart(1, Top.size) \/ Done(pos, sign)
  BY Zenon DEF ParseOption, Is
<1>2. /\ Top \in FrameType /\ <<Top.type, Top.cb>> \in Uses /\ sign \in SignType
      /\ pos \in Nat /\ pos <= limit
  BY <1>1, TopFacts
<1>3. CASE CallPart(1, Top.size)
  <2>1. Waiting(Top) /\ Top.size \in Nat
    <3>1. Top.size \in Nat /\ Top.state_num \in 0 .. 3
      BY <1>2, FrameFields, Zenon
    <3>2. Waiting(Top)
      BY <1>1, <3>1 DEF Waiting, Composite, IsReading, HeaderEnd
    <3>. QED
      BY <3>1, <3>2
  <2>2. 1 \in DOMAIN Fields
    BY <1>1, <1>2, UseFacts DEF Fields
  <2>. QED
    BY <1>1, <1>3, <2>1, <2>2, CallInv
<1>4. CASE Done(pos, sign)
  <2>1. SameHashes(sign, sign) /\ pos <= pos
    BY <1>2 DEF SameHashes
  <2>. QED
    BY <1>1, <1>2, <1>4, <2>1, DoneInv
<1>. QED
  BY <1>1, <1>3, <1>4

\* A parser whose header has the given numbers, after some step.
HeaderIs(f, g, nums, s, i) ==
  /\ g \in FrameType /\ g.type = f.type /\ g.cb = f.cb /\ g.start = f.start
  /\ g.state_num = s /\ g.nums = nums /\ g.buffer = <<>> /\ g.field_idx = i
  /\ SameParser(f, g)

\* Such a parser has everything else unchanged.
LEMMA HeaderFrame ==
  ASSUME NEW f \in FrameType, NEW nums \in Seq(Num), NEW s \in 0 .. 3, NEW i \in Nat,
         NEW b, b = <<>>, NEW g,
         g = [f EXCEPT !.buffer = b, !.nums = nums, !.state_num = s, !.field_idx = i]
  PROVE  HeaderIs(f, g, nums, s, i)
<1>1. b \in Seq(Unit)
  OBVIOUS
<1>2. /\ g.type = f.type /\ g.cb = f.cb /\ g.entry = f.entry
      /\ g.mark = f.mark /\ g.start = f.start /\ g.state_num = s
      /\ g.nums = nums /\ g.buffer = b /\ g.field_idx = i
  BY DEF FrameType
<1>3. g \in FrameType
  BY <1>1 DEF FrameType
<1>4. SameParser(f, g)
  BY <1>2 DEF SameParser
<1>. QED
  BY <1>2, <1>3, <1>4 DEF HeaderIs

\* The same when the parser has counted nothing.
LEMMA HeaderFrameNext ==
  ASSUME NEW f \in FrameType, NEW nums \in Seq(Num), NEW s \in 0 .. 3,
         NEW b, b = <<>>, NEW g,
         g = [f EXCEPT !.buffer = b, !.nums = nums, !.state_num = s]
  PROVE  HeaderIs(f, g, nums, s, f.field_idx)
<1>1. f.field_idx \in Nat
  BY FrameFields
<1>2. g = [f EXCEPT !.buffer = b, !.nums = nums, !.state_num = s,
                    !.field_idx = f.field_idx]
  BY DEF FrameType
<1>. QED
  BY <1>1, <1>2, HeaderFrame, Zenon

\* The same when it is where it was.
LEMMA HeaderFrameSame ==
  ASSUME NEW f \in FrameType, NEW nums \in Seq(Num), NEW b, b = <<>>, NEW g,
         g = [f EXCEPT !.buffer = b, !.nums = nums]
  PROVE  HeaderIs(f, g, nums, f.state_num, f.field_idx)
<1>1. f.state_num \in 0 .. 3
  BY FrameFields
<1>2. g = [f EXCEPT !.buffer = b, !.nums = nums, !.state_num = f.state_num]
  BY DEF FrameType
<1>. QED
  BY <1>1, <1>2, HeaderFrameNext, Zenon

\* The parser goes on after a number of its header.
LEMMA HeaderInv ==
  ASSUME Inv, phase = "parsing", IsReading(Top), Enough, Types[Top.type].kind # "fixed",
         NumbersRead(Top) = Len(Top.nums),
         NEW g \in FrameType, SameParser(Top, g), g.start = Top.start,
         g.nums = Append(Top.nums, Number), g.buffer = <<>>, Shape(g),
         IsReading(g) => NumbersRead(g) = Len(g.nums),
         NEW d \in SignType, Inside(Top) => SameHashes(sign, d),
         Continue(g, pos + Wanted, d)
  PROVE  Inv'
<1> DEFINE q == pos + Wanted
<1>1. FrameInv(g, q, wire)
  BY HeaderRead
<1>2. q \in Nat /\ pos <= q /\ q <= limit
  BY NumberFacts
<1>3. /\ stack' = [stack EXCEPT ![Len(stack)] = g] /\ pos' = q /\ sign' = d
      /\ phase' = phase /\ wire' = wire /\ limit' = limit
  BY DEF Continue, Same
<1> HIDE DEF q
<1>. QED
  BY <1>1, <1>2, <1>3, ContinueInv

\* The size of a table.
LEMMA TableSizeInv == Inv /\ TableSize => Inv'
<1> SUFFICES ASSUME Inv, TableSize PROVE Inv' OBVIOUS
<1> DEFINE f == Top  b == <<>>  nums == Append(f.nums, Number)
           g == [f EXCEPT !.buffer = b, !.nums = nums, !.state_num = 1]
<1>1. /\ phase = "parsing" /\ Types[f.type].kind = "table" /\ f.state_num = 0 /\ Enough
      /\ Reject \/ Continue(g, pos + Wanted, sign)
  BY Zenon DEF TableSize, Is, Numbered
<1>2. f \in FrameType /\ FrameInv(f, pos, wire) /\ sign \in SignType
  BY <1>1, TopFacts
<1>3. IsReading(f)
  BY <1>1 DEF IsReading, HeaderEnd
<1>4. f.nums \in Seq(Num) /\ Len(f.nums) = 0 /\ f.field_idx \in Nat
  <2> HIDE DEF f
  <2>. QED
    BY <1>1, <1>2, FrameFields DEF FrameInv, Shape
<1>5. Number \in Num
  BY <1>1, <1>3, NumberFacts
<1>6. nums \in Seq(Num) /\ Len(nums) = 1
  <2> HIDE DEF f
  <2>. QED
    BY <1>4, <1>5
<1>7. NumbersRead(f) = Len(f.nums)
  BY <1>1 DEF NumbersRead
<1>8. b = <<>>
  OBVIOUS
<1>9. CASE Reject
  BY <1>1, <1>9, RejectInv
<1>10. CASE Continue(g, pos + Wanted, sign)
  <2> HIDE DEF f, nums, b
  <2>1. /\ g \in FrameType /\ g.type = f.type /\ g.start = f.start /\ g.state_num = 1
        /\ g.nums = nums /\ g.buffer = <<>> /\ SameParser(f, g)
    <3>1. 1 \in 0 .. 3 /\ g = [f EXCEPT !.buffer = b, !.nums = nums, !.state_num = 1]
      OBVIOUS
    <3> HIDE DEF g
    <3>2. HeaderIs(f, g, nums, 1, f.field_idx)
      BY <1>2, <1>6, <1>8, <3>1, HeaderFrameNext, Zenon
    <3>. QED
      BY <3>2 DEF HeaderIs
  <2> HIDE DEF g
  <2>2. Shape(g)
    <3>1. Types[g.type].kind = "table" /\ g.state_num = 1 /\ Len(g.nums) = 1
      BY <1>1, <1>6, <2>1
    <3>. QED
      BY <3>1 DEF Shape
  <2>3. NumbersRead(g) = Len(g.nums)
    BY <1>1, <2>1 DEF NumbersRead
  <2>4. SameHashes(sign, sign)
    BY DEF SameHashes
  <2>. QED
    BY <1>1, <1>2, <1>3, <1>7, <1>10, <2>1, <2>2, <2>3, <2>4, HeaderInv DEF f, nums
<1>. QED
  BY <1>1, <1>9, <1>10

\* The offsets of a table, and what the callbacks do when they are complete.
LEMMA TableOffsetInv == Inv /\ TableOffset => Inv'
<1> SUFFICES ASSUME Inv, TableOffset PROVE Inv' OBVIOUS
<1> DEFINE f == Top  m == Len(Types[f.type].fields)
           b == <<>>  nums == Append(f.nums, Number)
           g == [f EXCEPT !.buffer = b, !.nums = nums]
           h == [f EXCEPT !.buffer = b, !.nums = nums, !.state_num = 2]
           c == Callbacks[f.cb].offsets
           d == InitPart(sign, f, 1)
           e == Call(d, c, nums)
<1>1. /\ phase = "parsing" /\ Types[f.type].kind = "table" /\ f.state_num = 1 /\ Enough
  BY DEF TableOffset, Is
<1>2. /\ f \in FrameType /\ FrameInv(f, pos, wire) /\ sign \in SignType
      /\ <<f.type, f.cb>> \in Uses
  BY <1>1, TopFacts
<1>3. IsReading(f)
  BY <1>1 DEF IsReading, HeaderEnd
<1>4. f.nums \in Seq(Num) /\ Len(f.nums) \in Nat /\ m \in Nat /\ f.field_idx \in Nat
  <2>1. Types[f.type].fields \in Seq(DOMAIN Types)
    BY <1>2, UseFacts
  <2> HIDE DEF f
  <2>2. f.nums \in Seq(Num) /\ Len(f.nums) \in Nat /\ f.field_idx \in Nat
    BY <1>2, FrameFields
  <2>. QED
    BY <2>1, <2>2
<1>5. Len(f.nums) > 0 /\ (Len(f.nums) = 1 \/ Len(f.nums) <= m)
  BY <1>1, <1>2 DEF FrameInv, Shape
<1>6. Number \in Num
  BY <1>1, <1>3, NumberFacts
<1>7. nums \in Seq(Num) /\ Len(nums) = Len(f.nums) + 1
  <2> HIDE DEF f
  <2>. QED
    BY <1>4, <1>6
<1>8. NumbersRead(f) = Len(f.nums)
  BY <1>1 DEF NumbersRead
<1>9. Numbered = g /\ [Numbered EXCEPT !.state_num = 2] = h /\ b = <<>>
  BY Zenon DEF Numbered
<1>10. /\ g \in FrameType /\ g.type = f.type /\ g.start = f.start /\ g.state_num = 1
       /\ g.nums = nums /\ g.buffer = <<>> /\ SameParser(f, g)
  <2> HIDE DEF f, nums, b
  <2>1. g = [f EXCEPT !.buffer = b, !.nums = nums]
    OBVIOUS
  <2> HIDE DEF g
  <2>2. HeaderIs(f, g, nums, f.state_num, f.field_idx)
    BY <1>2, <1>7, <1>9, <2>1, HeaderFrameSame, Zenon
  <2>. QED
    BY <1>1, <2>2 DEF HeaderIs
<1>11. /\ h \in FrameType /\ h.type = f.type /\ h.start = f.start /\ h.state_num = 2
       /\ h.nums = nums /\ h.buffer = <<>> /\ SameParser(f, h)
  <2> HIDE DEF f, nums, b
  <2>1. 2 \in 0 .. 3 /\ h = [f EXCEPT !.buffer = b, !.nums = nums, !.state_num = 2]
    OBVIOUS
  <2> HIDE DEF h
  <2>2. HeaderIs(f, h, nums, 2, f.field_idx)
    BY <1>2, <1>7, <1>9, <2>1, HeaderFrameNext, Zenon
  <2>. QED
    BY <2>2 DEF HeaderIs
<1>12. \/ Len(nums) <= m /\ Continue(g, pos + Wanted, sign)
       \/ ~(Len(nums) <= m) /\ Continue(h, pos + Wanted, e)
  <2> HIDE DEF nums, g, h
  <2>. QED
    BY <1>9, <1>10 DEF TableOffset, Cb, Fields
<1> HIDE DEF f, nums, b, g, h
<1>13. CASE Len(nums) <= m /\ Continue(g, pos + Wanted, sign)
  <2>1. Shape(g)
    BY <1>1, <1>4, <1>5, <1>7, <1>10, <1>13 DEF Shape, m
  <2>2. NumbersRead(g) = Len(g.nums)
    BY <1>1, <1>10 DEF NumbersRead
  <2>3. SameHashes(sign, sign)
    BY DEF SameHashes
  <2>. QED
    BY <1>1, <1>2, <1>3, <1>8, <1>10, <1>13, <2>1, <2>2, <2>3, HeaderInv DEF f, nums
<1>14. CASE ~(Len(nums) <= m) /\ Continue(h, pos + Wanted, e)
  <2>1. Len(nums) > m
    BY <1>4, <1>7, <1>14
  <2>2. Shape(h)
    BY <1>1, <1>4, <1>5, <1>7, <1>11, <2>1 DEF Shape, m
  <2>3. ~IsReading(h)
    BY <1>1, <1>11 DEF IsReading, HeaderEnd
  <2>4. d \in SignType /\ (Inside(f) => SameHashes(sign, d))
    BY <1>2, InitPartFacts
  <2>5. /\ c \in STRING /\ c \notin OfArgument \ OfHeader
        /\ c \in OfHeader => m = 6
    BY <1>2, SlotFacts
  <2>6. Inside(f) => c \notin Hashing
    BY <1>2, FrameFields, InsideFacts
  <2>7. Fits(c, nums)
    <3>1. nums \in Seq(Nat)
      BY <1>7, NumsAreNumbers
    <3>2. c \in OfHeader => Len(nums) = 7
      <4>1. c \in OfHeader => m = 6
        BY <2>5
      <4>2. /\ Len(f.nums) \in Nat /\ Len(nums) = Len(f.nums) + 1 /\ Len(nums) > m
            /\ Len(f.nums) = 1 \/ Len(f.nums) <= m
        BY <1>4, <1>5, <1>7, <2>1
      <4>3. m = 6 => Len(nums) = 7
        <5> DEFINE l == Len(f.nums)
        <5>1. l \in Nat /\ Len(nums) = l + 1 /\ Len(nums) > m /\ (l = 1 \/ l <= m)
          BY <4>2
        <5> HIDE DEF l, m
        <5>2. m = 6 => l = 6
          BY <5>1
        <5>. QED
          BY <5>1, <5>2
      <4>. QED
        BY <4>1, <4>3
    <3> HIDE DEF c, m
    <3>. QED
      BY <1>7, <2>5, <3>1, <3>2 DEF Fits, OfArgument, OfUnits, OfNumber, OfHeader
  <2> HIDE DEF c, d
  <2>8. e \in SignType
    BY <2>4, <2>5, <2>7, CallType
  <2>9. Inside(f) => SameHashes(sign, e)
    BY <2>4, <2>5, <2>6, <2>7, CallQuiet DEF SameHashes
  <2> HIDE DEF e
  <2>10. Continue(h, pos + Wanted, e)
    BY <1>14
  <2>. QED
    BY <1>1, <1>2, <1>3, <1>8, <1>11, <2>2, <2>3, <2>8, <2>9, <2>10, HeaderInv
    DEF f, nums
<1>. QED
  BY <1>12, <1>13, <1>14

\* The fields of a table.
LEMMA TableFieldInv == Inv /\ TableField => Inv'
<1> SUFFICES ASSUME Inv, TableField PROVE Inv' OBVIOUS
<1> DEFINE f == Top
           k == f.field_idx + 1
           next == IF k < Len(Fields) THEN f.nums[k + 2] ELSE f.nums[1]
           size == (next - f.nums[k + 1]) % MOD
<1>1. /\ phase = "parsing" /\ Types[f.type].kind = "table" /\ f.state_num = 2
      /\ IF k \in DOMAIN Fields THEN CallPart(k, size) ELSE Done(pos, sign)
  BY Zenon DEF TableField, Is
<1>2. /\ f \in FrameType /\ FrameInv(f, pos, wire) /\ sign \in SignType
      /\ <<f.type, f.cb>> \in Uses /\ pos \in Nat /\ pos <= limit
  BY <1>1, TopFacts
<1>3. CASE k \in DOMAIN Fields
  <2>1. Waiting(f)
    BY <1>1 DEF Waiting, Composite, IsReading, HeaderEnd
  <2>2. /\ f.nums \in Seq(Num) /\ Len(f.nums) \in Nat /\ Len(Fields) \in Nat
        /\ DOMAIN Fields = 1 .. Len(Fields)
    BY <1>2, FrameFields, UseFacts DEF Fields
  <2>3. Len(f.nums) > Len(Fields) /\ Len(f.nums) > 1
    BY <1>1, <1>2 DEF FrameInv, Shape, Fields
  <2>4. \A i \in 1 .. Len(f.nums) : f.nums[i] \in Int
    <3>1. \A i \in 1 .. Len(f.nums) : f.nums[i] \in Num
      BY <2>2, ElementOfSeq
    <3>2. \A i \in Num : i \in Int
      BY NumFacts
    <3>. QED
      BY <3>1, <3>2, Zenon
  <2>5. /\ k \in Nat /\ k + 1 \in 1 .. Len(f.nums) /\ 1 \in 1 .. Len(f.nums)
        /\ k < Len(Fields) => k + 2 \in 1 .. Len(f.nums)
    <3> HIDE DEF f
    <3>. QED
      BY <1>3, <2>2, <2>3
  <2>6. next \in Int /\ f.nums[k + 1] \in Int
    <3> HIDE DEF f, k
    <3>. QED
      BY <2>4, <2>5
  <2>7. size \in Nat
    <3>1. size \in Num
      <4> DEFINE i == next - f.nums[k + 1]
      <4>1. i \in Int
        <5> HIDE DEF next, f, k
        <5>. QED
          BY <2>6
      <4> HIDE DEF i
      <4>2. i % MOD \in Num
        BY <4>1, WrapType
      <4>. QED
        BY <4>2 DEF i
    <3>. QED
      BY <3>1, NumFacts
  <2>8. CallPart(k, size)
    BY <1>1, <1>3
  <2> HIDE DEF size, k
  <2>. QED
    BY <1>1, <1>3, <2>1, <2>7, <2>8, CallInv
<1>4. CASE k \notin DOMAIN Fields
  <2>1. SameHashes(sign, sign) /\ pos <= pos
    BY <1>2 DEF SameHashes
  <2>2. Done(pos, sign)
    BY <1>1, <1>4
  <2>. QED
    BY <1>1, <1>2, <2>1, <2>2, DoneInv
<1>. QED
  BY <1>3, <1>4

\* A callback made by a parser leaves the hashes alone if the parser is not to touch them.
LEMMA QuietCall ==
  ASSUME NEW d \in SignType, NEW f, NEW c \in STRING, NEW arg, Fits(c, arg),
         Inside(f) => c \notin Hashing
  PROVE  /\ Call(d, c, arg) \in SignType
         /\ Inside(f) => SameHashes(d, Call(d, c, arg))
BY CallType, CallQuiet DEF SameHashes

\* The callbacks that are told a size, an index or a number of items.
LEMMA NumberCallbacks ==
  ASSUME NEW d \in SignType, NEW f, <<f.type, f.cb>> \in Uses, NEW n \in Nat, NEW c,
         c \in {Callbacks[f.cb].size, Callbacks[f.cb].index, Callbacks[f.cb].length}
  PROVE  /\ Call(d, c, <<n>>) \in SignType
         /\ Inside(f) => SameHashes(d, Call(d, c, <<n>>))
<1>1. c \in STRING /\ c \notin OfUnits \cup OfNumber \cup OfHeader
  <2>1. /\ Callbacks[f.cb].size \in STRING /\ Callbacks[f.cb].size \notin OfArgument
        /\ Callbacks[f.cb].index \in STRING
        /\ Callbacks[f.cb].index \notin OfArgument \ OfIndex
        /\ Callbacks[f.cb].length \in STRING
        /\ Callbacks[f.cb].length \notin OfArgument \ OfLength
    BY SlotFacts
  <2>2. CASE c = Callbacks[f.cb].size
    BY <2>1, <2>2 DEF OfArgument
  <2>3. CASE c = Callbacks[f.cb].index
    BY <2>1, <2>3 DEF OfArgument, OfUnits, OfNumber, OfHeader, OfIndex
  <2>4. CASE c = Callbacks[f.cb].length
    BY <2>1, <2>4 DEF OfArgument, OfUnits, OfNumber, OfHeader, OfLength
  <2>. QED
    BY <2>2, <2>3, <2>4
<1>2. Inside(f) => c \notin Hashing
  <2>1. f.cb \in DOMAIN Callbacks
    BY UseFacts
  <2>2. Inside(f) => /\ Callbacks[f.cb].size \notin Hashing
                     /\ Callbacks[f.cb].index \notin Hashing
                     /\ Callbacks[f.cb].length \notin Hashing
    BY <2>1, InsideFacts
  <2>. QED
    BY <2>2
<1>3. <<n>> \in Seq(Nat)
  OBVIOUS
<1>4. Fits(c, <<n>>)
  BY <1>1, <1>3 DEF Fits
<1>. QED
  BY <1>1, <1>2, <1>4, QuietCall

\* The prefix of a FixVec.
LEMMA FixVecLengthInv == Inv /\ FixVecLength => Inv'
<1> SUFFICES ASSUME Inv, FixVecLength PROVE Inv' OBVIOUS
<1> DEFINE f == Top  b == <<>>  nums == Append(f.nums, Number)
           g == [f EXCEPT !.buffer = b, !.nums = nums, !.state_num = 1]
           v == Number * Types[f.type].size + NUM
           d == Call(sign, Callbacks[f.cb].size, <<v>>)
           h == InitPart(d, f, 1)
           e == Call(h, Callbacks[f.cb].index, <<0>>)
<1>1. /\ phase = "parsing" /\ Types[f.type].kind = "fixvec" /\ f.state_num = 0 /\ Enough
      /\ Reject \/ Continue(g, pos + Wanted, e)
  BY Zenon DEF FixVecLength, Is, Numbered, Cb
<1>2. /\ f \in FrameType /\ FrameInv(f, pos, wire) /\ sign \in SignType
      /\ <<f.type, f.cb>> \in Uses
  BY <1>1, TopFacts
<1>3. IsReading(f)
  BY <1>1 DEF IsReading, HeaderEnd
<1>4. f.nums \in Seq(Num) /\ Len(f.nums) = 0
  <2> HIDE DEF f
  <2>. QED
    BY <1>1, <1>2, FrameFields DEF FrameInv, Shape
<1>5. Number \in Num
  BY <1>1, <1>3, NumberFacts
<1>6. nums \in Seq(Num) /\ Len(nums) = 1
  <2> HIDE DEF f
  <2>. QED
    BY <1>4, <1>5
<1>7. NumbersRead(f) = Len(f.nums)
  BY <1>1 DEF NumbersRead
<1>8. b = <<>>
  OBVIOUS
<1>9. CASE Reject
  BY <1>1, <1>9, RejectInv
<1>10. CASE Continue(g, pos + Wanted, e)
  <2>1. v \in Nat
    <3>1. Types[f.type].size \in Nat /\ Number \in Nat
      BY <1>2, <1>5, UseFacts, NumFacts
    <3>. QED
      BY <3>1 DEF NUM
  <2> HIDE DEF f, nums, b, v
  <2>2. d \in SignType /\ (Inside(f) => SameHashes(sign, d))
    BY <1>2, <2>1, NumberCallbacks
  <2> HIDE DEF d
  <2>3. h \in SignType /\ (Inside(f) => SameHashes(d, h))
    BY <1>2, <2>2, InitPartFacts
  <2> HIDE DEF h
  <2>4. e \in SignType /\ (Inside(f) => SameHashes(h, e))
    BY <1>2, <2>3, NumberCallbacks
  <2> HIDE DEF e
  <2>5. Inside(f) => SameHashes(sign, e)
    BY <2>2, <2>3, <2>4 DEF SameHashes
  <2>6. /\ g \in FrameType /\ g.type = f.type /\ g.start = f.start /\ g.state_num = 1
        /\ g.nums = nums /\ g.buffer = <<>> /\ SameParser(f, g)
    <3>1. 1 \in 0 .. 3 /\ g = [f EXCEPT !.buffer = b, !.nums = nums, !.state_num = 1]
      OBVIOUS
    <3> HIDE DEF g
    <3>2. HeaderIs(f, g, nums, 1, f.field_idx)
      BY <1>2, <1>6, <1>8, <3>1, HeaderFrameNext, Zenon
    <3>. QED
      BY <3>2 DEF HeaderIs
  <2> HIDE DEF g
  <2>7. Shape(g)
    <3>1. Types[g.type].kind = "fixvec" /\ g.state_num = 1 /\ Len(g.nums) = 1
      BY <1>1, <1>6, <2>6
    <3>. QED
      BY <3>1 DEF Shape
  <2>8. NumbersRead(g) = Len(g.nums)
    BY <1>1, <2>6 DEF NumbersRead
  <2>. QED
    BY <1>1, <1>2, <1>3, <1>7, <1>10, <2>4, <2>5, <2>6, <2>7, <2>8, HeaderInv DEF f, nums
<1>. QED
  BY <1>1, <1>9, <1>10

\* The items of a FixVec.
LEMMA FixVecItemInv == Inv /\ FixVecItem => Inv'
<1> SUFFICES ASSUME Inv, FixVecItem PROVE Inv' OBVIOUS
<1> DEFINE size == Types[Top.type].size
<1>1. /\ phase = "parsing" /\ Types[Top.type].kind = "fixvec" /\ Top.state_num = 1
      /\ CallPart(1, size) \/ Done(pos, sign)
  BY Zenon DEF FixVecItem, Is
<1>2. /\ <<Top.type, Top.cb>> \in Uses /\ sign \in SignType /\ pos \in Nat /\ pos <= limit
  BY <1>1, TopFacts
<1>3. CASE CallPart(1, size)
  <2>1. Waiting(Top)
    BY <1>1 DEF Waiting, Composite, IsReading, HeaderEnd
  <2>2. 1 \in DOMAIN Fields
    BY <1>1, <1>2, UseFacts DEF Fields
  <2>3. size \in Nat
    BY <1>2, UseFacts
  <2> HIDE DEF size
  <2>. QED
    BY <1>1, <1>3, <2>1, <2>2, <2>3, CallInv
<1>4. CASE Done(pos, sign)
  <2>1. SameHashes(sign, sign) /\ pos <= pos
    BY <1>2 DEF SameHashes
  <2>. QED
    BY <1>1, <1>2, <1>4, <2>1, DoneInv
<1>. QED
  BY <1>1, <1>3, <1>4

\* The length of Bytes.
LEMMA BytesLengthInv == Inv /\ BytesLength => Inv'
<1> SUFFICES ASSUME Inv, BytesLength PROVE Inv' OBVIOUS
<1> DEFINE f == Top  b == <<>>  nums == Append(f.nums, Number)
           g == [f EXCEPT !.buffer = b, !.nums = nums, !.state_num = 1]
           d == Call(sign, Callbacks[f.cb].size, <<Number + NUM>>)
<1>1. /\ phase = "parsing" /\ Types[f.type].kind = "bytes" /\ f.state_num = 0 /\ Enough
      /\ Reject \/ Continue(g, pos + Wanted, d)
  BY Zenon DEF BytesLength, Is, Numbered, Cb
<1>2. /\ f \in FrameType /\ FrameInv(f, pos, wire) /\ sign \in SignType
      /\ <<f.type, f.cb>> \in Uses
  BY <1>1, TopFacts
<1>3. IsReading(f)
  BY <1>1 DEF IsReading, HeaderEnd
<1>4. f.nums \in Seq(Num) /\ Len(f.nums) = 0
  <2> HIDE DEF f
  <2>. QED
    BY <1>1, <1>2, FrameFields DEF FrameInv, Shape
<1>5. Number \in Num
  BY <1>1, <1>3, NumberFacts
<1>6. nums \in Seq(Num) /\ Len(nums) = 1
  <2> HIDE DEF f
  <2>. QED
    BY <1>4, <1>5
<1>7. NumbersRead(f) = Len(f.nums)
  BY <1>1 DEF NumbersRead
<1>8. b = <<>>
  OBVIOUS
<1>9. CASE Reject
  BY <1>1, <1>9, RejectInv
<1>10. CASE Continue(g, pos + Wanted, d)
  <2>1. Number \in Nat /\ Number + NUM \in Nat
    BY <1>5, NumFacts
  <2>2. f.field_idx = 0
    <3>1. f.field_idx \in Nat
      BY <1>2, FrameFields
    <3>2. f.field_idx <= 0
      BY <1>1, <1>2, <1>4 DEF FrameInv, Shape
    <3> HIDE DEF f
    <3>. QED
      BY <3>1, <3>2
  <2> HIDE DEF f, nums, b
  <2>3. d \in SignType /\ (Inside(f) => SameHashes(sign, d))
    BY <1>2, <2>1, NumberCallbacks
  <2> HIDE DEF d
  <2>4. /\ g \in FrameType /\ g.type = f.type /\ g.start = f.start /\ g.state_num = 1
        /\ g.nums = nums /\ g.buffer = <<>> /\ SameParser(f, g) /\ g.field_idx = f.field_idx
    <3>1. 1 \in 0 .. 3 /\ g = [f EXCEPT !.buffer = b, !.nums = nums, !.state_num = 1]
      OBVIOUS
    <3> HIDE DEF g
    <3>2. HeaderIs(f, g, nums, 1, f.field_idx)
      BY <1>2, <1>6, <1>8, <3>1, HeaderFrameNext, Zenon
    <3>. QED
      BY <3>2 DEF HeaderIs
  <2> HIDE DEF g
  <2>5. Shape(g)
    <3>1. Types[g.type].kind = "bytes" /\ g.state_num = 1 /\ Len(g.nums) = 1
      BY <1>1, <1>6, <2>4
    <3>2. g.nums[1] = Number
      BY <1>4, <2>4 DEF nums
    <3>3. g.field_idx <= g.nums[1]
      BY <2>1, <2>2, <2>4, <3>2
    <3>. QED
      BY <3>1, <3>3 DEF Shape
  <2>6. NumbersRead(g) = Len(g.nums)
    BY <1>1, <2>4 DEF NumbersRead
  <2>. QED
    BY <1>1, <1>2, <1>3, <1>7, <1>10, <2>3, <2>4, <2>5, <2>6, HeaderInv DEF f, nums
<1>. QED
  BY <1>1, <1>9, <1>10

\* The body of Bytes, as far as it is there.
LEMMA BytesBodyInv == Inv /\ BytesBody => Inv'
<1> SUFFICES ASSUME Inv, BytesBody PROVE Inv' OBVIOUS
<1> DEFINE f == Top
           needed == f.nums[1] - f.field_idx
           copy == IF needed < Available THEN needed ELSE Available
           c == Callbacks[f.cb].body_chunk
           s == Piece(wire, pos, pos + copy)
           d == IF needed = 0 THEN sign ELSE Call(sign, c, s)
           g == [f EXCEPT !.field_idx = @ + copy]
<1>1. /\ phase = "parsing" /\ Types[f.type].kind = "bytes" /\ f.state_num = 1
      /\ IF copy = needed THEN Done(pos + copy, d) ELSE Suspend(g, pos + copy, d)
  BY Zenon DEF BytesBody, Is, Cb, Slice, Piece
<1>2. /\ f \in FrameType /\ FrameInv(f, pos, wire) /\ sign \in SignType
      /\ <<f.type, f.cb>> \in Uses /\ wire \in Seq(Unit) /\ pos \in Nat /\ limit \in Nat
      /\ pos <= limit /\ limit <= Len(wire) /\ Len(wire) \in Nat
  BY <1>1, TopFacts
<1>3. f.field_idx \in Nat /\ f.nums \in Seq(Num) /\ Len(f.nums) \in Nat
  <2> HIDE DEF f
  <2>. QED
    BY <1>2, FrameFields
<1>4. Len(f.nums) = 1 /\ f.field_idx <= f.nums[1]
  BY <1>1, <1>2, <1>3 DEF FrameInv, Shape
<1>5. f.nums[1] \in Nat
  <2>1. f.nums[1] \in Num
    BY <1>3, <1>4, ElementOfSeq
  <2>. QED
    BY <2>1, NumFacts
<1>6. ~IsReading(f)
  BY <1>1 DEF IsReading, HeaderEnd
<1>7. needed \in Nat
  BY <1>3, <1>4, <1>5
<1>8. Available \in Nat /\ Available = limit - pos
  BY <1>2 DEF Available
<1>9. copy \in Nat /\ copy <= needed /\ copy <= limit - pos
  <2> HIDE DEF needed
  <2>. QED
    BY <1>7, <1>8
<1> HIDE DEF copy
<1>10. pos + copy \in Nat /\ pos <= pos + copy /\ pos + copy <= limit
       /\ pos + copy <= Len(wire)
  BY <1>2, <1>9
<1>11. s \in Seq(Unit)
  BY <1>2, <1>10, PieceType
<1>12. c \in STRING /\ c \notin OfArgument
  BY <1>2, SlotFacts
<1>13. Inside(f) => c \notin Hashing
  BY <1>2, FrameFields, InsideFacts
<1>14. Fits(c, s)
  <2>1. s \in Seq(Nat)
    BY <1>11, UnitsAreNumbers
  <2> HIDE DEF c, s
  <2>. QED
    BY <1>12, <2>1, AnyFits
<1>15. d \in SignType /\ (Inside(f) => SameHashes(sign, d))
  <2> HIDE DEF c, s, f, needed
  <2>1. CASE needed = 0
    BY <1>2, <2>1 DEF SameHashes
  <2>2. CASE needed # 0
    BY <1>2, <1>12, <1>13, <1>14, <2>2, QuietCall
  <2>. QED
    BY <2>1, <2>2
<1> HIDE DEF d
<1>16. CASE copy = needed
  <2>1. Done(pos + copy, d)
    BY <1>1, <1>16
  <2>2. Top.cb \in Inner => SameHashes(sign, d)
    BY <1>15 DEF Inside
  <2>. QED
    BY <1>1, <1>10, <1>15, <2>1, <2>2, DoneInv
<1>17. CASE copy # needed
  <2>1. Suspend(g, pos + copy, d)
    BY <1>1, <1>17
  <2> DEFINE p == pos + copy
  <2> HIDE DEF f
  <2>2. f.field_idx + copy \in Nat /\ f.field_idx + copy <= f.nums[1]
    BY <1>3, <1>5, <1>7, <1>9 DEF needed
  <2>3. /\ g \in FrameType /\ g.type = f.type /\ g.cb = f.cb /\ g.entry = f.entry
        /\ g.mark = f.mark /\ g.start = f.start /\ g.state_num = f.state_num
        /\ g.nums = f.nums /\ g.buffer = f.buffer /\ g.field_idx = f.field_idx + copy
    <3>1. f \in FrameType /\ f.field_idx + copy \in Nat
      BY <1>2, <2>2
    <3>. QED
      BY <3>1 DEF FrameType
  <2> HIDE DEF g, p
  <2>4. SameParser(f, g)
    BY <2>3 DEF SameParser
  <2>5. FrameInv(g, p, wire)
    <3>1. /\ f.entry <= f.start /\ f.start <= pos /\ f.buffer = <<>>
          /\ \A k \in DOMAIN f.nums :
               /\ f.entry + NUM * k <= pos
               /\ f.nums[k] = Unpack(Piece(wire, f.entry + NUM * (k - 1), f.entry + NUM * k))
      BY <1>2, <1>6, Zenon DEF FrameInv
    <3>2. p \in Nat /\ pos <= p
      BY <1>10 DEF p
    <3>3. ~IsReading(g)
      BY <1>6, <2>3 DEF IsReading
    <3>4. Shape(g)
      <4>1. /\ Types[g.type].kind = "bytes" /\ g.state_num = 1 /\ Len(g.nums) = 1
            /\ g.field_idx <= g.nums[1]
        BY <1>1, <1>4, <2>2, <2>3
      <4>. QED
        BY <4>1 DEF Shape
    <3>5. g.start <= p
      <4>1. f.start \in Nat
        BY <1>2, FrameFields
      <4>. QED
        BY <1>2, <2>3, <3>1, <3>2, <4>1
    <3>6. \A k \in DOMAIN f.nums : f.entry + NUM * k <= p
      <4>1. ASSUME NEW k \in DOMAIN f.nums PROVE f.entry + NUM * k <= p
        <5>1. f.entry + NUM * k \in Int
          <6>1. f.entry \in Nat /\ k \in Int
            BY <1>2, <1>3, FrameFields
          <6>. QED
            BY <6>1 DEF NUM
        <5>2. f.entry + NUM * k <= pos
          BY <3>1
        <5>. QED
          BY <1>2, <3>2, <5>1, <5>2
      <4>. QED
        BY <4>1
    <3>. QED
      BY <2>3, <3>1, <3>3, <3>4, <3>5, <3>6, Zenon DEF FrameInv
  <2>6. p \in Nat /\ pos <= p /\ p <= limit /\ Suspend(g, p, d)
    BY <1>10, <2>1 DEF p
  <2>. QED
    BY <1>1, <1>15, <2>3, <2>4, <2>5, <2>6, SuspendInv DEF f
<1>. QED
  BY <1>16, <1>17

\* The size of a DynVec.
LEMMA DynVecSizeInv == Inv /\ DynVecSize => Inv'
<1> SUFFICES ASSUME Inv, DynVecSize PROVE Inv' OBVIOUS
<1> DEFINE f == Top  b == <<>>  nums == Append(f.nums, Number)
           g == [f EXCEPT !.buffer = b, !.nums = nums, !.state_num = 1]
           d == Call(sign, Callbacks[f.cb].size, <<Number>>)
<1>1. /\ phase = "parsing" /\ Types[f.type].kind = "dynvec" /\ f.state_num = 0 /\ Enough
      /\ Reject \/ Done(pos + Wanted, d) \/ Continue(g, pos + Wanted, d)
  BY Zenon DEF DynVecSize, Is, Numbered, Cb
<1>2. /\ f \in FrameType /\ FrameInv(f, pos, wire) /\ sign \in SignType
      /\ <<f.type, f.cb>> \in Uses
  BY <1>1, TopFacts
<1>3. IsReading(f)
  BY <1>1 DEF IsReading, HeaderEnd
<1>4. f.nums \in Seq(Num) /\ Len(f.nums) = 0
  <2> HIDE DEF f
  <2>. QED
    BY <1>1, <1>2, FrameFields DEF FrameInv, Shape
<1>5. Number \in Num /\ Number \in Nat
  BY <1>1, <1>3, NumberFacts, NumFacts
<1>6. nums \in Seq(Num) /\ Len(nums) = 1
  <2> HIDE DEF f
  <2>. QED
    BY <1>4, <1>5
<1>7. NumbersRead(f) = Len(f.nums)
  BY <1>1 DEF NumbersRead
<1>8. b = <<>>
  OBVIOUS
<1>9. d \in SignType /\ (Inside(f) => SameHashes(sign, d))
  BY <1>2, <1>5, NumberCallbacks
<1> HIDE DEF d
<1>10. CASE Reject
  BY <1>1, <1>10, RejectInv
<1>11. CASE Done(pos + Wanted, d)
  <2>1. pos + Wanted \in Nat /\ pos <= pos + Wanted /\ pos + Wanted <= limit
    BY <1>1, <1>3, NumberFacts
  <2>2. Top.cb \in Inner => SameHashes(sign, d)
    BY <1>9 DEF Inside
  <2>. QED
    BY <1>1, <1>9, <1>11, <2>1, <2>2, DoneInv
<1>12. CASE Continue(g, pos + Wanted, d)
  <2> HIDE DEF f, nums, b
  <2>1. /\ g \in FrameType /\ g.type = f.type /\ g.start = f.start /\ g.state_num = 1
        /\ g.nums = nums /\ g.buffer = <<>> /\ SameParser(f, g)
    <3>1. 1 \in 0 .. 3 /\ g = [f EXCEPT !.buffer = b, !.nums = nums, !.state_num = 1]
      OBVIOUS
    <3> HIDE DEF g
    <3>2. HeaderIs(f, g, nums, 1, f.field_idx)
      BY <1>2, <1>6, <1>8, <3>1, HeaderFrameNext, Zenon
    <3>. QED
      BY <3>2 DEF HeaderIs
  <2> HIDE DEF g
  <2>2. Shape(g)
    <3>1. Types[g.type].kind = "dynvec" /\ g.state_num = 1 /\ Len(g.nums) = 1
      BY <1>1, <1>6, <2>1
    <3>. QED
      BY <3>1 DEF Shape
  <2>3. NumbersRead(g) = Len(g.nums)
    BY <1>1, <2>1 DEF NumbersRead
  <2>. QED
    BY <1>1, <1>2, <1>3, <1>7, <1>9, <1>12, <2>1, <2>2, <2>3, HeaderInv DEF f, nums
<1>. QED
  BY <1>1, <1>10, <1>11, <1>12

\* A parser that has read its header moves on to another part of it.
LEMMA HeaderState ==
  ASSUME NEW f, NEW h, NEW nums, NEW s, NEW i, HeaderIs(f, h, nums, s, i),
         NEW t \in 0 .. 3, NEW g, g = [h EXCEPT !.state_num = t]
  PROVE  HeaderIs(f, g, nums, t, i)
<1>1. /\ h \in FrameType /\ h.type = f.type /\ h.cb = f.cb /\ h.start = f.start
      /\ h.state_num = s /\ h.nums = nums /\ h.buffer = <<>> /\ h.field_idx = i
      /\ h.entry = f.entry /\ h.mark = f.mark
  BY DEF HeaderIs, SameParser
<1>2. h \in FrameType
  BY <1>1
<1>3. /\ g \in FrameType /\ g.type = h.type /\ g.cb = h.cb /\ g.start = h.start
      /\ g.state_num = t /\ g.nums = h.nums /\ g.buffer = h.buffer
      /\ g.field_idx = h.field_idx /\ g.entry = h.entry /\ g.mark = h.mark
  BY <1>2 DEF FrameType
<1>. QED
  BY <1>1, <1>3, Zenon DEF HeaderIs, SameParser

\* It counts an item.
LEMMA HeaderCount ==
  ASSUME NEW f, NEW h, NEW nums, NEW s, NEW i, HeaderIs(f, h, nums, s, i),
         NEW j \in Nat, NEW g, g = [h EXCEPT !.field_idx = j]
  PROVE  HeaderIs(f, g, nums, s, j)
<1>1. /\ h \in FrameType /\ h.type = f.type /\ h.cb = f.cb /\ h.start = f.start
      /\ h.state_num = s /\ h.nums = nums /\ h.buffer = <<>> /\ h.field_idx = i
      /\ h.entry = f.entry /\ h.mark = f.mark
  BY DEF HeaderIs, SameParser
<1>2. h \in FrameType
  BY <1>1
<1>3. /\ g \in FrameType /\ g.type = h.type /\ g.cb = h.cb /\ g.start = h.start
      /\ g.state_num = h.state_num /\ g.nums = h.nums /\ g.buffer = h.buffer
      /\ g.field_idx = j /\ g.entry = h.entry /\ g.mark = h.mark
  BY <1>2 DEF FrameType
<1>. QED
  BY <1>1, <1>3, Zenon DEF HeaderIs, SameParser

\* It does both.
LEMMA HeaderBoth ==
  ASSUME NEW f, NEW h, NEW nums, NEW s, NEW i, HeaderIs(f, h, nums, s, i),
         NEW t \in 0 .. 3, NEW j \in Nat, NEW g, g = [h EXCEPT !.state_num = t, !.field_idx = j]
  PROVE  HeaderIs(f, g, nums, t, j)
<1>1. /\ h \in FrameType /\ h.type = f.type /\ h.cb = f.cb /\ h.start = f.start
      /\ h.state_num = s /\ h.nums = nums /\ h.buffer = <<>> /\ h.field_idx = i
      /\ h.entry = f.entry /\ h.mark = f.mark
  BY DEF HeaderIs, SameParser
<1>2. h \in FrameType
  BY <1>1
<1>3. /\ g \in FrameType /\ g.type = h.type /\ g.cb = h.cb /\ g.start = h.start
      /\ g.state_num = t /\ g.nums = h.nums /\ g.buffer = h.buffer
      /\ g.field_idx = j /\ g.entry = h.entry /\ g.mark = h.mark
  BY <1>2 DEF FrameType
<1>. QED
  BY <1>1, <1>3, Zenon DEF HeaderIs, SameParser

\* An offset of a DynVec that is skipped.
LEMMA SkipRead ==
  ASSUME Inv, phase = "parsing", Types[Top.type].kind = "dynvec", Top.state_num = 2, Enough,
         NEW g, NEW s, NEW i, HeaderIs(Top, g, Top.nums, s, i),
         (s = 2 /\ i = Top.field_idx + 1) \/ s = 3
  PROVE  FrameInv(g, pos + Wanted, wire)
<1> DEFINE f == Top  q == pos + Wanted
<1>1. IsReading(f)
  BY DEF IsReading, HeaderEnd
<1>2. /\ f \in FrameType /\ FrameInv(f, pos, wire) /\ pos \in Nat
  BY TopFacts
<1>3. /\ f.entry \in Nat /\ f.start \in Nat /\ f.field_idx \in Nat
      /\ f.nums \in Seq(Num) /\ Len(f.nums) \in Nat
  <2> HIDE DEF f
  <2>. QED
    BY <1>2, FrameFields
<1>4. q \in Nat /\ pos <= q /\ q = NextAt(f) + NUM
  BY <1>1, NumberFacts
<1>5. NextAt(f) = f.entry + NUM * (f.field_idx + 1)
  BY DEF NextAt, NumbersRead
<1> HIDE DEF q
<1>6. /\ g \in FrameType /\ g.type = f.type /\ g.start = f.start /\ g.state_num = s
      /\ g.nums = f.nums /\ g.buffer = <<>> /\ g.field_idx = i /\ g.entry = f.entry
  BY Zenon DEF HeaderIs, SameParser
<1>7. /\ f.entry <= f.start /\ f.start <= pos
      /\ \A k \in DOMAIN f.nums :
           /\ f.entry + NUM * k <= pos
           /\ f.nums[k] = Unpack(Piece(wire, f.entry + NUM * (k - 1), f.entry + NUM * k))
  BY <1>2, Zenon DEF FrameInv
<1>8. Shape(g)
  <2>1. Len(f.nums) = 2
    BY <1>2 DEF FrameInv, Shape
  <2>2. Types[g.type].kind = "dynvec" /\ g.state_num \in {2, 3} /\ Len(g.nums) = 2
    BY <1>6, <2>1
  <2>. QED
    BY <2>2 DEF Shape
<1>9. g.start <= q
  BY <1>2, <1>3, <1>4, <1>6, <1>7
<1>10. \A k \in DOMAIN f.nums : f.entry + NUM * k <= q
  <2>1. ASSUME NEW k \in DOMAIN f.nums PROVE f.entry + NUM * k <= q
    <3>1. f.entry + NUM * k \in Int
      BY <1>3 DEF NUM
    <3>2. f.entry + NUM * k <= pos
      BY <1>7
    <3>. QED
      BY <1>2, <1>4, <3>1, <3>2
  <2>. QED
    BY <2>1
<1>11. ASSUME IsReading(g)
       PROVE  /\ NextAt(g) + Len(g.buffer) = q /\ g.buffer = Piece(wire, NextAt(g), q)
              /\ Len(g.buffer) <= Collects(g)
  <2>1. s = 2 /\ i = f.field_idx + 1
    BY <1>6, <1>11 DEF IsReading, HeaderEnd
  <2>2. NextAt(g) = f.entry + NUM * (f.field_idx + 1 + 1)
    BY <1>6, <2>1 DEF NextAt, NumbersRead
  <2>3. NextAt(g) = q
    BY <1>3, <1>4, <1>5, <2>2 DEF NUM
  <2>4. Piece(wire, q, q) = <<>> /\ Len(<<>>) = 0
    BY <1>4, PieceEmpty
  <2>5. Collects(g) = NUM
    BY <1>6 DEF Collects
  <2>. QED
    BY <1>4, <1>6, <2>3, <2>4, <2>5 DEF NUM
<1>12. FrameInv(g, q, wire)
  BY <1>6, <1>7, <1>8, <1>9, <1>10, <1>11, Zenon DEF FrameInv
<1>. QED
  BY <1>12 DEF q

\* The parser of a DynVec after an offset: the first is kept, the others are skipped.
LEMMA OffsetRead ==
  ASSUME Inv, DynVecOffset
  PROVE  LET read == IF Top.state_num = 1 THEN [Numbered EXCEPT !.field_idx = 1]
                     ELSE [Top EXCEPT !.buffer = <<>>, !.field_idx = @ + 1]
         IN \E nums \in Seq(Num), s \in 0 .. 3, i \in Nat :
              /\ Len(nums) = 2 /\ HeaderIs(Top, read, nums, s, i)
              /\ \A g, t, j : (t = 2 /\ j = i) \/ t = 3 =>
                   (HeaderIs(Top, g, nums, t, j) => FrameInv(g, pos + Wanted, wire))
<1> DEFINE f == Top
<1>1. /\ phase = "parsing" /\ Types[f.type].kind = "dynvec" /\ f.state_num \in {1, 2}
      /\ Enough
  BY DEF DynVecOffset, Is
<1>2. f \in FrameType /\ FrameInv(f, pos, wire)
  BY <1>1, TopFacts
<1>3. IsReading(f)
  BY <1>1 DEF IsReading, HeaderEnd
<1>4. f.nums \in Seq(Num) /\ Len(f.nums) \in Nat /\ f.field_idx \in Nat /\ f.field_idx + 1 \in Nat
  <2> HIDE DEF f
  <2>1. f.nums \in Seq(Num) /\ Len(f.nums) \in Nat /\ f.field_idx \in Nat
    BY <1>2, FrameFields
  <2>. QED
    BY <2>1
<1>5. Number \in Num
  BY <1>1, <1>3, NumberFacts
<1>6. CASE f.state_num = 1
  <2> DEFINE b == <<>>  nums == Append(f.nums, Number)  h == [f EXCEPT !.buffer = b, !.nums = nums]
             read == [h EXCEPT !.field_idx = 1]
  <2>1. [Numbered EXCEPT !.field_idx = 1] = read /\ b = <<>>
    BY Zenon DEF Numbered
  <2>2. Len(f.nums) = 1
    BY <1>1, <1>2, <1>6 DEF FrameInv, Shape
  <2>3. nums \in Seq(Num) /\ Len(nums) = 2
    <3>1. f.nums \in Seq(Num) /\ Len(f.nums) = 1
      BY <1>4, <2>2
    <3>2. ASSUME NEW l \in Seq(Num), Len(l) = 1, NEW n \in Num
          PROVE  Append(l, n) \in Seq(Num) /\ Len(Append(l, n)) = 2
      BY <3>2
    <3> HIDE DEF f
    <3>. QED
      BY <1>5, <3>1, <3>2, Zenon
  <2>4. HeaderIs(f, h, nums, 1, f.field_idx)
    <3> HIDE DEF f, nums, b
    <3>1. h = [f EXCEPT !.buffer = b, !.nums = nums]
      OBVIOUS
    <3> HIDE DEF h
    <3>2. HeaderIs(f, h, nums, f.state_num, f.field_idx)
      BY <1>2, <2>1, <2>3, <3>1, HeaderFrameSame, Zenon
    <3>. QED
      BY <1>6, <3>2
  <2>5. HeaderIs(f, read, nums, 1, 1)
    <3> HIDE DEF h, nums, f
    <3>1. 1 \in Nat /\ 1 \in 0 .. 3 /\ read = [h EXCEPT !.field_idx = 1]
      OBVIOUS
    <3> HIDE DEF read
    <3>. QED
      BY <2>4, <3>1, HeaderCount, Zenon
  <2>6. ASSUME NEW g, NEW t, NEW j, (t = 2 /\ j = 1) \/ t = 3, HeaderIs(f, g, nums, t, j)
        PROVE  FrameInv(g, pos + Wanted, wire)
    <3>1. /\ g \in FrameType /\ g.type = f.type /\ g.start = f.start /\ g.state_num = t
          /\ g.nums = nums /\ g.buffer = <<>> /\ g.field_idx = j /\ SameParser(f, g)
      BY <2>6, Zenon DEF HeaderIs
    <3> HIDE DEF f
    <3>2. Types[g.type].kind = "dynvec" /\ g.state_num \in {2, 3} /\ Len(g.nums) = 2
      BY <1>1, <2>3, <2>6, <3>1
    <3>3. Shape(g)
      BY <3>2 DEF Shape
    <3>4. NumbersRead(f) = Len(f.nums)
      BY <1>6 DEF NumbersRead
    <3>5. IsReading(g) => NumbersRead(g) = Len(g.nums)
      <4>1. g.state_num = 2 => NumbersRead(g) = Len(g.nums)
        BY <2>6, <3>1, <3>2 DEF NumbersRead
      <4>2. g.state_num = 3 => ~IsReading(g)
        BY <3>2 DEF IsReading, HeaderEnd
      <4>. QED
        BY <3>2, <4>1, <4>2
    <3> HIDE DEF nums
    <3>. QED
      BY <1>1, <1>3, <3>1, <3>3, <3>4, <3>5, HeaderRead DEF f, nums
  <2> HIDE DEF read
  <2>7. 1 \in 0 .. 3 /\ 1 \in Nat
    OBVIOUS
  <2> HIDE DEF nums
  <2>8. IF f.state_num = 1 THEN TRUE ELSE FALSE
    BY <1>6
  <2>. QED
    BY <1>6, <2>1, <2>3, <2>5, <2>6, <2>7, Zenon
<1>7. CASE f.state_num = 2
  <2> DEFINE b == <<>>  i == f.field_idx + 1  read == [f EXCEPT !.buffer = b, !.field_idx = i]
  <2>1. [Top EXCEPT !.buffer = <<>>, !.field_idx = @ + 1] = read /\ b \in Seq(Unit) /\ b = <<>>
    OBVIOUS
  <2>2. Len(f.nums) = 2
    BY <1>1, <1>2, <1>7 DEF FrameInv, Shape
  <2>3. HeaderIs(f, read, f.nums, 2, i)
    <3>1. i \in Nat
      BY <1>4
    <3> HIDE DEF b, i, f
    <3>2. /\ read \in FrameType /\ read.type = f.type /\ read.cb = f.cb
          /\ read.start = f.start /\ read.state_num = f.state_num /\ read.nums = f.nums
          /\ read.buffer = b /\ read.field_idx = i /\ read.entry = f.entry
          /\ read.mark = f.mark
      BY <1>2, <2>1, <3>1 DEF FrameType
    <3> HIDE DEF read
    <3>. QED
      BY <1>7, <2>1, <3>2 DEF HeaderIs, SameParser
  <2>4. ASSUME NEW g, NEW t, NEW j, (t = 2 /\ j = i) \/ t = 3, HeaderIs(f, g, f.nums, t, j)
        PROVE  FrameInv(g, pos + Wanted, wire)
    BY <1>1, <1>7, <2>4, SkipRead
  <2>5. 2 \in 0 .. 3 /\ i \in Nat /\ f.state_num # 1
    BY <1>4, <1>7
  <2> HIDE DEF read, i
  <2>. QED
    BY <1>4, <2>1, <2>2, <2>3, <2>4, <2>5, Zenon
<1>. QED
  BY <1>1, <1>6, <1>7

\* The offsets of a DynVec, and what the callbacks do when they are complete.
LEMMA DynVecOffsetInv == Inv /\ DynVecOffset => Inv'
<1> SUFFICES ASSUME Inv, DynVecOffset PROVE Inv' OBVIOUS
<1> DEFINE f == Top  q == pos + Wanted
           read == IF Top.state_num = 1 THEN [Numbered EXCEPT !.field_idx = 1]
                   ELSE [Top EXCEPT !.buffer = <<>>, !.field_idx = @ + 1]
           h == InitPart(sign, f, 1)
           d == Call(h, Callbacks[f.cb].length, <<Items(read)>>)
           e == Call(d, Callbacks[f.cb].index, <<0>>)
           more == [read EXCEPT !.state_num = 2]
           full == [read EXCEPT !.state_num = 3, !.field_idx = 0]
<1>1. /\ phase = "parsing" /\ Types[f.type].kind = "dynvec" /\ f.state_num \in {1, 2}
      /\ Enough
  BY DEF DynVecOffset, Is
<1>2. Continue(more, q, sign) \/ Continue(full, q, e)
  BY Zenon DEF DynVecOffset, Cb
<1>3. PICK nums \in Seq(Num), s \in 0 .. 3, i \in Nat :
        /\ Len(nums) = 2 /\ HeaderIs(f, read, nums, s, i)
        /\ \A g, t, j : (t = 2 /\ j = i) \/ t = 3 =>
             (HeaderIs(f, g, nums, t, j) => FrameInv(g, q, wire))
  BY OffsetRead
<1>4. f \in FrameType /\ sign \in SignType /\ <<f.type, f.cb>> \in Uses
  BY <1>1, TopFacts
<1>5. q \in Nat /\ pos <= q /\ q <= limit
  <2>1. IsReading(Top)
    BY <1>1 DEF IsReading, HeaderEnd
  <2>. QED
    BY <1>1, <2>1, NumberFacts
<1> HIDE DEF read, q
<1>6. HeaderIs(f, more, nums, 2, i)
  <2>1. 2 \in 0 .. 3 /\ 0 \in Nat /\ more = [read EXCEPT !.state_num = 2]
    OBVIOUS
  <2> HIDE DEF more, f
  <2>2. HeaderIs(f, read, nums, s, i)
    BY <1>3
  <2>. QED
    BY <2>1, <2>2, HeaderState, Zenon
<1>7. HeaderIs(f, full, nums, 3, 0)
  <2>1. 3 \in 0 .. 3 /\ 0 \in Nat /\ full = [read EXCEPT !.state_num = 3, !.field_idx = 0]
    OBVIOUS
  <2> HIDE DEF full, f
  <2>2. HeaderIs(f, read, nums, s, i)
    BY <1>3
  <2>. QED
    BY <2>1, <2>2, HeaderBoth, Zenon
<1> HIDE DEF more, full
<1>8. FrameInv(more, q, wire) /\ FrameInv(full, q, wire)
  BY <1>3, <1>6, <1>7, Zenon
<1>9. Items(read) \in Nat
  <2>1. nums[2] \in Int
    <3>1. nums[2] \in Num
      BY <1>3, ElementOfSeq
    <3>. QED
      BY <3>1, NumFacts
  <2>2. read.nums = nums
    BY <1>3 DEF HeaderIs
  <2>3. (nums[2] \div NUM) - 1 \in Int
    BY <2>1 DEF NUM
  <2>4. Items(read) = ((nums[2] \div NUM) - 1) % MOD
    BY <2>2 DEF Items
  <2> DEFINE n == (nums[2] \div NUM) - 1
  <2> HIDE DEF n
  <2>5. n % MOD \in Num
    BY <2>3, WrapType DEF n
  <2>6. n % MOD \in Nat
    BY <2>5, NumFacts
  <2>. QED
    BY <2>4, <2>6 DEF n
<1>10. h \in SignType /\ (Inside(f) => SameHashes(sign, h))
  BY <1>4, InitPartFacts
<1> HIDE DEF h
<1>11. d \in SignType /\ (Inside(f) => SameHashes(h, d))
  BY <1>4, <1>9, <1>10, NumberCallbacks
<1> HIDE DEF d
<1>12. e \in SignType /\ (Inside(f) => SameHashes(d, e))
  BY <1>4, <1>11, NumberCallbacks
<1> HIDE DEF e
<1>13. Inside(f) => SameHashes(sign, e)
  BY <1>10, <1>11, <1>12 DEF SameHashes
<1>14. CASE Continue(more, q, sign)
  <2>1. SameHashes(sign, sign)
    BY DEF SameHashes
  <2>2. more \in FrameType /\ SameParser(f, more) /\ more.start = f.start
    BY <1>6 DEF HeaderIs
  <2>3. /\ stack' = [stack EXCEPT ![Len(stack)] = more] /\ pos' = q /\ sign' = sign
        /\ phase' = phase /\ wire' = wire /\ limit' = limit
    BY <1>14 DEF Continue, Same
  <2>. QED
    BY <1>1, <1>4, <1>5, <1>8, <2>1, <2>2, <2>3, ContinueInv
<1>15. CASE Continue(full, q, e)
  <2>1. full \in FrameType /\ SameParser(f, full) /\ full.start = f.start
    BY <1>7 DEF HeaderIs
  <2>2. /\ stack' = [stack EXCEPT ![Len(stack)] = full] /\ pos' = q /\ sign' = e
        /\ phase' = phase /\ wire' = wire /\ limit' = limit
    BY <1>15 DEF Continue, Same
  <2>. QED
    BY <1>1, <1>5, <1>8, <1>12, <1>13, <2>1, <2>2, ContinueInv
<1>. QED
  BY <1>2, <1>14, <1>15

\* The items of a DynVec.
LEMMA DynVecItemInv == Inv /\ DynVecItem => Inv'
<1> SUFFICES ASSUME Inv, DynVecItem PROVE Inv' OBVIOUS
<1>1. /\ phase = "parsing" /\ Types[Top.type].kind = "dynvec" /\ Top.state_num = 3
      /\ CallPart(1, MOL_NUM_MAX) \/ Done(pos, sign)
  BY Zenon DEF DynVecItem, Is
<1>2. /\ <<Top.type, Top.cb>> \in Uses /\ sign \in SignType /\ pos \in Nat /\ pos <= limit
  BY <1>1, TopFacts
<1>3. CASE CallPart(1, MOL_NUM_MAX)
  <2>1. Waiting(Top)
    BY <1>1 DEF Waiting, Composite, IsReading, HeaderEnd
  <2>2. 1 \in DOMAIN Fields
    BY <1>1, <1>2, UseFacts DEF Fields
  <2>3. MOL_NUM_MAX \in Nat
    BY NumFacts
  <2>. QED
    BY <1>1, <1>3, <2>1, <2>2, <2>3, CallInv
<1>4. CASE Done(pos, sign)
  <2>1. SameHashes(sign, sign) /\ pos <= pos
    BY <1>2 DEF SameHashes
  <2>. QED
    BY <1>1, <1>2, <1>4, <2>1, DoneInv
<1>. QED
  BY <1>1, <1>3, <1>4

\* A step of the parser keeps the invariant.
LEMMA ParseStepInv == Inv /\ ParseStep => Inv'
BY CutInv, ParseFixedInv, ParseByteInv, ParseStructInv, ParseOptionInv, TableSizeInv,
   TableOffsetInv, TableFieldInv, FixVecLengthInv, FixVecItemInv, BytesLengthInv,
   BytesBodyInv, DynVecSizeInv, DynVecOffsetInv, DynVecItemInv, Zenon
DEF ParseStep

-----------------------------------------------------------------------------
(* handle_apdu *)

\* Before the parser has consumed anything.
Fresh ==
  /\ wire \in Seq(Unit) /\ pos = 0 /\ limit \in Nat /\ limit <= Len(wire)
  /\ phase \in {"idle", "parsing"} /\ stack = Outermost
  /\ sign \in SignType /\ SameHashes(Zeroed, sign)

\* The cleared state of apdu_sign.c.
LEMMA ZeroedType == Zeroed \in SignType
<1>1. <<>> \in Seq(Unit) /\ <<>> \in Seq(STRING \X Seq(Nat)) /\ 0 \in Num
  BY NumFacts
<1>. QED
  BY <1>1 DEF Zeroed, SignType

\* The invariant holds there.
LEMMA FreshInv == Fresh => Inv
<1> SUFFICES ASSUME Fresh PROVE Inv OBVIOUS
<1> DEFINE f == Frame("AnnotatedTransaction", "transaction", MOL_NUM_MAX, 0, Zeroed)
<1>1. <<"AnnotatedTransaction", "transaction">> \in Uses
  BY UsesAssumption
<1>2. /\ f \in FrameType /\ f.type = "AnnotatedTransaction" /\ f.cb = "transaction"
      /\ FrameInv(f, 0, wire) /\ Handed(f, Zeroed, wire)
  BY <1>1, ZeroedType, NumFacts, NewFrame
<1>3. stack = <<f>>
  BY DEF Fresh, Outermost
<1> HIDE DEF f
<1>4. SameParser(f, f)
  BY DEF SameParser
<1>5. Handed(f, sign, wire)
  BY <1>2, <1>4, HandedKeeps DEF Fresh
<1>6. /\ stack \in Seq(FrameType) /\ Len(stack) = 1 /\ DOMAIN stack = {1} /\ stack[1] = f
      /\ stack # <<>>
  BY <1>2, <1>3
<1>7. TypeOK
  <2>1. \A i \in DOMAIN stack : <<stack[i].type, stack[i].cb>> \in Uses
    BY <1>1, <1>2, <1>6
  <2>. QED
    BY <1>6, <2>1 DEF TypeOK, Fresh
<1>8. Alive /\ Beneath /\ Nested
  BY <1>6 DEF Alive, Beneath, Nested
<1>9. \A i \in DOMAIN stack : FrameInv(stack[i], pos, wire)
  BY <1>2, <1>6 DEF Fresh
<1>10. \A i \in DOMAIN stack : HasChunk(stack[i]) => Handed(stack[i], sign, wire)
  BY <1>5, <1>6
<1>. QED
  BY <1>7, <1>8, <1>9, <1>10 DEF Inv

\* After a step as before.
LEMMA FreshAgain == Fresh' => Inv'
BY FreshInv, PTL

\* clear_data begins anew.
LEMMA ClearedInv == Cleared => Inv'
<1> SUFFICES ASSUME Cleared PROVE Fresh'
  BY FreshAgain
<1>1. <<>> \in Seq(Unit) /\ Len(<<>>) = 0 /\ SameHashes(Zeroed, Zeroed)
  BY DEF SameHashes
<1>. QED
  BY <1>1, ZeroedType DEF Cleared, Fresh

\* So does the first chunk of a transaction.
LEMMA FirstChunkInv ==
  ASSUME NEW w \in Wires, NEW n \in Lens, FirstChunk(w, n)
  PROVE  Inv'
<1> SUFFICES Fresh'
  BY FreshAgain
<1>1. w \in Seq(Unit) /\ n \in Nat /\ Len(w) \in Nat
  BY WiresAssumption
<1>2. Least(n, Len(w)) \in Nat /\ Least(n, Len(w)) <= Len(w)
  BY <1>1 DEF Least
<1> DEFINE d == [Zeroed EXCEPT !.rejected = (w \in Rejected)]
<1>3. d \in SignType /\ SameHashes(Zeroed, d)
  <2>1. (w \in Rejected) \in BOOLEAN
    OBVIOUS
  <2>. QED
    BY <2>1, ZeroedType DEF SignType, SameHashes
<1> HIDE DEF d
<1>4. /\ wire' = w /\ pos' = 0 /\ limit' = Least(n, Len(w)) /\ phase' = "parsing"
      /\ stack' = Outermost /\ sign' = d
  BY DEF FirstChunk, d
<1>. QED
  BY <1>1, <1>2, <1>3, <1>4 DEF Fresh

\* The next chunk goes on where the last one ended.
LEMMA NextChunkInv ==
  ASSUME Inv, NEW n \in Lens, NextChunk(n)
  PROVE  Inv'
<1>1. CASE Cleared
  BY <1>1, ClearedInv
<1>2. CASE ~sign.hard_reject
  <2>1. /\ limit' = Least(pos + n, Len(wire)) /\ phase' = "parsing" /\ phase = "idle"
        /\ wire' = wire /\ pos' = pos /\ stack' = stack /\ sign' = sign
    BY <1>2 DEF NextChunk
  <2>2. n \in Nat /\ pos \in Nat /\ pos <= Len(wire) /\ Len(wire) \in Nat
    <3>1. /\ wire \in Seq(Unit) /\ pos \in Nat /\ limit \in Nat /\ pos <= limit
          /\ limit <= Len(wire)
      BY DEF Inv, TypeOK
    <3>2. n \in Nat
      BY WiresAssumption
    <3>. QED
      BY <3>1, <3>2
  <2>3. limit' \in Nat /\ pos <= limit' /\ limit' <= Len(wire)
    BY <2>1, <2>2 DEF Least
  <2>4. stack # <<>>
    BY <2>1 DEF Inv, Alive
  <2>5. TypeOK'
    BY <2>1, <2>3, <2>4 DEF Inv, TypeOK
  <2>6. Alive' /\ Beneath' /\ Nested'
    BY <2>1, <2>4, Zenon DEF Inv, Alive, Beneath, Nested
  <2>. QED
    BY <2>1, <2>5, <2>6, Zenon DEF Inv
<1>. QED
  BY <1>1, <1>2 DEF NextChunk

\* The end of a chunk leaves the parser where it is, or clears it.
LEMMA EndChunkInv ==
  ASSUME Inv, NEW last \in BOOLEAN, EndChunk(last)
  PROVE  Inv'
<1>1. CASE Cleared
  BY <1>1, ClearedInv
<1>2. CASE /\ phase' = "valid" \/ (phase' = "idle" /\ phase = "INCOMPLETE")
           /\ UNCHANGED <<wire, pos, limit, stack, sign>>
  <2>1. /\ wire' = wire /\ pos' = pos /\ limit' = limit /\ stack' = stack /\ sign' = sign
    BY <1>2
  <2>2. TypeOK'
    BY <1>2, <2>1 DEF Inv, TypeOK
  <2>3. phase' = "idle" => stack # <<>>
    BY <1>2 DEF Inv, Alive
  <2>4. Alive'
    BY <1>2, <2>1, <2>3 DEF Alive
  <2>5. Beneath' /\ Nested'
    BY <2>1, Zenon DEF Inv, Beneath, Nested
  <2>. QED
    BY <2>1, <2>2, <2>4, <2>5, Zenon DEF Inv
<1>. QED
  BY <1>1, <1>2, Zenon DEF EndChunk

-----------------------------------------------------------------------------
(* The theorems *)

\* The invariant holds of every behaviour.
THEOREM InvCorrect == Spec => []Inv
<1>1. Init => Inv
  <2> SUFFICES ASSUME Init PROVE Fresh
    BY FreshInv
  <2>1. <<>> \in Seq(Unit) /\ Len(<<>>) = 0 /\ SameHashes(Zeroed, Zeroed)
    BY DEF SameHashes
  <2>. QED
    BY <2>1, ZeroedType DEF Init, Fresh
<1>2. Inv /\ [Next]_vars => Inv'
  <2> SUFFICES ASSUME Inv, [Next]_vars PROVE Inv' OBVIOUS
  <2>1. CASE ParseStep
    BY <2>1, ParseStepInv
  <2>2. ASSUME NEW w \in Wires, NEW n \in Lens, FirstChunk(w, n) PROVE Inv'
    BY <2>2, FirstChunkInv
  <2>3. ASSUME NEW n \in Lens, NextChunk(n) PROVE Inv'
    BY <2>3, NextChunkInv
  <2>4. ASSUME NEW last \in BOOLEAN, EndChunk(last) PROVE Inv'
    BY <2>4, EndChunkInv
  <2>5. CASE Answered
    BY <2>5, ClearedInv DEF Answered
  <2>6. CASE UNCHANGED vars
    <3>1. /\ wire' = wire /\ pos' = pos /\ limit' = limit /\ phase' = phase
          /\ stack' = stack /\ sign' = sign
      BY <2>6 DEF vars
    <3>2. TypeOK'
      BY <3>1 DEF Inv, TypeOK
    <3>3. Alive' /\ Beneath' /\ Nested'
      BY <3>1, Zenon DEF Inv, Alive, Beneath, Nested
    <3>. QED
      BY <3>1, <3>2, <3>3, Zenon DEF Inv
  <2>. QED
    BY <2>1, <2>2, <2>3, <2>4, <2>5, <2>6, Zenon DEF Next
<1>. QED
  BY <1>1, <1>2, PTL DEF Spec

\* Every variable keeps its type and the parser never runs without a state
\* (mol_parse_bytes never reads behind the chunk, nor a chunk behind what was sent).
THEOREM TypeCorrect == Spec => []TypeOK
<1>1. Inv => TypeOK
  BY DEF Inv
<1>. QED
  BY <1>1, InvCorrect, PTL

\* For any types and any chunks, the numbers in the headers (mol_parse_bytes,
\* MOL_CALL_NUM) are those received at their places, and what is collected of the next
\* one is all that came since.
THEOREM NumbersCorrect == Spec => []NumbersAsReceived
<1>1. Inv => NumbersAsReceived
  <2> SUFFICES ASSUME Inv, NEW i \in DOMAIN stack
               PROVE  LET f == stack[i]
                          At(k) == f.entry + NUM * k
                      IN /\ \A k \in DOMAIN f.nums :
                              f.nums[k] = Unpack(Slice(At(k - 1), At(k)))
                         /\ f.buffer = IF i = Len(stack) /\ IsReading(f)
                                       THEN Slice(At(NumbersRead(f)), pos) ELSE <<>>
    BY DEF NumbersAsReceived
  <2> DEFINE f == stack[i]
  <2>1. FrameInv(f, pos, wire)
    BY Zenon DEF Inv
  <2>2. \A k \in DOMAIN f.nums :
          f.nums[k] = Unpack(Slice(f.entry + NUM * (k - 1), f.entry + NUM * k))
    BY <2>1, Zenon DEF FrameInv, Slice, Piece
  <2>3. f.buffer = IF IsReading(f) THEN Slice(NextAt(f), pos) ELSE <<>>
    BY <2>1, Zenon DEF FrameInv, Slice, Piece
  <2>4. i # Len(stack) => ~IsReading(f)
    <3>1. stack \in Seq(FrameType)
      BY DEF Inv, TypeOK
    <3>2. i # Len(stack) => i < Len(stack)
      BY <3>1
    <3>. QED
      BY <3>2, Zenon DEF Inv, Beneath, Waiting
  <2>. QED
    BY <2>2, <2>3, <2>4, Zenon DEF NextAt
<1>. QED
  BY <1>1, InvCorrect, PTL

\* For any types, tables and chunks, the chunk callback (MOL_CALL_SUBPARSER, DONE) of a
\* parser has been given all that the parser consumed, each unit once and in order, and
\* nothing else has got into that hash.
THEOREM ChunksCorrect == Spec => []ChunksCoverReceived
<1>1. Inv => ChunksCoverReceived
  <2> SUFFICES ASSUME Inv, NEW i \in DOMAIN stack, Callbacks[stack[i].cb].chunk # "NULL"
               PROVE  HashedBy(stack[i]) = Slice(stack[i].entry, stack[i].start)
    BY DEF ChunksCoverReceived
  <2>1. Handed(stack[i], sign, wire)
    BY Zenon DEF Inv, HasChunk
  <2>. QED
    BY <2>1, Zenon DEF Handed, HashedBy, Stream, Slice, Piece
<1>. QED
  BY <1>1, InvCorrect, PTL

-----------------------------------------------------------------------------
(* The number of inputs *)

\* The types and the tables of the application.
Application == Types = TransactionTypes /\ Callbacks = SignCallbacks

\* The callbacks that the count of sources and the announced number come from.
Counting == {"finish_context_txn", "set_input_count"}

\* The state of apdu_sign.c as what a callback can change.
Recorded(d) ==
  /\ DOMAIN d = DOMAIN Zeroed
  /\ \E C : d.heard \in Seq(C)

\* What is counted stays, and a refusal is not taken back.
Keeps(d, e) ==
  /\ SourcesHashed(e) = SourcesHashed(d)
  /\ e.input_count = d.input_count
  /\ d.hard_reject => e.hard_reject

\* The number announced is the number of sources hashed, or will be refused.
Settled(d) == SourcesHashed(d) \in {0, d.input_count} \/ d.hard_reject

\* Which part a parser is at, and that it has called the parser of that part.
Part(f) == IF Types[f.type].kind \in {"struct", "table"} THEN f.field_idx + 1 ELSE 1
Linked(f, g) ==
  /\ Part(f) \in DOMAIN Types[f.type].fields
  /\ g.type = Types[f.type].fields[Part(f)] /\ g.cb = Sub(f.cb, Part(f))

\* The tables on the way to a source transaction are used for one type each.
Named(f) ==
  /\ f.cb = "transaction" => f.type = "AnnotatedTransaction"
  /\ f.cb = "raw" => f.type = "AnnotatedRawTransaction"
  /\ f.cb = "inputs" => f.type = "AnnotatedCellInputVec"
  /\ f.cb = "input" => f.type = "AnnotatedCellInput"
  /\ f.cb = "source" => f.type = "RawTransaction"
  /\ f.cb = "inputCount" => f.type = "Uint32"

\* The parsers on the stack are those of parts of parts of a transaction.
Lineage(st) ==
  /\ \A i \in DOMAIN st : Named(st[i])
  /\ \A i \in DOMAIN st : st[i].cb = "transaction" <=> i = 1
  /\ \A i \in DOMAIN st : i > 1 => Linked(st[i - 1], st[i])

\* Before the inputs none is counted, after them all of them; between, those that the
\* vector has counted and the one at hand if its source is hashed.
CountsAt(st, i, d) ==
  LET f == st[i]
      top == i = Len(st)
      n == SourcesHashed(d)
  IN /\ f.cb \in {"transaction", "raw"} =>
          /\ f.field_idx < 3 \/ (f.field_idx = 3 /\ top) => n = 0
          /\ f.field_idx > 3 => Settled(d)
     /\ f.cb = "inputs" =>
          /\ f.state_num < 3 => n = 0
          /\ f.state_num = 3 =>
               /\ d.hard_reject \/ d.input_count = Items(f)
               /\ IF top THEN n = f.field_idx /\ f.field_idx <= Items(f)
                  ELSE f.field_idx < Items(f)
     /\ f.cb = "input" =>
          /\ f.field_idx <= 2
          /\ n = st[i - 1].field_idx + (IF f.field_idx = 2 THEN 1 ELSE 0)

\* A transaction is valid only when its parser has returned and the count was right.
Ended ==
  /\ phase \in {"COMPLETE", "valid"} => stack = <<>>
  /\ phase = "valid" => ~sign.hard_reject

Tallied(st, d) ==
  /\ Recorded(d) /\ Lineage(st)
  /\ \A i \in DOMAIN st : CountsAt(st, i, d)
  /\ st = <<>> => Settled(d)

CountInv == Tallied(stack, sign) /\ Ended

\* The sources in what was heard.
SourcesIn(h) == {i \in DOMAIN h : h[i][1] = "finish_context_txn"}

\* The sources heard are finitely many, and their number is a natural one.
LEMMA SourcesFinite ==
  ASSUME NEW C, NEW h \in Seq(C)
  PROVE  IsFiniteSet(SourcesIn(h)) /\ Cardinality(SourcesIn(h)) \in Nat
<1>1. IsFiniteSet(1 .. Len(h)) /\ SourcesIn(h) \in SUBSET (1 .. Len(h))
  BY FS_Interval DEF SourcesIn
<1>2. IsFiniteSet(SourcesIn(h))
  BY <1>1, FS_Subset
<1>. QED
  BY <1>2, FS_CardinalityType

\* One callback more.
LEMMA SourcesAppend ==
  ASSUME NEW C, NEW h \in Seq(C), NEW c, NEW x
  PROVE  LET t == Append(h, <<c, x>>)
         IN /\ \E B : t \in Seq(B)
            /\ Cardinality(SourcesIn(t)) =
                 Cardinality(SourcesIn(h)) + (IF c = "finish_context_txn" THEN 1 ELSE 0)
<1> DEFINE B == C \cup {<<c, x>>}  t == Append(h, <<c, x>>)  n == Len(h) + 1
<1>1. h \in Seq(B) /\ <<c, x>> \in B
  BY SeqMonotonic, Zenon
<1> HIDE DEF B
<1>2. /\ t \in Seq(B) /\ Len(t) = n /\ n \in Nat /\ t[n] = <<c, x>>
      /\ \A i \in 1 .. Len(h) : t[i] = h[i]
  BY <1>1
<1>3. DOMAIN h = 1 .. Len(h) /\ DOMAIN t = 1 .. n /\ DOMAIN t = DOMAIN h \cup {n} /\ n \notin DOMAIN h
  BY <1>1, <1>2
<1> HIDE DEF t
<1>4. t[n][1] = c
  BY <1>2
<1>5. IsFiniteSet(SourcesIn(h)) /\ Cardinality(SourcesIn(h)) \in Nat
  BY SourcesFinite
<1>6. CASE c = "finish_context_txn"
  <2>1. SourcesIn(t) = SourcesIn(h) \cup {n}
    BY <1>2, <1>3, <1>4, <1>6 DEF SourcesIn
  <2>2. n \notin SourcesIn(h)
    BY <1>3 DEF SourcesIn
  <2>3. Cardinality(SourcesIn(t)) = Cardinality(SourcesIn(h)) + 1
    BY <1>5, <2>1, <2>2, FS_AddElement
  <2>. QED
    BY <1>2, <1>6, <2>3, Zenon DEF t
<1>7. CASE c # "finish_context_txn"
  <2>1. SourcesIn(t) = SourcesIn(h)
    BY <1>2, <1>3, <1>4, <1>7 DEF SourcesIn
  <2>2. Cardinality(SourcesIn(t)) = Cardinality(SourcesIn(h)) + 0
    BY <1>5, <2>1
  <2>. QED
    BY <1>2, <1>7, <2>2, Zenon DEF t
<1>. QED
  BY <1>6, <1>7

\* One callback with more of its argument.
LEMMA SourcesSame ==
  ASSUME NEW C, NEW h \in Seq(C), NEW n \in DOMAIN h, NEW x
  PROVE  LET t == [h EXCEPT ![n] = <<h[n][1], x>>]
         IN (\E B : t \in Seq(B)) /\ SourcesIn(t) = SourcesIn(h)
<1> DEFINE e == <<h[n][1], x>>  B == C \cup {e}  t == [h EXCEPT ![n] = e]
<1>1. h \in Seq(B) /\ e \in B
  BY SeqMonotonic, Zenon
<1>2. e[1] = h[n][1]
  OBVIOUS
<1> HIDE DEF B, e
<1>3. t \in Seq(B) /\ DOMAIN t = DOMAIN h /\ t[n] = e /\ \A i \in DOMAIN h : i # n => t[i] = h[i]
  BY <1>1, ExceptSeq
<1> HIDE DEF t
<1>4. SourcesIn(t) = SourcesIn(h)
  BY <1>2, <1>3 DEF SourcesIn
<1>. QED
  BY <1>3, <1>4, Zenon DEF t, e

\* The state is cleared.
LEMMA ZeroedRecorded ==
  ASSUME NEW b
  PROVE  LET d == [Zeroed EXCEPT !.rejected = b]
         IN /\ Recorded(Zeroed) /\ SourcesHashed(Zeroed) = 0
            /\ Recorded(d) /\ SourcesHashed(d) = 0
<1> DEFINE d == [Zeroed EXCEPT !.rejected = b]
<1>1. Zeroed.heard = <<>> /\ d.heard = <<>> /\ DOMAIN d = DOMAIN Zeroed
  BY DEF Zeroed
<1>2. <<>> \in Seq({}) /\ DOMAIN <<>> = {}
  OBVIOUS
<1>3. Cardinality({i \in {} : <<>>[i][1] = "finish_context_txn"}) = 0
  <2>1. {i \in {} : <<>>[i][1] = "finish_context_txn"} = {}
    OBVIOUS
  <2>. QED
    BY <2>1, FS_EmptySet, Zenon
<1> HIDE DEF d
<1>4. Recorded(Zeroed) /\ Recorded(d)
  BY <1>1, <1>2, Zenon DEF Recorded
<1>5. SourcesHashed(Zeroed) = 0 /\ SourcesHashed(d) = 0
  BY <1>1, <1>2, <1>3, Zenon DEF SourcesHashed
<1>. QED
  BY <1>4, <1>5, Zenon DEF d

\* What a callback does to the announced number and to the refusal.
LEMMA EffectTally ==
  ASSUME NEW d, Recorded(d), NEW c, NEW arg
  PROVE  LET e == Effect(d, c, arg)
         IN /\ Recorded(e) /\ e.heard = d.heard
            /\ c # "set_input_count" => e.input_count = d.input_count
            /\ d.hard_reject => e.hard_reject
            /\ c = "blake2b_input_count" => e.hard_reject \/ e.input_count = arg[1]
<1> DEFINE e == Effect(d, c, arg)
           Result == /\ DOMAIN e = DOMAIN d /\ e.heard = d.heard
                     /\ c # "set_input_count" => e.input_count = d.input_count
                     /\ d.hard_reject => e.hard_reject
                     /\ c = "blake2b_input_count" => e.hard_reject \/ e.input_count = arg[1]
<1>1. DOMAIN d = {"hash_state", "context", "index", "input_count", "active", "hard_reject",
                  "unsafe", "rejected", "transaction_hash", "heard"}
  BY DEF Recorded, Zeroed
<1>2. Result
  <2>1. CASE c = "blake2b_chunk"
    <3>1. e = blake2b_chunk(d, arg)
      BY <2>1 DEF Effect
    <3> HIDE DEF e
    <3>. QED
      BY <1>1, <2>1, <3>1 DEF blake2b_chunk
  <2>2. CASE c = "context_blake2b_chunk"
    <3>1. e = context_blake2b_chunk(d, arg)
      BY <2>2 DEF Effect
    <3> HIDE DEF e
    <3>. QED
      BY <1>1, <2>2, <3>1 DEF context_blake2b_chunk
  <2>3. CASE c = "bip32_component"
    <3>1. e = bip32_component(d, arg)
      BY <2>3 DEF Effect
    <3> HIDE DEF e
    <3>. QED
      BY <1>1, <2>3, <3>1 DEF bip32_component
  <2>4. CASE c = "set_input_count"
    <3>1. e = set_input_count(d, arg)
      BY <2>4 DEF Effect
    <3> HIDE DEF e
    <3>. QED
      BY <1>1, <2>4, <3>1 DEF set_input_count
  <2>5. CASE c = "input_start"
    <3>1. e = input_start(d)
      BY <2>5 DEF Effect
    <3> HIDE DEF e
    <3>. QED
      BY <1>1, <2>5, <3>1 DEF input_start
  <2>6. CASE c = "input_save_index"
    <3>1. e = input_save_index(d, arg)
      BY <2>6 DEF Effect
    <3> HIDE DEF e
    <3>. QED
      BY <1>1, <2>6, <3>1 DEF input_save_index
  <2>7. CASE c = "input_context_start_idx"
    <3>1. e = input_context_start_idx(d, arg[1])
      BY <2>7 DEF Effect
    <3> HIDE DEF e
    <3>. QED
      BY <1>1, <2>7, <3>1 DEF input_context_start_idx
  <2>8. CASE c = "finish_context_txn"
    <3>1. e = finish_context_txn(d)
      BY <2>8 DEF Effect
    <3> HIDE DEF e
    <3>. QED
      BY <1>1, <2>8, <3>1 DEF finish_context_txn
  <2>9. CASE c = "finish_inputs"
    <3>1. e = finish_inputs(d)
      BY <2>9 DEF Effect
    <3> HIDE DEF e
    <3>. QED
      BY <1>1, <2>9, <3>1 DEF finish_inputs
  <2>10. CASE c = "output_start"
    <3>1. e = output_start(d)
      BY <2>10 DEF Effect
    <3> HIDE DEF e
    <3>. QED
      BY <1>1, <2>10, <3>1 DEF output_start
  <2>11. CASE c = "blake2b_input_count"
    <3>1. e = blake2b_input_count(d, arg[1])
      BY <2>11 DEF Effect
    <3> HIDE DEF e
    <3>. QED
      BY <1>1, <2>11, <3>1 DEF blake2b_input_count
  <2>12. CASE c = "computeNewOffsetsToHash"
    <3>1. e = computeNewOffsetsToHash(d, arg)
      BY <2>12 DEF Effect
    <3> HIDE DEF e
    <3>. QED
      BY <1>1, <2>12, <3>1 DEF computeNewOffsetsToHash
  <2>13. CASE c = "finalize_raw_transaction"
    <3>1. e = finalize_raw_transaction(d)
      BY <2>13 DEF Effect
    <3> HIDE DEF e
    <3>. QED
      BY <1>1, <2>13, <3>1 DEF finalize_raw_transaction
  <2>14. CASE c \notin {"blake2b_chunk", "context_blake2b_chunk", "bip32_component",
                        "set_input_count", "input_start", "input_save_index",
                        "input_context_start_idx", "finish_context_txn", "finish_inputs",
                        "output_start", "blake2b_input_count", "computeNewOffsetsToHash",
                        "finalize_raw_transaction"}
    <3>1. e = d
      BY <2>14 DEF Effect
    <3> HIDE DEF e
    <3>. QED
      BY <2>14, <3>1
  <2> HIDE DEF Result
  <2>. QED
    BY <2>1, <2>2, <2>3, <2>4, <2>5, <2>6, <2>7, <2>8, <2>9, <2>10, <2>11, <2>12, <2>13, <2>14
<1> HIDE DEF e
<1>. QED
  BY <1>2, Zenon DEF Recorded, e

\* A callback is heard, and counted if it ends a source.
LEMMA HeardTally ==
  ASSUME NEW d, Recorded(d), NEW c, NEW arg
  PROVE  LET e == Heard(d, c, arg)
         IN /\ Recorded(e)
            /\ e.input_count = d.input_count /\ e.hard_reject = d.hard_reject
            /\ c # "finish_context_txn" => SourcesHashed(e) = SourcesHashed(d)
            /\ c = "finish_context_txn" => SourcesHashed(e) = SourcesHashed(d) + 1
<1> DEFINE n == Len(d.heard)
           more == c \in Piecewise /\ n > 0 /\ d.heard[n][1] = c
           quiet == (c \in Guarded /\ ~d.active) \/ (c \in Piecewise /\ arg = <<>>)
           e == Heard(d, c, arg)
<1>1. PICK C : d.heard \in Seq(C)
  BY DEF Recorded
<1>2. "heard" \in DOMAIN d /\ DOMAIN d = DOMAIN Zeroed
  BY DEF Recorded, Zeroed
<1>3. c = "finish_context_txn" => ~quiet /\ ~more
  BY DEF Guarded, Piecewise
<1>4. CASE quiet
  BY <1>3, <1>4, Zenon DEF Heard
<1>5. CASE ~quiet /\ more
  <2> DEFINE x == d.heard[n][2] \o arg  t == [d.heard EXCEPT ![n] = <<d.heard[n][1], x>>]
  <2>1. e = [d EXCEPT !.heard = t]
    BY <1>2, <1>5 DEF Heard
  <2>2. n \in DOMAIN d.heard
    BY <1>1, <1>5
  <2>3. (\E B : t \in Seq(B)) /\ SourcesIn(t) = SourcesIn(d.heard)
    <3> HIDE DEF x, n
    <3>. QED
      BY <1>1, <2>2, SourcesSame, Zenon
  <2> HIDE DEF t
  <2>4. e.heard = t /\ DOMAIN e = DOMAIN d /\ e.input_count = d.input_count
        /\ e.hard_reject = d.hard_reject
    <3> HIDE DEF e
    <3>. QED
      BY <1>2, <2>1
  <2>5. SourcesHashed(e) = SourcesHashed(d)
    <3> HIDE DEF e
    <3>. QED
      BY <2>3, <2>4, Zenon DEF SourcesHashed, SourcesIn
  <2>6. Recorded(e)
    <3> HIDE DEF e
    <3>. QED
      BY <1>2, <2>3, <2>4, Zenon DEF Recorded
  <2>. QED
    BY <1>3, <1>5, <2>4, <2>5, <2>6, Zenon
<1>6. CASE ~quiet /\ ~more
  <2> DEFINE t == Append(d.heard, <<c, arg>>)
  <2>1. e = [d EXCEPT !.heard = t]
    BY <1>6 DEF Heard
  <2>2. (\E B : t \in Seq(B))
        /\ Cardinality(SourcesIn(t)) =
             Cardinality(SourcesIn(d.heard)) + (IF c = "finish_context_txn" THEN 1 ELSE 0)
    BY <1>1, SourcesAppend, Zenon
  <2>3. Cardinality(SourcesIn(d.heard)) \in Nat
    BY <1>1, SourcesFinite, Zenon
  <2> HIDE DEF t
  <2>4. e.heard = t /\ DOMAIN e = DOMAIN d /\ e.input_count = d.input_count
        /\ e.hard_reject = d.hard_reject
    <3> HIDE DEF e
    <3>. QED
      BY <1>2, <2>1
  <2>5. SourcesHashed(e) = Cardinality(SourcesIn(t))
        /\ SourcesHashed(d) = Cardinality(SourcesIn(d.heard))
    <3> HIDE DEF e
    <3>. QED
      BY <2>4, Zenon DEF SourcesHashed, SourcesIn
  <2>6. Recorded(e)
    <3> HIDE DEF e
    <3>. QED
      BY <1>2, <2>2, <2>4, Zenon DEF Recorded
  <2>7. /\ c # "finish_context_txn" => SourcesHashed(e) = SourcesHashed(d)
        /\ c = "finish_context_txn" => SourcesHashed(e) = SourcesHashed(d) + 1
    <3> HIDE DEF e
    <3>. QED
      BY <2>2, <2>3, <2>5
  <2>. QED
    BY <2>4, <2>6, <2>7, Zenon
<1>. QED
  BY <1>4, <1>5, <1>6, Zenon

\* What is counted stays over two steps.
LEMMA KeepsAgain ==
  ASSUME NEW d, NEW e, NEW g, Keeps(d, e), Keeps(e, g)
  PROVE  Keeps(d, g)
BY DEF Keeps

\* A callback that only hashes, or none.
LEMMA EffectKeeps ==
  ASSUME NEW d, Recorded(d), NEW c, c # "set_input_count", NEW arg
  PROVE  Recorded(Effect(d, c, arg)) /\ Keeps(d, Effect(d, c, arg))
<1> DEFINE e == Effect(d, c, arg)
<1>1. Recorded(e) /\ e.heard = d.heard /\ e.input_count = d.input_count
      /\ (d.hard_reject => e.hard_reject)
  BY EffectTally, Zenon
<1> HIDE DEF e
<1>2. SourcesHashed(e) = SourcesHashed(d)
  BY <1>1, Zenon DEF SourcesHashed
<1>. QED
  BY <1>1, <1>2, Zenon DEF Keeps, e

\* What a callback does to the numbers that are compared.
LEMMA CallTally ==
  ASSUME NEW d, Recorded(d), NEW c, NEW arg
  PROVE  LET e == Call(d, c, arg)
         IN /\ Recorded(e) /\ (d.hard_reject => e.hard_reject)
            /\ c \notin Counting => Keeps(d, e)
            /\ c = "finish_context_txn" => /\ e.input_count = d.input_count
                                           /\ SourcesHashed(e) = SourcesHashed(d) + 1
            /\ c = "set_input_count" => SourcesHashed(e) = SourcesHashed(d)
            /\ c = "blake2b_input_count" => e.hard_reject \/ e.input_count = arg[1]
<1> DEFINE g == Effect(d, c, arg)
           h == Heard(g, c, arg)
<1>1. CASE c = "NULL"
  BY <1>1, Zenon DEF Call, Keeps, Counting
<1>2. CASE c # "NULL"
  <2>1. /\ Recorded(g) /\ g.heard = d.heard
        /\ c # "set_input_count" => g.input_count = d.input_count
        /\ d.hard_reject => g.hard_reject
        /\ c = "blake2b_input_count" => g.hard_reject \/ g.input_count = arg[1]
    BY EffectTally, Zenon
  <2>2. SourcesHashed(g) = SourcesHashed(d)
    <3> HIDE DEF g
    <3>. QED
      BY <2>1, Zenon DEF SourcesHashed
  <2>3. Call(d, c, arg) = h
    BY <1>2, Zenon DEF Call
  <2> HIDE DEF g
  <2>4. /\ Recorded(h)
        /\ h.input_count = g.input_count /\ h.hard_reject = g.hard_reject
        /\ c # "finish_context_txn" => SourcesHashed(h) = SourcesHashed(g)
        /\ c = "finish_context_txn" => SourcesHashed(h) = SourcesHashed(g) + 1
    BY <2>1, HeardTally, Zenon
  <2> HIDE DEF h
  <2>5. c \notin Counting => Keeps(d, h)
    BY <2>1, <2>2, <2>4 DEF Keeps, Counting
  <2>6. c = "finish_context_txn" => h.input_count = d.input_count
                                    /\ SourcesHashed(h) = SourcesHashed(d) + 1
    BY <2>1, <2>2, <2>4
  <2>7. /\ d.hard_reject => h.hard_reject
        /\ c = "set_input_count" => SourcesHashed(h) = SourcesHashed(d)
        /\ c = "blake2b_input_count" => h.hard_reject \/ h.input_count = arg[1]
    BY <2>1, <2>2, <2>4
  <2>. QED
    BY <2>3, <2>4, <2>5, <2>6, <2>7, Zenon
<1>. QED
  BY <1>1, <1>2, Zenon

-----------------------------------------------------------------------------
(* The tables of the application *)

\* Where the callbacks stand that count, and which table is used for which part.
TableIs(c, cb) ==
  /\ {cb.start, cb.size, cb.offsets, cb.length, cb.index, cb.body_chunk} \cap Counting = {}
  /\ cb.end = "finish_context_txn" <=> c = "source"
  /\ cb.end = "set_input_count" <=> c = "inputCount"
  /\ c = "inputs" => cb.length = "blake2b_input_count"
  /\ \A k \in DOMAIN cb.sub :
       /\ cb.sub[k] # "transaction"
       /\ cb.sub[k] = "raw" <=> c = "transaction" /\ k = 4
       /\ cb.sub[k] = "inputCount" <=> c = "transaction" /\ k = 3
       /\ cb.sub[k] = "inputs" <=> c = "raw" /\ k = 4
       /\ cb.sub[k] = "input" <=> c = "inputs" /\ k = 1
       /\ cb.sub[k] = "source" <=> c = "input" /\ k = 2
  /\ c = "transaction" => Len(cb.sub) = 5
  /\ c = "raw" => Len(cb.sub) = 6
  /\ c = "inputs" => Len(cb.sub) = 1
  /\ c = "input" => Len(cb.sub) = 2

\* The tables for an input and its source.
LEMMA InputTables == \A c \in DOMAIN InputCallbacks : TableIs(c, InputCallbacks[c])
<1>1. TableIs("input", [Parts(<<"cell_input", "source">>) EXCEPT !.start = "input_start"])
  BY DEF TableIs, Counting, NoCallbacks, End, Body, SizeOnly, Parts, Hashed
<1>2. TableIs("cell_input", Parts(<<"since", "previous_output">>))
  BY DEF TableIs, Counting, NoCallbacks, End, Body, SizeOnly, Parts, Hashed
<1>3. TableIs("since", End("blake2b_chunk"))
  BY DEF TableIs, Counting, NoCallbacks, End, Body, SizeOnly, Parts, Hashed
<1>4. TableIs("previous_output", Parts(<<"NULL", "index">>))
  BY DEF TableIs, Counting, NoCallbacks, End, Body, SizeOnly, Parts, Hashed
<1>5. TableIs("index", End("input_save_index"))
  BY DEF TableIs, Counting, NoCallbacks, End, Body, SizeOnly, Parts, Hashed
<1>6. TableIs("source", [Parts(<<"NULL", "NULL", "NULL", "NULL", "source_outputs", "source_data">>)
               EXCEPT !.chunk = "context_blake2b_chunk", !.end = "finish_context_txn"])
  BY DEF TableIs, Counting, NoCallbacks, End, Body, SizeOnly, Parts, Hashed
<1>7. TableIs("source_outputs", [Parts(<<"source_output">>)
               EXCEPT !.index = "input_context_start_idx"])
  BY DEF TableIs, Counting, NoCallbacks, End, Body, SizeOnly, Parts, Hashed
<1>8. TableIs("source_output", Parts(<<"capacity", "source_lock", "type_opt">>))
  BY DEF TableIs, Counting, NoCallbacks, End, Body, SizeOnly, Parts, Hashed
<1>9. TableIs("source_lock", [Parts(<<"lock_code_hash", "hash_type", "source_args">>)
               EXCEPT !.end = "input_lock_arg_end"])
  BY DEF TableIs, Counting, NoCallbacks, End, Body, SizeOnly, Parts, Hashed
<1>10. TableIs("source_args", Body("script_arg_start_input", "script_arg_chunk"))
  BY DEF TableIs, Counting, NoCallbacks, End, Body, SizeOnly, Parts, Hashed
<1>11. TableIs("source_data", [Parts(<<"source_datum">>)
               EXCEPT !.index = "input_context_start_idx"])
  BY DEF TableIs, Counting, NoCallbacks, End, Body, SizeOnly, Parts, Hashed
<1>12. TableIs("source_datum", [Body("NULL", "check_cell_data_data_chunk")
               EXCEPT !.size = "set_cell_data_size", !.end = "finish_input_cell_data"])
  BY DEF TableIs, Counting, NoCallbacks, End, Body, SizeOnly, Parts, Hashed
<1>. QED
  BY <1>1, <1>2, <1>3, <1>4, <1>5, <1>6, <1>7, <1>8, <1>9, <1>10, <1>11, <1>12 DEF InputCallbacks

\* The tables for the rest of a raw transaction.
LEMMA OutputTables == \A c \in DOMAIN OutputCallbacks : TableIs(c, OutputCallbacks[c])
<1>1. TableIs("capacity", End("cell_capacity"))
  BY DEF TableIs, Counting, NoCallbacks, End, Body, SizeOnly, Parts, Hashed
<1>2. TableIs("lock_code_hash", End("cell_lock_code_hash"))
  BY DEF TableIs, Counting, NoCallbacks, End, Body, SizeOnly, Parts, Hashed
<1>3. TableIs("hash_type", End("cell_script_hash_type"))
  BY DEF TableIs, Counting, NoCallbacks, End, Body, SizeOnly, Parts, Hashed
<1>4. TableIs("type_opt", Parts(<<"type_script">>))
  BY DEF TableIs, Counting, NoCallbacks, End, Body, SizeOnly, Parts, Hashed
<1>5. TableIs("type_script", Parts(<<"type_code_hash", "hash_type", "type_args">>))
  BY DEF TableIs, Counting, NoCallbacks, End, Body, SizeOnly, Parts, Hashed
<1>6. TableIs("type_code_hash", End("cell_type_code_hash"))
  BY DEF TableIs, Counting, NoCallbacks, End, Body, SizeOnly, Parts, Hashed
<1>7. TableIs("type_args", SizeOnly("cell_type_arg_length"))
  BY DEF TableIs, Counting, NoCallbacks, End, Body, SizeOnly, Parts, Hashed
<1>8. TableIs("raw", [Parts(<<"version", "copied", "copied", "inputs", "outputs", "data">>)
               EXCEPT !.offsets = "computeNewOffsetsToHash", !.end = "finalize_raw_transaction"])
  BY DEF TableIs, Counting, NoCallbacks, End, Body, SizeOnly, Parts, Hashed
<1>9. TableIs("version", End("blake2b_chunk"))
  BY DEF TableIs, Counting, NoCallbacks, End, Body, SizeOnly, Parts, Hashed
<1>10. TableIs("copied", Hashed(<<>>))
  BY DEF TableIs, Counting, NoCallbacks, End, Body, SizeOnly, Parts, Hashed
<1>11. TableIs("inputs", [Parts(<<"input">>)
               EXCEPT !.start = "inputs_start", !.length = "blake2b_input_count", !.end = "finish_inputs"])
  BY DEF TableIs, Counting, NoCallbacks, End, Body, SizeOnly, Parts, Hashed
<1>12. TableIs("outputs", [Hashed(<<"output">>)
               EXCEPT !.index = "output_start", !.end = "outputs_end"])
  BY DEF TableIs, Counting, NoCallbacks, End, Body, SizeOnly, Parts, Hashed
<1>13. TableIs("output", [Parts(<<"capacity", "lock", "type_opt">>)
               EXCEPT !.end = "output_end"])
  BY DEF TableIs, Counting, NoCallbacks, End, Body, SizeOnly, Parts, Hashed
<1>14. TableIs("lock", Parts(<<"lock_code_hash", "hash_type", "args">>))
  BY DEF TableIs, Counting, NoCallbacks, End, Body, SizeOnly, Parts, Hashed
<1>15. TableIs("args", Body("NULL", "script_arg_chunk"))
  BY DEF TableIs, Counting, NoCallbacks, End, Body, SizeOnly, Parts, Hashed
<1>16. TableIs("data", [Hashed(<<"datum">>) EXCEPT !.index = "validate_output_data_start"])
  BY DEF TableIs, Counting, NoCallbacks, End, Body, SizeOnly, Parts, Hashed
<1>17. TableIs("datum", [Body("NULL", "check_cell_data_data_chunk")
               EXCEPT !.size = "set_cell_data_size", !.end = "finish_output_cell_data"])
  BY DEF TableIs, Counting, NoCallbacks, End, Body, SizeOnly, Parts, Hashed
<1>. QED
  BY <1>1, <1>2, <1>3, <1>4, <1>5, <1>6, <1>7, <1>8, <1>9, <1>10, <1>11, <1>12, <1>13,
     <1>14, <1>15, <1>16, <1>17 DEF OutputCallbacks

\* The tables for the annotations.
LEMMA TopTables == \A c \in DOMAIN TopCallbacks : TableIs(c, TopCallbacks[c])
<1>1. TableIs("NULL", NoCallbacks)
  BY DEF TableIs, Counting, NoCallbacks, End, Body, SizeOnly, Parts, Hashed
<1>2. TableIs("transaction", Parts(<<"signPath", "changePath", "inputCount", "raw", "witnesses">>))
  BY DEF TableIs, Counting, NoCallbacks, End, Body, SizeOnly, Parts, Hashed
<1>3. TableIs("signPath", [Parts(<<"component">>)
               EXCEPT !.size = "init_bip32", !.end = "set_sign_path"])
  BY DEF TableIs, Counting, NoCallbacks, End, Body, SizeOnly, Parts, Hashed
<1>4. TableIs("changePath", [Parts(<<"component">>)
               EXCEPT !.size = "init_bip32", !.end = "set_change_path"])
  BY DEF TableIs, Counting, NoCallbacks, End, Body, SizeOnly, Parts, Hashed
<1>5. TableIs("component", End("bip32_component"))
  BY DEF TableIs, Counting, NoCallbacks, End, Body, SizeOnly, Parts, Hashed
<1>6. TableIs("inputCount", End("set_input_count"))
  BY DEF TableIs, Counting, NoCallbacks, End, Body, SizeOnly, Parts, Hashed
<1>7. TableIs("witnesses", [Parts(<<"witness">>)
               EXCEPT !.index = "begin_witness", !.end = "finalize_witnesses"])
  BY DEF TableIs, Counting, NoCallbacks, End, Body, SizeOnly, Parts, Hashed
<1>8. TableIs("witness", [Body("NULL", "process_witness")
               EXCEPT !.size = "hash_witness_length", !.end = "process_witness_end"])
  BY DEF TableIs, Counting, NoCallbacks, End, Body, SizeOnly, Parts, Hashed
<1>. QED
  BY <1>1, <1>2, <1>3, <1>4, <1>5, <1>6, <1>7, <1>8 DEF TopCallbacks

\* All of them.
LEMMA Tables ==
  ASSUME Application, NEW c \in DOMAIN Callbacks
  PROVE  TableIs(c, Callbacks[c])
<1> DEFINE A == DOMAIN InputCallbacks
           B == DOMAIN OutputCallbacks
           C == DOMAIN TopCallbacks
<1>1. Callbacks = [x \in A \cup B \cup C |->
                     IF x \in A THEN InputCallbacks[x]
                     ELSE IF x \in B THEN OutputCallbacks[x] ELSE TopCallbacks[x]]
  BY DEF Application, SignCallbacks
<1>2. /\ c \in A => TableIs(c, InputCallbacks[c])
      /\ c \in B => TableIs(c, OutputCallbacks[c])
      /\ c \in C => TableIs(c, TopCallbacks[c])
  BY InputTables, OutputTables, TopTables, Zenon
<1> HIDE DEF A, B, C
<1>3. c \in A \cup B \cup C
  BY <1>1
<1>4. CASE c \in A
  <2>1. Callbacks[c] = InputCallbacks[c]
    BY <1>1, <1>3, <1>4
  <2>. QED
    BY <1>2, <1>4, <2>1, Zenon
<1>5. CASE c \notin A /\ c \in B
  <2>1. Callbacks[c] = OutputCallbacks[c]
    BY <1>1, <1>3, <1>5
  <2>. QED
    BY <1>2, <1>5, <2>1, Zenon
<1>6. CASE c \notin A /\ c \notin B
  <2>1. Callbacks[c] = TopCallbacks[c]
    BY <1>1, <1>3, <1>6
  <2>. QED
    BY <1>2, <1>3, <1>6, <2>1, Zenon
<1>. QED
  BY <1>4, <1>5, <1>6, Zenon

\* The types on the way to a source transaction.
WayTypes ==
  /\ Types["AnnotatedTransaction"].kind = "table"
  /\ Len(Types["AnnotatedTransaction"].fields) = 5
  /\ Types["AnnotatedTransaction"].fields[3] = "Uint32"
  /\ Types["AnnotatedTransaction"].fields[4] = "AnnotatedRawTransaction"
  /\ Types["AnnotatedRawTransaction"].kind = "table"
  /\ Len(Types["AnnotatedRawTransaction"].fields) = 6
  /\ Types["AnnotatedRawTransaction"].fields[4] = "AnnotatedCellInputVec"
  /\ Types["AnnotatedCellInputVec"].kind = "dynvec"
  /\ Len(Types["AnnotatedCellInputVec"].fields) = 1
  /\ Types["AnnotatedCellInputVec"].fields[1] = "AnnotatedCellInput"
  /\ Types["AnnotatedCellInput"].kind = "table"
  /\ Len(Types["AnnotatedCellInput"].fields) = 2
  /\ Types["AnnotatedCellInput"].fields[2] = "RawTransaction"
  /\ Types["RawTransaction"].kind = "table"
  /\ Types["Uint32"].kind = "fixed"

\* What the types on the way to a source transaction consist of.
LEMMA WayFacts == Application => WayTypes
<1>. SUFFICES ASSUME Types = TransactionTypes PROVE WayTypes
  BY DEF Application
<1>1. /\ Types["AnnotatedTransaction"] = AnnotatedTransaction
      /\ Types["AnnotatedRawTransaction"] = AnnotatedRawTransaction
      /\ Types["AnnotatedCellInputVec"] = AnnotatedCellInputVec
      /\ Types["AnnotatedCellInput"] = AnnotatedCellInput
      /\ Types["RawTransaction"] = RawTransaction
      /\ Types["Uint32"] = Uint32
  BY DEF TransactionTypes
<1>2. AnnotatedTransaction.kind = "table" /\ Len(AnnotatedTransaction.fields) = 5
      /\ AnnotatedTransaction.fields[3] = "Uint32"
      /\ AnnotatedTransaction.fields[4] = "AnnotatedRawTransaction"
  BY DEF AnnotatedTransaction, Table
<1>3. AnnotatedRawTransaction.kind = "table" /\ Len(AnnotatedRawTransaction.fields) = 6
      /\ AnnotatedRawTransaction.fields[4] = "AnnotatedCellInputVec"
  BY DEF AnnotatedRawTransaction, Table
<1>4. AnnotatedCellInputVec.kind = "dynvec" /\ Len(AnnotatedCellInputVec.fields) = 1
      /\ AnnotatedCellInputVec.fields[1] = "AnnotatedCellInput"
  BY DEF AnnotatedCellInputVec, DynVec
<1>5. AnnotatedCellInput.kind = "table" /\ Len(AnnotatedCellInput.fields) = 2
      /\ AnnotatedCellInput.fields[2] = "RawTransaction"
  BY DEF AnnotatedCellInput, Table
<1>6. RawTransaction.kind = "table" /\ Uint32.kind = "fixed"
  BY DEF RawTransaction, Table, Uint32, Fixed
<1>. QED
  BY <1>1, <1>2, <1>3, <1>4, <1>5, <1>6, Zenon DEF WayTypes

-----------------------------------------------------------------------------
(* Where the parsers stand *)

\* The parser of a part of a parser on the stack.
PlaceIs(f, g) ==
  /\ g.cb # "transaction"
  /\ g.cb = "inputCount" <=> f.cb = "transaction" /\ f.field_idx = 2
  /\ g.cb = "raw" <=> f.cb = "transaction" /\ f.field_idx = 3
  /\ g.cb = "inputs" <=> f.cb = "raw" /\ f.field_idx = 3
  /\ g.cb = "input" <=> f.cb = "inputs"
  /\ g.cb = "source" <=> f.cb = "input" /\ f.field_idx = 1

\* Which parts of which callback tables have the tables on the way to a source.
LEMMA SubFacts ==
  ASSUME Application, NEW c \in DOMAIN Callbacks, NEW k \in Nat
  PROVE  /\ Sub(c, k) # "transaction"
         /\ Sub(c, k) = "inputCount" <=> c = "transaction" /\ k = 3
         /\ Sub(c, k) = "raw" <=> c = "transaction" /\ k = 4
         /\ Sub(c, k) = "inputs" <=> c = "raw" /\ k = 4
         /\ Sub(c, k) = "input" <=> c = "inputs" /\ k = 1
         /\ Sub(c, k) = "source" <=> c = "input" /\ k = 2
<1> DEFINE s == Callbacks[c].sub
<1>1. TableIs(c, Callbacks[c])
  BY Tables
<1>2. s \in Seq(DOMAIN Callbacks)
  BY CallbacksAssumption
<1>3. Sub(c, k) = IF k \in DOMAIN s THEN s[k] ELSE "NULL"
  BY DEF Sub
<1>4. /\ \A j \in DOMAIN s :
           /\ s[j] # "transaction"
           /\ s[j] = "raw" <=> c = "transaction" /\ j = 4
           /\ s[j] = "inputCount" <=> c = "transaction" /\ j = 3
           /\ s[j] = "inputs" <=> c = "raw" /\ j = 4
           /\ s[j] = "input" <=> c = "inputs" /\ j = 1
           /\ s[j] = "source" <=> c = "input" /\ j = 2
      /\ c = "transaction" => Len(s) = 5
      /\ c = "raw" => Len(s) = 6
      /\ c = "inputs" => Len(s) = 1
      /\ c = "input" => Len(s) = 2
  BY <1>1, Zenon DEF TableIs
<1> HIDE DEF s
<1>5. DOMAIN s = 1 .. Len(s) /\ Len(s) \in Nat
  BY <1>2
<1>6. CASE k \in DOMAIN s
  BY <1>3, <1>4, <1>6
<1>7. CASE k \notin DOMAIN s
  BY <1>3, <1>4, <1>5, <1>7
<1>. QED
  BY <1>6, <1>7, Zenon

\* The table that a called parser uses tells its caller's, and the part the caller is at.
LEMMA PlaceFacts ==
  ASSUME Application, NEW f \in FrameType, NEW g \in FrameType, Named(f), Linked(f, g)
  PROVE  Named(g) /\ PlaceIs(f, g)
<1> DEFINE k == Part(f)  T(t) == Types[t]
<1>1. WayTypes
  BY WayFacts
<1>2. /\ f.cb \in DOMAIN Callbacks /\ f.type \in DOMAIN Types /\ f.field_idx \in Nat
      /\ g.cb = Sub(f.cb, k) /\ g.type = Types[f.type].fields[k]
  BY FrameFields DEF Linked
<1>3. k \in Nat
  BY <1>2 DEF Part
<1>4. /\ f.cb = "transaction" => f.type = "AnnotatedTransaction" /\ k = f.field_idx + 1
      /\ f.cb = "raw" => f.type = "AnnotatedRawTransaction" /\ k = f.field_idx + 1
      /\ f.cb = "inputs" => f.type = "AnnotatedCellInputVec" /\ k = 1
      /\ f.cb = "input" => f.type = "AnnotatedCellInput" /\ k = f.field_idx + 1
  <2>1. /\ Types[f.type].kind = "table" => k = f.field_idx + 1
        /\ Types[f.type].kind = "dynvec" => k = 1
    BY DEF Part
  <2> HIDE DEF k
  <2>2. /\ f.cb = "transaction" => f.type = "AnnotatedTransaction"
        /\ f.cb = "raw" => f.type = "AnnotatedRawTransaction"
        /\ f.cb = "inputs" => f.type = "AnnotatedCellInputVec"
        /\ f.cb = "input" => f.type = "AnnotatedCellInput"
    BY DEF Named
  <2>. QED
    BY <1>1, <2>1, <2>2, Zenon DEF WayTypes
<1> HIDE DEF k
<1>5. /\ Sub(f.cb, k) # "transaction"
      /\ Sub(f.cb, k) = "inputCount" <=> f.cb = "transaction" /\ k = 3
      /\ Sub(f.cb, k) = "raw" <=> f.cb = "transaction" /\ k = 4
      /\ Sub(f.cb, k) = "inputs" <=> f.cb = "raw" /\ k = 4
      /\ Sub(f.cb, k) = "input" <=> f.cb = "inputs" /\ k = 1
      /\ Sub(f.cb, k) = "source" <=> f.cb = "input" /\ k = 2
  BY <1>2, <1>3, SubFacts
<1>6. k = f.field_idx + 1 =>
        /\ k = 3 <=> f.field_idx = 2
        /\ k = 4 <=> f.field_idx = 3
        /\ k = 2 <=> f.field_idx = 1
  BY <1>2
<1>7. PlaceIs(f, g)
  <2>. QED
    BY <1>2, <1>4, <1>5, <1>6 DEF PlaceIs
<1>8. Named(g)
  BY <1>1, <1>2, <1>4, <1>5, Zenon DEF WayTypes, Named
<1>. QED
  BY <1>7, <1>8

\* The parser under another one is of the part that comes before in the nesting.
LEMMA BelowFacts ==
  ASSUME Application, NEW st \in Seq(FrameType), Lineage(st), NEW i \in DOMAIN st, i > 1
  PROVE  /\ i - 1 \in DOMAIN st /\ Linked(st[i - 1], st[i])
         /\ Named(st[i - 1]) /\ Named(st[i]) /\ PlaceIs(st[i - 1], st[i])
<1>1. DOMAIN st = 1 .. Len(st) /\ i \in Nat /\ i - 1 \in DOMAIN st
  OBVIOUS
<1>2. st[i] \in FrameType /\ st[i - 1] \in FrameType
  BY <1>1, ElementOfSeq
<1>3. Linked(st[i - 1], st[i]) /\ Named(st[i - 1]) /\ Named(st[i])
  BY <1>1 DEF Lineage
<1>. QED
  BY <1>1, <1>2, <1>3, PlaceFacts

\* How deep the parsers lie that lead to a source, and how far those around them are.
LEMMA Depths ==
  ASSUME Application, NEW st \in Seq(FrameType), Lineage(st), NEW i \in DOMAIN st
  PROVE  /\ st[i].cb = "transaction" <=> i = 1
         /\ st[i].cb = "inputCount" => i = 2 /\ st[1].field_idx = 2
         /\ st[i].cb = "raw" => i = 2 /\ st[1].field_idx = 3
         /\ st[i].cb = "inputs" =>
              i = 3 /\ st[1].field_idx = 3 /\ st[2].cb = "raw" /\ st[2].field_idx = 3
         /\ st[i].cb = "input" =>
              /\ i = 4 /\ st[1].field_idx = 3 /\ st[2].cb = "raw" /\ st[2].field_idx = 3
              /\ st[3].cb = "inputs"
         /\ st[i].cb = "source" =>
              /\ i = 5 /\ st[1].field_idx = 3 /\ st[2].cb = "raw" /\ st[2].field_idx = 3
              /\ st[3].cb = "inputs" /\ st[4].cb = "input" /\ st[4].field_idx = 1
<1>1. /\ DOMAIN st = 1 .. Len(st) /\ Len(st) \in Nat
      /\ \A j \in DOMAIN st : j \in Nat /\ (st[j].cb = "transaction" <=> j = 1)
  BY DEF Lineage
<1>2. ASSUME NEW j \in DOMAIN st, j > 1 PROVE j - 1 \in DOMAIN st /\ PlaceIs(st[j - 1], st[j])
  BY <1>2, BelowFacts, Zenon
<1>3. ASSUME NEW j \in DOMAIN st
      PROVE  /\ st[j].cb = "inputCount" => j = 2 /\ st[1].field_idx = 2
             /\ st[j].cb = "raw" => j = 2 /\ st[1].field_idx = 3
  <2>1. CASE j = 1
    BY <1>1, <2>1
  <2>2. CASE j > 1
    <3>1. j - 1 \in DOMAIN st /\ PlaceIs(st[j - 1], st[j])
      BY <1>2, <2>2
    <3>2. st[j - 1].cb = "transaction" <=> j - 1 = 1
      BY <1>1, <3>1
    <3>. QED
      BY <1>1, <2>2, <3>1, <3>2 DEF PlaceIs
  <2>. QED
    BY <1>1, <2>1, <2>2
<1>4. ASSUME NEW j \in DOMAIN st, st[j].cb = "inputs"
      PROVE  j = 3 /\ st[1].field_idx = 3 /\ st[2].cb = "raw" /\ st[2].field_idx = 3
  <2>1. j > 1
    BY <1>1, <1>4
  <2>2. j - 1 \in DOMAIN st /\ st[j - 1].cb = "raw" /\ st[j - 1].field_idx = 3
    BY <1>2, <1>4, <2>1 DEF PlaceIs
  <2>3. j - 1 = 2 /\ st[1].field_idx = 3
    BY <1>3, <2>2
  <2>4. j = 3
    BY <1>1, <2>3
  <2>. QED
    BY <2>2, <2>3, <2>4
<1>5. ASSUME NEW j \in DOMAIN st, st[j].cb = "input"
      PROVE  /\ j = 4 /\ st[1].field_idx = 3 /\ st[2].cb = "raw" /\ st[2].field_idx = 3
             /\ st[3].cb = "inputs"
  <2>1. j > 1
    BY <1>1, <1>5
  <2>2. j - 1 \in DOMAIN st /\ st[j - 1].cb = "inputs"
    BY <1>2, <1>5, <2>1 DEF PlaceIs
  <2>3. j - 1 = 3 /\ st[1].field_idx = 3 /\ st[2].cb = "raw" /\ st[2].field_idx = 3
    BY <1>4, <2>2
  <2>4. j = 4
    BY <1>1, <2>3
  <2>. QED
    BY <2>2, <2>3, <2>4
<1>6. ASSUME NEW j \in DOMAIN st, st[j].cb = "source"
      PROVE  /\ j = 5 /\ st[1].field_idx = 3 /\ st[2].cb = "raw" /\ st[2].field_idx = 3
             /\ st[3].cb = "inputs" /\ st[4].cb = "input" /\ st[4].field_idx = 1
  <2>1. j > 1
    BY <1>1, <1>6
  <2>2. j - 1 \in DOMAIN st /\ st[j - 1].cb = "input" /\ st[j - 1].field_idx = 1
    BY <1>2, <1>6, <2>1 DEF PlaceIs
  <2>3. /\ j - 1 = 4 /\ st[1].field_idx = 3 /\ st[2].cb = "raw" /\ st[2].field_idx = 3
        /\ st[3].cb = "inputs"
    BY <1>5, <2>2
  <2>4. j = 5
    BY <1>1, <2>3
  <2>. QED
    BY <2>2, <2>3, <2>4
<1>. QED
  BY <1>1, <1>3, <1>4, <1>5, <1>6

\* The number is a natural number.
LEMMA HashedType == ASSUME NEW d, Recorded(d) PROVE SourcesHashed(d) \in Nat
<1>1. PICK C : d.heard \in Seq(C)
  BY DEF Recorded
<1>2. Cardinality(SourcesIn(d.heard)) \in Nat
  BY <1>1, SourcesFinite, Zenon
<1>. QED
  BY <1>2, Zenon DEF SourcesHashed, SourcesIn

\* A count that was right stays right while nothing is counted.
LEMMA SettledKeeps ==
  ASSUME NEW d, NEW e, Keeps(d, e), Settled(d) PROVE Settled(e)
BY DEF Keeps, Settled

-----------------------------------------------------------------------------
(* How the count comes through a step *)

\* Frames that count the same.
Alike(f, g) ==
  /\ g.type = f.type /\ g.cb = f.cb
  /\ g.field_idx = f.field_idx /\ g.state_num = f.state_num /\ g.nums = f.nums

\* What Items tells of frames that are alike.
LEMMA AlikeItems == ASSUME NEW f, NEW g, Alike(f, g) PROVE Items(g) = Items(f)
BY Zenon DEF Alike, Items

\* A parser stays where it is, and those beneath it too.
LEMMA CountKeeps ==
  ASSUME NEW st, NEW st2, NEW d, NEW e, NEW i,
         Len(st2) = Len(st), Alike(st[i], st2[i]),
         st[i].cb = "input" => Alike(st[i - 1], st2[i - 1]),
         Keeps(d, e), CountsAt(st, i, d)
  PROVE  CountsAt(st2, i, e)
<1>1. Items(st2[i]) = Items(st[i])
  BY AlikeItems, Zenon
<1>2. Settled(d) => Settled(e)
  BY SettledKeeps
<1>. QED
  BY <1>1, <1>2, Zenon DEF CountsAt, Alike, Keeps

\* A link depends on the types, the tables and the part that the caller is at.
LEMMA LinkedAlike ==
  ASSUME NEW f, NEW g, NEW f2, NEW g2, Linked(f, g),
         f2.type = f.type, f2.cb = f.cb, f2.field_idx = f.field_idx,
         g2.type = g.type, g2.cb = g.cb
  PROVE  Linked(f2, g2)
<1>1. Part(f2) = Part(f)
  BY DEF Part
<1>. QED
  BY <1>1, Zenon DEF Linked

\* The parser at the top goes on, and what is below stays.
MovesTo(st, st2, f) ==
  /\ st2 \in Seq(FrameType) /\ Len(st2) = Len(st)
  /\ \A i \in DOMAIN st : i # Len(st) => Alike(st[i], st2[i])
  /\ st2[Len(st)] = f
  /\ f.type = st[Len(st)].type /\ f.cb = st[Len(st)].cb

\* A step of the parser at the top keeps the tally if it does so at the top.
LEMMA MoveTally ==
  ASSUME Application, NEW st \in Seq(FrameType), st # <<>>, NEW st2, NEW f, MovesTo(st, st2, f),
         NEW d, NEW e, Tallied(st, d), Recorded(e), Keeps(d, e), CountsAt(st2, Len(st), e)
  PROVE  Tallied(st2, e)
<1> DEFINE n == Len(st)
<1>1. /\ n \in Nat /\ n > 0 /\ DOMAIN st = 1 .. n /\ DOMAIN st2 = 1 .. n /\ st2 # <<>>
      /\ Len(st2) = n /\ n \in DOMAIN st
  BY DEF MovesTo
<1>2. ASSUME NEW i \in DOMAIN st PROVE st2[i].type = st[i].type /\ st2[i].cb = st[i].cb
  BY <1>2, Zenon DEF MovesTo, Alike
<1>3. ASSUME NEW i \in DOMAIN st, i # n PROVE Alike(st[i], st2[i])
  BY <1>3, Zenon DEF MovesTo
<1>4. Lineage(st2)
  <2>1. Lineage(st)
    BY DEF Tallied
  <2>2. ASSUME NEW i \in DOMAIN st PROVE Named(st2[i]) /\ (st2[i].cb = "transaction" <=> i = 1)
    BY <1>2, <2>1, <2>2, Zenon DEF Lineage, Named
  <2>3. ASSUME NEW i \in DOMAIN st, i > 1 PROVE Linked(st2[i - 1], st2[i])
    <3>1. i - 1 \in DOMAIN st /\ i - 1 # n
      BY <1>1, <2>3
    <3>2. Linked(st[i - 1], st[i])
      BY <2>1, <2>3, Zenon DEF Lineage
    <3>3. Alike(st[i - 1], st2[i - 1])
      BY <1>3, <3>1
    <3>4. /\ st2[i - 1].type = st[i - 1].type /\ st2[i - 1].cb = st[i - 1].cb
          /\ st2[i - 1].field_idx = st[i - 1].field_idx
          /\ st2[i].type = st[i].type /\ st2[i].cb = st[i].cb
      BY <1>2, <2>3, <3>3, Zenon DEF Alike
    <3>. QED
      BY <3>2, <3>4, LinkedAlike, ZenonT(30)
  <2>. QED
    BY <1>1, <2>2, <2>3, Zenon DEF Lineage
<1>5. ASSUME NEW i \in DOMAIN st PROVE CountsAt(st2, i, e)
  <2>1. CASE i = n
    BY <2>1
  <2>2. CASE i # n
    <3>1. Lineage(st) /\ CountsAt(st, i, d)
      BY DEF Tallied
    <3>2. st[i].cb = "input" => i - 1 \in DOMAIN st /\ i - 1 # n
      BY <1>1, <3>1, Depths
    <3>3. st[i].cb = "input" => Alike(st[i - 1], st2[i - 1])
      BY <1>3, <3>2
    <3>4. Alike(st[i], st2[i]) /\ Len(st2) = Len(st)
      BY <1>1, <1>3, <2>2
    <3>. QED
      BY <3>1, <3>3, <3>4, CountKeeps, Zenon
  <2>. QED
    BY <2>1, <2>2
<1>. QED
  BY <1>1, <1>4, <1>5, Zenon DEF Tallied

\* It goes on within the same part, unless it is a vector that reads its offsets.
LEMMA StayTally ==
  ASSUME Application, NEW st \in Seq(FrameType), st # <<>>, NEW st2, NEW f, MovesTo(st, st2, f),
         NEW d, NEW e, Tallied(st, d), Recorded(e), Keeps(d, e),
         f.cb \in {"transaction", "raw", "input"} => f.field_idx = st[Len(st)].field_idx,
         f.cb = "inputs" => Alike(st[Len(st)], f)
  PROVE  Tallied(st2, e)
<1> DEFINE n == Len(st)
<1>1. /\ n \in Nat /\ n \in DOMAIN st /\ Len(st2) = n /\ st2[n] = f
      /\ f.type = st[n].type /\ f.cb = st[n].cb
  BY DEF MovesTo
<1>2. Lineage(st) /\ CountsAt(st, n, d)
  BY <1>1, Zenon DEF Tallied
<1>3. CountsAt(st2, n, e)
  <2>1. CASE f.cb = "inputs"
    <3>1. Alike(st[n], st2[n])
      BY <1>1, <2>1
    <3>2. st[n].cb # "input"
      BY <1>1, <2>1
    <3>. QED
      BY <1>1, <1>2, <3>1, <3>2, CountKeeps, Zenon
  <2>2. CASE f.cb \in {"transaction", "raw"}
    <3>1. Settled(d) => Settled(e)
      BY SettledKeeps
    <3>. QED
      BY <1>1, <1>2, <2>2, <3>1 DEF CountsAt, Keeps
  <2>3. CASE f.cb = "input"
    <3>1. n - 1 \in DOMAIN st /\ n - 1 # n
      <4>1. st[n].cb = "input"
        BY <1>1, <2>3, Zenon
      <4>2. n = 4
        BY <1>1, <1>2, <4>1, Depths
      <4>. QED
        BY <1>1, <4>2
    <3>2. st2[n - 1].field_idx = st[n - 1].field_idx
      BY <3>1, Zenon DEF MovesTo, Alike
    <3>. QED
      BY <1>1, <1>2, <2>3, <3>2 DEF CountsAt, Keeps
  <2>4. CASE f.cb \notin {"transaction", "raw", "inputs", "input"}
    BY <1>1, <2>4 DEF CountsAt
  <2>. QED
    BY <2>1, <2>2, <2>3, <2>4
<1>. QED
  BY <1>3, MoveTally

\* The parser at the top calls that of a part.
LEMMA PushTally ==
  ASSUME Application, NEW st \in Seq(FrameType), st # <<>>, NEW d, Tallied(st, d),
         NEW g \in FrameType, Linked(st[Len(st)], g), g.field_idx = 0, g.state_num = 0,
         st[Len(st)].cb = "inputs" =>
           st[Len(st)].state_num = 3 /\ st[Len(st)].field_idx < Items(st[Len(st)])
  PROVE  Tallied(Append(st, g), d)
<1> DEFINE n == Len(st)  f == st[n]  st2 == Append(st, g)
<1>1. /\ n \in Nat /\ n > 0 /\ DOMAIN st = 1 .. n /\ n \in DOMAIN st
      /\ st2 \in Seq(FrameType) /\ Len(st2) = n + 1 /\ DOMAIN st2 = 1 .. n + 1
      /\ st2[n + 1] = g /\ \A i \in DOMAIN st : st2[i] = st[i]
  OBVIOUS
<1>0. n # Len(st2)
  <2>1. Len(st2) = n + 1 /\ n \in Nat
    BY <1>1, Zenon
  <2> HIDE DEF n, st2
  <2>. QED
    BY <2>1
<1>2. Lineage(st) /\ Recorded(d) /\ \A i \in DOMAIN st : CountsAt(st, i, d)
  BY Zenon DEF Tallied
<1>3. f \in FrameType /\ Named(f)
  BY <1>1, <1>2, ElementOfSeq DEF Lineage
<1>4. Named(g) /\ PlaceIs(f, g)
  BY <1>3, PlaceFacts, Zenon
<1>5. Linked(f, g)
  OBVIOUS
<1>6. f.cb = "inputs" => f.state_num = 3 /\ f.field_idx < Items(f)
  OBVIOUS
<1>7. CountsAt(st, n, d)
  BY <1>1, <1>2
<1>8. st2[n] = f
  BY <1>1
<1>9. SourcesHashed(d) \in Nat
  BY <1>2, HashedType
<1> HIDE DEF f, st2
<1>10. Lineage(st2)
  <2>1. ASSUME NEW i \in 1 .. n PROVE Named(st2[i]) /\ (st2[i].cb = "transaction" <=> i = 1)
    BY <1>1, <1>2, <2>1, Zenon DEF Lineage
  <2>2. Named(st2[n + 1]) /\ (st2[n + 1].cb = "transaction" <=> n + 1 = 1)
    BY <1>1, <1>4 DEF PlaceIs
  <2>3. ASSUME NEW i \in 1 .. n, i > 1 PROVE Linked(st2[i - 1], st2[i])
    <3>1. i - 1 \in DOMAIN st /\ i \in DOMAIN st
      BY <1>1, <2>3
    <3>2. Linked(st[i - 1], st[i])
      BY <1>2, <2>3, <3>1, Zenon DEF Lineage
    <3>. QED
      BY <1>1, <3>1, <3>2, Zenon
  <2>4. Linked(st2[(n + 1) - 1], st2[n + 1])
    <3>1. (n + 1) - 1 = n
      BY <1>1
    <3>. QED
      BY <1>1, <1>5, <1>8, <3>1, Zenon
  <2>5. \A i \in DOMAIN st2 : i \in 1 .. n \/ i = n + 1
    BY <1>1
  <2>. QED
    BY <2>1, <2>2, <2>3, <2>4, <2>5, Zenon DEF Lineage
<1>11. ASSUME NEW i \in DOMAIN st2 PROVE CountsAt(st2, i, d)
  <2>1. CASE i = n + 1
    <3>1. CASE g.cb = "raw"
      <4>1. f.cb = "transaction" /\ f.field_idx = 3
        BY <1>4, <3>1 DEF PlaceIs
      <4>2. SourcesHashed(d) = 0
        BY <1>7, <4>1 DEF CountsAt, f
      <4>. QED
        BY <1>1, <2>1, <3>1, <4>2 DEF CountsAt
    <3>2. CASE g.cb = "inputs"
      <4>1. f.cb = "raw" /\ f.field_idx = 3
        BY <1>4, <3>2 DEF PlaceIs
      <4>2. SourcesHashed(d) = 0
        BY <1>7, <4>1 DEF CountsAt, f
      <4>. QED
        BY <1>1, <2>1, <3>2, <4>2 DEF CountsAt
    <3>3. CASE g.cb = "input"
      <4>1. f.cb = "inputs" /\ f.state_num = 3
        BY <1>4, <1>6, <3>3 DEF PlaceIs
      <4>2. SourcesHashed(d) = f.field_idx
        BY <1>7, <4>1 DEF CountsAt, f
      <4>3. st2[i - 1] = f
        BY <1>1, <1>8, <2>1
      <4>4. f.field_idx \in Nat
        BY <1>3, FrameFields
      <4>. QED
        BY <1>1, <2>1, <3>3, <4>2, <4>3, <4>4 DEF CountsAt
    <3>4. CASE g.cb \notin {"raw", "inputs", "input"}
      <4>1. g.cb # "transaction"
        BY <1>4 DEF PlaceIs
      <4>. QED
        BY <1>1, <2>1, <3>4, <4>1 DEF CountsAt
    <3>. QED
      BY <3>1, <3>2, <3>3, <3>4
  <2>2. CASE i = n
    <3>1. CASE f.cb = "inputs"
      <4>1. d.hard_reject \/ d.input_count = Items(f)
        BY <1>6, <1>7, <3>1 DEF CountsAt, f
      <4>. QED
        <5>1. st2[i] = f /\ i # Len(st2) /\ f.state_num = 3 /\ f.field_idx < Items(f)
          BY <1>0, <1>6, <1>8, <2>2, <3>1
        <5>2. ~(3 < 3)
          OBVIOUS
        <5>. QED
          BY <3>1, <4>1, <5>1, <5>2, Zenon DEF CountsAt
    <3>2. CASE f.cb \in {"transaction", "raw"}
      <4>1. /\ f.field_idx < 3 => SourcesHashed(d) = 0
            /\ f.field_idx > 3 => Settled(d)
        BY <1>7, <3>2 DEF CountsAt, f
      <4>. QED
        BY <1>0, <1>8, <2>2, <3>2, <4>1 DEF CountsAt
    <3>3. CASE f.cb = "input"
      <4>1. st[n].cb = "input"
        BY <3>3 DEF f
      <4>2. n = 4
        BY <1>1, <1>2, <4>1, Depths
      <4>3. st2[i - 1] = st[n - 1]
        BY <1>1, <2>2, <4>2
      <4>. QED
        <5>1. /\ f.field_idx <= 2
              /\ SourcesHashed(d) =
                   st[n - 1].field_idx + (IF f.field_idx = 2 THEN 1 ELSE 0)
          BY <1>7, <3>3 DEF CountsAt, f
        <5>. QED
          BY <1>8, <2>2, <3>3, <4>3, <5>1 DEF CountsAt
    <3>4. CASE f.cb \notin {"transaction", "raw", "inputs", "input"}
      BY <1>8, <2>2, <3>4 DEF CountsAt
    <3>. QED
      BY <3>1, <3>2, <3>3, <3>4
  <2>3. CASE i \in DOMAIN st /\ i # n
    <3>1. CountsAt(st, i, d) /\ i # Len(st) /\ i # Len(st2) /\ st2[i] = st[i]
      BY <1>1, <1>2, <2>3
    <3>2. st[i].cb = "input" => i = 4
      BY <1>2, <2>3, Depths, Zenon
    <3>3. st[i].cb = "input" => st2[i - 1] = st[i - 1]
      BY <1>1, <2>3, <3>2
    <3>. QED
      BY <3>1, <3>3, Zenon DEF CountsAt
  <2>. QED
    BY <1>1, <2>1, <2>2, <2>3
<1>12. st2 # <<>>
  BY <1>1
<1>13. Tallied(st2, d)
  BY <1>2, <1>10, <1>11, <1>12, Zenon DEF Tallied
<1>. QED
  BY <1>13 DEF st2

\* A parser that may return: the inputs are behind it, or it has counted them.
Finished(f, d) ==
  /\ f.cb \in {"transaction", "raw"} => f.field_idx > 3
  /\ f.cb = "inputs" => Settled(d)
  /\ f.cb = "input" => f.field_idx = 2

\* What the end callback of a parser counts.
Counted(f, d, e) ==
  /\ d.hard_reject => e.hard_reject
  /\ f.cb = "source" =>
       e.input_count = d.input_count /\ SourcesHashed(e) = SourcesHashed(d) + 1
  /\ f.cb = "inputCount" => SourcesHashed(e) = SourcesHashed(d)
  /\ f.cb \notin {"source", "inputCount"} => Keeps(d, e)

\* The parser at the top is gone, and the one beneath it has counted the part.
ReturnsTo(st, st2) ==
  LET n == Len(st) - 1
  IN /\ st2 \in Seq(FrameType) /\ Len(st2) = n
     /\ \A i \in 1 .. n : i # n => st2[i] = st[i]
     /\ st2[n].type = st[n].type /\ st2[n].cb = st[n].cb
     /\ st2[n].state_num = st[n].state_num /\ st2[n].nums = st[n].nums
     /\ st2[n].field_idx = st[n].field_idx + 1

\* The return of a parser leaves the others parts of parts.
LEMMA ReturnLineage ==
  ASSUME NEW st \in Seq(FrameType), Len(st) > 1, NEW st2, ReturnsTo(st, st2), Lineage(st)
  PROVE  Lineage(st2)
<1> DEFINE n == Len(st) - 1
<1>1. /\ n \in Nat /\ n > 0 /\ DOMAIN st = 1 .. n + 1 /\ DOMAIN st2 = 1 .. n
  BY DEF ReturnsTo
<1>2. ASSUME NEW i \in 1 .. n
      PROVE  /\ st2[i].type = st[i].type /\ st2[i].cb = st[i].cb
             /\ i # n => st2[i].field_idx = st[i].field_idx
             /\ i \in DOMAIN st
  BY <1>1, <1>2 DEF ReturnsTo
<1> HIDE DEF n
<1>3. ASSUME NEW i \in 1 .. n PROVE Named(st2[i]) /\ (st2[i].cb = "transaction" <=> i = 1)
  <2>1. Named(st[i]) /\ (st[i].cb = "transaction" <=> i = 1)
    BY <1>2, Zenon DEF Lineage
  <2>2. st2[i].type = st[i].type /\ st2[i].cb = st[i].cb
    BY <1>2
  <2>. QED
    BY <2>1, <2>2, Zenon DEF Named
<1>4. ASSUME NEW i \in 1 .. n, i > 1 PROVE Linked(st2[i - 1], st2[i])
  <2>1. i - 1 \in 1 .. n /\ i - 1 # n
    BY <1>1, <1>4
  <2>2. Linked(st[i - 1], st[i])
    BY <1>2, <1>4, Zenon DEF Lineage
  <2>3. /\ st2[i].type = st[i].type /\ st2[i].cb = st[i].cb
        /\ st2[i - 1].type = st[i - 1].type /\ st2[i - 1].cb = st[i - 1].cb
        /\ st2[i - 1].field_idx = st[i - 1].field_idx
    BY <1>2, <2>1
  <2>. QED
    BY <2>2, <2>3, LinkedAlike, ZenonT(30)
<1>. QED
  BY <1>1, <1>3, <1>4, Zenon DEF Lineage

\* The last of them.
LEMMA LastReturn ==
  ASSUME Application, NEW st \in Seq(FrameType), Len(st) = 1, NEW d, Tallied(st, d),
         Finished(st[1], d), NEW e, Recorded(e), Counted(st[1], d, e)
  PROVE  Tallied(<<>>, e)
<1>1. 1 \in DOMAIN st
  OBVIOUS
<1>2. st[1].cb = "transaction" /\ CountsAt(st, 1, d)
  BY <1>1, Zenon DEF Tallied, Lineage
<1>3. st[1].field_idx > 3 /\ Keeps(d, e)
  BY <1>2 DEF Finished, Counted
<1>4. Settled(d)
  BY <1>2, <1>3, Zenon DEF CountsAt
<1>5. Settled(e)
  BY <1>3, <1>4, SettledKeeps
<1>6. DOMAIN <<>> = {}
  OBVIOUS
<1>. QED
  BY <1>5, <1>6, Zenon DEF Tallied, Lineage

\* The source of an input.
LEMMA SourceReturn ==
  ASSUME Application, NEW st \in Seq(FrameType), Len(st) > 1, st[Len(st)].cb = "source",
         NEW d, Tallied(st, d),
         \A i \in DOMAIN st : st[i].cb = "inputs" => st[i].state_num = 3,
         NEW st2, ReturnsTo(st, st2), NEW e, Recorded(e), Counted(st[Len(st)], d, e)
  PROVE  Tallied(st2, e)
<1>1. Lineage(st) /\ Len(st) \in DOMAIN st /\ Recorded(d)
  BY DEF Tallied
<1>2. /\ Len(st) = 5 /\ st[1].field_idx = 3 /\ st[2].cb = "raw" /\ st[2].field_idx = 3
      /\ st[3].cb = "inputs" /\ st[4].cb = "input" /\ st[4].field_idx = 1
  BY <1>1, Depths, Zenon
<1>3. DOMAIN st = 1 .. 5 /\ st[1].cb = "transaction" /\ st[3].state_num = 3
  <2>1. DOMAIN st = 1 .. 5
    BY <1>2
  <2>. QED
    BY <1>1, <1>2, <2>1 DEF Lineage
<1>4. /\ Len(st2) = 4 /\ st2 \in Seq(FrameType) /\ st2[1] = st[1] /\ st2[2] = st[2] /\ st2[3] = st[3]
      /\ st2[4].cb = "input" /\ st2[4].field_idx = 2
  BY <1>2 DEF ReturnsTo
<1>5. /\ d.hard_reject => e.hard_reject
      /\ e.input_count = d.input_count /\ SourcesHashed(e) = SourcesHashed(d) + 1
  BY DEF Counted
<1>6. /\ d.hard_reject \/ d.input_count = Items(st[3])
      /\ st[3].field_idx < Items(st[3])
      /\ SourcesHashed(d) = st[3].field_idx + 0
  <2>0. 3 \in DOMAIN st /\ 4 \in DOMAIN st
    BY <1>3
  <2>1. CountsAt(st, 3, d) /\ CountsAt(st, 4, d)
    BY <2>0, Zenon DEF Tallied
  <2>2. d.hard_reject \/ d.input_count = Items(st[3])
    BY <1>2, <1>3, <2>1 DEF CountsAt
  <2>3. st[3].field_idx < Items(st[3])
    BY <1>2, <1>3, <2>1 DEF CountsAt
  <2>4. SourcesHashed(d) = st[3].field_idx + 0
    BY <1>2, <1>3, <2>1 DEF CountsAt
  <2>. QED
    BY <2>2, <2>3, <2>4
<1>7. Lineage(st2)
  BY <1>1, ReturnLineage
<1>8. CountsAt(st2, 1, e) /\ CountsAt(st2, 2, e)
  BY <1>2, <1>3, <1>4 DEF CountsAt
<1>9. CountsAt(st2, 3, e)
  <2>1. st2[3] = st[3] /\ 3 # Len(st2) /\ (e.hard_reject \/ e.input_count = Items(st2[3]))
    BY <1>4, <1>5, <1>6
  <2>. QED
    BY <1>2, <1>3, <1>4, <1>5, <1>6 DEF CountsAt
<1>10. CountsAt(st2, 4, e)
  <2>0. 3 \in 1 .. Len(st)
    BY <1>2
  <2>1. st[3].field_idx \in Nat
    BY <2>0, ElementOfSeq, FrameFields
  <2>2. SourcesHashed(e) = st2[4 - 1].field_idx + 1
    BY <1>4, <1>5, <1>6, <2>1
  <2>. QED
    BY <1>4, <2>2 DEF CountsAt
<1>11. DOMAIN st2 = 1 .. 4 /\ st2 # <<>>
  <2>1. Len(st2) = 4 /\ st2 \in Seq(FrameType)
    BY <1>4, Zenon
  <2>2. DOMAIN st2 = 1 .. 4
    BY <2>1
  <2>3. Len(<<>>) # 4
    OBVIOUS
  <2>. QED
    BY <2>1, <2>2, <2>3, Zenon
<1>12. \A i \in DOMAIN st2 : CountsAt(st2, i, e)
  <2>1. \A i \in DOMAIN st2 : i = 1 \/ i = 2 \/ i = 3 \/ i = 4
    BY <1>11
  <2>. QED
    BY <1>8, <1>9, <1>10, <2>1, Zenon
<1>. QED
  BY <1>7, <1>11, <1>12, Zenon DEF Tallied

\* The announced number of inputs.
LEMMA CountReturn ==
  ASSUME Application, NEW st \in Seq(FrameType), Len(st) > 1, st[Len(st)].cb = "inputCount",
         NEW d, Tallied(st, d),
         NEW st2, ReturnsTo(st, st2), NEW e, Recorded(e), Counted(st[Len(st)], d, e)
  PROVE  Tallied(st2, e)
<1>1. Lineage(st) /\ Len(st) \in DOMAIN st
  BY DEF Tallied
<1>2. Len(st) = 2 /\ st[1].field_idx = 2
  BY <1>1, Depths, Zenon
<1>3. DOMAIN st = 1 .. 2 /\ st[1].cb = "transaction"
  <2>1. DOMAIN st = 1 .. 2
    BY <1>2
  <2>. QED
    BY <1>1, <2>1 DEF Lineage
<1>4. Len(st2) = 1 /\ st2 \in Seq(FrameType) /\ st2[1].cb = "transaction" /\ st2[1].field_idx = 3
  BY <1>2, <1>3 DEF ReturnsTo
<1>5. SourcesHashed(e) = SourcesHashed(d)
  BY DEF Counted
<1>6. SourcesHashed(d) = 0
  <2>0. 1 \in DOMAIN st
    BY <1>3
  <2>1. CountsAt(st, 1, d)
    BY <2>0, Zenon DEF Tallied
  <2>. QED
    BY <1>2, <1>3, <2>1 DEF CountsAt
<1>7. Lineage(st2)
  BY <1>1, ReturnLineage
<1>8. CountsAt(st2, 1, e)
  BY <1>4, <1>5, <1>6 DEF CountsAt
<1>9. DOMAIN st2 = {1} /\ st2 # <<>>
  <2>1. Len(st2) = 1 /\ st2 \in Seq(FrameType)
    BY <1>4, Zenon
  <2>2. DOMAIN st2 = {1}
    BY <2>1
  <2>3. Len(<<>>) # 1
    OBVIOUS
  <2>. QED
    BY <2>1, <2>2, <2>3, Zenon
<1>. QED
  BY <1>7, <1>8, <1>9, Zenon DEF Tallied

\* Any other part.
LEMMA OtherReturn ==
  ASSUME Application, NEW st \in Seq(FrameType), Len(st) > 1,
         NEW d, Tallied(st, d), Finished(st[Len(st)], d),
         \A i \in DOMAIN st :
           st[i].cb = "inputs" /\ i < Len(st) => st[i].state_num = 3 /\ Items(st[i]) \in Nat,
         \A i \in DOMAIN st : st[i].cb = "input" /\ i < Len(st) => st[i].field_idx <= 1,
         NEW st2, ReturnsTo(st, st2), NEW e, Recorded(e), Keeps(d, e),
         st[Len(st)].cb # "source"
  PROVE  Tallied(st2, e)
<1> DEFINE n == Len(st) - 1  f == st[n]  g == st[n + 1]
<1>1. /\ n \in Nat /\ n > 0 /\ n + 1 = Len(st) /\ DOMAIN st = 1 .. n + 1
      /\ n \in DOMAIN st /\ n + 1 \in DOMAIN st /\ n < Len(st) /\ n # Len(st)
      /\ (n + 1) - 1 = n /\ n + 1 > 1 /\ n # n + 1 /\ n # 0 /\ n \in 1 .. Len(st)
  OBVIOUS
<1>2. /\ st2 \in Seq(FrameType) /\ Len(st2) = n
      /\ \A i \in 1 .. n : i # n => st2[i] = st[i]
      /\ st2[n].type = f.type /\ st2[n].cb = f.cb
      /\ st2[n].state_num = f.state_num /\ st2[n].nums = f.nums
      /\ st2[n].field_idx = f.field_idx + 1
  BY Zenon DEF ReturnsTo
<1>3. Lineage(st) /\ \A i \in DOMAIN st : CountsAt(st, i, d)
  BY Zenon DEF Tallied
<1> HIDE DEF n
<1>4. f \in FrameType /\ f.field_idx \in Nat
  <2>1. f \in FrameType
    BY <1>1, ElementOfSeq
  <2>. QED
    BY <2>1, FrameFields, Zenon
<1>5. PlaceIs(f, g) /\ Finished(g, d) /\ g.cb # "source" /\ CountsAt(st, n + 1, d) /\ CountsAt(st, n, d)
  <2>1. PlaceIs(st[(n + 1) - 1], st[n + 1])
    BY <1>1, <1>3, BelowFacts, Zenon
  <2>. QED
    BY <1>1, <1>3, <2>1, Zenon
<1>6. /\ f.cb = "inputs" => f.state_num = 3
      /\ f.cb = "inputs" => Items(f) \in Nat
      /\ f.cb = "input" => f.field_idx <= 1
  BY <1>1, Zenon
<1>7. Lineage(st2)
  BY <1>3, ReturnLineage, Zenon
<1>8. DOMAIN st2 = 1 .. n /\ st2 # <<>>
  <2>1. Len(st2) = n /\ st2 \in Seq(FrameType)
    BY <1>2, Zenon
  <2>2. DOMAIN st2 = 1 .. n
    BY <2>1
  <2>3. Len(<<>>) # n
    <3>1. Len(<<>>) = 0
      OBVIOUS
    <3>. QED
      BY <1>1, <3>1, Zenon
  <2>. QED
    BY <2>1, <2>2, <2>3, Zenon
<1>9. Settled(d) => Settled(e)
  BY SettledKeeps
<1>10. SourcesHashed(e) = SourcesHashed(d) /\ e.input_count = d.input_count
       /\ (d.hard_reject => e.hard_reject)
  BY DEF Keeps
<1>11. n = Len(st2)
  BY <1>2, Zenon
<1>12. f.cb = "input" => n = 4
  BY <1>1, <1>3, Depths, Zenon
<1>13. \A i \in DOMAIN st : st[i].cb = "input" => i = 4
  BY <1>3, Depths, Zenon
<1>14. f.cb = "inputs" => g.cb = "input" /\ (n + 1) - 1 = n
  BY <1>1, <1>5, Zenon DEF PlaceIs
<1>15. n # n + 1
  BY <1>1, Zenon
<1>16. CountsAt(st2, n, e)
  <2>1. CASE f.cb \in {"transaction", "raw"}
    <3>1. /\ f.field_idx < 3 => SourcesHashed(d) = 0
          /\ f.field_idx > 3 => Settled(d)
      BY <1>5, <2>1 DEF CountsAt
    <3>2. f.field_idx = 3 => Settled(d)
      <4>1. SUFFICES ASSUME f.field_idx = 3 PROVE Settled(d)
        OBVIOUS
      <4>2. g.cb = "raw" \/ g.cb = "inputs"
        BY <1>5, <2>1, <4>1 DEF PlaceIs
      <4>3. CASE g.cb = "inputs"
        BY <1>5, <4>3, Zenon DEF Finished
      <4>4. CASE g.cb = "raw"
        BY <1>5, <4>4, Zenon DEF Finished, CountsAt
      <4>. QED
        BY <4>2, <4>3, <4>4
    <3>3. /\ st2[n].field_idx < 3 => SourcesHashed(e) = 0
          /\ st2[n].field_idx = 3 => SourcesHashed(e) = 0
          /\ st2[n].field_idx > 3 => Settled(e)
      <4>1. st2[n].field_idx = f.field_idx + 1 /\ f.field_idx \in Nat
        BY <1>2, <1>4, Zenon
      <4> HIDE DEF f
      <4>. QED
        BY <1>9, <1>10, <3>1, <3>2, <4>1
    <3>4. st2[n].cb \in {"transaction", "raw"}
      BY <1>2, <2>1, Zenon
    <3>. QED
      BY <3>3, <3>4 DEF CountsAt
  <2>2. CASE f.cb = "inputs"
    <3>1. /\ d.hard_reject \/ d.input_count = Items(f)
          /\ f.field_idx < Items(f)
      BY <1>1, <1>5, <1>6, <2>2, Zenon DEF CountsAt
    <3>2. SourcesHashed(d) = f.field_idx + 1
      <4>1. g.cb = "input" /\ (n + 1) - 1 = n /\ g.field_idx = 2
        BY <1>5, <1>14, <2>2, Zenon DEF Finished
      <4>. QED
        BY <1>5, <4>1, Zenon DEF CountsAt
    <3>3. Items(st2[n]) = Items(f)
      BY <1>2, Zenon DEF Items
    <3>4. f.field_idx + 1 <= Items(f)
      <4>1. Items(f) \in Nat
        BY <1>6, <2>2
      <4> HIDE DEF f
      <4>. QED
        BY <1>4, <3>1, <4>1
    <3>5. st2[n].cb = "inputs" /\ st2[n].state_num = 3 /\ st2[n].field_idx = f.field_idx + 1
      BY <1>2, <1>6, <2>2, Zenon
    <3>6. ~(3 < 3)
      OBVIOUS
    <3>. QED
      BY <1>10, <1>11, <3>1, <3>2, <3>3, <3>4, <3>5, <3>6, Zenon DEF CountsAt
  <2>3. CASE f.cb = "input"
    <3>1. n = 4 /\ f.field_idx <= 1
      BY <1>6, <1>12, <2>3, Zenon
    <3>2. f.field_idx # 1
      BY <1>5, <2>3 DEF PlaceIs
    <3>3. f.field_idx = 0 /\ st2[n].field_idx = 1
      BY <1>2, <1>4, <3>1, <3>2
    <3>4. SourcesHashed(d) = st[n - 1].field_idx + 0
      BY <1>5, <2>3, <3>3 DEF CountsAt
    <3>5. st2[n - 1] = st[n - 1]
      BY <1>2, <3>1
    <3>6. st2[n].cb = "input"
      BY <1>2, <2>3, Zenon
    <3>. QED
      BY <1>10, <3>3, <3>4, <3>5, <3>6 DEF CountsAt
  <2>4. CASE f.cb \notin {"transaction", "raw", "inputs", "input"}
    <3>1. st2[n].cb \notin {"transaction", "raw", "inputs", "input"}
      BY <1>2, <2>4, Zenon
    <3>. QED
      BY <3>1 DEF CountsAt
  <2>. QED
    BY <2>1, <2>2, <2>3, <2>4
<1>17. ASSUME NEW i \in DOMAIN st2, i # n PROVE CountsAt(st2, i, e)
  <2>1. i \in 1 .. n /\ i \in DOMAIN st /\ i # Len(st) /\ i # Len(st2)
    <3>1. i \in 1 .. n /\ i # Len(st2)
      BY <1>8, <1>11, <1>17, Zenon
    <3>2. n \in Nat /\ n + 1 = Len(st) /\ DOMAIN st = 1 .. n + 1
      BY <1>1, Zenon
    <3>3. i \in 1 .. n + 1 /\ i # n + 1
      BY <3>1, <3>2
    <3>. QED
      BY <3>1, <3>2, <3>3, Zenon
  <2>2. CountsAt(st, i, d) /\ st2[i] = st[i]
    BY <1>2, <1>3, <1>17, <2>1, Zenon
  <2>3. st[i].cb = "input" => st2[i - 1] = st[i - 1]
    <3>1. SUFFICES ASSUME i = 4 PROVE st2[i - 1] = st[i - 1]
      BY <1>13, <2>1, Zenon
    <3>2. i - 1 \in 1 .. n /\ i - 1 # n
      BY <1>1, <2>1, <3>1
    <3>. QED
      BY <1>2, <3>2, Zenon
  <2>. QED
    BY <1>9, <1>10, <2>1, <2>2, <2>3, Zenon DEF CountsAt
<1>. QED
  BY <1>7, <1>8, <1>16, <1>17, Zenon DEF Tallied

\* The parser at the top returns.
LEMMA ReturnTally ==
  ASSUME Application, NEW st \in Seq(FrameType), Len(st) > 1,
         NEW d, Tallied(st, d), Finished(st[Len(st)], d),
         \A i \in DOMAIN st :
           st[i].cb = "inputs" /\ i < Len(st) => st[i].state_num = 3 /\ Items(st[i]) \in Nat,
         \A i \in DOMAIN st : st[i].cb = "input" /\ i < Len(st) => st[i].field_idx <= 1,
         NEW st2, ReturnsTo(st, st2), NEW e, Recorded(e), Counted(st[Len(st)], d, e)
  PROVE  Tallied(st2, e)
<1>1. CASE st[Len(st)].cb = "source"
  <2>1. \A i \in DOMAIN st : st[i].cb = "inputs" => st[i].state_num = 3
    <3>1. \A i \in DOMAIN st : i < Len(st) \/ i = Len(st)
      OBVIOUS
    <3>2. "source" # "inputs"
      OBVIOUS
    <3>. QED
      BY <1>1, <3>1, <3>2, Zenon
  <2>. QED
    BY <1>1, <2>1, SourceReturn
<1>2. CASE st[Len(st)].cb = "inputCount"
  BY <1>2, CountReturn
<1>3. CASE st[Len(st)].cb \notin {"source", "inputCount"}
  <2>1. Keeps(d, e) /\ st[Len(st)].cb # "source"
    BY <1>3 DEF Counted
  <2>. QED
    BY <2>1, OtherReturn
<1>. QED
  BY <1>1, <1>2, <1>3

-----------------------------------------------------------------------------
(* The ways a step leaves the count *)

\* The parser at the top, and what is counted when it runs.
LEMMA TopTally ==
  ASSUME Application, Inv, CountInv, phase = "parsing"
  PROVE  /\ stack \in Seq(FrameType) /\ stack # <<>> /\ Len(stack) \in DOMAIN stack
         /\ Len(stack) \in Nat /\ Len(stack) > 0
         /\ Top \in FrameType /\ <<Top.type, Top.cb>> \in Uses /\ Top.cb \in DOMAIN Callbacks
         /\ Tallied(stack, sign) /\ Recorded(sign) /\ Lineage(stack)
         /\ Named(Top) /\ CountsAt(stack, Len(stack), sign)
         /\ Top.cb \in {"transaction", "raw", "input", "source"} =>
              Types[Top.type].kind = "table"
         /\ Top.cb = "inputs" => Types[Top.type].kind = "dynvec"
         /\ Top.cb = "inputCount" => Types[Top.type].kind = "fixed"
<1>1. /\ stack \in Seq(FrameType) /\ Len(stack) \in Nat /\ Len(stack) > 0
      /\ Top \in FrameType /\ <<Top.type, Top.cb>> \in Uses
  BY TopFacts, Zenon
<1>2. stack # <<>> /\ Len(stack) \in DOMAIN stack
  BY <1>1
<1>3. Tallied(stack, sign) /\ Recorded(sign) /\ Lineage(stack)
      /\ CountsAt(stack, Len(stack), sign)
  BY <1>2, Zenon DEF CountInv, Tallied
<1>4. Named(Top)
  BY <1>2, <1>3, Zenon DEF Lineage, Top
<1>5. Top.cb \in DOMAIN Callbacks
  BY <1>1, FrameFields
<1>6. WayTypes
  BY WayFacts
<1>7. /\ Top.cb \in {"transaction", "raw", "input", "source"} =>
           Types[Top.type].kind = "table"
      /\ Top.cb = "inputs" => Types[Top.type].kind = "dynvec"
      /\ Top.cb = "inputCount" => Types[Top.type].kind = "fixed"
  BY <1>4, <1>6 DEF Named, WayTypes
<1>. QED
  BY <1>1, <1>2, <1>3, <1>4, <1>5, <1>7, Zenon

\* The callbacks a parser calls before its end count nothing.
LEMMA SlotKeeps ==
  ASSUME Application, NEW c \in DOMAIN Callbacks, NEW d, Recorded(d), NEW x, NEW arg,
         x \in {Callbacks[c].start, Callbacks[c].size, Callbacks[c].offsets,
                Callbacks[c].length, Callbacks[c].index, Callbacks[c].body_chunk}
  PROVE  Recorded(Call(d, x, arg)) /\ Keeps(d, Call(d, x, arg))
<1>1. {Callbacks[c].start, Callbacks[c].size, Callbacks[c].offsets, Callbacks[c].length,
       Callbacks[c].index, Callbacks[c].body_chunk} \cap Counting = {}
  BY Tables, Zenon DEF TableIs
<1>2. x \notin Counting
  BY <1>1
<1>. QED
  BY <1>2, CallTally, Zenon

\* Nor does the chunk callback.
LEMMA ChunkKeeps ==
  ASSUME Application, NEW c \in DOMAIN Callbacks, NEW d, Recorded(d), NEW arg
  PROVE  LET e == Effect(d, Callbacks[c].chunk, arg) IN Recorded(e) /\ Keeps(d, e)
<1>1. Callbacks[c].chunk # "set_input_count"
  BY CallbacksAssumption DEF OfUnits
<1>. QED
  BY <1>1, EffectKeeps, Zenon

\* Nor the start callback of a part.
LEMMA InitKeeps ==
  ASSUME Application, NEW d, Recorded(d), NEW f, <<f.type, f.cb>> \in Uses, NEW k
  PROVE  Recorded(InitPart(d, f, k)) /\ Keeps(d, InitPart(d, f, k))
<1> DEFINE t == Types[f.type]
           part == IF t.kind \in {"fixvec", "dynvec"} THEN 1 ELSE k
           c == Sub(f.cb, part)
<1>1. CASE part \notin DOMAIN t.fields
  <2>1. InitPart(d, f, k) = d
    BY <1>1 DEF InitPart
  <2>. QED
    BY <2>1 DEF Keeps
<1>2. CASE part \in DOMAIN t.fields
  <2>1. <<t.fields[part], c>> \in Uses
    BY <1>2, UseFacts, Zenon
  <2>2. c \in DOMAIN Callbacks
    <3> DEFINE x == t.fields[part]
    <3>1. <<x, c>> \in Uses
      BY <2>1
    <3> HIDE DEF x, c
    <3>. QED
      BY <3>1, UseFacts, Zenon
  <2>3. InitPart(d, f, k) = Call(d, Callbacks[c].start, <<>>)
    BY <1>2 DEF InitPart
  <2> HIDE DEF c
  <2>4. Recorded(Call(d, Callbacks[c].start, <<>>)) /\ Keeps(d, Call(d, Callbacks[c].start, <<>>))
    BY <2>2, SlotKeeps
  <2>. QED
    BY <2>3, <2>4, Zenon
<1>. QED
  BY <1>1, <1>2

\* What the end callback counts.
LEMMA EndCounts ==
  ASSUME Application, NEW f, f.cb \in DOMAIN Callbacks, NEW d, Recorded(d), NEW arg
  PROVE  LET e == Call(d, Callbacks[f.cb].end, arg) IN Recorded(e) /\ Counted(f, d, e)
<1> DEFINE c == Callbacks[f.cb].end  e == Call(d, c, arg)
<1>1. /\ c = "finish_context_txn" <=> f.cb = "source"
      /\ c = "set_input_count" <=> f.cb = "inputCount"
  BY Tables, Zenon DEF TableIs
<1> HIDE DEF c
<1>2. /\ Recorded(e) /\ (d.hard_reject => e.hard_reject)
      /\ c \notin Counting => Keeps(d, e)
      /\ c = "finish_context_txn" => /\ e.input_count = d.input_count
                                     /\ SourcesHashed(e) = SourcesHashed(d) + 1
      /\ c = "set_input_count" => SourcesHashed(e) = SourcesHashed(d)
  BY CallTally, Zenon
<1> HIDE DEF e
<1>3. Recorded(e) /\ Counted(f, d, e)
  BY <1>1, <1>2 DEF Counted, Counting
<1>. QED
  BY <1>3 DEF e, c

\* Counting follows or comes before what counts nothing.
LEMMA KeepsCounted ==
  ASSUME NEW f, NEW d, NEW e, NEW g
  PROVE  /\ Keeps(d, e) /\ Counted(f, e, g) => Counted(f, d, g)
         /\ Counted(f, d, e) /\ Keeps(e, g) => Counted(f, d, g)
BY DEF Keeps, Counted

\* The parser rejects.
LEMMA RejectCount ==
  ASSUME CountInv, Reject PROVE CountInv'
<1>1. stack' = stack /\ sign' = sign /\ phase' = "REJECT"
  BY DEF Reject
<1>2. Ended'
  BY <1>1 DEF Ended
<1>3. Tallied(stack, sign)' <=> Tallied(stack', sign')
  OBVIOUS
<1>. QED
  BY <1>1, <1>2, Zenon DEF CountInv

\* The parser goes on, and CountsAt holds of where it is then.
LEMMA ContinueCount ==
  ASSUME Application, Inv, CountInv, phase = "parsing", Inv',
         NEW f, f.type = Top.type, f.cb = Top.cb, NEW p, NEW d, Continue(f, p, d),
         Recorded(d), Keeps(sign, d), CountsAt(stack', Len(stack), d)
  PROVE  CountInv'
<1> DEFINE n == Len(stack)
<1>1. /\ stack' = [stack EXCEPT ![n] = f] /\ sign' = d /\ phase' = "parsing"
  BY DEF Continue
<1>2. /\ stack \in Seq(FrameType) /\ stack # <<>> /\ n \in DOMAIN stack /\ Tallied(stack, sign)
  BY TopTally
<1>3. stack' \in Seq(FrameType)
  BY DEF Inv, TypeOK
<1>4. /\ Len(stack') = n /\ stack'[n] = f
      /\ \A i \in DOMAIN stack : i # n => stack'[i] = stack[i]
  BY <1>1, <1>2
<1>5. MovesTo(stack, stack', f)
  BY <1>3, <1>4, Zenon DEF MovesTo, Alike, Top
<1>6. Tallied(stack', sign')
  BY <1>1, <1>2, <1>5, MoveTally
<1>7. Ended'
  BY <1>1 DEF Ended
<1>. QED
  BY <1>6, <1>7, Zenon DEF CountInv

\* It goes on where it is.
LEMMA StayCount ==
  ASSUME Application, Inv, CountInv, phase = "parsing", Inv',
         NEW f, f.type = Top.type, f.cb = Top.cb, f.field_idx = Top.field_idx,
         Top.cb # "inputs", NEW p, NEW d, Continue(f, p, d), Recorded(d), Keeps(sign, d)
  PROVE  CountInv'
<1> DEFINE n == Len(stack)
<1>1. /\ stack' = [stack EXCEPT ![n] = f] /\ sign' = d /\ phase' = "parsing"
  BY DEF Continue
<1>2. /\ stack \in Seq(FrameType) /\ stack # <<>> /\ n \in DOMAIN stack /\ Tallied(stack, sign)
  BY TopTally
<1>3. stack' \in Seq(FrameType)
  BY DEF Inv, TypeOK
<1>4. /\ Len(stack') = n /\ stack'[n] = f
      /\ \A i \in DOMAIN stack : i # n => stack'[i] = stack[i]
  BY <1>1, <1>2
<1>5. MovesTo(stack, stack', f)
  BY <1>3, <1>4, Zenon DEF MovesTo, Alike, Top
<1>6. f.field_idx = stack[Len(stack)].field_idx /\ f.cb # "inputs"
  BY Zenon DEF Top
<1>7. Tallied(stack', sign')
  BY <1>1, <1>2, <1>5, <1>6, StayTally, Zenon
<1>8. Ended'
  BY <1>1 DEF Ended
<1>. QED
  BY <1>7, <1>8, Zenon DEF CountInv

\* The chunk ends.
LEMMA SuspendCount ==
  ASSUME Application, Inv, CountInv, phase = "parsing", Inv',
         NEW f, DOMAIN f = DOMAIN Top, f.type = Top.type, f.cb = Top.cb,
         f.state_num = Top.state_num, f.nums = Top.nums,
         f.field_idx = Top.field_idx \/ Types[Top.type].kind \notin {"table", "dynvec"},
         NEW p, NEW d, Suspend(f, p, d), Recorded(d), Keeps(sign, d)
  PROVE  CountInv'
<1> DEFINE n == Len(stack)
           base(i) == IF i = n THEN f ELSE stack[i]
           next(i) == [base(i) EXCEPT !.start = p]
           g == next(n)
<1>1. /\ stack' = [i \in DOMAIN stack |-> next(i)] /\ phase' = "INCOMPLETE"
      /\ sign' = IF Chunked = {} THEN d ELSE Tell(d, stack[CHOOSE i \in Chunked : TRUE], p)
  BY DEF Suspend
<1>2. /\ stack \in Seq(FrameType) /\ stack # <<>> /\ n \in DOMAIN stack /\ Tallied(stack, sign)
      /\ Top \in FrameType
      /\ Top.cb \in {"transaction", "raw", "input"} => Types[Top.type].kind = "table"
      /\ Top.cb = "inputs" => Types[Top.type].kind = "dynvec"
  BY TopTally
<1>3. stack' \in Seq(FrameType)
  BY DEF Inv, TypeOK
<1>4. ASSUME NEW i \in DOMAIN stack, i # n PROVE Alike(stack[i], next(i))
  <2>1. base(i) = stack[i] /\ stack[i] \in FrameType
    BY <1>2, <1>4, ElementOfSeq
  <2>. QED
    BY <2>1 DEF Alike, FrameType
<1>5. /\ g.type = f.type /\ g.cb = f.cb /\ g.field_idx = f.field_idx
      /\ g.state_num = f.state_num /\ g.nums = f.nums
  <2>1. base(n) = f
    OBVIOUS
  <2>2. DOMAIN f = {"type", "cb", "size", "entry", "start", "mark", "state_num", "field_idx",
                    "nums", "buffer"}
    BY <1>2 DEF FrameType
  <2>. QED
    BY <2>1, <2>2
<1>6. \A i \in DOMAIN stack : stack'[i] = next(i)
  BY <1>1, Zenon
<1>7. Len(stack') = n
  BY <1>1, <1>2, <1>3
<1>8. MovesTo(stack, stack', g)
  <2>1. g.type = stack[n].type /\ g.cb = stack[n].cb
    BY <1>5, Zenon DEF Top
  <2>2. \A i \in DOMAIN stack : i # n => Alike(stack[i], stack'[i])
    BY <1>4, <1>6, Zenon
  <2>3. stack'[n] = g
    BY <1>2, <1>6, Zenon
  <2> HIDE DEF g
  <2>. QED
    BY <1>3, <1>7, <2>1, <2>2, <2>3, Zenon DEF MovesTo
<1>9. Recorded(sign') /\ Keeps(sign, sign')
  <2>1. CASE Chunked = {}
    BY <1>1, <2>1, Zenon
  <2>2. CASE Chunked # {}
    <3> DEFINE j == CHOOSE i \in Chunked : TRUE
    <3>1. j \in DOMAIN stack
      BY <2>2 DEF Chunked
    <3>2. stack[j].cb \in DOMAIN Callbacks
      <4>1. stack[j] \in FrameType
        BY <1>2, <3>1, ElementOfSeq
      <4>. QED
        BY <4>1, FrameFields, Zenon
    <3>3. sign' = Effect(d, Callbacks[stack[j].cb].chunk, Slice(stack[j].start, p))
      BY <1>1, <2>2, Zenon DEF Tell
    <3> HIDE DEF j
    <3>4. Recorded(sign') /\ Keeps(d, sign')
      BY <3>2, <3>3, ChunkKeeps, Zenon
    <3>. QED
      BY <3>4, KeepsAgain, Zenon
  <2>. QED
    BY <2>1, <2>2
<1>10. /\ g.cb \in {"transaction", "raw", "input"} => g.field_idx = stack[n].field_idx
       /\ g.cb = "inputs" => Alike(stack[n], g)
  <2>1. g.cb = Top.cb
    BY <1>5
  <2>2. Top.cb \in {"transaction", "raw", "input", "inputs"} => g.field_idx = Top.field_idx
    BY <1>2, <1>5
  <2>3. /\ g.type = Top.type /\ g.state_num = Top.state_num /\ g.nums = Top.nums
    BY <1>5, Zenon
  <2> HIDE DEF g
  <2>. QED
    BY <2>1, <2>2, <2>3 DEF Alike, Top
<1>11. Tallied(stack', sign')
  <2> HIDE DEF g
  <2>. QED
    BY <1>2, <1>8, <1>9, <1>10, StayTally, Zenon
<1>12. Ended'
  BY <1>1 DEF Ended
<1>. QED
  BY <1>11, <1>12, Zenon DEF CountInv

\* The parser calls that of a part.
LEMMA CallCount ==
  ASSUME Application, Inv, CountInv, phase = "parsing", Inv', NEW k, NEW size,
         CallPart(k, size), k = Part(Top), k \in DOMAIN Fields,
         Top.cb = "inputs" => Top.state_num = 3 /\ Top.field_idx < Items(Top)
  PROVE  CountInv'
<1> DEFINE n == Len(stack)  g == Frame(Fields[k], Sub(Top.cb, k), size, pos, sign)
<1>1. stack' = Append(stack, g) /\ sign' = sign /\ phase' = "parsing"
  BY DEF CallPart
<1>2. /\ stack \in Seq(FrameType) /\ stack # <<>> /\ n \in DOMAIN stack /\ Tallied(stack, sign)
      /\ n \in Nat
  BY TopTally
<1>3. stack' \in Seq(FrameType)
  BY DEF Inv, TypeOK
<1>4. /\ g.type = Fields[k] /\ g.cb = Sub(Top.cb, k) /\ g.field_idx = 0 /\ g.state_num = 0
  BY DEF Frame
<1>5. g \in FrameType
  <2>1. Len(stack') = n + 1 /\ stack'[n + 1] = g
    <3> HIDE DEF g
    <3>. QED
      BY <1>1, <1>2
  <2>. QED
    BY <1>2, <1>3, <2>1, ElementOfSeq
<1> HIDE DEF g
<1>6. Linked(stack[n], g)
  BY <1>4, Zenon DEF Linked, Fields, Top
<1>7. stack[n].cb = "inputs" => stack[n].state_num = 3 /\ stack[n].field_idx < Items(stack[n])
  BY Zenon DEF Top
<1>8. Tallied(Append(stack, g), sign)
  BY <1>2, <1>4, <1>5, <1>6, <1>7, PushTally, Zenon
<1>9. Tallied(stack', sign')
  BY <1>1, <1>8, Zenon
<1>10. Ended'
  BY <1>1 DEF Ended
<1>. QED
  BY <1>9, <1>10, Zenon DEF CountInv

\* A vector that has read its header knows how many items it has.
LEMMA ItemsType ==
  ASSUME NEW f \in FrameType, NEW p, NEW w, FrameInv(f, p, w), Types[f.type].kind = "dynvec",
         f.state_num = 3
  PROVE  Items(f) \in Nat
<1>1. f.nums \in Seq(Num) /\ Len(f.nums) = 2
  BY FrameFields DEF FrameInv, Shape
<1>2. f.nums[2] \in Int
  <2>1. f.nums[2] \in Num
    BY <1>1, ElementOfSeq
  <2>. QED
    BY <2>1, NumFacts
<1> DEFINE n == (f.nums[2] \div NUM) - 1
<1>3. n \in Int
  BY <1>2 DEF NUM
<1>4. Items(f) = n % MOD
  BY DEF Items
<1> HIDE DEF n
<1>5. n % MOD \in Num
  BY <1>3, WrapType
<1>. QED
  BY <1>4, <1>5, NumFacts

\* The parsers beneath the top are at their items, or at a part they have.
LEMMA WaitingFacts ==
  ASSUME Application, Inv, CountInv, phase = "parsing", NEW i \in DOMAIN stack, i < Len(stack)
  PROVE  /\ stack[i].cb = "inputs" => stack[i].state_num = 3 /\ Items(stack[i]) \in Nat
         /\ stack[i].cb = "input" => stack[i].field_idx <= 1
<1> DEFINE f == stack[i]
<1>1. /\ stack \in Seq(FrameType) /\ Lineage(stack) /\ DOMAIN stack = 1 .. Len(stack)
      /\ Len(stack) \in Nat
  BY TopTally
<1>2. WayTypes /\ Named(f)
  BY <1>1, WayFacts, Zenon DEF Lineage
<1>3. f \in FrameType /\ FrameInv(f, pos, wire) /\ Waiting(f)
  <2>1. f \in FrameType
    BY <1>1, ElementOfSeq
  <2>. QED
    BY <2>1, Zenon DEF Inv, Beneath
<1>4. /\ f.state_num \in 0 .. 3 /\ f.nums \in Seq(Num) /\ Len(f.nums) \in Nat
      /\ f.field_idx \in Nat
  <2> HIDE DEF f
  <2>. QED
    BY <1>3, FrameFields
<1>5. i + 1 \in DOMAIN stack /\ i + 1 > 1 /\ (i + 1) - 1 = i
  BY <1>1
<1>6. Part(f) \in DOMAIN Types[f.type].fields
  <2>1. Linked(stack[(i + 1) - 1], stack[i + 1])
    BY <1>1, <1>5, Zenon DEF Lineage
  <2>. QED
    BY <1>5, <2>1, Zenon DEF Linked
<1> HIDE DEF f
<1>7. CASE f.cb = "inputs"
  <2>1. Types[f.type].kind = "dynvec"
    BY <1>2, <1>7, Zenon DEF Named, WayTypes
  <2>2. f.state_num = 3
    BY <1>3, <1>4, <2>1 DEF Waiting, IsReading, HeaderEnd
  <2>3. Items(f) \in Nat
    BY <1>3, <2>1, <2>2, ItemsType, Zenon
  <2>. QED
    BY <1>7, <2>2, <2>3 DEF f
<1>8. CASE f.cb = "input"
  <2>1. /\ f.type = "AnnotatedCellInput" /\ Types[f.type].kind = "table"
        /\ Len(Types[f.type].fields) = 2
    BY <1>2, <1>8, Zenon DEF Named, WayTypes
  <2>2. Part(f) = f.field_idx + 1
    BY <2>1 DEF Part
  <2>3. Types[f.type].fields \in Seq(DOMAIN Types)
    BY <1>3, FrameFields, TypesAssumption
  <2>4. f.field_idx <= 1
    <3> DEFINE t == Types[f.type].fields
    <3>1. t \in Seq(DOMAIN Types) /\ Len(t) = 2 /\ f.field_idx + 1 \in DOMAIN t
      BY <1>6, <2>1, <2>2, <2>3, Zenon
    <3> HIDE DEF t
    <3>2. DOMAIN t = 1 .. 2
      BY <3>1
    <3>3. f.field_idx + 1 \in 1 .. 2
      BY <3>1, <3>2, Zenon
    <3>. QED
      BY <1>4, <3>3
  <2>. QED
    BY <1>8, <2>4 DEF f
<1>. QED
  BY <1>7, <1>8 DEF f

\* The parser at the top returns.
LEMMA ReturnCount ==
  ASSUME Application, Inv, CountInv, phase = "parsing", Inv', NEW p, NEW d, Return(p, d),
         Recorded(d), Counted(Top, sign, d), Finished(Top, sign)
  PROVE  CountInv'
<1> DEFINE m == Len(stack)  n == m - 1
<1>1. /\ stack \in Seq(FrameType) /\ stack # <<>> /\ m \in DOMAIN stack /\ Tallied(stack, sign)
      /\ m \in Nat /\ m > 0
  BY TopTally
<1>2. stack' \in Seq(FrameType)
  BY DEF Inv, TypeOK
<1>3. Finished(stack[m], sign) /\ Top = stack[m]
  BY Zenon DEF Top
<1>4. CASE m = 1
  <2>1. stack' = <<>> /\ phase' = "COMPLETE" /\ sign' = d
    BY <1>4, Zenon DEF Return
  <2>2. Tallied(<<>>, d)
    <3>1. Finished(stack[1], sign) /\ Counted(stack[1], sign, d)
      BY <1>3, <1>4, Zenon
    <3>. QED
      BY <1>1, <1>4, <3>1, LastReturn, Zenon
  <2>3. Ended'
    BY <2>1 DEF Ended
  <2>. QED
    BY <2>1, <2>2, <2>3, Zenon DEF CountInv
<1>5. CASE m # 1
  <2> DEFINE f == [stack[n] EXCEPT !.field_idx = @ + 1]
             h == InitPart(d, f, f.field_idx + 1)
             e == Call(h, Callbacks[f.cb].index, <<f.field_idx>>)
  <2>1. /\ stack' = [SubSeq(stack, 1, n) EXCEPT ![n] = f] /\ phase' = "parsing"
        /\ sign' = IF Types[f.type].kind = "option" THEN d ELSE e
    BY <1>5 DEF Return
  <2>2. /\ n \in Nat /\ n > 0 /\ n \in DOMAIN stack /\ m > 1 /\ n \in 1 .. m
    <3>1. DOMAIN stack = 1 .. m
      BY <1>1
    <3> HIDE DEF m
    <3>2. n \in Nat /\ n > 0 /\ m > 1 /\ n \in 1 .. m
      BY <1>1, <1>5
    <3>. QED
      BY <3>1, <3>2
  <2>3. stack[n] \in FrameType
    BY <1>1, <2>2, ElementOfSeq
  <2>4. /\ f.type = stack[n].type /\ f.cb = stack[n].cb /\ f.state_num = stack[n].state_num
        /\ f.nums = stack[n].nums /\ f.field_idx = stack[n].field_idx + 1
    BY <2>3 DEF FrameType
  <2>5. <<f.type, f.cb>> \in Uses /\ f.cb \in DOMAIN Callbacks
    <3>1. <<stack[n].type, stack[n].cb>> \in Uses
      BY <2>2, Zenon DEF Inv, TypeOK
    <3>2. stack[n].cb \in DOMAIN Callbacks
      BY <2>3, FrameFields, Zenon
    <3>. QED
      BY <2>4, <3>1, <3>2, Zenon
  <2> HIDE DEF f
  <2>6. Recorded(sign') /\ Keeps(d, sign')
    <3>1. Recorded(h) /\ Keeps(d, h)
      BY <2>5, InitKeeps, Zenon
    <3> HIDE DEF h
    <3>2. Recorded(e) /\ Keeps(h, e)
      BY <2>5, <3>1, SlotKeeps
    <3>3. Keeps(d, e)
      BY <3>1, <3>2, KeepsAgain, Zenon
    <3>4. Keeps(d, d)
      BY DEF Keeps
    <3> HIDE DEF e
    <3>. QED
      BY <2>1, <3>2, <3>3, <3>4
  <2> HIDE DEF h, e
  <2>7. Counted(stack[m], sign, sign')
    BY <1>3, <2>6, KeepsCounted, Zenon
  <2>8. ReturnsTo(stack, stack')
    <3> DEFINE s == SubSeq(stack, 1, n)
    <3>1. /\ s \in Seq(FrameType) /\ Len(s) = n /\ DOMAIN s = 1 .. n
          /\ \A i \in 1 .. n : s[i] = stack[i]
      BY <1>1, <2>2
    <3>2. stack' = [s EXCEPT ![n] = f] /\ n \in 1 .. n
      BY <2>1, <2>2
    <3> HIDE DEF s, n
    <3>3. DOMAIN stack' = 1 .. n
      BY <3>1, <3>2
    <3>4. Len(stack') = n
      BY <1>2, <2>2, <3>3
    <3>5. \A i \in 1 .. n : i # n => stack'[i] = stack[i]
      BY <3>1, <3>2
    <3>6. stack'[n] = f
      BY <3>1, <3>2
    <3>. QED
      BY <1>2, <2>4, <3>4, <3>5, <3>6, Zenon DEF ReturnsTo, n
  <2>9. /\ \A i \in DOMAIN stack : stack[i].cb = "inputs" /\ i < m =>
             stack[i].state_num = 3 /\ Items(stack[i]) \in Nat
        /\ \A i \in DOMAIN stack : stack[i].cb = "input" /\ i < m => stack[i].field_idx <= 1
    BY WaitingFacts, Zenon
  <2> HIDE DEF n
  <2>10. Tallied(stack', sign')
    BY <1>1, <1>3, <2>2, <2>6, <2>7, <2>8, <2>9, ReturnTally, Zenon
  <2>11. Ended'
    BY <2>1 DEF Ended
  <2>. QED
    BY <2>10, <2>11, Zenon DEF CountInv
<1>. QED
  BY <1>4, <1>5

\* A parser is done.
LEMMA DoneCount ==
  ASSUME Application, Inv, CountInv, phase = "parsing", Inv', NEW p, NEW d, Done(p, d),
         Recorded(d), Keeps(sign, d), Finished(Top, sign)
  PROVE  CountInv'
<1> DEFINE e == Tell(d, Top, p)  g == Call(e, Callbacks[Top.cb].end, <<>>)
<1>1. Return(p, g)
  BY Zenon DEF Done, Cb
<1>2. Top.cb \in DOMAIN Callbacks
  BY TopTally, Zenon
<1>3. Recorded(e) /\ Keeps(d, e)
  BY <1>2, ChunkKeeps, Zenon DEF Tell
<1>4. Keeps(sign, e)
  BY <1>3, KeepsAgain, Zenon
<1> HIDE DEF e
<1>5. Recorded(g) /\ Counted(Top, e, g)
  BY <1>2, <1>3, EndCounts, Zenon
<1> HIDE DEF g
<1>6. Counted(Top, sign, g)
  BY <1>4, <1>5, KeepsCounted, Zenon
<1>. QED
  BY <1>1, <1>5, <1>6, ReturnCount, Zenon

-----------------------------------------------------------------------------
(* The steps of the parser *)

\* A parser that is none of those that count may return at any time.
LEMMA FinishedElse ==
  ASSUME Application, Inv, CountInv, phase = "parsing",
         Types[Top.type].kind \notin {"table", "dynvec"}
  PROVE  Finished(Top, sign)
<1>1. /\ Top.cb \in {"transaction", "raw", "input", "source"} => Types[Top.type].kind = "table"
      /\ Top.cb = "inputs" => Types[Top.type].kind = "dynvec"
  BY TopTally, Zenon
<1>. QED
  BY <1>1 DEF Finished

\* Nothing is counted when nothing changes.
LEMMA SignKeeps ==
  ASSUME Application, Inv, CountInv, phase = "parsing"
  PROVE  Recorded(sign) /\ Keeps(sign, sign)
<1>1. Recorded(sign)
  BY TopTally, Zenon
<1>. QED
  BY <1>1 DEF Keeps

\* The end of a chunk, within a piece, counts nothing.
LEMMA CutCount ==
  ASSUME Application, Inv, CountInv, Inv', Cut PROVE CountInv'
<1> DEFINE f == [Top EXCEPT !.buffer = @ \o Slice(pos, limit)]
<1>1. phase = "parsing" /\ Suspend(f, limit, sign)
  BY Zenon DEF Cut
<1>2. Top \in FrameType
  BY <1>1, TopTally, Zenon
<1>3. /\ DOMAIN f = DOMAIN Top /\ f.type = Top.type /\ f.cb = Top.cb
      /\ f.state_num = Top.state_num /\ f.nums = Top.nums /\ f.field_idx = Top.field_idx
  BY <1>2 DEF FrameType
<1> HIDE DEF f
<1>. QED
  BY <1>1, <1>3, SignKeeps, SuspendCount, Zenon

\* mol_parse_fixed: the number of inputs announced, when it is the one at hand.
LEMMA ParseFixedCount ==
  ASSUME Application, Inv, CountInv, Inv', ParseFixed PROVE CountInv'
<1> DEFINE d == Call(sign, Callbacks[Top.cb].end, Taken)
<1>1. phase = "parsing" /\ Types[Top.type].kind = "fixed" /\ Return(pos + Wanted, d)
  BY Zenon DEF ParseFixed, Is, Cb
<1>2. Top.cb \in DOMAIN Callbacks /\ Recorded(sign)
  BY <1>1, TopTally, Zenon
<1>3. Recorded(d) /\ Counted(Top, sign, d)
  BY <1>2, EndCounts, Zenon
<1>4. Finished(Top, sign)
  BY <1>1, FinishedElse
<1> HIDE DEF d
<1>. QED
  BY <1>1, <1>3, <1>4, ReturnCount, Zenon

\* mol_parse_byte counts nothing.
LEMMA ParseByteCount ==
  ASSUME Application, Inv, CountInv, Inv', ParseByte PROVE CountInv'
<1> DEFINE d == Call(sign, Callbacks[Top.cb].end, Taken)
<1>1. phase = "parsing" /\ Types[Top.type].kind = "byte" /\ (Return(pos + 1, d) \/ Reject)
  BY Zenon DEF ParseByte, Is, Cb
<1>2. Top.cb \in DOMAIN Callbacks /\ Recorded(sign)
  BY <1>1, TopTally, Zenon
<1>3. Recorded(d) /\ Counted(Top, sign, d)
  BY <1>2, EndCounts, Zenon
<1>4. Finished(Top, sign)
  BY <1>1, FinishedElse
<1> HIDE DEF d
<1>. QED
  BY <1>1, <1>3, <1>4, ReturnCount, RejectCount, Zenon

\* A struct: its next field, or its end.
LEMMA ParseStructCount ==
  ASSUME Application, Inv, CountInv, Inv', ParseStruct PROVE CountInv'
<1> DEFINE k == Top.field_idx + 1
<1>1. /\ phase = "parsing" /\ Types[Top.type].kind = "struct"
      /\ \/ Reject
         \/ k \in DOMAIN Fields /\ CallPart(k, Types[Fields[k]].size)
         \/ Done(pos, sign)
  BY Zenon DEF ParseStruct, Is
<1>2. k = Part(Top) /\ Top.cb # "inputs"
  <2>1. k = Part(Top)
    BY <1>1 DEF Part
  <2>2. Top.cb = "inputs" => Types[Top.type].kind = "dynvec"
    BY <1>1, TopTally, Zenon
  <2>. QED
    BY <1>1, <2>1, <2>2
<1>3. Finished(Top, sign)
  BY <1>1, FinishedElse
<1> HIDE DEF k
<1>. QED
  BY <1>1, <1>2, <1>3, SignKeeps, DoneCount, CallCount, RejectCount, Zenon

\* An option: its item, or its end.
LEMMA ParseOptionCount ==
  ASSUME Application, Inv, CountInv, Inv', ParseOption PROVE CountInv'
<1>1. /\ phase = "parsing" /\ Types[Top.type].kind = "option"
      /\ CallPart(1, Top.size) \/ Done(pos, sign)
  BY Zenon DEF ParseOption, Is
<1>2. 1 = Part(Top) /\ Top.cb # "inputs"
  <2>1. 1 = Part(Top)
    BY <1>1 DEF Part
  <2>2. Top.cb = "inputs" => Types[Top.type].kind = "dynvec"
    BY <1>1, TopTally, Zenon
  <2>. QED
    BY <1>1, <2>1, <2>2
<1>3. Finished(Top, sign)
  BY <1>1, FinishedElse
<1>4. 1 \in DOMAIN Fields
  <2>1. <<Top.type, Top.cb>> \in Uses
    BY <1>1, TopFacts, Zenon
  <2>. QED
    BY <1>1, <2>1, UseFacts DEF Fields
<1>. QED
  BY <1>1, <1>2, <1>3, <1>4, SignKeeps, DoneCount, CallCount, Zenon

\* A table: its size.
LEMMA TableSizeCount ==
  ASSUME Application, Inv, CountInv, Inv', TableSize PROVE CountInv'
<1> DEFINE f == Top  b == <<>>  nums == Append(f.nums, Number)
           g == [f EXCEPT !.buffer = b, !.nums = nums, !.state_num = 1]
<1>1. /\ phase = "parsing" /\ Types[f.type].kind = "table"
      /\ Reject \/ Continue(g, pos + Wanted, sign)
  BY Zenon DEF TableSize, Is, Numbered
<1>2. f \in FrameType /\ (f.cb = "inputs" => Types[f.type].kind = "dynvec")
  BY <1>1, TopTally, Zenon
<1> HIDE DEF nums, b
<1>3. g.type = f.type /\ g.cb = f.cb /\ g.field_idx = f.field_idx
  BY <1>2 DEF FrameType
<1>4. f.cb # "inputs"
  BY <1>1, <1>2
<1> HIDE DEF g
<1>. QED
  BY <1>1, <1>3, <1>4, SignKeeps, StayCount, RejectCount, Zenon

\* A table: one of its offsets.
LEMMA TableOffsetCount ==
  ASSUME Application, Inv, CountInv, Inv', TableOffset PROVE CountInv'
<1> DEFINE f == Top  b == <<>>  nums == Append(f.nums, Number)
           g == [f EXCEPT !.buffer = b, !.nums = nums]
           h == [g EXCEPT !.state_num = 2]
           d == InitPart(sign, f, 1)
           e == Call(d, Callbacks[f.cb].offsets, g.nums)
<1>1. /\ phase = "parsing" /\ Types[f.type].kind = "table"
      /\ Continue(g, pos + Wanted, sign) \/ Continue(h, pos + Wanted, e)
  BY Zenon DEF TableOffset, Is, Numbered, Cb
<1>2. /\ f \in FrameType /\ (f.cb = "inputs" => Types[f.type].kind = "dynvec")
      /\ Recorded(sign) /\ <<f.type, f.cb>> \in Uses /\ f.cb \in DOMAIN Callbacks
  BY <1>1, TopTally, Zenon
<1> HIDE DEF nums, b
<1>3. /\ g.type = f.type /\ g.cb = f.cb /\ g.field_idx = f.field_idx
      /\ h.type = f.type /\ h.cb = f.cb /\ h.field_idx = f.field_idx
  BY <1>2 DEF FrameType
<1>4. f.cb # "inputs"
  BY <1>1, <1>2
<1>5. Recorded(d) /\ Keeps(sign, d)
  BY <1>2, InitKeeps, Zenon
<1> HIDE DEF d, h, g
<1>6. Recorded(e) /\ Keeps(d, e)
  BY <1>2, <1>5, SlotKeeps
<1>7. Keeps(sign, e)
  BY <1>5, <1>6, KeepsAgain, Zenon
<1> HIDE DEF e
<1>. QED
  BY <1>1, <1>3, <1>4, <1>6, <1>7, SignKeeps, StayCount, Zenon

\* A table: its next field, or its end, which for an input's source counts it.
LEMMA TableFieldCount ==
  ASSUME Application, Inv, CountInv, Inv', TableField PROVE CountInv'
<1> DEFINE f == Top
           k == f.field_idx + 1
           next == IF k < Len(Fields) THEN f.nums[k + 2] ELSE f.nums[1]
           size == (next - f.nums[k + 1]) % MOD
<1>1. /\ phase = "parsing" /\ Types[f.type].kind = "table"
      /\ IF k \in DOMAIN Fields THEN CallPart(k, size) ELSE Done(pos, sign)
  BY Zenon DEF TableField, Is
<1>2. /\ f \in FrameType /\ (f.cb = "inputs" => Types[f.type].kind = "dynvec")
      /\ Named(f) /\ CountsAt(stack, Len(stack), sign) /\ <<f.type, f.cb>> \in Uses
  BY <1>1, TopTally, Zenon
<1>3. f.cb # "inputs"
  BY <1>1, <1>2
<1>4. k = Part(f)
  BY <1>1 DEF Part
<1>5. f.field_idx \in Nat
  BY <1>2, FrameFields, Zenon
<1>6. CASE k \in DOMAIN Fields
  <2>1. CallPart(k, size)
    BY <1>1, <1>6, Zenon
  <2> HIDE DEF size, k
  <2>. QED
    BY <1>1, <1>3, <1>4, <1>6, <2>1, CallCount, Zenon
<1>7. CASE k \notin DOMAIN Fields
  <2>1. Done(pos, sign)
    BY <1>1, <1>7, Zenon
  <2>2. WayTypes
    BY WayFacts
  <2>3. /\ f.cb = "transaction" => Len(Fields) = 5
        /\ f.cb = "raw" => Len(Fields) = 6
        /\ f.cb = "input" => Len(Fields) = 2
    BY <1>2, <2>2, Zenon DEF Named, WayTypes, Fields
  <2>4. DOMAIN Fields = 1 .. Len(Fields) /\ Len(Fields) \in Nat
    <3>1. Fields \in Seq(DOMAIN Types)
      BY <1>2, UseFacts, Zenon DEF Fields
    <3>. QED
      BY <3>1
  <2>5. f.cb = "input" => f.field_idx <= 2
    BY <1>2, Zenon DEF CountsAt, Top
  <2>6. Finished(f, sign)
    <3>1. f.field_idx + 1 > Len(Fields)
      <4> HIDE DEF f
      <4>. QED
        BY <1>5, <1>7, <2>4
    <3> DEFINE i == f.field_idx  n == Len(Fields)
    <3>2. i \in Nat /\ i + 1 > n
      BY <1>5, <3>1, Zenon
    <3>3. /\ f.cb = "transaction" => n = 5
          /\ f.cb = "raw" => n = 6
          /\ f.cb = "input" => n = 2 /\ i <= 2
      BY <2>3, <2>5, Zenon
    <3> HIDE DEF f, k, i, n
    <3>4. /\ f.cb \in {"transaction", "raw"} => i > 3
          /\ f.cb = "input" => i = 2
      BY <3>2, <3>3
    <3>. QED
      BY <1>3, <3>4, Zenon DEF Finished, i
  <2>. QED
    BY <1>1, <2>1, <2>6, SignKeeps, DoneCount, Zenon
<1>. QED
  BY <1>6, <1>7

\* A fixvec: its length.
LEMMA FixVecLengthCount ==
  ASSUME Application, Inv, CountInv, Inv', FixVecLength PROVE CountInv'
<1> DEFINE f == Top  b == <<>>  nums == Append(f.nums, Number)
           g == [f EXCEPT !.buffer = b, !.nums = nums, !.state_num = 1]
           size == Number * Types[f.type].size + NUM
           d == Call(sign, Callbacks[f.cb].size, <<size>>)
           h == InitPart(d, f, 1)
           e == Call(h, Callbacks[f.cb].index, <<0>>)
<1>1. /\ phase = "parsing" /\ Types[f.type].kind = "fixvec"
      /\ Reject \/ Continue(g, pos + Wanted, e)
  BY Zenon DEF FixVecLength, Is, Numbered, Cb
<1>2. /\ f \in FrameType /\ (f.cb = "inputs" => Types[f.type].kind = "dynvec")
      /\ Recorded(sign) /\ <<f.type, f.cb>> \in Uses /\ f.cb \in DOMAIN Callbacks
  BY <1>1, TopTally, Zenon
<1> HIDE DEF nums, b, size
<1>3. g.type = f.type /\ g.cb = f.cb /\ g.field_idx = f.field_idx
  BY <1>2 DEF FrameType
<1>4. f.cb # "inputs"
  BY <1>1, <1>2
<1> HIDE DEF g
<1>5. Recorded(d) /\ Keeps(sign, d)
  BY <1>2, SlotKeeps
<1> HIDE DEF d
<1>6. Recorded(h) /\ Keeps(d, h)
  BY <1>2, <1>5, InitKeeps, Zenon
<1> HIDE DEF h
<1>7. Recorded(e) /\ Keeps(h, e)
  BY <1>2, <1>6, SlotKeeps
<1>8. Keeps(sign, e)
  BY <1>5, <1>6, <1>7, KeepsAgain, Zenon
<1> HIDE DEF e
<1>. QED
  BY <1>1, <1>3, <1>4, <1>7, <1>8, StayCount, RejectCount, Zenon

\* A vector parses its item, or is done.
LEMMA FixVecItemCount ==
  ASSUME Application, Inv, CountInv, Inv', FixVecItem PROVE CountInv'
<1>1. /\ phase = "parsing" /\ Types[Top.type].kind = "fixvec"
      /\ CallPart(1, Types[Top.type].size) \/ Done(pos, sign)
  BY Zenon DEF FixVecItem, Is
<1>2. 1 = Part(Top) /\ Top.cb # "inputs"
  <2>1. 1 = Part(Top)
    BY <1>1 DEF Part
  <2>2. Top.cb = "inputs" => Types[Top.type].kind = "dynvec"
    BY <1>1, TopTally, Zenon
  <2>. QED
    BY <1>1, <2>1, <2>2
<1>3. Finished(Top, sign)
  BY <1>1, FinishedElse
<1>4. 1 \in DOMAIN Fields
  <2>1. <<Top.type, Top.cb>> \in Uses
    BY <1>1, TopFacts, Zenon
  <2>. QED
    BY <1>1, <2>1, UseFacts DEF Fields
<1>. QED
  BY <1>1, <1>2, <1>3, <1>4, SignKeeps, DoneCount, CallCount, Zenon

\* Bytes: their length.
LEMMA BytesLengthCount ==
  ASSUME Application, Inv, CountInv, Inv', BytesLength PROVE CountInv'
<1> DEFINE f == Top  b == <<>>  nums == Append(f.nums, Number)
           g == [f EXCEPT !.buffer = b, !.nums = nums, !.state_num = 1]
           size == Number + NUM
           d == Call(sign, Callbacks[f.cb].size, <<size>>)
<1>1. /\ phase = "parsing" /\ Types[f.type].kind = "bytes"
      /\ Reject \/ Continue(g, pos + Wanted, d)
  BY Zenon DEF BytesLength, Is, Numbered, Cb
<1>2. /\ f \in FrameType /\ (f.cb = "inputs" => Types[f.type].kind = "dynvec")
      /\ Recorded(sign) /\ f.cb \in DOMAIN Callbacks
  BY <1>1, TopTally, Zenon
<1> HIDE DEF nums, b, size
<1>3. g.type = f.type /\ g.cb = f.cb /\ g.field_idx = f.field_idx
  BY <1>2 DEF FrameType
<1>4. f.cb # "inputs"
  BY <1>1, <1>2
<1> HIDE DEF g
<1>5. Recorded(d) /\ Keeps(sign, d)
  BY <1>2, SlotKeeps
<1> HIDE DEF d
<1>. QED
  BY <1>1, <1>3, <1>4, <1>5, StayCount, RejectCount, Zenon

\* Bytes: what there is of them, or their end.
LEMMA BytesBodyCount ==
  ASSUME Application, Inv, CountInv, Inv', BytesBody PROVE CountInv'
<1> DEFINE f == Top
           needed == f.nums[1] - f.field_idx
           copy == IF needed < Available THEN needed ELSE Available
           i == f.field_idx + copy
           g == [f EXCEPT !.field_idx = i]
           e == Call(sign, Callbacks[f.cb].body_chunk, Slice(pos, pos + copy))
           d == IF needed = 0 THEN sign ELSE e
<1>1. /\ phase = "parsing" /\ Types[f.type].kind = "bytes"
      /\ Done(pos + copy, d) \/ Suspend(g, pos + copy, d)
  BY Zenon DEF BytesBody, Is, Cb
<1>2. /\ f \in FrameType /\ Recorded(sign) /\ f.cb \in DOMAIN Callbacks
  BY <1>1, TopTally, Zenon
<1> HIDE DEF copy, needed, i
<1>3. /\ DOMAIN g = DOMAIN f /\ g.type = f.type /\ g.cb = f.cb
      /\ g.state_num = f.state_num /\ g.nums = f.nums
  BY <1>2 DEF FrameType
<1> HIDE DEF g
<1>4. Recorded(e) /\ Keeps(sign, e)
  BY <1>2, SlotKeeps
<1> HIDE DEF e
<1>5. Recorded(d) /\ Keeps(sign, d)
  BY <1>1, <1>4, SignKeeps, Zenon
<1>6. Finished(Top, sign)
  BY <1>1, FinishedElse
<1>7. Types[f.type].kind \notin {"table", "dynvec"}
  BY <1>1
<1> HIDE DEF d
<1>. QED
  BY <1>1, <1>3, <1>5, <1>6, <1>7, DoneCount, SuspendCount, Zenon

\* The vector of the inputs, before it has read its header.
LEMMA InputsUnread ==
  ASSUME Application, Inv, CountInv, phase = "parsing", Top.cb = "inputs", Top.state_num < 3
  PROVE  SourcesHashed(sign) = 0 /\ Settled(sign)
<1>1. CountsAt(stack, Len(stack), sign)
  BY TopTally, Zenon
<1>2. SourcesHashed(sign) = 0
  BY <1>1, Zenon DEF CountsAt, Top
<1>. QED
  BY <1>2 DEF Settled

\* A dynvec: its size; that of no inputs is settled at once.
LEMMA DynVecSizeCount ==
  ASSUME Application, Inv, CountInv, Inv', DynVecSize PROVE CountInv'
<1> DEFINE f == Top  b == <<>>  nums == Append(f.nums, Number)
           g == [f EXCEPT !.buffer = b, !.nums = nums, !.state_num = 1]
           d == Call(sign, Callbacks[f.cb].size, <<Number>>)
<1>1. /\ phase = "parsing" /\ Types[f.type].kind = "dynvec" /\ f.state_num = 0
      /\ Reject \/ Done(pos + Wanted, d) \/ Continue(g, pos + Wanted, d)
  BY Zenon DEF DynVecSize, Is, Numbered, Cb
<1>2. /\ f \in FrameType /\ Recorded(sign) /\ f.cb \in DOMAIN Callbacks
      /\ stack \in Seq(FrameType) /\ Len(stack) \in DOMAIN stack
      /\ f.cb \in {"transaction", "raw", "input", "source"} => Types[f.type].kind = "table"
  BY <1>1, TopTally, Zenon
<1> HIDE DEF nums, b
<1>3. g.type = f.type /\ g.cb = f.cb /\ g.field_idx = f.field_idx /\ g.state_num = 1
  BY <1>2 DEF FrameType
<1> HIDE DEF g
<1>4. Recorded(d) /\ Keeps(sign, d)
  BY <1>2, SlotKeeps
<1> HIDE DEF d
<1>5. f.cb = "inputs" => SourcesHashed(sign) = 0 /\ Settled(sign)
  BY <1>1, InputsUnread
<1>6. CASE Reject
  BY <1>6, RejectCount, Zenon
<1>7. CASE Done(pos + Wanted, d)
  <2>1. Finished(f, sign)
    BY <1>1, <1>2, <1>5 DEF Finished
  <2>. QED
    BY <1>1, <1>4, <1>7, <2>1, DoneCount, Zenon
<1>8. CASE Continue(g, pos + Wanted, d)
  <2>1. CASE f.cb # "inputs"
    BY <1>1, <1>3, <1>4, <1>8, <2>1, StayCount, Zenon
  <2>2. CASE f.cb = "inputs"
    <3>1. stack'[Len(stack)] = g
      BY <1>2, <1>8 DEF Continue
    <3>2. SourcesHashed(d) = 0
      BY <1>4, <1>5, <2>2, Zenon DEF Keeps
    <3>3. CountsAt(stack', Len(stack), d)
      <4>1. g.cb = "inputs" /\ g.state_num = 1
        BY <1>3, <2>2, Zenon
      <4> HIDE DEF f
      <4>. QED
        BY <3>1, <3>2, <4>1 DEF CountsAt
    <3>. QED
      BY <1>1, <1>3, <1>4, <1>8, <3>3, ContinueCount, Zenon
  <2>. QED
    BY <2>1, <2>2
<1>. QED
  BY <1>1, <1>6, <1>7, <1>8

\* A dynvec: one of its offsets, after the last of which the inputs are compared with the
\* number announced (blake2b_input_count).
LEMMA DynVecOffsetCount ==
  ASSUME Application, Inv, CountInv, Inv', DynVecOffset PROVE CountInv'
<1> DEFINE f == Top  q == pos + Wanted
           read == IF Top.state_num = 1 THEN [Numbered EXCEPT !.field_idx = 1]
                   ELSE [Top EXCEPT !.buffer = <<>>, !.field_idx = @ + 1]
           h == InitPart(sign, f, 1)
           d == Call(h, Callbacks[f.cb].length, <<Items(read)>>)
           e == Call(d, Callbacks[f.cb].index, <<0>>)
           more == [read EXCEPT !.state_num = 2]
           full == [read EXCEPT !.state_num = 3, !.field_idx = 0]
<1>1. /\ phase = "parsing" /\ Types[f.type].kind = "dynvec" /\ f.state_num \in {1, 2}
  BY DEF DynVecOffset, Is
<1>2. Continue(more, q, sign) \/ Continue(full, q, e)
  BY Zenon DEF DynVecOffset, Cb
<1>3. PICK nums \in Seq(Num), s \in 0 .. 3, i \in Nat :
        Len(nums) = 2 /\ HeaderIs(f, read, nums, s, i)
  BY OffsetRead
<1>4. /\ f \in FrameType /\ <<f.type, f.cb>> \in Uses /\ f.cb \in DOMAIN Callbacks
      /\ Recorded(sign) /\ stack \in Seq(FrameType) /\ Len(stack) \in DOMAIN stack
      /\ f.cb \in {"transaction", "raw", "input", "source"} => Types[f.type].kind = "table"
  BY <1>1, TopTally, Zenon
<1> HIDE DEF read, q
<1>5. HeaderIs(f, more, nums, 2, i)
  <2>1. 2 \in 0 .. 3 /\ more = [read EXCEPT !.state_num = 2]
    OBVIOUS
  <2> HIDE DEF more, f
  <2>. QED
    BY <1>3, <2>1, HeaderState, Zenon
<1>6. HeaderIs(f, full, nums, 3, 0)
  <2>1. 3 \in 0 .. 3 /\ 0 \in Nat /\ full = [read EXCEPT !.state_num = 3, !.field_idx = 0]
    OBVIOUS
  <2> HIDE DEF full, f
  <2>. QED
    BY <1>3, <2>1, HeaderBoth, Zenon
<1> HIDE DEF more, full
<1>7. Items(full) = Items(read) /\ Items(full) \in Nat
  <2>1. full.nums = nums /\ read.nums = nums
    BY <1>3, <1>6, Zenon DEF HeaderIs
  <2>2. nums[2] \in Int
    <3>1. nums \in Seq(Num) /\ 2 \in 1 .. Len(nums)
      <4>1. 2 \in 1 .. 2
        OBVIOUS
      <4>. QED
        BY <1>3, <4>1, Zenon
    <3>2. nums[2] \in Num
      BY <3>1, ElementOfSeq, Zenon
    <3>. QED
      BY <3>2, NumFacts
  <2> DEFINE n == (nums[2] \div NUM) - 1
  <2>3. n \in Int
    BY <2>2 DEF NUM
  <2>4. Items(full) = n % MOD /\ Items(read) = n % MOD
    BY <2>1 DEF Items
  <2> HIDE DEF n
  <2>5. n % MOD \in Num
    BY <2>3, WrapType
  <2>. QED
    BY <2>4, <2>5, NumFacts
<1>8. Recorded(h) /\ Keeps(sign, h)
  BY <1>4, InitKeeps, Zenon
<1> HIDE DEF h
<1>9. Recorded(d) /\ Keeps(h, d)
  BY <1>4, <1>8, SlotKeeps
<1>10. f.cb = "inputs" => d.hard_reject \/ d.input_count = Items(full)
  <2>1. f.cb = "inputs" => Callbacks[f.cb].length = "blake2b_input_count"
    BY <1>4, Tables, Zenon DEF TableIs
  <2> DEFINE arg == <<Items(read)>>
  <2>2. arg[1] = Items(full)
    BY <1>7
  <2> HIDE DEF arg
  <2>3. LET g == Call(h, "blake2b_input_count", arg) IN g.hard_reject \/ g.input_count = arg[1]
    BY <1>8, CallTally, Zenon
  <2>. QED
    BY <2>1, <2>2, <2>3, Zenon DEF arg
<1> HIDE DEF d
<1>11. Recorded(e) /\ Keeps(d, e)
  BY <1>4, <1>9, SlotKeeps
<1> HIDE DEF e
<1>12. Keeps(sign, e)
  BY <1>8, <1>9, <1>11, KeepsAgain, Zenon
<1>13. f.cb = "inputs" => SourcesHashed(sign) = 0 /\ SourcesHashed(e) = 0
                          /\ (e.hard_reject \/ e.input_count = Items(full))
  <2>1. f.state_num < 3
    <3> HIDE DEF f
    <3>. QED
      BY <1>1
  <2>2. f.cb = "inputs" => SourcesHashed(sign) = 0
    BY <1>1, <2>1, InputsUnread
  <2>. QED
    BY <1>10, <1>11, <1>12, <2>2, Zenon DEF Keeps
<1>14. f.cb \notin {"transaction", "raw", "input"}
  BY <1>1, <1>4
<1>15. CASE Continue(more, q, sign)
  <2>1. stack'[Len(stack)] = more
    BY <1>4, <1>15 DEF Continue
  <2>2. more.type = f.type /\ more.cb = f.cb /\ more.state_num = 2
    BY <1>5, Zenon DEF HeaderIs
  <2>3. CountsAt(stack', Len(stack), sign)
    <3> HIDE DEF f
    <3>. QED
      BY <1>13, <1>14, <2>1, <2>2 DEF CountsAt
  <2>. QED
    BY <1>1, <1>15, <2>2, <2>3, SignKeeps, ContinueCount, Zenon
<1>16. CASE Continue(full, q, e)
  <2>1. stack'[Len(stack)] = full /\ Len(stack') = Len(stack)
    BY <1>4, <1>16 DEF Continue
  <2>2. full.type = f.type /\ full.cb = f.cb /\ full.state_num = 3 /\ full.field_idx = 0
    BY <1>6, Zenon DEF HeaderIs
  <2>3. 0 <= Items(full)
    BY <1>7
  <2>4. CountsAt(stack', Len(stack), e)
    <3> HIDE DEF f
    <3>1. CASE full.cb = "inputs"
      <4>1. /\ SourcesHashed(e) = 0 /\ (e.hard_reject \/ e.input_count = Items(full))
            /\ ~(3 < 3)
        BY <1>13, <2>2, <3>1
      <4>. QED
        BY <2>1, <2>2, <2>3, <3>1, <4>1, Zenon DEF CountsAt
    <3>2. CASE full.cb # "inputs"
      BY <1>14, <2>1, <2>2, <3>2 DEF CountsAt
    <3>. QED
      BY <3>1, <3>2
  <2>. QED
    BY <1>1, <1>11, <1>12, <1>16, <2>2, <2>4, ContinueCount, Zenon
<1>. QED
  BY <1>2, <1>15, <1>16

\* A dynvec: its next item, or its end, with all the inputs counted.
LEMMA DynVecItemCount ==
  ASSUME Application, Inv, CountInv, Inv', DynVecItem PROVE CountInv'
<1> DEFINE f == Top
<1>1. /\ phase = "parsing" /\ Types[f.type].kind = "dynvec" /\ f.state_num = 3
      /\ IF f.field_idx < Items(f) THEN CallPart(1, MOL_NUM_MAX) ELSE Done(pos, sign)
  BY Zenon DEF DynVecItem, Is
<1>2. /\ f \in FrameType /\ <<f.type, f.cb>> \in Uses /\ CountsAt(stack, Len(stack), sign)
      /\ f.cb \in {"transaction", "raw", "input", "source"} => Types[f.type].kind = "table"
      /\ Recorded(sign)
  BY <1>1, TopTally, Zenon
<1>3. CASE f.field_idx < Items(f)
  <2>1. 1 = Part(f)
    BY <1>1 DEF Part
  <2>2. 1 \in DOMAIN Fields
    BY <1>1, <1>2, UseFacts DEF Fields
  <2>3. CallPart(1, MOL_NUM_MAX)
    BY <1>1, <1>3
  <2>. QED
    BY <1>1, <1>3, <2>1, <2>2, <2>3, CallCount, Zenon
<1>4. CASE ~(f.field_idx < Items(f))
  <2>1. f.cb = "inputs" =>
          /\ sign.hard_reject \/ sign.input_count = Items(f)
          /\ SourcesHashed(sign) = f.field_idx /\ f.field_idx <= Items(f)
    BY <1>1, <1>2, Zenon DEF CountsAt, Top
  <2>2. f.cb = "inputs" => Settled(sign)
    <3>1. SUFFICES ASSUME f.cb = "inputs" PROVE Settled(sign)
      OBVIOUS
    <3>2. f.field_idx \in Nat
      BY <1>2, FrameFields, Zenon
    <3>3. Items(f) \in Int
      <4>1. FrameInv(f, pos, wire)
        BY <1>1, TopFacts, Zenon
      <4>2. Items(f) \in Nat
        BY <1>1, <1>2, <4>1, ItemsType, Zenon
      <4>. QED
        BY <4>2
    <3>4. f.field_idx = Items(f)
      <4> HIDE DEF f
      <4>. QED
        BY <1>4, <2>1, <3>1, <3>2, <3>3
    <3>. QED
      BY <2>1, <3>1, <3>4 DEF Settled
  <2>3. Finished(f, sign)
    BY <1>1, <1>2, <2>2 DEF Finished
  <2>4. Done(pos, sign)
    BY <1>1, <1>4
  <2>. QED
    BY <1>1, <2>3, <2>4, SignKeeps, DoneCount, Zenon
<1>. QED
  BY <1>3, <1>4

\* A step of the parser keeps the count.
LEMMA ParseStepCount ==
  ASSUME Application, Inv, CountInv, Inv', ParseStep PROVE CountInv'
BY CutCount, ParseFixedCount, ParseByteCount, ParseStructCount, ParseOptionCount,
   TableSizeCount, TableOffsetCount, TableFieldCount, FixVecLengthCount, FixVecItemCount,
   BytesLengthCount, BytesBodyCount, DynVecSizeCount, DynVecOffsetCount, DynVecItemCount,
   Zenon DEF ParseStep

-----------------------------------------------------------------------------
(* The chunks, and the theorem *)

\* At the beginning nothing is counted.
LEMMA OutermostTally ==
  ASSUME NEW d, Recorded(d), SourcesHashed(d) = 0 PROVE Tallied(Outermost, d)
<1> DEFINE f == Frame("AnnotatedTransaction", "transaction", MOL_NUM_MAX, 0, Zeroed)
<1>1. f.type = "AnnotatedTransaction" /\ f.cb = "transaction" /\ f.field_idx = 0
  BY DEF Frame
<1> HIDE DEF f
<1>2. Outermost = <<f>>
  BY DEF Outermost, f
<1>3. DOMAIN Outermost = {1} /\ Outermost[1] = f /\ Outermost # <<>>
  BY <1>2
<1>4. Lineage(Outermost)
  BY <1>1, <1>3 DEF Lineage, Named
<1>5. CountsAt(Outermost, 1, d)
  BY <1>1, <1>3 DEF CountsAt
<1>. QED
  BY <1>3, <1>4, <1>5 DEF Tallied

\* A reset counts from the beginning.
LEMMA ClearedCount == Cleared => CountInv'
<1>. SUFFICES ASSUME Cleared PROVE CountInv'
  OBVIOUS
<1>1. stack' = Outermost /\ sign' = Zeroed /\ phase' = "idle"
  BY DEF Cleared
<1>2. Tallied(Outermost, Zeroed)
  BY ZeroedRecorded, OutermostTally
<1>3. Ended'
  BY <1>1 DEF Ended
<1>. QED
  BY <1>1, <1>2, <1>3, Zenon DEF CountInv

\* The device starts with nothing counted.
LEMMA InitCount == Init => CountInv
<1>. SUFFICES ASSUME Init PROVE CountInv
  OBVIOUS
<1>1. stack = Outermost /\ sign = Zeroed /\ phase = "idle"
  BY DEF Init
<1>2. Tallied(Outermost, Zeroed)
  BY ZeroedRecorded, OutermostTally
<1>3. Ended
  BY <1>1 DEF Ended
<1>. QED
  BY <1>1, <1>2, <1>3, Zenon DEF CountInv

\* The first chunk begins with nothing counted.
LEMMA FirstChunkCount ==
  ASSUME NEW w, NEW n, FirstChunk(w, n) PROVE CountInv'
<1> DEFINE b == w \in Rejected  d == [Zeroed EXCEPT !.rejected = b]
<1>1. stack' = Outermost /\ sign' = d /\ phase' = "parsing"
  BY Zenon DEF FirstChunk
<1> HIDE DEF b
<1>2. Recorded(d) /\ SourcesHashed(d) = 0
  BY ZeroedRecorded, Zenon
<1> HIDE DEF d
<1>3. Tallied(Outermost, d)
  BY <1>2, OutermostTally, Zenon
<1>4. Ended'
  BY <1>1 DEF Ended
<1>. QED
  BY <1>1, <1>3, <1>4, Zenon DEF CountInv

\* A further chunk counts nothing by itself.
LEMMA NextChunkCount ==
  ASSUME CountInv, NEW n, NextChunk(n) PROVE CountInv'
<1>1. Cleared \/ (phase' = "parsing" /\ stack' = stack /\ sign' = sign)
  BY DEF NextChunk
<1>2. ASSUME phase' = "parsing", stack' = stack, sign' = sign PROVE CountInv'
  <2>1. Ended'
    BY <1>2 DEF Ended
  <2>. QED
    BY <1>2, <2>1, Zenon DEF CountInv
<1>. QED
  BY <1>1, <1>2, ClearedCount

\* The end of a chunk counts nothing, and accepts only what was not refused.
LEMMA EndChunkCount ==
  ASSUME CountInv, NEW last, EndChunk(last) PROVE CountInv'
<1>1. \/ Cleared
      \/ phase = "COMPLETE" /\ ~sign.hard_reject /\ phase' = "valid" /\ UNCHANGED <<stack, sign>>
      \/ phase' = "idle" /\ UNCHANGED <<stack, sign>>
  BY DEF EndChunk
<1>2. ASSUME phase = "COMPLETE", ~sign.hard_reject, phase' = "valid", stack' = stack, sign' = sign
      PROVE  CountInv'
  <2>1. stack = <<>>
    BY <1>2, Zenon DEF CountInv, Ended
  <2>2. Ended'
    BY <1>2, <2>1, Zenon DEF Ended
  <2>. QED
    BY <1>2, <2>2, Zenon DEF CountInv
<1>3. ASSUME phase' = "idle", stack' = stack, sign' = sign PROVE CountInv'
  <2>1. Ended'
    BY <1>3 DEF Ended
  <2>. QED
    BY <1>3, <2>1, Zenon DEF CountInv
<1>. QED
  BY <1>1, <1>2, <1>3, ClearedCount

\* blake2b_input_count: with the types and the tables of the application, and whatever the
\* host sends in whatever chunks, the number of inputs that the offsets in the hash are
\* computed from is that of the inputs whose source transaction was hashed.
THEOREM CountCorrect == ASSUME Application PROVE Spec => []CountIsOfInputs
<1>1. Init => CountInv
  BY InitCount
<1>2. Inv /\ Inv' /\ CountInv /\ [Next]_vars => CountInv'
  <2>. SUFFICES ASSUME Inv, Inv', CountInv, [Next]_vars PROVE CountInv'
    OBVIOUS
  <2>1. CASE ParseStep
    BY <2>1, ParseStepCount
  <2>2. CASE \E w \in Wires, n \in Lens : FirstChunk(w, n)
    BY <2>2, FirstChunkCount
  <2>3. CASE \E n \in Lens : NextChunk(n)
    BY <2>3, NextChunkCount
  <2>4. CASE \E last \in BOOLEAN : EndChunk(last)
    BY <2>4, EndChunkCount
  <2>5. CASE Answered
    BY <2>5, ClearedCount DEF Answered
  <2>6. CASE UNCHANGED vars
    <3>1. stack' = stack /\ sign' = sign /\ phase' = phase
      BY <2>6 DEF vars
    <3>. QED
      BY <3>1, Zenon DEF CountInv, Ended
  <2>. QED
    BY <2>1, <2>2, <2>3, <2>4, <2>5, <2>6 DEF Next
<1>3. CountInv => CountIsOfInputs
  BY Zenon DEF CountInv, Ended, Tallied, Settled, CountIsOfInputs
<1>. QED
  BY <1>1, <1>2, <1>3, InvCorrect, PTL DEF Spec

=============================================================================

---------------------------- MODULE WitnessProof ----------------------------
(***************************************************************************)
(* What is hashed for the witnesses of a transaction, for any witnesses,   *)
(* any number of them and any chunks.                                      *)
(***************************************************************************)
EXTENDS WitnessProps, FoldingProof, SequenceTheorems

-----------------------------------------------------------------------------
(* Tokens *)

\* A kind and a few numbers are a token.
LEMMA TokenTypes ==
  /\ TxHash \in Token /\ ZeroWitness \in Token /\ <<"finished", <<>>>> \in Token
  /\ \A n \in Nat : Byte(n) \in Token /\ Length(n) \in Token /\ LockSize(n) \in Token
  /\ \A a, b, c, d \in Nat : Head4(a, b, c, d) \in Token
<1>1. \A n \in Nat : <<n>> \in Seq(Nat)
  OBVIOUS
<1>2. \A a, b, c, d \in Nat : <<a, b, c, d>> \in Seq(Nat)
  OBVIOUS
<1>3. <<>> \in Seq(Nat)
  OBVIOUS
<1> DEFINE kinds == {"finished", "transaction_hash", "length", "header",
                     "zero_witness", "size", "byte"}
           numbers == Seq(Nat)
<1>4. \A k \in kinds, q \in numbers : <<k, q>> \in Token
  BY DEF Token
<1>5. /\ "finished" \in kinds /\ "transaction_hash" \in kinds /\ "length" \in kinds
      /\ "header" \in kinds /\ "zero_witness" \in kinds /\ "size" \in kinds
      /\ "byte" \in kinds
  OBVIOUS
<1> HIDE DEF kinds
<1>6. TxHash \in Token /\ ZeroWitness \in Token /\ <<"finished", <<>>>> \in Token
  BY <1>3, <1>4, <1>5, Zenon DEF TxHash, ZeroWitness
<1>7. \A n \in Nat : Byte(n) \in Token /\ Length(n) \in Token /\ LockSize(n) \in Token
  BY <1>1, <1>4, <1>5, Zenon DEF Byte, Length, LockSize
<1>8. \A a, b, c, d \in Nat : Head4(a, b, c, d) \in Token
  BY <1>2, <1>4, <1>5, Zenon DEF Head4
<1>. QED
  BY <1>6, <1>7, <1>8

\* Sequences of tokens are put together in any order.
LEMMA TokensConcat ==
  /\ \A a, b \in Seq(Token) : a \o b \in Seq(Token)
  /\ \A a, b, c \in Seq(Token) : a \o (b \o c) = (a \o b) \o c
  /\ \A a \in Seq(Token) : a \o <<>> = a
BY SMTT(40), ConcatProperties, ConcatAssociative, ConcatEmptySeq

\* Concatenation, unknown to the provers.
Cat(a, b) == a \o b

\* Five pieces hashed one after the other are the pieces put together in any way.
LEMMA FiveConcat ==
  ASSUME NEW t \in Seq(Token), NEW h \in Seq(Token), NEW l \in Seq(Token),
         NEW u \in Seq(Token), NEW f \in Seq(Token)
  PROVE  /\ t \o ((h \o (l \o u)) \o f) = (((t \o h) \o l) \o u) \o f
         /\ t \o ((h \o (l \o u)) \o f) \in Seq(Token)
<1>1. \A a, b \in Seq(Token) : Cat(a, b) \in Seq(Token)
  BY TokensConcat DEF Cat
<1>2. \A a, b, c \in Seq(Token) : Cat(a, Cat(b, c)) = Cat(Cat(a, b), c)
  BY TokensConcat DEF Cat
<1>3. /\ Cat(l, u) \in Seq(Token) /\ Cat(t, h) \in Seq(Token)
      /\ Cat(h, Cat(l, u)) \in Seq(Token) /\ Cat(Cat(h, Cat(l, u)), f) \in Seq(Token)
      /\ Cat(t, Cat(Cat(h, Cat(l, u)), f)) \in Seq(Token)
  BY <1>1
<1>4. Cat(t, Cat(Cat(h, Cat(l, u)), f)) = Cat(Cat(t, Cat(h, Cat(l, u))), f)
  BY <1>2, <1>3
<1>5. Cat(t, Cat(h, Cat(l, u))) = Cat(Cat(Cat(t, h), l), u)
  BY <1>2, <1>3
<1>6. /\ Cat(t, Cat(Cat(h, Cat(l, u)), f)) = Cat(Cat(Cat(Cat(t, h), l), u), f)
      /\ Cat(t, Cat(Cat(h, Cat(l, u)), f)) \in Seq(Token)
  BY <1>3, <1>4, <1>5
<1>. QED
  BY <1>6, Zenon DEF Cat

\* Units are hashed as they are, one token each.
LEMMA UnitsType ==
  ASSUME NEW s \in Seq(UNIT)
  PROVE  /\ Units(s) \in Seq(Token) /\ Len(Units(s)) = Len(s)
         /\ \A k \in 1 .. Len(s) : Units(s)[k] = Byte(s[k])
<1>1. Len(s) \in Nat /\ \A k \in 1 .. Len(s) : s[k] \in Nat
  <2>1. UNIT \subseteq Nat
    BY WitnessAssumption
  <2>2. Len(s) \in Nat /\ \A k \in 1 .. Len(s) : s[k] \in UNIT
    OBVIOUS
  <2>. QED
    BY <2>1, <2>2
<1>2. \A k \in 1 .. Len(s) : Byte(s[k]) \in Token
  BY <1>1, TokenTypes
<1>3. Units(s) \in [1 .. Len(s) -> Token]
  BY <1>2 DEF Units
<1>4. Units(s) \in Seq(Token) /\ Len(Units(s)) = Len(s)
  BY <1>1, <1>3
<1>. QED
  BY <1>4 DEF Units

\* Two pieces of units are hashed as the two together.
LEMMA UnitsConcat ==
  ASSUME NEW s \in Seq(UNIT), NEW t \in Seq(UNIT)
  PROVE  Units(s) \o Units(t) = Units(s \o t)
<1> DEFINE a == Units(s)  b == Units(t)  c == Units(s \o t)
<1>1. /\ s \o t \in Seq(UNIT) /\ Len(s \o t) = Len(s) + Len(t)
      /\ \A i \in 1 .. Len(s) + Len(t) :
           (s \o t)[i] = IF i <= Len(s) THEN s[i] ELSE t[i - Len(s)]
  BY ConcatProperties
<1>2. /\ a \in Seq(Token) /\ Len(a) = Len(s) /\ \A k \in 1 .. Len(s) : a[k] = Byte(s[k])
      /\ b \in Seq(Token) /\ Len(b) = Len(t) /\ \A k \in 1 .. Len(t) : b[k] = Byte(t[k])
      /\ c \in Seq(Token) /\ Len(c) = Len(s \o t)
      /\ \A k \in 1 .. Len(s \o t) : c[k] = Byte((s \o t)[k])
  BY <1>1, UnitsType
<1>3. Len(s) \in Nat /\ Len(t) \in Nat
  OBVIOUS
<1> HIDE DEF a, b, c
<1>4. /\ a \o b \in Seq(Token) /\ Len(a \o b) = Len(s) + Len(t)
      /\ \A i \in 1 .. Len(s) + Len(t) :
           (a \o b)[i] = IF i <= Len(s) THEN a[i] ELSE b[i - Len(s)]
  <2>1. /\ a \o b \in Seq(Token) /\ Len(a \o b) = Len(a) + Len(b)
        /\ \A i \in 1 .. Len(a) + Len(b) :
             (a \o b)[i] = IF i <= Len(a) THEN a[i] ELSE b[i - Len(a)]
    <3>1. a \in Seq(Token) /\ b \in Seq(Token)
      BY <1>2
    <3>. QED
      BY <3>1, ConcatProperties, Zenon
  <2>2. Len(a) = Len(s) /\ Len(b) = Len(t)
    BY <1>2
  <2>. QED
    BY <2>1, <2>2, Zenon
<1>5. ASSUME NEW i \in 1 .. Len(a \o b) PROVE (a \o b)[i] = c[i]
  <2>1. CASE i <= Len(s)
    BY <2>1, <1>1, <1>2, <1>3, <1>4
  <2>2. CASE i > Len(s)
    <3>1. i \in 1 .. Len(s) + Len(t) /\ i - Len(s) \in 1 .. Len(t) /\ ~(i <= Len(s))
      BY <2>2, <1>3, <1>4
    <3>2. (a \o b)[i] = b[i - Len(s)] /\ (s \o t)[i] = t[i - Len(s)]
      BY <3>1, <1>1, <1>4
    <3>3. b[i - Len(s)] = Byte(t[i - Len(s)]) /\ c[i] = Byte((s \o t)[i])
      BY <3>1, <1>1, <1>2
    <3>. QED
      BY <3>2, <3>3
  <2>. QED
    BY <2>1, <2>2, <1>3, <1>4
<1>6. a \o b = c
  BY <1>1, <1>2, <1>4, <1>5, SeqEqual
<1>. QED
  BY <1>6 DEF a, b, c

\* A chunk continues the chunks before it.
LEMMA UnitsAdjacent ==
  ASSUME NEW s \in Seq(UNIT), NEW m \in 1 .. Len(s) + 1, NEW k \in m - 1 .. Len(s),
         NEW n \in k .. Len(s)
  PROVE  Units(SubSeq(s, m, k)) \o Units(SubSeq(s, k + 1, n)) = Units(SubSeq(s, m, n))
<1>1. SubSeq(s, m, k) \in Seq(UNIT) /\ SubSeq(s, k + 1, n) \in Seq(UNIT)
  OBVIOUS
<1>2. SubSeq(s, m, k) \o SubSeq(s, k + 1, n) = SubSeq(s, m, n)
  BY ConcatAdjacentSubSeq
<1>. QED
  BY ZenonT(40), <1>1, <1>2, UnitsConcat

\* The fields of a first witness are of their types.
LEMMA FirstType ==
  ASSUME NEW f \in Firsts
  PROVE  /\ f.short \in BOOLEAN /\ f.body \in Seq(UNIT) /\ Len(f.body) \in Nat
         /\ f.field \in Nat /\ f.plen \in Nat /\ f.it \in Nat /\ f.ot \in Nat
         /\ f.field = 0 => f.plen = 0
         /\ ~Sound(f) => f.it = 0 /\ f.ot = 0
BY WitnessAssumption

\* witness_offsets rewrites sizes and offsets to natural numbers.
LEMMA HeaderType ==
  ASSUME NEW f \in Firsts
  PROVE  /\ HashedHeader(f, 0) \in Seq(Token)
         /\ HashedHeader(f, Shift(f)) \in Seq(Token)
<1> DEFINE total == HEADER + f.field + f.it + f.ot
<1>1. ASSUME NEW n \in {0, Shift(f)} PROVE HashedHeader(f, n) \in Seq(Token)
  <2>1. /\ total + n \in Nat /\ HEADER \in Nat
        /\ HEADER + f.field + n \in Nat /\ HEADER + f.field + f.it + n \in Nat
    <3>1. f.field \in Nat /\ f.it \in Nat /\ f.ot \in Nat
      BY FirstType
    <3>. QED
      BY <3>1 DEF HEADER, Shift, ZERO_LOCK
  <2>2. /\ Length(total + n) \in Token
        /\ Head4(total + n, HEADER, HEADER + f.field + n,
                 HEADER + f.field + f.it + n) \in Token
    <3> HIDE DEF total
    <3>. QED
      BY <2>1, TokenTypes
  <2>3. \A a, b \in Token : <<a, b>> \in Seq(Token)
    OBVIOUS
  <2>. QED
    BY <2>2, <2>3 DEF HashedHeader
<1>. QED
  BY <1>1

\* The witness that process_witness_end makes up follows the transaction hash.
LEMMA SelfWitnessType ==
  /\ SelfWitness \in Seq(Token) /\ Tail(SelfWitness) \in Seq(Token)
  /\ SelfWitness = <<TxHash>> \o Tail(SelfWitness) /\ <<TxHash>> \in Seq(Token)
<1>1. Length(ZERO_WITNESS) \in Token
  BY TokenTypes DEF ZERO_WITNESS
<1>2. Head4(ZERO_WITNESS, HEADER, ZERO_WITNESS, ZERO_WITNESS) \in Token
  BY TokenTypes DEF ZERO_WITNESS, HEADER
<1>3. TxHash \in Token /\ ZeroWitness \in Token
  BY TokenTypes
<1>4. ASSUME NEW a \in Token, NEW b \in Token, NEW c \in Token, NEW d \in Token
      PROVE  /\ <<a>> \in Seq(Token) /\ <<a, b, c, d>> \in Seq(Token)
             /\ Tail(<<a, b, c, d>>) \in Seq(Token)
             /\ <<a, b, c, d>> = <<a>> \o Tail(<<a, b, c, d>>)
  <2>1. <<a>> \in Seq(Token) /\ <<a, b, c, d>> \in Seq(Token) /\ <<b, c, d>> \in Seq(Token)
    OBVIOUS
  <2>2. Tail(<<a, b, c, d>>) = <<b, c, d>>
    OBVIOUS
  <2>3. <<a, b, c, d>> = <<a>> \o <<b, c, d>>
    OBVIOUS
  <2>. QED
    BY <2>1, <2>2, <2>3
<1>. QED
  BY SMTT(40), <1>1, <1>2, <1>3, <1>4 DEF SelfWitness

-----------------------------------------------------------------------------
(* The inductive invariant *)

Reading == {"header", "lock_size", "rejected", "lock", "fields", "complete"}

\* With n units more the parser is at the end of a part, or past it if it went on
\* after a rejection.
Reaches(n, end) == pos + n >= end /\ (Sound(first) => pos + n = end)

\* Where the parser is in the witnesses.
Place ==
  /\ pc \in Reading => index = 0 /\ count > 0 /\ pos <= Len(first.body)
  /\ pc \in Reading \/ (pc = "begin" /\ index = 0) =>
       (first_witness_done <=> pc = "complete")
  /\ pc \in {"header", "lock_size", "rejected"} => pos = 0 /\ consumed = 0
  /\ pc \in {"rejected", "lock", "fields", "complete"} => ~first.short
  /\ pc \in {"lock_size", "rejected", "lock"} => first.field # 0
  /\ pc = "rejected" => ~Sound(first)
  /\ pc = "lock" => left > 0 /\ Reaches(left, first.plen)
  /\ pc = "fields" => /\ left <= first.it + first.ot
                      /\ Reaches(left, first.plen + first.it + first.ot)
  /\ pc = "complete" => Reaches(0, first.plen + first.it + first.ot)
  /\ pc = "other" => index \in 1 .. count - 1 /\ pos <= Len(others[index])
  /\ pc = "final" => index = count

\* The message of this first witness is defined by the properties.
Covered ==
  /\ Whole(first)
  /\ signing_multisig_input =>
       ~unsafe /\ ~scattered /\ (first.field = 0 \/ HasScript(first))

\* The callbacks on lock know where in the multisig_script they are.
Counted ==
  Covered /\ signing_multisig_input /\ pc = "lock" =>
    /\ consumed = pos
    /\ consumed >= FLAGS => pubkeys = first.body[FLAGS]

\* What is hashed before lock, and before the fields after it.
HeaderPart ==
  <<TxHash>> \o (IF signing_multisig_input THEN HashedHeader(first, 0)
                 ELSE Append(HashedHeader(first, Shift(first)), ZeroWitness))

SizePart == IF signing_multisig_input THEN HeaderPart \o <<LockSize(first.plen)>>
            ELSE HeaderPart

LockPart == IF signing_multisig_input /\ first.field # 0
            THEN SizePart \o Units(WithoutSignatures(first)) ELSE HeaderPart

\* What was hashed of a first witness that is covered.
FirstHashed ==
  Covered =>
    /\ pc = "header" => hashed = <<TxHash>>
    /\ pc = "lock_size" => hashed = HeaderPart
    /\ pc = "lock" =>
         hashed = IF signing_multisig_input
                  THEN SizePart \o Units(SubSeq(WithoutSignatures(first), 1, pos))
                  ELSE HeaderPart
    /\ pc \in {"fields", "complete"} =>
         hashed = LockPart \o Units(SubSeq(first.body, first.plen + 1, pos))

\* The message up to the end of the first witness, and of n more.
FirstMessage ==
  <<TxHash>> \o (IF Truncated(first) THEN Tail(SelfWitness)
                 ELSE IF signing_multisig_input THEN MultisigFirst(first)
                 ELSE SinglesigFirst(first))

MessageOf(n) == FoldUp(WithOther, FirstMessage, SubSeq(others, 1, n))

\* What was hashed after the first witness.
OthersHashed ==
  Truncated(first) \/ Covered =>
    /\ pc \in {"begin", "final"} /\ index > 0 => hashed = MessageOf(index - 1)
    /\ pc = "other" => hashed = MessageOf(index - 1) \o <<Length(Len(others[index]))>>
                                  \o Units(SubSeq(others[index], 1, pos))

Inv == TypeOK /\ Place /\ Counted /\ FirstHashed /\ OthersHashed

-----------------------------------------------------------------------------
(* The place and the types *)

\* The witnesses that were sent are of their types.
LEMMA SentTypes ==
  ASSUME TypeOK
  PROVE  /\ first \in Firsts /\ others \in Seq(Seq(UNIT)) /\ Len(others) \in Nat
         /\ count \in Nat /\ (count > 0 => count = 1 + Len(others))
         /\ \A i \in 1 .. Len(others) : others[i] \in Seq(UNIT) /\ Len(others[i]) \in Nat
         /\ UNIT \subseteq Nat /\ 0 \in UNIT /\ KEY \in Nat /\ KEY > 0
<1>1. first \in Firsts /\ others \in Others /\ count \in {0, 1 + Len(others)}
  BY DEF TypeOK
<1>2. others \in Seq(Seq(UNIT)) /\ UNIT \subseteq Nat /\ 0 \in UNIT /\ KEY \in Nat /\ KEY > 0
  BY <1>1, WitnessAssumption
<1>3. Len(others) \in Nat /\ \A i \in 1 .. Len(others) : others[i] \in Seq(UNIT)
  BY <1>2
<1>4. \A t \in Seq(UNIT) : Len(t) \in Nat
  OBVIOUS
<1>. QED
  BY <1>1, <1>2, <1>3, <1>4

\* A byte of a chunk is a unit.
LEMMA ChunkByteType ==
  ASSUME TypeOK, NEW n \in Nat, pos + n <= Len(first.body), NEW i \in Nat
  PROVE  ChunkByte(n, i) \subseteq UNIT
<1>1. pos \in Nat /\ first.body \in Seq(UNIT) /\ Len(first.body) \in Nat
  BY FirstType DEF TypeOK
<1>2. i < n => pos + i + 1 \in 1 .. Len(first.body)
  BY <1>1
<1>3. \A k \in 1 .. Len(first.body) : first.body[k] \in UNIT
  BY <1>1
<1>. QED
  BY <1>2, <1>3 DEF ChunkByte

\* A chunk with its signatures zeroed is a chunk.
LEMMA ZeroedType ==
  ASSUME TypeOK, NEW n \in Nat, pos + n <= Len(first.body), NEW cnt
  PROVE  /\ Zeroed(n, cnt) \in Seq(UNIT) /\ Len(Zeroed(n, cnt)) = n
         /\ \A k \in 1 .. n :
              Zeroed(n, cnt)[k] =
                IF cnt > 0 /\ ScriptLen(cnt) - consumed > 0
                     /\ k > ScriptLen(cnt) - consumed
                THEN 0 ELSE first.body[pos + k]
<1>1. pos \in Nat /\ first.body \in Seq(UNIT) /\ Len(first.body) \in Nat
  BY FirstType DEF TypeOK
<1>2. \A k \in 1 .. n : pos + k \in 1 .. Len(first.body)
  BY <1>1
<1>3. \A k \in 1 .. n : first.body[pos + k] \in UNIT
  BY <1>1, <1>2
<1>4. 0 \in UNIT
  BY WitnessAssumption
<1>5. Zeroed(n, cnt) \in [1 .. n -> UNIT]
  BY <1>3, <1>4 DEF Zeroed
<1>6. Zeroed(n, cnt) \in Seq(UNIT) /\ Len(Zeroed(n, cnt)) = n
  BY <1>5
<1>. QED
  BY <1>6 DEF Zeroed

\* finalize_raw_transaction leaves a state of its types, at its place.
LEMMA InitTypes == Init => TypeOK /\ Place
<1> SUFFICES ASSUME Init PROVE TypeOK /\ Place
  OBVIOUS
<1>1. hashed \in Seq(Token)
  <2>1. \A t \in Token : <<t>> \in Seq(Token)
    OBVIOUS
  <2>. QED
    BY <2>1, TokenTypes DEF Init
<1>2. 0 \in 0 .. count
  <2>1. others \in Seq(Seq(UNIT))
    BY WitnessAssumption DEF Init
  <2>2. Len(others) \in Nat
    BY <2>1
  <2>. QED
    BY <2>2 DEF Init
<1>3. TypeOK
  <2>1. 0 \in UNIT
    BY WitnessAssumption
  <2>. QED
    BY <1>1, <1>2, <2>1 DEF Init, TypeOK
<1>4. Place
  BY DEF Init, Place, Reading
<1>. QED
  BY <1>3, <1>4

\* More units are hashed.
LEMMA HashMore ==
  ASSUME TypeOK, NEW s \in Seq(UNIT)
  PROVE  hashed \o Units(s) \in Seq(Token)
<1>1. hashed \in Seq(Token)
  BY DEF TypeOK
<1>2. Units(s) \in Seq(Token)
  BY UnitsType
<1>. QED
  BY <1>1, <1>2, ConcatProperties

\* A part of a witness.
LEMMA PartType ==
  ASSUME NEW s \in Seq(UNIT), NEW a \in Nat, NEW b \in Nat, b <= Len(s)
  PROVE  SubSeq(s, a + 1, b) \in Seq(UNIT)
<1>1. \A k \in a + 1 .. b : s[k] \in UNIT
  OBVIOUS
<1>. QED
  BY <1>1, SubSeqProperties

\* begin_witness, hash_witness_length and finalize_witnesses keep types and place.
LEMMA BeginTypes ==
  ASSUME TypeOK, Place, BeginFirst \/ BeginOther \/ FinalizeWitnesses
  PROVE  TypeOK' /\ Place'
<1> USE SentTypes
<1>1. CASE BeginFirst
  <2>1. hashed' \in Seq(Token)
    BY <1>1, SelfWitnessType DEF BeginFirst
  <2>2. TypeOK'
    BY <1>1, <2>1 DEF BeginFirst, TypeOK, sent
  <2>3. Len(first.body) \in Nat
    BY FirstType
  <2>. QED
    BY <1>1, <2>2, <2>3 DEF BeginFirst, TypeOK, Place, Reading, sent
<1>2. CASE BeginOther
  <2>1. index \in 1 .. Len(others)
    BY <1>2 DEF BeginOther
  <2>2. Len(others[index]) \in Nat
    BY <2>1
  <2>3. Length(Len(others[index])) \in Token
    BY <2>2, TokenTypes
  <2>4. hashed' \in Seq(Token)
    BY <1>2, <2>3 DEF BeginOther, TypeOK
  <2>5. TypeOK'
    BY <1>2, <2>4 DEF BeginOther, TypeOK, sent
  <2>. QED
    BY <1>2, <2>2, <2>5 DEF BeginOther, TypeOK, Place, Reading, sent
<1>3. CASE FinalizeWitnesses
  BY <1>3 DEF FinalizeWitnesses, TypeOK, Place, Reading, sent
<1>. QED
  BY <1>1, <1>2, <1>3

\* The chunks of a further witness, and its end, keep types and place.
LEMMA OtherTypes ==
  ASSUME TypeOK, Place,
         (\E n \in 1 .. Len(others[index]) : OtherChunk(n)) \/ ProcessOtherEnd
  PROVE  TypeOK' /\ Place'
<1>1. pc = "other" /\ index \in 1 .. count - 1 /\ pos \in Nat /\ pos <= Len(others[index])
  BY DEF OtherChunk, ProcessOtherEnd, Place, TypeOK
<1>2. index \in 1 .. Len(others) /\ index + 1 \in 0 .. count
  BY <1>1, SentTypes
<1>3. others[index] \in Seq(UNIT) /\ Len(others[index]) \in Nat
  BY <1>2, SentTypes
<1>4. ASSUME NEW n \in 1 .. Len(others[index]), OtherChunk(n) PROVE TypeOK' /\ Place'
  <2>1. pos + n \in Nat /\ pos + n <= Len(others[index])
    BY <1>1, <1>3, <1>4 DEF OtherChunk
  <2>2. SubSeq(others[index], pos + 1, pos + n) \in Seq(UNIT)
    BY <1>1, <1>3, <2>1, PartType
  <2>3. hashed' \in Seq(Token)
    BY <1>4, <2>2, HashMore DEF OtherChunk
  <2>4. TypeOK'
    BY <1>4, <2>1, <2>3 DEF OtherChunk, TypeOK, sent
  <2>. QED
    BY <1>1, <1>4, <2>1, <2>4 DEF OtherChunk, Place, Reading, sent
<1>5. CASE ProcessOtherEnd
  BY <1>1, <1>2, <1>5 DEF ProcessOtherEnd, TypeOK, Place, Reading, sent
<1>. QED
  BY <1>4, <1>5

\* witness_offsets keeps types and place.
LEMMA OffsetsTypes ==
  ASSUME TypeOK, Place, WitnessOffsets
  PROVE  TypeOK' /\ Place'
<1>1. hashed \in Seq(Token) /\ first \in Firsts
  BY DEF TypeOK
<1>2. /\ HashedHeader(first, 0) \in Seq(Token)
      /\ Append(HashedHeader(first, Shift(first)), ZeroWitness) \in Seq(Token)
  BY <1>1, HeaderType, TokenTypes, AppendProperties
<1>3. hashed' \in Seq(Token)
  BY <1>1, <1>2, ConcatProperties DEF WitnessOffsets
<1>4. TypeOK'
  BY <1>1, <1>3, FirstType DEF WitnessOffsets, TypeOK, sent
<1>5. Place'
  BY <1>1, FirstType DEF WitnessOffsets, TypeOK, Place, Reading, Reaches, Sound, sent
<1>. QED
  BY <1>4, <1>5

\* witness_lock_arg_size keeps types and place.
LEMMA LockSizeTypes ==
  ASSUME TypeOK, Place, WitnessLockArgSize
  PROVE  TypeOK' /\ Place'
<1>1. hashed \in Seq(Token) /\ first \in Firsts /\ pc = "lock_size"
  BY DEF TypeOK, WitnessLockArgSize
<1>2. /\ first.plen \in Nat /\ first.it \in Nat /\ first.ot \in Nat
      /\ Len(first.body) \in Nat /\ pos = 0
  BY <1>1, FirstType DEF Place
<1>3. hashed' \in Seq(Token)
  <2>1. LockSize(first.plen) \in Token
    BY <1>2, TokenTypes
  <2>. QED
    BY <1>1, <2>1, AppendProperties DEF WitnessLockArgSize
<1>4. TypeOK'
  BY <1>1, <1>2, <1>3 DEF WitnessLockArgSize, LockOrFields, TypeOK, sent
<1>5. Place'
  BY <1>1, <1>2 DEF WitnessLockArgSize, LockOrFields, Place, Reading, Reaches, Sound, sent
<1>. QED
  BY <1>4, <1>5

\* A parser that goes on after it rejected a length keeps types and place.
LEMMA ResumeTypes ==
  ASSUME TypeOK, Place, NEW n \in Sizes, ResumeAfterReject(n)
  PROVE  TypeOK' /\ Place'
<1>1. first \in Firsts /\ pc = "rejected" /\ pos = 0 /\ ~Sound(first)
  BY DEF TypeOK, Place, ResumeAfterReject
<1>2. /\ first.plen \in Nat /\ first.it = 0 /\ first.ot = 0
      /\ Len(first.body) \in Nat /\ n \in Nat
  BY <1>1, FirstType DEF Sizes
<1>3. TypeOK'
  BY <1>1, <1>2 DEF ResumeAfterReject, LockOrFields, TypeOK, sent
<1>4. Place'
  BY <1>1, <1>2 DEF ResumeAfterReject, LockOrFields, Place, Reading, Reaches, Sound, sent
<1>. QED
  BY <1>3, <1>4

\* witness_lock_arg_body_chunk keeps types and place: it stays within the witness.
LEMMA LockTypes ==
  ASSUME TypeOK, Place, NEW n \in Sizes, WitnessLockArgBodyChunk(n)
  PROVE  TypeOK' /\ Place'
<1>1. /\ first \in Firsts /\ pc = "lock" /\ pos \in Nat /\ left \in Nat
      /\ consumed \in Nat /\ n <= left /\ pos + n <= Len(first.body)
  BY DEF TypeOK, WitnessLockArgBodyChunk
<1>2. /\ first.plen \in Nat /\ first.it \in Nat /\ first.ot \in Nat
      /\ Len(first.body) \in Nat /\ n \in Nat
  BY <1>1, FirstType DEF Sizes
<1>3. /\ consumed' \in Nat /\ pubkeys' \in UNIT /\ unsafe' \in BOOLEAN
      /\ scattered' \in BOOLEAN /\ hashed' \in Seq(Token)
  <2>1. CASE UNCHANGED <<consumed, pubkeys, unsafe, hashed, scattered>>
    BY <2>1 DEF TypeOK
  <2>2. CASE MultisigLockChunk(n) /\ ~UNCHANGED <<consumed, pubkeys, hashed, scattered>>
    <3>1. PICK cnt \in (IF consumed < FLAGS
                        THEN ChunkByte(n, FLAGS - 1 - consumed) ELSE {pubkeys}) :
            /\ pubkeys' = cnt
            /\ hashed' = hashed \o Units(Zeroed(n, cnt))
            /\ scattered' = (scattered \/ (cnt > 0 /\ consumed >= ScriptLen(cnt)))
            /\ consumed' = consumed + n
            /\ unsafe' = unsafe
      BY <2>2 DEF MultisigLockChunk
    <3>2. cnt \in UNIT
      <4>1. CASE consumed < FLAGS
        <5>1. FLAGS - 1 - consumed \in Nat
          BY <1>1, <4>1 DEF FLAGS
        <5>. QED
          BY <1>1, <1>2, <3>1, <4>1, <5>1, ChunkByteType
      <4>2. CASE ~(consumed < FLAGS)
        BY <3>1, <4>2 DEF TypeOK
      <4>. QED
        BY <4>1, <4>2
    <3>3. hashed' \in Seq(Token)
      BY <1>1, <1>2, <3>1, ZeroedType, HashMore
    <3>4. scattered' \in BOOLEAN /\ unsafe' \in BOOLEAN
      BY <3>1 DEF TypeOK
    <3>. QED
      BY <1>1, <1>2, <3>1, <3>2, <3>3, <3>4
  <2>3. CASE unsafe' = TRUE /\ UNCHANGED <<consumed, pubkeys, hashed, scattered>>
    BY <2>3 DEF TypeOK
  <2>. QED
    BY <2>1, <2>2, <2>3 DEF WitnessLockArgBodyChunk, MultisigLockChunk
<1>4. TypeOK'
  BY <1>1, <1>2, <1>3 DEF WitnessLockArgBodyChunk, LockOrFields, TypeOK, sent
<1>5. Place'
  <2>1. /\ left > 0 /\ pos + left >= first.plen
        /\ Sound(first) => pos + left = first.plen
        /\ index = 0 /\ count > 0 /\ ~first_witness_done /\ ~first.short /\ first.field # 0
    BY <1>1 DEF Place, Reading, Reaches
  <2>2. /\ pos' = pos + n /\ first' = first /\ index' = index /\ count' = count
        /\ first_witness_done' = first_witness_done
    BY DEF WitnessLockArgBodyChunk, sent
  <2>3. CASE n = left
    <3>1. pc' = "fields" /\ left' = first.it + first.ot
      BY <2>3 DEF WitnessLockArgBodyChunk, LockOrFields
    <3>. QED
      BY SMTT(40), <1>1, <1>2, <2>1, <2>2, <2>3, <3>1 DEF Place, Reading, Reaches, Sound
  <2>4. CASE n # left
    <3>1. left - n > 0
      BY <1>1, <1>2, <2>4
    <3>2. pc' = "lock" /\ left' = left - n
      BY <2>4, <3>1 DEF WitnessLockArgBodyChunk, LockOrFields
    <3>. QED
      BY <1>1, <1>2, <2>1, <2>2, <3>1, <3>2 DEF Place, Reading, Reaches, Sound
  <2>. QED
    BY <2>3, <2>4
<1>. QED
  BY <1>4, <1>5

\* The chunks of input_type and output_type keep types and place.
LEMMA FieldsTypes ==
  ASSUME TypeOK, Place, NEW n \in Sizes, FieldsChunk(n)
  PROVE  TypeOK' /\ Place'
<1>1. /\ first \in Firsts /\ pc = "fields" /\ pos \in Nat /\ left \in Nat
      /\ n \in 1 .. left /\ pos + n <= Len(first.body)
  BY DEF TypeOK, FieldsChunk
<1>2. /\ first.plen \in Nat /\ first.it \in Nat /\ first.ot \in Nat
      /\ first.body \in Seq(UNIT) /\ Len(first.body) \in Nat /\ n \in Nat
  BY <1>1, FirstType DEF Sizes
<1>3. SubSeq(first.body, pos + 1, pos + n) \in Seq(UNIT)
  BY <1>1, <1>2, PartType
<1>4. hashed' \in Seq(Token)
  BY <1>3, HashMore DEF FieldsChunk
<1>5. TypeOK'
  BY <1>1, <1>2, <1>4 DEF FieldsChunk, TypeOK, sent
<1>6. Place'
  BY <1>1, <1>2 DEF FieldsChunk, Place, Reading, Reaches, Sound, sent
<1>. QED
  BY <1>5, <1>6

\* process_witness_end on the first witness keeps types and place.
LEMMA EndTypes ==
  ASSUME TypeOK, Place, WitnessArgsComplete \/ ProcessFirstEnd
  PROVE  TypeOK' /\ Place'
<1>1. CASE WitnessArgsComplete
  BY <1>1 DEF WitnessArgsComplete, TypeOK, Place, Reading, Reaches, Sound, sent
<1>2. CASE ProcessFirstEnd
  <2>1. pc \in Reading /\ index = 0 /\ count > 0
    BY <1>2 DEF ProcessFirstEnd, FirstEnds, Place, Reading
  <2>2. hashed' \in Seq(Token)
    BY <1>2, SelfWitnessType DEF ProcessFirstEnd, MessageSoFar, TypeOK
  <2>3. 1 \in 0 .. count
    BY <2>1, SentTypes
  <2>. QED
    BY <1>2, <2>2, <2>3 DEF ProcessFirstEnd, TypeOK, Place, Reading, sent
<1>. QED
  BY <1>1, <1>2

\* Every step keeps the types and the place.
LEMMA TypesStep ==
  ASSUME TypeOK, Place, [Next]_vars
  PROVE  TypeOK' /\ Place'
<1>1. CASE BeginFirst \/ BeginOther \/ FinalizeWitnesses
  BY <1>1, BeginTypes
<1>2. CASE WitnessOffsets \/ WitnessLockArgSize
  BY <1>2, OffsetsTypes, LockSizeTypes
<1>3. ASSUME NEW n \in Sizes,
             ResumeAfterReject(n) \/ WitnessLockArgBodyChunk(n) \/ FieldsChunk(n)
      PROVE  TypeOK' /\ Place'
  BY <1>3, ResumeTypes, LockTypes, FieldsTypes
<1>4. CASE WitnessArgsComplete \/ ProcessFirstEnd
  BY <1>4, EndTypes
<1>5. ASSUME NEW n \in 1 .. (IF pc = "other" THEN Len(others[index]) ELSE 0), OtherChunk(n)
      PROVE  TypeOK' /\ Place'
  <2>1. pc = "other"
    BY <1>5 DEF OtherChunk
  <2>2. \E m \in 1 .. Len(others[index]) : OtherChunk(m)
    BY <1>5, <2>1
  <2>. QED
    BY <2>2, OtherTypes
<1>6. CASE ProcessOtherEnd
  BY <1>6, OtherTypes
<1>7. CASE UNCHANGED vars
  BY <1>7 DEF vars, sent, TypeOK, Place, Reaches, Sound
<1>. QED
  BY <1>1, <1>2, <1>3, <1>4, <1>5, <1>6, <1>7 DEF Next, Done

\* TypeOK of the witnesses: wherever a chunk ends the state keeps its types and
\* the sizes and offsets that witness_offsets rewrites are natural numbers.
THEOREM TypeCorrect == Spec => []TypeOK
<1>1. TypeOK /\ Place /\ [Next]_vars => (TypeOK /\ Place)'
  BY TypesStep
<1>. QED
  BY InitTypes, <1>1, PTL DEF Spec

-----------------------------------------------------------------------------
(* The parts of the message *)

\* A first witness whose message is covered is whole.
LEMMA CoveredFacts ==
  ASSUME TypeOK, Covered
  PROVE  /\ ~first.short /\ Sound(first)
         /\ first.plen + first.it + first.ot <= Len(first.body)
         /\ first.plen \in Nat /\ first.it \in Nat /\ first.ot \in Nat
         /\ first.body \in Seq(UNIT) /\ Len(first.body) \in Nat
         /\ (first.field = 0 => first.plen = 0) /\ ~Truncated(first)
         /\ signing_multisig_input /\ first.field # 0 => HasScript(first)
<1>1. first \in Firsts
  BY DEF TypeOK
<1>2. /\ first.plen \in Nat /\ first.it \in Nat /\ first.ot \in Nat
      /\ first.body \in Seq(UNIT) /\ Len(first.body) \in Nat
      /\ (first.field = 0 => first.plen = 0)
  BY <1>1, FirstType
<1>. QED
  BY <1>2 DEF Covered, Whole, Truncated

\* A step changes nothing that was sent, and never takes back a warning.
LEMMA StepKeeps ==
  ASSUME [Next]_vars
  PROVE  UNCHANGED sent /\ (unsafe => unsafe') /\ (scattered => scattered')
<1>1. CASE \/ BeginFirst \/ BeginOther \/ WitnessOffsets \/ WitnessLockArgSize
           \/ WitnessArgsComplete \/ ProcessFirstEnd \/ ProcessOtherEnd
           \/ FinalizeWitnesses \/ UNCHANGED vars
  BY <1>1 DEF vars, BeginFirst, BeginOther, WitnessOffsets, WitnessLockArgSize,
       WitnessArgsComplete, ProcessFirstEnd, ProcessOtherEnd, FinalizeWitnesses
<1>2. ASSUME NEW n, ResumeAfterReject(n) \/ FieldsChunk(n) \/ OtherChunk(n)
      PROVE  UNCHANGED sent /\ UNCHANGED <<unsafe, scattered>>
  BY <1>2 DEF ResumeAfterReject, FieldsChunk, OtherChunk
<1>3. ASSUME NEW n, WitnessLockArgBodyChunk(n)
      PROVE  UNCHANGED sent /\ (unsafe => unsafe') /\ (scattered => scattered')
  <2>1. UNCHANGED sent /\ (MultisigLockChunk(n) \/ UNCHANGED <<unsafe, scattered>>)
    BY <1>3 DEF WitnessLockArgBodyChunk
  <2>2. ASSUME MultisigLockChunk(n)
        PROVE  (unsafe => unsafe') /\ (scattered => scattered')
    <3>1. unsafe => unsafe'
      BY <2>2 DEF MultisigLockChunk
    <3>2. \/ UNCHANGED scattered
          \/ \E cnt : scattered' = (scattered \/ (cnt > 0 /\ consumed >= ScriptLen(cnt)))
      BY <2>2, Zenon DEF MultisigLockChunk
    <3>3. scattered => scattered'
      BY <3>2, Zenon
    <3>. QED
      BY <3>1, <3>3, Zenon
  <2>. QED
    BY <2>1, <2>2
<1>. QED
  BY <1>1, <1>2, <1>3 DEF Next, Done

\* What is covered after a step was covered before it.
LEMMA CoveredBefore ==
  ASSUME [Next]_vars, Covered'
  PROVE  Covered
<1>1. UNCHANGED sent /\ (unsafe => unsafe') /\ (scattered => scattered')
  BY StepKeeps
<1>2. first' = first /\ signing_multisig_input' = signing_multisig_input
  BY <1>1 DEF sent
<1>. QED
  BY <1>1, <1>2, Zenon DEF Covered

\* The parts of the message depend on what was sent alone.
LEMMA SentParts ==
  ASSUME UNCHANGED sent
  PROVE  /\ HeaderPart' = HeaderPart /\ SizePart' = SizePart /\ LockPart' = LockPart
         /\ FirstMessage' = FirstMessage
         /\ \A n : MessageOf(n)' = MessageOf(n)
<1>1. HeaderPart' = HeaderPart
  BY DEF sent, HeaderPart
<1>2. SizePart' = SizePart
  BY <1>1 DEF sent, SizePart
<1>3. LockPart' = LockPart
  BY <1>1, <1>2 DEF sent, LockPart
<1>4. FirstMessage' = FirstMessage
  BY DEF sent, FirstMessage
<1>5. \A n : MessageOf(n)' = MessageOf(n)
  BY <1>4 DEF sent, MessageOf
<1>. QED
  BY <1>1, <1>2, <1>3, <1>4, <1>5

\* lock without its signatures is as long as lock.
LEMMA WithoutSignaturesType ==
  ASSUME TypeOK, Covered
  PROVE  /\ WithoutSignatures(first) \in Seq(UNIT)
         /\ Len(WithoutSignatures(first)) = first.plen
         /\ \A k \in 1 .. first.plen :
              WithoutSignatures(first)[k] =
                IF k <= FLAGS + KEY * first.body[FLAGS] THEN first.body[k] ELSE 0
<1>1. /\ first.plen \in Nat /\ first.body \in Seq(UNIT)
      /\ first.plen <= Len(first.body) /\ Len(first.body) \in Nat
  BY CoveredFacts
<1>2. \A k \in 1 .. first.plen : first.body[k] \in UNIT
  BY <1>1
<1>3. 0 \in UNIT
  BY WitnessAssumption
<1>4. WithoutSignatures(first) \in [1 .. first.plen -> UNIT]
  BY <1>2, <1>3 DEF WithoutSignatures
<1>5. WithoutSignatures(first) \in Seq(UNIT) /\ Len(WithoutSignatures(first)) = first.plen
  BY <1>1, <1>4
<1>. QED
  BY <1>5 DEF WithoutSignatures

\* The parts are sequences of tokens.
LEMMA PartTypes ==
  ASSUME TypeOK
  PROVE  /\ HeaderPart \in Seq(Token) /\ SizePart \in Seq(Token)
         /\ Covered => LockPart \in Seq(Token)
<1>1. first \in Firsts /\ first.plen \in Nat
  BY FirstType DEF TypeOK
<1>2. /\ HashedHeader(first, 0) \in Seq(Token)
      /\ Append(HashedHeader(first, Shift(first)), ZeroWitness) \in Seq(Token)
  BY <1>1, HeaderType, TokenTypes, AppendProperties
<1>3. HeaderPart \in Seq(Token)
  BY <1>2, SelfWitnessType, ConcatProperties DEF HeaderPart
<1>4. SizePart \in Seq(Token)
  <2>1. LockSize(first.plen) \in Token
    BY <1>1, TokenTypes
  <2>2. <<LockSize(first.plen)>> \in Seq(Token)
    BY <2>1
  <2>. QED
    BY <1>3, <2>2, ConcatProperties DEF SizePart
<1>5. ASSUME Covered PROVE LockPart \in Seq(Token)
  <2>1. Units(WithoutSignatures(first)) \in Seq(Token)
    BY <1>5, WithoutSignaturesType, UnitsType
  <2>. QED
    BY <1>3, <1>4, <2>1, ConcatProperties DEF LockPart
<1>. QED
  BY <1>3, <1>4, <1>5

\* No units are hashed as nothing.
LEMMA NoUnits ==
  ASSUME NEW m, m \in Seq(Token), NEW s, NEW k \in Nat
  PROVE  m \o Units(SubSeq(s, k + 1, k)) = m
<1>1. SubSeq(s, k + 1, k) = <<>>
  BY SubSeqEmpty
<1>2. Units(<<>>) = <<>>
  BY DEF Units
<1>. QED
  BY <1>1, <1>2, ConcatEmptySeq

\* The first witness as the properties have it is what its parts make.
LEMMA FirstMessageParts ==
  ASSUME TypeOK, Covered
  PROVE  FirstMessage = LockPart \o Units(Fields(first)) /\ FirstMessage \in Seq(Token)
<1> DEFINE T == <<TxHash>>
           F == Units(Fields(first))
           H0 == HashedHeader(first, 0)
           H1 == Append(HashedHeader(first, Shift(first)), ZeroWitness)
           L == <<LockSize(first.plen)>>
           U == Units(WithoutSignatures(first))
<1>1. ~Truncated(first) /\ first \in Firsts /\ first.plen \in Nat
  BY CoveredFacts DEF TypeOK
<1>2. T \in Seq(Token) /\ H0 \in Seq(Token) /\ H1 \in Seq(Token) /\ L \in Seq(Token)
  <2>1. LockSize(first.plen) \in Token
    BY <1>1, TokenTypes
  <2>2. <<LockSize(first.plen)>> \in Seq(Token)
    BY <2>1
  <2>. QED
    BY <1>1, <2>2, SelfWitnessType, HeaderType, TokenTypes, AppendProperties
<1>3. U \in Seq(Token)
  BY WithoutSignaturesType, UnitsType
<1>4. F \in Seq(Token)
  <2>1. Fields(first) \in Seq(UNIT)
    BY CoveredFacts, PartType DEF Fields
  <2>. QED
    BY <2>1, UnitsType
<1>5. ASSUME ~signing_multisig_input
      PROVE  FirstMessage = T \o (H1 \o F) /\ LockPart = T \o H1
  <2>1. HashedHeader([first EXCEPT !.field = ZERO_LOCK], 0)
          = HashedHeader(first, Shift(first))
    <3>1. /\ first.field \in Nat /\ first.it \in Nat /\ first.ot \in Nat
          /\ DOMAIN first = {"short", "field", "plen", "it", "ot", "body"}
      BY <1>1, WitnessAssumption
    <3> DEFINE g == [first EXCEPT !.field = ZERO_LOCK]
    <3>2. g.field = ZERO_LOCK /\ g.it = first.it /\ g.ot = first.ot
      BY <3>1
    <3> HIDE DEF g
    <3>3. /\ HEADER + g.field + g.it + g.ot + 0
              = HEADER + first.field + first.it + first.ot + Shift(first)
          /\ HEADER + g.field + 0 = HEADER + first.field + Shift(first)
          /\ HEADER + g.field + g.it + 0
              = HEADER + first.field + first.it + Shift(first)
      BY <3>1, <3>2 DEF Shift, HEADER, ZERO_LOCK
    <3>4. HashedHeader(g, 0) = HashedHeader(first, Shift(first))
      BY <3>3, Zenon DEF HashedHeader
    <3>. QED
      BY <3>4 DEF g
  <2>. QED
    BY <1>1, <1>5, <2>1, Zenon DEF FirstMessage, SinglesigFirst, LockPart, HeaderPart
<1>6. ASSUME signing_multisig_input, first.field = 0
      PROVE  FirstMessage = T \o ((H0 \o <<>>) \o F) /\ LockPart = T \o H0
  BY <1>1, <1>6, Zenon DEF FirstMessage, MultisigFirst, LockPart, HeaderPart
<1>7. ASSUME signing_multisig_input, first.field # 0
      PROVE  /\ FirstMessage = T \o ((H0 \o (L \o U)) \o F)
             /\ LockPart = ((T \o H0) \o L) \o U
  BY <1>1, <1>7, Zenon DEF FirstMessage, MultisigFirst, LockPart, SizePart, HeaderPart
<1> HIDE DEF T, F, H0, H1, L, U
<1>8. ASSUME NEW t \in Seq(Token), NEW h \in Seq(Token), NEW f \in Seq(Token)
      PROVE  /\ t \o (h \o f) = (t \o h) \o f /\ t \o (h \o f) \in Seq(Token)
             /\ h \o <<>> = h
  BY TokensConcat, ZenonT(40)
<1>9. /\ T \o ((H0 \o (L \o U)) \o F) = (((T \o H0) \o L) \o U) \o F
      /\ T \o ((H0 \o (L \o U)) \o F) \in Seq(Token)
  BY <1>2, <1>3, <1>4, FiveConcat
<1>10. FirstMessage = LockPart \o F /\ FirstMessage \in Seq(Token)
  <2>1. CASE ~signing_multisig_input
    <3>1. T \o (H1 \o F) = (T \o H1) \o F /\ T \o (H1 \o F) \in Seq(Token)
      BY SMTT(40), <1>2, <1>4, <1>8
    <3>. QED
      BY <2>1, <3>1, <1>5
  <2>2. CASE signing_multisig_input /\ first.field = 0
    <3>1. /\ T \o (H0 \o F) = (T \o H0) \o F /\ T \o (H0 \o F) \in Seq(Token)
          /\ H0 \o <<>> = H0
      BY <1>2, <1>4, <1>8
    <3>. QED
      BY <2>2, <3>1, <1>6
  <2>3. CASE signing_multisig_input /\ first.field # 0
    BY <2>3, <1>7, <1>9
  <2>. QED
    BY <2>1, <2>2, <2>3
<1>. QED
  BY <1>10 DEF F

\* A further witness takes a message to a message.
LEMMA WithOtherType ==
  /\ WithOther \in [Seq(Token) \X Seq(UNIT) -> Seq(Token)]
  /\ \A m \in Seq(Token), w \in Seq(UNIT) :
       WithOther[<<m, w>>] = m \o <<Length(Len(w))>> \o Units(w)
<1>1. ASSUME NEW m \in Seq(Token), NEW w \in Seq(UNIT)
      PROVE  m \o <<Length(Len(w))>> \o Units(w) \in Seq(Token)
  <2>1. Len(w) \in Nat
    OBVIOUS
  <2>2. Length(Len(w)) \in Token
    BY <2>1, TokenTypes
  <2>3. <<Length(Len(w))>> \in Seq(Token)
    BY <2>2
  <2>4. Units(w) \in Seq(Token)
    BY UnitsType
  <2>. QED
    BY <2>3, <2>4, TokensConcat, Zenon
<1>2. \A p \in Seq(Token) \X Seq(UNIT) : p[1] \in Seq(Token) /\ p[2] \in Seq(UNIT)
  OBVIOUS
<1>3. WithOther \in [Seq(Token) \X Seq(UNIT) -> Seq(Token)]
  BY <1>1, <1>2, Zenon DEF WithOther
<1>4. \A m \in Seq(Token), w \in Seq(UNIT) :
        WithOther[<<m, w>>] = m \o <<Length(Len(w))>> \o Units(w)
  BY DEF WithOther
<1>. QED
  BY <1>3, <1>4

\* What is hashed of the first witness is a sequence of tokens.
LEMMA FirstMessageType ==
  ASSUME TypeOK, Truncated(first) \/ Covered
  PROVE  FirstMessage \in Seq(Token)
<1>1. CASE Truncated(first)
  BY <1>1, SelfWitnessType, Zenon DEF FirstMessage
<1>2. CASE Covered
  BY <1>2, FirstMessageParts
<1>. QED
  BY <1>1, <1>2

\* The message with n further witnesses, from the one with a witness fewer.
LEMMA MessageOfFacts ==
  ASSUME TypeOK, Truncated(first) \/ Covered
  PROVE  /\ MessageOf(0) = FirstMessage
         /\ \A n \in 0 .. Len(others) : MessageOf(n) \in Seq(Token)
         /\ \A n \in 1 .. Len(others) :
              MessageOf(n) = MessageOf(n - 1) \o <<Length(Len(others[n]))>>
                               \o Units(others[n])
<1>1. Folds(WithOther, FirstMessage, Seq(Token), Seq(UNIT))
  BY FirstMessageType, WithOtherType DEF Folds
<1>2. others \in Seq(Seq(UNIT)) /\ Len(others) \in Nat
  BY SentTypes
<1>3. \A n \in 0 .. Len(others) : SubSeq(others, 1, n) \in Seq(Seq(UNIT))
  BY <1>2
<1>4. \A n \in 0 .. Len(others) : MessageOf(n) \in Seq(Token)
  <2>1. \A q \in Seq(Seq(UNIT)) : FoldUp(WithOther, FirstMessage, q) \in Seq(Token)
    BY <1>1, FoldUpType
  <2>. QED
    BY <1>3, <2>1 DEF MessageOf
<1>5. MessageOf(0) = FirstMessage
  <2>1. SubSeq(others, 1, 0) = <<>>
    BY SubSeqEmpty
  <2>2. FoldUp(WithOther, FirstMessage, <<>>) = FirstMessage
    BY <1>1, FoldUpEmpty
  <2>. QED
    BY <2>1, <2>2 DEF MessageOf
<1>6. ASSUME NEW n \in 1 .. Len(others)
      PROVE  MessageOf(n) = MessageOf(n - 1) \o <<Length(Len(others[n]))>>
                              \o Units(others[n])
  <2>1. n - 1 \in 0 .. Len(others) /\ others[n] \in Seq(UNIT)
    BY <1>2
  <2>2. SubSeq(others, 1, n) = Append(SubSeq(others, 1, n - 1), others[n])
    <3>1. SubSeq(others, 1, n) = SubSeq(others, 1, n - 1) \o <<others[n]>>
      <4>1. 1 \in 1 .. Len(others) /\ n \in 1 .. Len(others)
        BY <1>2
      <4>. QED
        BY <1>2, <4>1, SubSeqRecursiveSecond
    <3>2. SubSeq(others, 1, n - 1) \in Seq(Seq(UNIT))
      BY <1>3, <2>1
    <3>. QED
      BY <2>1, <3>1, <3>2, AppendIsConcat
  <2>3. \A q \in Seq(Seq(UNIT)), w \in Seq(UNIT) :
          FoldUp(WithOther, FirstMessage, Append(q, w))
            = WithOther[<<FoldUp(WithOther, FirstMessage, q), w>>]
    BY <1>1, FoldUpAppend
  <2>4. MessageOf(n) = WithOther[<<MessageOf(n - 1), others[n]>>]
    BY <1>3, <2>1, <2>2, <2>3 DEF MessageOf
  <2>5. MessageOf(n - 1) \in Seq(Token)
    BY <1>4, <2>1
  <2>. QED
    BY <2>1, <2>4, <2>5, WithOtherType
<1>. QED
  BY <1>4, <1>5, <1>6

-----------------------------------------------------------------------------
(* What each step hashes *)

\* witness_offsets hashes the header as the message has it.
LEMMA OffsetsHashed ==
  ASSUME Inv, WitnessOffsets, Covered
  PROVE  Counted' /\ FirstHashed'
<1>1. TypeOK /\ pc = "header" /\ hashed = <<TxHash>> /\ pos = 0 /\ UNCHANGED sent
  BY DEF Inv, FirstHashed, Place, WitnessOffsets
<1>2. hashed' = HeaderPart
  BY <1>1, Zenon DEF WitnessOffsets, HeaderPart
<1>3. HeaderPart' = HeaderPart /\ LockPart' = LockPart
  BY <1>1, SentParts
<1>4. CASE first.field = 0
  <2>1. pc' = "fields" /\ pos' = 0 /\ first' = first
    BY <1>1, <1>4 DEF WitnessOffsets, sent
  <2>2. LockPart = HeaderPart /\ first.plen = 0
    BY <1>1, <1>4, CoveredFacts DEF LockPart
  <2>3. HeaderPart \o Units(SubSeq(first.body, 0 + 1, 0)) = HeaderPart
    BY <1>1, PartTypes, NoUnits
  <2>4. hashed' = LockPart' \o Units(SubSeq(first.body, first.plen + 1, pos))'
    BY <1>2, <1>3, <2>1, <2>2, <2>3
  <2>. QED
    BY <2>1, <2>4 DEF Counted, FirstHashed
<1>5. CASE first.field # 0
  <2>1. pc' = "lock_size"
    BY <1>5 DEF WitnessOffsets
  <2>. QED
    BY <1>2, <1>3, <2>1 DEF Counted, FirstHashed
<1>. QED
  BY <1>4, <1>5

\* witness_lock_arg_size hashes the length as the message has it.
LEMMA LockSizeHashed ==
  ASSUME Inv, WitnessLockArgSize, Covered
  PROVE  Counted' /\ FirstHashed'
<1>1. /\ TypeOK /\ pc = "lock_size" /\ hashed = HeaderPart /\ pos = 0 /\ consumed = 0
      /\ first.field # 0 /\ Sound(first) /\ first.plen \in Nat /\ UNCHANGED sent
      /\ pos' = 0 /\ consumed' = 0 /\ first' = first
      /\ signing_multisig_input' = signing_multisig_input
  BY CoveredFacts DEF Inv, FirstHashed, Place, WitnessLockArgSize, sent
<1>2. hashed' = SizePart
  <2>1. CASE signing_multisig_input
    <3>1. HeaderPart \in Seq(Token) /\ LockSize(first.plen) \in Token
      BY <1>1, PartTypes, TokenTypes
    <3>2. Append(HeaderPart, LockSize(first.plen)) = HeaderPart \o <<LockSize(first.plen)>>
      BY <3>1, AppendIsConcat
    <3>. QED
      BY <1>1, <2>1, <3>2 DEF WitnessLockArgSize, SizePart
  <2>2. CASE ~signing_multisig_input
    BY <1>1, <2>2 DEF WitnessLockArgSize, SizePart
  <2>. QED
    BY <2>1, <2>2
<1>3. HeaderPart' = HeaderPart /\ SizePart' = SizePart /\ LockPart' = LockPart
  BY <1>1, SentParts
<1>4. CASE first.plen > 0
  <2>1. pc' = "lock"
    BY <1>1, <1>4 DEF WitnessLockArgSize, LockOrFields
  <2>2. SizePart \o Units(SubSeq(WithoutSignatures(first), 0 + 1, 0)) = SizePart
    BY <1>1, PartTypes, NoUnits
  <2>3. Counted'
    BY <1>1 DEF Counted, FLAGS
  <2>4. signing_multisig_input =>
          hashed' = SizePart' \o Units(SubSeq(WithoutSignatures(first), 1, pos))'
    BY <1>1, <1>2, <1>3, <2>2
  <2>5. ~signing_multisig_input => hashed' = HeaderPart'
    BY <1>2, <1>3 DEF SizePart
  <2>. QED
    BY <1>1, <2>1, <2>3, <2>4, <2>5 DEF FirstHashed
<1>5. CASE first.plen = 0
  <2>1. pc' = "fields"
    BY <1>1, <1>5 DEF WitnessLockArgSize, LockOrFields
  <2>2. ~signing_multisig_input
    BY <1>1, <1>5, CoveredFacts DEF HasScript, FLAGS
  <2>3. LockPart = HeaderPart /\ SizePart = HeaderPart
    BY <2>2 DEF LockPart, SizePart
  <2>4. HeaderPart \o Units(SubSeq(first.body, 0 + 1, 0)) = HeaderPart
    BY <1>1, PartTypes, NoUnits
  <2>5. hashed' = LockPart' \o Units(SubSeq(first.body, first.plen + 1, pos))'
    BY <1>1, <1>2, <1>3, <1>5, <2>3, <2>4
  <2>. QED
    BY <2>1, <2>5 DEF Counted, FirstHashed
<1>. QED
  BY <1>1, <1>4, <1>5
\* A chunk of lock with its signatures zeroed is that part of lock without its
\* signatures: the count of keys is that of the script, or the chunk ends before
\* the byte that gives it.
LEMMA ZeroedIsPart ==
  ASSUME TypeOK, Covered, signing_multisig_input, first.field # 0, NEW n \in Nat,
         pos + n <= first.plen, consumed = pos, NEW cnt \in UNIT,
         \/ cnt = first.body[FLAGS] /\ ~(cnt > 0 /\ consumed >= ScriptLen(cnt))
         \/ pos + n < FLAGS
  PROVE  Zeroed(n, cnt) = SubSeq(WithoutSignatures(first), pos + 1, pos + n)
<1> DEFINE z == Zeroed(n, cnt)
           w == WithoutSignatures(first)
           p == SubSeq(w, pos + 1, pos + n)
           c == first.body[FLAGS]
<1>1. /\ pos \in Nat /\ first.plen \in Nat /\ first.plen <= Len(first.body)
      /\ Len(first.body) \in Nat /\ pos + n <= Len(first.body)
      /\ first.body \in Seq(UNIT)
  BY CoveredFacts DEF TypeOK
<1>2. HasScript(first)
  BY CoveredFacts
<1>3. UNIT \subseteq Nat /\ KEY \in Nat /\ KEY > 0
  BY WitnessAssumption
<1>4. c \in Nat /\ c > 0 /\ cnt \in Nat
  <2>1. FLAGS \in 1 .. Len(first.body)
    BY <1>1, <1>2 DEF HasScript, FLAGS
  <2>2. c \in UNIT
    BY <1>1, <2>1
  <2>. QED
    BY <1>2, <1>3, <2>2 DEF HasScript
<1>5. KEY * c \in Nat /\ KEY * cnt \in Nat
  <2>1. \A a, b \in Nat : a * b \in Nat
    OBVIOUS
  <2>. QED
    BY <1>3, <1>4, <2>1
<1>6. /\ z \in Seq(UNIT) /\ Len(z) = n
      /\ \A k \in 1 .. n :
           z[k] = IF cnt > 0 /\ ScriptLen(cnt) - consumed > 0
                       /\ k > ScriptLen(cnt) - consumed
                  THEN 0 ELSE first.body[pos + k]
  BY <1>1, ZeroedType
<1>7. /\ w \in Seq(UNIT) /\ Len(w) = first.plen
      /\ \A k \in 1 .. first.plen :
           w[k] = IF k <= FLAGS + KEY * c THEN first.body[k] ELSE 0
  BY WithoutSignaturesType
<1> HIDE DEF z, w, c
<1>8. /\ p \in Seq(UNIT) /\ Len(p) = n
      /\ \A k \in 1 .. n : p[k] = w[pos + k]
  <2>1. \A k \in pos + 1 .. pos + n : w[k] \in UNIT
    BY <1>1, <1>7
  <2>2. /\ p \in Seq(UNIT)
        /\ Len(p) = IF pos + 1 <= pos + n THEN (pos + n) - (pos + 1) + 1 ELSE 0
        /\ \A i \in 1 .. (pos + n) - (pos + 1) + 1 : p[i] = w[(pos + 1) + i - 1]
    BY <1>1, <2>1, SubSeqProperties
  <2>3. (pos + n) - (pos + 1) + 1 = n /\ \A i \in 1 .. n : (pos + 1) + i - 1 = pos + i
    BY <1>1
  <2>. QED
    <3> HIDE DEF p
    <3>. QED
      BY <1>1, <2>2, <2>3
<1> HIDE DEF p
<1>9. ASSUME NEW k \in 1 .. n PROVE z[k] = p[k]
  <2>1. /\ pos + k \in 1 .. first.plen
        /\ p[k] = IF pos + k <= FLAGS + KEY * c THEN first.body[pos + k] ELSE 0
    <3>1. pos + k \in 1 .. first.plen
      BY <1>1
    <3>2. p[k] = w[pos + k]
      BY <1>8
    <3>3. w[pos + k] = IF pos + k <= FLAGS + KEY * c THEN first.body[pos + k] ELSE 0
      BY <1>7, <3>1, Zenon
    <3>. QED
      BY <3>1, <3>2, <3>3, Zenon
  <2>2. CASE cnt = c /\ ~(cnt > 0 /\ consumed >= ScriptLen(cnt))
    <3>1. ScriptLen(cnt) = FLAGS + KEY * c /\ consumed < ScriptLen(cnt)
      BY <1>4, <1>5, <1>1, <2>2 DEF ScriptLen, FLAGS
    <3>2. z[k] = IF pos + k > FLAGS + KEY * c THEN 0 ELSE first.body[pos + k]
      BY <1>1, <1>4, <1>5, <1>6, <2>2, <3>1 DEF FLAGS
    <3>. QED
      BY <1>1, <1>5, <2>1, <3>2 DEF FLAGS
  <2>3. CASE pos + n < FLAGS
    <3>1. pos + k <= FLAGS + KEY * c /\ ~(k > (FLAGS + KEY * cnt) - consumed)
      BY <1>1, <1>5, <2>3 DEF FLAGS
    <3>2. ~(k > ScriptLen(cnt) - consumed)
      BY <3>1, Zenon DEF ScriptLen
    <3>3. z[k] = first.body[pos + k]
      BY <1>6, <3>2, Zenon
    <3>4. p[k] = first.body[pos + k]
      BY <2>1, <3>1, Zenon
    <3>. QED
      BY <3>3, <3>4
  <2>. QED
    BY <2>2, <2>3 DEF c
<1>10. z = p
  BY <1>6, <1>8, <1>9, SeqEqual
<1>. QED
  BY <1>10 DEF z, p, w

\* A chunk of lock for a multisig input, when nothing made it unsafe and it does
\* not begin within the signatures.
LEMMA MultisigChunkHashed ==
  ASSUME Inv, NEW n \in Sizes, WitnessLockArgBodyChunk(n), Covered, Covered',
         signing_multisig_input
  PROVE  /\ consumed' = pos'
         /\ pos' >= FLAGS => pubkeys' = first.body[FLAGS]
         /\ hashed' = SizePart \o Units(SubSeq(WithoutSignatures(first), 1, pos'))
<1>1. /\ TypeOK /\ pc = "lock" /\ consumed = pos /\ pos \in Nat /\ n \in Nat
      /\ n <= left /\ pos + left = first.plen /\ left \in Nat /\ first.field # 0
      /\ first.plen \in Nat /\ first.plen <= Len(first.body) /\ Len(first.body) \in Nat
      /\ pos + n <= Len(first.body)
      /\ consumed >= FLAGS => pubkeys = first.body[FLAGS]
      /\ hashed = SizePart \o Units(SubSeq(WithoutSignatures(first), 1, pos))
      /\ pos' = pos + n
  <2>1. /\ TypeOK /\ pc = "lock" /\ pos \in Nat /\ left \in Nat /\ n <= left
        /\ pos' = pos + n /\ pos + n <= Len(first.body)
    BY DEF Inv, TypeOK, WitnessLockArgBodyChunk
  <2>2. /\ Sound(first) /\ first.plen \in Nat /\ Len(first.body) \in Nat
        /\ first.plen + first.it + first.ot <= Len(first.body)
        /\ first.it \in Nat /\ first.ot \in Nat
    BY <2>1, CoveredFacts
  <2>3. pos + left = first.plen /\ first.field # 0
    BY <2>1, <2>2 DEF Inv, Place, Reaches
  <2>4. consumed = pos /\ (consumed >= FLAGS => pubkeys = first.body[FLAGS])
    BY <2>1 DEF Inv, Counted
  <2>5. hashed = SizePart \o Units(SubSeq(WithoutSignatures(first), 1, pos))
    BY <2>1 DEF Inv, FirstHashed
  <2>. QED
    BY SMTT(40), <2>1, <2>2, <2>3, <2>4, <2>5 DEF Sizes
<1>2. signing_multisig_input' /\ ~unsafe' /\ ~scattered' /\ first' = first
  BY DEF Covered, WitnessLockArgBodyChunk, sent
<1>3. PICK cnt \in (IF consumed < FLAGS
                    THEN ChunkByte(n, FLAGS - 1 - consumed) ELSE {pubkeys}) :
        /\ pubkeys' = cnt
        /\ hashed' = hashed \o Units(Zeroed(n, cnt))
        /\ scattered' = (scattered \/ (cnt > 0 /\ consumed >= ScriptLen(cnt)))
        /\ consumed' = consumed + n
  <2>1. MultisigLockChunk(n)
    BY DEF WitnessLockArgBodyChunk
  <2>. QED
    BY <1>2, <2>1, Zenon DEF MultisigLockChunk
<1>4. cnt \in UNIT /\ (cnt = first.body[FLAGS] \/ pos + n < FLAGS)
  <2>1. CASE consumed < FLAGS
    <3>1. FLAGS - 1 - consumed \in Nat /\ cnt \in ChunkByte(n, FLAGS - 1 - consumed)
      BY <1>1, <1>3, <2>1 DEF FLAGS
    <3>2. cnt \in UNIT
      BY <1>1, <3>1, ChunkByteType
    <3>3. CASE FLAGS - 1 - consumed < n
      <4>1. cnt = first.body[pos + (FLAGS - 1 - consumed) + 1]
        BY <3>1, <3>3 DEF ChunkByte
      <4>2. pos + (FLAGS - 1 - consumed) + 1 = FLAGS
        BY <1>1 DEF FLAGS
      <4>. QED
        BY <3>2, <4>1, <4>2
    <3>4. CASE ~(FLAGS - 1 - consumed < n)
      BY <1>1, <3>2, <3>4 DEF FLAGS
    <3>. QED
      BY <3>3, <3>4
  <2>2. CASE ~(consumed < FLAGS)
    BY <1>1, <1>3, <2>2 DEF TypeOK, FLAGS
  <2>. QED
    BY <2>1, <2>2
<1>5. ~(cnt > 0 /\ consumed >= ScriptLen(cnt))
  BY <1>2, <1>3, Zenon
<1>6. Zeroed(n, cnt) = SubSeq(WithoutSignatures(first), pos + 1, pos + n)
  <2>1. pos + n <= first.plen
    BY <1>1
  <2>. QED
    BY <1>1, <1>4, <1>5, <2>1, ZeroedIsPart
<1>7. hashed' = SizePart \o Units(SubSeq(WithoutSignatures(first), 1, pos'))
  <2> DEFINE w == WithoutSignatures(first)
             a == Units(SubSeq(w, 1, pos))
             b == Units(SubSeq(w, pos + 1, pos + n))
  <2>1. w \in Seq(UNIT) /\ Len(w) = first.plen
    BY <1>1, WithoutSignaturesType
  <2> HIDE DEF w
  <2>2. 1 \in 1 .. Len(w) + 1 /\ pos \in 1 - 1 .. Len(w) /\ pos + n \in pos .. Len(w)
    BY <1>1, <2>1
  <2>3. a \o b = Units(SubSeq(w, 1, pos + n))
    BY <2>1, <2>2, UnitsAdjacent
  <2>4. SubSeq(w, 0 + 1, pos) \in Seq(UNIT) /\ SubSeq(w, pos + 1, pos + n) \in Seq(UNIT)
    BY <1>1, <2>1, <2>2, PartType
  <2>5. a \in Seq(Token) /\ b \in Seq(Token) /\ SizePart \in Seq(Token)
    <3>1. 0 + 1 = 1
      OBVIOUS
    <3>. QED
      BY <1>1, <2>4, <3>1, UnitsType, PartTypes
  <2>6. hashed' = (SizePart \o a) \o b
    BY <1>1, <1>3, <1>6 DEF w
  <2> HIDE DEF a, b
  <2>7. (SizePart \o a) \o b = SizePart \o (a \o b)
    BY SMTT(40), <2>5, TokensConcat
  <2>. QED
    BY <1>1, <2>3, <2>6, <2>7 DEF w
<1>8. consumed' = pos' /\ (pos' >= FLAGS => pubkeys' = first.body[FLAGS])
  BY <1>1, <1>3, <1>4 DEF FLAGS
<1>. QED
  BY <1>7, <1>8

\* A chunk of lock continues the message, for either kind of signature.
LEMMA LockHashed ==
  ASSUME Inv, NEW n \in Sizes, WitnessLockArgBodyChunk(n), Covered, Covered'
  PROVE  Counted' /\ FirstHashed'
<1>1. /\ TypeOK /\ pc = "lock" /\ pos \in Nat /\ left \in Nat /\ n \in Nat /\ n <= left
      /\ pos' = pos + n /\ UNCHANGED sent /\ first' = first
      /\ signing_multisig_input' = signing_multisig_input
  BY DEF Inv, TypeOK, Sizes, WitnessLockArgBodyChunk, sent
<1>2. pos + left = first.plen /\ first.plen \in Nat /\ first.field # 0
  BY <1>1, CoveredFacts DEF Inv, Place, Reaches
<1>3. HeaderPart' = HeaderPart /\ SizePart' = SizePart /\ LockPart' = LockPart
  BY <1>1, SentParts
<1>4. ~signing_multisig_input => hashed' = HeaderPart
  <2>1. ~signing_multisig_input => hashed = HeaderPart
    BY <1>1 DEF Inv, FirstHashed
  <2>. QED
    BY <2>1 DEF WitnessLockArgBodyChunk
<1>5. CASE n = left
  <2>1. pc' = "fields" /\ pos' = first.plen
    BY <1>1, <1>2, <1>5 DEF WitnessLockArgBodyChunk, LockOrFields
  <2>2. hashed' = LockPart
    <3>1. CASE signing_multisig_input
      <4>1. hashed' = SizePart \o Units(SubSeq(WithoutSignatures(first), 1, first.plen))
        BY <2>1, <3>1, MultisigChunkHashed
      <4>2. SubSeq(WithoutSignatures(first), 1, first.plen) = WithoutSignatures(first)
        BY <1>1, WithoutSignaturesType, SubSeqFull
      <4>. QED
        BY <1>2, <3>1, <4>1, <4>2 DEF LockPart
    <3>2. CASE ~signing_multisig_input
      BY <1>4, <3>2 DEF LockPart
    <3>. QED
      BY <3>1, <3>2
  <2>3. LockPart \o Units(SubSeq(first.body, first.plen + 1, first.plen)) = LockPart
    BY <1>1, <1>2, PartTypes, NoUnits
  <2>4. hashed' = LockPart' \o Units(SubSeq(first.body, first.plen + 1, pos))'
    BY <1>1, <1>3, <2>1, <2>2, <2>3
  <2>. QED
    BY <2>1, <2>4 DEF Counted, FirstHashed
<1>6. CASE n # left
  <2>1. pc' = "lock"
    BY <1>1, <1>6 DEF WitnessLockArgBodyChunk, LockOrFields
  <2>2. ASSUME signing_multisig_input
        PROVE  /\ consumed' = pos'
               /\ consumed' >= FLAGS => pubkeys' = first.body[FLAGS]
               /\ hashed' = SizePart' \o Units(SubSeq(WithoutSignatures(first), 1, pos))'
    BY <1>1, <1>3, <2>2, MultisigChunkHashed
  <2>3. Counted'
    BY <1>1, <2>2 DEF Counted
  <2>. QED
    BY <1>1, <1>3, <1>4, <2>1, <2>2, <2>3 DEF FirstHashed
<1>. QED
  BY <1>5, <1>6

\* A chunk of input_type and output_type continues the message.
LEMMA FieldsHashed ==
  ASSUME Inv, NEW n \in Sizes, FieldsChunk(n), Covered
  PROVE  Counted' /\ FirstHashed'
<1>1. /\ TypeOK /\ pc = "fields" /\ pos \in Nat /\ left \in Nat /\ n \in 1 .. left
      /\ pos' = pos + n /\ pos + n <= Len(first.body) /\ UNCHANGED sent
      /\ first' = first /\ pc' = "fields"
  BY DEF Inv, TypeOK, FieldsChunk, sent
<1>2. /\ first.plen \in Nat /\ first.body \in Seq(UNIT) /\ Len(first.body) \in Nat
      /\ pos >= first.plen
  BY <1>1, CoveredFacts DEF Inv, Place, Reaches
<1>3. LockPart' = LockPart /\ LockPart \in Seq(Token)
  BY <1>1, SentParts, PartTypes
<1> DEFINE a == Units(SubSeq(first.body, first.plen + 1, pos))
           b == Units(SubSeq(first.body, pos + 1, pos + n))
<1>4. hashed' = (LockPart \o a) \o b
  BY <1>1 DEF Inv, FirstHashed, FieldsChunk
<1>5. a \o b = Units(SubSeq(first.body, first.plen + 1, pos + n))
  <2>1. /\ first.plen + 1 \in 1 .. Len(first.body) + 1
        /\ pos \in (first.plen + 1) - 1 .. Len(first.body)
        /\ pos + n \in pos .. Len(first.body)
    BY <1>1, <1>2
  <2>. QED
    BY <1>2, <2>1, UnitsAdjacent
<1>6. a \in Seq(Token) /\ b \in Seq(Token)
  <2>1. /\ SubSeq(first.body, first.plen + 1, pos) \in Seq(UNIT)
        /\ SubSeq(first.body, pos + 1, pos + n) \in Seq(UNIT)
    BY <1>1, <1>2, PartType
  <2>. QED
    BY <2>1, UnitsType
<1> HIDE DEF a, b
<1>7. (LockPart \o a) \o b = LockPart \o (a \o b)
  BY <1>3, <1>6, TokensConcat
<1>8. hashed' = LockPart' \o Units(SubSeq(first.body, first.plen + 1, pos))'
  BY <1>1, <1>3, <1>4, <1>5, <1>7
<1>. QED
  BY <1>1, <1>8 DEF Counted, FirstHashed

\* The first witness ends with its message, or with the one made up for it.
LEMMA EndHashed ==
  ASSUME Inv, ProcessFirstEnd, Truncated(first) \/ Covered
  PROVE  hashed' = FirstMessage
<1>1. /\ TypeOK /\ first \in Firsts /\ pos \in Nat /\ left \in Nat
      /\ pc \in Reading /\ hashed' = MessageSoFar
  BY DEF Inv, TypeOK, ProcessFirstEnd, FirstEnds, Reading
<1>2. first_witness_done <=> pc = "complete"
  BY <1>1 DEF Inv, Place
<1>3. /\ first.plen \in Nat /\ first.it \in Nat /\ first.ot \in Nat
      /\ Len(first.body) \in Nat
  BY <1>1, FirstType
<1>4. CASE Truncated(first)
  <2>1. pc # "complete"
    BY <1>1, <1>3, <1>4 DEF Inv, Place, Reaches, Reading, Truncated
  <2>2. hashed' = SelfWitness
    BY <1>1, <1>2, <2>1 DEF MessageSoFar
  <2>. QED
    BY <1>4, <2>2, SelfWitnessType DEF FirstMessage
<1>5. CASE Covered
  <2>1. /\ ~first.short /\ Sound(first)
        /\ first.plen + first.it + first.ot <= Len(first.body)
    BY <1>1, <1>5, CoveredFacts
  <2>2. pc = "complete"
    BY SMTT(40), <1>1, <1>3, <2>1 DEF Inv, Place, Reaches, ProcessFirstEnd, FirstEnds
  <2>3. pos = first.plen + first.it + first.ot
    BY <1>1, <1>3, <2>1, <2>2 DEF Inv, Place, Reaches
  <2>4. hashed' = hashed
    BY <1>1, <1>2, <2>2 DEF MessageSoFar
  <2>5. hashed = LockPart \o Units(SubSeq(first.body, first.plen + 1, pos))
    BY <1>5, <2>2 DEF Inv, FirstHashed
  <2>6. FirstMessage = LockPart \o Units(Fields(first))
    BY <1>1, <1>5, FirstMessageParts
  <2>. QED
    BY <2>3, <2>4, <2>5, <2>6 DEF Fields
<1>. QED
  BY <1>4, <1>5

\* The further witnesses.
LEMMA OtherHashed ==
  ASSUME Inv, Truncated(first) \/ Covered, UNCHANGED sent,
         \/ BeginOther \/ ProcessOtherEnd \/ FinalizeWitnesses
         \/ \E n \in 1 .. Len(others[index]) : OtherChunk(n)
  PROVE  /\ pc' \in {"begin", "final"} /\ index' > 0 => hashed' = MessageOf(index' - 1)
         /\ pc' = "other" => hashed' = MessageOf(index' - 1)
                                         \o <<Length(Len(others[index']))>>
                                         \o Units(SubSeq(others[index'], 1, pos'))
<1>1. TypeOK /\ Place /\ OthersHashed /\ pos \in Nat /\ index \in Nat
  BY SentTypes DEF Inv, TypeOK
<1>2. CASE FinalizeWitnesses
  BY <1>1, <1>2 DEF FinalizeWitnesses, OthersHashed
<1>3. ASSUME index \in 1 .. count - 1
      PROVE  /\ index \in 1 .. Len(others) /\ others[index] \in Seq(UNIT)
             /\ Len(others[index]) \in Nat /\ MessageOf(index - 1) \in Seq(Token)
             /\ <<Length(Len(others[index]))>> \in Seq(Token)
             /\ Length(Len(others[index])) \in Token
  <2>1. index \in 1 .. Len(others) /\ index - 1 \in 0 .. Len(others)
    BY <1>1, <1>3, SentTypes
  <2>2. others[index] \in Seq(UNIT) /\ Len(others[index]) \in Nat
    BY <1>1, <2>1, SentTypes
  <2>3. MessageOf(index - 1) \in Seq(Token)
    BY <1>1, <2>1, MessageOfFacts
  <2>4. Length(Len(others[index])) \in Token
    BY <2>2, TokenTypes
  <2>5. <<Length(Len(others[index]))>> \in Seq(Token)
    BY <2>4
  <2>. QED
    BY <2>1, <2>2, <2>3, <2>4, <2>5
<1> DEFINE m == MessageOf(index - 1)
           l == <<Length(Len(others[index]))>>
<1>4. CASE BeginOther
  <2>1. index \in 1 .. count - 1 /\ pc = "begin" /\ index > 0
    BY <1>4 DEF BeginOther
  <2>2. hashed = m
    BY <1>1, <2>1 DEF OthersHashed
  <2>3. hashed' = m \o l /\ m \o l \in Seq(Token)
    BY <1>3, <1>4, <2>1, <2>2, AppendIsConcat, ConcatProperties DEF BeginOther
  <2>4. (m \o l) \o Units(SubSeq(others[index], 0 + 1, 0)) = m \o l
    BY <2>3, NoUnits
  <2>. QED
    BY <1>4, <2>3, <2>4 DEF BeginOther
<1>5. CASE pc = "other"
  <2>1. /\ index \in 1 .. count - 1 /\ pos <= Len(others[index])
        /\ hashed = m \o l \o Units(SubSeq(others[index], 1, pos))
    BY <1>1, <1>5 DEF Place, OthersHashed
  <2>2. CASE ProcessOtherEnd
    <3>1. pos = Len(others[index]) /\ index' = index + 1 /\ hashed' = hashed /\ pc' = "begin"
      BY <2>2 DEF ProcessOtherEnd
    <3>2. SubSeq(others[index], 1, pos) = others[index]
      BY <1>3, <2>1, <3>1, SubSeqFull
    <3>3. MessageOf(index) = m \o l \o Units(others[index])
      BY <1>1, <1>3, <2>1, MessageOfFacts
    <3>4. index' - 1 = index
      BY <1>1, <3>1
    <3>. QED
      BY <2>1, <3>1, <3>2, <3>3, <3>4
  <2>3. ASSUME NEW n \in 1 .. Len(others[index]), OtherChunk(n)
        PROVE  /\ pc' = "other" /\ index' = index
               /\ hashed' = m \o l \o Units(SubSeq(others[index], 1, pos'))
    <3> DEFINE w == others[index]
               a == Units(SubSeq(w, 1, pos))
               b == Units(SubSeq(w, pos + 1, pos + n))
    <3>1. /\ pc' = "other" /\ index' = index /\ pos' = pos + n
          /\ pos + n <= Len(w) /\ hashed' = ((m \o l) \o a) \o b
      BY <1>1, <1>3, <2>1, <2>3 DEF OtherChunk
    <3>2. w \in Seq(UNIT) /\ Len(w) \in Nat /\ m \in Seq(Token) /\ l \in Seq(Token)
      BY <1>3, <2>1
    <3> HIDE DEF w
    <3>3. a \o b = Units(SubSeq(w, 1, pos + n))
      <4>1. 1 \in 1 .. Len(w) + 1 /\ pos \in 1 - 1 .. Len(w) /\ pos + n \in pos .. Len(w)
        BY <1>1, <3>1, <3>2
      <4>. QED
        BY <3>2, <4>1, UnitsAdjacent
    <3>4. a \in Seq(Token) /\ b \in Seq(Token)
      <4>1. SubSeq(w, 0 + 1, pos) \in Seq(UNIT) /\ SubSeq(w, pos + 1, pos + n) \in Seq(UNIT)
        BY SMTT(40), <1>1, <3>1, <3>2, PartType
      <4>2. 0 + 1 = 1
        OBVIOUS
      <4>. QED
        BY <4>1, <4>2, UnitsType
    <3> HIDE DEF a, b, m, l
    <3>5. m \o l \in Seq(Token)
      BY <3>2, TokensConcat
    <3>6. ((m \o l) \o a) \o b = (m \o l) \o (a \o b)
      BY SMTT(40), <3>4, <3>5, TokensConcat
    <3>. QED
      BY <3>1, <3>3, <3>6 DEF w
  <2>4. CASE \E n \in 1 .. Len(others[index]) : OtherChunk(n)
    BY <2>3, <2>4
  <2>. QED
    BY <1>5, <2>2, <2>4 DEF BeginOther, FinalizeWitnesses
<1>6. pc = "other" \/ BeginOther \/ FinalizeWitnesses
  BY DEF ProcessOtherEnd, OtherChunk
<1>. QED
  BY <1>2, <1>4, <1>5, <1>6

-----------------------------------------------------------------------------
(* The message *)

\* The inductive invariant holds before the first witness.
LEMMA InitInv == Init => Inv
<1> SUFFICES ASSUME Init PROVE Inv
  OBVIOUS
<1>1. TypeOK /\ Place
  BY InitTypes
<1>2. Counted /\ FirstHashed /\ OthersHashed
  BY DEF Init, Counted, FirstHashed, OthersHashed
<1>. QED
  BY <1>1, <1>2 DEF Inv

\* What is hashed of the first witness.
LEMMA FirstHashedStep ==
  ASSUME Inv, [Next]_vars
  PROVE  Counted' /\ FirstHashed'
<1> SUFFICES ASSUME Covered' PROVE Counted' /\ FirstHashed'
  BY DEF Counted, FirstHashed
<1>1. Covered /\ UNCHANGED sent
  BY CoveredBefore, StepKeeps
<1>2. /\ HeaderPart' = HeaderPart /\ SizePart' = SizePart /\ LockPart' = LockPart
      /\ first' = first /\ signing_multisig_input' = signing_multisig_input
  BY <1>1, SentParts DEF sent
<1>3. CASE BeginFirst
  BY <1>3 DEF BeginFirst, Counted, FirstHashed
<1>4. CASE pc' \in {"begin", "other", "final"}
  BY <1>4 DEF Counted, FirstHashed
<1>5. CASE WitnessOffsets \/ WitnessLockArgSize
  BY <1>1, <1>5, OffsetsHashed, LockSizeHashed
<1>6. ASSUME NEW n \in Sizes, WitnessLockArgBodyChunk(n) \/ FieldsChunk(n)
      PROVE  Counted' /\ FirstHashed'
  BY <1>1, <1>6, LockHashed, FieldsHashed
<1>7. ASSUME NEW n \in Sizes, ResumeAfterReject(n) PROVE FALSE
  <2>1. ~Sound(first) /\ TypeOK
    BY <1>7 DEF Inv, Place, ResumeAfterReject
  <2>. QED
    BY <1>1, <2>1, CoveredFacts
<1>8. CASE WitnessArgsComplete
  <2>1. /\ pc = "fields" /\ pc' = "complete" /\ pos' = pos /\ hashed' = hashed
    BY <1>8 DEF WitnessArgsComplete
  <2>2. hashed = LockPart \o Units(SubSeq(first.body, first.plen + 1, pos))
    BY <1>1, <2>1 DEF Inv, FirstHashed
  <2>3. hashed' = LockPart' \o Units(SubSeq(first.body, first.plen + 1, pos))'
    BY <1>2, <2>1, <2>2
  <2>. QED
    BY <2>1, <2>3 DEF Counted, FirstHashed
<1>9. CASE UNCHANGED vars
  <2>1. UNCHANGED <<pc, pos, consumed, pubkeys, hashed>>
    BY <1>9 DEF vars
  <2>2. Counted /\ FirstHashed
    BY DEF Inv
  <2>3. Counted'
    BY <1>1, <1>2, <2>1, <2>2 DEF Counted
  <2>4. FirstHashed'
    BY <1>1, <1>2, <2>1, <2>2 DEF FirstHashed
  <2>. QED
    BY <2>3, <2>4
<1>10. ASSUME NEW n, OtherChunk(n) PROVE pc' = "other"
  BY <1>10 DEF OtherChunk
<1>11. BeginOther \/ ProcessFirstEnd \/ ProcessOtherEnd \/ FinalizeWitnesses =>
         pc' \in {"begin", "other", "final"}
  BY DEF BeginOther, ProcessFirstEnd, ProcessOtherEnd, FinalizeWitnesses
<1>. QED
  BY <1>3, <1>4, <1>5, <1>6, <1>7, <1>8, <1>9, <1>10, <1>11 DEF Next, Done

\* What is hashed after it.
LEMMA OthersHashedStep ==
  ASSUME Inv, [Next]_vars
  PROVE  OthersHashed'
<1>1. UNCHANGED sent /\ first' = first /\ others' = others
  BY StepKeeps DEF sent
<1>2. \A n : MessageOf(n)' = MessageOf(n)
  BY <1>1, SentParts
<1> SUFFICES ASSUME Truncated(first)' \/ Covered'
             PROVE  /\ pc' \in {"begin", "final"} /\ index' > 0 =>
                         hashed' = MessageOf(index' - 1)
                    /\ pc' = "other" =>
                         hashed' = MessageOf(index' - 1)
                                     \o <<Length(Len(others[index']))>>
                                     \o Units(SubSeq(others[index'], 1, pos'))
  BY <1>1, <1>2 DEF OthersHashed
<1>3. Truncated(first) \/ Covered
  BY <1>1, CoveredBefore
<1>4. CASE \/ BeginOther \/ ProcessOtherEnd \/ FinalizeWitnesses
           \/ \E n \in 1 .. Len(others[index]) : OtherChunk(n)
  BY <1>1, <1>3, <1>4, OtherHashed
<1>5. CASE ProcessFirstEnd
  <2>1. hashed' = FirstMessage /\ pc' = "begin" /\ index' = 1 /\ index' - 1 = 0
    BY <1>3, <1>5, EndHashed DEF ProcessFirstEnd
  <2>2. MessageOf(0) = FirstMessage
    BY <1>3, MessageOfFacts DEF Inv
  <2>. QED
    BY <2>1, <2>2
<1>6. CASE pc' \in Reading
  BY <1>6 DEF Reading
<1>7. CASE UNCHANGED vars
  <2>1. UNCHANGED <<pc, index, pos, hashed>>
    BY <1>7 DEF vars
  <2>2. OthersHashed
    BY DEF Inv
  <2>. QED
    BY <1>3, <2>1, <2>2 DEF OthersHashed
<1>8. \/ BeginFirst \/ WitnessOffsets \/ WitnessLockArgSize \/ WitnessArgsComplete
      \/ \E n \in Sizes :
           ResumeAfterReject(n) \/ WitnessLockArgBodyChunk(n) \/ FieldsChunk(n)
      => pc' \in Reading
  BY DEF BeginFirst, WitnessOffsets, WitnessLockArgSize, WitnessArgsComplete,
         ResumeAfterReject, WitnessLockArgBodyChunk, FieldsChunk, LockOrFields, Reading
<1>9. ASSUME NEW n \in 1 .. (IF pc = "other" THEN Len(others[index]) ELSE 0), OtherChunk(n)
      PROVE  \E m \in 1 .. Len(others[index]) : OtherChunk(m)
  <2>1. pc = "other"
    BY <1>9 DEF OtherChunk
  <2>. QED
    BY <1>9, <2>1
<1>. QED
  BY <1>4, <1>5, <1>6, <1>7, <1>8, <1>9 DEF Next, Done

\* The inductive invariant gives the message.
LEMMA InvMessage ==
  ASSUME Inv, Signable, Truncated(first) \/ Covered
  PROVE  hashed = FoldUp(WithOther, FirstMessage, others)
<1>1. TypeOK /\ Place /\ OthersHashed /\ pc = "final" /\ count > 0
  BY DEF Inv, Signable
<1>2. count = 1 + Len(others) /\ others \in Seq(Seq(UNIT)) /\ Len(others) \in Nat
  BY <1>1, SentTypes
<1>3. index = count
  BY <1>1 DEF Place
<1>4. hashed = MessageOf(index - 1) /\ index - 1 = Len(others)
  BY <1>1, <1>2, <1>3 DEF OthersHashed
<1>5. SubSeq(others, 1, Len(others)) = others
  BY <1>2, SubSeqFull
<1>. QED
  BY <1>4, <1>5 DEF MessageOf

\* The inductive invariant gives the message of a single signature.
LEMMA InvSighash == Inv => SighashMessage
<1> SUFFICES ASSUME Inv, Signable, ~signing_multisig_input
             PROVE  /\ Whole(first) => hashed = Message(SinglesigFirst(first))
                    /\ Truncated(first) => hashed = Message(Tail(SelfWitness))
  BY DEF SighashMessage
<1>1. ASSUME Whole(first) PROVE hashed = Message(SinglesigFirst(first))
  <2>1. Covered
    BY <1>1 DEF Covered
  <2>2. FirstMessage = <<TxHash>> \o SinglesigFirst(first)
    BY <1>1, Zenon DEF FirstMessage, Whole
  <2>. QED
    BY <2>1, <2>2, InvMessage DEF Message
<1>2. ASSUME Truncated(first) PROVE hashed = Message(Tail(SelfWitness))
  <2>1. FirstMessage = <<TxHash>> \o Tail(SelfWitness)
    BY <1>2, Zenon DEF FirstMessage
  <2>. QED
    BY <1>2, <2>1, InvMessage DEF Message
<1>. QED
  BY <1>1, <1>2

\* The inductive invariant gives the message of a multisig input.
LEMMA InvMultisig == Inv => MultisigMessage
<1> SUFFICES ASSUME Inv, Signable, signing_multisig_input
             PROVE  /\ ~scattered /\ Whole(first) /\ (first.field = 0 \/ HasScript(first))
                         => hashed = Message(MultisigFirst(first))
                    /\ Truncated(first) => hashed = Message(Tail(SelfWitness))
  BY DEF MultisigMessage
<1>1. ASSUME ~scattered, Whole(first), first.field = 0 \/ HasScript(first)
      PROVE  hashed = Message(MultisigFirst(first))
  <2>1. Covered
    BY <1>1 DEF Covered, Signable
  <2>2. FirstMessage = <<TxHash>> \o MultisigFirst(first)
    BY <1>1, Zenon DEF FirstMessage, Whole
  <2>. QED
    BY <2>1, <2>2, InvMessage DEF Message
<1>2. ASSUME Truncated(first) PROVE hashed = Message(Tail(SelfWitness))
  <2>1. FirstMessage = <<TxHash>> \o Tail(SelfWitness)
    BY <1>2, Zenon DEF FirstMessage
  <2>. QED
    BY <1>2, <2>1, InvMessage DEF Message
<1>. QED
  BY <1>1, <1>2

\* The inductive invariant holds in every state.
LEMMA InvInvariant == Spec => []Inv
<1>1. Inv /\ [Next]_vars => Inv'
  BY TypesStep, FirstHashedStep, OthersHashedStep DEF Inv
<1>. QED
  BY InitInv, <1>1, PTL DEF Spec

\* SighashMessage: for any first witness, any further witnesses and any chunks a
\* single signature is over the transaction hash, the first witness with a zero
\* lock and the further witnesses with their lengths.
THEOREM SighashCorrect == Spec => []SighashMessage
BY InvInvariant, InvSighash, PTL

\* MultisigMessage: for a multisig input the hash is over the script as sent and
\* zeroes for the signatures, for any script, any signatures and any chunks of
\* which none begins within the signatures.
THEOREM MultisigCorrect == Spec => []MultisigMessage
BY InvInvariant, InvMultisig, PTL
=============================================================================

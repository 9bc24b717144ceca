---------------------------- MODULE EncodingsProps ----------------------------
(***************************************************************************)
(* What a reader makes of a screen or of a signature: each text is read    *)
(* back, by definitions that do not use those that wrote it.               *)
(***************************************************************************)
EXTENDS Encodings

Kinds == {"none", "THROW", "amount", "amounts", "counts", "label", "contract", "address",
          "output", "path", "text", "hex", "hash", "signature"}

TypeOK ==
  /\ active_value \in [1 .. VALUE_WIDTH + 1 -> Byte]
  /\ out \in [1 .. 2 * SCALAR + 1 -> Byte]
  /\ done[1] \in Kinds
  /\ steps \in 0 .. MaxSteps

-----------------------------------------------------------------------------
(* Readers *)

DecimalStep == [p \in Nat \X (48 .. 57) |-> p[1] * 10 + (p[2] - 48)]
DecimalOf(text) == FoldUp(DecimalStep, 0, text)

\* The place of the first c, or the one after the end.
FirstOf(c, text) == Min({i \in DOMAIN text : text[i] = c} \cup {Len(text) + 1})
Before(c, text) == SubSeq(text, 1, FirstOf(c, text) - 1)
After(c, text) == SubSeq(text, FirstOf(c, text) + 1, Len(text))

\* A capacity, in the unit in which it is counted.
AmountOf(text) ==
  LET decimals == After(46, text)
  IN DecimalOf(Before(46, text)) * CKB_SCALE
       + DecimalOf(decimals) * Power(10, DECIMAL_DIGITS - Len(decimals))

\* "x of y"
FirstPart(text) == Before(32, text)
SecondPart(text) == After(32, After(32, text))

\* The bits of numbers of the given width, the high ones first, and the bytes made
\* of bits.
BitOf(numbers, width, j) ==
  LET i == j - 1
  IN (numbers[i \div width + 1] \div Power(2, width - 1 - (i % width))) % 2
BitsOf(numbers, width) == [j \in 1 .. width * Len(numbers) |-> BitOf(numbers, width, j)]
BytesOf(bits) ==
  [i \in 1 .. Len(bits) \div 8 |->
     128 * bits[8 * i - 7] + 64 * bits[8 * i - 6] + 32 * bits[8 * i - 5] + 16 * bits[8 * i - 4]
       + 8 * bits[8 * i - 3] + 4 * bits[8 * i - 2] + 2 * bits[8 * i - 1] + bits[8 * i]]

\* The data of a bech32 text after its prefix of three and the separator.
DataOf(text) ==
  [i \in 1 .. Len(text) - 4 |-> CHOOSE v \in 0 .. 31 : charset[v + 1] = text[i + 4]]

\* The script an address names on a network, if its checksum is right.
IsAddress(text, net, multisig, arg) ==
  LET data == DataOf(text)
      bits == BitsOf(SubSeq(data, 1, Len(data) - 6), 5)
      payload == BytesOf(bits)
      padding == SubSeq(bits, 8 * Len(payload) + 1, Len(bits))
      hash == SubSeq(arg, 1, HASH)
      period == SubSeq(arg, HASH + 1, Len(arg))
  IN /\ SubSeq(text, 1, 4) = Append(hrbs[net], 49)
     /\ Polymod(Expanded(hrbs[net]) \o data) = {0}
     /\ Len(padding) < 5 /\ \A i \in DOMAIN padding : padding[i] = 0
     /\ \/ ~multisig /\ payload = <<1, 0>> \o hash
        \/ multisig /\ payload = <<1, 1>> \o hash /\ \A i \in DOMAIN period : period[i] = 0
        \/ multisig /\ payload = <<4>> \o multisigLockScript \o hash \o period
             /\ \E i \in DOMAIN period : period[i] # 0

\* The path of a text: marks and separators take the last number along.
PathStep ==
  [p \in (Seq(Nat) \ {<<>>}) \X {39, 47, 48, 49, 50, 51, 52, 53, 54, 55, 56, 57} |->
     LET path == p[1]
         c == p[2]
     IN IF c = 47 THEN Append(path, 0)
        ELSE [path EXCEPT ![Len(path)] = IF c = 39 THEN @ + HARDENED ELSE @ * 10 + (c - 48)]]
PathRead(text) == FoldUp(PathStep, <<0>>, text)

HexValue(c) == IF c < 65 THEN c - 48 ELSE c - 55
HexRead(text) ==
  [i \in 1 .. Len(text) \div 2 |-> 16 * HexValue(text[2 * i - 1]) + HexValue(text[2 * i])]

MessageOf(packet) == SubSeq(packet, Len(MAGIC) + 1, Len(packet))

\* A character begins with a byte that does not continue another.
Continues(b) == b \in 128 .. 191
AddCharacter ==
  [p \in Seq(Byte) \X Byte |->
     IF Continues(p[2]) THEN p[1]
     ELSE Append(p[1], IF p[2] \in 32 .. 126 THEN p[2] ELSE 42)]
CharactersOf(message) == FoldUp(AddCharacter, <<>>, message)

\* How many bytes continue the character that b begins.
Width(b) == IF b < 192 THEN 0 ELSE IF b < 224 THEN 1 ELSE IF b < 240 THEN 2 ELSE 3

\* UTF-8, but for a character that may be cut at the end: a byte continues a
\* character when that is long enough, and only then.
IsUtf8(message) ==
  \A i \in DOMAIN message :
    Continues(message[i]) <=> \E k \in 1 .. i - 1 : i <= k + Width(message[k])

\* The message ends within a character: fewer bytes follow its first one than should.
EndsWithin(message) == \E i \in DOMAIN message : i + Width(message[i]) > Len(message)

\* All of s, or its beginning and dots.
Abridged(shown, s) ==
  IF Len(s) <= DISPLAY THEN shown = s
  ELSE /\ Len(shown) = DISPLAY
       /\ \A i \in 1 .. DISPLAY : shown[i] = IF i > DISPLAY - 3 THEN 46 ELSE s[i]

\* A beginning of s, or, when that is long, one and dots.
Begins(shown, s) ==
  /\ Len(shown) <= Len(s)
  /\ \/ IsPrefix(shown, s)
     \/ /\ Len(shown) = DISPLAY
        /\ \A i \in 1 .. DISPLAY : shown[i] = IF i > DISPLAY - 3 THEN 46 ELSE s[i]

-----------------------------------------------------------------------------

Kind == done[1]
IsScreen == Kind \notin {"none", "THROW", "signature"}

\* The text filled the buffer, or went past its end.
Spilled == \A i \in DOMAIN active_value : active_value[i] # 0

\* switch_screen: the text on the screen denotes the value it stands for, and that
\* value only, whatever the buffer held before: an amount to the last decimal, the
\* script and the network of an address, the path, and the beginning of a message in
\* UTF-8 (one that ends within a character may lose up to three characters there).
ShownIsMeant ==
  LET text == Text(active_value)
  IN IsScreen /\ ~Spilled =>
       CASE Kind = "amount" -> AmountOf(text) = done[2]
         [] Kind = "amounts" -> /\ AmountOf(FirstPart(text)) = done[2]
                                /\ AmountOf(SecondPart(text)) = done[3]
         [] Kind = "counts" -> /\ DecimalOf(FirstPart(text)) = done[2]
                               /\ DecimalOf(SecondPart(text)) = done[3]
         [] Kind = "label" -> text = done[2]
         [] Kind = "contract" -> text = IF done[2] THEN PRESENT ELSE NOT_PRESENT
         [] Kind = "address" -> IsAddress(text, done[2], done[3], done[4])
         [] Kind = "output" ->
              LET amount == FirstPart(text)
                  address == SubSeq(text, Len(amount) + Len(separator) + 1, Len(text))
              IN /\ AmountOf(amount) = done[2]
                 /\ SubSeq(text, Len(amount) + 1, Len(amount) + Len(separator)) = separator
                 /\ IsAddress(address, done[3], done[4], done[5])
         [] Kind = "path" -> PathRead(text) = PathOf(done[2])
         [] Kind = "text" ->
              LET message == MessageOf(done[2])
              IN IsUtf8(message) =>
                   IF EndsWithin(message) THEN Begins(text, CharactersOf(message))
                   ELSE Abridged(text, CharactersOf(message))
         [] Kind = "hex" -> Abridged(HexRead(text), MessageOf(done[2]))
         [] Kind = "hash" -> HexRead(text) = done[2]

\* The callbacks throw when there is no room.  There is room for everything the
\* application shows: 64 bytes in hex and the longest address fill it exactly.
RenderingSucceeds == Kind = "THROW" => done[2] = <<"refused">>

\* Only one screen may need more than active_value has: that of one output among
\* several when it pays to a multisig lock with a period.
OnlyTimelockedSpills ==
  IsScreen /\ Spilled =>
    /\ Kind = "output" /\ done[4]
    /\ \E i \in HASH + 1 .. Len(done[5]) : done[5][i] # 0

NumberStep == [p \in Nat \X Byte |-> p[1] * 256 + p[2]]
NumberOf(bytes) == FoldUp(NumberStep, 0, bytes)

\* sign: the signature that is sent has r and s in full width and the recovery id,
\* whatever their lengths in DER and whatever was in the buffer.
SignatureIsCompact ==
  Kind = "signature" =>
    /\ NumberOf(SubSeq(out, 1, SCALAR)) = NumberOf(done[2])
    /\ NumberOf(SubSeq(out, SCALAR + 1, 2 * SCALAR)) = NumberOf(done[3])
    /\ out[2 * SCALAR + 1] = done[4]
==============================================================================

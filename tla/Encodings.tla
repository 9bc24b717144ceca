------------------------------ MODULE Encodings -------------------------------
(***************************************************************************)
(* How values become the text of a screen and the bytes of an answer.      *)
(*                                                                         *)
(* switch_screen has the callback of a screen write its text into          *)
(* active_value, one buffer for all screens, over what the last screen     *)
(* left there; sign writes a signature over the APDU that asked for it.    *)
(* An action is one such call.  Characters are their codes, and the sizes  *)
(* of numbers, hashes and buffers are constants.                           *)
(***************************************************************************)
EXTENDS Integers, Sequences, SequencesExt, FiniteSetsExt, Folding

CONSTANTS
  MAX_INT_DIGITS,   \* digits of the largest number
  DECIMAL_DIGITS,   \* digits after the decimal point
  VALUE_WIDTH,      \* characters of active_value, without the NUL
  DISPLAY,          \* bytes of a message that are kept for the screen
  BECH,             \* characters bech32_encode writes at most
  CODE_HASH,        \* bytes of a code hash
  HASH,             \* bytes of the hash in a lock argument
  ARG,              \* bytes of a lock argument
  SCALAR,           \* bytes of either half of a signature
  HARDENED,         \* BIP32_HARDENED_PATH_BIT
  UNIT,             \* a component of a path is received as two units below UNIT
  MAX_BIP32_PATH,   \* components of a path
  MAGIC,            \* the bytes a message begins with
  Numbers, Counts,  \* capacities, and numbers of inputs
  Labels,           \* constant texts
  Locks, Outputs,   \* lock arguments, and destinations of outputs
  Paths,            \* paths as received
  Packets, Hashes,  \* first packets of a message, and hashes to be signed
  Scalars,          \* halves of signatures: big endian, without leading zeroes
  MaxSteps          \* bound: screens and signatures in a behaviour

Byte == 0 .. 255

VARIABLES
  active_value,  \* the buffer of the screen, VALUE_WIDTH and one bytes
  out,           \* where sign writes, two scalars and one bytes
  done,          \* the last screen or signature, <<"THROW", it>> if it threw
  steps

vars == <<active_value, out, done, steps>>

\* The memory is zero at first, and an APDU has been received.
Init ==
  /\ active_value = [i \in 1 .. VALUE_WIDTH + 1 |-> 0]
  /\ out = [i \in 1 .. 2 * SCALAR + 1 |-> 255]
  /\ done = <<"none">> /\ steps = 0

\* The application is started again.
init_globals ==
  /\ active_value' = [i \in 1 .. VALUE_WIDTH + 1 |-> 0]
  /\ out' = [i \in 1 .. 2 * SCALAR + 1 |-> 255]
  /\ done' = <<"none">> /\ steps' = 0

\* A text is written with its NUL; what is past the end of buf is not in buf.
Put(buf, text) ==
  [i \in DOMAIN buf |-> IF i \in DOMAIN text THEN text[i]
                        ELSE IF i = Len(text) + 1 THEN 0 ELSE buf[i]]

\* What the screen shows: all up to the first NUL.
Text(buf) == SubSeq(buf, 1, Min({i \in DOMAIN buf : buf[i] = 0} \cup {Len(buf) + 1}) - 1)

\* One screen: its callback throws, or writes the text.
Screen(what, ok, text) ==
  /\ steps < MaxSteps /\ steps' = steps + 1
  /\ active_value' = IF ok THEN Put(active_value, text) ELSE active_value
  /\ done' = IF ok THEN what ELSE <<"THROW", what>>
  /\ out' = out

-----------------------------------------------------------------------------
(* Numbers (to_string.c) *)

\* What is left of number after k divisions by ten.
Tenth == [n \in Nat |-> n \div 10]
Rest(n, k) == Repeat(Tenth, n, k)

\* tmp, with all leading zeroes.
Digits(n) ==
  [k \in 1 .. MAX_INT_DIGITS |-> 48 + (Rest(n, MAX_INT_DIGITS - k) % 10)]

\* Where the digits begin.
convert_number(n) ==
  Max({0} \cup {o \in 0 .. MAX_INT_DIGITS - 1 : Rest(n, MAX_INT_DIGITS - o) = 0})

number_to_string(n) == SubSeq(Digits(n), convert_number(n) + 1, MAX_INT_DIGITS)

CKB_SCALE == Power(10, DECIMAL_DIGITS)

\* The point and the decimals without trailing zeroes, unless all are zero.
frac_ckb_to_string(n) ==
  LET end == Max({k \in 1 .. MAX_INT_DIGITS : Digits(n)[k] # 48})
  IN number_to_string(n \div CKB_SCALE)
       \o (IF n % CKB_SCALE = 0 THEN <<>>
           ELSE <<46>> \o SubSeq(Digits(n), MAX_INT_DIGITS - DECIMAL_DIGITS + 1, end))

of_str == <<32, 111, 102, 32>>   \* " of "

\* The check for room that the callbacks of numbers make.
Room(digits) == VALUE_WIDTH + 1 >= digits + 1

frac_ckb_to_string_indirect(n) ==
  Screen(<<"amount", n>>, Room(MAX_INT_DIGITS), frac_ckb_to_string(n))

frac_ckb_tuple_to_string_indirect(x, y) ==
  Screen(<<"amounts", x, y>>, Room(2 * MAX_INT_DIGITS + Len(of_str)),
         frac_ckb_to_string(x) \o of_str \o frac_ckb_to_string(y))

uint64_tuple_to_string(x, y) ==
  Screen(<<"counts", x, y>>, TRUE, number_to_string(x) \o of_str \o number_to_string(y))

\* The callback of a screen with a constant text.
copy_string(text) == Screen(<<"label", text>>, Len(text) < VALUE_WIDTH + 1, text)

PRESENT == <<80, 114, 101, 115, 101, 110, 116>>
NOT_PRESENT == <<78, 111, 116, 32>> \o PRESENT

contract_type_to_string_indirect(present) ==
  LET text == IF present THEN PRESENT ELSE NOT_PRESENT
  IN Screen(<<"contract", present>>, Len(text) + 1 < VALUE_WIDTH + 1, text)

-----------------------------------------------------------------------------
(* Addresses (to_string.c, apdu_pubkey.c, segwit_addr.c) *)

\* From 8 to 5 bits, padded.  Of val only the bits that are still to be written
\* and the new ones matter: fewer than 16.
Group == 0 .. 31
Converter == [val : 0 .. Power(2, 16) - 1, bits : 0 .. 4, groups : Seq(Group)]
ConvertByte ==
  [p \in Converter \X Byte |->
     LET val == (p[1].val * 256 + p[2]) % Power(2, 16)
         bits == p[1].bits + 8
     IN [val |-> val, bits |-> bits % 5,
         groups |-> p[1].groups \o [i \in 1 .. bits \div 5 |->
                                      (val \div Power(2, bits - 5 * i)) % 32]]]

convert_bits(bytes) ==
  LET end == FoldUp(ConvertByte, [val |-> 0, bits |-> 0, groups |-> <<>>], bytes)
  IN IF end.bits = 0 THEN end.groups
     ELSE Append(end.groups, (end.val * Power(2, 5 - end.bits)) % 32)

\* A word as the set of its bits that are one.
Word == SUBSET (0 .. 29)
WordOf(n) == {i \in 0 .. 29 : (n \div Power(2, i)) % 2 = 1}
Xor(a, b) == (a \ b) \cup (b \ a)

GENERATOR == [i \in 1 .. 5 |->
  WordOf(<<996825010, 642813549, 513874426, 1027748829, 705979059>>[i])]

bech32_polymod_step(pre) ==
  LET Term(i) == IF 24 + i \in pre THEN GENERATOR[i] ELSE {}
      shifted == {i + 5 : i \in pre \ (25 .. 29)}
  IN Xor(Xor(Xor(Xor(Xor(shifted, Term(1)), Term(2)), Term(3)), Term(4)), Term(5))

\* chk over a sequence of groups.
GroupWords == [v \in Group |-> WordOf(v)]
AddGroup == [p \in Word \X Group |-> Xor(bech32_polymod_step(p[1]), GroupWords[p[2]])]
Polymod(values) == FoldUp(AddGroup, {0}, values)

\* What the checksum says of the prefix.
Expanded(hrp) == [i \in DOMAIN hrp |-> hrp[i] \div 32] \o <<0>>
                   \o [i \in DOMAIN hrp |-> hrp[i] % 32]

charset == <<113, 112, 122, 114, 121, 57, 120, 56, 103, 102, 50, 116, 118, 100, 119, 48,
             115, 51, 106, 110, 53, 52, 107, 104, 99, 101, 54, 109, 117, 97, 55, 108>>

bech32_encode(hrp, data) ==
  LET chk == Xor(Polymod(Expanded(hrp) \o data \o <<0, 0, 0, 0, 0, 0>>), {0})
      Bit(i) == IF i \in chk THEN 1 ELSE 0
      sum == [i \in 1 .. 6 |->
                LET low == 5 * (6 - i)
                IN Bit(low) + 2 * Bit(low + 1) + 4 * Bit(low + 2) + 8 * Bit(low + 3)
                     + 16 * Bit(low + 4)]
      all == data \o sum
  IN hrp \o <<49>> \o [i \in DOMAIN all |-> charset[all[i] + 1]]

hrbs == [mainnet |-> <<99, 107, 98>>, testnet |-> <<99, 107, 116>>]

\* Mutant: the limit is one character less.
TooShort(hrp, data) ==
  LET width == Len(hrp) + 7 + Len(data)
  IN width < BECH /\ width <= VALUE_WIDTH + 1

\* bech32_encode returns 1.
EncodeFits(hrp, data) ==
  LET width == Len(hrp) + 7 + Len(data)
  IN width <= BECH /\ width <= VALUE_WIDTH + 1

multisigLockScript == [i \in 1 .. CODE_HASH |-> (200 + i) % 256]

\* The payload of lock_arg_to_sighash_address or lock_arg_to_multisig_address:
\* the short format for a hash, the full one for a lock with a period.
Payload(multisig, arg) ==
  LET has_timelock == \E i \in HASH + 1 .. Len(arg) : arg[i] # 0
  IN IF ~multisig THEN <<1, 0>> \o SubSeq(arg, 1, HASH)
     ELSE IF ~has_timelock THEN <<1, 1>> \o SubSeq(arg, 1, HASH)
     ELSE <<4>> \o multisigLockScript \o arg

\* render_pkh of all that is rendered, computed once.
Rendered ==
  [a \in {<<net, multisig, arg>> : net \in DOMAIN hrbs, multisig \in BOOLEAN, arg \in Locks} |->
     bech32_encode(hrbs[a[1]], convert_bits(Payload(a[2], a[3])))]

AddressFits(net, multisig, arg) ==
  EncodeFits(hrbs[net], convert_bits(Payload(multisig, arg)))

lock_arg_to_address(net, multisig, arg) ==
  Screen(<<"address", net, multisig, arg>>, AddressFits(net, multisig, arg),
         Rendered[<<net, multisig, arg>>])

\* Mutant: wider by one character.
WideSeparator == <<32, 67, 75, 66, 32, 45, 45, 62, 32>>   \* " CKB --> "

separator == <<32, 67, 75, 66, 32, 45, 62, 32>>   \* " CKB -> "

\* The screen of one output among several.
multi_output_prompts_cb(capacity, net, multisig, arg) ==
  Screen(<<"output", capacity, net, multisig, arg>>,
         Room(MAX_INT_DIGITS) /\ AddressFits(net, multisig, arg),
         frac_ckb_to_string(capacity) \o separator \o Rendered[<<net, multisig, arg>>])

-----------------------------------------------------------------------------
(* Paths (keys.c, apdu_pubkey.c) *)

\* A length, and components of two units, the high one first.
Component(wire, i) == wire[2 * i] * UNIT + wire[2 * i + 1]

PathOf(wire) == [i \in 1 .. wire[1] |-> Component(wire, i)]

\* read_bip32_path does not throw.
PathAccepted(wire) ==
  /\ wire # <<>>
  /\ Len(wire) - 1 >= wire[1] * 2
  /\ wire[1] \in 1 .. MAX_BIP32_PATH

\* One component more, after a separator unless it is the first.
AddComponent ==
  [p \in Seq(Byte) \X Nat |->
     (IF p[1] = <<>> THEN <<>> ELSE Append(p[1], 47))
       \o number_to_string(p[2] % HARDENED)
       \o (IF p[2] >= HARDENED THEN <<39>> ELSE <<>>)]

bip32_path_to_string(path) == FoldUp(AddComponent, <<>>, path)

\* The room that number_to_string_indirect32 wants for every component.
PathFits(path) ==
  \A i \in DOMAIN path :
    LET written == Len(bip32_path_to_string(SubSeq(path, 1, i - 1))) + (IF i = 1 THEN 0 ELSE 1)
    IN VALUE_WIDTH + 1 - written >= MAX_INT_DIGITS + 1

PromptPath(wire) ==
  /\ PathAccepted(wire)
  /\ Screen(<<"path", wire>>, PathFits(PathOf(wire)), bip32_path_to_string(PathOf(wire)))

RefusePath(wire) == ~PathAccepted(wire) /\ Screen(<<"refused">>, FALSE, <<>>)

-----------------------------------------------------------------------------
(* Messages (apdu_sign.c) *)

check_magic_bytes(message) == IsPrefix(MAGIC, message)

\* How many bytes beyond the first one a character has that begins with b.
Following(b) == IF b >= 240 THEN 3 ELSE IF b >= 224 THEN 2 ELSE IF b >= 192 THEN 1 ELSE 0

Displayable(b) == b \in 32 .. 126

\* A star for each character that has no glyph.  skip is what is left of it; of a
\* character that the packet cuts, the size is lessened by the missing bytes too.
Writer == [text : Seq(Byte), skip : 0 .. 3]
AddByte ==
  [p \in Writer \X Byte |->
     IF p[1].skip > 0 THEN [p[1] EXCEPT !.skip = @ - 1]
     ELSE IF Displayable(p[2]) THEN [p[1] EXCEPT !.text = Append(@, p[2])]
     ELSE [text |-> Append(p[1].text, 42), skip |-> Following(p[2])]]
Written(buff) == FoldUp(AddByte, [text |-> <<>>, skip |-> 0], buff)

replace_undisplayable(buff) ==
  LET end == Written(buff)
  IN SubSeq(end.text, 1, Len(end.text) - end.skip)

handle_long_message(buff) ==
  IF Len(buff) > DISPLAY THEN SubSeq(buff, 1, DISPLAY - 3) \o <<46, 46, 46>> ELSE buff

\* display_as_buffer, from the first packet without the magic bytes.
Sliced(packet) == SubSeq(packet, Len(MAGIC) + 1, Len(packet))
DisplayOf(packet, display_as_hex) ==
  handle_long_message(IF display_as_hex THEN Sliced(packet)
                      ELSE replace_undisplayable(Sliced(packet)))

\* Mutant: the rest of the buffer is not cleared.
CopyOver(what, buf) ==
  /\ steps < MaxSteps /\ steps' = steps + 1
  /\ active_value' = [i \in DOMAIN active_value |->
                        IF i \in DOMAIN buf THEN buf[i] ELSE active_value[i]]
  /\ done' = what /\ out' = out

copy_buffer(what, buf) ==
  LET ok == Len(buf) <= VALUE_WIDTH + 1
  IN /\ steps < MaxSteps /\ steps' = steps + 1
     /\ active_value' = [i \in DOMAIN active_value |->
                           IF ~ok THEN active_value[i]
                           ELSE IF i \in DOMAIN buf THEN buf[i] ELSE 0]
     /\ done' = IF ok THEN what ELSE <<"THROW", what>>
     /\ out' = out

HexDigit(n) == IF n < 10 THEN 48 + n ELSE 55 + n

bin_to_hex(bytes) ==
  [k \in 1 .. 2 * Len(bytes) |->
     LET byte == bytes[(k + 1) \div 2]
     IN HexDigit(IF k % 2 = 1 THEN byte \div 16 ELSE byte % 16)]

HexFits(bytes) == VALUE_WIDTH + 1 >= 2 * Len(bytes) + 1

PromptText(packet) ==
  /\ check_magic_bytes(packet)
  /\ copy_buffer(<<"text", packet>>, DisplayOf(packet, FALSE))

PromptHex(packet) ==
  /\ check_magic_bytes(packet)
  /\ LET buf == DisplayOf(packet, TRUE)
     IN Screen(<<"hex", packet>>, HexFits(buf), bin_to_hex(buf))

RefuseMessage(packet) ==
  ~check_magic_bytes(packet) /\ Screen(<<"refused">>, FALSE, <<>>)

PromptHash(hash) ==
  /\ 2 * Len(hash) <= DISPLAY
  /\ Screen(<<"hash", hash>>, HexFits(hash), bin_to_hex(hash))

-----------------------------------------------------------------------------
(* Signatures (keys.c) *)

\* cx_ecdsa_sign, external: DER, in which a number with its top bit set begins
\* with a zero, in a buffer that is zero beyond it.
DerInt(n) == IF n[1] >= 128 THEN <<0>> \o n ELSE n
Der(r, s) ==
  LET ri == DerInt(r)
      si == DerInt(s)
  IN <<48, Len(ri) + Len(si) + 4, 2, Len(ri)>> \o ri \o <<2, Len(si)>> \o si \o <<0, 0>>

\* A number of the given size at place "at", without the zero it may begin with.
Copied(sig, at, size) ==
  IF size > SCALAR THEN SubSeq(sig, at + 1, at + SCALAR) ELSE SubSeq(sig, at, at + size - 1)

\* bytes at the end of a half of the signature.
Aligned(half, bytes) ==
  SubSeq(half, 1, SCALAR - Len(bytes)) \o bytes

Cleared == [i \in 1 .. SCALAR |-> 0]

\* Mutant: a number of any size is copied as it is.
CompactAsIs(old, sig, info) ==
  LET r_size == sig[4]
      s_size == sig[6 + r_size]
  IN Aligned(Cleared, SubSeq(sig, 5, 4 + r_size))
       \o Aligned(Cleared, SubSeq(sig, 7 + r_size, 6 + r_size + s_size)) \o <<info>>

\* Mutant: what was in out is not cleared first.
CompactOver(old, sig, info) ==
  LET r_size == sig[4]
      s_size == sig[6 + r_size]
  IN Aligned(SubSeq(old, 1, SCALAR), Copied(sig, 5, r_size))
       \o Aligned(SubSeq(old, SCALAR + 1, 2 * SCALAR), Copied(sig, 7 + r_size, s_size)) \o <<info>>

\* Both numbers in full width, and the bits of the recovery id.
Compact(old, sig, info) ==
  LET r_size == sig[4]
      s_size == sig[6 + r_size]
  IN Aligned(Cleared, Copied(sig, 5, r_size))
       \o Aligned(Cleared, Copied(sig, 7 + r_size, s_size)) \o <<info>>

sign(r, s, info) ==
  /\ steps < MaxSteps /\ steps' = steps + 1
  /\ out' = Compact(out, Der(r, s), info)
  /\ done' = <<"signature", r, s, info>> /\ UNCHANGED active_value

-----------------------------------------------------------------------------
(* What the constants are *)

\* Characters of the address of a payload of n bytes.
AddressWidth(n) == 3 + 7 + (8 * n + 4) \div 5

\* The sizes of the code.  The longest address just fits, and so do two amounts,
\* a path, and an amount before a short address.
ASSUME SizesAssumption ==
  /\ MAX_INT_DIGITS \in Nat /\ DECIMAL_DIGITS \in 1 .. MAX_INT_DIGITS - 1
  /\ VALUE_WIDTH \in Nat /\ DISPLAY \in Nat /\ 3 <= DISPLAY /\ 2 * DISPLAY <= VALUE_WIDTH
  /\ BECH \in Nat /\ BECH <= VALUE_WIDTH
  /\ CODE_HASH \in Nat \ {0} /\ HASH \in Nat \ {0} /\ ARG \in Nat /\ HASH <= ARG
  /\ AddressWidth(1 + CODE_HASH + ARG) <= BECH
  /\ 2 * (MAX_INT_DIGITS + 1) + Len(of_str) <= VALUE_WIDTH
  /\ (MAX_INT_DIGITS + 2) * MAX_BIP32_PATH <= VALUE_WIDTH
  /\ MAX_INT_DIGITS + 1 + 8 + AddressWidth(2 + HASH) <= VALUE_WIDTH
  /\ SCALAR \in Nat \ {0} /\ MAX_BIP32_PATH \in Nat /\ MaxSteps \in Nat
  /\ UNIT \in Nat \ {0} /\ HARDENED \in Nat \ {0} /\ 2 * HARDENED = UNIT * UNIT
  /\ HARDENED <= Power(10, MAX_INT_DIGITS)

Amount == 0 .. Power(10, MAX_INT_DIGITS) - 1

\* What is shown.  A message that ends so early within a character that the
\* uint8_t of its size wraps is not among the packets.
ASSUME ValuesAssumption ==
  /\ Numbers \subseteq Amount /\ Counts \subseteq Amount
  /\ \A text \in Labels : text \in Seq(1 .. 255) /\ Len(text) <= VALUE_WIDTH
  /\ \A arg \in Locks : arg \in Seq(Byte) /\ Len(arg) = ARG
  /\ Outputs \subseteq Amount \X Locks
  /\ \A wire \in Paths : wire \in Seq(0 .. UNIT - 1)
  /\ MAGIC \in Seq(Byte)
  /\ \A packet \in Packets :
       /\ packet \in Seq(Byte)
       /\ LET end == Written(Sliced(packet)) IN end.skip <= Len(end.text)
  /\ \A hash \in Hashes : hash \in Seq(Byte)
  /\ \A n \in Scalars : n \in Seq(Byte) /\ Len(n) \in 1 .. SCALAR /\ n[1] # 0

-----------------------------------------------------------------------------

Next ==
  \/ \E n \in Numbers : frac_ckb_to_string_indirect(n)
  \/ \E x, y \in Counts : frac_ckb_tuple_to_string_indirect(x, y) \/ uint64_tuple_to_string(x, y)
  \/ \E text \in Labels : copy_string(text)
  \/ \E present \in BOOLEAN : contract_type_to_string_indirect(present)
  \/ \E net \in DOMAIN hrbs, multisig \in BOOLEAN :
       \/ \E arg \in Locks : lock_arg_to_address(net, multisig, arg)
       \/ \E o \in Outputs : multi_output_prompts_cb(o[1], net, multisig, o[2])
  \/ \E wire \in Paths : PromptPath(wire) \/ RefusePath(wire)
  \/ \E packet \in Packets : PromptText(packet) \/ PromptHex(packet) \/ RefuseMessage(packet)
  \/ \E hash \in Hashes : PromptHash(hash)
  \/ \E r, s \in Scalars, info \in 0 .. 3 : sign(r, s, info)
  \/ init_globals

Spec == Init /\ [][Next]_vars

==============================================================================

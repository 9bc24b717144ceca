------------------------------ MODULE Witness -------------------------------
(***************************************************************************)
(* The hash a signature is made over: the callbacks of apdu_sign.c that    *)
(* the parser runs over the witnesses of a transaction, after the raw      *)
(* transaction was hashed.                                                 *)
(*                                                                         *)
(* The first witness is a WitnessArgs, which a parser of its own reads     *)
(* from the chunks of the outer one: a header, the field lock and the      *)
(* fields input_type and output_type.  An action stands for what one call  *)
(* does to one part of the witness; where a chunk ends is the host's       *)
(* choice.                                                                 *)
(***************************************************************************)
EXTENDS Integers, Sequences

CONSTANTS
  KEY,     \* units of a public key hash (20 bytes)
  UNIT,    \* values of a unit; 0 is a zero byte
  Firsts,  \* the first witnesses a host may send
  Others   \* the sequences of further witnesses

FLAGS == 4       \* bytes S, R, M, N at the start of a multisig_script
HEADER == 16     \* bytes of the header of a WitnessArgs
ZERO_LOCK == 69  \* bytes of the zero lock field, its length prefix included
ZERO_WITNESS == 85

(***************************************************************************)
(* A first witness.  "short" says that it ends within its header or the    *)
(* length prefix of lock, "field" is the size of lock by the offsets (0:   *)
(* absent), "plen" the length that its prefix gives, "it" and "ot" are the *)
(* sizes of the other fields by the offsets and "body" is what follows the *)
(* length prefix of lock.                                                  *)
(***************************************************************************)
First == [short : BOOLEAN, field : Nat, plen : Nat, it : Nat, ot : Nat,
          body : Seq(UNIT)]

\* lock is as long as its field.
Sound(f) == f.field = 0 \/ f.field = f.plen + 4

ASSUME WitnessAssumption ==
  /\ KEY \in Nat /\ KEY > 0 /\ UNIT \subseteq Nat /\ 0 \in UNIT
  /\ \A f \in Firsts :
       /\ DOMAIN f = {"short", "field", "plen", "it", "ot", "body"}
       /\ f.short \in BOOLEAN /\ f.body \in Seq(UNIT)
       /\ {f.field, f.plen, f.it, f.ot} \subseteq Nat
       /\ f.field = 0 => f.plen = 0
       /\ ~Sound(f) => f.it = 0 /\ f.ot = 0
  /\ Others \subseteq Seq(Seq(UNIT))

VARIABLES
  first,    \* the first witness
  others,   \* the witnesses after it
  count,    \* how many witnesses there are; 0 when not even a first one
  signing_multisig_input,
  pc,       \* the part of the witnesses that comes next
  index,    \* witnesses read
  pos,      \* units of the current witness read
  left,     \* units of lock, or of the fields after it, still to come
  consumed, \* witness_multisig_lock_arg_consumed
  pubkeys,  \* witness_multisig_pubkeys_cnt
  first_witness_done,
  unsafe,   \* the witnesses set maybe_transaction.unsafe
  hashed,   \* what went into hash_state
  scattered \* history: a chunk began within the signatures

sent == <<first, others, count, signing_multisig_input>>
vars == <<sent, pc, index, pos, left, consumed, pubkeys, first_witness_done,
          unsafe, hashed, scattered>>

\* What is hashed is a sequence of tokens, a kind and numbers each.
Token == {"finished", "transaction_hash", "length", "header", "zero_witness",
          "size", "byte"} \X Seq(Nat)
Byte(b) == <<"byte", <<b>>>>
Units(s) == [k \in 1 .. Len(s) |-> Byte(s[k])]
TxHash == <<"transaction_hash", <<>>>>
Length(n) == <<"length", <<n>>>>
Head4(total, lock, it, ot) == <<"header", <<total, lock, it, ot>>>>
LockSize(n) == <<"size", <<n>>>>
ZeroWitness == <<"zero_witness", <<>>>>

-----------------------------------------------------------------------------

\* finalize_raw_transaction has finished the hash and left no way to go on.
Init ==
  /\ first \in Firsts /\ others \in Others
  /\ count \in {0, 1 + Len(others)}
  /\ signing_multisig_input \in BOOLEAN
  /\ pc = "begin" /\ index = 0 /\ pos = 0 /\ left = 0
  /\ consumed = 0 /\ pubkeys = 0 /\ first_witness_done = FALSE
  /\ unsafe = FALSE /\ hashed = <<<<"finished", <<>>>>>> /\ scattered = FALSE

\* begin_witness on the first witness.
BeginFirst ==
  /\ pc = "begin" /\ index = 0 /\ count > 0
  /\ pc' = "header" /\ pos' = 0 /\ consumed' = 0 /\ pubkeys' = 0
  /\ hashed' = <<TxHash>>
  /\ UNCHANGED <<sent, index, left, first_witness_done, unsafe, scattered>>

\* begin_witness and hash_witness_length on a further witness.
BeginOther ==
  /\ pc = "begin" /\ index \in 1 .. count - 1
  /\ pc' = "other" /\ pos' = 0
  /\ hashed' = Append(hashed, Length(Len(others[index])))
  /\ UNCHANGED <<sent, index, left, consumed, pubkeys, first_witness_done,
                 unsafe, scattered>>

\* Mutant: the difference is taken the other way round.
ShiftBackwards(f) == f.field - ZERO_LOCK

\* How much longer the zero lock is than the field that was sent.
Shift(f) == ZERO_LOCK - f.field

\* The header as it is hashed, with lock longer by n.
HashedHeader(f, n) ==
  LET total == HEADER + f.field + f.it + f.ot
  IN <<Length(total + n),
       Head4(total + n, HEADER, HEADER + f.field + n, HEADER + f.field + f.it + n)>>

\* witness_offsets, then BytesOpt_parse on an absent lock.
WitnessOffsets ==
  /\ pc = "header" /\ (first.short => first.field > 0)
  /\ hashed' = hashed \o
       (IF signing_multisig_input THEN HashedHeader(first, 0)
        ELSE Append(HashedHeader(first, Shift(first)), ZeroWitness))
  /\ pc' = (IF first.field = 0 THEN "fields" ELSE "lock_size")
  /\ left' = first.it + first.ot
  /\ UNCHANGED <<sent, index, pos, consumed, pubkeys, first_witness_done,
                 unsafe, scattered>>

\* Where the parser goes with n units of lock to come.
LockOrFields(n) ==
  IF n > 0 THEN pc' = "lock" /\ left' = n
           ELSE pc' = "fields" /\ left' = first.it + first.ot

\* Bytes_parse on the length of lock: when it is not that of the field the
\* parser rejects, after it noted the length, and the rest of the chunk is lost;
\* else witness_lock_arg_size hashes it.
WitnessLockArgSize ==
  /\ pc = "lock_size" /\ ~first.short
  /\ IF Sound(first)
     THEN /\ LockOrFields(first.plen)
          /\ hashed' = IF signing_multisig_input
                       THEN Append(hashed, LockSize(first.plen)) ELSE hashed
     ELSE pc' = "rejected" /\ UNCHANGED <<left, hashed>>
  /\ UNCHANGED <<sent, index, pos, consumed, pubkeys, first_witness_done,
                 unsafe, scattered>>

\* n more units are in the chunk that was rejected; process_witness hands the
\* next chunk to the same parser, which goes on after the length.
ResumeAfterReject(n) ==
  /\ pc = "rejected" /\ pos + n < Len(first.body)
  /\ pos' = pos + n
  /\ LockOrFields(first.plen)
  /\ UNCHANGED <<sent, index, consumed, pubkeys, first_witness_done, unsafe,
                 hashed, scattered>>

\* The values buf[i] may have in a chunk of n units: a stale one past its end.
ChunkByte(n, i) == IF i < n THEN {first.body[pos + i + 1]} ELSE UNIT

\* Mutant: the signatures are taken to follow the flags.
ScriptLenFlags(cnt) == FLAGS

\* multisig_script_len.
ScriptLen(cnt) == FLAGS + KEY * cnt

\* The chunk of n units with its signatures zeroed; signatures_start is a size_t,
\* so a chunk that begins after the script has none.
Zeroed(n, cnt) ==
  LET start == ScriptLen(cnt) - consumed
  IN [k \in 1 .. n |-> IF cnt > 0 /\ start > 0 /\ k > start
                       THEN 0 ELSE first.body[pos + k]]

\* witness_lock_arg_body_chunk for a multisig input.  The threshold it notes is
\* not read anywhere.
MultisigLockChunk(n) ==
  \/ /\ consumed = 0 /\ \E b \in ChunkByte(n, 0) : b # 0
     /\ unsafe' = TRUE
     /\ UNCHANGED <<consumed, pubkeys, hashed, scattered>>
  \/ /\ consumed = 0 => 0 \in ChunkByte(n, 0)
     /\ \E cnt \in (IF consumed < FLAGS
                    THEN ChunkByte(n, FLAGS - 1 - consumed) ELSE {pubkeys}) :
          /\ pubkeys' = cnt
          /\ hashed' = hashed \o Units(Zeroed(n, cnt))
          /\ scattered' = (scattered \/ (cnt > 0 /\ consumed >= ScriptLen(cnt)))
     /\ consumed' = consumed + n
     /\ unsafe' = unsafe

\* A chunk that holds n units of lock; none, when it ends after the length.
WitnessLockArgBodyChunk(n) ==
  /\ pc = "lock" /\ n <= left /\ pos + n <= Len(first.body)
  /\ pos' = pos + n
  /\ IF n = left THEN LockOrFields(0) ELSE LockOrFields(left - n)
  /\ \/ signing_multisig_input /\ MultisigLockChunk(n)
     \/ ~signing_multisig_input /\ UNCHANGED <<consumed, pubkeys, unsafe, hashed,
                                               scattered>>
  /\ UNCHANGED <<sent, index, first_witness_done>>

\* blake2b_chunk on n units of input_type and output_type.
FieldsChunk(n) ==
  /\ pc = "fields" /\ n \in 1 .. left /\ pos + n <= Len(first.body)
  /\ pos' = pos + n /\ left' = left - n
  /\ hashed' = hashed \o Units(SubSeq(first.body, pos + 1, pos + n))
  /\ UNCHANGED <<sent, pc, index, consumed, pubkeys, first_witness_done, unsafe,
                 scattered>>

\* The parser of the first witness completes; what follows is not hashed.
WitnessArgsComplete ==
  /\ pc = "fields" /\ left = 0
  /\ pc' = "complete" /\ first_witness_done' = TRUE
  /\ UNCHANGED <<sent, index, pos, left, consumed, pubkeys, unsafe, hashed,
                 scattered>>

\* self_witness in process_witness_end: a witness with a zero lock alone.
SelfWitness == <<TxHash, Length(ZERO_WITNESS),
                 Head4(ZERO_WITNESS, HEADER, ZERO_WITNESS, ZERO_WITNESS),
                 ZeroWitness>>

\* The first witness has no more units.
FirstEnds ==
  \/ pc \in {"header", "lock_size"} /\ first.short
  \/ pc \in {"lock", "fields"} /\ left > 0 /\ pos = Len(first.body)
  \/ pc \in {"rejected", "complete"}

\* Mutant: what a parser that did not complete has hashed is kept.
MessageSoFarKept == hashed

\* What is hashed once the first witness is over.
MessageSoFar == IF first_witness_done THEN hashed ELSE SelfWitness

\* process_witness_end on the first witness.
ProcessFirstEnd ==
  /\ FirstEnds
  /\ pc' = "begin" /\ index' = 1
  /\ first_witness_done' = TRUE /\ hashed' = MessageSoFar
  /\ UNCHANGED <<sent, pos, left, consumed, pubkeys, unsafe, scattered>>

\* process_witness on n units of a further witness.
OtherChunk(n) ==
  /\ pc = "other" /\ n \in 1 .. Len(others[index]) - pos
  /\ pos' = pos + n
  /\ hashed' = hashed \o Units(SubSeq(others[index], pos + 1, pos + n))
  /\ UNCHANGED <<sent, pc, index, left, consumed, pubkeys, first_witness_done,
                 unsafe, scattered>>

ProcessOtherEnd ==
  /\ pc = "other" /\ pos = Len(others[index])
  /\ pc' = "begin" /\ index' = index + 1
  /\ UNCHANGED <<sent, pos, left, consumed, pubkeys, first_witness_done, unsafe,
                 hashed, scattered>>

\* finalize_witnesses: final_hash is the hash of what was hashed.
FinalizeWitnesses ==
  /\ pc = "begin" /\ index = count /\ pc' = "final"
  /\ UNCHANGED <<sent, index, pos, left, consumed, pubkeys, first_witness_done,
                 unsafe, hashed, scattered>>

Done == pc = "final" /\ UNCHANGED vars

Sizes == 0 .. Len(first.body)

Next ==
  \/ BeginFirst \/ BeginOther
  \/ WitnessOffsets \/ WitnessLockArgSize
  \/ \E n \in Sizes : \/ ResumeAfterReject(n)
                      \/ WitnessLockArgBodyChunk(n)
                      \/ FieldsChunk(n)
  \/ WitnessArgsComplete \/ ProcessFirstEnd
  \/ \E n \in 1 .. (IF pc = "other" THEN Len(others[index]) ELSE 0) : OtherChunk(n)
  \/ ProcessOtherEnd
  \/ FinalizeWitnesses
  \/ Done

Spec == Init /\ [][Next]_vars

-----------------------------------------------------------------------------
(* Properties *)

\* The state keeps its types; the sizes and offsets that witness_offsets rewrites
\* stay natural numbers.
TypeOK ==
  /\ first \in Firsts /\ others \in Others /\ count \in {0, 1 + Len(others)}
  /\ signing_multisig_input \in BOOLEAN
  /\ pc \in {"begin", "header", "lock_size", "rejected", "lock", "fields",
             "complete", "other", "final"}
  /\ index \in 0 .. count /\ pos \in Nat /\ left \in Nat /\ consumed \in Nat
  /\ pubkeys \in UNIT /\ first_witness_done \in BOOLEAN
  /\ unsafe \in BOOLEAN /\ scattered \in BOOLEAN
  /\ hashed \in Seq(Token)
=============================================================================

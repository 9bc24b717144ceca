------------------------------- MODULE RawHash -------------------------------
(***************************************************************************)
(* What the callbacks of apdu_sign.c do to the hashes of a transaction:    *)
(* the hash of the transaction without its annotations and, for each       *)
(* input, that of its source transaction.  A hash state is the sequence of *)
(* units it was fed.  TxSign has what the callbacks do to the prompt and   *)
(* Witness what those of the witnesses do; here these are only recorded.   *)
(***************************************************************************)
EXTENDS MolFormat

CONSTANTS
  blake2b(_, _),   \* a unit of the digest of a sequence of units
  MAX_PATH         \* MAX_BIP32_PATH: components of a path

ASSUME PathAssumption == MAX_PATH \in Nat

AsUnit(n) == IF n \in Unit THEN n ELSE 0

\* cx_hash with CX_LAST: a digest of HASH units.
Digest(s) == [i \in 1 .. HASH |-> AsUnit(blake2b(s, i))]

\* The members of apdu_sign_state_t that this is about, with the names of the C
\* fields, and in "heard" the callbacks that were called, with their arguments.
\* What is fed to the hash state of G.u.inp.input_state is "context".  "rejected" is
\* the verdict of the callbacks that TxSign models, known once all of them have run.
Zeroed ==
  [hash_state |-> <<>>, context |-> <<>>, index |-> 0, input_count |-> 0,
   active |-> FALSE, hard_reject |-> FALSE, unsafe |-> FALSE, rejected |-> FALSE,
   transaction_hash |-> <<>>,
   heard |-> <<>>]

blake2b_chunk(d, buf) == [d EXCEPT !.hash_state = @ \o buf]

context_blake2b_chunk(d, chunk) == [d EXCEPT !.context = @ \o chunk]

\* The path lies in the same memory of the union G.u as the input_state.
bip32_component(d, buf) == [d EXCEPT !.context = @ \o buf, !.index = Unpack(buf)]

set_input_count(d, buf) == [d EXCEPT !.input_count = Unpack(buf)]

input_start(d) == [d EXCEPT !.active = FALSE, !.context = <<>>, !.index = 0]

input_save_index(d, buf) == [d EXCEPT !.index = Unpack(buf)]

\* Mutant: the output after the one that is spent.
NextOutput(d, idx) == [d EXCEPT !.active = (idx = d.index + 1)]

input_context_start_idx(d, idx) == [d EXCEPT !.active = (idx = d.index)]

\* Mutant: the index is cleared before it is hashed.
FinishClearing(d) ==
  [d EXCEPT !.hash_state = @ \o Digest(d.context) \o Pack(0),
            !.context = <<>>, !.index = 0]

finish_context_txn(d) ==
  [d EXCEPT !.hash_state = @ \o Digest(d.context) \o Pack(d.index),
            !.context = <<>>, !.index = 0]

finish_inputs(d) == [d EXCEPT !.context = <<>>, !.index = 0]

output_start(d) == [d EXCEPT !.active = TRUE]

\* Mutant: the number of inputs is taken from the transaction itself.
CountUnchecked(d, length) == [d EXCEPT !.hash_state = @ \o Pack(length)]

\* Add the number of inputs to the hash, unless it is not the one announced.
blake2b_input_count(d, length) ==
  IF length # d.input_count THEN [d EXCEPT !.hard_reject = TRUE]
  ELSE [d EXCEPT !.hash_state = @ \o Pack(length)]

\* Mutant: the inputs take their length prefix along.
OffsetsWithPrefix(d, nums) ==
  LET cut == (nums[6] - nums[5] - CELL_INPUT * d.input_count) % MOD
  IN [d EXCEPT !.hash_state =
        @ \o Pack((nums[1] - cut) % MOD) \o Pack(nums[2]) \o Pack(nums[3]) \o Pack(nums[4])
          \o Pack(nums[5]) \o Pack((nums[6] - cut) % MOD) \o Pack((nums[7] - cut) % MOD)]

\* The header of the transaction without annotations: the inputs are a FixVec
\* there, so what follows them is to_subtract units nearer.
computeNewOffsetsToHash(d, nums) ==
  LET to_subtract == (nums[6] - nums[5] - (CELL_INPUT * d.input_count + NUM)) % MOD
      Nearer(n) == (n - to_subtract) % MOD
  IN [d EXCEPT !.hash_state =
        @ \o Pack(Nearer(nums[1])) \o Pack(nums[2]) \o Pack(nums[3]) \o Pack(nums[4])
          \o Pack(nums[5]) \o Pack(Nearer(nums[6])) \o Pack(Nearer(nums[7]))]

\* A transaction that is rejected keeps an unfinished hash.  Otherwise the hash is
\* complete, and begin_witness starts the next one afresh.
finalize_raw_transaction(d) ==
  IF d.rejected THEN [d EXCEPT !.unsafe = TRUE]
  ELSE [d EXCEPT !.transaction_hash = d.hash_state, !.hash_state = <<>>]

\* The callbacks that change a hash state or what lies in its memory.
Hashing ==
  {"blake2b_chunk", "context_blake2b_chunk", "bip32_component", "input_start",
   "finish_context_txn", "finish_inputs", "blake2b_input_count",
   "computeNewOffsetsToHash", "finalize_raw_transaction"}

\* The callbacks that look at their argument: units, an index, a length, a header.
OfUnits == {"blake2b_chunk", "context_blake2b_chunk"}
OfNumber == {"bip32_component", "set_input_count", "input_save_index"}
OfIndex == {"input_context_start_idx"}
OfLength == {"blake2b_input_count"}
OfHeader == {"computeNewOffsetsToHash"}
OfArgument == OfUnits \cup OfNumber \cup OfIndex \cup OfLength \cup OfHeader

Effect(d, c, arg) ==
  CASE c = "blake2b_chunk" -> blake2b_chunk(d, arg)
    [] c = "context_blake2b_chunk" -> context_blake2b_chunk(d, arg)
    [] c = "bip32_component" -> bip32_component(d, arg)
    [] c = "set_input_count" -> set_input_count(d, arg)
    [] c = "input_start" -> input_start(d)
    [] c = "input_save_index" -> input_save_index(d, arg)
    [] c = "input_context_start_idx" -> input_context_start_idx(d, arg[1])
    [] c = "finish_context_txn" -> finish_context_txn(d)
    [] c = "finish_inputs" -> finish_inputs(d)
    [] c = "output_start" -> output_start(d)
    [] c = "blake2b_input_count" -> blake2b_input_count(d, arg[1])
    [] c = "computeNewOffsetsToHash" -> computeNewOffsetsToHash(d, arg)
    [] c = "finalize_raw_transaction" -> finalize_raw_transaction(d)
    [] OTHER -> d

\* Callbacks that return at once unless the cell at hand is the one looked at.
Guarded ==
  {"cell_capacity", "cell_lock_code_hash", "cell_script_hash_type",
   "script_arg_start_input", "script_arg_chunk", "input_lock_arg_end",
   "cell_type_code_hash", "cell_type_arg_length", "check_cell_data_data_chunk",
   "finish_input_cell_data"}

\* Callbacks that take a body as it comes, in as many pieces as there are chunks.
Piecewise == {"script_arg_chunk", "check_cell_data_data_chunk", "process_witness"}

Heard(d, c, arg) ==
  LET n == Len(d.heard)
      more == c \in Piecewise /\ n > 0 /\ d.heard[n][1] = c
  IN IF (c \in Guarded /\ ~d.active) \/ (c \in Piecewise /\ arg = <<>>) THEN d
     ELSE IF more THEN [d EXCEPT !.heard[n] = <<c, @[2] \o arg>>]
     ELSE [d EXCEPT !.heard = Append(@, <<c, arg>>)]

\* if(cb && cb->f) cb->f(arg)
Call(d, c, arg) ==
  IF c = "NULL" THEN d ELSE Heard(Effect(d, c, arg), c, arg)

\* The verdict of a size callback; only init_bip32 ever refuses.
Allows(c, size) == c = "init_bip32" => size - NUM <= NUM * MAX_PATH
==============================================================================

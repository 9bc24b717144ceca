------------------------------- MODULE TxSign -------------------------------
(***************************************************************************)
(* Classification of a transaction while it is parsed: the callbacks of    *)
(* apdu_sign.c that the streaming parser runs over an AnnotatedTransaction *)
(* and the choice of the screens that ask the user to sign it.             *)
(*                                                                         *)
(* One action stands for the callbacks of one stretch of the input that    *)
(* may arrive in one APDU.  Between two of them the device waits for the   *)
(* host, so the user may change the "Allow contract data" setting.         *)
(***************************************************************************)
EXTENDS Integers, Sequences, FiniteSets

CONSTANTS
  MOD,               \* 2^64 in the code: capacities are added modulo MOD
  HASH,              \* units of a standard_lock_arg_t (20 bytes)
  ARG,               \* units of a lock_arg_t (28 bytes)
  UNIT,              \* values of one unit of a lock argument; 0 is a zeroed unit
  MAX_OUTPUTS,       \* entries of G.u.tx.outputs
  MAX_SCREEN_COUNT,  \* screens of one prompt
  INT_WIDTH,         \* bits of an int, the type that 1<<index is computed in
  SignHash,          \* lock argument hash of the key at signPath
  ChangeHashes,      \* lock argument hashes that changePath may give
  InCells, OutCells, \* the cells a host may present as inputs and as outputs
  MaxIns, MaxOuts,   \* bounds on the number of inputs and outputs
  MaxToggles         \* bound on changes of the setting within a transaction

NONE == "NONE"
NOT_SET == "NOT_SET"
PLAIN == "PLAIN_TRANSFER"
MULTI_OUTPUT == "MULTI_OUTPUT_TRANSFER"
SELF == "SELF_TRANSFER"
MULTI_INPUT == "MULTI_INPUT_TRANSFER"
DEPOSIT == "DAO_DEPOSIT"
PREPARE == "DAO_PREPARE"
WITHDRAW == "DAO_WITHDRAW"

Tag == {NONE, NOT_SET, PLAIN, MULTI_OUTPUT, SELF, MULTI_INPUT,
        DEPOSIT, PREPARE, WITHDRAW}

DEST == "HAS_DESTINATION_ADDRESS"
CHANGE == "HAS_CHANGE_ADDRESS"

Amount == 0 .. MOD - 1
Hash == [1 .. HASH -> UNIT]
LockArg == [1 .. ARG -> UNIT]
ZeroArg == [k \in 1 .. ARG |-> 0]
ZeroHash == [k \in 1 .. HASH |-> 0]
HashOf(a) == [k \in 1 .. HASH |-> a[k]]

(***************************************************************************)
(* A cell as the host sends it.  "lock" and "type" say which script the    *)
(* code hash names, "lock_ht" and "type_ht" that the script's hash type is *)
(* 1, "targs" that the type script has arguments, "size" is the number of  *)
(* data bytes (15 stands for 15 and more), "nonzero" that one is not 0.    *)
(***************************************************************************)
Cell == [lock : {"default", "multisig", "other"}, lock_ht : BOOLEAN,
         args : Seq(UNIT), type : {"none", "dao", "other"},
         type_ht : BOOLEAN, targs : BOOLEAN,
         cap : Amount, size : 0 .. 15, nonzero : BOOLEAN]

ASSUME BoundsAssumption ==
  /\ MOD \in Nat /\ MOD > 1
  /\ HASH \in Nat /\ ARG \in Nat /\ HASH < ARG /\ ARG < 2 * HASH
  /\ UNIT \subseteq Nat /\ 0 \in UNIT
  /\ MAX_OUTPUTS \in Nat /\ MAX_OUTPUTS > 0
  /\ MAX_SCREEN_COUNT \in Nat /\ MAX_SCREEN_COUNT >= 6
  /\ MAX_SCREEN_COUNT >= MAX_OUTPUTS + 3
  /\ INT_WIDTH \in Nat /\ INT_WIDTH > 1
  /\ MaxIns \in Nat /\ MaxOuts \in Nat /\ MaxToggles \in Nat

ASSUME CellAssumption ==
  /\ SignHash \in Hash /\ ChangeHashes \subseteq Hash
  /\ \A c \in InCells \cup OutCells :
       /\ DOMAIN c = {"lock", "lock_ht", "args", "type", "type_ht", "targs",
                      "cap", "size", "nonzero"}
       /\ c.lock \in {"default", "multisig", "other"} /\ c.lock_ht \in BOOLEAN
       /\ c.args \in Seq(UNIT)
       /\ c.type \in {"none", "dao", "other"} /\ c.type_ht \in BOOLEAN
       /\ c.targs \in BOOLEAN /\ c.cap \in Amount
       /\ c.size \in 0 .. 15 /\ c.nonzero \in BOOLEAN

\* Definitions marked "Mutant" are variants of the one that follows them with a
\* slip of the kind the properties are meant to notice; no action uses them.

\* Mutant: amounts that do not wrap.
AddWUnbounded(a, b) == a + b

\* uint64_t addition and subtraction.
AddW(a, b) == IF a + b < MOD THEN a + b ELSE a + b - MOD
SubW(a, b) == IF a >= b THEN a - b ELSE a - b + MOD

VARIABLES
  pc,       \* how far the parser is
  cell,     \* the cell being received
  sent,     \* units of its lock argument received so far
  setting,  \* N_data.contract_data_type: TRUE is ALLOW_CONTRACT_DATA
  toggles,  \* changes of the setting since the transaction began
  current_lock_arg, change_lock_arg, dao_cell_owner,
  n_inputs, \* length of the inputs vector
  input_count,        \* G.input_count, the number the annotation declares
  hard_reject, unsafe, tag, flags, contract_type,
  lock_arg_tmp,       \* G.lock_arg_tmp
  cell_state,         \* G.cell_state
  last_input_lock_arg, distinct_input_sources, input_index,
  input_fst, input_snd, dao_input_amount, signing_multisig_input,
  outputs, output_count, dao_bitmask,
  plain_output_amount, dao_output_amount, change_amount, is_self_transfer,
  v,        \* the fields of maybe_transaction.v the screens show
  thrown,   \* the exception that ended the transaction, or "no"
  screens,  \* the screens of the prompt
  ins, outs, checked, \* history: cells received, output data checked
  total_in, total_out, \* history: capacity of all inputs and of all outputs
  allowed   \* history: the setting was ALLOW at some time since the start

inVars == <<last_input_lock_arg, distinct_input_sources, input_index,
            input_fst, input_snd, dao_input_amount, signing_multisig_input>>
outVars == <<outputs, output_count, dao_bitmask, plain_output_amount,
             dao_output_amount, change_amount, is_self_transfer>>
keyVars == <<current_lock_arg, change_lock_arg, n_inputs, input_count>>
setVars == <<setting, toggles, allowed>>
endVars == <<v, thrown, screens>>
histVars == <<ins, outs, checked, total_in, total_out>>

vars == <<pc, cell, sent, setVars, keyVars, dao_cell_owner, hard_reject,
          unsafe, tag, flags, contract_type, lock_arg_tmp, cell_state,
          inVars, outVars, endVars, histVars>>

\* No cell: its lock is not that of any cell.
NoCell == [lock |-> "no", lock_ht |-> TRUE, args |-> <<>>,
           type |-> "none", type_ht |-> TRUE, targs |-> FALSE,
           cap |-> 0, size |-> 0, nonzero |-> FALSE]

ZeroCellState == [capacity |-> 0, lock_arg_index |-> 0, is_dao |-> FALSE,
                  is_multisig |-> FALSE, lock_arg_nonequal |-> FALSE,
                  dao_data_is_nonzero |-> FALSE, data_size |-> 0]

ZeroOutput == [capacity |-> 0, destination |-> ZeroArg, is_multisig |-> FALSE]

ZeroV == [total_fee |-> 0, amount_fst |-> 0, amount_snd |-> 0,
          dao_amount |-> 0, input_count_snd |-> 0]

\* A behaviour is one transaction: it begins in the state that clear_data leaves
\* for an APDU with P1_FIRST, wherever the parser was; G is all zeroes then.
Init ==
  /\ pc = "paths" /\ cell = NoCell /\ sent = 0
  /\ current_lock_arg = ZeroHash /\ change_lock_arg = ZeroHash
  /\ dao_cell_owner = ZeroHash /\ n_inputs = 0 /\ input_count = 0
  /\ hard_reject = FALSE /\ unsafe = FALSE /\ tag = NOT_SET /\ flags = {}
  /\ contract_type = "NOT_PRESENT"
  /\ lock_arg_tmp = ZeroArg /\ cell_state = ZeroCellState
  /\ last_input_lock_arg = ZeroHash /\ distinct_input_sources = 0
  /\ input_index = 0 /\ input_fst = 0 /\ input_snd = 0
  /\ dao_input_amount = 0 /\ signing_multisig_input = FALSE
  /\ outputs = [i \in 1 .. MAX_OUTPUTS |-> ZeroOutput] /\ output_count = 0
  /\ dao_bitmask = {} /\ plain_output_amount = 0 /\ dao_output_amount = 0
  /\ change_amount = 0 /\ is_self_transfer = FALSE
  /\ v = ZeroV /\ thrown = "no" /\ screens = <<>>
  /\ ins = <<>> /\ outs = <<>> /\ checked = 0
  /\ total_in = 0 /\ total_out = 0
  /\ setting \in BOOLEAN /\ toggles = 0 /\ allowed = setting

\* The settings menu, while the device waits for the host and shows no prompt.
SwitchContractData ==
  /\ pc # "end" /\ toggles < MaxToggles
  /\ setting' = ~setting /\ toggles' = toggles + 1
  /\ allowed' = TRUE
  /\ UNCHANGED <<pc, cell, sent, keyVars, dao_cell_owner, hard_reject, unsafe,
                 tag, flags, contract_type, lock_arg_tmp, cell_state, inVars,
                 outVars, endVars, histVars>>

-----------------------------------------------------------------------------
(* Paths and inputs *)

\* init_bip32 refuses a path that is too long; an exception of prep_lock_arg, when
\* the operating system does not derive a key, ends the transaction as well.
PathsRefused ==
  /\ pc = "paths" /\ pc' = "end"
  /\ thrown' \in {"PARSE_ERROR", "DERIVATION"}
  /\ hard_reject' = (thrown' = "PARSE_ERROR")
  /\ UNCHANGED <<cell, sent, setVars, keyVars, dao_cell_owner, unsafe, tag, flags,
                 contract_type, lock_arg_tmp, cell_state, inVars, outVars,
                 v, screens, histVars>>

\* blake2b_input_count, which is not called for no inputs.
CountsDiffer(n, declared) == n > 0 /\ n # declared

\* set_sign_path, set_change_path, set_input_count and, at the start of the
\* inputs, inputs_start and blake2b_input_count.
SetPaths(change, n, declared) ==
  /\ pc = "paths" /\ pc' = "ins"
  /\ current_lock_arg' = SignHash /\ change_lock_arg' = change
  /\ n_inputs' = n /\ input_count' = declared
  /\ hard_reject' = CountsDiffer(n, declared)
  /\ UNCHANGED <<cell, sent, setVars, dao_cell_owner, unsafe, tag, flags,
                 contract_type, lock_arg_tmp, cell_state, inVars, outVars,
                 endVars, histVars>>

\* Mutant: the hash type of a lock script is not checked.
LockUnsupportedAnyHashType(c) == ~setting /\ c.lock = "other"

\* cell_lock_code_hash and cell_script_hash_type on the lock script.
LockUnsupported(c) == ~setting /\ (c.lock = "other" \/ ~c.lock_ht)

\* cell_type_code_hash, cell_script_hash_type and cell_type_arg_length.
TypeUnsupported(c) ==
  /\ c.type # "none"
  /\ \/ c.type = "dao" /\ c.targs
     \/ ~setting /\ (c.type = "other" \/ ~c.type_ht \/ c.targs)

\* What the callbacks up to the lock argument leave in cell_state.
StartedCellState(c) ==
  [ZeroCellState EXCEPT !.capacity = c.cap, !.is_multisig = (c.lock = "multisig")]

\* The output the input spends: input_start to script_arg_start_input.
StartInput(c) ==
  /\ pc = "ins" /\ Len(ins) < n_inputs
  /\ pc' = "in_args" /\ cell' = c /\ sent' = 0
  /\ cell_state' = StartedCellState(c) /\ lock_arg_tmp' = ZeroArg
  /\ unsafe' = (unsafe \/ LockUnsupported(c))
  /\ UNCHANGED <<setVars, keyVars, dao_cell_owner, hard_reject, tag, flags,
                 contract_type, inVars, outVars, endVars, histVars>>

\* The source transaction has no output at the index the input names: no
\* callback finds the cell active.
InputNotFound ==
  /\ pc = "ins" /\ Len(ins) < n_inputs
  /\ cell_state' = ZeroCellState /\ lock_arg_tmp' = ZeroArg
  /\ ins' = Append(ins, NoCell)
  /\ UNCHANGED <<pc, cell, sent, setVars, keyVars, dao_cell_owner, hard_reject,
                 unsafe, tag, flags, contract_type, inVars, outVars, endVars,
                 outs, checked, total_in, total_out>>

\* The memory lock_arg_cmp points into; a comparison past the 20 bytes of the
\* hash goes on in the next field of the state.
LockArgCmp(k) ==
  IF pc = "in_args"
  THEN IF k <= HASH THEN current_lock_arg[k] ELSE change_lock_arg[k - HASH]
  ELSE IF k <= HASH THEN change_lock_arg[k] ELSE dao_cell_owner[k - HASH]

\* Mutant: a lock argument of 28 bytes is too long.
OverlongAtLimit(n) == cell_state.lock_arg_index + n >= ARG

\* A chunk that would leave lock_arg_tmp is an "Unknown arg".
Overlong(n) == cell_state.lock_arg_index + n > ARG

\* script_arg_chunk on the next n units of the lock argument.
ScriptArgChunk(n) ==
  LET off == cell_state.lock_arg_index
      new == off + 1 .. off + n
      unit(k) == cell.args[sent + k - off]
  IN /\ pc \in {"in_args", "out_args"} /\ n \in 1 .. Len(cell.args) - sent
     /\ sent' = sent + n
     /\ \/ /\ Overlong(n)
           /\ cell_state' = [cell_state EXCEPT !.lock_arg_nonequal = TRUE]
           /\ lock_arg_tmp' = lock_arg_tmp
        \/ /\ ~Overlong(n)
           /\ lock_arg_tmp' = [k \in 1 .. ARG |->
                IF k \in new THEN unit(k) ELSE lock_arg_tmp[k]]
           /\ cell_state' = [cell_state EXCEPT
                !.lock_arg_index = off + n,
                !.lock_arg_nonequal = @ \/ \E k \in new : LockArgCmp(k) # unit(k)]
     /\ UNCHANGED <<pc, cell, setVars, keyVars, dao_cell_owner, hard_reject,
                    unsafe, tag, flags, contract_type, inVars, outVars,
                    endVars, histVars>>

\* input_lock_arg_end, then the callbacks on the type script.
InputLockArgEnd ==
  LET hash == HashOf(lock_arg_tmp)
      new == hash # last_input_lock_arg
      own == new /\ ~cell_state.lock_arg_nonequal
      unordered == own /\ input_index # 0
  IN /\ pc = "in_args" /\ sent = Len(cell.args) /\ pc' = "in_data"
     /\ distinct_input_sources' =
          IF new THEN distinct_input_sources + 1 ELSE distinct_input_sources
     /\ input_index' =
          IF own /\ ~unordered THEN distinct_input_sources + 1 ELSE input_index
     /\ last_input_lock_arg' = IF unordered THEN last_input_lock_arg ELSE hash
     /\ unsafe' = (unsafe \/ unordered \/ TypeUnsupported(cell))
     /\ cell_state' = [cell_state EXCEPT !.is_dao = (cell.type = "dao")]
     /\ UNCHANGED <<cell, sent, setVars, keyVars, dao_cell_owner, hard_reject,
                    tag, flags, contract_type, lock_arg_tmp, input_fst,
                    input_snd, dao_input_amount, signing_multisig_input,
                    outVars, endVars, histVars>>

\* Mutant: a DAO cell replaces the tag of another operation.
SetDaoTagAlways(t) == tag' = t /\ unsafe' = unsafe

\* A DAO cell sets the tag of the operation, unless another tag is set.
SetDaoTag(t) ==
  IF tag \in {NOT_SET, t}
  THEN tag' = t /\ unsafe' = unsafe
  ELSE tag' = tag /\ unsafe' = TRUE

\* The check of data in a cell that is not a DAO cell; returns before anything
\* else when the data is refused.
DataRefused(size) == size # 0 /\ ~setting
NoteData(size) ==
  contract_type' = IF size > 0 /\ ~DataRefused(size) THEN "UNKNOWN"
                                                     ELSE contract_type

DaoInputData(size, nonzero) ==
  /\ cell_state.is_dao
  /\ dao_cell_owner' = HashOf(lock_arg_tmp)
  /\ IF size # 8
     THEN unsafe' = TRUE /\ UNCHANGED <<tag, dao_input_amount>>
     ELSE /\ dao_input_amount' = AddW(dao_input_amount, cell_state.capacity)
          /\ SetDaoTag(IF nonzero THEN WITHDRAW ELSE PREPARE)
  /\ UNCHANGED <<contract_type, input_fst, input_snd, signing_multisig_input>>

PlainInputData(size) ==
  /\ ~cell_state.is_dao
  /\ NoteData(size)
  /\ IF DataRefused(size)
     THEN unsafe' = TRUE /\ UNCHANGED <<input_fst, input_snd, signing_multisig_input>>
     ELSE /\ unsafe' = unsafe
          /\ input_snd' = AddW(input_snd, cell_state.capacity)
          /\ input_fst' = IF cell_state.lock_arg_nonequal THEN input_fst
                          ELSE AddW(input_fst, cell_state.capacity)
          /\ signing_multisig_input' =
               (signing_multisig_input \/ cell_state.is_multisig)
  /\ UNCHANGED <<dao_cell_owner, dao_input_amount, tag>>

\* set_cell_data_size, check_cell_data_data_chunk, finish_input_cell_data.
InputData ==
  LET nonzero == cell_state.dao_data_is_nonzero \/ cell.nonzero
  IN /\ pc = "in_data" /\ pc' = "ins"
     /\ cell_state' = [cell_state EXCEPT !.data_size = cell.size,
                                         !.dao_data_is_nonzero = nonzero]
     /\ DaoInputData(cell.size, nonzero) \/ PlainInputData(cell.size)
     /\ ins' = Append(ins, cell) /\ total_in' = AddW(total_in, cell.cap)
     /\ UNCHANGED <<cell, sent, setVars, keyVars, hard_reject, flags,
                    lock_arg_tmp, last_input_lock_arg, distinct_input_sources,
                    input_index, outVars, endVars, outs, checked, total_out>>

\* finish_inputs clears the union G.u, which holds the state of the outputs.
FinishInputs ==
  /\ pc = "ins" /\ Len(ins) = n_inputs /\ pc' = "outs"
  /\ last_input_lock_arg' = ZeroHash
  /\ UNCHANGED <<cell, sent, setVars, keyVars, dao_cell_owner, hard_reject,
                 unsafe, tag, flags, contract_type, lock_arg_tmp, cell_state,
                 distinct_input_sources, input_index, input_fst, input_snd,
                 dao_input_amount, signing_multisig_input, outVars, endVars,
                 histVars>>

-----------------------------------------------------------------------------
(* Outputs *)

\* output_start, cell_capacity, cell_lock_code_hash, cell_script_hash_type.
StartOutput(c) ==
  /\ pc = "outs" /\ Len(outs) < MaxOuts
  /\ pc' = "out_args" /\ cell' = c /\ sent' = 0
  /\ cell_state' = StartedCellState(c) /\ lock_arg_tmp' = ZeroArg
  /\ unsafe' = (unsafe \/ LockUnsupported(c))
  /\ UNCHANGED <<setVars, keyVars, dao_cell_owner, hard_reject, tag, flags,
                 contract_type, inVars, outVars, endVars, histVars>>

\* The values 1<<index may have, as sets of bits of a 64-bit mask: computed in
\* int, it extends its sign at the last bit and is undefined beyond.
IntBit(i) == IF i = INT_WIDTH - 1 THEN i .. 2 * INT_WIDTH - 1 ELSE {i}
ShiftedBits(i) ==
  IF i < INT_WIDTH THEN {IntBit(i)} ELSE {{}, IntBit(i % INT_WIDTH)}

\* The code deems an output a payment to somebody else.
Foreign == cell_state.lock_arg_nonequal \/ cell_state.is_multisig

\* An exception ends the transaction; main_loop then clears the state.
Throw(e) == thrown' = e /\ pc' = "end"
Continue(next) == thrown' = thrown /\ pc' = next

\* The is_dao branch of output_end.
DaoOutput ==
  /\ cell.type = "dao"
  /\ dao_cell_owner' = HashOf(lock_arg_tmp)
  /\ dao_output_amount' = AddW(dao_output_amount, cell_state.capacity)
  /\ \E bits \in ShiftedBits(Len(outs)) : dao_bitmask' = dao_bitmask \cup bits
  /\ unsafe' = (unsafe \/ TypeUnsupported(cell) \/ Foreign)
  /\ flags' = IF Foreign THEN flags ELSE flags \cup {CHANGE}
  /\ Continue("outs")
  /\ UNCHANGED <<tag, outputs, output_count, plain_output_amount,
                 change_amount>>

\* Mutant: the kind of lock does not count.
SameDestinationHash ==
  HashOf(outputs[output_count].destination) = HashOf(lock_arg_tmp)

\* Same destination as the last entry: only the hash and the kind of lock count.
SameDestination ==
  /\ HashOf(outputs[output_count].destination) = HashOf(lock_arg_tmp)
  /\ outputs[output_count].is_multisig = cell_state.is_multisig

\* A further destination cannot be given an entry of its own.
TagRefusesOutput == tag \notin {NOT_SET, MULTI_OUTPUT}

\* Mutant: the flag is not set.
CreditWithoutFlag(i, dest, multisig, before) ==
  /\ outputs' = [outputs EXCEPT ![i] =
       [capacity |-> AddW(before, cell_state.capacity),
        destination |-> dest, is_multisig |-> multisig]]
  /\ output_count' = i
  /\ plain_output_amount' = AddW(plain_output_amount, cell_state.capacity)
  /\ flags' = flags

\* The entry i takes the capacity of the cell.
Credit(i, dest, multisig, before) ==
  /\ outputs' = [outputs EXCEPT ![i] =
       [capacity |-> AddW(before, cell_state.capacity),
        destination |-> dest, is_multisig |-> multisig]]
  /\ output_count' = i
  /\ plain_output_amount' = AddW(plain_output_amount, cell_state.capacity)
  /\ flags' = flags \cup {DEST}

\* No destination yet: output_end asserts that there is no entry either.
FirstDestination ==
  /\ DEST \notin flags
  /\ IF output_count # 0
     THEN /\ Throw("MEMORY_ERROR")
          /\ UNCHANGED <<unsafe, flags, outputs, output_count,
                         plain_output_amount>>
     ELSE /\ Continue("outs")
          /\ Credit(1, lock_arg_tmp, cell_state.is_multisig, outputs[1].capacity)
          /\ unsafe' = (unsafe \/ TypeUnsupported(cell))
  /\ tag' = tag

CoalescedDestination ==
  /\ DEST \in flags /\ SameDestination
  /\ LET o == outputs[output_count] IN
       Credit(output_count, o.destination, o.is_multisig, o.capacity)
  /\ Continue("outs") /\ tag' = tag /\ unsafe' = (unsafe \/ TypeUnsupported(cell))

FurtherDestination ==
  /\ DEST \in flags /\ ~SameDestination
  /\ Continue("outs")
  /\ tag' = IF TagRefusesOutput THEN tag ELSE MULTI_OUTPUT
  /\ IF TagRefusesOutput \/ output_count >= MAX_OUTPUTS
     THEN /\ unsafe' = TRUE
          /\ UNCHANGED <<outputs, output_count, plain_output_amount, flags>>
     ELSE /\ unsafe' = (unsafe \/ TypeUnsupported(cell))
          /\ Credit(output_count + 1, lock_arg_tmp, cell_state.is_multisig,
                    outputs[output_count + 1].capacity)

DestinationOutput ==
  /\ cell.type # "dao" /\ Foreign
  /\ FirstDestination \/ CoalescedDestination \/ FurtherDestination
  /\ UNCHANGED <<dao_cell_owner, dao_output_amount, dao_bitmask, change_amount>>

ChangeOutput ==
  /\ cell.type # "dao" /\ ~Foreign
  /\ change_amount' = AddW(change_amount, cell_state.capacity)
  /\ flags' = flags \cup {CHANGE}
  /\ unsafe' = (unsafe \/ TypeUnsupported(cell))
  /\ Continue("outs")
  /\ UNCHANGED <<dao_cell_owner, dao_output_amount, dao_bitmask, tag, outputs,
                 output_count, plain_output_amount>>

\* The callbacks on the type script, output_end, and output_start on the index
\* after it, which clears cell_state also when no output follows.
OutputEnd ==
  /\ pc = "out_args" /\ sent = Len(cell.args)
  /\ DaoOutput \/ DestinationOutput \/ ChangeOutput
  /\ cell_state' = ZeroCellState /\ lock_arg_tmp' = ZeroArg
  /\ outs' = Append(outs, cell) /\ total_out' = AddW(total_out, cell.cap)
  /\ UNCHANGED <<cell, sent, setVars, keyVars, hard_reject, contract_type,
                 inVars, is_self_transfer, v, screens, ins, checked, total_in>>

\* Mutant: one change output makes a self transfer.
AnyChange == CHANGE \in flags

\* The conditions of outputs_end.
DaoSoFar == dao_bitmask # {} \/ tag \in {PREPARE, WITHDRAW}
AllChange == DEST \notin flags /\ CHANGE \in flags

\* outputs_end: a transfer whose outputs are all change pays the change address.
\* "flags &= !HAS_CHANGE_ADDRESS" leaves no flag.
SelfTransfer ==
  IF plain_output_amount # 0 \/ output_count # 0
  THEN /\ Throw(IF plain_output_amount # 0 THEN "WRONG_PARAM" ELSE "MEMORY_ERROR")
       /\ UNCHANGED <<flags, outputs, output_count, plain_output_amount,
                      change_amount>>
  ELSE /\ Continue("data")
       /\ plain_output_amount' = change_amount /\ change_amount' = 0
       /\ flags' = {}
       /\ output_count' = 1
       /\ outputs' = [outputs EXCEPT ![1].destination =
            [k \in 1 .. ARG |-> IF k <= HASH THEN change_lock_arg[k] ELSE @[k]]]

OutputsEnd ==
  /\ pc = "outs"
  /\ is_self_transfer' = (~DaoSoFar /\ AllChange)
  /\ \/ ~DaoSoFar /\ AllChange /\ SelfTransfer
     \/ /\ DaoSoFar \/ ~AllChange
        /\ Continue("data")
        /\ UNCHANGED <<flags, outputs, output_count, plain_output_amount,
                       change_amount>>
  /\ UNCHANGED <<cell, sent, setVars, keyVars, dao_cell_owner, hard_reject,
                 unsafe, tag, contract_type, lock_arg_tmp, cell_state, inVars,
                 dao_bitmask, dao_output_amount, v, screens, histVars>>

DaoOutputData(size, nonzero) ==
  /\ checked \in dao_bitmask
  /\ IF size # 8 THEN unsafe' = TRUE /\ tag' = tag
                 ELSE SetDaoTag(IF nonzero THEN PREPARE ELSE DEPOSIT)
  /\ contract_type' = contract_type

PlainOutputData(size) ==
  /\ checked \notin dao_bitmask
  /\ NoteData(size)
  /\ unsafe' = (unsafe \/ DataRefused(size))
  /\ tag' = tag

\* validate_output_data_start, set_cell_data_size, check_cell_data_data_chunk
\* and finish_output_cell_data on the next item of outputs_data.  A transaction
\* of the chain has one item for each output; the device does not count them.
OutputData(c) ==
  LET nonzero == cell_state.dao_data_is_nonzero \/ c.nonzero
  IN /\ pc = "data" /\ checked < MaxOuts
     /\ checked < Len(outs) => c = outs[checked + 1]
     /\ DaoOutputData(c.size, nonzero) \/ PlainOutputData(c.size)
     /\ cell_state' = [cell_state EXCEPT !.is_dao = (checked \in dao_bitmask),
                         !.data_size = c.size, !.dao_data_is_nonzero = nonzero]
     /\ checked' = checked + 1
     /\ UNCHANGED <<pc, cell, sent, setVars, keyVars, dao_cell_owner,
                    hard_reject, flags, lock_arg_tmp, inVars, outVars, endVars,
                    ins, outs, total_in, total_out>>

-----------------------------------------------------------------------------
(* The end of the raw transaction, and the prompt *)

Transfers == {NOT_SET, PLAIN}

\* Mutant: none of several inputs need be the signing key's.
FinalizeRejectsButSource ==
  \/ tag = MULTI_INPUT
  \/ /\ tag \in Transfers /\ distinct_input_sources > 1
     /\ signing_multisig_input
  \/ tag = MULTI_OUTPUT /\ distinct_input_sources > 1
  \/ tag = PREPARE /\ dao_output_amount # dao_input_amount
  \/ tag = WITHDRAW /\ (dao_output_amount # 0 \/ plain_output_amount # 0)

\* The REJECTs of finalize_raw_transaction.
FinalizeRejects ==
  \/ tag = MULTI_INPUT
  \/ /\ tag \in Transfers /\ distinct_input_sources > 1
     /\ signing_multisig_input \/ input_index = 0
  \/ tag = MULTI_OUTPUT /\ distinct_input_sources > 1
  \/ tag = PREPARE /\ dao_output_amount # dao_input_amount
  \/ tag = WITHDRAW /\ (dao_output_amount # 0 \/ plain_output_amount # 0)

FinalTag ==
  IF tag \notin Transfers THEN tag
  ELSE IF distinct_input_sources > 1
       THEN IF signing_multisig_input THEN tag ELSE MULTI_INPUT
       ELSE IF is_self_transfer THEN SELF ELSE PLAIN

\* Mutant: change is taken for part of the fee.
FeeWithChange == SubW(AddW(input_snd, dao_input_amount),
                      AddW(plain_output_amount, dao_output_amount))

Fee == SubW(AddW(input_snd, dao_input_amount),
            AddW(AddW(plain_output_amount, dao_output_amount), change_amount))

\* Mutant: the compensation keeps the sign of a fee.
ShownFeePositive == Fee

\* A withdrawal shows what it brings in the place of the fee.
ShownFee == IF tag = WITHDRAW THEN SubW(0, Fee) ELSE Fee

\* The amount of a DAO prompt, set before the checks that may reject.
DaoAmount == IF tag = WITHDRAW THEN dao_input_amount
             ELSE IF tag \in {DEPOSIT, PREPARE} THEN dao_output_amount
             ELSE 0

\* The fields finalize_raw_transaction sets when it does not reject.
FinalV ==
  [total_fee |-> ShownFee,
   amount_fst |-> IF FinalTag = MULTI_INPUT THEN input_fst ELSE 0,
   amount_snd |-> IF tag \in Transfers \cup {SELF, MULTI_OUTPUT}
                  THEN plain_output_amount ELSE 0,
   dao_amount |-> DaoAmount,
   input_count_snd |-> IF FinalTag = MULTI_INPUT THEN distinct_input_sources
                       ELSE 0]

FinalizeRawTransaction ==
  /\ pc = "data" /\ pc' = "witnesses"
  /\ unsafe' = (unsafe \/ FinalizeRejects)
  /\ tag' = FinalTag
  /\ v' = IF FinalizeRejects THEN [v EXCEPT !.dao_amount = DaoAmount] ELSE FinalV
  /\ UNCHANGED <<cell, sent, setVars, keyVars, dao_cell_owner, hard_reject,
                 flags, contract_type, lock_arg_tmp, cell_state, inVars,
                 outVars, thrown, screens, histVars>>

\* lock_arg_to_sighash_address and lock_arg_to_multisig_address: the lock
\* period appears in a multisig address only, and only when it is not zero.
SighashAddress(hash) == [kind |-> "sighash", arg |-> hash]
Address(multisig, arg) ==
  IF ~multisig THEN SighashAddress(HashOf(arg))
  ELSE IF \A k \in HASH + 1 .. ARG : arg[k] = 0
       THEN [kind |-> "multisig", arg |-> HashOf(arg)]
       ELSE [kind |-> "timelock", arg |-> arg]

Screen(p, x) == [prompt |-> p, value |-> x]
OutputAddress(i) == Address(outputs[i].is_multisig, outputs[i].destination)

\* The screens of sign_complete (multi_output_prompts_cb for the last entry).
Screens ==
  LET fee == Screen("Fee", v.total_fee)
      amount == Screen("Amount", v.amount_snd)
      dest == Screen("Destination", OutputAddress(1))
      owner == Screen("Cell Owner", SighashAddress(dao_cell_owner))
      deposited == Screen("Deposit Amount", v.dao_amount)
      confirm(x) == Screen("Confirm", x)
  IN CASE tag = PLAIN ->
            <<confirm("Transaction"), amount, fee, dest>>
              \o (IF setting THEN <<Screen("Contract", contract_type)>> ELSE <<>>)
       [] tag = SELF -> <<confirm("Self-Transfer"), amount, fee, dest>>
       [] tag = MULTI_INPUT ->
            <<confirm("Multi-Input Transaction"),
              Screen("Input", <<input_index, v.input_count_snd>>),
              Screen("Source", SighashAddress(current_lock_arg)),
              Screen("Amount", <<v.amount_fst, v.amount_snd>>), fee, dest>>
       [] tag = DEPOSIT -> <<confirm("Deposit"), deposited, fee, owner>>
       [] tag = PREPARE -> <<confirm("Prepare"), deposited, fee, owner>>
       [] tag = WITHDRAW ->
            <<confirm("Withdrawal"), deposited,
              Screen("Compensation", v.total_fee), owner>>
       [] OTHER ->
            <<confirm("Transaction"), amount, fee>> \o
            [i \in 1 .. output_count |->
               Screen("Output", <<outputs[i].capacity, OutputAddress(i)>>)]

Refuse(e) == thrown' = e /\ screens' = screens

\* The last APDU: the end of handle_apdu, and sign_complete with the check of
\* ui_prompt_with_cb.  secure_only is the P1_NO_FALLBACK bit.
SignComplete(secure_only) ==
  /\ pc = "witnesses" /\ pc' = "end"
  /\ \/ hard_reject /\ tag' = tag /\ Refuse("PARSE_ERROR")
     \/ ~hard_reject /\ unsafe /\ secure_only /\ tag' = tag /\ Refuse("SECURITY")
     \/ ~hard_reject /\ unsafe /\ ~secure_only /\ tag' = NONE /\ Refuse("REJECT")
     \/ /\ ~hard_reject /\ ~unsafe /\ tag' = tag
        /\ IF tag \in {NONE, NOT_SET} THEN Refuse("REJECT")
           ELSE IF Len(Screens) > MAX_SCREEN_COUNT THEN Refuse("MEMORY_ERROR")
           ELSE thrown' = "no" /\ screens' = Screens
  /\ UNCHANGED <<cell, sent, setVars, keyVars, dao_cell_owner, hard_reject,
                 unsafe, flags, contract_type, lock_arg_tmp, cell_state, inVars,
                 outVars, v, histVars>>

\* Any further APDU after a hard reject.
RefuseNextApdu ==
  /\ hard_reject /\ pc \notin {"paths", "end"}
  /\ pc' = "end" /\ Refuse("PARSE_ERROR")
  /\ UNCHANGED <<cell, sent, setVars, keyVars, dao_cell_owner, hard_reject,
                 unsafe, tag, flags, contract_type, lock_arg_tmp, cell_state,
                 inVars, outVars, v, histVars>>

\* The transaction is over: the prompt is up or an exception was thrown.
Done == pc = "end" /\ UNCHANGED vars

Next ==
  \/ SwitchContractData
  \/ PathsRefused
  \/ \E change \in ChangeHashes, n, declared \in 0 .. MaxIns :
       SetPaths(change, n, declared)
  \/ \E c \in InCells : StartInput(c)
  \/ InputNotFound
  \/ \E n \in 1 .. Len(cell.args) : ScriptArgChunk(n)
  \/ InputLockArgEnd
  \/ InputData
  \/ FinishInputs
  \/ \E c \in OutCells : StartOutput(c)
  \/ OutputEnd
  \/ OutputsEnd
  \/ \E c \in OutCells : OutputData(c)
  \/ FinalizeRawTransaction
  \/ \E secure_only \in BOOLEAN : SignComplete(secure_only)
  \/ RefuseNextApdu
  \/ Done

Spec == Init /\ [][Next]_vars

-----------------------------------------------------------------------------
(* Properties *)

Output == [capacity : Amount, destination : LockArg, is_multisig : BOOLEAN]
Exceptions == {"no", "MEMORY_ERROR", "WRONG_PARAM", "PARSE_ERROR", "SECURITY",
               "REJECT", "DERIVATION"}

\* Every field of the sign state keeps the type that globals.h and types.h
\* give it: amounts stay in 64 bits, lock_arg_index within lock_arg_t, and
\* output_count within the outputs array.
TypeOK ==
  /\ pc \in {"paths", "ins", "in_args", "in_data", "outs", "out_args", "data",
             "witnesses", "end"}
  /\ cell \in InCells \cup OutCells \cup {NoCell} /\ sent \in 0 .. Len(cell.args)
  /\ setting \in BOOLEAN /\ toggles \in 0 .. MaxToggles /\ allowed \in BOOLEAN
  /\ current_lock_arg \in Hash /\ change_lock_arg \in Hash
  /\ dao_cell_owner \in Hash /\ n_inputs \in Nat /\ input_count \in Nat
  /\ hard_reject \in BOOLEAN /\ unsafe \in BOOLEAN /\ tag \in Tag
  /\ flags \subseteq {DEST, CHANGE}
  /\ contract_type \in {"NOT_PRESENT", "UNKNOWN"}
  /\ lock_arg_tmp \in LockArg
  /\ cell_state \in [capacity : Amount, lock_arg_index : 0 .. ARG,
                     is_dao : BOOLEAN, is_multisig : BOOLEAN,
                     lock_arg_nonequal : BOOLEAN,
                     dao_data_is_nonzero : BOOLEAN, data_size : 0 .. 15]
  /\ last_input_lock_arg \in Hash /\ distinct_input_sources \in Nat
  /\ input_index \in Nat /\ input_fst \in Amount /\ input_snd \in Amount
  /\ dao_input_amount \in Amount /\ signing_multisig_input \in BOOLEAN
  /\ outputs \in [1 .. MAX_OUTPUTS -> Output] /\ output_count \in 0 .. MAX_OUTPUTS
  /\ dao_bitmask \subseteq Nat
  /\ plain_output_amount \in Amount /\ dao_output_amount \in Amount
  /\ change_amount \in Amount /\ is_self_transfer \in BOOLEAN
  /\ v \in [total_fee : Amount, amount_fst : Amount, amount_snd : Amount,
            dao_amount : Amount, input_count_snd : Nat]
  /\ thrown \in Exceptions /\ total_in \in Amount /\ total_out \in Amount
  /\ ins \in Seq(InCells \cup OutCells \cup {NoCell})
  /\ outs \in Seq(InCells \cup OutCells \cup {NoCell})
  /\ checked \in 0 .. MaxOuts

\* The internal checks of output_end and outputs_end ("Should be 0 if we
\* haven't seent address yet", "If all outputs are change, then the output
\* amount should be 0") and the screen limit of ui_prompt_with_cb never fail,
\* whatever the transaction and whichever REJECT left the state half updated.
AssertionsHold == thrown \notin {"MEMORY_ERROR", "WRONG_PARAM"}

Prompted == screens # <<>>

\* When the user is asked to sign, the fee on the screen is the capacity of all
\* inputs minus that of all outputs, although finalize_raw_transaction works it
\* out from amounts kept apart by kind of cell, moved by outputs_end and skipped
\* by early returns; for a withdrawal the screen shows the negated difference.
FeeIsInputsMinusOutputs ==
  Prompted => v.total_fee = IF tag = WITHDRAW THEN SubW(0, SubW(total_in, total_out))
                            ELSE SubW(total_in, total_out)

\* Whatever the chunks the host cuts it into, a lock argument that fits is
\* received whole and zero padded, and script_arg_chunk deems it equal exactly
\* when no unit differs from the memory it is compared with.
LockArgReceived ==
  pc \in {"in_args", "out_args"} /\ sent = Len(cell.args) /\ sent <= ARG =>
    /\ lock_arg_tmp = [k \in 1 .. ARG |-> IF k <= sent THEN cell.args[k] ELSE 0]
    /\ cell_state.lock_arg_nonequal <=>
         \E k \in 1 .. sent : LockArgCmp(k) # cell.args[k]
=============================================================================

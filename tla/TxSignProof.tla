---------------------------- MODULE TxSignProof -----------------------------
(***************************************************************************)
(* Proofs about TxSign for every value of its constants: types, the        *)
(* internal checks of apdu_sign.c, and the fee on the screen.              *)
(***************************************************************************)
EXTENDS TxSignProps, TLAPS

USE DEF setVars, keyVars, inVars, outVars, endVars, histVars

-----------------------------------------------------------------------------
(* Facts about the operators *)

\* uint64_t sums stay in 64 bits.
LEMMA AddWType ==
  ASSUME NEW a \in Amount, NEW b \in Amount
  PROVE  AddW(a, b) \in Amount
BY BoundsAssumption DEF AddW, Amount

\* uint64_t differences stay in 64 bits.
LEMMA SubWType ==
  ASSUME NEW a \in Amount, NEW b \in Amount
  PROVE  SubW(a, b) \in Amount
BY BoundsAssumption DEF SubW, Amount

\* Zeroed memory holds an amount.
LEMMA ZeroAmount == 0 \in Amount
BY BoundsAssumption DEF Amount

\* What is known of a cell while it is received.
LEMMA CellFields ==
  ASSUME NEW c \in InCells \cup OutCells \cup {NoCell}
  PROVE  /\ c.args \in Seq(UNIT) /\ c.cap \in Amount /\ c.size \in 0 .. 15
         /\ c.nonzero \in BOOLEAN
<1>1. CASE c = NoCell
  BY <1>1, ZeroAmount DEF NoCell
<1>2. CASE c \in InCells \cup OutCells
  BY <1>2, CellAssumption
<1>. QED
  BY <1>1, <1>2

\* The first 20 bytes of a lock_arg_t are a standard_lock_arg_t.
LEMMA HashOfType ==
  ASSUME NEW a \in LockArg
  PROVE  HashOf(a) \in Hash
BY BoundsAssumption DEF HashOf, LockArg, Hash

\* Zeroed memory holds a lock argument and a hash.
LEMMA ZeroTypes == ZeroArg \in LockArg /\ ZeroHash \in Hash
BY BoundsAssumption DEF ZeroArg, LockArg, ZeroHash, Hash

CellState == [capacity : Amount, lock_arg_index : 0 .. ARG,
              is_dao : BOOLEAN, is_multisig : BOOLEAN,
              lock_arg_nonequal : BOOLEAN,
              dao_data_is_nonzero : BOOLEAN, data_size : 0 .. 15]

\* The memset of input_start and output_start leaves a cell_state_t.
LEMMA ZeroCellStateType == ZeroCellState \in CellState
BY BoundsAssumption, ZeroAmount DEF CellState, ZeroCellState

-----------------------------------------------------------------------------
(* Types *)

\* clear_data leaves every field with its type.
LEMMA InitType == Init => TypeOK
<1> SUFFICES ASSUME Init PROVE TypeOK OBVIOUS
<1>1. ZeroOutput \in Output
  BY ZeroAmount, ZeroTypes DEF ZeroOutput, Output
<1>2. ZeroV \in [total_fee : Amount, amount_fst : Amount, amount_snd : Amount,
                 dao_amount : Amount, input_count_snd : Nat]
  BY ZeroAmount DEF ZeroV
<1>3. outputs \in [1 .. MAX_OUTPUTS -> Output]
  BY <1>1 DEF Init
<1>4. 0 \in 0 .. Len(NoCell.args) /\ 0 \in 0 .. MAX_OUTPUTS /\ 0 \in 0 .. MaxOuts
      /\ 0 \in 0 .. MaxToggles
  BY BoundsAssumption DEF NoCell
<1>5. ins \in Seq(InCells \cup OutCells \cup {NoCell})
      /\ outs \in Seq(InCells \cup OutCells \cup {NoCell})
  BY DEF Init
<1>. QED
  BY <1>2, <1>3, <1>4, <1>5, ZeroAmount, ZeroTypes, ZeroCellStateType
  DEF Init, TypeOK, CellState, Tag, NOT_SET, Exceptions

\* switch_contract_data keeps the types.
LEMMA SwitchType == TypeOK /\ SwitchContractData => TypeOK'
BY BoundsAssumption DEF TypeOK, SwitchContractData

\* The paths and the input count keep the types.
LEMMA SetPathsType ==
  ASSUME TypeOK, NEW change \in ChangeHashes, NEW n \in 0 .. MaxIns,
         NEW declared \in 0 .. MaxIns, SetPaths(change, n, declared)
  PROVE  TypeOK'
BY BoundsAssumption, CellAssumption DEF TypeOK, SetPaths, CountsDiffer

\* The cell state after the start of a cell.
LEMMA StartedCellStateType ==
  ASSUME NEW c \in InCells \cup OutCells
  PROVE  StartedCellState(c) \in CellState
<1> DEFINE m == c.lock = "multisig"
<1>1. m \in BOOLEAN /\ c.cap \in Amount
  BY CellFields
<1>2. StartedCellState(c) =
        [ZeroCellState EXCEPT !.capacity = c.cap, !.is_multisig = m]
  BY DEF StartedCellState
<1> HIDE DEF m
<1>. QED
  BY <1>1, <1>2, ZeroCellStateType DEF CellState

\* The start of an input cell keeps the types.
LEMMA StartInputType ==
  ASSUME TypeOK, NEW c \in InCells, StartInput(c)
  PROVE  TypeOK'
<1>1. c.args \in Seq(UNIT)
  BY CellFields
<1>2. unsafe' \in BOOLEAN
  BY DEF StartInput, LockUnsupported, TypeOK
<1>3. cell_state' \in CellState
  BY StartedCellStateType DEF StartInput
<1>4. cell' \in InCells \cup OutCells \cup {NoCell} /\ sent' \in 0 .. Len(cell'.args)
  BY <1>1 DEF StartInput
<1>. QED
  BY <1>2, <1>3, <1>4, ZeroTypes DEF TypeOK, StartInput, CellState

\* An input whose source has no such output keeps the types.
LEMMA InputNotFoundType == TypeOK /\ InputNotFound => TypeOK'
<1> SUFFICES ASSUME TypeOK, InputNotFound PROVE TypeOK' OBVIOUS
<1>1. ins' \in Seq(InCells \cup OutCells \cup {NoCell})
  BY DEF TypeOK, InputNotFound
<1>. QED
  BY <1>1, ZeroTypes, ZeroCellStateType DEF TypeOK, InputNotFound, CellState

\* script_arg_chunk stays within lock_arg_tmp, whatever the chunk.
LEMMA ScriptArgChunkType ==
  ASSUME TypeOK, NEW n \in 1 .. Len(cell.args), ScriptArgChunk(n)
  PROVE  TypeOK'
<1> DEFINE off == cell_state.lock_arg_index
<1>1. cell.args \in Seq(UNIT) /\ off \in 0 .. ARG /\ ARG \in Nat
  BY CellFields, BoundsAssumption DEF TypeOK
<1>2. sent' \in 0 .. Len(cell.args)
  <2>1. sent \in 0 .. Len(cell.args) /\ Len(cell.args) \in Nat
    BY <1>1 DEF TypeOK
  <2>2. n \in 1 .. Len(cell.args) - sent /\ sent' = sent + n
    BY DEF ScriptArgChunk
  <2>. QED
    BY <2>1, <2>2
<1>3. lock_arg_tmp' \in LockArg
  <2>1. CASE Overlong(n)
    BY <2>1 DEF TypeOK, ScriptArgChunk
  <2>2. CASE ~Overlong(n)
    <3>1. \A k \in 1 .. ARG : k \in off + 1 .. off + n =>
            cell.args[sent + k - off] \in UNIT
      <4> SUFFICES ASSUME NEW k \in 1 .. ARG, k \in off + 1 .. off + n
                   PROVE  cell.args[sent + k - off] \in UNIT
        OBVIOUS
      <4>1. Len(cell.args) \in Nat /\ sent \in 0 .. Len(cell.args)
        BY <1>1 DEF TypeOK
      <4>2. n \in 1 .. Len(cell.args) - sent
        BY DEF ScriptArgChunk
      <4>3. sent + k - off \in 1 .. Len(cell.args)
        BY SMTT(40), <1>1, <4>1, <4>2
      <4>. QED
        BY <1>1, <4>3
    <3>. QED
      BY <2>2, <3>1 DEF TypeOK, ScriptArgChunk, LockArg
  <2>. QED
    BY <2>1, <2>2
<1>4. cell_state' \in CellState
  <2> DEFINE differs == cell_state.lock_arg_nonequal \/
               \E k \in off + 1 .. off + n :
                  LockArgCmp(k) # cell.args[sent + k - off]
  <2>1. differs \in BOOLEAN
    OBVIOUS
  <2>2. CASE Overlong(n)
    BY <2>2 DEF TypeOK, ScriptArgChunk, CellState
  <2>3. CASE ~Overlong(n)
    <3>1. cell_state' = [cell_state EXCEPT !.lock_arg_index = off + n,
                                           !.lock_arg_nonequal = differs]
      BY <2>3 DEF ScriptArgChunk
    <3>2. off + n \in 0 .. ARG
      BY <1>1, <2>3 DEF Overlong
    <3> HIDE DEF differs, off
    <3>. QED
      BY <2>1, <3>1, <3>2 DEF TypeOK, CellState
  <2>. QED
    BY <2>2, <2>3
<1>. QED
  BY SMTT(40), <1>2, <1>3, <1>4 DEF TypeOK, ScriptArgChunk, CellState

\* input_lock_arg_end keeps the types.
LEMMA InputLockArgEndType == TypeOK /\ InputLockArgEnd => TypeOK'
<1> SUFFICES ASSUME TypeOK, InputLockArgEnd PROVE TypeOK' OBVIOUS
<1>1. HashOf(lock_arg_tmp) \in Hash
  BY HashOfType DEF TypeOK
<1>2. last_input_lock_arg' \in Hash
  BY <1>1 DEF TypeOK, InputLockArgEnd
<1>3. distinct_input_sources' \in Nat /\ input_index' \in Nat
  BY DEF TypeOK, InputLockArgEnd
<1>4. unsafe' \in BOOLEAN
  BY DEF TypeOK, InputLockArgEnd, TypeUnsupported
<1>5. cell_state' \in CellState
  <2> DEFINE d == cell.type = "dao"
  <2>1. d \in BOOLEAN /\ cell_state' = [cell_state EXCEPT !.is_dao = d]
    BY DEF InputLockArgEnd
  <2> HIDE DEF d
  <2>. QED
    BY <2>1 DEF TypeOK, CellState
<1>. QED
  BY <1>2, <1>3, <1>4, <1>5 DEF TypeOK, InputLockArgEnd, CellState

\* What a DAO cell does to the tag.
LEMMA SetDaoTagType ==
  ASSUME TypeOK, NEW t \in {DEPOSIT, PREPARE, WITHDRAW}, SetDaoTag(t)
  PROVE  tag' \in Tag /\ unsafe' \in BOOLEAN
BY DEF TypeOK, SetDaoTag, Tag

\* contract_type stays a contract type.
LEMMA NoteDataType ==
  ASSUME TypeOK, NEW size, NoteData(size)
  PROVE  contract_type' \in {"NOT_PRESENT", "UNKNOWN"}
BY DEF TypeOK, NoteData

\* finish_input_cell_data keeps the types.
LEMMA InputDataType == TypeOK /\ InputData => TypeOK'
<1> SUFFICES ASSUME TypeOK, InputData PROVE TypeOK' OBVIOUS
<1> DEFINE nonzero == cell_state.dao_data_is_nonzero \/ cell.nonzero
<1>1. cell_state \in CellState /\ cell_state.capacity \in Amount
  BY DEF TypeOK, CellState
<1>2. cell.size \in 0 .. 15 /\ cell.cap \in Amount
  BY CellFields DEF TypeOK
<1>3. cell_state' \in CellState
  <2>1. nonzero \in BOOLEAN
    OBVIOUS
  <2>2. cell_state' = [cell_state EXCEPT !.data_size = cell.size,
                                         !.dao_data_is_nonzero = nonzero]
    BY DEF InputData
  <2> HIDE DEF nonzero
  <2>. QED
    BY <1>1, <1>2, <2>1, <2>2 DEF CellState
<1>4. total_in' \in Amount
  BY <1>2, AddWType DEF TypeOK, InputData
<1>5. /\ tag' \in Tag /\ unsafe' \in BOOLEAN /\ dao_cell_owner' \in Hash
      /\ dao_input_amount' \in Amount /\ input_fst' \in Amount
      /\ input_snd' \in Amount /\ signing_multisig_input' \in BOOLEAN
      /\ contract_type' \in {"NOT_PRESENT", "UNKNOWN"}
  <2>1. CASE DaoInputData(cell.size, nonzero)
    <3>1. dao_cell_owner' \in Hash
      BY <2>1, HashOfType DEF TypeOK, DaoInputData
    <3>2. dao_input_amount' \in Amount
      BY <2>1, <1>1, AddWType DEF TypeOK, DaoInputData
    <3>3. tag' \in Tag /\ unsafe' \in BOOLEAN
      <4>1. CASE cell.size # 8
        BY <2>1, <4>1 DEF TypeOK, DaoInputData
      <4>2. CASE cell.size = 8
        BY <2>1, <4>2, SetDaoTagType DEF DaoInputData
      <4>. QED
        BY <4>1, <4>2
    <3>. QED
      BY <2>1, <3>1, <3>2, <3>3 DEF TypeOK, DaoInputData
  <2>2. CASE PlainInputData(cell.size)
    <3>1. contract_type' \in {"NOT_PRESENT", "UNKNOWN"}
      BY <2>2, NoteDataType DEF PlainInputData
    <3>2. input_fst' \in Amount /\ input_snd' \in Amount
      BY <2>2, <1>1, AddWType DEF TypeOK, PlainInputData
    <3>3. unsafe' \in BOOLEAN /\ signing_multisig_input' \in BOOLEAN
      BY <2>2, <1>1 DEF TypeOK, PlainInputData, CellState
    <3>. QED
      BY <2>2, <3>1, <3>2, <3>3 DEF TypeOK, PlainInputData
  <2>. QED
    BY <2>1, <2>2 DEF InputData
<1>. QED
  BY <1>3, <1>4, <1>5 DEF TypeOK, InputData, CellState

\* finish_inputs keeps the types.
LEMMA FinishInputsType == TypeOK /\ FinishInputs => TypeOK'
BY ZeroTypes DEF TypeOK, FinishInputs

\* The start of an output cell keeps the types.
LEMMA StartOutputType ==
  ASSUME TypeOK, NEW c \in OutCells, StartOutput(c)
  PROVE  TypeOK'
<1>1. c.args \in Seq(UNIT)
  BY CellFields
<1>2. unsafe' \in BOOLEAN
  BY DEF StartOutput, LockUnsupported, TypeOK
<1>3. cell_state' \in CellState
  BY StartedCellStateType DEF StartOutput
<1>4. cell' \in InCells \cup OutCells \cup {NoCell} /\ sent' \in 0 .. Len(cell'.args)
  BY <1>1 DEF StartOutput
<1>. QED
  BY <1>2, <1>3, <1>4, ZeroTypes DEF TypeOK, StartOutput, CellState

\* Until outputs_end the flag of a destination and the first entry of the
\* outputs come together, and there is no payment without them.
FlagsAgree ==
  pc \in {"paths", "ins", "in_args", "in_data", "outs", "out_args"} =>
    /\ DEST \in flags <=> output_count > 0
    /\ DEST \notin flags => plain_output_amount = 0

\* An entry of the outputs is credited with a cell.
LEMMA CreditType ==
  ASSUME TypeOK, NEW i \in 1 .. MAX_OUTPUTS, NEW dest \in LockArg,
         NEW multisig \in BOOLEAN, NEW before \in Amount,
         Credit(i, dest, multisig, before)
  PROVE  /\ outputs' \in [1 .. MAX_OUTPUTS -> Output]
         /\ output_count' \in 0 .. MAX_OUTPUTS
         /\ plain_output_amount' \in Amount /\ flags' \subseteq {DEST, CHANGE}
<1>1. cell_state.capacity \in Amount
  BY DEF TypeOK
<1>2. AddW(before, cell_state.capacity) \in Amount
  BY <1>1, AddWType
<1>3. [capacity |-> AddW(before, cell_state.capacity),
       destination |-> dest, is_multisig |-> multisig] \in Output
  BY <1>2 DEF Output
<1>4. plain_output_amount' \in Amount
  BY <1>1, AddWType DEF TypeOK, Credit
<1>. QED
  BY <1>3, <1>4, BoundsAssumption DEF TypeOK, Credit

\* 1<<index sets bits of the mask only.
LEMMA ShiftedBitsType ==
  ASSUME NEW i \in Nat, NEW bits \in ShiftedBits(i)
  PROVE  bits \subseteq Nat
<1>1. \A j \in Nat : IntBit(j) \subseteq Nat
  BY BoundsAssumption DEF IntBit
<1>2. i % INT_WIDTH \in Nat
  BY BoundsAssumption
<1>. QED
  BY <1>1, <1>2 DEF ShiftedBits

\* The part of the state that output_end writes.
OutputFieldsOK ==
  /\ outputs \in [1 .. MAX_OUTPUTS -> Output] /\ output_count \in 0 .. MAX_OUTPUTS
  /\ plain_output_amount \in Amount /\ change_amount \in Amount
  /\ dao_output_amount \in Amount /\ dao_bitmask \subseteq Nat
  /\ dao_cell_owner \in Hash /\ flags \subseteq {DEST, CHANGE}
  /\ tag \in Tag /\ unsafe \in BOOLEAN /\ thrown \in Exceptions
  /\ pc \in {"outs", "data", "end"}

\* A payment stays within G.u.tx.outputs: output_count is at least 1 when
\* a destination is known, and MAX_OUTPUTS bounds it.
LEMMA DestinationOutputType ==
  ASSUME TypeOK, FlagsAgree, pc = "out_args", DestinationOutput
  PROVE  OutputFieldsOK'
<1>1. cell_state \in CellState /\ lock_arg_tmp \in LockArg
      /\ outputs \in [1 .. MAX_OUTPUTS -> Output]
      /\ output_count \in 0 .. MAX_OUTPUTS /\ MAX_OUTPUTS \in Nat /\ MAX_OUTPUTS > 0
  BY BoundsAssumption DEF TypeOK, CellState
<1>2. \A i \in 1 .. MAX_OUTPUTS : outputs[i].capacity \in Amount
        /\ outputs[i].destination \in LockArg /\ outputs[i].is_multisig \in BOOLEAN
  BY <1>1 DEF Output
<1>3. cell_state.is_multisig \in BOOLEAN
  BY <1>1 DEF CellState
<1>4. CASE FirstDestination
  <2>1. output_count = 0
    BY <1>1, <1>4 DEF FirstDestination, FlagsAgree
  <2>2. 1 \in 1 .. MAX_OUTPUTS /\ outputs[1].capacity \in Amount
    BY <1>1, <1>2
  <2>3. Credit(1, lock_arg_tmp, cell_state.is_multisig, outputs[1].capacity)
    BY <1>4, <2>1 DEF FirstDestination
  <2>4. unsafe' \in BOOLEAN /\ tag' \in Tag /\ thrown' \in Exceptions /\ pc' = "outs"
    BY <1>4, <2>1 DEF FirstDestination, Continue, TypeOK
  <2>. QED
    BY <1>1, <1>3, <2>2, <2>3, <2>4, CreditType
    DEF DestinationOutput, OutputFieldsOK, TypeOK
<1>5. CASE CoalescedDestination
  <2>1. output_count \in 1 .. MAX_OUTPUTS
    BY <1>1, <1>5 DEF CoalescedDestination, FlagsAgree
  <2>2. Credit(output_count, outputs[output_count].destination,
               outputs[output_count].is_multisig, outputs[output_count].capacity)
    BY <1>5 DEF CoalescedDestination
  <2>3. unsafe' \in BOOLEAN /\ tag' \in Tag /\ thrown' \in Exceptions /\ pc' = "outs"
    BY <1>5 DEF CoalescedDestination, Continue, TypeOK
  <2>. QED
    BY <1>2, <2>1, <2>2, <2>3, CreditType DEF DestinationOutput, OutputFieldsOK, TypeOK
<1>6. CASE FurtherDestination
  <2>1. unsafe' \in BOOLEAN /\ thrown' \in Exceptions /\ pc' = "outs"
    BY <1>6 DEF FurtherDestination, Continue, TypeOK
  <2>2. tag' \in Tag
    BY <1>6 DEF FurtherDestination, TypeOK, Tag
  <2>3. CASE TagRefusesOutput \/ output_count >= MAX_OUTPUTS
    BY <1>6, <2>1, <2>2, <2>3
    DEF FurtherDestination, DestinationOutput, OutputFieldsOK, TypeOK
  <2>4. CASE ~(TagRefusesOutput \/ output_count >= MAX_OUTPUTS)
    <3>1. output_count + 1 \in 1 .. MAX_OUTPUTS
      BY <1>1, <2>4
    <3>2. Credit(output_count + 1, lock_arg_tmp, cell_state.is_multisig,
                 outputs[output_count + 1].capacity)
      BY <1>6, <2>4 DEF FurtherDestination
    <3>. QED
      BY SMTT(40), <1>1, <1>2, <1>3, <2>1, <2>2, <3>1, <3>2, CreditType
      DEF DestinationOutput, OutputFieldsOK, TypeOK
  <2>. QED
    BY <2>3, <2>4
<1>. QED
  BY <1>4, <1>5, <1>6 DEF DestinationOutput

\* output_end keeps the types.
LEMMA OutputEndType == TypeOK /\ FlagsAgree /\ OutputEnd => TypeOK'
<1> SUFFICES ASSUME TypeOK, FlagsAgree, OutputEnd PROVE TypeOK' OBVIOUS
<1>1. cell_state.capacity \in Amount /\ cell.cap \in Amount
  BY CellFields DEF TypeOK
<1>2. total_out' \in Amount
  BY <1>1, AddWType DEF TypeOK, OutputEnd
<1>3. outs' \in Seq(InCells \cup OutCells \cup {NoCell})
  BY DEF TypeOK, OutputEnd
<1>4. OutputFieldsOK'
  <2>1. CASE DaoOutput
    <3>1. dao_cell_owner' \in Hash
      BY <2>1, HashOfType DEF TypeOK, DaoOutput
    <3>2. dao_output_amount' \in Amount
      BY <2>1, <1>1, AddWType DEF TypeOK, DaoOutput
    <3>3. dao_bitmask' \subseteq Nat
      <4>1. Len(outs) \in Nat
        BY DEF TypeOK
      <4>2. PICK bits \in ShiftedBits(Len(outs)) : dao_bitmask' = dao_bitmask \cup bits
        BY <2>1 DEF DaoOutput
      <4>3. bits \subseteq Nat
        BY <4>1, ShiftedBitsType
      <4>. QED
        BY <4>2, <4>3 DEF TypeOK
    <3>4. unsafe' \in BOOLEAN /\ flags' \subseteq {DEST, CHANGE}
      BY <2>1 DEF TypeOK, DaoOutput
    <3>. QED
      BY <2>1, <3>1, <3>2, <3>3, <3>4 DEF TypeOK, DaoOutput, OutputFieldsOK, Continue
  <2>2. CASE DestinationOutput
    BY <2>2, DestinationOutputType DEF OutputEnd
  <2>3. CASE ChangeOutput
    <3>1. change_amount' \in Amount
      BY <2>3, <1>1, AddWType DEF TypeOK, ChangeOutput
    <3>. QED
      BY <2>3, <3>1 DEF TypeOK, ChangeOutput, OutputFieldsOK, Continue
  <2>. QED
    BY <2>1, <2>2, <2>3 DEF OutputEnd
<1>. QED
  BY SMTT(40), <1>2, <1>3, <1>4, ZeroTypes, ZeroCellStateType
  DEF TypeOK, OutputEnd, OutputFieldsOK, CellState

\* outputs_end keeps the types.
LEMMA OutputsEndType == TypeOK /\ OutputsEnd => TypeOK'
<1> SUFFICES ASSUME TypeOK, OutputsEnd PROVE TypeOK' OBVIOUS
<1>1. is_self_transfer' \in BOOLEAN
  BY DEF OutputsEnd
<1>2. OutputFieldsOK'
  <2>1. CASE SelfTransfer
    <3>1. CASE plain_output_amount # 0 \/ output_count # 0
      BY <2>1, <3>1
      DEF TypeOK, OutputsEnd, SelfTransfer, Throw, OutputFieldsOK, Exceptions
    <3>2. CASE ~(plain_output_amount # 0 \/ output_count # 0)
      <4>1. 1 \in 1 .. MAX_OUTPUTS /\ outputs[1] \in Output
        BY BoundsAssumption DEF TypeOK
      <4> DEFINE dest == [k \in 1 .. ARG |-> IF k <= HASH THEN change_lock_arg[k]
                                            ELSE outputs[1].destination[k]]
      <4>2. dest \in LockArg
        BY <4>1, BoundsAssumption DEF TypeOK, LockArg, Hash, Output
      <4>3. outputs' = [outputs EXCEPT ![1].destination = dest]
        BY <2>1, <3>2 DEF SelfTransfer
      <4> HIDE DEF dest
      <4>4. outputs' \in [1 .. MAX_OUTPUTS -> Output]
        BY <4>1, <4>2, <4>3 DEF TypeOK, Output
      <4>5. output_count' \in 0 .. MAX_OUTPUTS
        BY <2>1, <3>2, BoundsAssumption DEF SelfTransfer
      <4>6. plain_output_amount' \in Amount /\ change_amount' \in Amount
            /\ flags' \subseteq {DEST, CHANGE}
        BY <2>1, <3>2, ZeroAmount DEF TypeOK, SelfTransfer
      <4>7. pc' = "data" /\ thrown' = thrown
        BY <2>1, <3>2 DEF SelfTransfer, Continue
      <4>. QED
        BY <4>4, <4>5, <4>6, <4>7 DEF TypeOK, OutputsEnd, OutputFieldsOK
    <3>. QED
      BY <3>1, <3>2
  <2>2. CASE /\ Continue("data")
             /\ UNCHANGED <<flags, outputs, output_count, plain_output_amount,
                             change_amount>>
    BY <2>2 DEF TypeOK, OutputsEnd, Continue, OutputFieldsOK
  <2>. QED
    BY <2>1, <2>2 DEF OutputsEnd
<1>. QED
  BY <1>1, <1>2 DEF TypeOK, OutputsEnd, OutputFieldsOK

\* finish_output_cell_data keeps the types.
LEMMA OutputDataType ==
  ASSUME TypeOK, NEW c \in OutCells, OutputData(c)
  PROVE  TypeOK'
<1> DEFINE nonzero == cell_state.dao_data_is_nonzero \/ c.nonzero
           dao == checked \in dao_bitmask
<1>1. cell_state' \in CellState
  <2>1. nonzero \in BOOLEAN /\ dao \in BOOLEAN /\ c.size \in 0 .. 15
    BY CellFields
  <2>2. cell_state' = [cell_state EXCEPT !.is_dao = dao, !.data_size = c.size,
                                         !.dao_data_is_nonzero = nonzero]
    BY DEF OutputData
  <2> HIDE DEF nonzero, dao
  <2>. QED
    BY <2>1, <2>2 DEF TypeOK, CellState
<1>2. tag' \in Tag /\ unsafe' \in BOOLEAN
      /\ contract_type' \in {"NOT_PRESENT", "UNKNOWN"}
  <2>1. CASE DaoOutputData(c.size, nonzero)
    <3>1. CASE c.size # 8
      BY <2>1, <3>1 DEF TypeOK, DaoOutputData
    <3>2. CASE c.size = 8
      BY <2>1, <3>2, SetDaoTagType DEF TypeOK, DaoOutputData
    <3>. QED
      BY <3>1, <3>2
  <2>2. CASE PlainOutputData(c.size)
    BY <2>2, NoteDataType DEF TypeOK, PlainOutputData
  <2>. QED
    BY <2>1, <2>2 DEF OutputData
<1>3. checked' \in 0 .. MaxOuts
  <2>1. checked \in 0 .. MaxOuts /\ MaxOuts \in Nat
    BY BoundsAssumption DEF TypeOK
  <2>2. checked < MaxOuts /\ checked' = checked + 1
    BY DEF OutputData
  <2>. QED
    BY <2>1, <2>2
<1>. QED
  BY <1>1, <1>2, <1>3 DEF TypeOK, OutputData, CellState

\* What finalize_raw_transaction stores are amounts and counts.
LEMMA FinalVType ==
  ASSUME TypeOK
  PROVE  FinalV \in [total_fee : Amount, amount_fst : Amount, amount_snd : Amount,
                     dao_amount : Amount, input_count_snd : Nat]
<1>1. Fee \in Amount
  BY AddWType, SubWType DEF TypeOK, Fee
<1>2. ShownFee \in Amount
  BY <1>1, SubWType, ZeroAmount DEF ShownFee
<1>. QED
  BY <1>2, ZeroAmount DEF TypeOK, FinalV, DaoAmount

\* finalize_raw_transaction keeps the types.
LEMMA FinalizeRawTransactionType == TypeOK /\ FinalizeRawTransaction => TypeOK'
<1> SUFFICES ASSUME TypeOK, FinalizeRawTransaction PROVE TypeOK' OBVIOUS
<1>1. unsafe' \in BOOLEAN
  BY DEF TypeOK, FinalizeRawTransaction
<1>2. tag' \in Tag
  BY DEF TypeOK, FinalizeRawTransaction, FinalTag, Tag
<1>3. DaoAmount \in Amount
  BY ZeroAmount DEF TypeOK, DaoAmount
<1>4. v' \in [total_fee : Amount, amount_fst : Amount, amount_snd : Amount,
             dao_amount : Amount, input_count_snd : Nat]
  BY <1>3, FinalVType DEF TypeOK, FinalizeRawTransaction
<1>. QED
  BY SMTT(40), <1>1, <1>2, <1>4 DEF TypeOK, FinalizeRawTransaction

\* The end of handle_apdu keeps the types.
LEMMA SignCompleteType ==
  ASSUME TypeOK, NEW secure_only \in BOOLEAN, SignComplete(secure_only)
  PROVE  TypeOK'
<1>1. tag' \in Tag /\ thrown' \in Exceptions
  BY DEF TypeOK, SignComplete, Refuse, Tag, Exceptions
<1>. QED
  BY <1>1 DEF TypeOK, SignComplete

\* Refusing an APDU keeps the types.
LEMMA RefuseNextApduType == TypeOK /\ RefuseNextApdu => TypeOK'
BY DEF TypeOK, RefuseNextApdu, Refuse, Exceptions

\* Refusing a path keeps the types.
LEMMA PathsRefusedType == TypeOK /\ PathsRefused => TypeOK'
BY DEF TypeOK, PathsRefused, Exceptions

-----------------------------------------------------------------------------
(* The internal checks *)

\* The length of two lists of screens put together.
LEMMA ConcatLen ==
  ASSUME NEW S, NEW a \in Seq(S), NEW b \in Seq(S)
  PROVE  Len(a \o b) = Len(a) + Len(b)
OBVIOUS

\* The prompt of every kind of transaction fits the screens of the device.
LEMMA ScreensFit ==
  ASSUME TypeOK
  PROVE  ~(Len(Screens) > MAX_SCREEN_COUNT)
<1> DEFINE outs3 == [i \in 1 .. output_count |->
             Screen("Output", <<outputs[i].capacity, OutputAddress(i)>>)]
           head3 == <<Screen("Confirm", "Transaction"),
                      Screen("Amount", v.amount_snd), Screen("Fee", v.total_fee)>>
           plain4 == <<Screen("Confirm", "Transaction"),
                       Screen("Amount", v.amount_snd), Screen("Fee", v.total_fee),
                       Screen("Destination", OutputAddress(1))>>
           contract == <<Screen("Contract", contract_type)>>
           AnyScreen == {head3[i] : i \in 1 .. 3} \cup {plain4[i] : i \in 1 .. 4}
                        \cup {contract[i] : i \in 1 .. 1}
                        \cup {outs3[i] : i \in 1 .. output_count}
<1>1. output_count \in Nat /\ output_count <= MAX_OUTPUTS /\ MAX_OUTPUTS \in Nat
      /\ MAX_SCREEN_COUNT \in Nat /\ MAX_SCREEN_COUNT >= 6
      /\ MAX_SCREEN_COUNT >= MAX_OUTPUTS + 3
  BY BoundsAssumption DEF TypeOK
<1>2. head3 \in Seq(AnyScreen) /\ Len(head3) = 3
  OBVIOUS
<1>3. plain4 \in Seq(AnyScreen) /\ Len(plain4) = 4
  OBVIOUS
<1>4. contract \in Seq(AnyScreen) /\ Len(contract) = 1
  OBVIOUS
<1>5. outs3 \in Seq(AnyScreen) /\ Len(outs3) = output_count
  BY <1>1
<1>6. CASE tag = PLAIN
  <2>1. Screens = plain4 \o (IF setting THEN contract ELSE <<>>)
    BY <1>6 DEF Screens, PLAIN, SELF, MULTI_INPUT, DEPOSIT, PREPARE, WITHDRAW
  <2> HIDE DEF plain4, contract, AnyScreen
  <2>2. CASE setting
    <3>1. Len(Screens) = 4 + 1
      BY <1>3, <1>4, <2>1, <2>2, ConcatLen
    <3>. QED
      BY <1>1, <3>1
  <2>3. CASE ~setting
    <3>1. <<>> \in Seq(AnyScreen) /\ Len(<<>>) = 0
      OBVIOUS
    <3>2. Len(Screens) = 4 + 0
      BY <1>3, <3>1, <2>1, <2>3, ConcatLen
    <3>. QED
      BY <1>1, <3>2
  <2>. QED
    BY <2>2, <2>3
<1>7. CASE tag \in {SELF, MULTI_INPUT, DEPOSIT, PREPARE, WITHDRAW}
  BY <1>1, <1>7 DEF Screens, PLAIN, SELF, MULTI_INPUT, DEPOSIT, PREPARE, WITHDRAW
<1>8. CASE tag \notin {PLAIN, SELF, MULTI_INPUT, DEPOSIT, PREPARE, WITHDRAW}
  <2>1. Screens = head3 \o outs3
    BY <1>8 DEF Screens
  <2> HIDE DEF head3, outs3, AnyScreen
  <2>2. Len(Screens) = 3 + output_count
    BY <1>2, <1>5, <2>1, ConcatLen
  <2>. QED
    BY <1>1, <2>2
<1>. QED
  BY <1>6, <1>7, <1>8

\* Every step keeps the types.
LEMMA TypeStep == TypeOK /\ FlagsAgree /\ [Next]_vars => TypeOK'
<1> SUFFICES ASSUME TypeOK, FlagsAgree, [Next]_vars PROVE TypeOK' OBVIOUS
<1>1. CASE UNCHANGED vars
  BY <1>1 DEF TypeOK, vars
<1>2. CASE Done
  BY <1>2 DEF TypeOK, vars, Done
<1>. QED
  BY <1>1, <1>2, SwitchType, SetPathsType, StartInputType, InputNotFoundType,
     ScriptArgChunkType, InputLockArgEndType, InputDataType, FinishInputsType,
     StartOutputType, OutputEndType, OutputsEndType, OutputDataType,
     FinalizeRawTransactionType, SignCompleteType, RefuseNextApduType,
     PathsRefusedType
  DEF Next

\* Every step keeps the flag of a destination and output_count in agreement.
LEMMA FlagsStep == TypeOK /\ FlagsAgree /\ [Next]_vars => FlagsAgree'
<1> SUFFICES ASSUME TypeOK, FlagsAgree, [Next]_vars PROVE FlagsAgree' OBVIOUS
<1> DEFINE early == {"paths", "ins", "in_args", "in_data", "outs", "out_args"}
<1>1. CASE OutputEnd
  <2>1. pc = "out_args" /\ output_count \in 0 .. MAX_OUTPUTS
    BY <1>1 DEF OutputEnd, TypeOK
  <2>2. CASE DestinationOutput
    <3>1. \A i, dest, multisig, before : i > 0 /\ Credit(i, dest, multisig, before) =>
            DEST \in flags' /\ output_count' > 0
      BY DEF Credit
    <3>2. CASE FirstDestination
      <4>1. output_count = 0
        BY <2>1, <3>2 DEF FirstDestination, FlagsAgree
      <4>. QED
        BY <3>1, <3>2, <4>1 DEF FirstDestination, FlagsAgree
    <3>3. CASE CoalescedDestination
      <4>1. output_count > 0
        BY <2>1, <3>3 DEF CoalescedDestination, FlagsAgree
      <4>. QED
        BY <3>1, <3>3, <4>1 DEF CoalescedDestination, FlagsAgree
    <3>4. CASE FurtherDestination
      <4>1. output_count > 0 /\ output_count + 1 > 0 /\ DEST \in flags
        BY <2>1, <3>4 DEF FurtherDestination, FlagsAgree
      <4>. QED
        BY <3>1, <3>4, <4>1 DEF FurtherDestination, FlagsAgree
    <3>. QED
      BY <2>2, <3>2, <3>3, <3>4 DEF DestinationOutput
  <2>3. CASE DaoOutput
    BY <2>1, <2>3 DEF DaoOutput, FlagsAgree, DEST, CHANGE
  <2>4. CASE ChangeOutput
    BY <2>1, <2>4 DEF ChangeOutput, FlagsAgree, DEST, CHANGE
  <2>. QED
    BY <1>1, <2>2, <2>3, <2>4 DEF OutputEnd
<1>2. CASE OutputsEnd
  <2>1. pc' \in {"data", "end"}
    BY <1>2 DEF OutputsEnd, SelfTransfer, Continue, Throw
  <2>. QED
    BY <2>1 DEF FlagsAgree
<1>3. CASE \/ FinalizeRawTransaction \/ RefuseNextApdu \/ PathsRefused
           \/ \E secure_only \in BOOLEAN : SignComplete(secure_only)
           \/ \E c \in OutCells : OutputData(c)
  <2>1. pc' \notin early
    BY <1>3 DEF FinalizeRawTransaction, RefuseNextApdu, PathsRefused,
       SignComplete, OutputData
  <2>. QED
    BY <2>1 DEF FlagsAgree
<1>4. CASE \/ SwitchContractData \/ Done \/ UNCHANGED vars
  BY <1>4 DEF FlagsAgree, SwitchContractData, Done, vars
<1>5. CASE \E change \in ChangeHashes, n, declared \in 0 .. MaxIns :
             SetPaths(change, n, declared)
  BY <1>5 DEF FlagsAgree, SetPaths
<1>6. CASE \/ \E c \in InCells : StartInput(c)
           \/ \E c \in OutCells : StartOutput(c)
           \/ \E n \in 1 .. Len(cell.args) : ScriptArgChunk(n)
  BY <1>6 DEF FlagsAgree, StartInput, StartOutput, ScriptArgChunk
<1>7. CASE InputNotFound \/ InputLockArgEnd \/ InputData \/ FinishInputs
  BY <1>7 DEF FlagsAgree, InputNotFound, InputLockArgEnd, InputData, FinishInputs
<1>. QED
  BY <1>1, <1>2, <1>3, <1>4, <1>5, <1>6, <1>7 DEF Next

\* No step fails a check that raises an exception.
LEMMA AssertionsStep ==
  TypeOK /\ FlagsAgree /\ AssertionsHold /\ [Next]_vars => AssertionsHold'
<1> SUFFICES ASSUME TypeOK, FlagsAgree, AssertionsHold, [Next]_vars
             PROVE  AssertionsHold'
  OBVIOUS
<1>1. CASE OutputEnd
  <2>1. pc = "out_args" /\ output_count \in 0 .. MAX_OUTPUTS
    BY <1>1 DEF OutputEnd, TypeOK
  <2>2. thrown' = thrown
    BY <1>1, <2>1 DEF OutputEnd, DaoOutput, ChangeOutput, DestinationOutput,
       FirstDestination, CoalescedDestination, FurtherDestination, FlagsAgree, Continue
  <2>. QED
    BY <2>2 DEF AssertionsHold
<1>2. CASE OutputsEnd
  <2>1. pc = "outs" /\ output_count \in 0 .. MAX_OUTPUTS
    BY <1>2 DEF OutputsEnd, TypeOK
  <2>2. AllChange => plain_output_amount = 0 /\ output_count = 0
    BY <2>1 DEF AllChange, FlagsAgree
  <2>3. thrown' = thrown
    BY <1>2, <2>2 DEF OutputsEnd, SelfTransfer, Continue
  <2>. QED
    BY <2>3 DEF AssertionsHold
<1>3. CASE \E secure_only \in BOOLEAN : SignComplete(secure_only)
  <2>1. ~(Len(Screens) > MAX_SCREEN_COUNT)
    BY ScreensFit
  <2>2. thrown' \in {"no", "PARSE_ERROR", "SECURITY", "REJECT"}
    BY <1>3, <2>1 DEF SignComplete, Refuse
  <2>. QED
    BY <2>2 DEF AssertionsHold
<1>4. CASE RefuseNextApdu \/ PathsRefused
  BY <1>4 DEF RefuseNextApdu, PathsRefused, Refuse, AssertionsHold
<1>5. CASE \/ SwitchContractData \/ Done \/ UNCHANGED vars
  BY <1>5 DEF AssertionsHold, SwitchContractData, Done, vars
<1>6. CASE \/ \E change \in ChangeHashes, n, declared \in 0 .. MaxIns :
                SetPaths(change, n, declared)
           \/ \E c \in InCells : StartInput(c)
           \/ \E c \in OutCells : StartOutput(c)
           \/ \E c \in OutCells : OutputData(c)
           \/ \E n \in 1 .. Len(cell.args) : ScriptArgChunk(n)
  BY <1>6 DEF AssertionsHold, SetPaths, StartInput, StartOutput, OutputData,
     ScriptArgChunk
<1>7. CASE \/ InputNotFound \/ InputLockArgEnd \/ InputData \/ FinishInputs
           \/ FinalizeRawTransaction
  BY <1>7 DEF AssertionsHold, InputNotFound, InputLockArgEnd, InputData,
     FinishInputs, FinalizeRawTransaction
<1>. QED
  BY <1>1, <1>2, <1>3, <1>4, <1>5, <1>6, <1>7 DEF Next

\* clear_data leaves flags and output_count in agreement.
LEMMA FlagsInit == Init => FlagsAgree /\ AssertionsHold
BY DEF Init, FlagsAgree, AssertionsHold

\* Every field of the sign state keeps its type in every transaction: no amount
\* leaves 64 bits and no index its array, for any bounds and any cells.
THEOREM TypeCorrect == Spec => []TypeOK
<1>1. Init => TypeOK /\ FlagsAgree
  BY InitType, FlagsInit
<1>2. TypeOK /\ FlagsAgree /\ [Next]_vars => (TypeOK /\ FlagsAgree)'
  BY TypeStep, FlagsStep
<1>. QED
  BY <1>1, <1>2, PTL DEF Spec

\* The checks of output_end, outputs_end and ui_prompt_with_cb that throw
\* EXC_MEMORY_ERROR or EXC_WRONG_PARAM never fail, whatever cells the host sends
\* and however many REJECTs returned early before.
THEOREM AssertionsCorrect == Spec => []AssertionsHold
<1>1. Init => TypeOK /\ FlagsAgree /\ AssertionsHold
  BY InitType, FlagsInit
<1>2. TypeOK /\ FlagsAgree /\ AssertionsHold /\ [Next]_vars
        => (TypeOK /\ FlagsAgree /\ AssertionsHold)'
  BY TypeStep, FlagsStep, AssertionsStep
<1>. QED
  BY <1>1, <1>2, PTL DEF Spec

-----------------------------------------------------------------------------
(* The fee on the screen *)

\* The order in which capacities are added does not matter modulo 2^64.
LEMMA AddWSwap ==
  ASSUME NEW a \in Amount, NEW b \in Amount, NEW c \in Amount
  PROVE  /\ AddW(AddW(a, c), b) = AddW(AddW(a, b), c)
         /\ AddW(a, AddW(b, c)) = AddW(AddW(a, b), c)
BY BoundsAssumption DEF AddW, Amount

\* outputs_end may take the change for the payment: the sum stays.
LEMMA AddWZero ==
  ASSUME NEW a \in Amount, NEW b \in Amount
  PROVE  AddW(AddW(a, b), 0) = AddW(AddW(0, b), a)
BY BoundsAssumption DEF AddW, Amount

\* From its start to its end the state of a cell holds the cell's capacity.
CapacityKept ==
  pc \in {"in_args", "in_data", "out_args"} => cell_state.capacity = cell.cap

\* Unless the transaction was refused, the amounts kept by kind of cell add up
\* to the capacity of all inputs and of all outputs.
Balance ==
  ~unsafe =>
    /\ AddW(input_snd, dao_input_amount) = total_in
    /\ AddW(AddW(plain_output_amount, dao_output_amount), change_amount) = total_out

\* The fee that the screens of the present tag must show.
DueFee == IF tag = WITHDRAW THEN SubW(0, SubW(total_in, total_out))
                            ELSE SubW(total_in, total_out)

\* The fee is right from finalize_raw_transaction on, and the prompt comes last.
FeeKept ==
  /\ pc = "witnesses" /\ ~unsafe => v.total_fee = DueFee
  /\ Prompted => pc = "end" /\ v.total_fee = DueFee

\* Every step keeps CapacityKept: cell_state holds the capacity of the cell.
LEMMA CapacityStep ==
  TypeOK /\ CapacityKept /\ [Next]_vars => CapacityKept'
<1> SUFFICES ASSUME TypeOK, CapacityKept, [Next]_vars PROVE CapacityKept' OBVIOUS
<1>1. cell_state \in CellState
  BY DEF TypeOK, CellState
<1>2. CASE \E c \in InCells : StartInput(c)
  BY <1>2 DEF CapacityKept, StartInput, StartedCellState, ZeroCellState
<1>3. CASE \E c \in OutCells : StartOutput(c)
  BY <1>3 DEF CapacityKept, StartOutput, StartedCellState, ZeroCellState
<1>4. CASE \E n \in 1 .. Len(cell.args) : ScriptArgChunk(n)
  BY <1>1, <1>4 DEF CapacityKept, ScriptArgChunk, CellState
<1>5. CASE InputLockArgEnd
  BY <1>1, <1>5 DEF CapacityKept, InputLockArgEnd, CellState
<1>6. CASE \/ InputData \/ FinishInputs \/ OutputEnd \/ OutputsEnd
           \/ FinalizeRawTransaction \/ RefuseNextApdu \/ PathsRefused
           \/ \E secure_only \in BOOLEAN : SignComplete(secure_only)
           \/ \E c \in OutCells : OutputData(c)
           \/ \E change \in ChangeHashes, n, declared \in 0 .. MaxIns :
                SetPaths(change, n, declared)
           \/ InputNotFound
  <2>1. pc' \in {"ins", "outs", "data", "witnesses", "end"}
    BY <1>6 DEF InputData, FinishInputs, OutputEnd, OutputsEnd, SelfTransfer,
       DaoOutput, DestinationOutput, FirstDestination, CoalescedDestination,
       FurtherDestination, ChangeOutput, Continue, Throw, FinalizeRawTransaction,
       RefuseNextApdu, PathsRefused, SignComplete, OutputData, SetPaths, InputNotFound
  <2>. QED
    BY <2>1 DEF CapacityKept
<1>7. CASE \/ SwitchContractData \/ Done \/ UNCHANGED vars
  BY <1>7 DEF CapacityKept, SwitchContractData, Done, vars
<1>. QED
  BY <1>2, <1>3, <1>4, <1>5, <1>6, <1>7 DEF Next

\* Every step keeps Balance: an early return that skips an amount sets unsafe.
LEMMA BalanceStep ==
  TypeOK /\ FlagsAgree /\ CapacityKept /\ Balance /\ [Next]_vars => Balance'
<1> SUFFICES ASSUME TypeOK, FlagsAgree, CapacityKept, Balance, [Next]_vars, ~unsafe'
             PROVE  /\ AddW(input_snd', dao_input_amount') = total_in'
                    /\ AddW(AddW(plain_output_amount', dao_output_amount'),
                            change_amount') = total_out'
  BY DEF Balance
<1>1. /\ input_snd \in Amount /\ dao_input_amount \in Amount
      /\ plain_output_amount \in Amount /\ dao_output_amount \in Amount
      /\ change_amount \in Amount /\ unsafe \in BOOLEAN
      /\ cell_state.capacity \in Amount /\ output_count \in 0 .. MAX_OUTPUTS
  BY DEF TypeOK
<1>2. AddW(plain_output_amount, dao_output_amount) \in Amount
  BY <1>1, AddWType
<1>3. CASE InputData
  <2>1. cell_state.capacity = cell.cap
    BY <1>3 DEF InputData, CapacityKept
  <2>2. total_in' = AddW(total_in, cell_state.capacity)
    BY <1>3, <2>1 DEF InputData
  <2>3. AddW(input_snd', dao_input_amount') = total_in'
    <3>1. CASE \E size, nonzero : DaoInputData(size, nonzero)
      <4>1. /\ ~unsafe /\ input_snd' = input_snd
            /\ dao_input_amount' = AddW(dao_input_amount, cell_state.capacity)
        BY <3>1 DEF DaoInputData, SetDaoTag
      <4>. QED
        BY <1>1, <2>2, <4>1, AddWSwap DEF Balance
    <3>2. CASE \E size : PlainInputData(size)
      <4>1. /\ ~unsafe /\ dao_input_amount' = dao_input_amount
            /\ input_snd' = AddW(input_snd, cell_state.capacity)
        BY <3>2 DEF PlainInputData
      <4>. QED
        BY <1>1, <2>2, <4>1, AddWSwap DEF Balance
    <3>. QED
      BY <1>3, <3>1, <3>2 DEF InputData
  <2>4. ~unsafe
    BY <1>3 DEF InputData, DaoInputData, SetDaoTag, PlainInputData
  <2>. QED
    BY <1>3, <2>3, <2>4 DEF InputData, Balance
<1>4. CASE OutputEnd
  <2>1. cell_state.capacity = cell.cap
    BY <1>4 DEF OutputEnd, CapacityKept
  <2>2. total_out' = AddW(total_out, cell_state.capacity)
    BY <1>4, <2>1 DEF OutputEnd
  <2>3. AddW(AddW(plain_output_amount', dao_output_amount'), change_amount') = total_out'
    <3>1. CASE DaoOutput
      <4>1. /\ ~unsafe /\ plain_output_amount' = plain_output_amount
            /\ dao_output_amount' = AddW(dao_output_amount, cell_state.capacity)
            /\ change_amount' = change_amount
        BY <3>1 DEF DaoOutput
      <4>. QED
        BY <1>1, <1>2, <2>2, <4>1, AddWSwap DEF Balance
    <3>2. CASE ChangeOutput
      <4>1. /\ ~unsafe /\ plain_output_amount' = plain_output_amount
            /\ dao_output_amount' = dao_output_amount
            /\ change_amount' = AddW(change_amount, cell_state.capacity)
        BY <3>2 DEF ChangeOutput
      <4>. QED
        BY <1>1, <1>2, <2>2, <4>1, AddWSwap DEF Balance
    <3>3. CASE DestinationOutput
      <4>1. DEST \notin flags => output_count = 0
        BY <1>1, <1>4 DEF OutputEnd, FlagsAgree
      <4>2. /\ ~unsafe /\ dao_output_amount' = dao_output_amount
            /\ plain_output_amount' = AddW(plain_output_amount, cell_state.capacity)
            /\ change_amount' = change_amount
        BY <3>3, <4>1 DEF DestinationOutput, FirstDestination,
           CoalescedDestination, FurtherDestination, Credit
      <4>. QED
        BY <1>1, <1>2, <2>2, <4>2, AddWSwap DEF Balance
    <3>. QED
      BY <1>4, <3>1, <3>2, <3>3 DEF OutputEnd
  <2>4. CASE unsafe = FALSE
    BY <1>4, <2>3, <2>4 DEF OutputEnd, Balance
  <2>5. ~unsafe
    BY <1>4, <1>1 DEF OutputEnd, DaoOutput, ChangeOutput, DestinationOutput,
       FirstDestination, CoalescedDestination, FurtherDestination
  <2>. QED
    BY <1>1, <2>4, <2>5
<1>5. CASE OutputsEnd
  <2>1. ~unsafe /\ UNCHANGED <<input_snd, dao_input_amount, total_in, total_out,
                               dao_output_amount>>
    BY <1>5 DEF OutputsEnd
  <2>2. CASE SelfTransfer /\ plain_output_amount = 0 /\ output_count = 0
    <3>1. plain_output_amount' = change_amount /\ change_amount' = 0
      BY <2>2 DEF SelfTransfer
    <3>. QED
      BY <1>1, <2>1, <2>2, <3>1, AddWZero DEF Balance
  <2>3. CASE UNCHANGED <<plain_output_amount, change_amount>>
    BY <2>1, <2>3 DEF Balance
  <2>. QED
    BY <1>5, <2>2, <2>3 DEF OutputsEnd, SelfTransfer
<1>6. CASE \/ \E change \in ChangeHashes, n, declared \in 0 .. MaxIns :
                SetPaths(change, n, declared)
           \/ \E c \in InCells : StartInput(c)
           \/ \E c \in OutCells : StartOutput(c)
           \/ \E n \in 1 .. Len(cell.args) : ScriptArgChunk(n)
           \/ \E secure_only \in BOOLEAN : SignComplete(secure_only)
  BY <1>6 DEF Balance, SetPaths, StartInput, StartOutput, ScriptArgChunk, SignComplete
<1>7. CASE \E c \in OutCells : OutputData(c)
  BY <1>7 DEF Balance, OutputData, DaoOutputData, PlainOutputData, SetDaoTag
<1>8. CASE \/ InputNotFound \/ InputLockArgEnd \/ FinishInputs
           \/ FinalizeRawTransaction \/ RefuseNextApdu \/ PathsRefused
           \/ SwitchContractData \/ Done \/ UNCHANGED vars
  BY <1>8 DEF Balance, InputNotFound, InputLockArgEnd, FinishInputs,
     FinalizeRawTransaction, RefuseNextApdu, PathsRefused, SwitchContractData, Done, vars
<1>. QED
  BY <1>3, <1>4, <1>5, <1>6, <1>7, <1>8 DEF Next

\* Every step keeps FeeKept: finalize_raw_transaction stores the fee that is due.
LEMMA FeeStep ==
  TypeOK /\ FlagsAgree /\ Balance /\ FeeKept /\ [Next]_vars => FeeKept'
<1> SUFFICES ASSUME TypeOK, Balance, FeeKept, [Next]_vars PROVE FeeKept' OBVIOUS
<1>1. CASE FinalizeRawTransaction
  <2>1. /\ pc = "data" /\ pc' = "witnesses" /\ screens' = screens
        /\ unsafe' = (unsafe \/ FinalizeRejects) /\ tag' = FinalTag
        /\ total_in' = total_in /\ total_out' = total_out
        /\ ~FinalizeRejects => v' = FinalV
    BY <1>1 DEF FinalizeRawTransaction
  <2>2. screens = <<>>
    BY <2>1 DEF FeeKept, Prompted
  <2>3. ASSUME ~unsafe' PROVE v'.total_fee = DueFee'
    <3>0. ~unsafe /\ ~FinalizeRejects
      BY <2>1, <2>3, Zenon
    <3>1. ~unsafe /\ v'.total_fee = ShownFee
      <4>1. FinalV.total_fee = ShownFee
        BY DEF FinalV
      <4>. QED
        BY <2>1, <3>0, <4>1
    <3>2. Fee = SubW(total_in, total_out)
      BY <3>1 DEF Balance, Fee
    <3>3. (tag' = WITHDRAW) <=> (tag = WITHDRAW)
      BY <2>1 DEF FinalTag, Transfers, WITHDRAW, NOT_SET, PLAIN, SELF, MULTI_INPUT
    <3>. QED
      BY <2>1, <3>1, <3>2, <3>3 DEF ShownFee, DueFee
  <2>. QED
    BY <2>1, <2>2, <2>3 DEF FeeKept, Prompted
<1>2. CASE \E secure_only \in BOOLEAN : SignComplete(secure_only)
  <2>1. /\ pc = "witnesses" /\ pc' = "end"
        /\ v' = v /\ total_in' = total_in /\ total_out' = total_out
    BY <1>2 DEF SignComplete
  <2>2. screens = <<>>
    BY <2>1 DEF FeeKept, Prompted
  <2>3. ASSUME screens' # <<>> PROVE tag' = tag /\ ~unsafe
    BY <1>2, <2>2, <2>3 DEF SignComplete, Refuse
  <2>. QED
    BY <2>1, <2>3 DEF FeeKept, Prompted, DueFee
<1>3. CASE RefuseNextApdu \/ PathsRefused
  BY <1>3 DEF RefuseNextApdu, PathsRefused, Refuse, FeeKept, Prompted
<1>4. CASE SwitchContractData \/ Done \/ UNCHANGED vars
  BY <1>4 DEF SwitchContractData, Done, vars, FeeKept, Prompted, DueFee
<1>5. CASE pc \notin {"witnesses", "end"} /\ pc' # "witnesses" /\ screens' = screens
  BY <1>5 DEF FeeKept, Prompted
<1>6. CASE \/ \E change \in ChangeHashes, n, declared \in 0 .. MaxIns :
                SetPaths(change, n, declared)
           \/ \E c \in InCells : StartInput(c)
           \/ \E c \in OutCells : StartOutput(c)
           \/ \E c \in OutCells : OutputData(c)
           \/ \E n \in 1 .. Len(cell.args) : ScriptArgChunk(n)
           \/ InputNotFound \/ InputLockArgEnd \/ InputData \/ FinishInputs
  BY <1>5, <1>6 DEF SetPaths, StartInput, StartOutput, OutputData, ScriptArgChunk,
     InputNotFound, InputLockArgEnd, InputData, FinishInputs
<1>7. CASE OutputEnd \/ OutputsEnd
  BY <1>5, <1>7 DEF OutputEnd, OutputsEnd, SelfTransfer, DaoOutput,
     DestinationOutput, FirstDestination, CoalescedDestination,
     FurtherDestination, ChangeOutput, Continue, Throw
<1>. QED
  BY <1>1, <1>2, <1>3, <1>4, <1>6, <1>7 DEF Next

\* The inductive invariant behind the fee.
FeeInv == TypeOK /\ FlagsAgree /\ CapacityKept /\ Balance /\ FeeKept

\* The fee a prompt shows is the capacity of all inputs minus that of all
\* outputs modulo 2^64 (negated for a withdrawal), for any number of cells of
\* any kind: no path through the callbacks drops or counts a cell twice.
THEOREM FeeCorrect == Spec => []FeeIsInputsMinusOutputs
<1>1. Init => FeeInv
  <2> SUFFICES ASSUME Init PROVE FeeInv OBVIOUS
  <2>1. AddW(0, 0) = 0
    BY BoundsAssumption DEF AddW
  <2>2. TypeOK /\ FlagsAgree
    BY InitType, FlagsInit
  <2>. QED
    BY <2>1, <2>2 DEF Init, FeeInv, CapacityKept, Balance, FeeKept, Prompted
<1>2. FeeInv /\ [Next]_vars => FeeInv'
  BY TypeStep, FlagsStep, CapacityStep, BalanceStep, FeeStep DEF FeeInv
<1>3. FeeInv => FeeIsInputsMinusOutputs
  BY DEF FeeInv, FeeKept, DueFee, FeeIsInputsMinusOutputs
<1>. QED
  BY <1>1, <1>2, <1>3, PTL DEF Spec

-----------------------------------------------------------------------------
(* Lock arguments in chunks *)

\* A lock argument that still fits has been received as far as it was sent.
ReceivedSoFar ==
  pc \in {"in_args", "out_args"} /\ sent <= ARG =>
    /\ cell_state.lock_arg_index = sent
    /\ lock_arg_tmp = [k \in 1 .. ARG |-> IF k <= sent THEN cell.args[k] ELSE 0]
    /\ cell_state.lock_arg_nonequal <=>
         \E k \in 1 .. sent : LockArgCmp(k) # cell.args[k]

\* One more chunk.
LEMMA ChunkReceived ==
  ASSUME TypeOK, ReceivedSoFar, NEW n \in 1 .. Len(cell.args), ScriptArgChunk(n)
  PROVE  ReceivedSoFar'
<1> SUFFICES ASSUME sent' <= ARG
             PROVE  /\ cell_state'.lock_arg_index = sent'
                    /\ lock_arg_tmp' = [k \in 1 .. ARG |->
                          IF k <= sent' THEN cell.args[k] ELSE 0]
                    /\ cell_state'.lock_arg_nonequal <=>
                         \E k \in 1 .. sent' : LockArgCmp(k) # cell.args[k]
  BY DEF ReceivedSoFar, ScriptArgChunk, LockArgCmp
<1>1. cell.args \in Seq(UNIT) /\ ARG \in Nat /\ sent \in Nat /\ n \in Nat \ {0}
  BY CellFields, BoundsAssumption DEF TypeOK
<1>2. sent' = sent + n /\ pc \in {"in_args", "out_args"}
  BY DEF ScriptArgChunk
<1>3. cell_state.lock_arg_index = sent /\ ~Overlong(n)
  BY <1>1, <1>2 DEF ReceivedSoFar, Overlong
<1>4. lock_arg_tmp' = [k \in 1 .. ARG |->
         IF k \in sent + 1 .. sent + n THEN cell.args[sent + k - sent]
                                       ELSE lock_arg_tmp[k]]
  BY <1>3 DEF ScriptArgChunk
<1>5. lock_arg_tmp = [k \in 1 .. ARG |-> IF k <= sent THEN cell.args[k] ELSE 0]
  BY <1>1, <1>2 DEF ReceivedSoFar
<1>6. \A k \in sent + 1 .. sent + n : sent + k - sent = k
  BY <1>1
<1>7. lock_arg_tmp' = [k \in 1 .. ARG |-> IF k <= sent' THEN cell.args[k] ELSE 0]
  BY <1>1, <1>2, <1>4, <1>5, <1>6
<1> DEFINE differs == \E k \in sent + 1 .. sent + n :
             LockArgCmp(k) # cell.args[sent + k - sent]
<1>8. cell_state' = [cell_state EXCEPT
        !.lock_arg_index = sent + n,
        !.lock_arg_nonequal = cell_state.lock_arg_nonequal \/ differs]
  BY <1>3 DEF ScriptArgChunk
<1>9. /\ cell_state'.lock_arg_index = sent + n
      /\ cell_state'.lock_arg_nonequal = (cell_state.lock_arg_nonequal \/ differs)
  <2>1. cell_state \in CellState
    BY DEF TypeOK, CellState
  <2> HIDE DEF differs
  <2>. QED
    BY <1>8, <2>1 DEF CellState
<1>10. differs <=> \E k \in sent + 1 .. sent + n : LockArgCmp(k) # cell.args[k]
  BY <1>6
<1>11. cell_state.lock_arg_nonequal <=>
         \E k \in 1 .. sent : LockArgCmp(k) # cell.args[k]
  BY <1>1, <1>2 DEF ReceivedSoFar
<1>12. \A k : k \in 1 .. sent + n <=> k \in 1 .. sent \/ k \in sent + 1 .. sent + n
  BY <1>1
<1> HIDE DEF differs
<1>. QED
  BY <1>2, <1>7, <1>9, <1>10, <1>11, <1>12

\* Every step keeps ReceivedSoFar.
LEMMA ReceivedStep == TypeOK /\ ReceivedSoFar /\ [Next]_vars => ReceivedSoFar'
<1> SUFFICES ASSUME TypeOK, ReceivedSoFar, [Next]_vars PROVE ReceivedSoFar' OBVIOUS
<1>1. CASE \E n \in 1 .. Len(cell.args) : ScriptArgChunk(n)
  BY <1>1, ChunkReceived
<1>2. CASE \/ \E c \in InCells : StartInput(c)
           \/ \E c \in OutCells : StartOutput(c)
  <2>1. PICK c : cell_state' = StartedCellState(c) /\ lock_arg_tmp' = ZeroArg /\ sent' = 0
    BY <1>2 DEF StartInput, StartOutput
  <2>2. cell_state'.lock_arg_index = 0 /\ cell_state'.lock_arg_nonequal = FALSE
    BY <2>1 DEF StartedCellState, ZeroCellState
  <2>3. \A k \in 1 .. ARG : ~(k <= 0)
    BY BoundsAssumption
  <2>. QED
    BY <2>1, <2>2, <2>3 DEF ReceivedSoFar, ZeroArg
<1>3. CASE pc' \notin {"in_args", "out_args"}
  BY <1>3 DEF ReceivedSoFar
<1>4. CASE SwitchContractData \/ Done \/ UNCHANGED vars
  BY <1>4 DEF SwitchContractData, Done, vars, ReceivedSoFar, LockArgCmp
<1>5. CASE \/ InputData \/ FinishInputs \/ OutputEnd \/ OutputsEnd
           \/ FinalizeRawTransaction \/ RefuseNextApdu \/ PathsRefused \/ InputLockArgEnd
           \/ \E secure_only \in BOOLEAN : SignComplete(secure_only)
           \/ \E c \in OutCells : OutputData(c)
           \/ \E change \in ChangeHashes, n, declared \in 0 .. MaxIns :
                SetPaths(change, n, declared)
           \/ InputNotFound
  <2>1. pc' \in {"ins", "in_data", "outs", "data", "witnesses", "end"}
    BY <1>5 DEF InputData, FinishInputs, OutputEnd, OutputsEnd, SelfTransfer,
       DaoOutput, DestinationOutput, FirstDestination, CoalescedDestination,
       FurtherDestination, ChangeOutput, Continue, Throw, FinalizeRawTransaction,
       RefuseNextApdu, PathsRefused, SignComplete, OutputData, SetPaths, InputNotFound,
       InputLockArgEnd
  <2>. QED
    BY <1>3, <2>1
<1>. QED
  BY <1>1, <1>2, <1>4, <1>5 DEF Next

\* However the host cuts a lock argument into chunks, script_arg_chunk stores it
\* and compares it as it would in one piece, for every length up to 28 bytes.
THEOREM LockArgCorrect == Spec => []LockArgReceived
<1>1. Init => TypeOK /\ FlagsAgree /\ ReceivedSoFar
  BY InitType, FlagsInit DEF Init, ReceivedSoFar
<1>2. TypeOK /\ FlagsAgree /\ ReceivedSoFar /\ [Next]_vars
        => (TypeOK /\ FlagsAgree /\ ReceivedSoFar)'
  BY TypeStep, FlagsStep, ReceivedStep
<1>3. ReceivedSoFar => LockArgReceived
  BY DEF ReceivedSoFar, LockArgReceived
<1>. QED
  BY <1>1, <1>2, <1>3, PTL DEF Spec

-----------------------------------------------------------------------------
(* The order of the callbacks, and the setting "Allow contract data" *)

Early == {"paths", "ins", "in_args", "in_data", "outs", "out_args"}
OfCell == {"in_args", "in_data", "out_args"}

\* The order of the callbacks: outputs come after inputs, their data after all
\* of them, and the prompt last.
Phase ==
  /\ pc \in Early => checked = 0 /\ is_self_transfer = FALSE
  /\ pc \in {"paths", "ins", "in_args", "in_data"} => outs = <<>>
  /\ pc = "paths" => ins = <<>>
  /\ pc \in Early => tag \in {NOT_SET, MULTI_OUTPUT, PREPARE, WITHDRAW}
  /\ pc = "data" => tag \in {NOT_SET, MULTI_OUTPUT, DEPOSIT, PREPARE, WITHDRAW}
  /\ Prompted => pc = "end" /\ ~unsafe /\ screens = Screens

\* cell_state describes the cell from its start to its end.
CellKept ==
  /\ pc \in OfCell =>
       /\ cell \in InCells \cup OutCells
       /\ cell_state.is_multisig <=> cell.lock = "multisig"
       /\ cell_state.dao_data_is_nonzero = FALSE
  /\ pc = "in_data" => (cell_state.is_dao <=> IsDao(cell))

\* The mask of DAO outputs is exact as long as 1<<index has no carry to it.
Mask ==
  Len(outs) <= INT_WIDTH =>
    \A k \in 0 .. INT_WIDTH - 1 :
      k \in dao_bitmask <=> k < Len(outs) /\ IsDao(outs[k + 1])

LockStandard(c) == c.lock # "other" /\ c.lock_ht
TypeStandard(c) == c.type # "other" /\ (c.type = "dao" => c.type_ht /\ ~c.targs)
DataStandard(c) == (c.type = "dao" => c.size = 8) /\ (c.type = "none" => c.size = 0)

\* What was checked so far of the cells is standard.
Clean ==
  /\ \A i \in 1 .. Len(ins) : Standard(ins[i])
  /\ \A i \in 1 .. Len(outs) : LockStandard(outs[i]) /\ TypeStandard(outs[i])
  /\ pc \in OfCell => LockStandard(cell)
  /\ pc = "in_data" => TypeStandard(cell)
  /\ Len(outs) <= INT_WIDTH =>
       \A i \in 1 .. Len(outs) : i <= checked => DataStandard(outs[i])

\* With the setting off, a transaction is clean or refused.
Gate == (setting => allowed) /\ (~unsafe /\ ~allowed => Clean)

-----------------------------------------------------------------------------
(* The order of the callbacks *)

\* output_end goes on with the outputs: its exception is never thrown.
LEMMA OutputEndContinues ==
  ASSUME TypeOK, FlagsAgree, OutputEnd
  PROVE  pc = "out_args" /\ pc' = "outs" /\ thrown' = thrown
<1>1. pc = "out_args" /\ output_count \in 0 .. MAX_OUTPUTS
  BY DEF OutputEnd, TypeOK
<1>. QED
  BY <1>1 DEF OutputEnd, DaoOutput, ChangeOutput, DestinationOutput,
     FirstDestination, CoalescedDestination, FurtherDestination, FlagsAgree, Continue

\* outputs_end goes on with the data.
LEMMA OutputsEndContinues ==
  ASSUME TypeOK, FlagsAgree, OutputsEnd
  PROVE  /\ pc = "outs" /\ pc' = "data"
         /\ ~DaoSoFar /\ AllChange => plain_output_amount = 0 /\ output_count = 0
<1>1. pc = "outs" /\ output_count \in 0 .. MAX_OUTPUTS
  BY DEF OutputsEnd, TypeOK
<1>2. AllChange => plain_output_amount = 0 /\ output_count = 0
  BY <1>1 DEF AllChange, FlagsAgree
<1>. QED
  BY <1>1, <1>2 DEF OutputsEnd, SelfTransfer, Continue

\* Unless the transaction ends, output_end keeps or sets these tags.
LEMMA OutputEndTag ==
  ASSUME OutputEnd
  PROVE  tag' = tag \/ (tag \in {NOT_SET, MULTI_OUTPUT} /\ tag' = MULTI_OUTPUT)
BY DEF OutputEnd, DaoOutput, ChangeOutput, DestinationOutput, FirstDestination,
   CoalescedDestination, FurtherDestination, TagRefusesOutput

\* Every step keeps Phase.
LEMMA PhaseStep == TypeOK /\ FlagsAgree /\ Phase /\ [Next]_vars => Phase'
<1> SUFFICES ASSUME TypeOK, FlagsAgree, Phase, [Next]_vars PROVE Phase' OBVIOUS
<1>1. CASE OutputEnd
  <2>1. pc = "out_args" /\ pc' = "outs" /\ screens' = screens
        /\ checked' = checked /\ is_self_transfer' = is_self_transfer
    BY <1>1, OutputEndContinues DEF OutputEnd
  <2>. QED
    BY <1>1, <2>1, OutputEndTag DEF Phase, Early, Prompted
<1>2. CASE OutputsEnd
  BY <1>2, OutputsEndContinues DEF Phase, Early, Prompted, OutputsEnd
<1>3. CASE \E c \in OutCells : OutputData(c)
  <2>1. pc = "data" /\ pc' = "data" /\ screens' = screens
        /\ tag' \in {tag, DEPOSIT, PREPARE}
    BY <1>3 DEF OutputData, DaoOutputData, PlainOutputData, SetDaoTag
  <2>. QED
    BY <2>1 DEF Phase, Early, Prompted
<1>4. CASE FinalizeRawTransaction
  BY <1>4 DEF FinalizeRawTransaction, Phase, Early, Prompted
<1>5. CASE \E secure_only \in BOOLEAN : SignComplete(secure_only)
  <2>1. pc = "witnesses" /\ pc' = "end" /\ screens = <<>>
    BY <1>5 DEF SignComplete, Phase, Prompted
  <2>2. ASSUME screens' # <<>> PROVE ~unsafe' /\ screens' = Screens'
    <3>1. ~unsafe /\ unsafe' = unsafe /\ screens' = Screens /\ tag' = tag
      BY <1>5, <2>1, <2>2 DEF SignComplete, Refuse
    <3>2. UNCHANGED <<v, outputs, output_count, setting, contract_type,
                      dao_cell_owner, current_lock_arg, input_index>>
      BY <1>5 DEF SignComplete
    <3>3. Screens' = Screens
      BY <3>1, <3>2 DEF Screens, Screen, OutputAddress, Address, SighashAddress
    <3>. QED
      BY <3>1, <3>3
  <2>. QED
    BY <2>1, <2>2 DEF Phase, Early, Prompted
<1>6. CASE RefuseNextApdu \/ PathsRefused
  BY <1>6 DEF RefuseNextApdu, PathsRefused, Refuse, Phase, Early, Prompted
<1>7. CASE SwitchContractData
  BY <1>7 DEF SwitchContractData, Phase, Early, Prompted
<1>8. CASE Done \/ UNCHANGED vars
  <2>1. UNCHANGED vars
    BY <1>8 DEF Done
  <2>2. Screens' = Screens
    BY <2>1 DEF vars, Screens, Screen, OutputAddress, Address, SighashAddress
  <2>. QED
    BY <2>1, <2>2 DEF vars, Phase, Prompted
<1>9. CASE \/ \E change \in ChangeHashes, n, declared \in 0 .. MaxIns :
                SetPaths(change, n, declared)
           \/ \E c \in InCells : StartInput(c)
           \/ \E c \in OutCells : StartOutput(c)
           \/ \E n \in 1 .. Len(cell.args) : ScriptArgChunk(n)
           \/ InputNotFound \/ InputLockArgEnd \/ FinishInputs
  BY <1>9 DEF Phase, Early, Prompted, SetPaths, StartInput, StartOutput,
     ScriptArgChunk, InputNotFound, InputLockArgEnd, FinishInputs
<1>10. CASE InputData
  <2>1. pc = "in_data" /\ pc' = "ins" /\ screens' = screens
        /\ tag' \in {tag, WITHDRAW, PREPARE}
    BY <1>10 DEF InputData, DaoInputData, PlainInputData, SetDaoTag
  <2>. QED
    BY <1>10, <2>1 DEF InputData, Phase, Early, Prompted
<1>. QED
  BY <1>1, <1>2, <1>3, <1>4, <1>5, <1>6, <1>7, <1>8, <1>9, <1>10 DEF Next

\* The cell that is started is the cell that is described.
LEMMA CellStarted ==
  ASSUME NEW c \in InCells \cup OutCells, cell' = c, cell_state' = StartedCellState(c)
  PROVE  /\ cell' \in InCells \cup OutCells
         /\ cell_state'.is_multisig <=> cell'.lock = "multisig"
         /\ cell_state'.dao_data_is_nonzero = FALSE
BY DEF StartedCellState, ZeroCellState

\* The places of the parser after the actions that end a cell or come later.
LEMMA LeavesCell ==
  ASSUME \/ InputData \/ FinishInputs \/ OutputEnd \/ OutputsEnd
         \/ FinalizeRawTransaction \/ RefuseNextApdu \/ PathsRefused
         \/ \E secure_only \in BOOLEAN : SignComplete(secure_only)
         \/ \E c \in OutCells : OutputData(c)
         \/ \E change \in ChangeHashes, n, declared \in 0 .. MaxIns :
              SetPaths(change, n, declared)
         \/ InputNotFound
  PROVE  pc' \in {"ins", "outs", "data", "witnesses", "end"}
BY DEF InputData, FinishInputs, OutputEnd, OutputsEnd, SelfTransfer,
   DaoOutput, DestinationOutput, FirstDestination, CoalescedDestination,
   FurtherDestination, ChangeOutput, Continue, Throw, FinalizeRawTransaction,
   RefuseNextApdu, PathsRefused, SignComplete, OutputData, SetPaths, InputNotFound

\* Every step keeps CellKept.
LEMMA CellKeptStep == TypeOK /\ CellKept /\ [Next]_vars => CellKept'
<1> SUFFICES ASSUME TypeOK, CellKept, [Next]_vars PROVE CellKept' OBVIOUS
<1>1. cell_state \in CellState
  BY DEF TypeOK, CellState
<1>2. CASE \E c \in InCells : StartInput(c)
  BY <1>2, CellStarted DEF CellKept, StartInput
<1>3. CASE \E c \in OutCells : StartOutput(c)
  BY <1>3, CellStarted DEF CellKept, StartOutput
<1>4. CASE \E n \in 1 .. Len(cell.args) : ScriptArgChunk(n)
  <2>1. /\ cell_state'.is_multisig = cell_state.is_multisig
        /\ cell_state'.dao_data_is_nonzero = cell_state.dao_data_is_nonzero
        /\ cell' = cell /\ pc' = pc /\ pc # "in_data"
    BY <1>1, <1>4 DEF ScriptArgChunk, CellState
  <2>. QED
    BY <2>1 DEF CellKept
<1>5. CASE InputLockArgEnd
  <2> DEFINE d == cell.type = "dao"
  <2>1. cell_state' = [cell_state EXCEPT !.is_dao = d]
        /\ cell' = cell /\ pc = "in_args" /\ pc' = "in_data"
    BY <1>5 DEF InputLockArgEnd
  <2> HIDE DEF d
  <2>2. /\ cell_state'.is_multisig = cell_state.is_multisig
        /\ cell_state'.dao_data_is_nonzero = cell_state.dao_data_is_nonzero
        /\ cell_state'.is_dao = d
    BY <1>1, <2>1 DEF CellState
  <2>. QED
    BY <2>1, <2>2 DEF CellKept, OfCell, IsDao, d
<1>6. CASE \/ InputData \/ FinishInputs \/ OutputEnd \/ OutputsEnd
           \/ FinalizeRawTransaction \/ RefuseNextApdu \/ PathsRefused
           \/ \E secure_only \in BOOLEAN : SignComplete(secure_only)
           \/ \E c \in OutCells : OutputData(c)
           \/ \E change \in ChangeHashes, n, declared \in 0 .. MaxIns :
                SetPaths(change, n, declared)
           \/ InputNotFound
  BY <1>6, LeavesCell DEF CellKept, OfCell
<1>7. CASE SwitchContractData \/ Done \/ UNCHANGED vars
  BY <1>7 DEF SwitchContractData, Done, vars, CellKept
<1>. QED
  BY <1>2, <1>3, <1>4, <1>5, <1>6, <1>7 DEF Next

-----------------------------------------------------------------------------
(* What an action may change *)

\* A transaction that was refused stays refused, and the setting is remembered.
LEMMA RefusedStays ==
  ASSUME TypeOK, [Next]_vars
  PROVE  (unsafe => unsafe') /\ (allowed => allowed')
<1>1. unsafe \in BOOLEAN /\ allowed \in BOOLEAN
  BY DEF TypeOK
<1>2. CASE OutputEnd
  BY <1>1, <1>2 DEF OutputEnd, DaoOutput, ChangeOutput, DestinationOutput,
     FirstDestination, CoalescedDestination, FurtherDestination
<1>3. CASE InputData
  BY <1>1, <1>3 DEF InputData, DaoInputData, PlainInputData, SetDaoTag
<1>4. CASE \E c \in OutCells : OutputData(c)
  BY <1>1, <1>4 DEF OutputData, DaoOutputData, PlainOutputData, SetDaoTag
<1>5. CASE \/ \E change \in ChangeHashes, n, declared \in 0 .. MaxIns :
                SetPaths(change, n, declared)
           \/ \E c \in InCells : StartInput(c)
           \/ \E c \in OutCells : StartOutput(c)
           \/ \E n \in 1 .. Len(cell.args) : ScriptArgChunk(n)
           \/ InputNotFound \/ InputLockArgEnd \/ FinishInputs
  BY <1>1, <1>5 DEF SetPaths, StartInput, StartOutput,
     ScriptArgChunk, InputNotFound, InputLockArgEnd, FinishInputs
<1>6. CASE \/ OutputsEnd \/ FinalizeRawTransaction \/ RefuseNextApdu \/ PathsRefused
           \/ \E secure_only \in BOOLEAN : SignComplete(secure_only)
           \/ SwitchContractData \/ Done \/ UNCHANGED vars
  BY <1>1, <1>6 DEF OutputsEnd, FinalizeRawTransaction, RefuseNextApdu, PathsRefused,
     SignComplete, SwitchContractData, Done, vars
<1>. QED
  BY <1>2, <1>3, <1>4, <1>5, <1>6 DEF Next

\* Only output_end writes what is kept of DAO outputs.
LEMMA OnlyOutputEnd ==
  ASSUME [Next]_vars, ~OutputEnd
  PROVE  UNCHANGED <<outs, dao_bitmask, dao_output_amount>>
<1>1. CASE \/ \E change \in ChangeHashes, n, declared \in 0 .. MaxIns :
                SetPaths(change, n, declared)
           \/ \E c \in InCells : StartInput(c)
           \/ \E c \in OutCells : StartOutput(c)
           \/ \E n \in 1 .. Len(cell.args) : ScriptArgChunk(n)
           \/ InputNotFound \/ InputLockArgEnd \/ InputData \/ FinishInputs
  BY <1>1 DEF SetPaths, StartInput, StartOutput, ScriptArgChunk, InputNotFound,
     InputLockArgEnd, InputData, FinishInputs
<1>2. CASE \/ \E c \in OutCells : OutputData(c)
           \/ \E secure_only \in BOOLEAN : SignComplete(secure_only)
           \/ OutputsEnd \/ FinalizeRawTransaction \/ RefuseNextApdu \/ PathsRefused
           \/ SwitchContractData \/ Done \/ UNCHANGED vars
  BY <1>2 DEF OutputData, OutputsEnd, FinalizeRawTransaction, RefuseNextApdu,
     PathsRefused, SignComplete, SwitchContractData, Done, vars
<1>. QED
  BY <1>1, <1>2 DEF Next

\* Only finish_input_cell_data writes what is kept of inputs.
LEMMA OnlyInputData ==
  ASSUME [Next]_vars, ~InputData
  PROVE  /\ UNCHANGED <<dao_input_amount, input_fst, signing_multisig_input>>
         /\ InputNotFound \/ ins' = ins
<1>1. CASE \/ \E change \in ChangeHashes, n, declared \in 0 .. MaxIns :
                SetPaths(change, n, declared)
           \/ \E c \in InCells : StartInput(c)
           \/ \E c \in OutCells : StartOutput(c)
           \/ \E n \in 1 .. Len(cell.args) : ScriptArgChunk(n)
           \/ InputNotFound \/ InputLockArgEnd \/ FinishInputs
  BY <1>1 DEF SetPaths, StartInput, StartOutput, ScriptArgChunk, InputNotFound,
     InputLockArgEnd, FinishInputs
<1>2. CASE \/ \E c \in OutCells : OutputData(c)
           \/ \E secure_only \in BOOLEAN : SignComplete(secure_only)
           \/ OutputEnd \/ OutputsEnd \/ FinalizeRawTransaction \/ RefuseNextApdu
           \/ PathsRefused \/ SwitchContractData \/ Done \/ UNCHANGED vars
  BY <1>2 DEF OutputData, OutputEnd, OutputsEnd, FinalizeRawTransaction,
     RefuseNextApdu, PathsRefused, SignComplete, SwitchContractData, Done, vars
<1>. QED
  BY <1>1, <1>2 DEF Next

\* The outputs after output_end.
LEMMA OutsGrow ==
  ASSUME TypeOK, OutputEnd
  PROVE  /\ outs' = Append(outs, cell) /\ outs' \in Seq(AnyCell) /\ Len(outs) \in Nat
         /\ Len(outs') = Len(outs) + 1 /\ outs'[Len(outs) + 1] = cell
         /\ \A i \in 1 .. Len(outs) : outs'[i] = outs[i]
BY DEF TypeOK, OutputEnd, AnyCell

\* The inputs after finish_input_cell_data.
LEMMA InsGrow ==
  ASSUME TypeOK, NEW c \in AnyCell, ins' = Append(ins, c)
  PROVE  /\ ins' \in Seq(AnyCell) /\ Len(ins) \in Nat
         /\ Len(ins') = Len(ins) + 1 /\ ins'[Len(ins) + 1] = c
         /\ \A i \in 1 .. Len(ins) : ins'[i] = ins[i]
BY DEF TypeOK, AnyCell

-----------------------------------------------------------------------------
(* The mask of DAO outputs *)

\* Every step keeps Mask.
LEMMA MaskStep == TypeOK /\ Mask /\ [Next]_vars => Mask'
<1> SUFFICES ASSUME TypeOK, Mask, [Next]_vars PROVE Mask' OBVIOUS
<1>1. CASE OutputEnd
  <2> SUFFICES ASSUME Len(outs') <= INT_WIDTH, NEW k \in 0 .. INT_WIDTH - 1
               PROVE  k \in dao_bitmask' <=> k < Len(outs') /\ IsDao(outs'[k + 1])
    BY DEF Mask
  <2>1. /\ Len(outs) \in Nat /\ Len(outs') = Len(outs) + 1
        /\ outs'[Len(outs) + 1] = cell
        /\ \A i \in 1 .. Len(outs) : outs'[i] = outs[i]
    BY <1>1, OutsGrow
  <2>2. INT_WIDTH \in Nat
    BY BoundsAssumption
  <2>3. k \in dao_bitmask <=> k < Len(outs) /\ IsDao(outs[k + 1])
    BY <2>1, <2>2 DEF Mask
  <2>4. k \in dao_bitmask' <=> k \in dao_bitmask \/ (k = Len(outs) /\ IsDao(cell))
    <3>1. CASE IsDao(cell)
      <4>1. PICK bits \in ShiftedBits(Len(outs)) : dao_bitmask' = dao_bitmask \cup bits
        BY <1>1, <3>1 DEF OutputEnd, DaoOutput, DestinationOutput, ChangeOutput, IsDao
      <4>2. bits = IntBit(Len(outs))
        BY <2>1, <2>2, <4>1 DEF ShiftedBits
      <4>3. k \in bits <=> k = Len(outs)
        BY <2>1, <2>2, <4>2 DEF IntBit
      <4>. QED
        BY <3>1, <4>1, <4>3
    <3>2. CASE ~IsDao(cell)
      <4>1. dao_bitmask' = dao_bitmask
        BY <1>1, <3>2 DEF OutputEnd, DaoOutput, DestinationOutput, ChangeOutput, IsDao
      <4>. QED
        BY <3>2, <4>1
    <3>. QED
      BY <3>1, <3>2
  <2>5. CASE k = Len(outs)
    BY <2>1, <2>3, <2>4, <2>5
  <2>6. CASE k < Len(outs)
    <3>1. k + 1 \in 1 .. Len(outs)
      BY <2>1, <2>6
    <3>2. outs'[k + 1] = outs[k + 1] /\ k < Len(outs')
      BY <2>1, <2>6, <3>1
    <3>. QED
      BY <2>1, <2>3, <2>4, <2>6, <3>2
  <2>7. CASE k > Len(outs)
    BY <2>1, <2>3, <2>4, <2>7
  <2>. QED
    BY <2>1, <2>5, <2>6, <2>7
<1>2. CASE ~OutputEnd
  BY <1>2, OnlyOutputEnd DEF Mask
<1>. QED
  BY <1>1, <1>2

-----------------------------------------------------------------------------
(* The gate of the setting *)

\* A standard cell passes the checks of its lock, its type and its data.
LEMMA StandardParts ==
  ASSUME NEW c \in AnyCell
  PROVE  Standard(c) <=> LockStandard(c) /\ TypeStandard(c) /\ DataStandard(c)
BY DEF Standard, LockStandard, TypeStandard, DataStandard

\* The place of an input without a cell is standard.
LEMMA NoCellStandard == Standard(NoCell)
BY DEF Standard, NoCell

\* A lock script that the setting lets pass while it is off.
LEMMA LockPasses ==
  ASSUME NEW c \in InCells \cup OutCells, ~setting, ~LockUnsupported(c)
  PROVE  LockStandard(c)
BY DEF LockUnsupported, LockStandard

\* A type script that the setting lets pass while it is off.
LEMMA TypePasses ==
  ASSUME NEW c \in InCells \cup OutCells, ~setting, ~TypeUnsupported(c)
  PROVE  TypeStandard(c)
BY DEF TypeUnsupported, TypeStandard

\* finish_input_cell_data refuses data of the wrong size.
LEMMA InputDataPasses ==
  ASSUME TypeOK, CellKept, InputData, ~setting, ~unsafe'
  PROVE  DataStandard(cell)
<1>1. cell_state.is_dao <=> cell.type = "dao"
  BY DEF InputData, CellKept, IsDao
<1>. QED
  BY <1>1 DEF InputData, DaoInputData, PlainInputData, DataRefused, DataStandard

\* output_end refuses a type script that does not pass.
LEMMA OutputEndPasses ==
  ASSUME TypeOK, FlagsAgree, OutputEnd, ~unsafe'
  PROVE  ~TypeUnsupported(cell)
<1>1. DEST \notin flags => output_count = 0
  BY DEF TypeOK, FlagsAgree, OutputEnd
<1>. QED
  BY <1>1 DEF OutputEnd, DaoOutput, ChangeOutput, DestinationOutput,
     FirstDestination, CoalescedDestination, FurtherDestination

\* finish_output_cell_data refuses data of the wrong size.
LEMMA OutputDataPasses ==
  ASSUME TypeOK, Mask, NEW c \in OutCells, OutputData(c), ~setting, ~unsafe',
         checked < Len(outs), Len(outs) <= INT_WIDTH
  PROVE  DataStandard(outs[checked + 1])
<1>1. c = outs[checked + 1]
  BY DEF OutputData
<1>2. checked \in dao_bitmask <=> c.type = "dao"
  <2>1. checked \in Nat /\ INT_WIDTH \in Nat /\ Len(outs) \in Nat
    BY BoundsAssumption DEF TypeOK
  <2>2. checked \in 0 .. INT_WIDTH - 1
    BY <2>1
  <2>. QED
    BY <1>1, <2>2 DEF Mask, IsDao
<1>. QED
  BY <1>1, <1>2
  DEF OutputData, DaoOutputData, PlainOutputData, DataRefused, DataStandard

\* Every step keeps Clean, unless it refuses the transaction.
LEMMA CleanStep ==
  ASSUME TypeOK, FlagsAgree, Phase, CellKept, Mask, Clean, [Next]_vars, ~unsafe',
         ~setting, UNCHANGED setting
  PROVE  Clean'
<1>1. CASE \E c \in InCells : StartInput(c)
  <2>1. PICK c \in InCells : StartInput(c)
    BY <1>1
  <2>2. LockStandard(c)
    BY <2>1, LockPasses DEF StartInput
  <2>. QED
    BY <2>1, <2>2 DEF Clean, StartInput, OfCell
<1>2. CASE \E c \in OutCells : StartOutput(c)
  <2>1. PICK c \in OutCells : StartOutput(c)
    BY <1>2
  <2>2. LockStandard(c)
    BY <2>1, LockPasses DEF StartOutput
  <2>. QED
    BY <2>1, <2>2 DEF Clean, StartOutput, OfCell
<1>3. CASE InputLockArgEnd
  <2>1. cell \in InCells \cup OutCells
    BY <1>3 DEF InputLockArgEnd, CellKept, OfCell
  <2>2. TypeStandard(cell)
    BY <1>3, <2>1, TypePasses DEF InputLockArgEnd
  <2>. QED
    BY <1>3, <2>2 DEF Clean, InputLockArgEnd, OfCell
<1>4. CASE InputData
  <2>1. LockStandard(cell) /\ TypeStandard(cell) /\ DataStandard(cell)
    BY <1>4, InputDataPasses DEF InputData, Clean, OfCell
  <2>2. cell \in AnyCell /\ Standard(cell)
    BY <2>1, StandardParts DEF TypeOK, AnyCell
  <2>3. ins' = Append(ins, cell) /\ pc' = "ins" /\ UNCHANGED <<outs, checked>>
    BY <1>4 DEF InputData
  <2>4. /\ Len(ins) \in Nat /\ Len(ins') = Len(ins) + 1 /\ ins'[Len(ins) + 1] = cell
        /\ \A i \in 1 .. Len(ins) : ins'[i] = ins[i]
    BY <2>2, <2>3, InsGrow
  <2>5. \A i \in 1 .. Len(ins') : Standard(ins'[i])
    BY <2>2, <2>4 DEF Clean
  <2>. QED
    BY <2>3, <2>5 DEF Clean, OfCell
<1>5. CASE InputNotFound
  <2>1. ins' = Append(ins, NoCell) /\ UNCHANGED <<pc, cell, outs, checked>>
    BY <1>5 DEF InputNotFound
  <2>2. /\ Len(ins) \in Nat /\ Len(ins') = Len(ins) + 1 /\ ins'[Len(ins) + 1] = NoCell
        /\ \A i \in 1 .. Len(ins) : ins'[i] = ins[i]
    BY <2>1, InsGrow DEF AnyCell
  <2>3. \A i \in 1 .. Len(ins') : Standard(ins'[i])
    BY <2>2, NoCellStandard DEF Clean
  <2>. QED
    BY <2>1, <2>3 DEF Clean
<1>6. CASE OutputEnd
  <2>1. pc = "out_args" /\ pc' = "outs" /\ cell \in InCells \cup OutCells
    BY <1>6, OutputEndContinues DEF CellKept, OfCell
  <2>2. LockStandard(cell) /\ TypeStandard(cell)
    BY <1>6, <2>1, OutputEndPasses, TypePasses DEF Clean, OfCell
  <2>3. checked' = 0 /\ ins' = ins
    BY <1>6, <2>1 DEF OutputEnd, Phase, Early
  <2>4. /\ Len(outs) \in Nat /\ Len(outs') = Len(outs) + 1
        /\ outs'[Len(outs) + 1] = cell
        /\ \A i \in 1 .. Len(outs) : outs'[i] = outs[i]
    BY <1>6, OutsGrow
  <2>5. \A i \in 1 .. Len(outs') : LockStandard(outs'[i]) /\ TypeStandard(outs'[i])
    BY <2>2, <2>4 DEF Clean
  <2>6. \A i \in 1 .. Len(outs') : ~(i <= checked')
    BY <2>3, <2>4
  <2>. QED
    BY <2>1, <2>3, <2>5, <2>6 DEF Clean, OfCell
<1>7. CASE \E c \in OutCells : OutputData(c)
  <2>1. PICK c \in OutCells : OutputData(c)
    BY <1>7
  <2>2. pc' = "data" /\ checked' = checked + 1 /\ UNCHANGED <<ins, outs, cell>>
    BY <2>1 DEF OutputData
  <2>3. ASSUME Len(outs) <= INT_WIDTH, NEW i \in 1 .. Len(outs), i <= checked + 1
        PROVE  DataStandard(outs[i])
    <3>1. checked \in Nat /\ Len(outs) \in Nat
      BY BoundsAssumption DEF TypeOK
    <3>2. CASE i <= checked
      BY <2>3, <3>2 DEF Clean
    <3>3. CASE i = checked + 1
      BY <2>1, <2>3, <3>1, <3>3, OutputDataPasses
    <3>. QED
      BY <2>3, <3>1, <3>2, <3>3
  <2>. QED
    BY <2>2, <2>3 DEF Clean, OfCell
<1>8. CASE \E n \in 1 .. Len(cell.args) : ScriptArgChunk(n)
  BY <1>8 DEF ScriptArgChunk, Clean
<1>9. CASE \/ \E change \in ChangeHashes, n, declared \in 0 .. MaxIns :
                SetPaths(change, n, declared)
           \/ \E secure_only \in BOOLEAN : SignComplete(secure_only)
           \/ FinishInputs \/ OutputsEnd \/ FinalizeRawTransaction \/ RefuseNextApdu
           \/ PathsRefused
  <2>1. pc' \notin OfCell /\ pc' # "in_data"
    BY <1>9, LeavesCell DEF OfCell
  <2>2. UNCHANGED <<ins, outs, checked>>
    BY <1>9 DEF SetPaths, SignComplete, FinishInputs, OutputsEnd,
       FinalizeRawTransaction, RefuseNextApdu, PathsRefused
  <2>. QED
    BY <2>1, <2>2 DEF Clean
<1>10. CASE SwitchContractData \/ Done \/ UNCHANGED vars
  BY <1>10 DEF SwitchContractData, Done, vars, Clean
<1>. QED
  BY <1>1, <1>2, <1>3, <1>4, <1>5, <1>6, <1>7, <1>8, <1>9, <1>10 DEF Next

\* The setting changes in the menu only, and the change is remembered.
LEMMA SettingKept ==
  ASSUME [Next]_vars
  PROVE  UNCHANGED <<setting, allowed>> \/ (SwitchContractData /\ allowed' = TRUE)
<1>1. CASE \/ \E change \in ChangeHashes, n, declared \in 0 .. MaxIns :
                SetPaths(change, n, declared)
           \/ \E c \in InCells : StartInput(c)
           \/ \E c \in OutCells : StartOutput(c)
           \/ \E n \in 1 .. Len(cell.args) : ScriptArgChunk(n)
           \/ InputNotFound \/ InputLockArgEnd \/ InputData \/ FinishInputs
  BY <1>1 DEF SetPaths, StartInput, StartOutput, ScriptArgChunk, InputNotFound,
     InputLockArgEnd, InputData, FinishInputs
<1>2. CASE \/ \E c \in OutCells : OutputData(c)
           \/ \E secure_only \in BOOLEAN : SignComplete(secure_only)
           \/ OutputEnd \/ OutputsEnd \/ FinalizeRawTransaction \/ RefuseNextApdu
           \/ PathsRefused \/ SwitchContractData \/ Done \/ UNCHANGED vars
  BY <1>2 DEF OutputData, OutputEnd, OutputsEnd, FinalizeRawTransaction,
     RefuseNextApdu, PathsRefused, SignComplete, SwitchContractData, Done, vars
<1>. QED
  BY <1>1, <1>2 DEF Next

\* Every step keeps Gate.
LEMMA GateStep ==
  TypeOK /\ FlagsAgree /\ Phase /\ CellKept /\ Mask /\ Gate /\ [Next]_vars => Gate'
<1> SUFFICES ASSUME TypeOK, FlagsAgree, Phase, CellKept, Mask, Gate, [Next]_vars
             PROVE  Gate'
  OBVIOUS
<1>1. setting' => allowed'
  BY SettingKept DEF Gate
<1>2. ASSUME ~unsafe', ~allowed' PROVE Clean'
  <2>1. UNCHANGED <<setting, allowed>> /\ ~unsafe
    BY <1>2, SettingKept, RefusedStays
  <2>2. ~setting /\ Clean
    BY <1>2, <2>1 DEF Gate
  <2>. QED
    BY <1>2, <2>1, <2>2, CleanStep
<1>. QED
  BY <1>1, <1>2 DEF Gate

\* What holds of every transaction at every place of the parser.
BaseInv == TypeOK /\ FlagsAgree /\ Phase /\ CellKept /\ Mask

\* The state that clear_data leaves satisfies them all.
LEMMA BaseInit == Init => BaseInv
<1> SUFFICES ASSUME Init PROVE BaseInv OBVIOUS
<1>1. Phase
  BY DEF Init, Phase, Prompted
<1>2. CellKept
  BY DEF Init, CellKept, OfCell
<1>3. Mask
  BY DEF Init, Mask
<1>. QED
  BY <1>1, <1>2, <1>3, InitType, FlagsInit DEF BaseInv

\* Every step keeps them all.
LEMMA BaseStep == BaseInv /\ [Next]_vars => BaseInv'
BY TypeStep, FlagsStep, PhaseStep, CellKeptStep, MaskStep DEF BaseInv

\* With "Allow contract data" off throughout, no transaction with a nonstandard
\* cell is put to the user, for any number of inputs and any cells, however
\* they are cut into chunks, as long as the outputs fit the mask.
THEOREM GateCorrect == Spec => []ContractDataGated
<1>1. Init => BaseInv /\ Gate
  <2> SUFFICES ASSUME Init PROVE BaseInv /\ Gate OBVIOUS
  <2>1. Gate
    BY DEF Init, Gate, Clean, OfCell
  <2>. QED
    BY <2>1, BaseInit
<1>2. BaseInv /\ Gate /\ [Next]_vars => (BaseInv /\ Gate)'
  <2>1. BaseInv /\ Gate /\ [Next]_vars => Gate'
    BY GateStep DEF BaseInv
  <2>. QED
    BY <2>1, BaseStep
<1>3. BaseInv /\ Gate => ContractDataGated
  <2> SUFFICES ASSUME BaseInv, Gate, Prompted, ~allowed, OutputsFit,
                      NEW c \in CellsOf(ins) \cup CellsOf(outs)
               PROVE  Standard(c)
    BY DEF ContractDataGated
  <2>1. Clean
    BY DEF BaseInv, Phase, Gate
  <2>2. CASE c \in CellsOf(ins)
    BY <2>1, <2>2 DEF Clean, CellsOf
  <2>3. CASE c \in CellsOf(outs)
    <3>1. PICK i \in 1 .. Len(outs) : c = outs[i]
      BY <2>3 DEF CellsOf
    <3>2. i <= checked /\ Len(outs) <= INT_WIDTH /\ c \in AnyCell
      BY <3>1 DEF OutputsFit, DataForEachOutput, BaseInv, TypeOK, AnyCell
    <3>3. LockStandard(c) /\ TypeStandard(c) /\ DataStandard(c)
      BY <2>1, <3>1, <3>2 DEF Clean
    <3>. QED
      BY <3>2, <3>3, StandardParts
  <2>. QED
    BY <2>2, <2>3
<1>. QED
  BY <1>1, <1>2, <1>3, PTL DEF Spec
=============================================================================

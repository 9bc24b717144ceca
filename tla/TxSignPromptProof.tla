------------------------- MODULE TxSignPromptProof --------------------------
(***************************************************************************)
(* Proofs about TxSign: what the prompt of a transfer and of a DAO         *)
(* operation says is what the cells of the transaction are.                *)
(***************************************************************************)
EXTENDS TxSignProof, FoldingProof, SequenceTheorems

USE DEF setVars, keyVars, inVars, outVars, endVars, histVars

-----------------------------------------------------------------------------
(* Sums of capacities, and kinds of cells *)

\* The capacity of a cell is an amount.
LEMMA CapType == ASSUME NEW c \in AnyCell PROVE c.cap \in Amount
BY CellFields DEF AnyCell

\* Adding the capacity of the cells of a kind is a fold.
LEMMA CapacityFolds ==
  ASSUME NEW kind
  PROVE  Folds(AddCapacity(kind), 0, Amount, AnyCell)
<1>1. \A p \in Amount \X AnyCell :
        (IF p[2] \in kind THEN AddW(p[1], p[2].cap) ELSE p[1]) \in Amount
  BY AddWType, CapType
<1>. QED
  BY <1>1, ZeroAmount DEF Folds, AddCapacity

\* No cells have no capacity.
LEMMA CapacityEmpty == ASSUME NEW kind PROVE Capacity(<<>>, kind) = 0
BY CapacityFolds, FoldUpEmpty DEF Capacity

\* One cell more adds its capacity when it is of the kind.
LEMMA CapacityAppend ==
  ASSUME NEW kind, NEW s \in Seq(AnyCell), NEW c \in AnyCell
  PROVE  /\ Capacity(s, kind) \in Amount
         /\ Capacity(Append(s, c), kind) =
              IF c \in kind THEN AddW(Capacity(s, kind), c.cap) ELSE Capacity(s, kind)
<1>1. Capacity(s, kind) \in Amount
  BY CapacityFolds, FoldUpType DEF Capacity
<1>2. Capacity(Append(s, c), kind) = AddCapacity(kind)[<<Capacity(s, kind), c>>]
  BY CapacityFolds, FoldUpAppend DEF Capacity
<1>. QED
  BY <1>1, <1>2 DEF AddCapacity

\* A sequence of cells has a cell of a kind.
LEMMA HasMeans ==
  ASSUME NEW s, NEW kind
  PROVE  Has(s, kind) <=> \E i \in 1 .. Len(s) : s[i] \in kind
BY DEF Has, CellsOf

\* One cell more.
LEMMA HasAppend ==
  ASSUME NEW kind, NEW s \in Seq(AnyCell), NEW c \in AnyCell
  PROVE  /\ Has(Append(s, c), kind) <=> Has(s, kind) \/ c \in kind
         /\ ~Has(<<>>, kind)
<1>1. /\ Len(s) \in Nat /\ Len(Append(s, c)) = Len(s) + 1
      /\ Append(s, c)[Len(s) + 1] = c
      /\ \A i \in 1 .. Len(s) : Append(s, c)[i] = s[i]
  OBVIOUS
<1>2. \A i \in 1 .. Len(s) + 1 : i \in 1 .. Len(s) \/ i = Len(s) + 1
  BY <1>1
<1>3. \A i \in 1 .. Len(s) : i \in 1 .. Len(s) + 1
  BY <1>1
<1>4. Len(s) + 1 \in 1 .. Len(s) + 1
  BY <1>1
<1>5. ~Has(<<>>, kind)
  BY HasMeans
<1>. QED
  BY <1>1, <1>2, <1>3, <1>4, <1>5, HasMeans

\* The kinds of cells are sets of cells.
LEMMA Kinds ==
  ASSUME NEW c \in AnyCell
  PROVE  /\ c \in DaoCells <=> IsDao(c)
         /\ c \in PaymentCells <=> ~IsDao(c) /\ ~PaysTo(c, change_lock_arg)
         /\ c \in ChangeCells <=> ~IsDao(c) /\ PaysTo(c, change_lock_arg)
BY DEF DaoCells, PaymentCells, ChangeCells

-----------------------------------------------------------------------------
(* What the steps do to the tag *)

\* A tag that a DAO cell or a further destination set is kept by every step
\* that does not refuse the transaction.
LEMMA TagStays ==
  ASSUME TypeOK, [Next]_vars, ~unsafe',
         tag \in {MULTI_OUTPUT, DEPOSIT, PREPARE, WITHDRAW}
  PROVE  tag' = tag
<1>1. unsafe \in BOOLEAN
  BY DEF TypeOK
<1>2. CASE OutputEnd
  BY <1>2, OutputEndTag DEF MULTI_OUTPUT, NOT_SET, DEPOSIT, PREPARE, WITHDRAW
<1>3. CASE InputData
  BY <1>3 DEF InputData, DaoInputData, PlainInputData, SetDaoTag,
     MULTI_OUTPUT, NOT_SET, DEPOSIT, PREPARE, WITHDRAW
<1>4. CASE \E c \in OutCells : OutputData(c)
  BY <1>4 DEF OutputData, DaoOutputData, PlainOutputData, SetDaoTag,
     MULTI_OUTPUT, NOT_SET, DEPOSIT, PREPARE, WITHDRAW
<1>5. CASE FinalizeRawTransaction
  BY <1>5 DEF FinalizeRawTransaction, FinalTag, Transfers,
     MULTI_OUTPUT, NOT_SET, DEPOSIT, PREPARE, WITHDRAW, PLAIN
<1>6. CASE \E secure_only \in BOOLEAN : SignComplete(secure_only)
  BY <1>6 DEF SignComplete
<1>7. CASE \/ \E change \in ChangeHashes, n, declared \in 0 .. MaxIns :
                SetPaths(change, n, declared)
           \/ \E c \in InCells : StartInput(c)
           \/ \E c \in OutCells : StartOutput(c)
           \/ \E n \in 1 .. Len(cell.args) : ScriptArgChunk(n)
           \/ InputNotFound \/ InputLockArgEnd \/ FinishInputs
           \/ OutputsEnd \/ RefuseNextApdu \/ PathsRefused
           \/ SwitchContractData \/ Done \/ UNCHANGED vars
  BY <1>7 DEF SetPaths, StartInput, StartOutput, ScriptArgChunk, InputNotFound,
     InputLockArgEnd, FinishInputs, OutputsEnd, RefuseNextApdu, PathsRefused,
     SwitchContractData, Done, vars
<1>. QED
  BY <1>2, <1>3, <1>4, <1>5, <1>6, <1>7 DEF Next

\* Where a tag comes from.
LEMMA TagOrigin ==
  ASSUME TypeOK, [Next]_vars
  PROVE  /\ tag' = WITHDRAW => tag = WITHDRAW \/ InputData
         /\ tag' = MULTI_OUTPUT => tag = MULTI_OUTPUT \/ OutputEnd
         /\ tag' = DEPOSIT => tag = DEPOSIT \/ \E c \in OutCells : OutputData(c)
         /\ tag' = PREPARE =>
              tag = PREPARE \/ InputData \/ \E c \in OutCells : OutputData(c)
<1>1. CASE OutputEnd
  BY <1>1, OutputEndTag DEF MULTI_OUTPUT, NOT_SET, DEPOSIT, PREPARE, WITHDRAW
<1>2. CASE InputData
  BY <1>2 DEF InputData, DaoInputData, PlainInputData, SetDaoTag,
     MULTI_OUTPUT, NOT_SET, DEPOSIT, PREPARE, WITHDRAW
<1>3. CASE \E c \in OutCells : OutputData(c)
  BY <1>3 DEF OutputData, DaoOutputData, PlainOutputData, SetDaoTag,
     MULTI_OUTPUT, NOT_SET, DEPOSIT, PREPARE, WITHDRAW
<1>4. CASE FinalizeRawTransaction
  BY <1>4 DEF FinalizeRawTransaction, FinalTag, Transfers,
     MULTI_OUTPUT, NOT_SET, DEPOSIT, PREPARE, WITHDRAW, PLAIN, SELF, MULTI_INPUT
<1>5. CASE \E secure_only \in BOOLEAN : SignComplete(secure_only)
  BY <1>5 DEF SignComplete, NONE, MULTI_OUTPUT, DEPOSIT, PREPARE, WITHDRAW
<1>6. CASE \/ \E change \in ChangeHashes, n, declared \in 0 .. MaxIns :
                SetPaths(change, n, declared)
           \/ \E c \in InCells : StartInput(c)
           \/ \E c \in OutCells : StartOutput(c)
           \/ \E n \in 1 .. Len(cell.args) : ScriptArgChunk(n)
           \/ InputNotFound \/ InputLockArgEnd \/ FinishInputs
           \/ OutputsEnd \/ RefuseNextApdu \/ PathsRefused
           \/ SwitchContractData \/ Done \/ UNCHANGED vars
  BY <1>6 DEF SetPaths, StartInput, StartOutput, ScriptArgChunk, InputNotFound,
     InputLockArgEnd, FinishInputs, OutputsEnd, RefuseNextApdu, PathsRefused,
     SwitchContractData, Done, vars
<1>. QED
  BY <1>1, <1>2, <1>3, <1>4, <1>5, <1>6 DEF Next

-----------------------------------------------------------------------------
(* DAO cells among the inputs *)

\* Unless the transaction was refused, the DAO inputs are of one operation, the
\* tag is that operation's and their amount is what they bring.
InDao ==
  ~unsafe =>
    /\ dao_input_amount = Capacity(ins, DaoCells)
    /\ \A i \in 1 .. Len(ins) :
         IsDao(ins[i]) => tag = IF ins[i].nonzero THEN WITHDRAW ELSE PREPARE
    /\ tag = WITHDRAW => Has(ins, DaoCells)

\* Every step keeps InDao.
LEMMA InDaoStep ==
  TypeOK /\ CapacityKept /\ CellKept /\ InDao /\ [Next]_vars => InDao'
<1> SUFFICES ASSUME TypeOK, CapacityKept, CellKept, InDao, [Next]_vars, ~unsafe'
             PROVE  /\ dao_input_amount' = Capacity(ins', DaoCells)
                    /\ \A i \in 1 .. Len(ins') : IsDao(ins'[i]) =>
                         tag' = IF ins'[i].nonzero THEN WITHDRAW ELSE PREPARE
                    /\ tag' = WITHDRAW => Has(ins', DaoCells)
  BY DEF InDao, DaoCells
<1>1. ~unsafe /\ ins \in Seq(AnyCell) /\ cell \in AnyCell
  BY RefusedStays DEF TypeOK, AnyCell
<1>2. /\ dao_input_amount = Capacity(ins, DaoCells)
      /\ \A i \in 1 .. Len(ins) :
           IsDao(ins[i]) => tag = IF ins[i].nonzero THEN WITHDRAW ELSE PREPARE
      /\ tag = WITHDRAW => Has(ins, DaoCells)
  BY <1>1 DEF InDao
<1>3. CASE InputData
  <2>1. ins' = Append(ins, cell)
    BY <1>3 DEF InputData
  <2>2. /\ Len(ins) \in Nat /\ Len(ins') = Len(ins) + 1 /\ ins'[Len(ins) + 1] = cell
        /\ \A i \in 1 .. Len(ins) : ins'[i] = ins[i]
    BY <1>1, <2>1, InsGrow
  <2>3. /\ cell_state.is_dao <=> IsDao(cell)
        /\ cell_state.capacity = cell.cap /\ cell_state.dao_data_is_nonzero = FALSE
    BY <1>3 DEF InputData, CellKept, CapacityKept, OfCell
  <2>4. CASE IsDao(cell)
    <3> DEFINE t == IF cell.nonzero THEN WITHDRAW ELSE PREPARE
    <3>1. DaoInputData(cell.size, cell_state.dao_data_is_nonzero \/ cell.nonzero)
      BY <1>3, <2>3, <2>4 DEF InputData, PlainInputData
    <3>2. /\ dao_input_amount' = AddW(dao_input_amount, cell_state.capacity)
          /\ SetDaoTag(t)
      BY <2>3, <3>1 DEF DaoInputData
    <3>3. tag \in {NOT_SET, t} /\ tag' = t
      BY <3>2 DEF SetDaoTag
    <3>4. dao_input_amount' = Capacity(ins', DaoCells)
      BY <1>1, <1>2, <2>1, <2>3, <2>4, <3>2, CapacityAppend, Kinds
    <3>5. Has(ins', DaoCells)
      BY <1>1, <2>1, <2>4, HasAppend, Kinds
    <3>6. ASSUME NEW i \in 1 .. Len(ins'), IsDao(ins'[i])
          PROVE  tag' = IF ins'[i].nonzero THEN WITHDRAW ELSE PREPARE
      <4>1. CASE i = Len(ins) + 1
        BY <2>2, <3>3, <4>1
      <4>2. CASE i \in 1 .. Len(ins)
        <5>1. tag = IF ins'[i].nonzero THEN WITHDRAW ELSE PREPARE
          BY <1>2, <2>2, <3>6, <4>2
        <5>2. tag = t
          BY <3>3, <5>1 DEF NOT_SET, WITHDRAW, PREPARE
        <5>. QED
          BY <3>3, <5>1, <5>2
      <4>. QED
        BY <2>2, <4>1, <4>2
    <3>. QED
      BY <3>4, <3>5, <3>6
  <2>5. CASE ~IsDao(cell)
    <3>1. UNCHANGED <<tag, dao_input_amount>>
      BY <1>3, <2>3, <2>5 DEF InputData, DaoInputData, PlainInputData
    <3>2. dao_input_amount' = Capacity(ins', DaoCells)
      BY <1>1, <1>2, <2>1, <2>5, <3>1, CapacityAppend, Kinds
    <3>3. tag = WITHDRAW => Has(ins', DaoCells)
      BY <1>1, <1>2, <2>1, HasAppend
    <3>4. ASSUME NEW i \in 1 .. Len(ins'), IsDao(ins'[i])
          PROVE  tag = IF ins'[i].nonzero THEN WITHDRAW ELSE PREPARE
      BY <1>2, <2>2, <2>5, <3>4
    <3>. QED
      BY <3>1, <3>2, <3>3, <3>4
  <2>. QED
    BY <2>4, <2>5
<1>4. CASE InputNotFound
  <2>1. /\ ins' = Append(ins, NoCell) /\ UNCHANGED <<tag, dao_input_amount>>
        /\ NoCell \in AnyCell /\ ~IsDao(NoCell)
    BY <1>4 DEF InputNotFound, AnyCell, NoCell, IsDao
  <2>2. /\ Len(ins) \in Nat /\ Len(ins') = Len(ins) + 1 /\ ins'[Len(ins) + 1] = NoCell
        /\ \A i \in 1 .. Len(ins) : ins'[i] = ins[i]
    BY <1>1, <2>1, InsGrow
  <2>3. dao_input_amount' = Capacity(ins', DaoCells)
    BY <1>1, <1>2, <2>1, CapacityAppend, Kinds
  <2>4. tag = WITHDRAW => Has(ins', DaoCells)
    BY <1>1, <1>2, <2>1, HasAppend
  <2>5. ASSUME NEW i \in 1 .. Len(ins'), IsDao(ins'[i])
        PROVE  tag = IF ins'[i].nonzero THEN WITHDRAW ELSE PREPARE
    BY <1>2, <2>1, <2>2, <2>5
  <2>. QED
    BY <2>1, <2>3, <2>4, <2>5
<1>5. CASE ~InputData /\ ~InputNotFound
  <2>1. UNCHANGED <<ins, dao_input_amount>>
    BY <1>5, OnlyInputData
  <2>2. tag \in {WITHDRAW, PREPARE} => tag' = tag
    BY TagStays
  <2>3. tag' = WITHDRAW => tag = WITHDRAW
    BY <1>5, TagOrigin
  <2>. QED
    BY <1>2, <2>1, <2>2, <2>3
<1>. QED
  BY <1>3, <1>4, <1>5

-----------------------------------------------------------------------------
(* DAO cells among the outputs *)

\* An output whose lock argument has the length its script expects is received
\* whole; it is foreign unless it pays to the change address.
LEMMA OutputReceived ==
  ASSUME TypeOK, ReceivedSoFar, CellKept, OutputEnd, WellFormed(cell)
  PROVE  /\ lock_arg_tmp = Pad(cell.args)
         /\ Foreign <=> ~PaysTo(cell, change_lock_arg)
         /\ PaysTo(cell, change_lock_arg) => HashOf(lock_arg_tmp) = change_lock_arg
<1>1. /\ HASH \in Nat /\ ARG \in Nat /\ HASH < ARG /\ cell.args \in Seq(UNIT)
      /\ Len(cell.args) \in Nat
  BY BoundsAssumption, CellFields DEF TypeOK
<1>2. pc = "out_args" /\ sent = Len(cell.args) /\ sent <= ARG
  BY <1>1 DEF OutputEnd, WellFormed
<1>3. lock_arg_tmp = [k \in 1 .. ARG |-> IF k <= Len(cell.args) THEN cell.args[k] ELSE 0]
  BY <1>2 DEF ReceivedSoFar
<1>4. cell_state.lock_arg_nonequal <=>
        \E k \in 1 .. Len(cell.args) : LockArgCmp(k) # cell.args[k]
  BY <1>2 DEF ReceivedSoFar
<1>5. cell_state.is_multisig <=> cell.lock = "multisig"
  BY <1>2 DEF CellKept, OfCell
<1>6. CASE cell.lock = "multisig"
  BY <1>3, <1>5, <1>6 DEF Foreign, PaysTo, Pad
<1>7. CASE cell.lock = "default" /\ Len(cell.args) = HASH
  <2>1. \A k \in 1 .. HASH : LockArgCmp(k) = change_lock_arg[k]
    BY <1>1, <1>2 DEF LockArgCmp
  <2>2. change_lock_arg \in [1 .. HASH -> UNIT] /\ cell.args \in [1 .. HASH -> UNIT]
    BY <1>1, <1>7 DEF TypeOK, Hash
  <2>3. (\A k \in 1 .. HASH : change_lock_arg[k] = cell.args[k])
          <=> cell.args = change_lock_arg
    <3>1. /\ cell.args = [k \in 1 .. HASH |-> cell.args[k]]
          /\ change_lock_arg = [k \in 1 .. HASH |-> change_lock_arg[k]]
      BY <2>2
    <3>. QED
      BY <3>1, Zenon
  <2>4. Foreign <=> ~PaysTo(cell, change_lock_arg)
    <3>1. ~cell_state.is_multisig
      BY <1>5, <1>7
    <3>2. cell_state.lock_arg_nonequal <=> cell.args # change_lock_arg
      BY <1>4, <1>7, <2>1, <2>3
    <3>. QED
      BY <1>7, <3>1, <3>2 DEF Foreign, PaysTo
  <2>5. HashOf(lock_arg_tmp) = cell.args
    <3>1. \A k \in 1 .. HASH : k \in 1 .. ARG /\ k <= Len(cell.args)
      BY <1>1, <1>7
    <3>2. \A k \in 1 .. HASH : lock_arg_tmp[k] = cell.args[k]
      BY <1>3, <3>1
    <3>3. HashOf(lock_arg_tmp) = [k \in 1 .. HASH |-> cell.args[k]]
      BY <3>2 DEF HashOf
    <3>. QED
      BY <2>2, <3>3
  <2>. QED
    BY <1>3, <2>4, <2>5 DEF PaysTo, Pad
<1>. QED
  BY <1>6, <1>7 DEF WellFormed

\* The outputs are well formed when those before and the last one are.
LEMMA WellFormedGrow ==
  ASSUME TypeOK, OutputEnd
  PROVE  AllWellFormed(outs)' => AllWellFormed(outs) /\ WellFormed(cell)
<1>1. /\ Len(outs) \in Nat /\ Len(outs') = Len(outs) + 1 /\ outs'[Len(outs) + 1] = cell
      /\ \A i \in 1 .. Len(outs) : outs'[i] = outs[i]
  BY OutsGrow
<1> SUFFICES ASSUME \A i \in 1 .. Len(outs') : WellFormed(outs'[i])
             PROVE  (\A i \in 1 .. Len(outs) : WellFormed(outs[i])) /\ WellFormed(cell)
  BY DEF AllWellFormed, WellFormed
<1>2. WellFormed(cell)
  BY <1>1
<1>3. ASSUME NEW i \in 1 .. Len(outs) PROVE WellFormed(outs[i])
  <2>1. i \in 1 .. Len(outs')
    BY <1>1
  <2>. QED
    BY <1>1, <2>1
<1>. QED
  BY <1>2, <1>3

\* The keys are set before the first input and the owner of DAO cells only by
\* DAO cells.
LEMMA KeysKept ==
  ASSUME Phase, [Next]_vars, ~OutputEnd
  PROVE  outs' = <<>> \/ UNCHANGED <<change_lock_arg, dao_cell_owner>>
<1>1. CASE \/ \E change \in ChangeHashes, n, declared \in 0 .. MaxIns :
                SetPaths(change, n, declared)
           \/ InputData
  <2>1. pc \in {"paths", "in_data"} /\ outs' = outs
    BY <1>1 DEF SetPaths, InputData
  <2>. QED
    BY <2>1 DEF Phase
<1>2. CASE \/ \E c \in InCells : StartInput(c)
           \/ \E c \in OutCells : StartOutput(c)
           \/ \E n \in 1 .. Len(cell.args) : ScriptArgChunk(n)
           \/ InputNotFound \/ InputLockArgEnd \/ FinishInputs
  BY <1>2 DEF StartInput, StartOutput, ScriptArgChunk, InputNotFound,
     InputLockArgEnd, FinishInputs
<1>3. CASE \/ \E c \in OutCells : OutputData(c)
           \/ \E secure_only \in BOOLEAN : SignComplete(secure_only)
           \/ OutputsEnd \/ FinalizeRawTransaction \/ RefuseNextApdu
           \/ PathsRefused \/ SwitchContractData \/ Done \/ UNCHANGED vars
  BY <1>3 DEF OutputData, OutputsEnd, FinalizeRawTransaction,
     RefuseNextApdu, PathsRefused, SignComplete, SwitchContractData, Done, vars
<1>. QED
  BY <1>1, <1>2, <1>3 DEF Next

\* Every DAO output goes back to the change address.
DaoOutsOwn ==
  \A i \in 1 .. Len(outs) : IsDao(outs[i]) =>
    PaysTo(outs[i], change_lock_arg) /\ dao_cell_owner = change_lock_arg

\* The amount of the DAO outputs is kept, and unless the transaction was
\* refused they are the user's own.
OutDao ==
  /\ dao_output_amount = Capacity(outs, DaoCells)
  /\ dao_bitmask # {} => Has(outs, DaoCells)
  /\ ~unsafe /\ AllWellFormed(outs) => DaoOutsOwn

\* Every step keeps OutDao.
LEMMA OutDaoStep ==
  TypeOK /\ Phase /\ CapacityKept /\ ReceivedSoFar /\ CellKept /\ OutDao /\ [Next]_vars
    => OutDao'
<1> SUFFICES ASSUME TypeOK, Phase, CapacityKept, ReceivedSoFar, CellKept, OutDao,
                    [Next]_vars
             PROVE  OutDao'
  OBVIOUS
<1>1. outs \in Seq(AnyCell) /\ cell \in AnyCell
  BY DEF TypeOK, AnyCell
<1>2. CASE OutputEnd
  <2>1. outs' = Append(outs, cell)
    BY <1>2 DEF OutputEnd
  <2>2. /\ Len(outs) \in Nat /\ Len(outs') = Len(outs) + 1
        /\ outs'[Len(outs) + 1] = cell
        /\ \A i \in 1 .. Len(outs) : outs'[i] = outs[i]
    BY <1>2, OutsGrow
  <2>3. cell_state.capacity = cell.cap /\ change_lock_arg' = change_lock_arg
    BY <1>2 DEF OutputEnd, CapacityKept
  <2>4. /\ IsDao(cell) => /\ dao_output_amount' = AddW(dao_output_amount, cell.cap)
                          /\ dao_cell_owner' = HashOf(lock_arg_tmp)
                          /\ ~unsafe' => ~Foreign
        /\ ~IsDao(cell) => UNCHANGED <<dao_output_amount, dao_bitmask, dao_cell_owner>>
    BY <1>2, <2>3 DEF OutputEnd, DaoOutput, DestinationOutput, ChangeOutput, IsDao
  <2>5. dao_output_amount' = Capacity(outs', DaoCells)
    BY <1>1, <2>1, <2>4, CapacityAppend, Kinds DEF OutDao
  <2>6. dao_bitmask' # {} => Has(outs', DaoCells)
    <3>1. Has(outs', DaoCells) <=> Has(outs, DaoCells) \/ IsDao(cell)
      BY <1>1, <2>1, HasAppend, Kinds
    <3>. QED
      BY <2>4, <3>1 DEF OutDao
  <2>7. ASSUME ~unsafe', AllWellFormed(outs)' PROVE DaoOutsOwn'
    <3>1. AllWellFormed(outs) /\ WellFormed(cell) /\ ~unsafe
      BY <1>2, <2>7, WellFormedGrow, RefusedStays
    <3>2. DaoOutsOwn
      BY <3>1 DEF OutDao
    <3>3. IsDao(cell) => PaysTo(cell, change_lock_arg) /\ dao_cell_owner' = change_lock_arg
      BY <1>2, <2>4, <2>7, <3>1, OutputReceived
    <3>4. ASSUME NEW i \in 1 .. Len(outs'), IsDao(outs'[i])
          PROVE  PaysTo(outs'[i], change_lock_arg) /\ dao_cell_owner' = change_lock_arg
      <4>1. CASE i = Len(outs) + 1
        BY <2>2, <3>3, <3>4, <4>1
      <4>2. CASE i \in 1 .. Len(outs)
        BY <2>2, <2>4, <3>2, <3>3, <3>4, <4>2 DEF DaoOutsOwn
      <4>. QED
        BY <2>2, <4>1, <4>2
    <3>. QED
      BY <2>3, <3>4 DEF DaoOutsOwn, PaysTo, IsDao
  <2>. QED
    BY <2>5, <2>6, <2>7 DEF OutDao, DaoCells
<1>3. CASE ~OutputEnd
  <2>1. UNCHANGED <<outs, dao_bitmask, dao_output_amount>>
    BY <1>3, OnlyOutputEnd
  <2>2. outs' = <<>> \/ UNCHANGED <<change_lock_arg, dao_cell_owner>>
    BY <1>3, KeysKept
  <2>3. ASSUME ~unsafe', AllWellFormed(outs)' PROVE DaoOutsOwn'
    <3>1. AllWellFormed(outs) /\ ~unsafe
      BY <2>1, <2>3, RefusedStays DEF AllWellFormed
    <3>2. DaoOutsOwn
      BY <3>1 DEF OutDao
    <3>. QED
      BY <2>1, <2>2, <3>2 DEF DaoOutsOwn, PaysTo, IsDao
  <2>. QED
    BY <2>1, <2>3 DEF OutDao, DaoCells
<1>. QED
  BY <1>2, <1>3

-----------------------------------------------------------------------------
(* The data of the outputs *)

\* One of the first n outputs has data that is not zero.
Nonzero(n) == \E j \in 1 .. n : outs[j].nonzero

\* The tag is that of the DAO outputs whose data was checked.
TagOfData ==
  /\ \A i \in 1 .. checked : IsDao(outs[i]) =>
       tag = IF Nonzero(i) THEN PREPARE ELSE DEPOSIT
  /\ tag = DEPOSIT => Has(outs, DaoCells)

\* dao_data_is_nonzero starts at FALSE for the data of the first output and is
\* not reset between outputs.
DataTags ==
  /\ pc = "outs" => outs = <<>> \/ cell_state.dao_data_is_nonzero = FALSE
  /\ checked <= Len(outs) /\ Len(outs) <= INT_WIDTH =>
       /\ pc = "data" /\ outs # <<>> =>
            (cell_state.dao_data_is_nonzero <=> Nonzero(checked))
       /\ ~unsafe => TagOfData

\* Only finish_output_cell_data counts the data of outputs.
LEMMA OnlyOutputData ==
  ASSUME [Next]_vars, ~\E c \in OutCells : OutputData(c)
  PROVE  checked' = checked
<1>1. CASE \/ \E change \in ChangeHashes, n, declared \in 0 .. MaxIns :
                SetPaths(change, n, declared)
           \/ \E c \in InCells : StartInput(c)
           \/ \E c \in OutCells : StartOutput(c)
           \/ \E n \in 1 .. Len(cell.args) : ScriptArgChunk(n)
           \/ InputNotFound \/ InputLockArgEnd \/ FinishInputs \/ InputData
  BY <1>1 DEF SetPaths, StartInput, StartOutput, ScriptArgChunk, InputNotFound,
     InputLockArgEnd, FinishInputs, InputData
<1>2. CASE \/ \E secure_only \in BOOLEAN : SignComplete(secure_only)
           \/ OutputEnd \/ OutputsEnd \/ FinalizeRawTransaction \/ RefuseNextApdu
           \/ PathsRefused \/ SwitchContractData \/ Done \/ UNCHANGED vars
  BY <1>2 DEF OutputEnd, OutputsEnd, FinalizeRawTransaction, RefuseNextApdu,
     PathsRefused, SignComplete, SwitchContractData, Done, vars
<1>. QED
  BY <1>1, <1>2 DEF Next

\* The data of one more output.
LEMMA DataTagsOfData ==
  ASSUME TypeOK, Mask, DataTags, NEW c \in OutCells, OutputData(c),
         checked' <= Len(outs'), Len(outs') <= INT_WIDTH
  PROVE  /\ cell_state'.dao_data_is_nonzero <=> Nonzero(checked)'
         /\ ~unsafe' => TagOfData'
<1> DEFINE nonzero == cell_state.dao_data_is_nonzero \/ c.nonzero
           dao == checked \in dao_bitmask
<1>1. /\ checked \in Nat /\ Len(outs) \in Nat /\ INT_WIDTH \in Nat
      /\ outs \in Seq(AnyCell) /\ unsafe \in BOOLEAN
  BY BoundsAssumption DEF TypeOK, AnyCell
<1>2. checked' = checked + 1 /\ outs' = outs /\ pc = "data"
  BY DEF OutputData
<1>3. checked < Len(outs) /\ c = outs[checked + 1] /\ outs # <<>>
  BY <1>1, <1>2 DEF OutputData
<1>4. (cell_state.dao_data_is_nonzero <=> Nonzero(checked)) /\ (~unsafe => TagOfData)
  BY <1>1, <1>2, <1>3 DEF DataTags
<1>5. \A j : j \in 1 .. checked + 1 <=> j \in 1 .. checked \/ j = checked + 1
  BY <1>1
<1>6. nonzero <=> Nonzero(checked + 1)
  BY <1>3, <1>4, <1>5 DEF Nonzero
<1>7. cell_state'.dao_data_is_nonzero <=> nonzero
  <2>1. cell_state' = [cell_state EXCEPT !.is_dao = dao, !.data_size = c.size,
                                         !.dao_data_is_nonzero = nonzero]
    BY DEF OutputData
  <2> HIDE DEF nonzero, dao
  <2>. QED
    BY <2>1 DEF TypeOK
<1>8. dao <=> IsDao(c)
  <2>1. checked \in 0 .. INT_WIDTH - 1
    BY <1>1, <1>2, <1>3
  <2>. QED
    BY <1>1, <1>2, <1>3, <2>1 DEF Mask
<1>9. ASSUME ~unsafe' PROVE TagOfData'
  <2>1. ~unsafe /\ (dao => SetDaoTag(IF nonzero THEN PREPARE ELSE DEPOSIT))
        /\ (~dao => tag' = tag)
    BY <1>1, <1>9 DEF OutputData, DaoOutputData, PlainOutputData, SetDaoTag
  <2>2. TagOfData
    BY <1>4, <2>1
  <2>3. dao => /\ tag \in {NOT_SET, IF nonzero THEN PREPARE ELSE DEPOSIT}
               /\ tag' = IF nonzero THEN PREPARE ELSE DEPOSIT
    BY <1>9, <2>1 DEF SetDaoTag
  <2>4. ASSUME NEW i \in 1 .. checked + 1, IsDao(outs[i])
        PROVE  tag' = IF Nonzero(i) THEN PREPARE ELSE DEPOSIT
    <3>1. CASE i = checked + 1
      BY <1>3, <1>6, <1>8, <2>3, <2>4, <3>1
    <3>2. CASE i \in 1 .. checked
      <4>1. tag = IF Nonzero(i) THEN PREPARE ELSE DEPOSIT
        BY <2>2, <2>4, <3>2 DEF TagOfData
      <4>2. tag' = tag
        BY <2>1, <2>3, <4>1 DEF NOT_SET, PREPARE, DEPOSIT
      <4>. QED
        BY <4>1, <4>2
    <3>. QED
      BY <1>5, <3>1, <3>2
  <2>5. tag' = DEPOSIT => Has(outs, DaoCells)
    <3>1. CASE dao
      <4>1. checked + 1 \in 1 .. Len(outs)
        BY <1>1, <1>3
      <4>2. c \in DaoCells
        BY <1>1, <1>3, <1>8, <3>1, <4>1, Kinds
      <4>. QED
        BY <1>3, <4>1, <4>2, HasMeans
    <3>2. CASE ~dao
      BY <2>1, <2>2, <3>2 DEF TagOfData
    <3>. QED
      BY <3>1, <3>2
  <2>. QED
    BY <1>2, <2>4, <2>5 DEF TagOfData, Nonzero, DaoCells, IsDao
<1>. QED
  BY <1>2, <1>6, <1>7, <1>9 DEF Nonzero

\* Every step keeps DataTags.
LEMMA DataTagsStep ==
  TypeOK /\ FlagsAgree /\ Phase /\ Mask /\ DataTags /\ [Next]_vars => DataTags'
<1> SUFFICES ASSUME TypeOK, FlagsAgree, Phase, Mask, DataTags, [Next]_vars
             PROVE  DataTags'
  OBVIOUS
<1>1. /\ outs \in Seq(AnyCell) /\ Len(outs) \in Nat /\ checked \in Nat
      /\ INT_WIDTH \in Nat /\ cell \in AnyCell
  BY BoundsAssumption DEF TypeOK, AnyCell
<1>2. CASE \E c \in OutCells : OutputData(c)
  <2>1. pc' = "data"
    BY <1>2 DEF OutputData
  <2>. QED
    BY <1>2, <2>1, DataTagsOfData DEF DataTags
<1>3. CASE OutputEnd
  <2>1. /\ pc' = "outs" /\ cell_state'.dao_data_is_nonzero = FALSE
        /\ checked' = 0 /\ checked = 0 /\ outs' = Append(outs, cell)
        /\ Len(outs') = Len(outs) + 1
    BY <1>3, OutputEndContinues, OutsGrow DEF OutputEnd, ZeroCellState, Phase, Early
  <2>2. ASSUME Len(outs') <= INT_WIDTH, ~unsafe' PROVE TagOfData'
    <3>1. TagOfData
      BY <1>1, <2>1, <2>2, RefusedStays DEF DataTags
    <3>2. tag' = DEPOSIT => tag = DEPOSIT
      BY <1>3, OutputEndTag DEF MULTI_OUTPUT, DEPOSIT
    <3>3. tag' = DEPOSIT => Has(outs', DaoCells)
      BY <1>1, <2>1, <3>1, <3>2, HasAppend DEF TagOfData
    <3>. QED
      BY <2>1, <3>3 DEF TagOfData, DaoCells
  <2>. QED
    BY <2>1, <2>2 DEF DataTags
<1>4. CASE ~OutputEnd /\ ~\E c \in OutCells : OutputData(c)
  <2>1. UNCHANGED <<outs, checked>>
    BY <1>4, OnlyOutputEnd, OnlyOutputData
  <2>2. ASSUME checked <= Len(outs), Len(outs) <= INT_WIDTH, ~unsafe'
        PROVE  TagOfData'
    <3>1. TagOfData
      BY <2>2, RefusedStays DEF DataTags
    <3>2. tag \in {PREPARE, DEPOSIT} => tag' = tag
      BY <2>2, TagStays
    <3>3. tag' = DEPOSIT => tag = DEPOSIT
      BY <1>4, TagOrigin
    <3>. QED
      BY <2>1, <3>1, <3>2, <3>3 DEF TagOfData, Nonzero, DaoCells, IsDao
  <2>3. CASE UNCHANGED <<pc, cell_state>>
    BY <2>1, <2>2, <2>3 DEF DataTags, Nonzero
  <2>4. CASE pc' \notin {"outs", "data"}
    BY <2>1, <2>2, <2>4 DEF DataTags
  <2>5. CASE FinishInputs
    <3>1. pc' = "outs" /\ outs' = <<>>
      BY <2>1, <2>5 DEF FinishInputs, Phase
    <3>. QED
      BY <2>1, <2>2, <3>1 DEF DataTags
  <2>6. CASE OutputsEnd
    <3>1. pc = "outs" /\ pc' = "data" /\ cell_state' = cell_state /\ checked = 0
      BY <2>6, OutputsEndContinues DEF OutputsEnd, Phase, Early
    <3>2. ~Nonzero(0)
      BY DEF Nonzero
    <3>. QED
      BY <2>1, <2>2, <3>1, <3>2 DEF DataTags, Nonzero
  <2>7. CASE \/ \E change \in ChangeHashes, n, declared \in 0 .. MaxIns :
                  SetPaths(change, n, declared)
             \/ \E c \in InCells : StartInput(c)
             \/ \E c \in OutCells : StartOutput(c)
             \/ \E n \in 1 .. Len(cell.args) : ScriptArgChunk(n)
             \/ InputNotFound \/ InputLockArgEnd \/ InputData
             \/ \E secure_only \in BOOLEAN : SignComplete(secure_only)
             \/ FinalizeRawTransaction \/ RefuseNextApdu \/ PathsRefused
    <3>1. pc' \notin {"outs", "data"}
      BY <2>7 DEF SetPaths, StartInput, StartOutput, ScriptArgChunk, InputNotFound,
         InputLockArgEnd, InputData, SignComplete, FinalizeRawTransaction,
         RefuseNextApdu, PathsRefused
    <3>. QED
      BY <2>4, <3>1
  <2>8. CASE SwitchContractData \/ Done \/ UNCHANGED vars
    BY <2>3, <2>8 DEF SwitchContractData, Done, vars
  <2>. QED
    BY <1>4, <2>5, <2>6, <2>7, <2>8 DEF Next
<1>. QED
  BY <1>2, <1>3, <1>4

-----------------------------------------------------------------------------
(* Payments and change *)

\* The state after outputs_end took the change for the payment.
Swapped ==
  /\ plain_output_amount = Capacity(outs, ChangeCells)
  /\ ~Has(outs, PaymentCells) /\ Has(outs, ChangeCells \cup DaoCells)
  /\ output_count = 1 /\ outputs[1].is_multisig = FALSE
  /\ HashOf(outputs[1].destination) = change_lock_arg
  /\ dao_bitmask = {} /\ tag \notin {MULTI_OUTPUT, DEPOSIT, PREPARE, WITHDRAW}

\* The place of the parser behind outputs_end.
Behind == pc \in {"data", "witnesses"} \/ Prompted

\* The state otherwise: amounts by kind, flags by kind, entries for payments.
Amounts ==
  /\ plain_output_amount = Capacity(outs, PaymentCells)
  /\ change_amount = Capacity(outs, ChangeCells)
  /\ output_count = 0 => plain_output_amount = 0
FlagsKept ==
  /\ output_count > 0 <=> Has(outs, PaymentCells)
  /\ CHANGE \in flags => Has(outs, ChangeCells \cup DaoCells)
  /\ Has(outs, ChangeCells) => CHANGE \in flags
  /\ \A i \in output_count + 1 .. MAX_OUTPUTS : outputs[i] = ZeroOutput
TagsKept ==
  /\ output_count > 1 => tag = MULTI_OUTPUT
  /\ tag = MULTI_OUTPUT => output_count > 0
  /\ Behind /\ Has(outs, ChangeCells) /\ ~Has(outs, PaymentCells) =>
       dao_bitmask # {} \/ tag \in {PREPARE, WITHDRAW}

\* Unless the transaction was refused, what is kept of its outputs is what its
\* cells are, before and after the swap of outputs_end.
Paid ==
  ~unsafe /\ AllWellFormed(outs) =>
    /\ is_self_transfer => Swapped
    /\ ~is_self_transfer => Amounts /\ FlagsKept /\ TagsKept

\* Only output_end and outputs_end write what is kept of outputs.
LEMMA OnlyOutputs ==
  ASSUME [Next]_vars, ~OutputEnd, ~OutputsEnd
  PROVE  /\ UNCHANGED <<outs, dao_bitmask, plain_output_amount, change_amount,
                        outputs, output_count, flags, is_self_transfer>>
         /\ Behind' => Behind
<1>1. CASE \/ \E change \in ChangeHashes, n, declared \in 0 .. MaxIns :
                SetPaths(change, n, declared)
           \/ \E c \in InCells : StartInput(c)
           \/ \E c \in OutCells : StartOutput(c)
           \/ \E n \in 1 .. Len(cell.args) : ScriptArgChunk(n)
           \/ InputNotFound \/ InputLockArgEnd \/ FinishInputs \/ InputData
  BY <1>1 DEF SetPaths, StartInput, StartOutput, ScriptArgChunk, InputNotFound,
     InputLockArgEnd, FinishInputs, InputData, Behind, Prompted
<1>2. CASE \/ \E c \in OutCells : OutputData(c)
           \/ \E secure_only \in BOOLEAN : SignComplete(secure_only)
           \/ FinalizeRawTransaction \/ RefuseNextApdu
           \/ PathsRefused \/ SwitchContractData \/ Done \/ UNCHANGED vars
  BY <1>2 DEF OutputData, FinalizeRawTransaction, RefuseNextApdu, PathsRefused,
     SignComplete, Refuse, SwitchContractData, Done, vars, Behind, Prompted
<1>. QED
  BY <1>1, <1>2 DEF Next

\* What output_end does with a payment, unless it refuses the transaction.
LEMMA DestinationKept ==
  ASSUME TypeOK, FlagsAgree, pc = "out_args", DestinationOutput, ~unsafe'
  PROVE  /\ ~unsafe /\ output_count' \in 1 .. MAX_OUTPUTS /\ DEST \in flags'
         /\ CHANGE \in flags' <=> CHANGE \in flags
         /\ plain_output_amount' = AddW(plain_output_amount, cell_state.capacity)
         /\ UNCHANGED change_amount
         /\ \/ /\ output_count = 0 /\ output_count' = 1 /\ tag' = tag
               /\ Credit(1, lock_arg_tmp, cell_state.is_multisig, outputs[1].capacity)
            \/ /\ output_count' = output_count /\ tag' = tag /\ SameDestination
               /\ Credit(output_count, outputs[output_count].destination,
                         outputs[output_count].is_multisig,
                         outputs[output_count].capacity)
            \/ /\ output_count > 0 /\ output_count' = output_count + 1
               /\ tag' = MULTI_OUTPUT /\ ~SameDestination
               /\ Credit(output_count + 1, lock_arg_tmp, cell_state.is_multisig,
                         outputs[output_count + 1].capacity)
<1>1. /\ output_count \in 0 .. MAX_OUTPUTS /\ MAX_OUTPUTS \in Nat /\ MAX_OUTPUTS > 0
      /\ unsafe \in BOOLEAN
  BY BoundsAssumption DEF TypeOK
<1>2. DEST \in flags <=> output_count > 0
  BY DEF FlagsAgree
<1>3. CASE FirstDestination
  <2>1. output_count = 0
    BY <1>1, <1>2, <1>3 DEF FirstDestination
  <2>2. /\ Credit(1, lock_arg_tmp, cell_state.is_multisig, outputs[1].capacity)
        /\ ~unsafe /\ tag' = tag
    BY <1>1, <1>3, <2>1 DEF FirstDestination
  <2>. QED
    BY <1>1, <2>1, <2>2 DEF Credit, DestinationOutput, DEST, CHANGE
<1>4. CASE CoalescedDestination
  <2>1. /\ Credit(output_count, outputs[output_count].destination,
                  outputs[output_count].is_multisig, outputs[output_count].capacity)
        /\ ~unsafe /\ tag' = tag /\ SameDestination /\ output_count > 0
    BY <1>1, <1>2, <1>4 DEF CoalescedDestination
  <2>. QED
    BY <1>1, <2>1 DEF Credit, DestinationOutput, DEST, CHANGE
<1>5. CASE FurtherDestination
  <2>1. ~(TagRefusesOutput \/ output_count >= MAX_OUTPUTS)
    BY <1>5 DEF FurtherDestination
  <2>2. /\ Credit(output_count + 1, lock_arg_tmp, cell_state.is_multisig,
                  outputs[output_count + 1].capacity)
        /\ ~unsafe /\ tag' = MULTI_OUTPUT /\ ~SameDestination /\ output_count > 0
    BY <1>1, <1>2, <1>5, <2>1 DEF FurtherDestination
  <2>. QED
    BY <1>1, <2>1, <2>2 DEF Credit, DestinationOutput, DEST, CHANGE
<1>. QED
  BY <1>3, <1>4, <1>5 DEF DestinationOutput

\* One output more.
LEMMA PaidOutput ==
  ASSUME TypeOK, FlagsAgree, Phase, CapacityKept, ReceivedSoFar, CellKept, Paid,
         OutputEnd, ~unsafe', AllWellFormed(outs)', ~unsafe
  PROVE  ~is_self_transfer' /\ Amounts' /\ FlagsKept' /\ TagsKept'
<1>1. /\ outs \in Seq(AnyCell) /\ cell \in AnyCell /\ outs' = Append(outs, cell)
      /\ output_count \in 0 .. MAX_OUTPUTS /\ MAX_OUTPUTS \in Nat
      /\ outputs \in [1 .. MAX_OUTPUTS -> Output]
  BY BoundsAssumption DEF TypeOK, AnyCell, OutputEnd
<1>2. /\ pc = "out_args" /\ pc' = "outs" /\ ~is_self_transfer /\ ~is_self_transfer'
      /\ change_lock_arg' = change_lock_arg /\ screens' = screens
  BY OutputEndContinues DEF OutputEnd, Phase, Early
<1>3. ~Behind'
  BY <1>2 DEF Behind, Prompted, Phase
<1>4. Amounts /\ FlagsKept /\ TagsKept /\ WellFormed(cell)
  BY <1>2, WellFormedGrow DEF Paid
<1>5. Foreign <=> ~PaysTo(cell, change_lock_arg)
  BY <1>4, OutputReceived
<1>6. /\ PaymentCells' = PaymentCells /\ ChangeCells' = ChangeCells /\ DaoCells' = DaoCells
  BY <1>2 DEF PaymentCells, ChangeCells, DaoCells, PaysTo, IsDao, AnyCell
<1>7. \A kind : /\ Has(outs', kind) <=> Has(outs, kind) \/ cell \in kind
                /\ Capacity(outs', kind) = IF cell \in kind
                     THEN AddW(Capacity(outs, kind), cell.cap) ELSE Capacity(outs, kind)
  BY <1>1, HasAppend, CapacityAppend
<1>8. cell_state.capacity = cell.cap
  BY <1>2 DEF CapacityKept
<1>9. CASE IsDao(cell)
  <2>1. /\ cell \in DaoCells /\ cell \notin PaymentCells /\ cell \notin ChangeCells
        /\ cell \in ChangeCells \cup DaoCells
    BY <1>1, <1>9, Kinds
  <2>2. /\ UNCHANGED <<tag, outputs, output_count, plain_output_amount, change_amount>>
        /\ flags \subseteq flags'
    BY <1>9 DEF OutputEnd, DaoOutput, DestinationOutput, ChangeOutput, IsDao
  <2>3. Amounts'
    BY <1>4, <1>6, <1>7, <2>1, <2>2 DEF Amounts
  <2>4. FlagsKept'
    BY <1>4, <1>6, <1>7, <2>1, <2>2 DEF FlagsKept
  <2>5. TagsKept'
    BY <1>3, <1>4, <2>2 DEF TagsKept
  <2>. QED
    BY <1>2, <2>3, <2>4, <2>5
<1>10. CASE ~IsDao(cell) /\ ~Foreign
  <2>1. /\ cell \notin DaoCells /\ cell \notin PaymentCells /\ cell \in ChangeCells
        /\ cell \in ChangeCells \cup DaoCells
    BY <1>1, <1>5, <1>10, Kinds
  <2>2. /\ UNCHANGED <<tag, outputs, output_count, plain_output_amount>>
        /\ flags' = flags \cup {CHANGE} /\ change_amount' = AddW(change_amount, cell.cap)
    BY <1>8, <1>10 DEF OutputEnd, DaoOutput, DestinationOutput, ChangeOutput, IsDao
  <2>3. Amounts'
    BY <1>4, <1>6, <1>7, <2>1, <2>2 DEF Amounts
  <2>4. FlagsKept'
    BY <1>4, <1>6, <1>7, <2>1, <2>2 DEF FlagsKept
  <2>5. TagsKept'
    BY <1>3, <1>4, <2>2 DEF TagsKept
  <2>. QED
    BY <1>2, <2>3, <2>4, <2>5
<1>11. CASE ~IsDao(cell) /\ Foreign
  <2>1. /\ cell \notin DaoCells /\ cell \in PaymentCells /\ cell \notin ChangeCells
        /\ cell \notin ChangeCells \cup DaoCells
    BY <1>1, <1>5, <1>11, Kinds
  <2>2. DestinationOutput
    BY <1>11 DEF OutputEnd, DaoOutput, ChangeOutput, IsDao
  <2>3. /\ output_count' \in 1 .. MAX_OUTPUTS /\ (CHANGE \in flags' <=> CHANGE \in flags)
        /\ plain_output_amount' = AddW(plain_output_amount, cell.cap)
        /\ change_amount' = change_amount
    BY <1>2, <1>8, <2>2, DestinationKept
  <2>4. output_count' > 1 => tag' = MULTI_OUTPUT
    BY <1>2, <1>4, <2>2, DestinationKept DEF TagsKept
  <2>5. \A i \in output_count' + 1 .. MAX_OUTPUTS : outputs'[i] = ZeroOutput
    <3>1. \A i \in output_count' + 1 .. MAX_OUTPUTS :
            i \in output_count + 1 .. MAX_OUTPUTS /\ i # output_count'
      <4>1. \/ output_count = 0 /\ output_count' = 1
            \/ output_count' = output_count
            \/ output_count' = output_count + 1
        BY <1>2, <2>2, DestinationKept
      <4>2. output_count \in Nat /\ output_count' \in Nat /\ output_count <= output_count'
        BY <1>1, <2>3, <4>1
      <4>3. ASSUME NEW m \in Nat, NEW n \in Nat, NEW top \in Nat, m <= n
            PROVE  \A i \in n + 1 .. top : i \in m + 1 .. top /\ i # n
        BY <4>3
      <4>4. MAX_OUTPUTS \in Nat
        BY <1>1
      <4>. QED
        BY <4>2, <4>3, <4>4, Zenon
    <3>2. \A i \in 1 .. MAX_OUTPUTS : i # output_count' => outputs'[i] = outputs[i]
      <4>1. PICK j, dest, multisig, before :
              Credit(j, dest, multisig, before) /\ j = output_count'
        BY <1>2, <2>2, DestinationKept DEF Credit
      <4>. QED
        BY <1>1, <4>1 DEF Credit
    <3>. QED
      BY <1>1, <1>4, <3>1, <3>2 DEF FlagsKept
  <2>6. Amounts'
    BY <1>4, <1>6, <1>7, <2>1, <2>3 DEF Amounts
  <2>7. FlagsKept'
    <3>1. output_count' > 0
      BY <1>1, <2>3
    <3>. QED
      BY <1>4, <1>6, <1>7, <2>1, <2>3, <2>5, <3>1 DEF FlagsKept
  <2>8. TagsKept'
    <3>1. output_count' > 0
      BY <1>1, <2>3
    <3>. QED
      BY <1>3, <2>4, <3>1 DEF TagsKept
  <2>. QED
    BY <1>2, <2>6, <2>7, <2>8
<1>. QED
  BY <1>9, <1>10, <1>11

\* outputs_end swaps the change for the payment, or nothing.
LEMMA PaidOutputsEnd ==
  ASSUME TypeOK, FlagsAgree, Phase, Paid, OutputsEnd, ~unsafe, AllWellFormed(outs)
  PROVE  /\ is_self_transfer' => Swapped'
         /\ ~is_self_transfer' => Amounts' /\ FlagsKept' /\ TagsKept'
<1>1. /\ pc = "outs" /\ pc' = "data" /\ ~is_self_transfer
      /\ is_self_transfer' = (~DaoSoFar /\ AllChange)
      /\ UNCHANGED <<outs, tag, dao_bitmask, change_lock_arg, screens>>
  BY OutputsEndContinues DEF OutputsEnd, Phase, Early
<1>2. Amounts /\ FlagsKept /\ TagsKept
  BY <1>1 DEF Paid
<1>3. /\ PaymentCells' = PaymentCells /\ ChangeCells' = ChangeCells /\ DaoCells' = DaoCells
  BY <1>1 DEF PaymentCells, ChangeCells, DaoCells, PaysTo, IsDao, AnyCell
<1>4. /\ HASH \in Nat /\ ARG \in Nat /\ HASH < ARG /\ MAX_OUTPUTS \in Nat
      /\ MAX_OUTPUTS > 0 /\ output_count \in 0 .. MAX_OUTPUTS
      /\ outputs \in [1 .. MAX_OUTPUTS -> Output] /\ change_lock_arg \in [1 .. HASH -> UNIT]
  BY BoundsAssumption DEF TypeOK, Hash
<1>5. CASE ~DaoSoFar /\ AllChange
  <2>1. plain_output_amount = 0 /\ output_count = 0
    BY <1>5, OutputsEndContinues
  <2> DEFINE dest == [k \in 1 .. ARG |-> IF k <= HASH THEN change_lock_arg[k]
                                         ELSE outputs[1].destination[k]]
  <2>2. /\ plain_output_amount' = change_amount /\ output_count' = 1
        /\ outputs' = [outputs EXCEPT ![1].destination = dest]
    BY <1>5, <2>1 DEF OutputsEnd, SelfTransfer
  <2>3. outputs[1] \in Output /\ outputs[1] = ZeroOutput
    BY <1>2, <1>4, <2>1 DEF FlagsKept
  <2>4. outputs'[1].is_multisig = FALSE /\ outputs'[1].destination = dest
    <3> HIDE DEF dest
    <3>1. outputs'[1] = [outputs[1] EXCEPT !.destination = dest]
      BY <1>4, <2>2
    <3>. QED
      BY <2>3, <3>1 DEF ZeroOutput
  <2>5. HashOf(dest) = change_lock_arg
    <3>1. \A k \in 1 .. HASH : dest[k] = change_lock_arg[k]
      BY <1>4
    <3>2. HashOf(dest) = [k \in 1 .. HASH |-> change_lock_arg[k]]
      BY <3>1 DEF HashOf
    <3>. QED
      BY <1>4, <3>2
  <2>6. ~Has(outs, PaymentCells) /\ Has(outs, ChangeCells \cup DaoCells)
    BY <1>2, <1>5, <2>1 DEF FlagsKept, AllChange
  <2>7. dao_bitmask = {} /\ tag \notin {MULTI_OUTPUT, DEPOSIT, PREPARE, WITHDRAW}
    <3>1. tag # MULTI_OUTPUT
      BY <1>2, <2>1 DEF TagsKept
    <3>2. tag # DEPOSIT
      BY <1>1 DEF Phase, Early, NOT_SET, MULTI_OUTPUT, PREPARE, WITHDRAW, DEPOSIT
    <3>. QED
      BY <1>5, <3>1, <3>2 DEF DaoSoFar
  <2> HIDE DEF dest
  <2>8. Swapped'
    BY <1>1, <1>2, <1>3, <2>2, <2>4, <2>5, <2>6, <2>7 DEF Swapped, Amounts
  <2>. QED
    BY <1>1, <1>5, <2>8
<1>6. CASE DaoSoFar \/ ~AllChange
  <2>1. UNCHANGED <<outputs, output_count, plain_output_amount, change_amount, flags>>
    BY <1>6 DEF OutputsEnd
  <2>2. Amounts'
    BY <1>1, <1>2, <1>3, <2>1 DEF Amounts
  <2>3. FlagsKept'
    BY <1>1, <1>2, <1>3, <2>1 DEF FlagsKept
  <2>4. Has(outs, ChangeCells) /\ ~Has(outs, PaymentCells) => AllChange
    BY <1>1, <1>2, <1>4 DEF FlagsKept, FlagsAgree, AllChange
  <2>5. TagsKept'
    BY <1>1, <1>2, <1>3, <1>6, <2>1, <2>4 DEF TagsKept, DaoSoFar
  <2>. QED
    BY <1>1, <1>6, <2>2, <2>3, <2>5
<1>. QED
  BY <1>5, <1>6

\* Every step keeps Paid.
LEMMA PaidStep ==
  TypeOK /\ FlagsAgree /\ Phase /\ CapacityKept /\ ReceivedSoFar /\ CellKept /\ Paid
    /\ [Next]_vars => Paid'
<1> SUFFICES ASSUME TypeOK, FlagsAgree, Phase, CapacityKept, ReceivedSoFar, CellKept,
                    Paid, [Next]_vars, ~unsafe', AllWellFormed(outs)'
             PROVE  /\ is_self_transfer' => Swapped'
                    /\ ~is_self_transfer' => Amounts' /\ FlagsKept' /\ TagsKept'
  BY DEF Paid
<1>1. ~unsafe
  BY RefusedStays
<1>2. CASE OutputEnd
  BY <1>1, <1>2, PaidOutput
<1>3. CASE OutputsEnd
  <2>1. AllWellFormed(outs)
    BY <1>3 DEF OutputsEnd, AllWellFormed
  <2>. QED
    BY <1>1, <1>3, <2>1, PaidOutputsEnd
<1>4. CASE ~OutputEnd /\ ~OutputsEnd
  <2>1. /\ UNCHANGED <<outs, dao_bitmask, plain_output_amount, change_amount,
                       outputs, output_count, flags, is_self_transfer>>
        /\ Behind' => Behind
    BY <1>4, OnlyOutputs
  <2>2. AllWellFormed(outs)
    BY <2>1 DEF AllWellFormed
  <2>3. outs = <<>> \/ change_lock_arg' = change_lock_arg
    BY <1>4, <2>1, KeysKept
  <2>4. /\ Capacity(outs, PaymentCells') = Capacity(outs, PaymentCells)
        /\ Capacity(outs, ChangeCells') = Capacity(outs, ChangeCells)
        /\ Has(outs, PaymentCells') <=> Has(outs, PaymentCells)
        /\ Has(outs, ChangeCells') <=> Has(outs, ChangeCells)
        /\ Has(outs, ChangeCells' \cup DaoCells') <=> Has(outs, ChangeCells \cup DaoCells)
    <3>1. CASE outs = <<>>
      BY <3>1, CapacityEmpty, HasMeans
    <3>2. CASE change_lock_arg' = change_lock_arg
      <4>1. /\ PaymentCells' = PaymentCells /\ ChangeCells' = ChangeCells
            /\ DaoCells' = DaoCells
        BY <3>2 DEF PaymentCells, ChangeCells, DaoCells, PaysTo, IsDao, AnyCell
      <4>. QED
        BY <4>1
    <3>. QED
      BY <2>3, <3>1, <3>2
  <2>5. CASE is_self_transfer
    <3>1. Swapped
      BY <1>1, <2>2, <2>5 DEF Paid
    <3>2. change_lock_arg' = change_lock_arg
      BY <2>3, <3>1, HasMeans DEF Swapped
    <3>3. pc \notin Early
      BY <2>5 DEF Phase
    <3>4. tag' \notin {MULTI_OUTPUT, DEPOSIT, PREPARE, WITHDRAW}
      <4>1. CASE \E c \in OutCells : OutputData(c)
        <5>1. tag' = tag
          BY <3>1, <4>1 DEF Swapped, OutputData, DaoOutputData, PlainOutputData
        <5>. QED
          BY <3>1, <5>1 DEF Swapped
      <4>2. ~InputData
        BY <3>3 DEF InputData, Early
      <4>. QED
        BY <1>4, <3>1, <4>1, <4>2, TagOrigin DEF Swapped
    <3>5. Swapped'
      BY <2>1, <2>4, <3>1, <3>2, <3>4 DEF Swapped
    <3>. QED
      BY <2>1, <2>5, <3>5
  <2>6. CASE ~is_self_transfer
    <3>1. Amounts /\ FlagsKept /\ TagsKept
      BY <1>1, <2>2, <2>6 DEF Paid
    <3>2. Amounts'
      BY <2>1, <2>4, <3>1 DEF Amounts
    <3>3. FlagsKept'
      BY <2>1, <2>4, <3>1 DEF FlagsKept
    <3>4. tag \in {MULTI_OUTPUT, PREPARE, WITHDRAW} => tag' = tag
      BY TagStays
    <3>5. tag' = MULTI_OUTPUT => tag = MULTI_OUTPUT
      BY <1>4, TagOrigin
    <3>6. TagsKept'
      BY <2>1, <2>4, <3>1, <3>4, <3>5 DEF TagsKept
    <3>. QED
      BY <2>1, <2>6, <3>2, <3>3, <3>6
  <2>. QED
    BY <2>5, <2>6
<1>. QED
  BY <1>2, <1>3, <1>4

-----------------------------------------------------------------------------
(* The end of the raw transaction *)

\* What finalize_raw_transaction leaves, unless it refuses the transaction.
Finalized ==
  /\ tag \in {PLAIN, SELF, MULTI_INPUT, MULTI_OUTPUT} =>
       v.amount_snd = plain_output_amount
  /\ v.dao_amount = DaoAmount
  /\ tag = PREPARE => dao_output_amount = dao_input_amount
  /\ tag = WITHDRAW => plain_output_amount = 0
  /\ tag = SELF => is_self_transfer
  /\ tag = PLAIN => ~is_self_transfer
  /\ tag = MULTI_INPUT =>
       /\ v.amount_fst = input_fst /\ v.input_count_snd = distinct_input_sources
       /\ signing_multisig_input = FALSE /\ input_index # 0

Final == (pc = "witnesses" /\ ~unsafe) \/ Prompted => Finalized

\* The screens appear in the last step.
LEMMA OnlySignComplete ==
  ASSUME [Next]_vars, ~\E secure_only \in BOOLEAN : SignComplete(secure_only)
  PROVE  screens' = screens
<1>1. CASE \/ \E change \in ChangeHashes, n, declared \in 0 .. MaxIns :
                SetPaths(change, n, declared)
           \/ \E c \in InCells : StartInput(c)
           \/ \E c \in OutCells : StartOutput(c)
           \/ \E n \in 1 .. Len(cell.args) : ScriptArgChunk(n)
           \/ InputNotFound \/ InputLockArgEnd \/ FinishInputs \/ InputData
  BY <1>1 DEF SetPaths, StartInput, StartOutput, ScriptArgChunk, InputNotFound,
     InputLockArgEnd, FinishInputs, InputData
<1>2. CASE \/ \E c \in OutCells : OutputData(c)
           \/ OutputEnd \/ OutputsEnd \/ FinalizeRawTransaction \/ RefuseNextApdu
           \/ PathsRefused \/ SwitchContractData \/ Done \/ UNCHANGED vars
  BY <1>2 DEF OutputData, OutputEnd, OutputsEnd, FinalizeRawTransaction, RefuseNextApdu,
     PathsRefused, Refuse, SwitchContractData, Done, vars
<1>. QED
  BY <1>1, <1>2 DEF Next

\* finalize_raw_transaction fills the fields of the prompt of each tag.
LEMMA FinalizeFills ==
  ASSUME TypeOK, Phase, FinalizeRawTransaction, ~unsafe'
  PROVE  Finalized'
<1>1. /\ pc = "data" /\ tag \in {NOT_SET, MULTI_OUTPUT, DEPOSIT, PREPARE, WITHDRAW}
      /\ tag' = FinalTag /\ signing_multisig_input \in BOOLEAN /\ unsafe \in BOOLEAN
      /\ UNCHANGED <<plain_output_amount, dao_output_amount, dao_input_amount,
                     is_self_transfer, input_fst, distinct_input_sources,
                     signing_multisig_input, input_index>>
  BY DEF FinalizeRawTransaction, Phase, TypeOK
<1>2. ~FinalizeRejects /\ v' = FinalV
  BY <1>1 DEF FinalizeRawTransaction
<1>3. /\ v'.amount_fst = IF tag' = MULTI_INPUT THEN input_fst ELSE 0
      /\ v'.amount_snd = IF tag \in Transfers \cup {SELF, MULTI_OUTPUT}
                         THEN plain_output_amount ELSE 0
      /\ v'.dao_amount = DaoAmount
      /\ v'.input_count_snd = IF tag' = MULTI_INPUT THEN distinct_input_sources ELSE 0
  BY <1>1, <1>2 DEF FinalV
<1>4. CASE tag = NOT_SET
  <2>1. tag' = IF distinct_input_sources > 1
               THEN IF signing_multisig_input THEN tag ELSE MULTI_INPUT
               ELSE IF is_self_transfer THEN SELF ELSE PLAIN
    BY <1>1, <1>4 DEF FinalTag, Transfers
  <2>2. distinct_input_sources > 1 => ~signing_multisig_input /\ input_index # 0
    BY <1>2, <1>4 DEF FinalizeRejects, Transfers
  <2>. QED
    BY <1>1, <1>3, <1>4, <2>1, <2>2
    DEF Finalized, DaoAmount, Transfers, NOT_SET, PLAIN, SELF, MULTI_INPUT, MULTI_OUTPUT,
        DEPOSIT, PREPARE, WITHDRAW
<1>5. CASE tag # NOT_SET
  <2>1. tag' = tag
    BY <1>1, <1>5 DEF FinalTag, Transfers, NOT_SET, PLAIN, MULTI_OUTPUT,
       DEPOSIT, PREPARE, WITHDRAW
  <2>2. /\ tag = PREPARE => dao_output_amount = dao_input_amount
        /\ tag = WITHDRAW => plain_output_amount = 0
    BY <1>2 DEF FinalizeRejects
  <2>. QED
    BY <1>1, <1>3, <1>5, <2>1, <2>2
    DEF Finalized, DaoAmount, Transfers, NOT_SET, PLAIN, SELF, MULTI_INPUT, MULTI_OUTPUT,
        DEPOSIT, PREPARE, WITHDRAW
<1>. QED
  BY <1>4, <1>5

\* Every step keeps Final.
LEMMA FinalStep == TypeOK /\ Phase /\ Final /\ [Next]_vars => Final'
<1> SUFFICES ASSUME TypeOK, Phase, Final, [Next]_vars,
                    (pc' = "witnesses" /\ ~unsafe') \/ Prompted'
             PROVE  Finalized'
  BY DEF Final
<1>1. CASE FinalizeRawTransaction
  <2>1. ~unsafe'
    BY <1>1 DEF FinalizeRawTransaction, Phase, Prompted
  <2>. QED
    BY <1>1, <2>1, FinalizeFills
<1>2. CASE \E secure_only \in BOOLEAN : SignComplete(secure_only)
  <2>1. pc = "witnesses" /\ pc' = "end" /\ screens = <<>> /\ screens' # <<>>
    BY <1>2 DEF SignComplete, Phase, Prompted
  <2>2. ~unsafe /\ tag' = tag
    BY <1>2, <2>1 DEF SignComplete, Refuse
  <2>3. Finalized
    BY <2>1, <2>2 DEF Final
  <2>4. UNCHANGED <<v, plain_output_amount, dao_output_amount, dao_input_amount,
                    is_self_transfer, input_fst, distinct_input_sources,
                    signing_multisig_input, input_index>>
    BY <1>2 DEF SignComplete
  <2>. QED
    BY <2>2, <2>3, <2>4 DEF Finalized, DaoAmount
<1>3. CASE SwitchContractData \/ Done \/ UNCHANGED vars
  <2>1. UNCHANGED <<pc, unsafe, screens, tag, v, plain_output_amount,
                    dao_output_amount, dao_input_amount, is_self_transfer, input_fst,
                    distinct_input_sources, signing_multisig_input, input_index>>
    BY <1>3 DEF SwitchContractData, Done, vars
  <2>. QED
    BY <2>1 DEF Final, Prompted, Finalized, DaoAmount
<1>4. CASE \/ \E change \in ChangeHashes, n, declared \in 0 .. MaxIns :
                SetPaths(change, n, declared)
           \/ \E c \in InCells : StartInput(c)
           \/ \E c \in OutCells : StartOutput(c)
           \/ \E c \in OutCells : OutputData(c)
           \/ \E n \in 1 .. Len(cell.args) : ScriptArgChunk(n)
           \/ InputNotFound \/ InputLockArgEnd \/ FinishInputs \/ InputData
  <2>1. pc # "end" /\ pc' # "witnesses" /\ screens' = screens
    BY <1>4 DEF SetPaths, StartInput, StartOutput, ScriptArgChunk, InputNotFound,
       InputLockArgEnd, FinishInputs, InputData, OutputData
  <2>. QED
    BY <2>1 DEF Phase, Prompted
<1>5. CASE OutputEnd \/ OutputsEnd \/ RefuseNextApdu \/ PathsRefused
  <2>1. pc # "end" /\ pc' # "witnesses" /\ screens' = screens
    BY <1>5 DEF OutputEnd, OutputsEnd, SelfTransfer, DaoOutput,
       DestinationOutput, FirstDestination, CoalescedDestination, Refuse,
       FurtherDestination, ChangeOutput, Continue, Throw, RefuseNextApdu, PathsRefused
  <2>. QED
    BY <2>1 DEF Phase, Prompted
<1>. QED
  BY <1>1, <1>2, <1>3, <1>4, <1>5 DEF Next

-----------------------------------------------------------------------------
(* The owner of the DAO cells *)

\* The lock argument of an input that fits is received whole.
ArgReceived ==
  pc = "in_data" /\ Len(cell.args) <= ARG => HashOf(lock_arg_tmp) = SourceOf(cell)

\* Every step keeps ArgReceived.
LEMMA ArgReceivedStep == TypeOK /\ ReceivedSoFar /\ ArgReceived /\ [Next]_vars => ArgReceived'
<1> SUFFICES ASSUME TypeOK, ReceivedSoFar, ArgReceived, [Next]_vars,
                    pc' = "in_data", Len(cell'.args) <= ARG
             PROVE  HashOf(lock_arg_tmp') = SourceOf(cell')
  BY DEF ArgReceived, HashOf, SourceOf, Pad
<1>1. CASE InputLockArgEnd
  <2>1. /\ pc = "in_args" /\ sent = Len(cell.args)
        /\ cell' = cell /\ lock_arg_tmp' = lock_arg_tmp
    BY <1>1 DEF InputLockArgEnd
  <2>2. lock_arg_tmp = [k \in 1 .. ARG |-> IF k <= sent THEN cell.args[k] ELSE 0]
    BY <2>1 DEF ReceivedSoFar
  <2>3. lock_arg_tmp = Pad(cell.args)
    BY <2>1, <2>2 DEF Pad
  <2>. QED
    BY <2>1, <2>3 DEF SourceOf
<1>2. CASE SwitchContractData \/ Done \/ UNCHANGED vars
  <2>1. UNCHANGED <<pc, cell, lock_arg_tmp>>
    BY <1>2 DEF SwitchContractData, Done, vars
  <2>. QED
    BY <2>1 DEF ArgReceived
<1>3. CASE \/ InputData \/ FinishInputs \/ OutputEnd \/ OutputsEnd
           \/ FinalizeRawTransaction \/ RefuseNextApdu \/ PathsRefused
           \/ \E secure_only \in BOOLEAN : SignComplete(secure_only)
           \/ \E c \in OutCells : OutputData(c)
           \/ \E change \in ChangeHashes, n, declared \in 0 .. MaxIns :
                SetPaths(change, n, declared)
           \/ InputNotFound
  BY <1>3, LeavesCell
<1>4. CASE \/ \E c \in InCells : StartInput(c)
           \/ \E c \in OutCells : StartOutput(c)
           \/ \E n \in 1 .. Len(cell.args) : ScriptArgChunk(n)
  <2>1. pc' \in {"in_args", "out_args"}
    BY <1>4 DEF StartInput, StartOutput, ScriptArgChunk
  <2>. QED
    BY <2>1
<1>. QED
  BY <1>1, <1>2, <1>3, <1>4 DEF Next

\* Until a DAO output comes, the owner is that of the last DAO input; and an
\* operation is about DAO cells on some side of the transaction.
LastOwner ==
  /\ Has(ins, DaoCells) /\ ~Has(outs, DaoCells) /\ DaoArgsFit(ins) =>
       LastDaoOf(ins, dao_cell_owner)
  /\ tag = PREPARE => Has(ins, DaoCells) \/ Has(outs, DaoCells)

\* Only DAO cells set the owner.
LEMMA OnlyDaoCells ==
  ASSUME [Next]_vars, ~OutputEnd, ~InputData
  PROVE  UNCHANGED <<dao_cell_owner, outs>>
<1>1. CASE \/ \E change \in ChangeHashes, n, declared \in 0 .. MaxIns :
                SetPaths(change, n, declared)
           \/ \E c \in InCells : StartInput(c)
           \/ \E c \in OutCells : StartOutput(c)
           \/ \E n \in 1 .. Len(cell.args) : ScriptArgChunk(n)
           \/ InputNotFound \/ InputLockArgEnd \/ FinishInputs
  BY <1>1 DEF SetPaths, StartInput, StartOutput, ScriptArgChunk, InputNotFound,
     InputLockArgEnd, FinishInputs
<1>2. CASE \/ \E c \in OutCells : OutputData(c)
           \/ \E secure_only \in BOOLEAN : SignComplete(secure_only)
           \/ OutputsEnd \/ FinalizeRawTransaction \/ RefuseNextApdu
           \/ PathsRefused \/ SwitchContractData \/ Done \/ UNCHANGED vars
  BY <1>2 DEF OutputData, OutputsEnd, FinalizeRawTransaction,
     RefuseNextApdu, PathsRefused, SignComplete, SwitchContractData, Done, vars
<1>. QED
  BY <1>1, <1>2 DEF Next

\* One cell more that is not a DAO cell leaves the last DAO cell what it was.
LEMMA LastDaoKept ==
  ASSUME NEW s \in Seq(AnyCell), NEW c \in AnyCell, ~IsDao(c), NEW hash,
         DaoArgsFit(Append(s, c))
  PROVE  DaoArgsFit(s) /\ (LastDaoOf(s, hash) => LastDaoOf(Append(s, c), hash))
<1> DEFINE t == Append(s, c)
<1>1. /\ Len(s) \in Nat /\ Len(t) = Len(s) + 1 /\ t[Len(s) + 1] = c
      /\ \A i \in 1 .. Len(s) : t[i] = s[i]
  OBVIOUS
<1>2. DaoArgsFit(t)
  OBVIOUS
<1> HIDE DEF t
<1>3. DaoArgsFit(s)
  BY <1>1, <1>2 DEF DaoArgsFit
<1>4. ASSUME LastDaoOf(s, hash) PROVE LastDaoOf(t, hash)
  <2>1. PICK i \in 1 .. Len(s) : /\ IsDao(s[i]) /\ SourceOf(s[i]) = hash
                                 /\ \A j \in i + 1 .. Len(s) : ~IsDao(s[j])
    BY <1>4 DEF LastDaoOf
  <2>2. i \in 1 .. Len(t) /\ t[i] = s[i]
    BY <1>1
  <2>3. ASSUME NEW j \in i + 1 .. Len(t) PROVE ~IsDao(t[j])
    <3>1. CASE j = Len(s) + 1
      BY <1>1, <3>1
    <3>2. CASE j # Len(s) + 1
      <4>1. j \in i + 1 .. Len(s) /\ j \in 1 .. Len(s)
        BY <1>1, <3>2
      <4>. QED
        BY <1>1, <2>1, <4>1
    <3>. QED
      BY <3>1, <3>2
  <2>. QED
    BY <2>1, <2>2, <2>3 DEF LastDaoOf
<1>. QED
  BY <1>3, <1>4 DEF t

\* One DAO cell more is the last.
LEMMA LastDaoIsNew ==
  ASSUME NEW s \in Seq(AnyCell), NEW c \in AnyCell, IsDao(c)
  PROVE  /\ LastDaoOf(Append(s, c), SourceOf(c))
         /\ DaoArgsFit(Append(s, c)) => Len(c.args) <= ARG
<1> DEFINE t == Append(s, c)
<1>1. /\ Len(s) \in Nat /\ Len(t) = Len(s) + 1 /\ t[Len(s) + 1] = c
  OBVIOUS
<1> HIDE DEF t
<1>2. Len(s) + 1 \in 1 .. Len(t) /\ \A j \in Len(s) + 2 .. Len(t) : FALSE
  BY <1>1
<1>3. LastDaoOf(t, SourceOf(c))
  BY <1>1, <1>2 DEF LastDaoOf
<1>4. DaoArgsFit(t) => Len(c.args) <= ARG
  BY <1>1, <1>2 DEF DaoArgsFit
<1>. QED
  BY <1>3, <1>4 DEF t

\* Every step keeps the owner.
LEMMA LastOwnerStep ==
  TypeOK /\ CellKept /\ ArgReceived /\ OutDao /\ LastOwner /\ [Next]_vars => LastOwner'
<1> SUFFICES ASSUME TypeOK, CellKept, ArgReceived, OutDao, LastOwner, [Next]_vars
             PROVE  LastOwner'
  OBVIOUS
<1>1. /\ ins \in Seq(AnyCell) /\ outs \in Seq(AnyCell) /\ cell \in AnyCell
      /\ NoCell \in AnyCell /\ ~IsDao(NoCell)
  BY DEF TypeOK, AnyCell, NoCell, IsDao
<1>2. /\ Has(ins, DaoCells) /\ ~Has(outs, DaoCells) /\ DaoArgsFit(ins) =>
           LastDaoOf(ins, dao_cell_owner)
      /\ tag = PREPARE => Has(ins, DaoCells) \/ Has(outs, DaoCells)
  BY DEF LastOwner
<1>3. SUFFICES
        /\ Has(ins', DaoCells) /\ ~Has(outs', DaoCells) /\ DaoArgsFit(ins') =>
             LastDaoOf(ins', dao_cell_owner')
        /\ tag' = PREPARE => Has(ins', DaoCells) \/ Has(outs', DaoCells)
  BY DEF LastOwner, Has, CellsOf, DaoCells, DaoArgsFit, LastDaoOf, IsDao, SourceOf, HashOf, Pad
<1>4. CASE InputData
  <2>1. /\ ins' = Append(ins, cell) /\ outs' = outs /\ pc = "in_data"
        /\ cell_state.is_dao <=> IsDao(cell)
    BY <1>4 DEF InputData, CellKept
  <2>2. CASE IsDao(cell)
    <3>1. dao_cell_owner' = HashOf(lock_arg_tmp)
      BY <1>4, <2>1, <2>2 DEF InputData, DaoInputData, PlainInputData
    <3>2. Len(cell.args) <= ARG => dao_cell_owner' = SourceOf(cell)
      BY <2>1, <3>1 DEF ArgReceived
    <3>3. Has(ins', DaoCells)
      BY <1>1, <2>1, <2>2, HasAppend, Kinds
    <3>. QED
      BY <1>1, <2>1, <2>2, <3>2, <3>3, LastDaoIsNew
  <2>3. CASE ~IsDao(cell)
    <3>1. UNCHANGED <<tag, dao_cell_owner>>
      BY <1>4, <2>1, <2>3 DEF InputData, DaoInputData, PlainInputData
    <3>2. Has(ins', DaoCells) <=> Has(ins, DaoCells)
      BY <1>1, <2>1, <2>3, HasAppend, Kinds
    <3>. QED
      BY <1>1, <1>2, <2>1, <2>3, <3>1, <3>2, LastDaoKept
  <2>. QED
    BY <2>2, <2>3
<1>5. CASE InputNotFound
  <2>1. /\ ins' = Append(ins, NoCell) /\ outs' = outs
        /\ UNCHANGED <<tag, dao_cell_owner>>
    BY <1>5 DEF InputNotFound
  <2>2. Has(ins', DaoCells) <=> Has(ins, DaoCells)
    BY <1>1, <2>1, HasAppend, Kinds
  <2>. QED
    BY <1>1, <1>2, <2>1, <2>2, LastDaoKept
<1>6. CASE OutputEnd
  <2>1. outs' = Append(outs, cell) /\ ins' = ins
    BY <1>6 DEF OutputEnd
  <2>2. Has(outs', DaoCells) <=> Has(outs, DaoCells) \/ IsDao(cell)
    BY <1>1, <2>1, HasAppend, Kinds
  <2>3. ~IsDao(cell) => dao_cell_owner' = dao_cell_owner
    BY <1>6 DEF OutputEnd, DaoOutput, DestinationOutput, ChangeOutput, IsDao
  <2>4. tag' = PREPARE => tag = PREPARE
    BY <1>6, OutputEndTag DEF MULTI_OUTPUT, NOT_SET, DEPOSIT, PREPARE, WITHDRAW
  <2>. QED
    BY <1>2, <2>1, <2>2, <2>3, <2>4
<1>7. CASE ~InputData /\ ~InputNotFound /\ ~OutputEnd
  <2>1. UNCHANGED <<ins, outs, dao_cell_owner>>
    BY <1>7, OnlyInputData, OnlyOutputEnd, OnlyDaoCells
  <2>2. tag' = PREPARE => tag = PREPARE \/ \E c \in OutCells : OutputData(c)
    BY <1>7, TagOrigin
  <2>3. ASSUME NEW c \in OutCells, OutputData(c), tag' = PREPARE
        PROVE  tag = PREPARE \/ Has(outs, DaoCells)
    <3>1. tag' = tag \/ checked \in dao_bitmask
      BY <2>3 DEF OutputData, DaoOutputData, PlainOutputData
    <3>. QED
      BY <2>3, <3>1 DEF OutDao
  <2>. QED
    BY <1>2, <2>1, <2>2, <2>3
<1>. QED
  BY <1>4, <1>5, <1>6, <1>7

-----------------------------------------------------------------------------
(* DAO prompts *)

\* The inductive invariant behind the prompts.
PromptInv ==
  /\ BaseInv /\ CapacityKept /\ ReceivedSoFar
  /\ InDao /\ OutDao /\ ArgReceived /\ LastOwner /\ DataTags /\ Paid /\ Final

\* clear_data leaves a state that satisfies it.
LEMMA PromptInit == Init => PromptInv
<1> SUFFICES ASSUME Init PROVE PromptInv OBVIOUS
<1>1. BaseInv
  BY BaseInit
<1>2. CapacityKept /\ ReceivedSoFar
  BY DEF Init, CapacityKept, ReceivedSoFar
<1>3. /\ ins = <<>> /\ outs = <<>> /\ tag = NOT_SET /\ flags = {} /\ dao_bitmask = {}
      /\ dao_input_amount = 0 /\ dao_output_amount = 0 /\ plain_output_amount = 0
      /\ change_amount = 0 /\ output_count = 0 /\ is_self_transfer = FALSE
      /\ pc = "paths" /\ checked = 0 /\ screens = <<>>
      /\ outputs = [i \in 1 .. MAX_OUTPUTS |-> ZeroOutput]
  BY DEF Init
<1>4. \A kind : ~Has(<<>>, kind)
  BY HasMeans
<1>5. InDao
  BY <1>3, CapacityEmpty DEF InDao, NOT_SET, WITHDRAW
<1>6. OutDao
  BY <1>3, CapacityEmpty DEF OutDao, DaoOutsOwn
<1>7. DataTags
  BY <1>3 DEF DataTags, TagOfData, NOT_SET, DEPOSIT
<1>8. Paid
  <2>1. Amounts
    BY <1>3, CapacityEmpty DEF Amounts
  <2>2. FlagsKept
    BY <1>3, <1>4 DEF FlagsKept
  <2>3. TagsKept
    BY <1>3, <1>4 DEF TagsKept, NOT_SET, MULTI_OUTPUT
  <2>. QED
    BY <1>3, <2>1, <2>2, <2>3 DEF Paid
<1>9. Final
  BY <1>3 DEF Final, Prompted
<1>10. ArgReceived /\ LastOwner
  BY <1>3, <1>4 DEF ArgReceived, LastOwner, NOT_SET, PREPARE
<1>. QED
  BY <1>1, <1>2, <1>5, <1>6, <1>7, <1>8, <1>9, <1>10 DEF PromptInv

\* Every step keeps it.
LEMMA PromptStep == PromptInv /\ [Next]_vars => PromptInv'
<1> SUFFICES ASSUME PromptInv, [Next]_vars PROVE PromptInv' OBVIOUS
<1>1. TypeOK /\ FlagsAgree /\ Phase /\ CellKept /\ Mask
  BY DEF PromptInv, BaseInv
<1>. QED
  BY <1>1, BaseStep, CapacityStep, ReceivedStep, InDaoStep, OutDaoStep,
     ArgReceivedStep, LastOwnerStep, DataTagsStep, PaidStep, FinalStep
  DEF PromptInv

\* What the invariant says of the prompts of DAO operations.
LEMMA DaoOfInv == PromptInv => DaoPromptIsAboutTheCells
<1> SUFFICES ASSUME PromptInv, Prompted, OutputsFit, AllWellFormed(outs)
             PROVE  /\ tag = DEPOSIT =>
                         /\ ~Has(ins, DaoCells) /\ Has(outs, DaoCells)
                         /\ \A i \in 1 .. Len(outs) : IsDao(outs[i]) =>
                              /\ PaysTo(outs[i], change_lock_arg)
                              /\ \A j \in 1 .. i : ~outs[j].nonzero
                         /\ v.dao_amount = Capacity(outs, DaoCells)
                    /\ tag = PREPARE =>
                         /\ \A i \in 1 .. Len(outs) : IsDao(outs[i]) =>
                              /\ PaysTo(outs[i], change_lock_arg)
                              /\ \E j \in 1 .. i : outs[j].nonzero
                         /\ \A c \in CellsOf(ins) : IsDao(c) => ~c.nonzero
                         /\ v.dao_amount = Capacity(outs, DaoCells)
                         /\ Capacity(ins, DaoCells) = Capacity(outs, DaoCells)
                    /\ tag = WITHDRAW =>
                         /\ Has(ins, DaoCells) /\ ~Has(outs, DaoCells)
                         /\ \A c \in CellsOf(ins) : IsDao(c) => c.nonzero
                         /\ v.dao_amount = Capacity(ins, DaoCells)
                         /\ Capacity(outs, PaymentCells) = 0
                    /\ tag \in {DEPOSIT, PREPARE, WITHDRAW} =>
                         IF Has(outs, DaoCells) THEN dao_cell_owner = change_lock_arg
                         ELSE DaoArgsFit(ins) => LastDaoOf(ins, dao_cell_owner)
                    /\ tag \notin {DEPOSIT, PREPARE, WITHDRAW} =>
                         ~Has(ins, DaoCells) /\ ~Has(outs, DaoCells)
  BY DEF DaoPromptIsAboutTheCells
<1>1. /\ ~unsafe /\ pc = "end" /\ Finalized
      /\ checked = Len(outs) /\ Len(outs) <= INT_WIDTH /\ Len(outs) \in Nat
      /\ ins \in Seq(AnyCell) /\ outs \in Seq(AnyCell)
  BY DEF PromptInv, BaseInv, Phase, Final, OutputsFit, DataForEachOutput, TypeOK, AnyCell
<1>2. /\ dao_input_amount = Capacity(ins, DaoCells)
      /\ \A i \in 1 .. Len(ins) :
           IsDao(ins[i]) => tag = IF ins[i].nonzero THEN WITHDRAW ELSE PREPARE
      /\ tag = WITHDRAW => Has(ins, DaoCells)
  BY <1>1 DEF PromptInv, InDao
<1>3. dao_output_amount = Capacity(outs, DaoCells) /\ DaoOutsOwn
  BY <1>1 DEF PromptInv, OutDao
<1>4. TagOfData
  BY <1>1 DEF PromptInv, DataTags
<1>5. \A i \in 1 .. Len(outs) : IsDao(outs[i]) =>
        tag = IF \E j \in 1 .. i : outs[j].nonzero THEN PREPARE ELSE DEPOSIT
  BY <1>1, <1>4 DEF TagOfData, Nonzero
<1>6. Has(ins, DaoCells) <=> \E i \in 1 .. Len(ins) : IsDao(ins[i])
  <2>1. \A i \in 1 .. Len(ins) : ins[i] \in AnyCell
    BY <1>1
  <2>. QED
    BY <2>1, HasMeans, Kinds
<1>7. Has(outs, DaoCells) <=> \E i \in 1 .. Len(outs) : IsDao(outs[i])
  <2>1. \A i \in 1 .. Len(outs) : outs[i] \in AnyCell
    BY <1>1
  <2>. QED
    BY <2>1, HasMeans, Kinds
<1>8. /\ v.dao_amount = IF tag = WITHDRAW THEN dao_input_amount
                        ELSE IF tag \in {DEPOSIT, PREPARE} THEN dao_output_amount
                        ELSE 0
      /\ tag = PREPARE => dao_output_amount = dao_input_amount
  BY <1>1 DEF Finalized, DaoAmount
<1>9. ASSUME tag \in {DEPOSIT, PREPARE, WITHDRAW}
      PROVE  IF Has(outs, DaoCells) THEN dao_cell_owner = change_lock_arg
             ELSE DaoArgsFit(ins) => LastDaoOf(ins, dao_cell_owner)
  <2>1. CASE Has(outs, DaoCells)
    BY <1>3, <1>7, <2>1 DEF DaoOutsOwn
  <2>2. CASE ~Has(outs, DaoCells)
    <3>1. Has(ins, DaoCells)
      BY <1>2, <1>4, <1>9, <2>2 DEF PromptInv, LastOwner, TagOfData
    <3>. QED
      BY <2>2, <3>1 DEF PromptInv, LastOwner
  <2>. QED
    BY <2>1, <2>2
<1>10. CASE tag = DEPOSIT
  <2>1. ~Has(ins, DaoCells)
    BY <1>2, <1>6, <1>10 DEF DEPOSIT, PREPARE, WITHDRAW
  <2>2. Has(outs, DaoCells)
    BY <1>4, <1>10 DEF TagOfData
  <2>3. \A i \in 1 .. Len(outs) : IsDao(outs[i]) =>
          PaysTo(outs[i], change_lock_arg) /\ \A j \in 1 .. i : ~outs[j].nonzero
    BY <1>3, <1>5, <1>10 DEF DaoOutsOwn, DEPOSIT, PREPARE
  <2>4. v.dao_amount = Capacity(outs, DaoCells)
    BY <1>3, <1>8, <1>10 DEF DEPOSIT, WITHDRAW
  <2>. QED
    BY <1>10, <1>9, <2>1, <2>2, <2>3, <2>4 DEF DEPOSIT, PREPARE, WITHDRAW
<1>11. CASE tag = PREPARE
  <2>1. \A i \in 1 .. Len(outs) : IsDao(outs[i]) =>
          PaysTo(outs[i], change_lock_arg) /\ \E j \in 1 .. i : outs[j].nonzero
    BY <1>3, <1>5, <1>11 DEF DaoOutsOwn, DEPOSIT, PREPARE
  <2>2. \A c \in CellsOf(ins) : IsDao(c) => ~c.nonzero
    BY <1>2, <1>11 DEF CellsOf, PREPARE, WITHDRAW
  <2>3. /\ v.dao_amount = Capacity(outs, DaoCells)
        /\ Capacity(ins, DaoCells) = Capacity(outs, DaoCells)
    BY <1>2, <1>3, <1>8, <1>11 DEF PREPARE, WITHDRAW
  <2>. QED
    BY <1>11, <1>9, <2>1, <2>2, <2>3 DEF DEPOSIT, PREPARE, WITHDRAW
<1>12. CASE tag = WITHDRAW
  <2>1. Has(ins, DaoCells) /\ ~Has(outs, DaoCells)
    BY <1>2, <1>5, <1>7, <1>12 DEF DEPOSIT, PREPARE, WITHDRAW
  <2>2. \A c \in CellsOf(ins) : IsDao(c) => c.nonzero
    BY <1>2, <1>12 DEF CellsOf, PREPARE, WITHDRAW
  <2>3. v.dao_amount = Capacity(ins, DaoCells)
    BY <1>2, <1>8, <1>12
  <2>4. ~is_self_transfer /\ plain_output_amount = 0
    BY <1>1, <1>12 DEF PromptInv, Paid, Swapped, Finalized
  <2>5. Capacity(outs, PaymentCells) = 0
    BY <1>1, <2>4 DEF PromptInv, Paid, Amounts
  <2>. QED
    BY <1>12, <1>9, <2>1, <2>2, <2>3, <2>5 DEF DEPOSIT, PREPARE, WITHDRAW
<1>13. CASE tag \notin {DEPOSIT, PREPARE, WITHDRAW}
  <2>1. ~Has(ins, DaoCells)
    BY <1>2, <1>6, <1>13
  <2>2. ~Has(outs, DaoCells)
    BY <1>5, <1>7, <1>13
  <2>. QED
    BY <1>13, <2>1, <2>2
<1>. QED
  BY <1>10, <1>11, <1>12, <1>13

\* A DAO prompt shows the capacity of the DAO cells it is about; the inputs are
\* all deposited or all prepared, DAO outputs go back to the change address, and
\* the owner shown is that address or, without a DAO output, the owner of the
\* last DAO input only.  No other prompt hides a DAO cell.  For any cells and
\* chunks, as long as the outputs fit the mask.
THEOREM DaoCorrect == Spec => []DaoPromptIsAboutTheCells
<1>1. Init => PromptInv
  BY PromptInit
<1>2. PromptInv /\ [Next]_vars => PromptInv'
  BY PromptStep
<1>3. PromptInv => DaoPromptIsAboutTheCells
  BY DaoOfInv
<1>. QED
  BY <1>1, <1>2, <1>3, PTL DEF Spec

-----------------------------------------------------------------------------
(* The entries of a multi-output prompt *)

\* A zero padded lock argument is a lock_arg_t.
LEMMA PadType == ASSUME NEW c \in AnyCell PROVE Pad(c.args) \in LockArg
<1>1. c.args \in Seq(UNIT) /\ 0 \in UNIT /\ ARG \in Nat
  BY CellFields, BoundsAssumption DEF AnyCell
<1>2. \A k \in 1 .. ARG : k <= Len(c.args) => k \in 1 .. Len(c.args)
  BY <1>1
<1>. QED
  BY <1>1, <1>2 DEF Pad, LockArg

\* The address of an entry of the outputs.
LEMMA AddressType ==
  ASSUME NEW a \in LockArg, NEW m \in BOOLEAN
  PROVE  Address(m, a) \in [kind : {"sighash", "multisig", "timelock"},
                            arg : Hash \cup LockArg]
BY HashOfType DEF Address, SighashAddress

\* Two addresses are the same when kind of lock and hash are, and the lock
\* period does not differ.
LEMMA AddressSame ==
  ASSUME NEW a \in LockArg, NEW b \in LockArg, NEW m \in BOOLEAN, NEW n \in BOOLEAN,
         m /\ n /\ HashOf(a) = HashOf(b) => a = b
  PROVE  Address(m, a) = Address(n, b) <=> (m <=> n) /\ HashOf(a) = HashOf(b)
<1>1. CASE ~m \/ ~n
  BY <1>1 DEF Address, SighashAddress
<1>2. CASE m /\ n /\ HashOf(a) = HashOf(b)
  BY <1>2
<1>3. CASE m /\ n /\ HashOf(a) # HashOf(b)
  BY <1>3 DEF Address
<1>. QED
  BY <1>1, <1>2, <1>3

\* Merge, with the payments as a parameter.
MergeOf(payments) ==
  [p \in Seq(Entry) \X AnyCell |->
     LET acc == p[1]  n == Len(p[1])  c == p[2]
     IN IF c \notin payments THEN acc
        ELSE IF n > 0 /\ acc[n][2] = AddressOf(c)
        THEN [acc EXCEPT ![n] = <<AddW(acc[n][1], c.cap), acc[n][2]>>]
        ELSE Append(acc, <<c.cap, AddressOf(c)>>)]

\* Merging the payments of a kind is a fold.
LEMMA MergeFolds ==
  ASSUME NEW payments PROVE Folds(MergeOf(payments), <<>>, Seq(Entry), AnyCell)
<1>1. ASSUME NEW p \in Seq(Entry) \X AnyCell
      PROVE  (LET acc == p[1]  n == Len(p[1])  c == p[2]
              IN IF c \notin payments THEN acc
                 ELSE IF n > 0 /\ acc[n][2] = AddressOf(c)
                 THEN [acc EXCEPT ![n] = <<AddW(acc[n][1], c.cap), acc[n][2]>>]
                 ELSE Append(acc, <<c.cap, AddressOf(c)>>)) \in Seq(Entry)
  <2>1. p[1] \in Seq(Entry) /\ p[2] \in AnyCell /\ Len(p[1]) \in Nat
    OBVIOUS
  <2>2. p[2].cap \in Amount
    BY <2>1, CapType
  <2>3. AddressOf(p[2]) \in [kind : {"sighash", "multisig", "timelock"},
                             arg : Hash \cup LockArg]
    <3>1. Pad(p[2].args) \in LockArg /\ (p[2].lock = "multisig") \in BOOLEAN
      BY <2>1, PadType
    <3>. QED
      BY <3>1, AddressType DEF AddressOf
  <2>4. <<p[2].cap, AddressOf(p[2])>> \in Entry
    BY <2>2, <2>3 DEF Entry
  <2>5. ASSUME Len(p[1]) > 0
        PROVE  [p[1] EXCEPT ![Len(p[1])] =
                  <<AddW(p[1][Len(p[1])][1], p[2].cap), p[1][Len(p[1])][2]>>]
                 \in Seq(Entry)
    <3>1. Len(p[1]) \in 1 .. Len(p[1])
      BY <2>1, <2>5
    <3>2. p[1][Len(p[1])] \in Entry
      BY <2>1, <3>1
    <3>3. <<AddW(p[1][Len(p[1])][1], p[2].cap), p[1][Len(p[1])][2]>> \in Entry
      BY <2>2, <3>2, AddWType DEF Entry
    <3>. QED
      BY <2>1, <3>1, <3>3
  <2>. QED
    BY <2>1, <2>4, <2>5
<1>. QED
  BY <1>1 DEF Folds, MergeOf

\* Merge is that for the payments that do not go to the change address.
LEMMA MergeIs == Merge = MergeOf(PaymentCells)
BY DEF Merge, MergeOf

\* One output more in the list of payments.
LEMMA ListedAppend ==
  ASSUME NEW s \in Seq(AnyCell), NEW c \in AnyCell
  PROVE  LET acc == FoldUp(Merge, <<>>, s)
             n == Len(acc)
         IN /\ acc \in Seq(Entry)
            /\ FoldUp(Merge, <<>>, Append(s, c)) =
                 IF c \notin PaymentCells THEN acc
                 ELSE IF n > 0 /\ acc[n][2] = AddressOf(c)
                 THEN [acc EXCEPT ![n] = <<AddW(acc[n][1], c.cap), acc[n][2]>>]
                 ELSE Append(acc, <<c.cap, AddressOf(c)>>)
<1> DEFINE acc == FoldUp(Merge, <<>>, s)
<1>1. acc \in Seq(Entry)
  BY MergeFolds, MergeIs, FoldUpType
<1>2. FoldUp(Merge, <<>>, Append(s, c)) = Merge[<<acc, c>>]
  BY MergeFolds, MergeIs, FoldUpAppend
<1> HIDE DEF acc
<1>3. Merge[<<acc, c>>] =
        IF c \notin PaymentCells THEN acc
        ELSE IF Len(acc) > 0 /\ acc[Len(acc)][2] = AddressOf(c)
        THEN [acc EXCEPT ![Len(acc)] = <<AddW(acc[Len(acc)][1], c.cap), acc[Len(acc)][2]>>]
        ELSE Append(acc, <<c.cap, AddressOf(c)>>)
  BY <1>1 DEF Merge
<1>. QED
  BY <1>1, <1>2, <1>3 DEF acc

\* The entry i was made for the cell c.
EntryOf(i, c) ==
  /\ outputs[i].destination = Pad(c.args)
  /\ outputs[i].is_multisig <=> c.lock = "multisig"

\* The entries as the prompt shows them.
Shown(o) == <<o.capacity, Address(o.is_multisig, o.destination)>>
EntriesShown == [i \in 1 .. output_count |-> Shown(outputs[i])]

\* Unless the transaction was refused, the entries are the payments.
Entries ==
  ~unsafe /\ AllWellFormed(outs) /\ ~is_self_transfer =>
    /\ \A i \in 1 .. output_count : \E c \in CellsOf(outs) : EntryOf(i, c)
    /\ PeriodsAgree => Listed = EntriesShown

\* A payment to the address of the last entry, and only that, is put to it.
LEMMA SameMeans ==
  ASSUME TypeOK, CellKept, ReceivedSoFar, OutputEnd, WellFormed(cell),
         output_count > 0, NEW c \in AnyCell, EntryOf(output_count, c),
         c.lock = "multisig" /\ cell.lock = "multisig" /\ SourceOf(c) = SourceOf(cell) =>
           Pad(c.args) = Pad(cell.args)
  PROVE  /\ SameDestination <=> OutputAddress(output_count) = AddressOf(cell)
         /\ lock_arg_tmp = Pad(cell.args)
         /\ Address(cell_state.is_multisig, lock_arg_tmp) = AddressOf(cell)
<1>1. lock_arg_tmp = Pad(cell.args)
  BY OutputReceived
<1>2. cell \in AnyCell /\ (cell_state.is_multisig <=> cell.lock = "multisig")
      /\ cell_state.is_multisig \in BOOLEAN
  BY DEF OutputEnd, CellKept, OfCell, TypeOK, AnyCell
<1>3. output_count \in 1 .. MAX_OUTPUTS /\ outputs[output_count].is_multisig \in BOOLEAN
  BY BoundsAssumption DEF TypeOK, Output
<1> DEFINE m == c.lock = "multisig"
           n == cell.lock = "multisig"
           a == Pad(c.args)
           b == Pad(cell.args)
<1>4. m \in BOOLEAN /\ n \in BOOLEAN /\ a \in LockArg /\ b \in LockArg
  BY <1>2, PadType
<1>5. m /\ n /\ HashOf(a) = HashOf(b) => a = b
  BY DEF SourceOf
<1>6. outputs[output_count].destination = a /\ outputs[output_count].is_multisig = m
      /\ cell_state.is_multisig = n
  BY <1>2, <1>3 DEF EntryOf
<1>7. AddressOf(cell) = Address(n, b)
  BY DEF AddressOf
<1> HIDE DEF m, n, a, b
<1>8. Address(m, a) = Address(n, b) <=> (m <=> n) /\ HashOf(a) = HashOf(b)
  BY <1>4, <1>5, AddressSame
<1>9. OutputAddress(output_count) = Address(m, a)
  BY <1>6 DEF OutputAddress
<1>10. SameDestination <=> HashOf(a) = HashOf(b) /\ (m <=> n)
  BY <1>1, <1>4, <1>6 DEF SameDestination, b
<1>. QED
  BY <1>1, <1>6, <1>7, <1>8, <1>9, <1>10 DEF b

\* An entry as it is shown.
LEMMA ShownType == ASSUME NEW o \in Output PROVE Shown(o) \in Entry
<1>1. o.capacity \in Amount /\ o.destination \in LockArg /\ o.is_multisig \in BOOLEAN
  BY DEF Output
<1>. QED
  BY <1>1, AddressType DEF Shown, Entry

\* The entries are a sequence.
LEMMA ShownList ==
  ASSUME NEW f \in [1 .. MAX_OUTPUTS -> Output], NEW n \in 0 .. MAX_OUTPUTS
  PROVE  /\ [i \in 1 .. n |-> Shown(f[i])] \in Seq(Entry)
         /\ Len([i \in 1 .. n |-> Shown(f[i])]) = n
<1>1. n \in Nat /\ \A i \in 1 .. n : i \in 1 .. MAX_OUTPUTS
  BY BoundsAssumption
<1>2. \A i \in 1 .. n : Shown(f[i]) \in Entry
  BY <1>1, ShownType
<1>. QED
  BY <1>1, <1>2

\* One entry more.
LEMMA ShownOneMore ==
  ASSUME NEW f \in [1 .. MAX_OUTPUTS -> Output], NEW g \in [1 .. MAX_OUTPUTS -> Output],
         NEW n \in 0 .. MAX_OUTPUTS, n + 1 <= MAX_OUTPUTS,
         \A i \in 1 .. n : g[i] = f[i]
  PROVE  [i \in 1 .. n + 1 |-> Shown(g[i])] =
           Append([i \in 1 .. n |-> Shown(f[i])], Shown(g[n + 1]))
<1> DEFINE s == [i \in 1 .. n |-> Shown(f[i])]
           t == [i \in 1 .. n + 1 |-> Shown(g[i])]
<1>1. n \in Nat /\ n + 1 \in 0 .. MAX_OUTPUTS /\ MAX_OUTPUTS \in Nat
  BY BoundsAssumption
<1>2. /\ s \in Seq(Entry) /\ Len(s) = n
      /\ t \in Seq(Entry) /\ Len(t) = n + 1
  BY <1>1, ShownList
<1>3. t[n + 1] = Shown(g[n + 1]) /\ Shown(g[n + 1]) \in Entry
  BY <1>1, ShownType
<1>4. \A i \in 1 .. n : t[i] = s[i]
  BY <1>1
<1> HIDE DEF s, t
<1>. QED
  BY <1>1, <1>2, <1>3, <1>4 DEF s, t

\* The last entry changed.
LEMMA ShownLast ==
  ASSUME NEW f \in [1 .. MAX_OUTPUTS -> Output], NEW g \in [1 .. MAX_OUTPUTS -> Output],
         NEW n \in 1 .. MAX_OUTPUTS, \A i \in 1 .. n : i # n => g[i] = f[i]
  PROVE  [i \in 1 .. n |-> Shown(g[i])] =
           [[i \in 1 .. n |-> Shown(f[i])] EXCEPT ![n] = Shown(g[n])]
OBVIOUS

\* The entry that takes the capacity of the cell.
LEMMA Credited ==
  ASSUME TypeOK, NEW j \in 1 .. MAX_OUTPUTS, NEW dest, NEW multisig, NEW before,
         Credit(j, dest, multisig, before)
  PROVE  /\ outputs'[j] = [capacity |-> AddW(before, cell_state.capacity),
                           destination |-> dest, is_multisig |-> multisig]
         /\ \A i \in 1 .. MAX_OUTPUTS : i # j => outputs'[i] = outputs[i]
BY DEF Credit, TypeOK

\* The amount zero adds nothing.
LEMMA AddZero == ASSUME NEW a \in Amount PROVE AddW(0, a) = a
BY BoundsAssumption DEF AddW, Amount

\* What the list of payments and the lock periods are after one output more.
LEMMA ListedGrows ==
  ASSUME TypeOK, OutputEnd
  PROVE  /\ Listed \in Seq(Entry)
         /\ Listed' =
              IF cell \notin PaymentCells THEN Listed
              ELSE IF Len(Listed) > 0 /\ Listed[Len(Listed)][2] = AddressOf(cell)
              THEN [Listed EXCEPT ![Len(Listed)] =
                      <<AddW(Listed[Len(Listed)][1], cell.cap), Listed[Len(Listed)][2]>>]
              ELSE Append(Listed, <<cell.cap, AddressOf(cell)>>)
         /\ \A c \in CellsOf(outs) : c \in CellsOf(outs')
         /\ cell \in CellsOf(outs') /\ cell \in AnyCell
         /\ CellsOf(outs) \subseteq AnyCell
<1>1. /\ outs \in Seq(AnyCell) /\ cell \in AnyCell /\ outs' = Append(outs, cell)
      /\ change_lock_arg' = change_lock_arg
  BY DEF TypeOK, AnyCell, OutputEnd
<1>2. PaymentCells' = PaymentCells
  BY <1>1 DEF PaymentCells, PaysTo, IsDao, AnyCell
<1>3. Merge' = Merge
  BY <1>2 DEF Merge
<1>4. Listed' = FoldUp(Merge, <<>>, Append(outs, cell))
  BY <1>1, <1>3 DEF Listed
<1>5. /\ Len(outs) \in Nat /\ Len(outs') = Len(outs) + 1 /\ outs'[Len(outs) + 1] = cell
      /\ \A i \in 1 .. Len(outs) : outs'[i] = outs[i]
  BY OutsGrow
<1>6. /\ \A c \in CellsOf(outs) : c \in CellsOf(outs')
      /\ cell \in CellsOf(outs')
  <2>1. \A i \in 1 .. Len(outs) : i \in 1 .. Len(outs')
    BY <1>5
  <2>2. Len(outs) + 1 \in 1 .. Len(outs')
    BY <1>5
  <2>. QED
    BY <1>5, <2>1, <2>2 DEF CellsOf
<1>7. CellsOf(outs) \subseteq AnyCell
  BY <1>1 DEF CellsOf
<1>. QED
  BY <1>1, <1>4, <1>6, <1>7, ListedAppend DEF Listed

\* A payment and the entries.
LEMMA EntriesPayment ==
  ASSUME TypeOK, TypeOK', FlagsAgree, Phase, CapacityKept, ReceivedSoFar, CellKept,
         FlagsKept, OutputEnd, WellFormed(cell), ~unsafe', DestinationOutput,
         cell \in PaymentCells,
         \A i \in 1 .. output_count : \E c \in CellsOf(outs) : EntryOf(i, c),
         PeriodsAgree => Listed = EntriesShown
  PROVE  /\ \A i \in 1 .. output_count' : \E c \in CellsOf(outs') :
              /\ outputs'[i].destination = Pad(c.args)
              /\ outputs'[i].is_multisig <=> c.lock = "multisig"
         /\ PeriodsAgree /\ PeriodsAgree' =>
              Listed' = [i \in 1 .. output_count' |-> Shown(outputs'[i])]
<1>1. /\ output_count \in 0 .. MAX_OUTPUTS /\ output_count' \in 1 .. MAX_OUTPUTS
      /\ MAX_OUTPUTS \in Nat /\ cell \in AnyCell /\ pc = "out_args"
      /\ outputs \in [1 .. MAX_OUTPUTS -> Output]
      /\ outputs' \in [1 .. MAX_OUTPUTS -> Output]
  BY DestinationKept, BoundsAssumption DEF TypeOK, AnyCell, OutputEnd
<1>2. /\ Listed \in Seq(Entry)
      /\ Listed' =
           IF Len(Listed) > 0 /\ Listed[Len(Listed)][2] = AddressOf(cell)
           THEN [Listed EXCEPT ![Len(Listed)] =
                   <<AddW(Listed[Len(Listed)][1], cell.cap), Listed[Len(Listed)][2]>>]
           ELSE Append(Listed, <<cell.cap, AddressOf(cell)>>)
      /\ \A c \in CellsOf(outs) : c \in CellsOf(outs')
      /\ cell \in CellsOf(outs') /\ CellsOf(outs) \subseteq AnyCell
  BY ListedGrows
<1>3. /\ cell_state.capacity = cell.cap /\ cell.cap \in Amount
      /\ cell_state.is_multisig \in BOOLEAN
      /\ cell_state.is_multisig <=> cell.lock = "multisig"
      /\ lock_arg_tmp = Pad(cell.args)
      /\ Address(cell_state.is_multisig, lock_arg_tmp) = AddressOf(cell)
  BY <1>1, CapType, OutputReceived
  DEF CapacityKept, CellKept, OfCell, TypeOK, AddressOf
<1>4. /\ EntriesShown \in Seq(Entry) /\ Len(EntriesShown) = output_count
  BY <1>1, ShownList DEF EntriesShown
<1>5. ASSUME output_count > 0, PeriodsAgree'
      PROVE  SameDestination <=> OutputAddress(output_count) = AddressOf(cell)
  <2>1. PICK c \in CellsOf(outs) : EntryOf(output_count, c)
    BY <1>1, <1>5
  <2>2. c \in AnyCell /\ c \in CellsOf(outs') /\ cell \in CellsOf(outs')
    BY <1>2, <2>1
  <2>3. c.lock = "multisig" /\ cell.lock = "multisig" /\ SourceOf(c) = SourceOf(cell) =>
          Pad(c.args) = Pad(cell.args)
    BY <1>5, <2>2 DEF PeriodsAgree
  <2>. QED
    BY <1>5, <2>1, <2>2, <2>3, SameMeans
<1>6. CASE /\ output_count = 0 /\ output_count' = 1
           /\ Credit(1, lock_arg_tmp, cell_state.is_multisig, outputs[1].capacity)
  <2>1. 1 \in 1 .. MAX_OUTPUTS /\ outputs[1] = ZeroOutput
    BY <1>1, <1>6 DEF FlagsKept
  <2>2. outputs'[1] = [capacity |-> cell.cap, destination |-> lock_arg_tmp,
                       is_multisig |-> cell_state.is_multisig]
    BY <1>3, <1>6, <2>1, Credited, AddZero DEF ZeroOutput
  <2>3. Shown(outputs'[1]) = <<cell.cap, AddressOf(cell)>>
    BY <1>3, <2>2 DEF Shown
  <2>4. [i \in 1 .. 0 + 1 |-> Shown(outputs'[i])] =
          Append([i \in 1 .. 0 |-> Shown(outputs[i])], Shown(outputs'[0 + 1]))
    BY <1>1, <2>1, ShownOneMore
  <2>5. ASSUME PeriodsAgree
        PROVE  Listed' = [i \in 1 .. output_count' |-> Shown(outputs'[i])]
    <3>1. Listed = [i \in 1 .. 0 |-> Shown(outputs[i])] /\ Len(Listed) = 0
      BY <1>4, <1>6, <2>5 DEF EntriesShown
    <3>2. Listed' = Append(Listed, <<cell.cap, AddressOf(cell)>>)
      BY <1>2, <3>1
    <3>. QED
      BY <1>6, <2>3, <2>4, <3>1, <3>2
  <2>. QED
    BY <1>2, <1>3, <1>6, <2>2, <2>5
<1>7. CASE /\ output_count > 0 /\ output_count' = output_count /\ SameDestination
           /\ Credit(output_count, outputs[output_count].destination,
                     outputs[output_count].is_multisig, outputs[output_count].capacity)
  <2> DEFINE o == outputs[output_count]
  <2>1. output_count \in 1 .. MAX_OUTPUTS /\ o \in Output
    BY <1>1, <1>7
  <2>2. /\ outputs'[output_count] =
             [capacity |-> AddW(o.capacity, cell.cap), destination |-> o.destination,
              is_multisig |-> o.is_multisig]
        /\ \A i \in 1 .. MAX_OUTPUTS : i # output_count => outputs'[i] = outputs[i]
    BY <1>3, <1>7, <2>1, Credited
  <2>3. Shown(outputs'[output_count]) = <<AddW(o.capacity, cell.cap), Shown(o)[2]>>
        /\ Shown(o)[1] = o.capacity /\ Shown(o)[2] = OutputAddress(output_count)
    BY <2>2 DEF Shown, OutputAddress
  <2>4. [i \in 1 .. output_count |-> Shown(outputs'[i])] =
          [EntriesShown EXCEPT ![output_count] = Shown(outputs'[output_count])]
    <3>1. \A i \in 1 .. output_count : i # output_count => outputs'[i] = outputs[i]
      BY <1>1, <2>2
    <3>. QED
      BY <1>1, <2>1, <3>1, ShownLast DEF EntriesShown
  <2>5. ASSUME PeriodsAgree, PeriodsAgree'
        PROVE  Listed' = [i \in 1 .. output_count' |-> Shown(outputs'[i])]
    <3>1. Listed = EntriesShown /\ Len(Listed) = output_count
      BY <1>4, <2>5
    <3>2. Listed[output_count] = Shown(o)
      BY <2>1, <3>1 DEF EntriesShown
    <3>3. Listed[Len(Listed)][2] = AddressOf(cell)
      BY <1>5, <1>7, <2>3, <2>5, <3>1, <3>2
    <3>4. Listed' = [Listed EXCEPT ![output_count] =
                       <<AddW(Listed[output_count][1], cell.cap), Listed[output_count][2]>>]
      BY <1>2, <1>7, <3>1, <3>3
    <3>. QED
      BY <1>7, <2>3, <2>4, <3>1, <3>2, <3>4
  <2>6. ASSUME NEW i \in 1 .. output_count'
        PROVE  \E c \in CellsOf(outs') : /\ outputs'[i].destination = Pad(c.args)
                                         /\ outputs'[i].is_multisig <=> c.lock = "multisig"
    <3>1. PICK c \in CellsOf(outs) : EntryOf(i, c)
      BY <1>7, <2>6
    <3>2. /\ outputs'[i].destination = outputs[i].destination
          /\ outputs'[i].is_multisig = outputs[i].is_multisig
      BY <1>1, <1>7, <2>2
    <3>. QED
      BY <1>2, <3>1, <3>2 DEF EntryOf
  <2>. QED
    BY <2>5, <2>6
<1>8. CASE /\ output_count > 0 /\ output_count' = output_count + 1 /\ ~SameDestination
           /\ Credit(output_count + 1, lock_arg_tmp, cell_state.is_multisig,
                     outputs[output_count + 1].capacity)
  <2> DEFINE n == output_count
  <2>1. n \in Nat /\ n + 1 \in 1 .. MAX_OUTPUTS /\ n \in 0 .. MAX_OUTPUTS /\ n \in 1 .. n
    BY <1>1, <1>8
  <2>2. outputs[n + 1] = ZeroOutput
    BY <1>1, <2>1 DEF FlagsKept
  <2>3. /\ outputs'[n + 1] = [capacity |-> cell.cap, destination |-> lock_arg_tmp,
                              is_multisig |-> cell_state.is_multisig]
        /\ \A i \in 1 .. MAX_OUTPUTS : i # n + 1 => outputs'[i] = outputs[i]
    BY <1>3, <1>8, <2>1, <2>2, Credited, AddZero DEF ZeroOutput
  <2>4. Shown(outputs'[n + 1]) = <<cell.cap, AddressOf(cell)>>
    BY <1>3, <2>3 DEF Shown
  <2>5. \A i \in 1 .. n : outputs'[i] = outputs[i]
    BY <1>1, <2>1, <2>3
  <2>6. [i \in 1 .. n + 1 |-> Shown(outputs'[i])] =
          Append(EntriesShown, Shown(outputs'[n + 1]))
    <3>1. n + 1 <= MAX_OUTPUTS
      BY <1>1, <2>1
    <3>. QED
      BY <1>1, <2>1, <2>5, <3>1, ShownOneMore DEF EntriesShown
  <2>7. ASSUME PeriodsAgree, PeriodsAgree'
        PROVE  Listed' = [i \in 1 .. output_count' |-> Shown(outputs'[i])]
    <3>1. Listed = EntriesShown /\ Len(Listed) = n
      BY <1>4, <2>7
    <3>2. Listed[n][2] = OutputAddress(n)
      BY <2>1, <3>1 DEF EntriesShown, Shown, OutputAddress
    <3>3. Listed[Len(Listed)][2] # AddressOf(cell)
      BY <1>5, <1>8, <2>7, <3>1, <3>2
    <3>4. Listed' = Append(Listed, <<cell.cap, AddressOf(cell)>>)
      BY <1>2, <3>3
    <3>. QED
      BY <1>8, <2>4, <2>6, <3>1, <3>4
  <2>8. ASSUME NEW i \in 1 .. output_count'
        PROVE  \E c \in CellsOf(outs') : /\ outputs'[i].destination = Pad(c.args)
                                         /\ outputs'[i].is_multisig <=> c.lock = "multisig"
    <3>1. CASE i = n + 1
      BY <1>2, <1>3, <2>3, <3>1
    <3>2. CASE i \in 1 .. n
      <4>1. PICK c \in CellsOf(outs) : EntryOf(i, c)
        BY <3>2
      <4>. QED
        BY <1>2, <2>5, <3>2, <4>1 DEF EntryOf
    <3>. QED
      BY <1>8, <2>1, <3>1, <3>2
  <2>. QED
    BY <2>7, <2>8
<1>9. output_count \in Nat /\ (output_count = 0 \/ output_count > 0)
  BY <1>1
<1>10. output_count = output_count' => output_count > 0
  BY <1>1
<1>. QED
  BY <1>1, <1>6, <1>7, <1>8, <1>9, <1>10, DestinationKept

\* Lock periods that agree on more outputs agree on fewer.
LEMMA PeriodsOfFewer ==
  ASSUME TypeOK, OutputEnd
  PROVE  PeriodsAgree' => PeriodsAgree
BY ZenonT(40), ListedGrows DEF PeriodsAgree, SourceOf, HashOf, Pad

\* Every step keeps Entries.
LEMMA EntriesStep ==
  TypeOK /\ TypeOK' /\ FlagsAgree /\ Phase /\ CapacityKept /\ ReceivedSoFar /\ CellKept
    /\ Paid /\ Entries /\ [Next]_vars => Entries'
<1> SUFFICES ASSUME TypeOK, TypeOK', FlagsAgree, Phase, CapacityKept, ReceivedSoFar,
                    CellKept, Paid, Entries, [Next]_vars,
                    ~unsafe', AllWellFormed(outs)', ~is_self_transfer'
             PROVE  /\ \A i \in 1 .. output_count' : \E c \in CellsOf(outs') :
                         /\ outputs'[i].destination = Pad(c.args)
                         /\ outputs'[i].is_multisig <=> c.lock = "multisig"
                    /\ PeriodsAgree' =>
                         Listed' = [i \in 1 .. output_count' |-> Shown(outputs'[i])]
  BY DEF Entries, EntryOf, EntriesShown, Shown, Address, SighashAddress, HashOf,
     CellsOf, Pad
<1>1. ~unsafe
  BY RefusedStays
<1>2. CASE OutputEnd
  <2>1. ~is_self_transfer /\ pc = "out_args"
    BY <1>2 DEF OutputEnd
  <2>2. AllWellFormed(outs) /\ WellFormed(cell)
    BY <1>2, WellFormedGrow
  <2>3. /\ \A i \in 1 .. output_count : \E c \in CellsOf(outs) : EntryOf(i, c)
        /\ PeriodsAgree => Listed = EntriesShown
        /\ FlagsKept
    BY <1>1, <2>1, <2>2 DEF Entries, Paid
  <2>4. cell \in AnyCell /\ (Foreign <=> ~PaysTo(cell, change_lock_arg))
    BY <1>2, <2>2, OutputReceived DEF TypeOK, AnyCell
  <2>5. PeriodsAgree' => PeriodsAgree
    BY <1>2, PeriodsOfFewer
  <2>6. CASE ~IsDao(cell) /\ Foreign
    <3>1. DestinationOutput /\ cell \in PaymentCells
      BY <1>2, <2>4, <2>6, Kinds DEF OutputEnd, DaoOutput, ChangeOutput, IsDao
    <3>. QED
      BY <1>2, <2>2, <2>3, <2>5, <3>1, EntriesPayment
  <2>7. CASE IsDao(cell) \/ ~Foreign
    <3>1. UNCHANGED <<outputs, output_count>> /\ cell \notin PaymentCells
      BY <1>2, <2>4, <2>7, Kinds
      DEF OutputEnd, DaoOutput, ChangeOutput, DestinationOutput, IsDao
    <3>2. Listed' = Listed /\ \A c \in CellsOf(outs) : c \in CellsOf(outs')
      BY <1>2, <3>1, ListedGrows
    <3>. QED
      BY <2>3, <2>5, <3>1, <3>2 DEF EntryOf, EntriesShown
  <2>. QED
    BY <2>6, <2>7
<1>3. CASE ~OutputEnd
  <2>1. outs' = outs /\ (outs' = <<>> \/ change_lock_arg' = change_lock_arg)
    BY <1>3, OnlyOutputEnd, KeysKept
  <2>2. ~is_self_transfer /\ UNCHANGED <<outputs, output_count>>
    <3>1. CASE OutputsEnd
      <4>1. ~is_self_transfer /\ (DaoSoFar \/ ~AllChange)
        BY <3>1 DEF OutputsEnd, Phase, Early
      <4>. QED
        BY <3>1, <4>1 DEF OutputsEnd
    <3>2. CASE ~OutputsEnd
      BY <1>3, <3>2, OnlyOutputs
    <3>. QED
      BY <3>1, <3>2
  <2>3. AllWellFormed(outs)
    BY <2>1 DEF AllWellFormed
  <2>4. /\ \A i \in 1 .. output_count : \E c \in CellsOf(outs) : EntryOf(i, c)
        /\ PeriodsAgree => Listed = EntriesShown
    BY <1>1, <2>2, <2>3 DEF Entries
  <2>5. PeriodsAgree' => PeriodsAgree
    BY <2>1 DEF PeriodsAgree
  <2>6. Listed' = Listed
    <3>1. CASE outs = <<>>
      <4>1. Listed = <<>>
        BY <3>1, MergeFolds, MergeIs, FoldUpEmpty DEF Listed
      <4>2. Folds(Merge', <<>>, Seq(Entry), AnyCell)
        <5>1. Merge' = MergeOf(PaymentCells')
          BY DEF Merge, MergeOf
        <5>. QED
          BY <5>1, MergeFolds
      <4>3. Listed' = <<>>
        BY <2>1, <3>1, <4>2, FoldUpEmpty DEF Listed
      <4>. QED
        BY <4>1, <4>3
    <3>2. CASE change_lock_arg' = change_lock_arg
      <4>1. PaymentCells' = PaymentCells
        BY <3>2 DEF PaymentCells, PaysTo, IsDao, AnyCell
      <4>2. Merge' = Merge
        BY <4>1 DEF Merge
      <4>. QED
        BY <2>1, <4>2 DEF Listed
    <3>. QED
      BY <2>1, <3>1, <3>2
  <2>. QED
    BY <2>1, <2>2, <2>4, <2>5, <2>6 DEF EntryOf, EntriesShown
<1>. QED
  BY <1>2, <1>3

-----------------------------------------------------------------------------
(* The screens of a transfer *)

\* A prompt that one screen has.
LEMMA ShowsOne ==
  ASSUME NEW p, NEW x, NEW at \in Nat, Len(screens) \in Nat, at + 1 <= Len(screens),
         screens[at + 1].prompt = p, screens[at + 1].value = x,
         \A i \in 1 .. Len(screens) : i # at + 1 => screens[i].prompt # p
  PROVE  Shows(p, <<x>>)
<1>1. {i \in 1 .. Len(screens) : screens[i].prompt = p} = at + 1 .. at + Len(<<x>>)
  <2>1. at + 1 \in 1 .. Len(screens) /\ Len(<<x>>) = 1
    OBVIOUS
  <2>2. \A i \in 1 .. Len(screens) : screens[i].prompt = p <=> i = at + 1
    OBVIOUS
  <2>3. at + 1 .. at + 1 = {at + 1}
    OBVIOUS
  <2>. QED
    BY <2>1, <2>2, <2>3
<1>2. \A k \in 1 .. Len(<<x>>) : screens[at + k].value = <<x>>[k]
  OBVIOUS
<1>3. at \in 0 .. Len(screens)
  OBVIOUS
<1>. QED
  BY <1>1, <1>2, <1>3 DEF Shows

\* The optional screen is put behind the others.
LEMMA Behind4 ==
  ASSUME NEW a, NEW b, NEW c, NEW d, NEW e
  PROVE  /\ <<a, b, c, d>> \o <<e>> = <<a, b, c, d, e>>
         /\ <<a, b, c, d>> \o <<>> = <<a, b, c, d>>
<1> DEFINE T == {a, b, c, d, e}
<1>1. /\ <<a, b, c, d>> \in Seq(T) /\ <<e>> \in Seq(T) /\ <<a, b, c, d, e>> \in Seq(T)
      /\ Len(<<a, b, c, d>>) = 4 /\ Len(<<e>>) = 1
  OBVIOUS
<1>2. <<a, b, c, d>> \o <<>> = <<a, b, c, d>>
  BY <1>1, ConcatEmptySeq
<1> DEFINE s == <<a, b, c, d>> \o <<e>>
<1>3. /\ s \in Seq(T) /\ Len(s) = 5
      /\ \A i \in 1 .. 5 : s[i] = IF i <= 4 THEN <<a, b, c, d>>[i] ELSE <<e>>[i - 4]
  BY <1>1, ConcatProperties
<1> HIDE DEF s, T
<1>4. s[1] = a /\ s[2] = b /\ s[3] = c /\ s[4] = d /\ s[5] = e
  BY <1>3
<1>5. s = <<a, b, c, d, e>>
  BY <1>3, <1>4
<1>. QED
  BY <1>2, <1>5 DEF s

\* The destination that the prompts of one payment name.
LEMMA DestinationShown ==
  ASSUME screens = Screens, tag \in {PLAIN, SELF, MULTI_INPUT}, setting \in BOOLEAN
  PROVE  Shows("Destination", <<OutputAddress(1)>>)
<1> DEFINE amount == Screen("Amount", v.amount_snd)
           fee == Screen("Fee", v.total_fee)
           dest == Screen("Destination", OutputAddress(1))
<1>1. /\ amount.prompt = "Amount" /\ fee.prompt = "Fee" /\ dest.prompt = "Destination"
      /\ dest.value = OutputAddress(1)
      /\ \A x : Screen("Confirm", x).prompt = "Confirm"
      /\ \A x : Screen("Contract", x).prompt = "Contract"
      /\ \A x : Screen("Input", x).prompt = "Input"
      /\ \A x : Screen("Source", x).prompt = "Source"
      /\ \A x : Screen("Amount", x).prompt = "Amount"
  BY DEF Screen
<1>2. CASE tag = PLAIN
  <2>1. screens = <<Screen("Confirm", "Transaction"), amount, fee, dest>> \o
                    (IF setting THEN <<Screen("Contract", contract_type)>> ELSE <<>>)
    BY <1>2 DEF Screens, SELF, PLAIN, MULTI_INPUT, MULTI_OUTPUT, DEPOSIT, PREPARE, WITHDRAW
  <2> HIDE DEF amount, fee, dest
  <2>2. CASE setting
    <3>1. screens = <<Screen("Confirm", "Transaction"), amount, fee, dest,
                      Screen("Contract", contract_type)>>
      BY <2>1, <2>2, Behind4
    <3>. QED
      BY <1>1, <3>1, ShowsOne
  <2>3. CASE ~setting
    <3>1. screens = <<Screen("Confirm", "Transaction"), amount, fee, dest>>
      BY <2>1, <2>3, Behind4
    <3>. QED
      BY <1>1, <3>1, ShowsOne
  <2>. QED
    BY <2>2, <2>3
<1>3. CASE tag = SELF
  <2>1. screens = <<Screen("Confirm", "Self-Transfer"), amount, fee, dest>>
    BY <1>3 DEF Screens, SELF, PLAIN, MULTI_INPUT, MULTI_OUTPUT, DEPOSIT, PREPARE, WITHDRAW
  <2> HIDE DEF amount, fee, dest
  <2>. QED
    BY <1>1, <2>1, ShowsOne
<1>4. CASE tag = MULTI_INPUT
  <2> DEFINE confirm == Screen("Confirm", "Multi-Input Transaction")
             input == Screen("Input", <<input_index, v.input_count_snd>>)
             source == Screen("Source", SighashAddress(current_lock_arg))
             amounts == Screen("Amount", <<v.amount_fst, v.amount_snd>>)
  <2>1. screens = <<confirm, input, source, amounts, fee, dest>>
    BY <1>4 DEF Screens, SELF, PLAIN, MULTI_INPUT, MULTI_OUTPUT, DEPOSIT, PREPARE, WITHDRAW
  <2>2. /\ confirm.prompt = "Confirm" /\ input.prompt = "Input"
        /\ source.prompt = "Source" /\ amounts.prompt = "Amount"
    BY DEF Screen
  <2> HIDE DEF amount, fee, dest, confirm, input, source, amounts
  <2>3. /\ Len(screens) = 6 /\ screens[6] = dest
        /\ screens[1] = confirm /\ screens[2] = input /\ screens[3] = source
        /\ screens[4] = amounts /\ screens[5] = fee
    BY <2>1
  <2>4. \A i \in 1 .. 6 : i # 5 + 1 => screens[i].prompt # "Destination"
    BY <1>1, <2>2, <2>3
  <2>. QED
    BY <1>1, <2>3, <2>4, ShowsOne
<1>. QED
  BY <1>2, <1>3, <1>4

\* The screens of a transfer to several addresses.
LEMMA OutputsShown ==
  ASSUME screens = Screens, tag = MULTI_OUTPUT, output_count \in Nat
  PROVE  /\ Shows("Amount", <<v.amount_snd>>)
         /\ Shows("Output", EntriesShown)
<1> DEFINE t == <<Screen("Confirm", "Transaction"), Screen("Amount", v.amount_snd),
                  Screen("Fee", v.total_fee)>>
           u == [i \in 1 .. output_count |->
                   Screen("Output", <<outputs[i].capacity, OutputAddress(i)>>)]
           T == {t[1], t[2], t[3]} \cup {u[i] : i \in 1 .. output_count}
<1>1. screens = t \o u
  BY DEF Screens, SELF, PLAIN, MULTI_INPUT, MULTI_OUTPUT, DEPOSIT, PREPARE, WITHDRAW
<1>2. t \in Seq(T) /\ Len(t) = 3
  OBVIOUS
<1>3. u \in Seq(T) /\ Len(u) = output_count
  OBVIOUS
<1>4. /\ t[1].prompt = "Confirm" /\ t[3].prompt = "Fee"
      /\ t[2].prompt = "Amount" /\ t[2].value = v.amount_snd
  BY DEF Screen
<1>5. \A i \in 1 .. output_count :
        u[i].prompt = "Output" /\ u[i].value = EntriesShown[i]
  BY DEF Screen, EntriesShown, Shown, OutputAddress
<1>6. Len(EntriesShown) = output_count
  BY DEF EntriesShown
<1> HIDE DEF t, u, T
<1>7. /\ Len(screens) = 3 + output_count
      /\ \A i \in 1 .. 3 : screens[i] = t[i]
      /\ \A i \in 1 .. output_count : screens[3 + i] = u[i]
  <2>1. /\ Len(screens) = 3 + output_count
        /\ \A i \in 1 .. 3 + output_count :
             screens[i] = IF i <= 3 THEN t[i] ELSE u[i - 3]
    <3>1. /\ Len(t \o u) = Len(t) + Len(u)
          /\ \A i \in 1 .. Len(t) + Len(u) :
               (t \o u)[i] = IF i <= Len(t) THEN t[i] ELSE u[i - Len(t)]
      BY <1>2, <1>3, ConcatProperties, Zenon
    <3>. QED
      BY <1>1, <1>2, <1>3, <3>1, Zenon
  <2>2. ASSUME NEW i \in 1 .. output_count PROVE screens[3 + i] = u[i]
    <3>1. 3 + i \in 1 .. 3 + output_count /\ ~(3 + i <= 3) /\ (3 + i) - 3 = i
      OBVIOUS
    <3>. QED
      BY <2>1, <3>1
  <2>3. ASSUME NEW i \in 1 .. 3 PROVE screens[i] = t[i]
    <3>1. i \in 1 .. 3 + output_count /\ i <= 3
      OBVIOUS
    <3>. QED
      BY <2>1, <3>1
  <2>. QED
    BY <2>1, <2>2, <2>3
<1>8. \A i \in 1 .. 3 + output_count :
        i = 1 \/ i = 2 \/ i = 3 \/ \E k \in 1 .. output_count : i = 3 + k
  <2> SUFFICES ASSUME NEW i \in 1 .. 3 + output_count, i > 3
               PROVE  \E k \in 1 .. output_count : i = 3 + k
    OBVIOUS
  <2>1. i - 3 \in 1 .. output_count /\ i = 3 + (i - 3)
    OBVIOUS
  <2>. QED
    BY <2>1
<1>9. /\ screens[1].prompt = "Confirm" /\ screens[2].prompt = "Amount"
      /\ screens[2].value = v.amount_snd /\ screens[3].prompt = "Fee"
  BY <1>4, <1>7
<1>10. \A i \in 1 .. Len(screens) :
         IF i = 1 THEN screens[i].prompt = "Confirm"
         ELSE IF i = 2 THEN screens[i].prompt = "Amount"
         ELSE IF i = 3 THEN screens[i].prompt = "Fee" ELSE screens[i].prompt = "Output"
  <2>1. \A k \in 1 .. output_count : screens[3 + k].prompt = "Output"
    BY <1>5, <1>7
  <2>2. \A i \in 1 .. Len(screens) :
          i = 1 \/ i = 2 \/ i = 3 \/ screens[i].prompt = "Output"
    BY <1>7, <1>8, <2>1
  <2>. QED
    BY <1>9, <2>2
<1>11. Shows("Amount", <<v.amount_snd>>)
  <2>1. \A i \in 1 .. Len(screens) : i # 1 + 1 => screens[i].prompt # "Amount"
    BY <1>10
  <2>2. Len(screens) \in Nat /\ 1 + 1 <= Len(screens)
    BY <1>7
  <2>3. screens[1 + 1].prompt = "Amount" /\ screens[1 + 1].value = v.amount_snd
    BY <1>9
  <2>. QED
    BY <2>1, <2>2, <2>3, ShowsOne
<1>12. {i \in 1 .. Len(screens) : screens[i].prompt = "Output"}
         = 3 + 1 .. 3 + Len(EntriesShown)
  <2>1. \A i \in 1 .. Len(screens) : screens[i].prompt = "Output" <=> i >= 4
    BY <1>10
  <2>2. \A i : i \in 3 + 1 .. 3 + output_count <=> i \in 1 .. 3 + output_count /\ i >= 4
    OBVIOUS
  <2>. QED
    BY <1>6, <1>7, <2>1, <2>2
<1>13. \A k \in 1 .. Len(EntriesShown) : screens[3 + k].value = EntriesShown[k]
  BY <1>5, <1>6, <1>7
<1>14. 3 \in 0 .. Len(screens)
  BY <1>7
<1>. QED
  BY <1>11, <1>12, <1>13, <1>14 DEF Shows

-----------------------------------------------------------------------------
(* Transfers *)

\* The inductive invariant behind the prompts of transfers.
PaymentsInv == PromptInv /\ Entries

\* clear_data leaves a state that satisfies it.
LEMMA PaymentsInit == Init => PaymentsInv
<1> SUFFICES ASSUME Init PROVE PaymentsInv OBVIOUS
<1>1. outs = <<>> /\ output_count = 0
  BY DEF Init
<1>2. Listed = <<>>
  BY <1>1, MergeFolds, MergeIs, FoldUpEmpty DEF Listed
<1>3. EntriesShown = <<>>
  BY <1>1 DEF EntriesShown
<1>. QED
  BY <1>1, <1>2, <1>3, PromptInit DEF PaymentsInv, Entries

\* Every step keeps it.
LEMMA PaymentsStep == PaymentsInv /\ [Next]_vars => PaymentsInv'
<1> SUFFICES ASSUME PaymentsInv, [Next]_vars PROVE PaymentsInv' OBVIOUS
<1>1. PromptInv'
  BY PromptStep DEF PaymentsInv
<1>2. TypeOK'
  BY <1>1 DEF PromptInv, BaseInv
<1>3. /\ TypeOK /\ FlagsAgree /\ Phase /\ CapacityKept /\ ReceivedSoFar /\ CellKept
      /\ Paid /\ Entries
  BY DEF PaymentsInv, PromptInv, BaseInv
<1>. QED
  BY <1>1, <1>2, <1>3, EntriesStep DEF PaymentsInv

\* What the invariant says of the prompts of transfers.
LEMMA PaymentsOfInv == PaymentsInv => PromptNamesEveryPayment
<1> SUFFICES ASSUME PaymentsInv, Prompted, tag \in {PLAIN, SELF, MULTI_OUTPUT, MULTI_INPUT},
                    AllWellFormed(outs), OutputsFit, PeriodsAgree
             PROVE  /\ tag = MULTI_OUTPUT =>
                         /\ Shows("Output", Listed)
                         /\ Shows("Amount", <<Capacity(outs, PaymentCells)>>)
                    /\ tag # MULTI_OUTPUT /\ Has(outs, PaymentCells) =>
                         /\ tag # SELF
                         /\ Len(Listed) = 1
                         /\ Shows("Destination", <<Listed[1][2]>>)
                         /\ v.amount_snd = Capacity(outs, PaymentCells)
                    /\ ~Has(outs, PaymentCells) /\ Has(outs, ChangeCells) =>
                         /\ tag \in {SELF, MULTI_INPUT}
                         /\ Shows("Destination", <<SighashAddress(change_lock_arg)>>)
                         /\ v.amount_snd = Capacity(outs, ChangeCells)
                    /\ ~Has(outs, PaymentCells) /\ ~Has(outs, ChangeCells) =>
                         v.amount_snd = 0
  BY DEF PromptNamesEveryPayment
<1>1. PromptInv /\ TypeOK /\ Phase
  BY DEF PaymentsInv, PromptInv, BaseInv
<1>2. /\ ~unsafe /\ screens = Screens /\ Finalized /\ setting \in BOOLEAN
      /\ output_count \in 0 .. MAX_OUTPUTS /\ MAX_OUTPUTS \in Nat
      /\ output_count \in Nat /\ outputs \in [1 .. MAX_OUTPUTS -> Output]
  BY <1>1, BoundsAssumption DEF Phase, PromptInv, Final, TypeOK
<1>3. v.amount_snd = plain_output_amount
  BY <1>2 DEF Finalized
<1>4. ~Has(outs, DaoCells) /\ dao_bitmask = {}
  <2>1. ~Has(outs, DaoCells)
    BY <1>1, DaoOfInv
    DEF DaoPromptIsAboutTheCells, PLAIN, SELF, MULTI_INPUT, MULTI_OUTPUT,
        DEPOSIT, PREPARE, WITHDRAW
  <2>. QED
    BY <1>1, <2>1 DEF PromptInv, OutDao
<1>5. /\ is_self_transfer => Swapped
      /\ ~is_self_transfer => Amounts /\ FlagsKept /\ TagsKept
  BY <1>1, <1>2 DEF PromptInv, Paid
<1>6. CASE is_self_transfer
  <2>1. Swapped
    BY <1>5, <1>6
  <2>2. tag \in {SELF, MULTI_INPUT}
    BY <1>2, <1>6, <2>1 DEF Swapped, Finalized
  <2>3. ~Has(outs, PaymentCells) /\ Has(outs, ChangeCells)
    BY <1>4, <2>1 DEF Swapped, Has
  <2>4. OutputAddress(1) = SighashAddress(change_lock_arg)
    BY <2>1 DEF Swapped, OutputAddress, Address
  <2>5. Shows("Destination", <<SighashAddress(change_lock_arg)>>)
    BY <1>2, <2>2, <2>4, DestinationShown
  <2>6. v.amount_snd = Capacity(outs, ChangeCells)
    BY <1>3, <2>1 DEF Swapped
  <2>7. tag # MULTI_OUTPUT
    BY <2>2 DEF SELF, MULTI_INPUT, MULTI_OUTPUT
  <2>. QED
    BY <2>2, <2>3, <2>5, <2>6, <2>7
<1>7. CASE ~is_self_transfer
  <2>1. Amounts /\ FlagsKept /\ TagsKept
    BY <1>5, <1>7
  <2>2. Listed = EntriesShown
    BY <1>2, <1>7 DEF PaymentsInv, Entries
  <2>3. tag # SELF /\ tag \notin {PREPARE, WITHDRAW}
    BY <1>2, <1>7
    DEF Finalized, PLAIN, SELF, MULTI_INPUT, MULTI_OUTPUT, PREPARE, WITHDRAW
  <2>4. Has(outs, PaymentCells) <=> output_count > 0
    BY <2>1 DEF FlagsKept
  <2>5. Has(outs, ChangeCells) => Has(outs, PaymentCells)
    BY <1>4, <2>1, <2>3 DEF TagsKept, Behind
  <2>6. v.amount_snd = Capacity(outs, PaymentCells)
    BY <1>3, <2>1 DEF Amounts
  <2>7. CASE tag = MULTI_OUTPUT
    <3>1. output_count > 0
      BY <2>1, <2>7 DEF TagsKept
    <3>2. Shows("Output", Listed) /\ Shows("Amount", <<Capacity(outs, PaymentCells)>>)
      BY <1>2, <2>2, <2>6, <2>7, OutputsShown
    <3>. QED
      BY <2>4, <2>7, <3>1, <3>2
  <2>8. CASE tag # MULTI_OUTPUT /\ Has(outs, PaymentCells)
    <3>1. output_count = 1
      BY <1>2, <2>1, <2>4, <2>8 DEF TagsKept
    <3>2. Len(Listed) = 1 /\ Listed[1] = Shown(outputs[1])
      BY <2>2, <3>1 DEF EntriesShown
    <3>3. Listed[1][2] = OutputAddress(1)
      BY <3>2 DEF Shown, OutputAddress
    <3>4. Shows("Destination", <<Listed[1][2]>>)
      BY <1>2, <2>8, <3>3, DestinationShown
    <3>. QED
      BY <2>3, <2>6, <2>8, <3>2, <3>4
  <2>9. CASE tag # MULTI_OUTPUT /\ ~Has(outs, PaymentCells)
    <3>1. output_count = 0
      BY <1>2, <2>4, <2>9
    <3>2. v.amount_snd = 0
      BY <1>3, <2>1, <3>1 DEF Amounts
    <3>. QED
      BY <2>5, <2>9, <3>2
  <2>. QED
    BY <2>7, <2>8, <2>9
<1>. QED
  BY <1>6, <1>7

\* The prompt of a transfer names every payment to an address other than the
\* change address, in order and with its amount, and the total: for any cells
\* and chunks, as long as the outputs fit the mask and lock periods agree.
THEOREM PaymentsCorrect == Spec => []PromptNamesEveryPayment
<1>1. Init => PaymentsInv
  BY PaymentsInit
<1>2. PaymentsInv /\ [Next]_vars => PaymentsInv'
  BY PaymentsStep
<1>3. PaymentsInv => PromptNamesEveryPayment
  BY PaymentsOfInv
<1>. QED
  BY <1>1, <1>2, <1>3, PTL DEF Spec
=============================================================================

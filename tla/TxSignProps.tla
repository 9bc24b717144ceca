---------------------------- MODULE TxSignProps -----------------------------
(***************************************************************************)
(* What the screens of a transaction tell the user, stated against the     *)
(* cells the host sent rather than against the amounts the device kept.    *)
(***************************************************************************)
EXTENDS TxSign, Folding

AnyCell == InCells \cup OutCells \cup {NoCell}
CellsOf(s) == {s[i] : i \in 1 .. Len(s)}

\* The capacity of the cells of s that are of a kind, a set of cells.
AddCapacity(kind) ==
  [p \in Amount \X AnyCell |-> IF p[2] \in kind THEN AddW(p[1], p[2].cap) ELSE p[1]]
Capacity(s, kind) == FoldUp(AddCapacity(kind), 0, s)

Pad(args) == [k \in 1 .. ARG |-> IF k <= Len(args) THEN args[k] ELSE 0]
SourceOf(c) == HashOf(Pad(c.args))
AddressOf(c) == Address(c.lock = "multisig", Pad(c.args))

\* A lock argument of the length its script expects.
WellFormed(c) ==
  \/ c.lock = "default" /\ Len(c.args) = HASH
  \/ c.lock = "multisig" /\ Len(c.args) \in {HASH, ARG}

AllWellFormed(s) == \A i \in 1 .. Len(s) : WellFormed(s[i])

\* One item of outputs_data for each output, as the chain requires, and no more
\* outputs than the mask of DAO outputs has room for.
DataForEachOutput == checked = Len(outs)
OutputsFit == DataForEachOutput /\ Len(outs) <= INT_WIDTH

PaysTo(c, hash) == c.lock = "default" /\ c.args = hash
IsDao(c) == c.type = "dao"
DaoCells == {c \in AnyCell : IsDao(c)}
PaymentCells == {c \in AnyCell : ~IsDao(c) /\ ~PaysTo(c, change_lock_arg)}
ChangeCells == {c \in AnyCell : ~IsDao(c) /\ PaysTo(c, change_lock_arg)}
Has(s, kind) == CellsOf(s) \cap kind # {}

\* Payments with those to the address of their predecessor merged into it.
Entry == Amount \X [kind : {"sighash", "multisig", "timelock"}, arg : Hash \cup LockArg]
Merge ==
  [p \in Seq(Entry) \X AnyCell |->
     LET acc == p[1]  n == Len(p[1])  c == p[2]
     IN IF c \notin PaymentCells THEN acc
        ELSE IF n > 0 /\ acc[n][2] = AddressOf(c)
        THEN [acc EXCEPT ![n] = <<AddW(acc[n][1], c.cap), acc[n][2]>>]
        ELSE Append(acc, <<c.cap, AddressOf(c)>>)]
Listed == FoldUp(Merge, <<>>, outs)

\* Outputs under one multisig hash have one lock period.
PeriodsAgree ==
  \A c, d \in CellsOf(outs) :
    c.lock = "multisig" /\ d.lock = "multisig" /\ SourceOf(c) = SourceOf(d) =>
      Pad(c.args) = Pad(d.args)

\* The screens with prompt p follow each other and show these values.
Shows(p, values) ==
  \E at \in 0 .. Len(screens) :
    /\ {i \in 1 .. Len(screens) : screens[i].prompt = p} = at + 1 .. at + Len(values)
    /\ \A k \in 1 .. Len(values) : screens[at + k].value = values[k]

\* The prompt of a transfer names every payment of the transaction to an
\* address other than the change address: all of them in order with their
\* amounts for a multi-output transfer, else one destination and one amount.
\* This is what output_end's coalescing and outputs_end's swap must keep.
PromptNamesEveryPayment ==
  Prompted /\ tag \in {PLAIN, SELF, MULTI_OUTPUT, MULTI_INPUT}
           /\ AllWellFormed(outs) /\ OutputsFit /\ PeriodsAgree =>
    /\ tag = MULTI_OUTPUT =>
         /\ Shows("Output", Listed)
         /\ Shows("Amount", <<Capacity(outs, PaymentCells)>>)
    /\ tag # MULTI_OUTPUT /\ Has(outs, PaymentCells) =>
         /\ tag # SELF
         /\ Len(Listed) = 1
         /\ Shows("Destination", <<Listed[1][2]>>)
         /\ v.amount_snd = Capacity(outs, PaymentCells)
    /\ ~Has(outs, PaymentCells) /\ Has(outs, ChangeCells) =>
         /\ tag \in {SELF, MULTI_INPUT}
         /\ Shows("Destination", <<SighashAddress(change_lock_arg)>>)
         /\ v.amount_snd = Capacity(outs, ChangeCells)
    /\ ~Has(outs, PaymentCells) /\ ~Has(outs, ChangeCells) => v.amount_snd = 0

\* The inputs that were found.
Keep == [p \in Seq(AnyCell) \X AnyCell |->
           IF p[2] = NoCell THEN p[1] ELSE Append(p[1], p[2])]
Found == FoldUp(Keep, <<>>, ins)

OwnInputs == {i \in 1 .. Len(Found) : SourceOf(Found[i]) = current_lock_arg}
Starts == {i \in 1 .. Len(Found) : i = 1 \/ SourceOf(Found[i]) # SourceOf(Found[i - 1])}
OwnCells == {c \in AnyCell : c # NoCell /\ SourceOf(c) = current_lock_arg}

\* A multi-input prompt is shown only when the inputs of the signing key lie
\* together; "Input n of m" then gives their place among the runs of equal
\* sources and Amount the capacity they bring (input_lock_arg_end counts runs).
\* A first source that is all zeroes is not told from the zeroed state.
MultiInputNamesSource ==
  Prompted /\ tag = MULTI_INPUT /\ AllWellFormed(Found)
           /\ (Len(Found) > 0 => SourceOf(Found[1]) # ZeroHash) =>
    /\ \A i, k \in OwnInputs, j \in 1 .. Len(Found) : i <= j /\ j <= k => j \in OwnInputs
    /\ \E f \in OwnInputs :
         /\ \A i \in OwnInputs : f <= i
         /\ input_index = Cardinality({i \in Starts : i <= f})
    /\ v.input_count_snd = Cardinality(Starts)
    /\ v.amount_fst = Capacity(ins, OwnCells)

\* The lock argument of every DAO cell of s fits lock_arg_tmp.
DaoArgsFit(s) == \A i \in 1 .. Len(s) : IsDao(s[i]) => Len(s[i].args) <= ARG

\* The last DAO cell of s belongs to hash.
LastDaoOf(s, hash) ==
  \E i \in 1 .. Len(s) :
    /\ IsDao(s[i]) /\ SourceOf(s[i]) = hash
    /\ \A j \in i + 1 .. Len(s) : ~IsDao(s[j])

\* A DAO prompt shows the capacity of the DAO cells it is about, and other
\* prompts are about transactions without DAO cells.  The tag is set by the
\* inputs, by the data of the outputs and by output_end, which must agree: the
\* DAO inputs of a prompt are all deposited or all prepared; a DAO output counts
\* as prepared once it or an output before it has data that is not zero.  The
\* owner shown is that of the last DAO cell received.  Outputs must all be the
\* change address's, so with a DAO output it is the change address; the DAO
\* inputs may have several owners, and a withdrawal names the last one only.
DaoPromptIsAboutTheCells ==
  Prompted /\ OutputsFit /\ AllWellFormed(outs) =>
    /\ tag = DEPOSIT =>
         /\ ~Has(ins, DaoCells) /\ Has(outs, DaoCells)
         /\ \A i \in 1 .. Len(outs) : IsDao(outs[i]) =>
              PaysTo(outs[i], change_lock_arg) /\ \A j \in 1 .. i : ~outs[j].nonzero
         /\ v.dao_amount = Capacity(outs, DaoCells)
    /\ tag = PREPARE =>
         /\ \A i \in 1 .. Len(outs) : IsDao(outs[i]) =>
              PaysTo(outs[i], change_lock_arg) /\ \E j \in 1 .. i : outs[j].nonzero
         /\ \A c \in CellsOf(ins) : IsDao(c) => ~c.nonzero
         /\ v.dao_amount = Capacity(outs, DaoCells)
         /\ Capacity(ins, DaoCells) = Capacity(outs, DaoCells)
    /\ tag = WITHDRAW =>
         /\ Has(ins, DaoCells) /\ ~Has(outs, DaoCells)
         /\ \A c \in CellsOf(ins) : IsDao(c) => c.nonzero
         /\ v.dao_amount = Capacity(ins, DaoCells)
         /\ Capacity(outs, PaymentCells) = 0
    /\ tag \in {DEPOSIT, PREPARE, WITHDRAW} =>
         IF Has(outs, DaoCells) THEN dao_cell_owner = change_lock_arg
         ELSE DaoArgsFit(ins) => LastDaoOf(ins, dao_cell_owner)
    /\ tag \notin {DEPOSIT, PREPARE, WITHDRAW} =>
         ~Has(ins, DaoCells) /\ ~Has(outs, DaoCells)

Standard(c) ==
  /\ c.lock # "other" /\ c.lock_ht /\ c.type # "other"
  /\ c.type = "dao" => c.type_ht /\ ~c.targs /\ c.size = 8
  /\ c.type = "none" => c.size = 0

\* With "Allow contract data" off from the first APDU on, a transaction with an
\* unknown script, a hash type other than 1, type arguments or data in a cell
\* that is not a DAO cell is never put to the user, wherever the cell comes in.
ContractDataGated ==
  Prompted /\ ~allowed /\ OutputsFit =>
    \A c \in CellsOf(ins) \cup CellsOf(outs) : Standard(c)

-----------------------------------------------------------------------------
(* What the documentation and the comments say *)

ShownAt(p) == {screens[i].value : i \in {j \in 1 .. Len(screens) : screens[j].prompt = p}}
ShownAddresses == ShownAt("Destination") \cup {x[2] : x \in ShownAt("Output")}

\* README.md: the prompts differ between kinds of transactions "so the user can
\* verify all the aspects of what they are signing": every address that is
\* paid, other than the change address, is on a screen.
EveryPaidAddressShown ==
  Prompted /\ DataForEachOutput =>
    \A c \in CellsOf(outs) \cap PaymentCells : AddressOf(c) \in ShownAddresses

\* apdu_sign.c rejects a mix with "Can't mix deposit, prepare, and withdraw in
\* one transaction": the DAO outputs of a prompted transaction are of one kind.
DaoOperationsNotMixed ==
  Prompted /\ DataForEachOutput =>
    \A c, d \in CellsOf(outs) \cap DaoCells : c.nonzero = d.nonzero
=============================================================================

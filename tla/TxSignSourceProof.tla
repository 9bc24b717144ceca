------------------------- MODULE TxSignSourceProof --------------------------
(***************************************************************************)
(* Proofs about TxSign: what a multi-input prompt says of the inputs is    *)
(* what the cells that the inputs spend are.                               *)
(***************************************************************************)
EXTENDS TxSignPromptProof, FiniteSetTheorems

USE DEF setVars, keyVars, inVars, outVars, endVars, histVars

-----------------------------------------------------------------------------
(* Runs of inputs with one source *)

StartsOf(s) == {i \in 1 .. Len(s) : i = 1 \/ SourceOf(s[i]) # SourceOf(s[i - 1])}
OwnOf(s, key) == {i \in 1 .. Len(s) : SourceOf(s[i]) = key}

\* The elements of T lie together among 1 .. n.
Together(T, n) == \A i, k \in T, j \in 1 .. n : i <= j /\ j <= k => j \in T

\* The first element of T is in run x.
InRun(T, starts, x) ==
  \E f \in T : (\A i \in T : f <= i) /\ x = Cardinality({i \in starts : i <= f})

\* What input_lock_arg_end keeps of the sources of the cells of s: the number
\* of runs, and the run of the key, or 0.
Counted(s, key, runs, run) ==
  /\ runs = Cardinality(StartsOf(s))
  /\ Together(OwnOf(s, key), Len(s))
  /\ run = 0 => OwnOf(s, key) = {}
  /\ run # 0 => InRun(OwnOf(s, key), StartsOf(s), run)

\* No cells have no runs.
LEMMA CountedEmpty == ASSUME NEW key PROVE Counted(<<>>, key, 0, 0)
<1>1. StartsOf(<<>>) = {} /\ OwnOf(<<>>, key) = {}
  BY DEF StartsOf, OwnOf
<1>. QED
  BY <1>1, FS_EmptySet DEF Counted, Together

\* The runs and the own cells with one cell more.
LEMMA RunsAppend ==
  ASSUME NEW s \in Seq(AnyCell), NEW c \in AnyCell, NEW key
  PROVE  LET n == Len(s)
             t == Append(s, c)
         IN /\ n \in Nat /\ Len(t) = n + 1
            /\ StartsOf(s) \subseteq 1 .. n /\ OwnOf(s, key) \subseteq 1 .. n
            /\ n + 1 \in StartsOf(t) <=> n = 0 \/ SourceOf(c) # SourceOf(s[n])
            /\ StartsOf(t) \ {n + 1} = StartsOf(s)
            /\ OwnOf(t, key) = OwnOf(s, key) \cup IF SourceOf(c) = key THEN {n + 1} ELSE {}
<1> DEFINE n == Len(s)
           t == Append(s, c)
<1>1. /\ n \in Nat /\ Len(t) = n + 1 /\ t[n + 1] = c
      /\ \A i \in 1 .. n : t[i] = s[i]
  OBVIOUS
<1> HIDE DEF t
<1>2. /\ \A i : i \in 1 .. n + 1 <=> i \in 1 .. n \/ i = n + 1
      /\ \A i \in 1 .. n : i # n + 1 /\ (i # 1 => i - 1 \in 1 .. n)
      /\ n + 1 = 1 <=> n = 0
      /\ n # 0 => n \in 1 .. n /\ (n + 1) - 1 = n
  BY <1>1
<1>3. n + 1 \in StartsOf(t) <=> n = 0 \/ SourceOf(c) # SourceOf(s[n])
  BY <1>1, <1>2 DEF StartsOf
<1>4. ASSUME NEW i \in 1 .. n PROVE i \in StartsOf(t) <=> i \in StartsOf(s)
  <2>1. t[i] = s[i] /\ i \in 1 .. n + 1 /\ (i # 1 => t[i - 1] = s[i - 1])
    BY <1>1, <1>2
  <2>. QED
    BY <1>1, <2>1 DEF StartsOf
<1>5. StartsOf(s) \subseteq 1 .. n /\ StartsOf(t) \subseteq 1 .. n + 1
  BY <1>1 DEF StartsOf
<1>6. StartsOf(t) \ {n + 1} = StartsOf(s)
  BY <1>2, <1>4, <1>5
<1>7. OwnOf(t, key) = OwnOf(s, key) \cup IF SourceOf(c) = key THEN {n + 1} ELSE {}
  BY <1>1, <1>2 DEF OwnOf
<1>8. OwnOf(s, key) \subseteq 1 .. n
  BY DEF OwnOf
<1>. QED
  BY <1>1, <1>3, <1>5, <1>6, <1>7, <1>8, Zenon DEF t

\* The run of the first own cell is not changed by a later cell.
LEMMA RunKept ==
  ASSUME NEW n \in Nat, NEW f \in 1 .. n, NEW S, NEW T, T \ {n + 1} = S
  PROVE  {i \in T : i <= f} = {i \in S : i <= f}
<1>1. ~(n + 1 <= f)
  OBVIOUS
<1>. QED
  BY <1>1

\* input_lock_arg_end on one cell more: a run begins where the source changes,
\* and it is the key's when there is none of the key yet.
LEMMA CountedAppend ==
  ASSUME NEW s \in Seq(AnyCell), NEW c \in AnyCell, NEW key, NEW runs \in Nat,
         NEW run \in Nat, Counted(s, key, runs, run), NEW new \in BOOLEAN,
         new <=> Len(s) = 0 \/ SourceOf(c) # SourceOf(s[Len(s)]),
         new /\ SourceOf(c) = key => run = 0
  PROVE  Counted(Append(s, c), key, IF new THEN runs + 1 ELSE runs,
                 IF new /\ SourceOf(c) = key THEN runs + 1 ELSE run)
<1> DEFINE n == Len(s)
           t == Append(s, c)
           S == StartsOf(s)
           T == StartsOf(t)
           O == OwnOf(s, key)
           P == OwnOf(t, key)
<1>1. /\ n \in Nat /\ Len(t) = n + 1 /\ S \subseteq 1 .. n /\ O \subseteq 1 .. n
      /\ n + 1 \in T <=> new
      /\ T \ {n + 1} = S
      /\ P = O \cup IF SourceOf(c) = key THEN {n + 1} ELSE {}
  <2>1. /\ n \in Nat /\ Len(t) = n + 1 /\ S \subseteq 1 .. n /\ O \subseteq 1 .. n
        /\ n + 1 \in T <=> n = 0 \/ SourceOf(c) # SourceOf(s[n])
        /\ T \ {n + 1} = S
        /\ P = O \cup IF SourceOf(c) = key THEN {n + 1} ELSE {}
    BY RunsAppend, Zenon
  <2>2. new <=> n = 0 \/ SourceOf(c) # SourceOf(s[n])
    OBVIOUS
  <2> HIDE DEF n, t, S, T, O, P
  <2>. QED
    BY <2>1, <2>2, Zenon
<1>2. /\ runs = Cardinality(S) /\ Together(O, n)
      /\ run = 0 => O = {}
      /\ run # 0 => InRun(O, S, run)
  BY DEF Counted
<1>3. /\ n # 0 /\ SourceOf(s[n]) = key => n \in O
      /\ new <=> n = 0 \/ SourceOf(c) # SourceOf(s[n])
  <2>1. n # 0 => n \in 1 .. n
    BY <1>1
  <2>. QED
    BY <2>1 DEF OwnOf
<1> HIDE DEF n, t, S, T, O, P
<1>4. n + 1 \notin S /\ n + 1 \notin O /\ n + 1 \in Nat
  BY <1>1
<1>5. Cardinality(T) = IF new THEN runs + 1 ELSE runs
  <2>1. IsFiniteSet(1 .. n)
    BY <1>1, FS_Interval
  <2>2. IsFiniteSet(S)
    BY <1>1, <2>1, FS_Subset
  <2>3. CASE new
    <3>1. T = S \cup {n + 1}
      BY <1>1, <2>3
    <3>2. Cardinality(S \cup {n + 1}) = Cardinality(S) + 1
      BY <1>4, <2>2, FS_AddElement
    <3>. QED
      BY <1>2, <2>3, <3>1, <3>2
  <2>4. CASE ~new
    BY <1>1, <1>2, <2>4
  <2>. QED
    BY <2>3, <2>4
<1>6. CASE SourceOf(c) # key
  <2>1. P = O
    BY <1>1, <1>6
  <2>2. Together(O, n + 1)
    <3> SUFFICES ASSUME NEW i \in O, NEW k \in O, NEW j \in 1 .. n + 1, i <= j, j <= k
                 PROVE  j \in O
      BY DEF Together
    <3>1. j \in 1 .. n
      BY <1>1
    <3>. QED
      BY <1>2, <3>1 DEF Together
  <2>3. run # 0 => InRun(O, T, run)
    <3> SUFFICES ASSUME run # 0 PROVE InRun(O, T, run)
      OBVIOUS
    <3>1. PICK f \in O : /\ \A i \in O : f <= i
                         /\ run = Cardinality({i \in S : i <= f})
      BY <1>2 DEF InRun
    <3>2. {i \in T : i <= f} = {i \in S : i <= f}
      BY <1>1, RunKept
    <3>. QED
      BY <3>1, <3>2 DEF InRun
  <2>. QED
    BY <1>1, <1>2, <1>5, <1>6, <2>1, <2>2, <2>3 DEF Counted, P, T, t
<1>7. CASE SourceOf(c) = key /\ new
  <2>1. P = {n + 1}
    BY <1>1, <1>2, <1>7
  <2>2. Together(P, n + 1)
    <3> SUFFICES ASSUME NEW i \in P, NEW k \in P, NEW j \in 1 .. n + 1, i <= j, j <= k
                 PROVE  j \in P
      BY DEF Together
    <3>1. i = n + 1 /\ k = n + 1
      BY <2>1
    <3>2. j = n + 1
      BY <1>1, <3>1
    <3>. QED
      BY <2>1, <3>2
  <2>3. {i \in T : i <= n + 1} = T
    <3>1. \A i \in T : i = n + 1 \/ i \in 1 .. n
      BY <1>1
    <3>2. \A i \in T : i <= n + 1
      BY <1>1, <3>1
    <3>. QED
      BY <3>2
  <2>4. InRun(P, T, runs + 1)
    <3>1. runs + 1 = Cardinality({i \in T : i <= n + 1})
      BY <1>5, <1>7, <2>3, Zenon
    <3>2. n + 1 \in P /\ \A i \in P : n + 1 <= i
      BY <1>1, <2>1
    <3>. QED
      BY <3>1, <3>2, Zenon DEF InRun
  <2>5. runs + 1 # 0
    OBVIOUS
  <2>. QED
    BY <1>1, <1>5, <1>7, <2>2, <2>4, <2>5 DEF Counted, P, T, t
<1>8. CASE SourceOf(c) = key /\ ~new
  <2>1. P = O \cup {n + 1} /\ n \in O
    BY <1>1, <1>3, <1>8
  <2>2. run # 0
    BY <1>2, <2>1
  <2>3. Together(P, n + 1)
    <3> SUFFICES ASSUME NEW i \in P, NEW k \in P, NEW j \in 1 .. n + 1, i <= j, j <= k,
                        j # n + 1
                 PROVE  j \in O
      BY <2>1 DEF Together
    <3>1. j \in 1 .. n /\ j <= n
      BY <1>1
    <3>2. i \in O
      BY <1>1, <2>1, <3>1
    <3>. QED
      BY <1>2, <2>1, <3>1, <3>2 DEF Together
  <2>4. InRun(P, T, run)
    <3>1. PICK f \in O : /\ \A i \in O : f <= i
                         /\ run = Cardinality({i \in S : i <= f})
      BY <1>2, <2>2 DEF InRun
    <3>2. {i \in T : i <= f} = {i \in S : i <= f}
      BY <1>1, RunKept
    <3>3. f <= n + 1
      BY <1>1, <3>1
    <3>. QED
      BY <2>1, <3>1, <3>2, <3>3 DEF InRun
  <2>. QED
    BY <1>1, <1>5, <1>8, <2>2, <2>3, <2>4 DEF Counted, P, T, t
<1>. QED
  BY <1>6, <1>7, <1>8

-----------------------------------------------------------------------------
(* The inputs that were found *)

\* Leaving out what was not found is a fold.
LEMMA KeepFolds == Folds(Keep, <<>>, Seq(AnyCell), AnyCell)
<1>1. \A p \in Seq(AnyCell) \X AnyCell :
        (IF p[2] = NoCell THEN p[1] ELSE Append(p[1], p[2])) \in Seq(AnyCell)
  OBVIOUS
<1>. QED
  BY <1>1 DEF Folds, Keep

\* One input more.
LEMMA FoundAppend ==
  ASSUME NEW s \in Seq(AnyCell), NEW c \in AnyCell
  PROVE  /\ FoldUp(Keep, <<>>, s) \in Seq(AnyCell)
         /\ FoldUp(Keep, <<>>, Append(s, c)) =
              IF c = NoCell THEN FoldUp(Keep, <<>>, s)
              ELSE Append(FoldUp(Keep, <<>>, s), c)
<1> DEFINE found == FoldUp(Keep, <<>>, s)
<1>1. found \in Seq(AnyCell) /\ FoldUp(Keep, <<>>, Append(s, c)) = Keep[<<found, c>>]
  BY KeepFolds, FoldUpType, FoldUpAppend
<1> HIDE DEF found
<1>2. Keep[<<found, c>>] = IF c = NoCell THEN found ELSE Append(found, c)
  BY <1>1 DEF Keep
<1>. QED
  BY <1>1, <1>2 DEF found

\* A cell of the host is not the place of an input that was not found.
LEMMA NoCellIsNone == ASSUME NEW c \in InCells \cup OutCells PROVE c # NoCell
BY CellAssumption DEF NoCell

\* The found inputs after an action that adds an input.
LEMMA FoundGrows ==
  ASSUME TypeOK, CellKept
  PROVE  /\ ins \in Seq(AnyCell) /\ Found \in Seq(AnyCell) /\ cell \in AnyCell
         /\ InputData => Found' = Append(Found, cell) /\ ins' = Append(ins, cell)
         /\ InputNotFound => Found' = Found /\ ins' = Append(ins, NoCell)
         /\ UNCHANGED ins => Found' = Found
<1>1. ins \in Seq(AnyCell) /\ cell \in AnyCell /\ NoCell \in AnyCell
  BY DEF TypeOK, AnyCell
<1>2. Found \in Seq(AnyCell)
  BY <1>1, FoundAppend DEF Found
<1>3. Keep' = Keep /\ Found' = FoldUp(Keep, <<>>, ins')
  BY DEF Keep, Found, AnyCell, NoCell
<1>4. ASSUME InputData PROVE Found' = Append(Found, cell) /\ ins' = Append(ins, cell)
  <2>1. cell # NoCell /\ ins' = Append(ins, cell)
    BY <1>4, NoCellIsNone DEF InputData, CellKept, OfCell
  <2>. QED
    BY <1>1, <1>3, <2>1, FoundAppend DEF Found
<1>5. ASSUME InputNotFound PROVE Found' = Found /\ ins' = Append(ins, NoCell)
  <2>1. ins' = Append(ins, NoCell)
    BY <1>5 DEF InputNotFound
  <2>. QED
    BY <1>1, <1>3, <2>1, FoundAppend DEF Found
<1>6. UNCHANGED ins => Found' = Found
  BY <1>3 DEF Found
<1>. QED
  BY <1>1, <1>2, <1>4, <1>5, <1>6

\* A lock of the default script with an argument of its length.
Plain(c) == c.lock = "default" /\ Len(c.args) = HASH
AllPlain(s) == \A i \in 1 .. Len(s) : Plain(s[i])

\* Unless the transaction was refused: what was found is among the inputs, no
\* multisig input that is not a DAO cell was left unnoticed, and the amount of
\* the user's own inputs is kept.
FoundKept ==
  /\ \A i \in 1 .. Len(Found) : Found[i] \in CellsOf(ins)
  /\ ~unsafe /\ ~signing_multisig_input =>
       \A i \in 1 .. Len(Found) : IsDao(Found[i]) \/ Found[i].lock # "multisig"
  /\ ~unsafe /\ AllPlain(Found) /\ ~Has(ins, DaoCells) =>
       input_fst = Capacity(ins, OwnCells)

\* The comparison with the key's lock argument is about the cell's source.
OwnNoticed ==
  pc = "in_data" /\ Plain(cell) =>
    (cell_state.lock_arg_nonequal <=> SourceOf(cell) # current_lock_arg)

\* Only set_sign_path sets the key.
LEMMA OnlySetPaths ==
  ASSUME [Next]_vars,
         ~\E change \in ChangeHashes, n, declared \in 0 .. MaxIns :
            SetPaths(change, n, declared)
  PROVE  current_lock_arg' = current_lock_arg
<1>1. CASE \/ \E c \in InCells : StartInput(c)
           \/ \E c \in OutCells : StartOutput(c)
           \/ \E n \in 1 .. Len(cell.args) : ScriptArgChunk(n)
           \/ InputNotFound \/ InputLockArgEnd \/ FinishInputs \/ InputData
  BY <1>1 DEF StartInput, StartOutput, ScriptArgChunk, InputNotFound,
     InputLockArgEnd, FinishInputs, InputData
<1>2. CASE \/ \E c \in OutCells : OutputData(c)
           \/ \E secure_only \in BOOLEAN : SignComplete(secure_only)
           \/ OutputEnd \/ OutputsEnd \/ FinalizeRawTransaction \/ RefuseNextApdu
           \/ PathsRefused \/ SwitchContractData \/ Done \/ UNCHANGED vars
  BY <1>2 DEF OutputData, OutputEnd, OutputsEnd, FinalizeRawTransaction,
     RefuseNextApdu, PathsRefused, SignComplete, SwitchContractData, Done, vars
<1>. QED
  BY <1>1, <1>2 DEF Next

\* The key is set before the first input.
LEMMA KeyKept ==
  ASSUME Phase, [Next]_vars
  PROVE  (ins = <<>> /\ ins' = <<>>) \/ current_lock_arg' = current_lock_arg
<1>1. CASE \E change \in ChangeHashes, n, declared \in 0 .. MaxIns :
             SetPaths(change, n, declared)
  <2>1. pc = "paths" /\ ins' = ins
    BY <1>1 DEF SetPaths
  <2>. QED
    BY <2>1 DEF Phase
<1>2. CASE ~\E change \in ChangeHashes, n, declared \in 0 .. MaxIns :
              SetPaths(change, n, declared)
  BY <1>2, OnlySetPaths
<1>. QED
  BY <1>1, <1>2

\* A lock argument of an input that is received whole.
LEMMA InputReceived ==
  ASSUME TypeOK, ReceivedSoFar, InputLockArgEnd, Plain(cell)
  PROVE  /\ HashOf(lock_arg_tmp) = SourceOf(cell)
         /\ cell_state.lock_arg_nonequal <=> SourceOf(cell) # current_lock_arg
<1>1. /\ HASH \in Nat /\ ARG \in Nat /\ HASH < ARG /\ cell.args \in Seq(UNIT)
      /\ current_lock_arg \in [1 .. HASH -> UNIT]
  BY BoundsAssumption, CellFields DEF TypeOK, Hash
<1>2. pc = "in_args" /\ sent = Len(cell.args) /\ sent = HASH
  BY DEF InputLockArgEnd, Plain
<1>3. /\ lock_arg_tmp = [k \in 1 .. ARG |-> IF k <= Len(cell.args) THEN cell.args[k] ELSE 0]
      /\ cell_state.lock_arg_nonequal <=>
           \E k \in 1 .. Len(cell.args) : LockArgCmp(k) # cell.args[k]
  BY <1>1, <1>2 DEF ReceivedSoFar
<1>4. lock_arg_tmp = Pad(cell.args)
  BY <1>3 DEF Pad
<1>5. \A k \in 1 .. HASH : LockArgCmp(k) = current_lock_arg[k]
  BY <1>1, <1>2 DEF LockArgCmp
<1>6. SourceOf(cell) = [k \in 1 .. HASH |-> cell.args[k]]
  <2>1. \A k \in 1 .. HASH : k \in 1 .. ARG /\ k <= Len(cell.args)
    BY <1>1, <1>2
  <2>2. \A k \in 1 .. HASH : lock_arg_tmp[k] = cell.args[k]
    BY <1>3, <2>1
  <2>. QED
    BY <1>4, <2>2 DEF SourceOf, HashOf
<1>7. current_lock_arg = [k \in 1 .. HASH |-> current_lock_arg[k]]
  BY <1>1
<1>8. (\A k \in 1 .. HASH : current_lock_arg[k] = cell.args[k])
        <=> SourceOf(cell) = current_lock_arg
  <2>1. ASSUME \A k \in 1 .. HASH : current_lock_arg[k] = cell.args[k]
        PROVE  SourceOf(cell) = current_lock_arg
    BY <1>6, <1>7, <2>1, Zenon
  <2>2. ASSUME SourceOf(cell) = current_lock_arg, NEW k \in 1 .. HASH
        PROVE  current_lock_arg[k] = cell.args[k]
    BY <1>6, <2>2
  <2>. QED
    BY <2>1, <2>2
<1>. QED
  BY <1>2, <1>3, <1>4, <1>5, <1>8 DEF SourceOf

\* The cells of one input more.
LEMMA CellsAppend ==
  ASSUME NEW s \in Seq(AnyCell), NEW c \in AnyCell
  PROVE  c \in CellsOf(Append(s, c)) /\ \A d \in CellsOf(s) : d \in CellsOf(Append(s, c))
<1> DEFINE t == Append(s, c)
<1>1. /\ Len(s) \in Nat /\ Len(t) = Len(s) + 1 /\ t[Len(s) + 1] = c
      /\ \A i \in 1 .. Len(s) : t[i] = s[i]
  OBVIOUS
<1> HIDE DEF t
<1>2. Len(s) + 1 \in 1 .. Len(t) /\ \A i \in 1 .. Len(s) : i \in 1 .. Len(t)
  BY <1>1
<1>3. c \in CellsOf(t) /\ \A d \in CellsOf(s) : d \in CellsOf(t)
  BY <1>1, <1>2 DEF CellsOf
<1>. QED
  BY <1>3 DEF t

\* Every step keeps OwnNoticed.
LEMMA OwnNoticedStep ==
  TypeOK /\ ReceivedSoFar /\ OwnNoticed /\ [Next]_vars => OwnNoticed'
<1> SUFFICES ASSUME TypeOK, ReceivedSoFar, OwnNoticed, [Next]_vars,
                    pc' = "in_data", Plain(cell')
             PROVE  cell_state'.lock_arg_nonequal <=> SourceOf(cell') # current_lock_arg'
  BY DEF OwnNoticed, Plain, SourceOf, HashOf, Pad
<1>1. CASE InputLockArgEnd
  <2>1. /\ cell' = cell /\ current_lock_arg' = current_lock_arg
        /\ cell_state'.lock_arg_nonequal = cell_state.lock_arg_nonequal
    <3> DEFINE d == cell.type = "dao"
    <3>1. cell_state' = [cell_state EXCEPT !.is_dao = d]
      BY <1>1 DEF InputLockArgEnd
    <3> HIDE DEF d
    <3>2. cell_state'.lock_arg_nonequal = cell_state.lock_arg_nonequal
      BY <3>1 DEF TypeOK
    <3>. QED
      BY <1>1, <3>2 DEF InputLockArgEnd
  <2>. QED
    BY <1>1, <2>1, InputReceived
<1>2. CASE SwitchContractData \/ Done \/ UNCHANGED vars
  <2>1. UNCHANGED <<pc, cell, cell_state, current_lock_arg>>
    BY <1>2 DEF SwitchContractData, Done, vars
  <2>. QED
    BY <2>1 DEF OwnNoticed
<1>3. CASE \/ InputData \/ FinishInputs \/ OutputEnd \/ OutputsEnd
           \/ FinalizeRawTransaction \/ RefuseNextApdu \/ PathsRefused
           \/ \E secure_only \in BOOLEAN : SignComplete(secure_only)
           \/ \E c \in OutCells : OutputData(c)
           \/ \E change \in ChangeHashes, n, declared \in 0 .. MaxIns :
                SetPaths(change, n, declared)
           \/ InputNotFound
  BY <1>3, LeavesCell
<1>4. CASE \/ \E c \in InCells : StartInput(c)
           \/ \E c \in OutCells : StartOutput(c)
           \/ \E n \in 1 .. Len(cell.args) : ScriptArgChunk(n)
  BY <1>4 DEF StartInput, StartOutput, ScriptArgChunk
<1>. QED
  BY <1>1, <1>2, <1>3, <1>4 DEF Next

\* One more input that was found.
LEMMA FoundKeptInput ==
  ASSUME TypeOK, CapacityKept, CellKept, OwnNoticed, FoundKept, InputData, ~unsafe'
  PROVE  /\ ~signing_multisig_input' =>
              \A i \in 1 .. Len(Found') : IsDao(Found'[i]) \/ Found'[i].lock # "multisig"
         /\ AllPlain(Found') /\ ~Has(ins', DaoCells) =>
              input_fst' = Capacity(ins', OwnCells)
<1>1. /\ ins \in Seq(AnyCell) /\ Found \in Seq(AnyCell) /\ cell \in AnyCell
      /\ Found' = Append(Found, cell) /\ ins' = Append(ins, cell)
  BY FoundGrows
<1>2. /\ pc = "in_data" /\ cell # NoCell /\ cell_state.capacity = cell.cap
      /\ cell_state.is_dao <=> IsDao(cell)
      /\ cell_state.is_multisig <=> cell.lock = "multisig"
      /\ unsafe \in BOOLEAN /\ signing_multisig_input \in BOOLEAN
  BY NoCellIsNone DEF InputData, CellKept, OfCell, CapacityKept, TypeOK
<1>3. /\ Len(Found) \in Nat /\ Len(Found') = Len(Found) + 1 /\ Found'[Len(Found) + 1] = cell
      /\ \A i \in 1 .. Len(Found) : Found'[i] = Found[i]
  BY <1>1
<1>4. \A i : i \in 1 .. Len(Found) + 1 <=> i \in 1 .. Len(Found) \/ i = Len(Found) + 1
  BY <1>3
<1>5. ~unsafe
  BY <1>2 DEF InputData, DaoInputData, PlainInputData, SetDaoTag
<1>6. IsDao(cell) => signing_multisig_input' = signing_multisig_input
  BY <1>2 DEF InputData, DaoInputData, PlainInputData
<1>7. ~IsDao(cell) =>
        /\ signing_multisig_input' = (signing_multisig_input \/ cell_state.is_multisig)
        /\ input_fst' = IF cell_state.lock_arg_nonequal THEN input_fst
                        ELSE AddW(input_fst, cell_state.capacity)
  BY <1>2 DEF InputData, DaoInputData, PlainInputData
<1>8. ASSUME ~signing_multisig_input', NEW i \in 1 .. Len(Found')
      PROVE  IsDao(Found'[i]) \/ Found'[i].lock # "multisig"
  <2>1. ~signing_multisig_input /\ (IsDao(cell) \/ cell.lock # "multisig")
    BY <1>2, <1>6, <1>7, <1>8
  <2>2. \A k \in 1 .. Len(Found) : IsDao(Found[k]) \/ Found[k].lock # "multisig"
    BY <1>5, <2>1 DEF FoundKept
  <2>. QED
    BY <1>3, <1>4, <2>1, <2>2
<1>9. ASSUME AllPlain(Found'), ~Has(ins', DaoCells)
      PROVE  input_fst' = Capacity(ins', OwnCells)
  <2>1. ~Has(ins, DaoCells) /\ ~IsDao(cell)
    BY <1>1, <1>9, HasAppend, Kinds
  <2>2. AllPlain(Found) /\ Plain(cell)
    BY <1>3, <1>4, <1>9 DEF AllPlain, Plain
  <2>3. input_fst = Capacity(ins, OwnCells)
    BY <1>5, <2>1, <2>2 DEF FoundKept
  <2>4. cell_state.lock_arg_nonequal <=> cell \notin OwnCells
    BY <1>1, <1>2, <2>2 DEF OwnNoticed, OwnCells
  <2>5. input_fst' = IF cell \in OwnCells THEN AddW(input_fst, cell.cap) ELSE input_fst
    BY <1>2, <1>7, <2>1, <2>4
  <2>. QED
    BY <1>1, <2>3, <2>5, CapacityAppend
<1>. QED
  BY <1>8, <1>9

\* Every step keeps FoundKept.
LEMMA FoundKeptStep ==
  TypeOK /\ Phase /\ CapacityKept /\ CellKept /\ OwnNoticed /\ FoundKept /\ [Next]_vars
    => FoundKept'
<1> SUFFICES ASSUME TypeOK, Phase, CapacityKept, CellKept, OwnNoticed, FoundKept,
                    [Next]_vars
             PROVE  FoundKept'
  OBVIOUS
<1>1. /\ ins \in Seq(AnyCell) /\ Found \in Seq(AnyCell) /\ cell \in AnyCell
      /\ InputData => Found' = Append(Found, cell) /\ ins' = Append(ins, cell)
      /\ InputNotFound => Found' = Found /\ ins' = Append(ins, NoCell)
      /\ UNCHANGED ins => Found' = Found
  BY FoundGrows
<1>2. DaoCells' = DaoCells /\ NoCell \in AnyCell /\ NoCell \notin OwnCells
  BY DEF DaoCells, IsDao, AnyCell, NoCell, OwnCells
<1>3. OwnCells' = OwnCells \/ (ins = <<>> /\ ins' = <<>>)
  <2>1. current_lock_arg' = current_lock_arg => OwnCells' = OwnCells
    BY DEF OwnCells, SourceOf, HashOf, Pad, AnyCell, NoCell
  <2>. QED
    BY <2>1, KeyKept
<1>4. \A c : ins' = Append(ins, c) => ins' # <<>>
  BY <1>1
<1>5. CASE InputData
  <2>1. OwnCells' = OwnCells
    BY <1>1, <1>3, <1>4, <1>5
  <2>2. \A i \in 1 .. Len(Found') : Found'[i] \in CellsOf(ins')
    <3>1. /\ Len(Found) \in Nat /\ Len(Found') = Len(Found) + 1
          /\ Found'[Len(Found) + 1] = cell
          /\ \A i \in 1 .. Len(Found) : Found'[i] = Found[i]
      BY <1>1, <1>5
    <3>2. cell \in CellsOf(ins') /\ \A c \in CellsOf(ins) : c \in CellsOf(ins')
      BY <1>1, <1>5, CellsAppend
    <3>3. \A i \in 1 .. Len(Found') : i \in 1 .. Len(Found) \/ i = Len(Found) + 1
      BY <3>1
    <3>. QED
      BY <3>1, <3>2, <3>3 DEF FoundKept
  <2>3. ~unsafe' =>
          /\ ~signing_multisig_input' =>
               \A i \in 1 .. Len(Found') : IsDao(Found'[i]) \/ Found'[i].lock # "multisig"
          /\ AllPlain(Found') /\ ~Has(ins', DaoCells) =>
               input_fst' = Capacity(ins', OwnCells)
    BY <1>5, FoundKeptInput
  <2>. QED
    BY <1>2, <2>1, <2>2, <2>3 DEF FoundKept, AllPlain, Plain, IsDao
<1>6. CASE ~InputData
  <2>1. /\ UNCHANGED <<input_fst, signing_multisig_input>>
        /\ Found' = Found /\ (ins' = Append(ins, NoCell) \/ ins' = ins)
    BY <1>1, <1>6, OnlyInputData
  <2>2. /\ \A c \in CellsOf(ins) : c \in CellsOf(ins')
        /\ ~Has(ins', DaoCells) => ~Has(ins, DaoCells)
        /\ Capacity(ins', OwnCells') = Capacity(ins, OwnCells)
    <3>1. CASE ins' = Append(ins, NoCell)
      BY <1>1, <1>2, <1>3, <1>4, <3>1, CellsAppend, HasAppend, CapacityAppend
    <3>2. CASE ins' = ins
      BY <1>3, <3>2, CapacityEmpty
    <3>. QED
      BY <2>1, <3>1, <3>2
  <2>3. ~unsafe' => ~unsafe
    BY RefusedStays
  <2>. QED
    BY <1>2, <2>1, <2>2, <2>3 DEF FoundKept, AllPlain, Plain, IsDao
<1>. QED
  BY <1>5, <1>6

-----------------------------------------------------------------------------
(* The sources that were counted *)

\* The cells that input_lock_arg_end has seen.
Seen == IF pc = "in_data" THEN Append(Found, cell) ELSE Found

\* The place of the parser before the end of the inputs.
AtInputs == pc \in {"paths", "ins", "in_args", "in_data"}

\* The parser goes on, or the prompt is up.
Going == pc # "end" \/ Prompted

\* last_input_lock_arg is the source of the last cell of s.
LastKept(s) ==
  last_input_lock_arg = IF Len(s) = 0 THEN ZeroHash ELSE SourceOf(s[Len(s)])

\* The sources of plain cells are told apart, but for a first one of zeroes.
Told(s) == AllPlain(s) /\ (Len(s) > 0 => SourceOf(s[1]) # ZeroHash)

\* Unless the transaction was refused, what is kept of the sources is what they
\* are.
SourcesKept ==
  ~unsafe /\ Going /\ Told(Seen) =>
    /\ Counted(Seen, current_lock_arg, distinct_input_sources, input_index)
    /\ AtInputs => LastKept(Seen)

\* Only input_lock_arg_end counts sources, and finish_inputs clears the last one.
LEMMA OnlyLockArgEnd ==
  ASSUME [Next]_vars, ~InputLockArgEnd
  PROVE  /\ UNCHANGED <<distinct_input_sources, input_index>>
         /\ UNCHANGED last_input_lock_arg \/ pc' = "outs"
<1>1. CASE \/ \E change \in ChangeHashes, n, declared \in 0 .. MaxIns :
                SetPaths(change, n, declared)
           \/ \E c \in InCells : StartInput(c)
           \/ \E c \in OutCells : StartOutput(c)
           \/ \E n \in 1 .. Len(cell.args) : ScriptArgChunk(n)
           \/ InputNotFound \/ FinishInputs \/ InputData
  BY <1>1 DEF SetPaths, StartInput, StartOutput, ScriptArgChunk, InputNotFound,
     FinishInputs, InputData
<1>2. CASE \/ \E c \in OutCells : OutputData(c)
           \/ \E secure_only \in BOOLEAN : SignComplete(secure_only)
           \/ OutputEnd \/ OutputsEnd \/ FinalizeRawTransaction \/ RefuseNextApdu
           \/ PathsRefused \/ SwitchContractData \/ Done \/ UNCHANGED vars
  BY <1>2 DEF OutputData, OutputEnd, OutputsEnd, FinalizeRawTransaction,
     RefuseNextApdu, PathsRefused, SignComplete, SwitchContractData, Done, vars
<1>. QED
  BY <1>1, <1>2 DEF Next

\* The other actions see no further cell, and none goes back to the inputs.
LEMMA SeenKept ==
  ASSUME TypeOK, Phase, CellKept, [Next]_vars, ~InputLockArgEnd, Going'
  PROVE  Seen' = Seen /\ Going /\ (AtInputs' => AtInputs)
<1>1. /\ InputData => Found' = Append(Found, cell)
      /\ InputNotFound => Found' = Found
      /\ UNCHANGED ins => Found' = Found
  BY FoundGrows
<1>2. CASE InputData
  BY <1>1, <1>2 DEF InputData, Seen, Going, AtInputs
<1>3. CASE InputNotFound
  BY <1>1, <1>3 DEF InputNotFound, Seen, Going, AtInputs
<1>4. CASE SwitchContractData \/ Done \/ UNCHANGED vars
  <2>1. UNCHANGED <<pc, cell, ins, screens>>
    BY <1>4 DEF SwitchContractData, Done, vars
  <2>. QED
    BY <1>1, <2>1 DEF Seen, Going, AtInputs, Prompted
<1>5. CASE RefuseNextApdu \/ PathsRefused
  <2>1. pc # "end" /\ pc' = "end" /\ screens' = screens
    BY <1>5 DEF RefuseNextApdu, PathsRefused, Refuse
  <2>. QED
    BY <2>1 DEF Phase, Prompted, Going
<1>6. CASE \/ \E change \in ChangeHashes, n, declared \in 0 .. MaxIns :
                SetPaths(change, n, declared)
           \/ \E c \in InCells : StartInput(c)
           \/ \E c \in OutCells : StartOutput(c)
           \/ \E n \in 1 .. Len(cell.args) : ScriptArgChunk(n)
           \/ FinishInputs
           \/ \E c \in OutCells : OutputData(c)
           \/ \E secure_only \in BOOLEAN : SignComplete(secure_only)
           \/ FinalizeRawTransaction
  <2>1. /\ UNCHANGED ins /\ pc \notin {"in_data", "end"} /\ pc' # "in_data"
        /\ AtInputs' => AtInputs
    BY <1>6 DEF SetPaths, StartInput, StartOutput, ScriptArgChunk, FinishInputs,
       OutputData, SignComplete, FinalizeRawTransaction, AtInputs
  <2>. QED
    BY <1>1, <2>1 DEF Seen, Going
<1>7. CASE OutputEnd \/ OutputsEnd
  <2>1. UNCHANGED ins /\ pc \in {"out_args", "outs"} /\ pc' \in {"outs", "data", "end"}
    BY <1>7 DEF OutputEnd, OutputsEnd, SelfTransfer, DaoOutput, DestinationOutput,
       FirstDestination, CoalescedDestination, FurtherDestination, ChangeOutput,
       Continue, Throw
  <2>. QED
    BY <1>1, <2>1 DEF Seen, Going, AtInputs
<1>. QED
  BY <1>2, <1>3, <1>4, <1>5, <1>6, <1>7 DEF Next

\* No sources are counted the same for every key.
LEMMA NoneCounted ==
  ASSUME NEW key, NEW other, NEW runs, NEW run, Counted(<<>>, key, runs, run)
  PROVE  Counted(<<>>, other, runs, run)
<1>1. StartsOf(<<>>) = {} /\ OwnOf(<<>>, key) = {} /\ OwnOf(<<>>, other) = {}
  BY DEF StartsOf, OwnOf
<1>. QED
  BY <1>1 DEF Counted

\* What holds of one cell more holds of the cells before it.
LEMMA ToldFewer ==
  ASSUME NEW s \in Seq(AnyCell), NEW c \in AnyCell, Told(Append(s, c))
  PROVE  Told(s) /\ Plain(c) /\ (Len(s) = 0 => SourceOf(c) # ZeroHash)
<1> DEFINE t == Append(s, c)
<1>1. /\ Len(s) \in Nat /\ Len(t) = Len(s) + 1 /\ t[Len(s) + 1] = c
      /\ \A i \in 1 .. Len(s) : t[i] = s[i]
  OBVIOUS
<1>2. Told(t)
  OBVIOUS
<1> HIDE DEF t
<1>3. /\ Len(s) + 1 \in 1 .. Len(t) /\ \A i \in 1 .. Len(s) : i \in 1 .. Len(t)
      /\ Len(t) > 0 /\ (Len(s) > 0 => 1 \in 1 .. Len(s))
  BY <1>1
<1>4. (\A i \in 1 .. Len(t) : Plain(t[i])) /\ SourceOf(t[1]) # ZeroHash
  BY <1>2, <1>3 DEF Told, AllPlain
<1>5. Len(s) > 0 => SourceOf(s[1]) # ZeroHash
  BY <1>1, <1>3, <1>4
<1>6. Len(s) = 0 => SourceOf(c) # ZeroHash
  BY <1>1, <1>4
<1>7. \A i \in 1 .. Len(s) : Plain(s[i])
  BY <1>1, <1>3, <1>4
<1>8. Plain(c)
  BY <1>1, <1>3, <1>4
<1>. QED
  BY <1>5, <1>6, <1>7, <1>8 DEF Told, AllPlain

\* input_lock_arg_end on one cell more.
LEMMA SourcesCounted ==
  ASSUME TypeOK, ReceivedSoFar, CellKept, SourcesKept, InputLockArgEnd,
         ~unsafe', Told(Append(Found, cell))
  PROVE  /\ Counted(Append(Found, cell), current_lock_arg, distinct_input_sources',
                    input_index')
         /\ last_input_lock_arg' = SourceOf(cell)
<1>1. Found \in Seq(AnyCell) /\ cell \in AnyCell
  BY FoundGrows
<1>2. /\ pc = "in_args" /\ unsafe \in BOOLEAN /\ distinct_input_sources \in Nat
      /\ input_index \in Nat
  BY DEF InputLockArgEnd, TypeOK
<1>3. Told(Found) /\ Plain(cell) /\ (Len(Found) = 0 => SourceOf(cell) # ZeroHash)
  BY <1>1, ToldFewer
<1>4. /\ HashOf(lock_arg_tmp) = SourceOf(cell)
      /\ cell_state.lock_arg_nonequal <=> SourceOf(cell) # current_lock_arg
  BY <1>3, InputReceived
<1> DEFINE new == SourceOf(cell) # last_input_lock_arg
           own == new /\ SourceOf(cell) = current_lock_arg
<1>5. /\ distinct_input_sources' =
           IF new THEN distinct_input_sources + 1 ELSE distinct_input_sources
      /\ ~unsafe /\ (own => input_index = 0)
      /\ input_index' = IF own THEN distinct_input_sources + 1 ELSE input_index
      /\ last_input_lock_arg' = SourceOf(cell)
  BY <1>2, <1>4 DEF InputLockArgEnd
<1>6. /\ Counted(Found, current_lock_arg, distinct_input_sources, input_index)
      /\ last_input_lock_arg = IF Len(Found) = 0 THEN ZeroHash
                               ELSE SourceOf(Found[Len(Found)])
  BY <1>2, <1>3, <1>5 DEF SourcesKept, Seen, Going, AtInputs, LastKept
<1>7. new <=> Len(Found) = 0 \/ SourceOf(cell) # SourceOf(Found[Len(Found)])
  BY <1>3, <1>6
<1>8. new \in BOOLEAN /\ (new /\ SourceOf(cell) = current_lock_arg => input_index = 0)
  BY <1>5
<1> HIDE DEF new
<1>9. Counted(Append(Found, cell), current_lock_arg,
              IF new THEN distinct_input_sources + 1 ELSE distinct_input_sources,
              IF new /\ SourceOf(cell) = current_lock_arg
              THEN distinct_input_sources + 1 ELSE input_index)
  BY <1>1, <1>2, <1>6, <1>7, <1>8, CountedAppend
<1>. QED
  BY <1>5, <1>9

\* Every step keeps SourcesKept.
LEMMA SourcesStep ==
  TypeOK /\ Phase /\ ReceivedSoFar /\ CellKept /\ SourcesKept /\ [Next]_vars => SourcesKept'
<1> SUFFICES ASSUME TypeOK, Phase, ReceivedSoFar, CellKept, SourcesKept, [Next]_vars,
                    ~unsafe', Going', Told(Seen')
             PROVE  /\ Counted(Seen', current_lock_arg', distinct_input_sources',
                               input_index')
                    /\ AtInputs' => LastKept(Seen)'
  BY DEF SourcesKept, Told, AllPlain, Plain, Counted, SourceOf, HashOf, Pad,
     StartsOf, OwnOf, Together, InRun
<1>1. CASE InputLockArgEnd
  <2>1. /\ pc' = "in_data" /\ UNCHANGED <<ins, cell, current_lock_arg>>
        /\ Found \in Seq(AnyCell) /\ cell \in AnyCell /\ Found' = Found
    BY <1>1, FoundGrows DEF InputLockArgEnd
  <2>2. Seen' = Append(Found, cell)
    BY <2>1 DEF Seen
  <2>3. /\ Counted(Append(Found, cell), current_lock_arg, distinct_input_sources',
                   input_index')
        /\ last_input_lock_arg' = SourceOf(cell)
    BY <1>1, <2>2, SourcesCounted
  <2>4. LastKept(Seen)'
    <3>1. Len(Seen') # 0 /\ Seen'[Len(Seen')] = cell
      BY <2>1, <2>2
    <3>. QED
      BY <2>3, <3>1 DEF LastKept
  <2>. QED
    BY <2>1, <2>2, <2>3, <2>4
<1>2. CASE ~InputLockArgEnd
  <2>1. Seen' = Seen /\ Going /\ (AtInputs' => AtInputs) /\ ~unsafe
    BY <1>2, SeenKept, RefusedStays
  <2>2. /\ UNCHANGED <<distinct_input_sources, input_index>>
        /\ UNCHANGED last_input_lock_arg \/ pc' = "outs"
    BY <1>2, OnlyLockArgEnd
  <2>3. /\ Counted(Seen, current_lock_arg, distinct_input_sources, input_index)
        /\ AtInputs => LastKept(Seen)
    BY <2>1 DEF SourcesKept
  <2>4. Seen = <<>> \/ current_lock_arg' = current_lock_arg
    <3>1. (ins = <<>> /\ ins' = <<>>) \/ current_lock_arg' = current_lock_arg
      BY KeyKept
    <3>2. ASSUME ins = <<>>, current_lock_arg' # current_lock_arg PROVE Seen = <<>>
      <4>1. \E change \in ChangeHashes, n, declared \in 0 .. MaxIns :
              SetPaths(change, n, declared)
        BY <3>2, OnlySetPaths
      <4>2. pc = "paths"
        BY <4>1 DEF SetPaths
      <4>3. Found = <<>>
        BY <3>2, KeepFolds, FoldUpEmpty DEF Found
      <4>. QED
        BY <4>2, <4>3 DEF Seen
    <3>. QED
      BY <3>1, <3>2
  <2>5. Counted(Seen', current_lock_arg', distinct_input_sources', input_index')
    BY <2>1, <2>2, <2>3, <2>4, NoneCounted
  <2>6. AtInputs' => LastKept(Seen)'
    BY <2>1, <2>2, <2>3 DEF AtInputs, LastKept
  <2>. QED
    BY <2>5, <2>6
<1>. QED
  BY <1>1, <1>2

-----------------------------------------------------------------------------
(* Multi-input prompts *)

\* The inductive invariant behind the prompt of several inputs.
SourceInv == PromptInv /\ OwnNoticed /\ FoundKept /\ SourcesKept

\* clear_data leaves a state that satisfies it.
LEMMA SourceInit == Init => SourceInv
<1> SUFFICES ASSUME Init PROVE SourceInv OBVIOUS
<1>1. /\ pc = "paths" /\ ins = <<>> /\ distinct_input_sources = 0 /\ input_index = 0
      /\ last_input_lock_arg = ZeroHash /\ input_fst = 0
  BY DEF Init
<1>2. Found = <<>> /\ Seen = <<>>
  BY <1>1, KeepFolds, FoldUpEmpty DEF Found, Seen
<1>3. FoundKept
  BY <1>1, <1>2, CapacityEmpty DEF FoundKept
<1>4. SourcesKept
  BY <1>1, <1>2, CountedEmpty DEF SourcesKept, LastKept
<1>5. OwnNoticed
  BY <1>1 DEF OwnNoticed
<1>. QED
  BY <1>3, <1>4, <1>5, PromptInit DEF SourceInv

\* Every step keeps it.
LEMMA SourceStep == SourceInv /\ [Next]_vars => SourceInv'
<1> SUFFICES ASSUME SourceInv, [Next]_vars PROVE SourceInv' OBVIOUS
<1>1. TypeOK /\ Phase /\ CellKept /\ CapacityKept /\ ReceivedSoFar
  BY DEF SourceInv, PromptInv, BaseInv
<1>. QED
  BY <1>1, PromptStep, OwnNoticedStep, FoundKeptStep, SourcesStep DEF SourceInv

\* What the invariant says of the prompt of several inputs.
LEMMA SourceOfInv == SourceInv => MultiInputNamesSource
<1> SUFFICES ASSUME SourceInv, Prompted, tag = MULTI_INPUT, AllWellFormed(Found),
                    Len(Found) > 0 => SourceOf(Found[1]) # ZeroHash
             PROVE  /\ \A i, k \in OwnInputs, j \in 1 .. Len(Found) :
                         i <= j /\ j <= k => j \in OwnInputs
                    /\ \E f \in OwnInputs :
                         /\ \A i \in OwnInputs : f <= i
                         /\ input_index = Cardinality({i \in Starts : i <= f})
                    /\ v.input_count_snd = Cardinality(Starts)
                    /\ v.amount_fst = Capacity(ins, OwnCells)
  BY DEF MultiInputNamesSource
<1>1. /\ PromptInv /\ TypeOK /\ Phase /\ ~unsafe /\ pc = "end" /\ Finalized
      /\ ins \in Seq(AnyCell)
  BY DEF SourceInv, PromptInv, BaseInv, Phase, Final, TypeOK, AnyCell
<1>2. /\ v.amount_fst = input_fst /\ v.input_count_snd = distinct_input_sources
      /\ ~signing_multisig_input /\ input_index # 0
  BY <1>1 DEF Finalized
<1>3. \A c \in CellsOf(ins) : ~IsDao(c)
  <2>1. tag \notin {PREPARE, WITHDRAW}
    BY DEF MULTI_INPUT, PREPARE, WITHDRAW
  <2>. QED
    BY <1>1, <2>1 DEF PromptInv, InDao, CellsOf
<1>4. ~Has(ins, DaoCells)
  BY <1>3 DEF Has, DaoCells
<1>5. AllPlain(Found)
  <2> SUFFICES ASSUME NEW i \in 1 .. Len(Found) PROVE Plain(Found[i])
    BY DEF AllPlain
  <2>1. ~IsDao(Found[i]) /\ Found[i].lock # "multisig"
    BY <1>1, <1>2, <1>3 DEF SourceInv, FoundKept
  <2>2. WellFormed(Found[i])
    BY DEF AllWellFormed
  <2>. QED
    BY <2>1, <2>2 DEF WellFormed, Plain
<1>6. Seen = Found /\ Told(Seen) /\ Going
  BY <1>1, <1>5 DEF Seen, Told, Going
<1>7. Counted(Found, current_lock_arg, distinct_input_sources, input_index)
  BY <1>1, <1>6 DEF SourceInv, SourcesKept
<1>8. input_fst = Capacity(ins, OwnCells)
  BY <1>1, <1>4, <1>5 DEF SourceInv, FoundKept
<1>9. OwnInputs = OwnOf(Found, current_lock_arg) /\ Starts = StartsOf(Found)
  BY DEF OwnInputs, OwnOf, Starts, StartsOf
<1>. QED
  BY <1>2, <1>7, <1>8, <1>9 DEF Counted, Together, InRun

\* A multi-input prompt is shown only when the inputs of the signing key lie
\* together; its "Input n of m" is their place among the runs of equal sources
\* and its amount the capacity they bring: for any cells and chunks.
THEOREM SourceCorrect == Spec => []MultiInputNamesSource
<1>1. Init => SourceInv
  BY SourceInit
<1>2. SourceInv /\ [Next]_vars => SourceInv'
  BY SourceStep
<1>3. SourceInv => MultiInputNamesSource
  BY SourceOfInv
<1>. QED
  BY <1>1, <1>2, <1>3, PTL DEF Spec
=============================================================================

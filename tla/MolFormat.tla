------------------------------ MODULE MolFormat ------------------------------
(***************************************************************************)
(* The molecule types of an annotated transaction, as the generated        *)
(* parsers of blockchain.h and annotated.h know them, and the tables of    *)
(* callbacks with which apdu_sign.c calls those parsers.                   *)
(*                                                                         *)
(* What travels is a sequence of units.  A number of four bytes is NUM     *)
(* units, the low one first; the other sizes are constants of their own.   *)
(***************************************************************************)
EXTENDS Integers, Sequences

CONSTANTS
  BASE,   \* a unit is a number below BASE
  WORD,   \* units of a Uint64
  HASH    \* units of a Byte32

NUM == 2

ASSUME UnitAssumption == BASE \in Nat /\ BASE > 1
ASSUME SizeAssumption == WORD \in Nat \ {0} /\ HASH \in Nat \ {0}

Unit == 0 .. BASE - 1

\* mol_num_t: arithmetic wraps, and its largest value means an unchecked size.
MOD == BASE * BASE
Num == 0 .. MOD - 1
MOL_NUM_MAX == MOD - 1

\* mol_unpack_number: a number lies in memory with its low byte first.
Unpack(units) == units[1] + units[2] * BASE
Pack(n) == <<n % BASE, n \div BASE>>

-----------------------------------------------------------------------------
(* Types.  "size" is that of a struct or of an item of a FixVec.           *)

Fixed(n) == [kind |-> "fixed", size |-> n, fields |-> <<>>]
Struct(n, fields) == [kind |-> "struct", size |-> n, fields |-> fields]
Table(fields) == [kind |-> "table", size |-> 1, fields |-> fields]
FixVec(n, item) == [kind |-> "fixvec", size |-> n, fields |-> <<item>>]
DynVec(item) == [kind |-> "dynvec", size |-> 1, fields |-> <<item>>]
Option(item) == [kind |-> "option", size |-> 1, fields |-> <<item>>]

Uint32 == Fixed(NUM)
Uint64 == Fixed(WORD)
Byte32 == Fixed(HASH)
Byte == [kind |-> "byte", size |-> 1, fields |-> <<>>]
Bytes == [kind |-> "bytes", size |-> 1, fields |-> <<>>]

OUT_POINT == HASH + NUM
CELL_INPUT == WORD + OUT_POINT
CELL_DEP == OUT_POINT + 1

BytesVec == DynVec("Bytes")
Byte32Vec == FixVec(HASH, "Byte32")
Script == Table(<<"Byte32", "byte", "Bytes">>)
ScriptOpt == Option("Script")
OutPoint == Struct(OUT_POINT, <<"Byte32", "Uint32">>)
CellInput == Struct(CELL_INPUT, <<"Uint64", "OutPoint">>)
CellInputVec == FixVec(CELL_INPUT, "CellInput")
CellOutput == Table(<<"Uint64", "Script", "ScriptOpt">>)
CellOutputVec == DynVec("CellOutput")
CellDep == Struct(CELL_DEP, <<"OutPoint", "byte">>)
CellDepVec == FixVec(CELL_DEP, "CellDep")
RawTransaction ==
  Table(<<"Uint32", "CellDepVec", "Byte32Vec", "CellInputVec", "CellOutputVec",
          "BytesVec">>)
AnnotatedCellInput == Table(<<"CellInput", "RawTransaction">>)
AnnotatedCellInputVec == DynVec("AnnotatedCellInput")
AnnotatedRawTransaction ==
  Table(<<"Uint32", "CellDepVec", "Byte32Vec", "AnnotatedCellInputVec",
          "CellOutputVec", "BytesVec">>)
Bip32 == FixVec(NUM, "Uint32")
AnnotatedTransaction ==
  Table(<<"Bip32", "Bip32", "Uint32", "AnnotatedRawTransaction", "BytesVec">>)

TransactionTypes ==
  [Uint32 |-> Uint32, Uint64 |-> Uint64, Byte32 |-> Byte32, byte |-> Byte,
   Bytes |-> Bytes, BytesVec |-> BytesVec, Byte32Vec |-> Byte32Vec,
   Script |-> Script, ScriptOpt |-> ScriptOpt, OutPoint |-> OutPoint,
   CellInput |-> CellInput, CellInputVec |-> CellInputVec,
   CellOutput |-> CellOutput, CellOutputVec |-> CellOutputVec,
   CellDep |-> CellDep, CellDepVec |-> CellDepVec,
   RawTransaction |-> RawTransaction, AnnotatedCellInput |-> AnnotatedCellInput,
   AnnotatedCellInputVec |-> AnnotatedCellInputVec,
   AnnotatedRawTransaction |-> AnnotatedRawTransaction, Bip32 |-> Bip32,
   AnnotatedTransaction |-> AnnotatedTransaction]

-----------------------------------------------------------------------------
(* Callbacks.  An entry of a table is the name of a callback, or "NULL";    *)
(* "sub" has the tables for the fields or for the item.                    *)

NoCallbacks ==
  [start |-> "NULL", chunk |-> "NULL", end |-> "NULL", offsets |-> "NULL",
   size |-> "NULL", length |-> "NULL", index |-> "NULL", body_chunk |-> "NULL",
   sub |-> <<>>]

\* The callback of a type without parts, called with what was read.
End(c) == [NoCallbacks EXCEPT !.end = c]
Body(start, body) == [NoCallbacks EXCEPT !.start = start, !.body_chunk = body]
SizeOnly(c) == [NoCallbacks EXCEPT !.size = c]
Parts(sub) == [NoCallbacks EXCEPT !.sub = sub]
Hashed(sub) == [NoCallbacks EXCEPT !.chunk = "blake2b_chunk", !.sub = sub]

\* annotatedCellInput_callbacks, with the tables nested in it.
InputCallbacks ==
  [input |-> [Parts(<<"cell_input", "source">>) EXCEPT !.start = "input_start"],
   cell_input |-> Parts(<<"since", "previous_output">>),
   since |-> End("blake2b_chunk"),
   previous_output |-> Parts(<<"NULL", "index">>),
   index |-> End("input_save_index"),
   source |-> [Parts(<<"NULL", "NULL", "NULL", "NULL", "source_outputs", "source_data">>)
                 EXCEPT !.chunk = "context_blake2b_chunk", !.end = "finish_context_txn"],
   source_outputs |-> [Parts(<<"source_output">>) EXCEPT !.index = "input_context_start_idx"],
   source_output |-> Parts(<<"capacity", "source_lock", "type_opt">>),
   source_lock |-> [Parts(<<"lock_code_hash", "hash_type", "source_args">>)
                      EXCEPT !.end = "input_lock_arg_end"],
   source_args |-> Body("script_arg_start_input", "script_arg_chunk"),
   source_data |-> [Parts(<<"source_datum">>) EXCEPT !.index = "input_context_start_idx"],
   source_datum |-> [Body("NULL", "check_cell_data_data_chunk")
                       EXCEPT !.size = "set_cell_data_size", !.end = "finish_input_cell_data"]]

\* AnnotatedRawTransaction_callbacks; the first five tables are nested in both.
OutputCallbacks ==
  [capacity |-> End("cell_capacity"),
   lock_code_hash |-> End("cell_lock_code_hash"),
   hash_type |-> End("cell_script_hash_type"),
   type_opt |-> Parts(<<"type_script">>),
   type_script |-> Parts(<<"type_code_hash", "hash_type", "type_args">>),
   type_code_hash |-> End("cell_type_code_hash"),
   type_args |-> SizeOnly("cell_type_arg_length"),
   raw |-> [Parts(<<"version", "copied", "copied", "inputs", "outputs", "data">>)
              EXCEPT !.offsets = "computeNewOffsetsToHash", !.end = "finalize_raw_transaction"],
   version |-> End("blake2b_chunk"),
   copied |-> Hashed(<<>>),
   inputs |-> [Parts(<<"input">>) EXCEPT !.start = "inputs_start",
                 !.length = "blake2b_input_count", !.end = "finish_inputs"],
   outputs |-> [Hashed(<<"output">>) EXCEPT !.index = "output_start", !.end = "outputs_end"],
   output |-> [Parts(<<"capacity", "lock", "type_opt">>) EXCEPT !.end = "output_end"],
   lock |-> Parts(<<"lock_code_hash", "hash_type", "args">>),
   args |-> Body("NULL", "script_arg_chunk"),
   data |-> [Hashed(<<"datum">>) EXCEPT !.index = "validate_output_data_start"],
   datum |-> [Body("NULL", "check_cell_data_data_chunk")
                EXCEPT !.size = "set_cell_data_size", !.end = "finish_output_cell_data"]]

\* annotatedTransaction_callbacks.
TopCallbacks ==
  [NULL |-> NoCallbacks,
   transaction |-> Parts(<<"signPath", "changePath", "inputCount", "raw", "witnesses">>),
   signPath |-> [Parts(<<"component">>) EXCEPT !.size = "init_bip32", !.end = "set_sign_path"],
   changePath |-> [Parts(<<"component">>) EXCEPT !.size = "init_bip32", !.end = "set_change_path"],
   component |-> End("bip32_component"),
   inputCount |-> End("set_input_count"),
   witnesses |-> [Parts(<<"witness">>) EXCEPT !.index = "begin_witness", !.end = "finalize_witnesses"],
   witness |-> [Body("NULL", "process_witness")
                  EXCEPT !.size = "hash_witness_length", !.end = "process_witness_end"]]

SignCallbacks ==
  [c \in DOMAIN InputCallbacks \cup DOMAIN OutputCallbacks \cup DOMAIN TopCallbacks |->
     IF c \in DOMAIN InputCallbacks THEN InputCallbacks[c]
     ELSE IF c \in DOMAIN OutputCallbacks THEN OutputCallbacks[c]
     ELSE TopCallbacks[c]]

\* The tables that are only used beneath one with a chunk callback, or anywhere.
InnerTables ==
  {"NULL", "source_outputs", "source_output", "source_lock", "source_args",
   "source_data", "source_datum", "capacity", "lock_code_hash", "hash_type",
   "type_opt", "type_script", "type_code_hash", "type_args", "output", "lock",
   "args", "datum"}
==============================================================================

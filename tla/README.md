# A TLA+ model of the Nervos application for Ledger devices

The application (`src/src`, C) runs on a hardware wallet. A host sends APDUs; the
device parses what is to be signed, shows it on a small screen, and signs when the
user accepts. What must be right: the screens say what the signature is about, the
signature is over what was parsed, nothing is released without an answer to a
prompt, and neither the order of APDUs nor their cuts nor the settings menu can
change that. The code keeps this for every instruction that has a handler, and not for
the numbers between the last handler and a bound that is too high (see Findings).

## The system and its parts

| Part | State | Operations | What makes it correct |
| --- | --- | --- | --- |
| Transaction handler (`apdu_sign.c`) | `apdu_sign_state_t`: sums, tag, flags, table of outputs, current cell | parser callbacks per input, output and data item; `finalize_raw_transaction`; `sign_complete` | the prompt names every payment, its amount and the fee; DAO inputs of one kind and DAO outputs the user's own; unusual cells only when allowed; internal assertions hold |
| Witness hashing (`apdu_sign.c`) | `hash_state`, `witness_stack`, multisig counters | `begin_witness` ... `finalize_witnesses` | the hashed message does not depend on the chunks or on the lock that was sent |
| Session (`apdu.c`, `main.c`, `boot.c`) | the union `global.apdu.u`, the reply owed, the callbacks in `global.ui` | `main_loop`, one handler per instruction, exceptions, IO reset, exit | one reply per APDU; a handler never acts on another's leftovers |
| Prompts, menu, settings (`ui.c`, `ui_common.c`, `globals.c`) | screen, callbacks, `N_data` in flash | Accept, Reject, menu, `switch_*` | an answer concerns the prompt on the screen; settings survive restarts |
| Keys (`keys.c`, `apdu_pubkey.c`, `apdu_account.c`) | path, public key | prompt and provide a public key | the key released is the one prompted |
| Messages (`apdu_sign.c`) | `apdu_sign_message_state_t`, `..._hash_state_t` | packets, display, signature | the text shown is the start of what is signed; hashes only when allowed |
| Molecule parsers (`molecule_reader_streaming.h`, `blockchain.h`, `annotated.h`) | a stack of parser states | resumable parsing | same callbacks for every chunking; they return |
| Raw transaction hash (`apdu_sign.c`) | `hash_state`, `G.u.inp.input_state`, `input_count` | `computeNewOffsetsToHash`, `blake2b_chunk`, `finish_context_txn`, `finalize_raw_transaction` | the hash is that of the transaction without annotations, and binds what was shown |
| Text and signatures (`to_string.c`, `segwit_addr.c`, `keys.c`) | `active_value`, the APDU buffer | amounts, addresses, paths, messages, `sign` | what is displayed denotes the value; a signature has a fixed form |
| SDK (external) | | `io_exchange`, key derivation, ECDSA, blake2b | |

The session calls the handlers; a handler runs to its end, or raises
`ASYNC_EXCEPTION` after it put up a prompt, whose callbacks run inside the next
`io_exchange` and send the reply. The parser calls the callbacks of the transaction
handler as bytes come in. Nothing runs in parallel, but the user's steps come between
two APDUs, where the parser is in the middle of a transaction.

The hard behaviours: chunk boundaries anywhere; half-updated state after a
`REJECT` in a callback that the parser does not notice; settings that change between
two APDUs; a union whose members are not cleared when the instruction changes; APDUs
in any order; USB reset under a prompt; exceptions inside a callback of a prompt;
callbacks that stay registered after their prompt.
`PROJECT.json` lists them as hazards, each at its line and with the properties
that are about it.

## Modules

- `TxSign`: one transaction, from the state that `clear_data` leaves to the
  screens. An action is the group of callbacks that run on one stretch of input;
  `pc` is the place of the parser. The variables have the names of the C fields;
  `input_count.fst` of `maybe_transaction.v` is `input_index`, `input_amount` is
  `input_fst` and `input_snd`. Histories (`ins`, `outs`, `total_in`, `total_out`,
  `checked`, `allowed`) record what was sent and exist for the properties.
  `TxSignProps` has the properties that need folds (`FoldUp` of `Folding`),
  `MCTxSign` the cells of the runs. The theorems are in `TxSignProof`,
  `TxSignPromptProof` and `TxSignSourceProof`, each of which builds on
  the one before.
- `Witness`: the witnesses of one transaction, after its hash is there. What is
  hashed is a sequence of tokens (lengths, headers, bytes), so that "the same hash"
  is "the same message". `WitnessProps` says what the message should be,
  `MCWitness` has the witnesses of the runs, `WitnessProof` the theorems.
- `Molecule`: the streaming parser under a transaction that comes in chunks of any
  length. The nested parsers are a stack of frames, an action is one step of the one
  at the top, and `Cut`, or a body that is not all there, ends the chunk. Types and
  tables of callbacks are data, in `MolFormat`: there is one set of actions for each
  *kind* of type, where the generated code repeats the same lines for each type.
  `RawHash` has what the callbacks do to the two hashes and which other callbacks
  were called (`heard`). `MoleculeProps` defines the encoding of a transaction,
  the callbacks a parser of the whole would call, and the encoding that should be
  hashed; `MCMolecule` has the transactions of the run, `MoleculeProof` the theorems.
  `TxSign` takes up where this ends: it assumes the callbacks in the order that is shown here.
- `Encodings`: what the callbacks of screens write into `active_value`, and what
  `sign` writes over the APDU, each an action on a buffer that still holds the last
  text. Loops over digits, bytes and components are folds, a 30 bit word of the bech32
  checksum is the set of its bits that are one, and every size is a constant.
  `EncodingsProps` reads the texts back by definitions of its own, `MCEncodings` has the
  values of the run, `EncodingsProof` the theorems.
- `Session`: the application between host and user. `owner` says which member
  of the union was written last; reading another member gives `Junk`, or any value of
  a field that decides something. The verdicts of the parser (`rv`) and of its
  callbacks (`bad`) are inputs: `TxSign` says which are possible, the session takes
  any. `registered` is the prompt whose callbacks `global.ui` holds; they outlive it.
  `HandlerStep` is an APDU whose instruction has a handler or is refused, `StrayStep` one
  whose instruction lies behind the table of handlers and within the bound of `main_loop`
  (`sizeof(global.handlers)` bytes): 10 and 11 call the two callbacks (`StrayOk`,
  `StrayReject`), the rest whatever words follow them in `globals_t` (`StrayElse`).
  `dispatched`, `replies` and `given` observe the last APDU for the properties.
  `MCSession`, `SessionProof`.
- `Folding`, `FoldingProof`: a fold whose step is a function, and what it computes.
- `Approval`: the abstract promise, two variables: `asked`, what the user is
  asked, and `given`, what the last request released; a third, `stray`, marks the
  requests no handler is registered for, which are excepted: they may release
  anything, though none answers, replaces or forges a prompt. `Session` implements it
  with `asked <- prompt`, `stray <- dispatched = "stray"`.

Definitions marked "Mutant" are variants of the definition that follows them, used to
see that a property notices the slip they contain; no action uses them.

### Correspondence and abstractions

- Bytes of lock arguments are *units*: `HASH` units stand for the 20 bytes of a
  hash, `ARG` for the 28 of `lock_arg_t`. Comparing past the hash reads the next field
  of the state, as in the code (`LockArgCmp`).
- Capacities are numbers modulo `MOD` (2^64).
- `1<<index` in `int` gives the bit, the sign-extended bit, or, past `INT_WIDTH`,
  an arbitrary choice of the results a build can produce.
- Code hashes are compared only with three constants; a cell says which it has.
- `REJECT` sets `unsafe` and returns: what comes before it in the callback has
  happened, what comes after it has not.
- Outside `src/`, and as the application uses them: a pointer has 4 bytes and `globals_t`
  has no padding before `ui`, which decides what an instruction behind the table finds;
  a reply that nothing asked for is either sent or raises an exception (`RepliesAgain`);
  a word that is no code faults, returns, or leaves the APDU without an answer.
- The wallet id is a hash of a public key at a fixed path, given without a prompt by
  design. `PlainAnswer` does not count it as released.
- A rejection by the parser itself ends a transaction in `Session` (`rv`); in
  `TxSign` the behaviour just stops there. Callbacks that test `size < 4` are not
  modelled: the parser passes a length plus 4 and checks the overflow.
- Source transactions of inputs have one data item per output, as consensus
  requires. The device does not compare the number of `outputs_data` items of the
  transaction itself with its outputs, so the model lets them differ and the
  properties about data assume `DataForEachOutput`.
- In `Witness`, contradictory offsets and length errors inside `input_type` or
  `output_type` are left out; a wrong length of `lock`, a witness that ends early and
  bytes after its end are in. A byte read behind a chunk is any unit.
- `multisig_threshold` is written and never read, and is left out.
- `perform_signature` restores the two constant components of a path; the three
  it stores are all the others a path of at most five can have. That a path outside
  44'/309' is not derived is the operating system's doing (`GoodPaths`).
- The SDK delivers no APDU while one is unanswered (`Receives`, external).
- In `Molecule` what travels are *units*: a number of four bytes is two units below
  `BASE`, hashes and capacities are `HASH` and `WORD` units, and `44 * input_count + 4`
  is `CELL_INPUT * input_count + NUM`. Numbers wrap at `MOD` as `mol_num_t` does. A
  hash state is the sequence of units it was fed, a digest any function of it.
- `entry` and `mark` of a frame, `heard`, and `wire` beyond `limit` exist for the
  properties. `field_idx` counts the items of vectors and the units of a body where
  the code counts in `state_num`, and the offsets of a table are counted by `nums`.
- The parser that is interrupted and all those around it call their chunk callbacks;
  in the tables of `apdu_sign.c` at most one of them has one (`InnerAssumption`). That
  of a parser that rejects is left out: the exception clears everything.
- `G.u.temp_key` and `G.u.inp.input_state` are the same memory, so `bip32_component`
  leaves something in `context` that `input_start` must clear.
- Whether the callbacks of `TxSign` reject a transaction is a property of what is sent
  (`Rejected`); `finalize_raw_transaction` then returns before it finishes the hash.
- In `Encodings` a character is its code. Numbers have `MAX_INT_DIGITS` digits, and the
  sizes keep the order of those in the code: 64 bytes in hex and the longest address
  just fit, an amount, the separator and the longest address together do not. What is
  written past `active_value` is not modelled.
- Of a message whose first packet ends within a character, only the case is modelled in
  which the size does not wrap (`ValuesAssumption`); see the observations. What the text of
  a message shows is said of UTF-8 only (`IsUtf8`, with a character that may be cut at the
  end): the code goes by the first byte of a character and never looks at the others.
- `convert_bits` keeps 32 bits of its window; only the bits still to be written and those of
  the new byte are read again, fewer than 16, and 16 are modelled.

## Runs

Passing runs:

| Run | What it shows | Bounds |
| --- | --- | --- |
| `transfer_prompt` | prompt, fee and assertions for transfers, the multi-input prompt | 3 inputs of 4 owners (runs, gaps and repeats), 3 outputs with a table of 2, amounts modulo 8 so that sums wrap |
| `dao_prompt` | deposit, prepare, withdraw: amounts, kinds of cells, and whose address is shown | 2 inputs of 2 owners, 3 outputs with an `int` of 2 bits, so that the shift overflows |
| `contract_data` | the gate on unusual cells; lock arguments of 0 to more than `ARG` units, all chunkings | 1 input, 2 outputs, 1 change of the setting at any moment |
| `session` | replies, prompts, union, refinement of `Approval`, with instructions behind the table of handlers among the steps; prompts are answered | 2 paths of which one is not derivable, 2 kinds of magic packets, `PACKET_MAX` 2 |
| `witness_message` | the message under every chunking | 17 first witnesses, up to 2 more, keys of 1 unit |
| `molecule_stream` | callbacks and hashes for every chunking; the parser returns | 5 transactions with up to 2 inputs, outputs, dependencies and witnesses, among them one whose count is wrong, one with a path too long and one that is rejected; one transaction with a changed unit at some 15 places; chunks of 1, 7 and 250 units in any sequence |
| `encodings` | text and signatures | 2 screens or signatures in a row; 17 amounts, 4 locks on 2 networks, 9 paths, 18 packets, 5 x 5 halves of signatures |

The bounds are enough for the properties to fail when the code is changed: each has
a mutant. Capacities, units and packet counters are scaled down but keep their order
(hash < argument < twice the hash; table < outputs sent; counter limit reachable).
Deadlock is checked in all runs: a transaction ends in `Done`, and `Encodings` may be
started again. Chunks of one unit cut everywhere, those of 7 end within numbers, bodies
and between fields at changing places, and one of 250 holds a whole transaction; the
checks of `MoleculeProps` compare with definitions on the whole value, so a cut that
mattered would show. The damaged transmissions are there for `CountIsOfInputs`,
`HashBindsCells` and `ParserReturns`, which are about whatever a host may send.

### Findings

Runs that end in a violation compare the code with a comment, an assertion or a document:
`session_instruction`, `deposit_payment`, `lock_period`, `dao_mix`,
`witness_signatures`. `PROJECT.json` quotes the sentences under "findings".

`session_instruction`: `app_main` passes the bytes of the table, `sizeof(global.handlers)`,
where `main_loop` compares with the number of entries (`apdu.c:133`). `INS_MAX`
bounds the entries when they are registered (`types.h:195-202`), nothing bounds the lookup
alike. With pointers of 4 bytes, 10 to 39 are not refused. The trace is a prompt, its
rejection, and an instruction that finds a callback of it: the callback replies, then
`main_loop` does. Comparing with `NUM_ELEMENTS(global.handlers)`, as `app_main` does where it
fills the table, would make `UnknownInstructionRefused` hold and the exceptions below
unnecessary.

The passing properties state what holds instead:

- `OwedIffPrompt`: a prompt on the screen always belongs to an APDU that nothing was
  replied to. That there is no second reply, and no reply owed without a prompt, is
  said of APDUs whose instruction has a handler or is refused.
- `HashSignedOnlyWhenAllowed` and `ApprovalSpec` except what an instruction behind the
  table releases: after an IO reset the callback and the union are still there, whatever
  the settings say by then. What is left of the promise is that such an APDU comes only
  while no prompt is up, and leaves none.
- `DaoPromptIsAboutTheCells`: the DAO inputs of a prompt are all deposited or all
  prepared. Of the outputs it says only that the first DAO output of a prepare, or one before
  it, has data that is not zero. `dao_cell_owner` is overwritten by every DAO cell
  (`apdu_sign.c:455`, `:554`). Outputs are all the change address's, so with a DAO output the
  owner shown is that address, but a withdrawal of cells of several owners shows the
  last owner only, and the property says no more than that.
- `MultisigMessage` assumes that no chunk begins within the signatures.

Some smaller observations have no run. Only a plain transfer has the Contract screen, and
only while the setting is on when the transaction completes (`apdu_sign.c:144`), while the
repository's README (line 655) has the user verify contract data there. A message may
be prompted without the setup packet that `globals.h:130` speaks of (`P1_NEXT` first); the path is then empty, and
deriving it is left to the operating system. A first witness whose lock has the wrong
length is not always replaced by the empty one (`apdu_sign.c:933`): the parser goes on
with the next chunk. A chunk that ends right after the length of a multisig lock has a
stale byte tested as the reserved field, and the transaction may be refused. An empty
vector of inputs does not call `length`, so a transaction without inputs would be hashed
without their count; no such transaction is valid on the chain. The offsets of items of a
DynVec are skipped and the sizes of the items not compared with them (`blockchain.h:631`);
since all of it is hashed, `HashBindsCells` holds nevertheless. The screen of one output
among several has the amount in front of the address; an amount of 20 digits and a point
(the comment at `apdu_sign.c:115` says at most 20 characters) and the address of a multisig
lock with a period have 137 characters, more than the 128 of `active_value`
(`OnlyTimelockedSpills`). `replace_undisplayable` lessens the size by all bytes of a
character also when the packet ends within it: up to three characters before it are then
not shown, and for a message shorter than that the `uint8_t` wraps.

Fairness: in `Session`, weak fairness of `Answer` alone, that is, a user who is asked
presses a button at some time. The code has no timeout, so without it a prompt may stay
for ever. In `Molecule`, weak fairness of `ParseStep`: the parser is a call of a function
and its steps follow each other. The host is under no obligation in either.

## Proofs

All theorems are about the specification of a component, for every value of its constants
that satisfies the assumptions of its module: any cells, any number of them, any chunks, any
widths; `CountCorrect` alone adds a hypothesis of its own. Each follows from an inductive
invariant, one lemma per part and, below it, one step per group of actions. The conjuncts
that are not the property itself are what the code relies on without saying so.

**Folds** (`FoldingProof`). The properties add up capacities, merge payments and put
messages together over sequences. `FoldUp` takes its step as a function, so that a lemma
can quantify over it; its value on the empty sequence, on one element more, and its type
(`FoldUpEmpty`, `FoldUpAppend`, `FoldUpType`) come from the least element of a nonempty
set of numbers, since the induction theorems of the library take an operator.

**Transactions.** `TxSignProof`:

- `TypeCorrect`: `TypeOK` is inductive.
- `AssertionsCorrect`: the inductive part is `FlagsAgree`, that the destination
  flag is set exactly when the table of outputs is in use, and that no sum of
  payments exists without it. `output_end` and `outputs_end` test this and throw.
- `FeeCorrect`: the fee is computed from five accumulators, and cells that were
  rejected are missing from them. The invariant `FeeInv` says that as long as the
  transaction is not unsafe the accumulators and the capacities sent balance modulo
  `MOD` (`Balance`), that the cell at hand carries its capacity (`CapacityKept`) and
  that the fee, once stored, is that difference (`FeeKept`).
- `LockArgCorrect`: `ReceivedSoFar` says that the units received so far are in
  `lock_arg_tmp`, followed by zeroes, unless one chunk was too long.

`GateCorrect`, in the same module, says that with the setting off no nonstandard cell
reaches a prompt. Its `BaseInv` is shared by the modules after it: `TypeOK`, `FlagsAgree`,
the order of the callbacks (`Phase`), that the state of the cell at hand describes that
cell (`CellKept`), and that `dao_bitmask` has a bit for each DAO output as long as
`1<<index` stays within the `int` (`Mask`). `Gate` adds what was checked of which cell; the
data of an output comes after all outputs, and only the mask says which are DAO cells.

`TxSignPromptProof` proves the two that say what the screens are about.

- `DaoCorrect`: `PromptInv` adds to `BaseInv`, `CapacityKept` and `ReceivedSoFar` that DAO
  inputs are of one operation and the tag is theirs (`InDao`), that DAO outputs are
  counted and the user's own (`OutDao`), that a lock argument that fits is received
  (`ArgReceived`) and the owner is that of the last DAO input until a DAO output comes
  (`LastOwner`), how the data of outputs changes the tag
  (`DataTags`), what the sums of payments and change are, before and after `outputs_end`
  swaps them (`Paid`), and what the screens are made from (`Final`).
- `PaymentsCorrect`: `PaymentsInv` adds `Entries`: the table of outputs lists the payments,
  those to the same address one after the other merged, for a table of any size.

Both proofs showed hypotheses that the properties had hidden in the bounds of the runs,
and the properties now say them. There are no more outputs than an `int` has bits and one
data item for each (`OutputsFit`). Payments to one multisig lock have the same period
(`PeriodsAgree`): `output_end` compares only the hash and merges the others into the first.
And since `dao_data_is_nonzero` is not reset between two outputs, a DAO output counts as
prepared when it or any output before it has nonzero data.

`TxSignSourceProof` proves `SourceCorrect`: a multi-input prompt appears only when the inputs
of the key lie together, and says which source they are, of how many, and their amount.
`SourceInv` adds to `PromptInv` that the comparison of lock arguments is about the source
of the cell (`OwnNoticed`), that the amount is that of the inputs found to be the
key's (`FoundKept`), and that the counters are those of the runs of equal sources
(`SourcesKept`). The hypothesis is that the first source is not twenty zeroes, which is
what `last_input_lock_arg` starts with: such a source would not be counted.

**Witnesses.** `WitnessProof`: `SighashCorrect` and `MultisigCorrect` state what is hashed, for
any first witness, any number of others and any chunks; with `TypeCorrect` they come from
one invariant. `Place` relates the state of the parser to the lengths in the header,
`Covered` says for which first witnesses a message is defined, `Counted` that the
callbacks on `lock` know how far they are in the multisig script, `FirstHashed` and
`OthersHashed` what the hash has been fed at each place: a prefix of the message.

**Parser.** `MoleculeProof`, for any types, tables of callbacks and chunks: `TypeCorrect`,
`NumbersCorrect` (the numbers of a header are those sent, wherever chunks end) and
`ChunksCorrect` (a value that is hashed gets each of its units once and in order). Their
invariant `Inv` says that the parsers beneath the top wait for a part (`Beneath`), that
above one with a chunk callback only tables without one are in use (`Nested`), for each parser how
much of its header it has read in its `state_num` (`Shape`), where the header and the field
at hand begin and what the buffer holds (`FrameInv`), and for each with a chunk callback what
it has handed over (`Handed`); while the parser runs there is a parser on the stack (`Alive`).
The assumptions are those of `Molecule`: a vector or option has one item type, and tables
used under a chunk callback have none themselves (`InnerAssumption`); the tables of
`apdu_sign.c` and the types of `blockchain.h` satisfy both, which TLC evaluates in
`molecule_stream`.

`CountCorrect` proves `CountIsOfInputs` (in `Molecule`) for the types and tables of the
application, which is its hypothesis `Application`, and whatever the host sends in whatever
chunks. `blake2b_input_count` believes the number in the annotation, before any
input is seen, and only compares it with the vector's own; that as many sources are hashed
as that depends on where in the nest of parsers each callback is called. Its invariant
`CountInv` says where: each parser on the stack is the part its caller is at, with the
table of that part (`Lineage`), so that `finish_context_txn` is reached only on the way
transaction, raw, inputs, input, source; and at each place on that way how many sources are
hashed (`CountsAt`): none before the inputs, in them as many as the vector has done, and one
more while the input at hand is past its source. After them the number is the one announced
or the transaction will be rejected (`Settled`), and a transaction is valid only then
(`Ended`). An empty vector calls no `length`, so that no source is hashed whatever was
announced, which is the 0 of the property. The lemmas are one per step of the parser, over
three that are common to them: a step at the top (`MoveTally`), the call of a part
(`PushTally`) and a return (`ReturnTally`).

**Session.** `SessionProof`: `TypeCorrect`, and `SessionInv` (a prompt is on the screen only
when a reply is owed, none was sent, and a handler put it up, which also registered its
callbacks; its member of the union is the last one written and holds what is
shown; a hash is in a prompt only under the setting), which gives `OwedCorrect`,
`PromptCorrect`, `HashGateCorrect` and the refinement `ApprovalCorrect`. Instructions behind
the table of handlers are steps of their own (`StraySteps`), for which the invariant is
proved like for the others and which the last two theorems, and the second half of the first,
except. `MessageCorrect` needs in addition that packets are counted (`MessageCounted`) and that
the display comes from the first one (`MessageSoFar`).

**Texts and signatures.** `EncodingsProof`: `TypeCorrect`, `ShownCorrect`, `RenderingCorrect`,
`SpillCorrect` and `SignatureCorrect`, the five properties of the run, for numbers of any
length, any locks, paths, messages and scalars, any width of the screen and any history of
it. `SizesAssumption` says which sizes fit into which, as those of the code do. `Inv` is the
conjunction of the five; what a screen shows depends on the previous one through the
buffer alone, and `Put` followed by its NUL hides that, so each action establishes `Inv` from
`TypeOK`: one lemma per screen (`AmountScreen`, ..., `HashScreen`, `Signed`). Under them are
the lemmas that a text is read back as what was written:

- digits: what is left after k divisions (`Rest`) and the fold that reads decimals meet at
  every digit, with the leading and trailing zeroes removed;
- paths: the reader takes a text component by component, by induction on the path as a fold;
- signatures: of a DER number, the leading zero is the only thing that alignment may drop;
- bits (`ConvertBitsIs`, `BytesRead`): after each byte, the groups so far and the window hold
  the bits of the bytes so far; read in eights, the bits of the groups are the bytes, and
  the padding is zero and shorter than a group;
- the checksum (`StepLinear`, `ChecksumIsOne`): `bech32_polymod_step` is linear over sets of
  bits, so the word over text and checksum is the word over six zeroes and the groups
  that were added, which is one;
- `CharsetIs`: no two groups have the same character.

**Only model-checked:** liveness, for which the prover has no rules (fairness and `ENABLED`):
that prompts are answered and that the parser returns. The properties of
`MoleculeProps`, `CallbacksAsSent`, `HashIsOfRawTransaction` and `HashBindsCells`: they
compare with an encoding that recurs over the types, which is an induction over data.

## Not modelled, and the plan

1. More of `Molecule`: that an `end` callback follows its `start`, and where a parser ends,
   given the size in its header. Neither needs the encoding, but `Inv` says nothing yet of
   `field_idx` against the offsets.
2. `TxSign` and `Witness` under `Session` in one module. The three meet at narrow places,
   the verdict of a chunk and the prompt, which `Session` takes as inputs, so that each of
   its behaviours covers every verdict the others may give; a joint state space would be
   their product.

Left out for good: the SDK, the decoders in `segwit_addr.c` that nothing calls, molecule
types that no transaction uses, glyphs and icons, the build, the fuzzing harness and the
tests.

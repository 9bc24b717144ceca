------------------------------ MODULE Session -------------------------------
(***************************************************************************)
(* The life of the application between the host and the user: main_loop    *)
(* and its handlers, the union global.apdu.u they share, the prompt, the   *)
(* settings, an IO reset and the exit of the application.                  *)
(*                                                                         *)
(* A handler runs to its end without interruption, so an APDU is one       *)
(* action.  What the user does runs inside io_exchange, between two APDUs  *)
(* or, when the last one raised ASYNC_EXCEPTION, while its reply is owed.  *)
(***************************************************************************)
EXTENDS Integers, Sequences

\* Definitions marked "Mutant" are variants of the one that follows them with a
\* slip of the kind the properties are meant to notice; no action uses them.

CONSTANTS
  Paths,       \* BIP32 paths that read_bip32_path accepts
  GoodPaths,   \* paths from which the operating system derives a key
  NoPath,      \* the empty path of zeroed memory
  Junk,        \* a value read from another member of the union
  Txs,         \* transactions, by what their prompt shows and their hash
  Magic,       \* packets that begin with "Nervos Message:"
  OtherPackets,\* other packets
  Hashes,      \* message hashes
  PACKET_MAX   \* 0xFF in the code: the last value of packet_index

Packets == Magic \cup OtherPackets

ASSUME SessionAssumption ==
  /\ GoodPaths \subseteq Paths /\ NoPath \notin Paths /\ Junk \notin Paths
  /\ NoPath # Junk
  /\ Magic \cap OtherPackets = {} /\ Junk \notin Packets
  /\ PACKET_MAX \in Nat /\ PACKET_MAX > 1

VARIABLES
  app,      \* "running" or "exited"
  owed,     \* an APDU was received and not answered yet
  screen,   \* "menu", "settings" or "prompt"
  prompt,   \* what the prompt is about: its kind, the key and the data
  owner,    \* the member of global.apdu.u that was written last, or "zero"
  key,      \* the path that member holds
  tx,       \* the member sign: parser and verdict
  msg,      \* the member sign_msg
  data,     \* the member sign_msg_hash: hash_to_sign
  settings, \* N_data
  status,   \* the last status word sent
  registered\* global.ui's callbacks: the kind of the prompt that set them

\* What the properties observe.
VARIABLES
  given,      \* what the last APDU released under a key
  dispatched, \* what served the last APDU: "handler", "stray" or "none" yet
  replies     \* the replies sent to it

vars == <<app, owed, screen, prompt, owner, key, tx, msg, data, settings,
          status, registered, given, dispatched, replies>>
mem == <<owner, key, tx, msg, data>>

NoPrompt == [kind |-> "none", key |-> NoPath, data |-> Junk]
ZeroTx == [stage |-> "start", hard_reject |-> FALSE, unsafe |-> FALSE,
           is_valid |-> FALSE, content |-> Junk]
ZeroMsg == [packet_index |-> 0, display |-> Junk, hashed |-> <<>>]
FirstSettings == [network |-> "mainnet", sign_hash |-> FALSE, contract |-> FALSE]

\* main and app_main on a device that never ran the application.
Init ==
  /\ app = "running" /\ owed = FALSE /\ screen = "menu" /\ prompt = NoPrompt
  /\ owner = "zero" /\ key = NoPath /\ tx = ZeroTx /\ msg = ZeroMsg
  /\ data = Junk /\ settings = FirstSettings
  /\ status = "none" /\ registered = "none" /\ given = NoPrompt
  /\ dispatched = "none" /\ replies = 0

\* Writing one member: what the others meant is gone.
Write(member, p, t, m, d) ==
  owner' = member /\ key' = p /\ tx' = t /\ msg' = m /\ data' = d

\* Mutant: the path survives.
ZeroButKey == Write("zero", key, ZeroTx, ZeroMsg, Junk)

\* A memset of the union: clear_apdu_globals and the clear functions.
Zero == Write("zero", NoPath, ZeroTx, ZeroMsg, Junk)

\* The transport of the SDK hands over an APDU only when none is unanswered.
Receives == app = "running" /\ ~owed

Reply(sw) == /\ status' = sw /\ owed' = FALSE /\ replies' = 1
             /\ given' = NoPrompt
             /\ UNCHANGED <<app, screen, prompt, registered>>

\* CATCH_OTHER of main_loop: clear_apdu_globals and the exception's status word.
Fail == Zero /\ Reply("exception")

\* ui_prompt registers the callbacks of the prompt, whose flow replaces what was
\* on the screen; ASYNC_EXCEPTION leaves the reply to them.
Ask(k, p, d) ==
  /\ screen' = "prompt" /\ prompt' = [kind |-> k, key |-> p, data |-> d]
  /\ owed' = TRUE /\ status' = "none" /\ given' = NoPrompt
  /\ registered' = k /\ replies' = 0 /\ UNCHANGED app

\* Reading a member of the union: its value, zero after a memset, or, when
\* another member was written since, what that one's bytes happen to mean.
Read(member, value, zero, junk) ==
  IF owner = member THEN {value} ELSE IF owner = "zero" THEN zero ELSE junk

\* The path that a member holds when nothing but its key is known.
KeyOf(member) ==
  IF owner = member THEN key ELSE IF owner = "zero" THEN NoPath ELSE Junk

-----------------------------------------------------------------------------
(* APDUs *)

\* main_loop's own checks, and handle_apdu_error: instruction 8, which app_main
\* leaves to it, and those from sizeof(global.handlers) on.
RefuseApdu == Receives /\ Fail /\ settings' = settings

\* handle_apdu_version, handle_apdu_git and handle_apdu_get_wallet_id.  The wallet
\* id is derived from a public key of a fixed path and given without a prompt, by
\* design: it is not counted among the things released.
PlainAnswer == Receives /\ Reply("ok") /\ UNCHANGED <<mem, settings>>

\* The key of the path is derived into the member pubkey and offered to the user;
\* the derivation throws unless the operating system grants the path.
OfferKey(p, accepted) ==
  IF accepted /\ p \in GoodPaths
  THEN Write("pubkey", p, ZeroTx, ZeroMsg, Junk) /\ Ask("pubkey", p, Junk)
  ELSE Fail

\* handle_apdu_get_public_key, plain and extended: P1 must be 0, and
\* read_bip32_path throws for data that is not a path (NoPath here).
GetPublicKey(p, p1ok) ==
  Receives /\ OfferKey(p, p1ok /\ p \in Paths) /\ settings' = settings

\* handle_apdu_account_import makes the path from the account number it checks.
AccountImport(p, valid) ==
  Receives /\ OfferKey(p, valid) /\ settings' = settings

\* A transaction and its path are fixed by the bytes from the first one on; in
\* zeroed memory the parser is at its start as well.
FreshTx == {[ZeroTx EXCEPT !.content = t] : t \in Txs}
JunkTx == [stage : {"start", "middle", "complete"}, hard_reject : BOOLEAN,
           unsafe : BOOLEAN, is_valid : BOOLEAN, content : {Junk}]
ReadTx == Read("sign", tx, FreshTx, JunkTx)
TxPaths == IF owner = "zero" THEN GoodPaths ELSE {KeyOf("sign")}

KeepTx(g, p) == Write("sign", p, g, ZeroMsg, Junk)

\* Mutant: the state is cleared before the user has answered.
CompleteAndClear(g, p) == IF g.unsafe THEN Fail ELSE Zero /\ Ask("sign", p, g.content)

\* sign_complete prompts, unless an unsafe transaction has lost its tag.
Complete(g, p) ==
  IF g.unsafe THEN Fail ELSE KeepTx(g, p) /\ Ask("sign", p, g.content)

\* handle_apdu on a chunk for P1_FIRST or P1_NEXT: g is what the state held
\* before.  The verdicts rv of the parser and bad of its callbacks depend on
\* the bytes; a parser that is through ignores further bytes.
ParseChunk(g, p, last, secure_only, rv, bad) ==
  LET done == IF g.stage = "complete" THEN "COMPLETE" ELSE rv
      hard == g.hard_reject \/ bad = "hard"
      unsafe == g.unsafe \/ bad = "unsafe"
  IN IF g.hard_reject THEN Fail
     ELSE IF last
     THEN IF done # "COMPLETE" \/ hard \/ (unsafe /\ secure_only) THEN Fail
          ELSE Complete([g EXCEPT !.stage = "complete", !.unsafe = unsafe,
                                  !.is_valid = TRUE], p)
     ELSE IF done # "INCOMPLETE" THEN Fail
          ELSE /\ KeepTx([g EXCEPT !.stage = "middle", !.unsafe = unsafe,
                                   !.hard_reject = hard], p)
               /\ Reply("ok")

\* handle_apdu_sign with P1_FIRST, which clears the state and starts the parser.
SignFirst(last, secure_only, rv, bad) ==
  /\ Receives
  /\ \E g \in FreshTx, p \in GoodPaths :
       ParseChunk(g, p, last, secure_only, rv, bad)
  /\ settings' = settings

SignNext(last, secure_only, rv, bad) ==
  /\ Receives
  /\ \E g \in ReadTx, p \in TxPaths :
       ParseChunk(g, p, last, secure_only, rv, bad)
  /\ settings' = settings

\* Any other P1: nothing is parsed; sign_complete runs again for a transaction
\* that is valid and still in memory.
SignOther(last) ==
  /\ Receives
  /\ \E g \in ReadTx :
       IF last /\ g.is_valid THEN Complete(g, KeyOf("sign"))
       ELSE Reply("ok") /\ UNCHANGED mem
  /\ settings' = settings

\* handle_apdu_sign_message_impl, P1_FIRST: the display flag and the path.
SignMessageFirst(p) ==
  /\ Receives
  /\ IF p \in Paths
     THEN /\ Write("sign_msg", p, ZeroTx, ZeroMsg, Junk)
          /\ Reply("ok")
     ELSE Fail
  /\ settings' = settings

JunkMsg == [packet_index : 0 .. PACKET_MAX, display : {Junk}, hashed : {<<Junk>>}]

\* Mutant: packets are not counted.
NoPacketRefused(m) == FALSE

\* packet_index is a uint8_t that the guard keeps from wrapping.
PacketRefused(m) == m.packet_index >= PACKET_MAX
NextIndex(m) == (m.packet_index + 1) % (PACKET_MAX + 1)

\* P1_NEXT: the first packet must carry the magic and is the one displayed; all
\* are hashed.
SignMessageNext(pkt, last) ==
  /\ Receives
  /\ \E m \in Read("sign_msg", msg, {ZeroMsg}, JunkMsg) :
       LET first == NextIndex(m) = 1
           new == [packet_index |-> NextIndex(m),
                   display |-> IF first THEN pkt ELSE m.display,
                   hashed |-> Append(m.hashed, pkt)]
           p == KeyOf("sign_msg")
       IN IF PacketRefused(m) \/ (first /\ pkt \notin Magic) THEN Fail
          ELSE /\ Write("sign_msg", p, ZeroTx, new, Junk)
               /\ IF last THEN Ask("sign_msg", p, [shown |-> new.display,
                                                  signed |-> new.hashed])
                          ELSE Reply("ok")
  /\ settings' = settings

\* handle_apdu_sign_message_hash is refused unless the setting is on.
SignMessageHashFirst(p) ==
  /\ Receives
  /\ IF settings.sign_hash /\ p \in Paths
     THEN /\ Write("sign_msg_hash", p, ZeroTx, ZeroMsg, Junk)
          /\ Reply("ok")
     ELSE Fail
  /\ settings' = settings

\* Mutant: the setting is tested on the first APDU only.
SignMessageHashLastUngated(h) ==
  /\ Receives
  /\ IF h \in Hashes
     THEN /\ Write("sign_msg_hash", KeyOf("sign_msg_hash"), ZeroTx, ZeroMsg, h)
          /\ Ask("sign_msg_hash", KeyOf("sign_msg_hash"), [shown |-> h, signed |-> h])
     ELSE Fail
  /\ settings' = settings

\* P1_LAST_MARKER: a hash of at most 32 bytes, shown and signed as it is.
SignMessageHashLast(h) ==
  /\ Receives
  /\ IF settings.sign_hash /\ h \in Hashes
     THEN /\ Write("sign_msg_hash", KeyOf("sign_msg_hash"), ZeroTx, ZeroMsg, h)
          /\ Ask("sign_msg_hash", KeyOf("sign_msg_hash"), [shown |-> h, signed |-> h])
     ELSE Fail
  /\ settings' = settings

-----------------------------------------------------------------------------
(* The callbacks *)

\* What the registered ok callback finds in the member of the union it reads.
Released ==
  [kind |-> registered, key |-> KeyOf(registered),
   data |-> CASE registered = "sign" -> tx.content
              [] registered = "sign_msg" -> [shown |-> msg.display,
                                             signed |-> msg.hashed]
              [] registered = "sign_msg_hash" -> [shown |-> data, signed |-> data]
              [] OTHER -> Junk]

\* What that callback leaves: a public key stays, perform_signature clears the
\* union, and the two for messages only their own member of it.
Spent ==
  CASE registered = "sign" -> Zero
    [] registered \in {"sign_msg", "sign_msg_hash"} ->
         Zero \/ Write(registered, NoPath, ZeroTx, ZeroMsg, Junk)
    [] OTHER -> UNCHANGED mem

\* The registered cancel callback: sign_reject clears the union, delay_reject
\* does not.
Cancelled == IF registered \in {"pubkey", "none"} THEN UNCHANGED mem ELSE Zero

-----------------------------------------------------------------------------
(* Instructions behind the table of handlers *)

\* main_loop bounds the instruction by the bytes of the table and not by its
\* entries: from 10 up to that bound it calls what lies behind the table, which
\* is global.ui.  A callback found there replies and returns to main_loop, which
\* replies once more; a second reply that the transport does not take raises an
\* exception whose own reply is no better, and main exits.
RepliesAgain(left) ==
  \/ replies' = 2 /\ app' = app /\ left
  \/ replies' = 1 /\ app' = "exited" /\ Zero

\* Instruction 10 calls ok_callback.  The callback of an earlier prompt reads its
\* member as it is now; a hash in it that is not complete counts as Junk.
StrayOk ==
  /\ Receives /\ registered # "none"
  /\ \/ registered # "pubkey" /\ KeyOf(registered) \notin GoodPaths /\ Fail
     \/ /\ registered = "pubkey" \/ KeyOf(registered) \in GoodPaths \cup {Junk}
        /\ given' \in {Released, [Released EXCEPT !.data = Junk]}
        /\ status' = "ok" /\ owed' = FALSE
        /\ RepliesAgain(Spent)
        /\ UNCHANGED <<screen, prompt, registered>>

\* Instruction 11 calls cxl_callback.
StrayReject ==
  /\ Receives /\ registered # "none"
  /\ status' = "rejected" /\ owed' = FALSE
  /\ RepliesAgain(Cancelled) /\ given' = NoPrompt
  /\ UNCHANGED <<screen, prompt, registered>>

\* The others call switch_screen, which throws or returns no length to reply with,
\* or what is no code at all; so do 10 and 11 before the first prompt.
StrayElse ==
  /\ Receives
  /\ \/ Fail
     \/ Reply("stray") /\ UNCHANGED mem
     \/ /\ \/ app' = app /\ owed' \in BOOLEAN
           \/ app' = "exited" /\ owed' = TRUE
        /\ status' = "none" /\ replies' = 0 /\ given' = NoPrompt
        /\ UNCHANGED <<screen, prompt, registered, mem>>

-----------------------------------------------------------------------------
(* The user *)

\* ui_initial_screen: the menu takes the place of the prompt.
LeavePrompt == screen' = "menu" /\ prompt' = NoPrompt

\* Mutant: the callback stays registered when the prompt is gone.
AcceptAnywhere ==
  /\ app = "running" /\ registered # "none" /\ key \in GoodPaths \cup {Junk}
  /\ LeavePrompt
  /\ given' = Released /\ status' = "ok" /\ owed' = FALSE
  /\ replies' = replies + 1 /\ Spent
  /\ UNCHANGED <<app, settings, registered, dispatched>>

\* prompt_response(true) and the ok callback: the public key is sent, or the
\* signature is made, the state cleared and the signature sent.
Accept ==
  /\ app = "running" /\ screen = "prompt" /\ key \in GoodPaths \cup {Junk}
  /\ LeavePrompt
  /\ given' = Released /\ status' = "ok" /\ owed' = FALSE
  /\ replies' = replies + 1 /\ Spent
  /\ UNCHANGED <<app, settings, registered, dispatched>>

\* The operating system does not derive a key from the path: the exception is
\* thrown inside a CATCH of main_loop, so it reaches main, which exits.
AcceptThrows ==
  /\ app = "running" /\ screen = "prompt"
  /\ prompt.kind # "pubkey" /\ key \notin GoodPaths
  /\ LeavePrompt
  /\ app' = "exited"
  /\ UNCHANGED <<owed, mem, settings, status, registered, given, dispatched,
                 replies>>

\* Mutant: nothing is sent.
RejectInSilence ==
  /\ app = "running" /\ screen = "prompt"
  /\ LeavePrompt
  /\ Cancelled
  /\ UNCHANGED <<app, owed, settings, status, registered, given, dispatched,
                 replies>>

\* prompt_response(false) and the cancel callback.
Reject ==
  /\ app = "running" /\ screen = "prompt"
  /\ LeavePrompt
  /\ status' = "rejected" /\ owed' = FALSE
  /\ replies' = replies + 1 /\ Cancelled
  /\ UNCHANGED <<app, settings, registered, given, dispatched>>

Configure(from, to) ==
  /\ app = "running" /\ screen = from /\ screen' = to
  /\ UNCHANGED <<app, owed, prompt, mem, settings, status, registered, given,
                 dispatched, replies>>

\* switch_network, switch_sign_hash and switch_contract_data.
Switched(s) ==
  {[s EXCEPT !.network = IF @ = "mainnet" THEN "testnet" ELSE "mainnet"],
   [s EXCEPT !.sign_hash = ~@], [s EXCEPT !.contract = ~@]}
SwitchSetting ==
  /\ app = "running" /\ screen = "settings"
  /\ settings' \in Switched(settings)
  /\ UNCHANGED <<app, owed, screen, prompt, mem, status, registered, given,
                 dispatched, replies>>

\* exit_app from the menu.
Quit ==
  /\ app = "running" /\ screen = "menu" /\ app' = "exited"
  /\ UNCHANGED <<owed, screen, prompt, mem, settings, status, registered, given,
                 dispatched, replies>>

-----------------------------------------------------------------------------
(* Device events *)

\* Mutant: the prompt outlives the APDU it was made for.
IoResetUnderPrompt ==
  /\ app = "running" /\ owed
  /\ owed' = FALSE /\ status' = "none"
  /\ UNCHANGED <<app, screen, prompt, mem, settings, registered, given,
                 dispatched, replies>>

\* io_event throws EXCEPTION_IO_RESET when USB power is lost while an APDU is
\* open; main starts the loop over and keeps the union and the callbacks.
IoReset ==
  /\ app = "running" /\ owed
  /\ LeavePrompt /\ owed' = FALSE /\ status' = "none"
  /\ UNCHANGED <<app, mem, settings, registered, given, dispatched, replies>>

\* main: init_globals clears everything but N_data.
Restart ==
  /\ app = "exited" /\ app' = "running"
  /\ Zero /\ LeavePrompt /\ owed' = FALSE /\ status' = "none"
  /\ registered' = "none" /\ dispatched' = "none" /\ replies' = 0
  /\ given' = NoPrompt /\ settings' = settings

Verdicts == {"INCOMPLETE", "COMPLETE", "REJECT"}
Callbacks == {"fine", "unsafe", "hard"}

HandlerStep ==
  \/ RefuseApdu
  \/ PlainAnswer
  \/ \E p \in Paths \cup {NoPath}, p1ok \in BOOLEAN : GetPublicKey(p, p1ok)
  \/ \E p \in GoodPaths, valid \in BOOLEAN : AccountImport(p, valid)
  \/ \E last, secure_only \in BOOLEAN, rv \in Verdicts, bad \in Callbacks :
       \/ SignFirst(last, secure_only, rv, bad)
       \/ SignNext(last, secure_only, rv, bad)
  \/ \E last \in BOOLEAN : SignOther(last)
  \/ \E p \in Paths \cup {NoPath} : SignMessageFirst(p) \/ SignMessageHashFirst(p)
  \/ \E pkt \in Packets, last \in BOOLEAN : SignMessageNext(pkt, last)
  \/ \E h \in Hashes \cup {Junk} : SignMessageHashLast(h)

\* No switch of a setting is among what lies behind the table.
StrayStep == (StrayOk \/ StrayReject \/ StrayElse) /\ settings' = settings

HostStep == \/ HandlerStep /\ dispatched' = "handler"
            \/ StrayStep /\ dispatched' = "stray"

Answer == Accept \/ AcceptThrows \/ Reject

UserStep ==
  \/ Answer
  \/ Configure("menu", "settings") \/ Configure("settings", "menu")
  \/ SwitchSetting
  \/ Quit

Next == HostStep \/ UserStep \/ IoReset \/ Restart

\* A prompt has no timeout: it is the user who is assumed to answer it.
Spec == Init /\ [][Next]_vars /\ WF_vars(Answer)

-----------------------------------------------------------------------------
(* Properties *)

\* The fields keep their types, and the union holds nothing of a member that
\* was not written last: each clear function and each handler leaves the parts
\* the others would read as zeroes, or as what another member's bytes mean.
TypeOK ==
  /\ app \in {"running", "exited"} /\ owed \in BOOLEAN
  /\ screen \in {"menu", "settings", "prompt"}
  /\ prompt.kind \in {"none", "pubkey", "sign", "sign_msg", "sign_msg_hash"}
  /\ prompt.key \in Paths \cup {NoPath, Junk}
  /\ owner \in {"zero", "pubkey", "sign", "sign_msg", "sign_msg_hash"}
  /\ key \in Paths \cup {NoPath, Junk}
  /\ tx \in [stage : {"start", "middle", "complete"}, hard_reject : BOOLEAN,
             unsafe : BOOLEAN, is_valid : BOOLEAN, content : Txs \cup {Junk}]
  /\ msg.packet_index \in 0 .. PACKET_MAX
  /\ msg.display \in Packets \cup {Junk}
  /\ msg.hashed \in Seq(Packets \cup {Junk})
  /\ data \in Hashes \cup {Junk}
  /\ owner = "zero" => key = NoPath
  /\ owner # "sign" => tx = ZeroTx
  /\ owner # "sign_msg" => msg = ZeroMsg
  /\ owner # "sign_msg_hash" => data = Junk
  /\ settings \in [network : {"mainnet", "testnet"}, sign_hash : BOOLEAN,
                   contract : BOOLEAN]
  /\ status \in {"none", "ok", "exception", "rejected", "stray"}
  /\ registered \in {"none", "pubkey", "sign", "sign_msg", "sign_msg_hash"}
  /\ dispatched \in {"none", "handler", "stray"} /\ replies \in {0, 1, 2}
  /\ given.kind \in {"none", "pubkey", "sign", "sign_msg", "sign_msg_hash"}

\* A prompt on the screen belongs to an APDU that no reply was sent to.  Unless
\* the instruction lay behind the table of handlers, the application owes a reply
\* only while that prompt is up, and never sends two: neither the menu nor an IO
\* reset leaves a prompt whose callback would answer a later APDU.
OwedIffPrompt ==
  /\ screen = "prompt" => owed /\ replies = 0 /\ dispatched = "handler"
  /\ app = "running" /\ dispatched # "stray" =>
       (owed => screen = "prompt") /\ replies \in {0, 1}

\* While a prompt is up, the member of the union its callback will read is the
\* one it was made from and still holds what was shown: neither another
\* instruction, nor a setting, nor a reset comes between prompt and signature.
PromptIsCurrent ==
  screen = "prompt" => /\ owner = prompt.kind
                       /\ Released = prompt

\* A message put to the user after a setup packet is displayed from its first
\* packet, which carries the magic, however many packets follow: packet_index
\* never comes back to 1.
MessageShowsItsFirstPacket ==
  screen = "prompt" /\ prompt.kind = "sign_msg" /\ prompt.key # Junk =>
    /\ prompt.data.shown = Head(prompt.data.signed)
    /\ prompt.data.shown \in Magic

\* A message hash is signed only while the setting "Allow sign hash" is on,
\* although it is tested when the APDU comes and not when the user accepts.  An
\* instruction behind the table of handlers is excepted: it may call the callback
\* of a prompt that an IO reset took away, and no setting is tested there.
HashSignedOnlyWhenAllowed ==
  [][given' # given /\ given'.kind = "sign_msg_hash" =>
       settings.sign_hash \/ dispatched' = "stray"]_vars

\* An APDU whose prompt is about a path the device can derive is eventually
\* answered, or its transport reset: the callbacks reply on either button.
PromptIsAnswered ==
  (owed /\ prompt.key \in GoodPaths) ~> ~owed

\* The session implements Approval: whatever a handler's request releases under a
\* key is what the prompt on the screen was about, released by the approval of that
\* prompt, and an instruction behind the table, which may release anything, leaves
\* no prompt behind and comes while none is up.
A == INSTANCE Approval WITH asked <- prompt, stray <- dispatched = "stray",
                            Nothing <- NoPrompt
ApprovalSpec == A!Spec

\* An instruction that no handler is registered for is refused: "APDU instruction is
\* out of bounds" in types.h is how the table's own entries are checked.  main_loop
\* compares with the bytes of the table, so the property does not hold.
UnknownInstructionRefused ==
  dispatched = "stray" => status \notin {"ok", "rejected"} /\ replies <= 1
=============================================================================

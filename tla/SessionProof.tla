---------------------------- MODULE SessionProof ----------------------------
(***************************************************************************)
(* What the session proves about prompts, for any paths, transactions,     *)
(* packets and hashes: the reply that is owed, what a callback finds in    *)
(* the union, the gate of the message hash and the refinement of Approval. *)
(***************************************************************************)
EXTENDS Session, TLAPS

Kinds == {"pubkey", "sign", "sign_msg", "sign_msg_hash"}

\* The flow of the prompt is on the screen exactly while a prompt is known, only
\* in a running application, and with its own callbacks registered.
PromptOnScreen ==
  /\ app \in {"running", "exited"} /\ owed \in BOOLEAN
  /\ screen \in {"menu", "settings", "prompt"} /\ registered \in Kinds \cup {"none"}
  /\ screen = "prompt" => /\ app = "running" /\ prompt.kind \in Kinds
                          /\ registered = prompt.kind
  /\ screen # "prompt" => prompt = NoPrompt

\* The prompt of a message hash is up only while the setting allows it.
HashAllowed ==
  screen = "prompt" /\ prompt.kind = "sign_msg_hash" => settings.sign_hash

\* The inductive invariant of the session.
SessionInv == PromptOnScreen /\ OwedIffPrompt /\ PromptIsCurrent /\ HashAllowed

-----------------------------------------------------------------------------
(* What a host step may do *)

\* An APDU is answered at once, and what is on the screen stays.
Answered ==
  /\ owed' = FALSE /\ replies' = 1 /\ given' = NoPrompt
  /\ UNCHANGED <<app, screen, prompt, registered, settings>>

\* An APDU is put to the user from the member of the union just written.
Prompts ==
  /\ screen' = "prompt" /\ prompt'.kind \in Kinds /\ owner' = prompt'.kind
  /\ Released' = prompt' /\ prompt' # NoPrompt /\ registered' = prompt'.kind
  /\ prompt'.kind = "sign_msg_hash" => settings.sign_hash
  /\ owed' = TRUE /\ replies' = 0 /\ given' = NoPrompt /\ UNCHANGED <<app, settings>>

\* An instruction behind the table touches neither screen nor settings, but it may
\* end the application and release what is left in the union.
Strays ==
  /\ app' \in {app, "exited"} /\ owed' \in BOOLEAN /\ replies' \in {0, 1, 2}
  /\ given'.kind \in Kinds \cup {"none"}
  /\ status' \in {"none", "ok", "exception", "rejected", "stray"}
  /\ UNCHANGED <<screen, prompt, registered, settings>>

\* main_loop's error path only answers.
LEMMA FailAnswers == Fail /\ settings' = settings => Answered
BY DEF Fail, Reply, Answered

\* A prompt for a public key is about the path just written.
LEMMA PubkeyPrompts ==
  ASSUME NEW p, Write("pubkey", p, ZeroTx, ZeroMsg, Junk), Ask("pubkey", p, Junk),
         settings' = settings
  PROVE  Prompts
BY DEF Write, Ask, Prompts, Released, KeyOf, Kinds, NoPrompt

\* A prompt for a transaction is about the content and the path kept.
LEMMA CompletePrompts ==
  ASSUME NEW g, NEW p, Complete(g, p), settings' = settings
  PROVE  Answered \/ Prompts
BY FailAnswers DEF Complete, KeepTx, Write, Ask, Prompts, Released, KeyOf, Kinds, NoPrompt

\* A chunk of a transaction is answered or leads to the prompt.
LEMMA ParseChunkSteps ==
  ASSUME NEW g, NEW p, NEW last, NEW secure_only, NEW rv, NEW bad,
         ParseChunk(g, p, last, secure_only, rv, bad), settings' = settings
  PROVE  Answered \/ Prompts
BY FailAnswers, CompletePrompts DEF ParseChunk, Reply, Answered

\* A packet of a message is answered or leads to the prompt.
LEMMA MessageSteps ==
  ASSUME NEW pkt, NEW last, SignMessageNext(pkt, last)
  PROVE  Answered \/ Prompts
<1>1. PICK index, display, hashed :
        \/ Fail
        \/ /\ Write("sign_msg", KeyOf("sign_msg"), ZeroTx,
                    [packet_index |-> index, display |-> display, hashed |-> hashed],
                    Junk)
           /\ \/ Reply("ok")
              \/ Ask("sign_msg", KeyOf("sign_msg"),
                     [shown |-> display, signed |-> hashed])
  BY DEF SignMessageNext
<1>2. settings' = settings
  BY DEF SignMessageNext
<1>3. CASE Fail
  BY <1>2, <1>3, FailAnswers
<1>4. CASE Reply("ok")
  BY <1>2, <1>4 DEF Reply, Answered
<1>5. CASE /\ Write("sign_msg", KeyOf("sign_msg"), ZeroTx,
                    [packet_index |-> index, display |-> display, hashed |-> hashed],
                    Junk)
           /\ Ask("sign_msg", KeyOf("sign_msg"), [shown |-> display, signed |-> hashed])
  BY <1>2, <1>5 DEF Write, Ask, Prompts, Released, KeyOf, Kinds, NoPrompt
<1>. QED
  BY <1>1, <1>3, <1>4, <1>5

\* The hash of a message is refused or put to the user, if the setting is on.
LEMMA MessageHashSteps ==
  ASSUME NEW h, SignMessageHashLast(h)
  PROVE  Answered \/ Prompts
BY FailAnswers
DEF SignMessageHashLast, Write, Ask, Prompts, Released, KeyOf, Kinds, NoPrompt

\* Every APDU that has a handler comes while none is unanswered, and is answered or
\* put to the user.
LEMMA HandlerSteps == HandlerStep => Receives /\ (Answered \/ Prompts)
<1> SUFFICES ASSUME HandlerStep PROVE Receives /\ (Answered \/ Prompts) OBVIOUS
<1>1. CASE RefuseApdu \/ PlainAnswer
  BY <1>1, FailAnswers DEF RefuseApdu, PlainAnswer, Reply, Answered
<1>2. CASE \/ \E p \in Paths \cup {NoPath}, p1ok \in BOOLEAN : GetPublicKey(p, p1ok)
           \/ \E p \in GoodPaths, valid \in BOOLEAN : AccountImport(p, valid)
  BY <1>2, FailAnswers, PubkeyPrompts DEF GetPublicKey, AccountImport, OfferKey
<1>3. CASE \E last, secure_only \in BOOLEAN, rv \in Verdicts, bad \in Callbacks :
             \/ SignFirst(last, secure_only, rv, bad)
             \/ SignNext(last, secure_only, rv, bad)
  BY <1>3, ParseChunkSteps DEF SignFirst, SignNext
<1>4. CASE \E last \in BOOLEAN : SignOther(last)
  BY <1>4, CompletePrompts DEF SignOther, Reply, Answered
<1>5. CASE \E p \in Paths \cup {NoPath} : SignMessageFirst(p) \/ SignMessageHashFirst(p)
  BY <1>5, FailAnswers DEF SignMessageFirst, SignMessageHashFirst, Reply, Answered
<1>6. CASE \E pkt \in Packets, last \in BOOLEAN : SignMessageNext(pkt, last)
  BY <1>6, MessageSteps DEF SignMessageNext
<1>7. CASE \E h \in Hashes \cup {Junk} : SignMessageHashLast(h)
  BY <1>7, MessageHashSteps DEF SignMessageHashLast
<1>. QED
  BY <1>1, <1>2, <1>3, <1>4, <1>5, <1>6, <1>7 DEF HandlerStep

\* A callback called without its prompt replies again or ends the application.
LEMMA StraySteps == SessionInv /\ StrayStep => Receives /\ Strays
<1> SUFFICES ASSUME SessionInv, StrayStep PROVE Receives /\ Strays OBVIOUS
<1>1. /\ Receives /\ settings' = settings /\ registered \in Kinds \cup {"none"}
      /\ NoPrompt.kind = "none"
  <2>1. StrayOk \/ StrayReject \/ StrayElse => Receives
    BY DEF StrayOk, StrayReject, StrayElse
  <2>. QED
    BY <2>1 DEF StrayStep, SessionInv, PromptOnScreen, NoPrompt
<1>2. Fail => Strays
  BY <1>1 DEF Fail, Reply, Strays
<1>3. CASE StrayOk
  <2>1. CASE /\ given' \in {Released, [Released EXCEPT !.data = Junk]}
             /\ status' = "ok" /\ owed' = FALSE /\ RepliesAgain(Spent)
             /\ UNCHANGED <<screen, prompt, registered>>
    <3>1. given'.kind = registered
      BY <2>1 DEF Released
    <3>2. app' \in {app, "exited"} /\ replies' \in {0, 1, 2}
      BY <2>1 DEF RepliesAgain
    <3>. QED
      BY <1>1, <2>1, <3>1, <3>2 DEF Strays
  <2>. QED
    BY <1>2, <1>3, <2>1 DEF StrayOk
<1>4. CASE StrayReject
  <2>1. app' \in {app, "exited"} /\ replies' \in {0, 1, 2}
    BY <1>4 DEF StrayReject, RepliesAgain
  <2>. QED
    BY <1>1, <1>4, <2>1 DEF StrayReject, Strays
<1>5. CASE StrayElse
  BY <1>1, <1>2, <1>5 DEF StrayElse, Reply, Strays
<1>. QED
  BY <1>1, <1>3, <1>4, <1>5 DEF StrayStep

-----------------------------------------------------------------------------
(* The session *)

\* main leaves the menu on the screen and nothing owed.
LEMMA SessionInit == Init => SessionInv
BY DEF Init, SessionInv, PromptOnScreen, OwedIffPrompt, PromptIsCurrent, HashAllowed,
       Kinds

\* Every step keeps the invariant of the session.
LEMMA SessionStep == SessionInv /\ [Next]_vars => SessionInv'
<1> SUFFICES ASSUME SessionInv, [Next]_vars PROVE SessionInv' OBVIOUS
<1> USE DEF SessionInv, PromptOnScreen, OwedIffPrompt, PromptIsCurrent, HashAllowed
<1>1. CASE UNCHANGED vars
  BY <1>1 DEF vars, Released, KeyOf
<1>2. CASE HandlerStep /\ dispatched' = "handler"
  <2>1. CASE Answered
    BY <1>2, <2>1, HandlerSteps DEF Receives, Answered, Kinds
  <2>2. CASE Prompts
    BY <1>2, <2>2, HandlerSteps DEF Receives, Prompts, Kinds
  <2>. QED
    BY <1>2, <2>1, <2>2, HandlerSteps
<1>6. CASE StrayStep /\ dispatched' = "stray"
  BY <1>6, StraySteps DEF Receives, Strays
<1>3. CASE Answer
  <2>4. ASSUME Accept \/ Reject PROVE replies' = 1
    BY <2>4 DEF Accept, Reject
  <2>1. CASE Accept
    BY <1>3, <2>1, <2>4 DEF Accept, LeavePrompt
  <2>2. CASE AcceptThrows
    BY <1>3, <2>2 DEF AcceptThrows, LeavePrompt
  <2>3. CASE Reject
    BY <1>3, <2>3, <2>4 DEF Reject, LeavePrompt
  <2>. QED
    BY <1>3, <2>1, <2>2, <2>3 DEF Answer
<1>4. CASE \/ Configure("menu", "settings") \/ Configure("settings", "menu")
           \/ SwitchSetting \/ Quit
  BY <1>4 DEF Configure, SwitchSetting, Quit, Released, KeyOf
<1>5. CASE IoReset \/ Restart
  BY <1>5 DEF IoReset, Restart, LeavePrompt, Kinds
<1>. QED
  BY <1>1, <1>2, <1>3, <1>4, <1>5, <1>6 DEF Next, HostStep, UserStep

\* SessionInv holds throughout.
LEMMA SessionInvariant == Spec => []SessionInv
BY SessionInit, SessionStep, PTL DEF Spec

\* A prompt is always that of an APDU without a reply; and unless the instruction
\* lay behind the table of handlers, a running application owes a reply only under
\* its prompt and sends no second one, whenever the transport is reset.
THEOREM OwedCorrect == Spec => []OwedIffPrompt
<1>1. SessionInv => OwedIffPrompt
  BY DEF SessionInv
<1>. QED
  BY <1>1, SessionInvariant, PTL

\* Until the user answers, the union holds what the prompt showed: no handler
\* writes global.apdu.u between the prompt and the callback.
THEOREM PromptCorrect == Spec => []PromptIsCurrent
<1>1. SessionInv => PromptIsCurrent
  BY DEF SessionInv
<1>. QED
  BY <1>1, SessionInvariant, PTL

\* No handler's request has a message hash signed unless "Allow sign hash" is on:
\* the setting cannot be changed under the prompt, which has replaced the menu.
THEOREM HashGateCorrect == Spec => HashSignedOnlyWhenAllowed
<1>1. SessionInv /\ [Next]_vars =>
        [given' # given /\ given'.kind = "sign_msg_hash" =>
           settings.sign_hash \/ dispatched' = "stray"]_vars
  <2> SUFFICES ASSUME SessionInv, Next, given' # given, given'.kind = "sign_msg_hash",
                      dispatched' # "stray"
               PROVE  settings.sign_hash
    OBVIOUS
  <2>1. CASE HostStep
    BY <2>1, HandlerSteps DEF HostStep, Answered, Prompts, NoPrompt
  <2>2. CASE Accept
    <3>1. given'.kind = prompt.kind /\ screen = "prompt"
      BY <2>2 DEF Accept, Released, SessionInv, PromptOnScreen
    <3>. QED
      BY <3>1 DEF SessionInv, HashAllowed
  <2>3. CASE \/ AcceptThrows \/ Reject \/ SwitchSetting \/ Quit \/ IoReset \/ Restart
             \/ Configure("menu", "settings") \/ Configure("settings", "menu")
    BY <2>3 DEF AcceptThrows, Reject, SwitchSetting, Quit, IoReset, Restart, Configure,
       NoPrompt
  <2>. QED
    BY <2>1, <2>2, <2>3 DEF Next, UserStep, Answer
<1>. QED
  BY <1>1, SessionInvariant, PTL DEF Spec, HashSignedOnlyWhenAllowed

-----------------------------------------------------------------------------
(* The union *)

TxState ==
  [stage : {"start", "middle", "complete"}, hard_reject : BOOLEAN,
   unsafe : BOOLEAN, is_valid : BOOLEAN, content : Txs \cup {Junk}]

\* The part of TypeOK about global.apdu.u: only the member written last holds
\* anything.
UnionOK ==
  /\ owner \in {"zero", "pubkey", "sign", "sign_msg", "sign_msg_hash"}
  /\ key \in Paths \cup {NoPath, Junk}
  /\ tx \in TxState
  /\ msg.packet_index \in 0 .. PACKET_MAX
  /\ msg.display \in Packets \cup {Junk}
  /\ msg.hashed \in Seq(Packets \cup {Junk})
  /\ data \in Hashes \cup {Junk}
  /\ owner = "zero" => key = NoPath
  /\ owner # "sign" => tx = ZeroTx
  /\ owner # "sign_msg" => msg = ZeroMsg
  /\ owner # "sign_msg_hash" => data = Junk

\* The part of TypeOK about the screen, the settings and the replies.
FrontOK ==
  /\ app \in {"running", "exited"} /\ owed \in BOOLEAN
  /\ screen \in {"menu", "settings", "prompt"}
  /\ prompt.kind \in {"none", "pubkey", "sign", "sign_msg", "sign_msg_hash"}
  /\ prompt.key \in Paths \cup {NoPath, Junk}
  /\ settings \in [network : {"mainnet", "testnet"}, sign_hash : BOOLEAN,
                   contract : BOOLEAN]
  /\ status \in {"none", "ok", "exception", "rejected", "stray"}
  /\ registered \in {"none", "pubkey", "sign", "sign_msg", "sign_msg_hash"}
  /\ dispatched \in {"none", "handler", "stray"} /\ replies \in {0, 1, 2}
  /\ given.kind \in {"none", "pubkey", "sign", "sign_msg", "sign_msg_hash"}

\* Zeroes are of every type.
LEMMA ZeroTypes ==
  /\ ZeroTx \in TxState
  /\ ZeroMsg.packet_index \in 0 .. PACKET_MAX /\ ZeroMsg.display = Junk
  /\ ZeroMsg.hashed \in Seq(Packets \cup {Junk})
  /\ NoPrompt.kind = "none" /\ NoPrompt.key = NoPath
BY SessionAssumption DEF ZeroTx, ZeroMsg, NoPrompt, TxState

\* A memset leaves the union well formed.
LEMMA ZeroUnion == Zero => UnionOK'
BY ZeroTypes DEF Zero, Write, UnionOK

\* The path read from the union is a path, zeroes or junk.
LEMMA KeyOfType == ASSUME UnionOK, NEW member PROVE KeyOf(member) \in Paths \cup {NoPath, Junk}
BY DEF KeyOf, UnionOK

\* The state of a transaction is of its type whichever member is read as one.
LEMMA ReadTxType == FreshTx \subseteq TxState /\ (UnionOK => ReadTx \subseteq TxState)
<1>1. FreshTx \subseteq TxState
  BY DEF FreshTx, ZeroTx, TxState
<1>2. JunkTx \subseteq TxState
  BY DEF JunkTx, TxState
<1>. QED
  BY <1>1, <1>2 DEF ReadTx, Read, UnionOK

\* A chunk of a transaction leaves the union well formed.
LEMMA ParseChunkUnion ==
  ASSUME NEW g \in TxState,
         NEW p \in Paths \cup {NoPath, Junk}, NEW last \in BOOLEAN,
         NEW secure_only \in BOOLEAN, NEW rv \in Verdicts, NEW bad \in Callbacks,
         ParseChunk(g, p, last, secure_only, rv, bad)
  PROVE  UnionOK'
<1>1. CASE Fail
  BY <1>1, ZeroUnion DEF Fail
<1>2. \A h \in TxState : KeepTx(h, p) => UnionOK'
  BY ZeroTypes DEF KeepTx, Write, UnionOK
<1>3. /\ [g EXCEPT !.stage = "complete", !.unsafe = (g.unsafe \/ bad = "unsafe"),
                   !.is_valid = TRUE] \in TxState
      /\ [g EXCEPT !.stage = "middle", !.unsafe = (g.unsafe \/ bad = "unsafe"),
                   !.hard_reject = (g.hard_reject \/ bad = "hard")] \in TxState
  BY DEF TxState
<1>4. CASE KeepTx([g EXCEPT !.stage = "complete", !.unsafe = (g.unsafe \/ bad = "unsafe"),
                            !.is_valid = TRUE], p)
  BY <1>2, <1>3, <1>4
<1>5. CASE KeepTx([g EXCEPT !.stage = "middle", !.unsafe = (g.unsafe \/ bad = "unsafe"),
                            !.hard_reject = (g.hard_reject \/ bad = "hard")], p)
  BY <1>2, <1>3, <1>5
<1>. QED
  BY <1>1, <1>4, <1>5 DEF ParseChunk, Complete

\* A packet of a message leaves the union well formed.
LEMMA PacketUnion ==
  ASSUME UnionOK, NEW pkt \in Packets, NEW last \in BOOLEAN, SignMessageNext(pkt, last)
  PROVE  UnionOK'
<1>1. CASE Fail
  BY <1>1, ZeroUnion DEF Fail
<1>2. CASE ~Fail
  <2>1. PICK m \in Read("sign_msg", msg, {ZeroMsg}, JunkMsg) :
          Write("sign_msg", KeyOf("sign_msg"), ZeroTx,
                [packet_index |-> NextIndex(m),
                 display |-> IF NextIndex(m) = 1 THEN pkt ELSE m.display,
                 hashed |-> Append(m.hashed, pkt)], Junk)
    BY <1>2 DEF SignMessageNext
  <2>2. /\ m.packet_index \in 0 .. PACKET_MAX
        /\ m.display \in Packets \cup {Junk}
        /\ m.hashed \in Seq(Packets \cup {Junk})
    <3>1. m \in {msg, ZeroMsg} \cup JunkMsg
      BY <2>1 DEF Read
    <3>2. CASE m \in JunkMsg
      <4>1. <<Junk>> \in Seq(Packets \cup {Junk})
        OBVIOUS
      <4>. QED
        BY <3>2, <4>1 DEF JunkMsg
    <3>. QED
      BY <3>1, <3>2, ZeroTypes DEF UnionOK
  <2>3. NextIndex(m) \in 0 .. PACKET_MAX
    <3>1. \A a, b \in Nat : b > 0 => a % b \in 0 .. b - 1
      BY SMT
    <3>. QED
      BY <2>2, <3>1, SessionAssumption DEF NextIndex
  <2>4. Append(m.hashed, pkt) \in Seq(Packets \cup {Junk})
    BY <2>2
  <2>. QED
    BY <2>1, <2>2, <2>3, <2>4, KeyOfType, ZeroTypes DEF Write, UnionOK
<1>. QED
  BY <1>1, <1>2

\* What a callback or a stray instruction leaves of the union is well formed.
LEMMA CallbackUnion ==
  ASSUME UnionOK, registered \in Kinds \cup {"none"}
  PROVE  Spent \/ Cancelled \/ StrayStep => UnionOK'
<1>1. UNCHANGED mem => UnionOK'
  BY DEF mem, UnionOK
<1>2. ASSUME NEW member \in Kinds, Write(member, NoPath, ZeroTx, ZeroMsg, Junk)
      PROVE  UnionOK'
  BY <1>2, ZeroTypes DEF Write, UnionOK, Kinds
<1>3. Spent => UnionOK'
  BY <1>1, <1>2, ZeroUnion DEF Spent, Kinds
<1>4. Cancelled => UnionOK'
  BY <1>1, ZeroUnion DEF Cancelled
<1>5. StrayStep => UnionOK'
  BY <1>1, <1>3, <1>4, ZeroUnion
  DEF StrayStep, StrayOk, StrayReject, StrayElse, RepliesAgain, Fail
<1>. QED
  BY <1>3, <1>4, <1>5

\* Every step leaves the union well formed.
LEMMA UnionStep == SessionInv /\ UnionOK /\ [Next]_vars => UnionOK'
<1> SUFFICES ASSUME SessionInv, UnionOK, [Next]_vars PROVE UnionOK' OBVIOUS
<1>1. CASE UNCHANGED mem
  BY <1>1 DEF mem, UnionOK
<1>2. CASE Zero
  BY <1>2, ZeroUnion
<1>3. CASE \/ \E p \in Paths \cup {NoPath}, p1ok \in BOOLEAN : GetPublicKey(p, p1ok)
           \/ \E p \in GoodPaths, valid \in BOOLEAN : AccountImport(p, valid)
  BY <1>2, <1>3, ZeroTypes, SessionAssumption
  DEF GetPublicKey, AccountImport, OfferKey, Write, Fail, UnionOK
<1>4. CASE \E last, secure_only \in BOOLEAN, rv \in Verdicts, bad \in Callbacks :
             \/ SignFirst(last, secure_only, rv, bad)
             \/ SignNext(last, secure_only, rv, bad)
  <2>3. TxPaths \subseteq Paths \cup {NoPath, Junk} /\ GoodPaths \subseteq Paths
    BY KeyOfType, SessionAssumption DEF TxPaths
  <2>. QED
    BY <1>4, <2>3, ReadTxType, ParseChunkUnion DEF SignFirst, SignNext
<1>5. CASE \E last \in BOOLEAN : SignOther(last)
  <2>1. ReadTx \subseteq TxState
    BY ReadTxType
  <2>2. \A g \in ReadTx : KeepTx(g, KeyOf("sign")) => UnionOK'
    BY <2>1, KeyOfType, ZeroTypes DEF KeepTx, Write, UnionOK
  <2>3. \/ Zero \/ UNCHANGED mem
        \/ \E g \in ReadTx : KeepTx(g, KeyOf("sign"))
    BY <1>5 DEF SignOther, Complete, Fail
  <2>. QED
    BY <1>1, <1>2, <2>2, <2>3
<1>6. CASE \E p \in Paths \cup {NoPath} : SignMessageFirst(p) \/ SignMessageHashFirst(p)
  BY <1>2, <1>6, ZeroTypes DEF SignMessageFirst, SignMessageHashFirst, Write, Fail, UnionOK
<1>7. CASE \E pkt \in Packets, last \in BOOLEAN : SignMessageNext(pkt, last)
  BY <1>7, PacketUnion
<1>8. CASE \E h \in Hashes \cup {Junk} : SignMessageHashLast(h)
  BY <1>2, <1>8, KeyOfType, ZeroTypes DEF SignMessageHashLast, Write, Fail, UnionOK
<1>9. CASE \/ RefuseApdu \/ PlainAnswer \/ UserStep \/ IoReset \/ Restart
           \/ UNCHANGED vars
  <2>1. UNCHANGED mem \/ Zero \/ Spent \/ Cancelled
    BY <1>9
    DEF RefuseApdu, Fail, PlainAnswer, UserStep, Answer, Accept, AcceptThrows, Reject,
        Configure, SwitchSetting, Quit, IoReset, Restart, vars, mem
  <2>2. Spent \/ Cancelled => UnionOK'
    <3>1. registered \in Kinds \cup {"none"}
      BY DEF SessionInv, PromptOnScreen
    <3>. QED
      BY <3>1, CallbackUnion
  <2>. QED
    BY <1>1, <1>2, <2>1, <2>2
<1>10. CASE StrayStep
  BY <1>10, CallbackUnion DEF SessionInv, PromptOnScreen
<1>. QED
  BY <1>3, <1>4, <1>5, <1>6, <1>7, <1>8, <1>9, <1>10 DEF Next, HostStep, HandlerStep

\* What a prompt shows of a path is a path, zeroes or junk.
LEMMA AskedPath ==
  ASSUME UnionOK, UnionOK', PromptIsCurrent', screen' = "prompt"
  PROVE  prompt'.key \in Paths \cup {NoPath, Junk}
BY DEF PromptIsCurrent, Released, KeyOf, UnionOK

\* Every step keeps the types of the screen, the settings and the replies.
LEMMA FrontStep ==
  SessionInv /\ UnionOK /\ FrontOK /\ [Next]_vars => FrontOK'
<1> SUFFICES ASSUME SessionInv, UnionOK, FrontOK, [Next]_vars PROVE FrontOK' OBVIOUS
<1>1. SessionInv' /\ UnionOK'
  BY SessionStep, UnionStep
<1>2. prompt'.kind \in {"none", "pubkey", "sign", "sign_msg", "sign_msg_hash"}
  BY <1>1, ZeroTypes DEF SessionInv, PromptOnScreen, Kinds
<1>3. prompt'.key \in Paths \cup {NoPath, Junk}
  BY <1>1, AskedPath, ZeroTypes DEF SessionInv, PromptOnScreen
<1>4. /\ app' \in {"running", "exited"} /\ owed' \in BOOLEAN
      /\ screen' \in {"menu", "settings", "prompt"}
  BY <1>1 DEF SessionInv, PromptOnScreen
<1>5. settings' \in [network : {"mainnet", "testnet"}, sign_hash : BOOLEAN,
                     contract : BOOLEAN]
  <2>1. CASE settings' = settings
    BY <2>1 DEF FrontOK
  <2>2. CASE SwitchSetting
    BY <2>2 DEF SwitchSetting, Switched, FrontOK
  <2>. QED
    BY <2>1, <2>2, HandlerSteps, StraySteps
    DEF Next, HostStep, UserStep, Answer, Answered, Prompts, Strays, Accept,
        AcceptThrows, Reject, Configure, Quit, IoReset, Restart, vars
<1>6. given'.kind \in {"none", "pubkey", "sign", "sign_msg", "sign_msg_hash"}
  <2>1. CASE given' = given
    BY <2>1 DEF FrontOK
  <2>2. CASE given' = NoPrompt
    BY <2>2, ZeroTypes
  <2>3. CASE Accept
    BY <2>3 DEF Accept, Released, FrontOK
  <2>4. CASE Strays
    BY <2>4 DEF Strays, Kinds
  <2>. QED
    BY <2>1, <2>2, <2>3, <2>4, HandlerSteps, StraySteps
    DEF Next, HostStep, UserStep, Answer, Answered, Prompts, AcceptThrows, Reject,
        Configure, SwitchSetting, Quit, IoReset, Restart, vars
<1>7. status' \in {"none", "ok", "exception", "rejected", "stray"}
  <2>1. CASE status' = status
    BY <2>1 DEF FrontOK
  <2>3. CASE StrayStep
    BY <2>3, StraySteps DEF Strays
  <2>2. CASE HandlerStep
    <3>1. \A k, p, d : Ask(k, p, d) => status' = "none"
      BY DEF Ask
    <3>2. Fail => status' = "exception"
      BY DEF Fail, Reply
    <3>3. \A sw : Reply(sw) => status' = sw
      BY DEF Reply
    <3> DEFINE Known == status' \in {"none", "ok", "exception", "rejected", "stray"}
    <3>4. /\ RefuseApdu \/ PlainAnswer => Known
          /\ \A p, ok : GetPublicKey(p, ok) \/ AccountImport(p, ok) => Known
      BY <3>1, <3>2, <3>3 DEF RefuseApdu, PlainAnswer, GetPublicKey, AccountImport, OfferKey
    <3>5. \A g, p : Complete(g, p) => Known
      BY <3>1, <3>2 DEF Complete
    <3>6. \A g, p, last, secure_only, rv, bad :
            ParseChunk(g, p, last, secure_only, rv, bad) => Known
      BY <3>2, <3>3, <3>5 DEF ParseChunk
    <3>7. /\ \A last, secure_only, rv, bad :
               (\/ SignFirst(last, secure_only, rv, bad)
                \/ SignNext(last, secure_only, rv, bad)) => Known
          /\ \A last : SignOther(last) => Known
      BY <3>3, <3>5, <3>6 DEF SignFirst, SignNext, SignOther
    <3>8. /\ \A p : SignMessageFirst(p) \/ SignMessageHashFirst(p) => Known
          /\ \A h : SignMessageHashLast(h) => Known
      BY <3>1, <3>2, <3>3 DEF SignMessageFirst, SignMessageHashFirst, SignMessageHashLast
    <3>9. \A pkt, last : SignMessageNext(pkt, last) => Known
      BY <3>1, <3>2, <3>3 DEF SignMessageNext
    <3>. QED
      BY <2>2, <3>4, <3>7, <3>8, <3>9 DEF HandlerStep
  <2>. QED
    BY <2>1, <2>2, <2>3
    DEF Next, HostStep, UserStep, Answer, Accept, AcceptThrows, Reject, Configure,
        SwitchSetting, Quit, IoReset, Restart, vars
<1>8. registered' \in {"none", "pubkey", "sign", "sign_msg", "sign_msg_hash"}
  BY <1>1 DEF SessionInv, PromptOnScreen, Kinds
<1>9. dispatched' \in {"none", "handler", "stray"} /\ replies' \in {0, 1, 2}
  <2>1. CASE HostStep
    BY <2>1, HandlerSteps, StraySteps DEF HostStep, Answered, Prompts, Strays
  <2>2. CASE Accept \/ Reject
    BY <2>2 DEF Accept, Reject, FrontOK, SessionInv, OwedIffPrompt
  <2>3. CASE UNCHANGED <<dispatched, replies>> \/ Restart
    BY <2>3 DEF Restart, FrontOK
  <2>. QED
    BY <2>1, <2>2, <2>3
    DEF Next, UserStep, Answer, AcceptThrows, Configure, SwitchSetting, Quit, IoReset,
        vars
<1>. QED
  BY <1>2, <1>3, <1>4, <1>5, <1>6, <1>7, <1>8, <1>9 DEF FrontOK

\* The fields keep their types, and the union holds nothing of a member that was
\* not written last, whatever the order of instructions, prompts and resets.
THEOREM TypeCorrect == Spec => []TypeOK
<1>1. Init => UnionOK
  BY ZeroTypes DEF Init, UnionOK
<1>3. Init => FrontOK
  <2>1. FirstSettings \in [network : {"mainnet", "testnet"}, sign_hash : BOOLEAN,
                           contract : BOOLEAN]
    BY DEF FirstSettings
  <2>. QED
    BY <2>1, ZeroTypes DEF Init, FrontOK
<1>2. UnionOK /\ FrontOK => TypeOK
  BY DEF UnionOK, FrontOK, TypeOK, TxState
<1>. QED
  BY <1>1, <1>2, <1>3, UnionStep, FrontStep, SessionInvariant, PTL DEF Spec

-----------------------------------------------------------------------------
(* Messages in packets *)

\* packet_index counts the packets hashed since the setup packet, and the first
\* of them is the one displayed; a key that another member left is no key.
MessageSoFar ==
  owner = "sign_msg" /\ key # Junk =>
    /\ msg.packet_index \in 0 .. PACKET_MAX
    /\ msg.packet_index = 0 => msg.hashed = <<>>
    /\ msg.packet_index > 0 => /\ msg.hashed \in Seq(Packets) /\ msg.hashed # <<>>
                               /\ msg.display = Head(msg.hashed)
                               /\ msg.display \in Magic

\* packet_index stays within its uint8_t and never comes back to 1.
LEMMA NextIndexCounts ==
  ASSUME NEW m, m.packet_index \in 0 .. PACKET_MAX, ~PacketRefused(m)
  PROVE  NextIndex(m) = m.packet_index + 1
<1>1. \A a, b \in Nat : a < b => a % b = a
  BY SMT
<1>. QED
  BY <1>1, SessionAssumption DEF NextIndex, PacketRefused

\* A packet accepted after a setup packet is counted and hashed, and displayed if
\* it is the first.
LEMMA PacketCounted ==
  ASSUME MessageSoFar, NEW pkt \in Packets, NEW last \in BOOLEAN,
         SignMessageNext(pkt, last)
  PROVE  /\ MessageSoFar'
         /\ owner' = "sign_msg" /\ key' # Junk => msg'.packet_index > 0
<1> SUFFICES ASSUME owner' = "sign_msg", key' # Junk
             PROVE  MessageSoFar' /\ msg'.packet_index > 0
  BY DEF MessageSoFar
<1>1. PICK m \in Read("sign_msg", msg, {ZeroMsg}, JunkMsg) :
        /\ ~PacketRefused(m) /\ (NextIndex(m) = 1 => pkt \in Magic)
        /\ key' = KeyOf("sign_msg")
        /\ msg' = [packet_index |-> NextIndex(m),
                   display |-> IF NextIndex(m) = 1 THEN pkt ELSE m.display,
                   hashed |-> Append(m.hashed, pkt)]
  BY DEF SignMessageNext, Fail, Zero, Write
<1>2. \/ owner = "zero" /\ m = ZeroMsg
      \/ owner = "sign_msg" /\ key # Junk /\ m = msg
  BY <1>1 DEF Read, KeyOf
<1>3. /\ m.packet_index \in 0 .. PACKET_MAX
      /\ m.packet_index = 0 => m.hashed = <<>>
      /\ m.packet_index > 0 => /\ m.hashed \in Seq(Packets) /\ m.hashed # <<>>
                               /\ m.display = Head(m.hashed) /\ m.display \in Magic
  BY <1>2, SessionAssumption DEF MessageSoFar, ZeroMsg
<1>4. NextIndex(m) = m.packet_index + 1 /\ NextIndex(m) \in 1 .. PACKET_MAX
  BY <1>1, <1>3, NextIndexCounts, SessionAssumption DEF PacketRefused
<1>5. CASE m.packet_index = 0
  <2>1. msg'.hashed = <<pkt>> /\ msg'.display = pkt /\ pkt \in Magic
    <3>1. m.hashed = <<>> /\ NextIndex(m) = 1
      BY <1>3, <1>4, <1>5
    <3>2. Append(<<>>, pkt) = <<pkt>>
      OBVIOUS
    <3>. QED
      BY <1>1, <3>1, <3>2, Zenon
  <2>2. <<pkt>> \in Seq(Packets) /\ <<pkt>> # <<>> /\ Head(<<pkt>>) = pkt
    OBVIOUS
  <2>3. msg'.packet_index = NextIndex(m)
    BY <1>1
  <2>. QED
    BY <1>4, <2>1, <2>2, <2>3 DEF MessageSoFar
<1>6. CASE m.packet_index > 0
  <2>1. /\ m.hashed \in Seq(Packets) /\ m.hashed # <<>>
        /\ m.display = Head(m.hashed) /\ m.display \in Magic
    BY <1>3, <1>6
  <2>2. /\ Append(m.hashed, pkt) \in Seq(Packets)
        /\ Append(m.hashed, pkt) # <<>>
        /\ Head(Append(m.hashed, pkt)) = Head(m.hashed)
    BY <2>1
  <2>3. NextIndex(m) # 1
    BY <1>3, <1>4, <1>6
  <2>. QED
    BY <1>1, <1>4, <2>1, <2>2, <2>3 DEF MessageSoFar
<1>. QED
  BY <1>3, <1>5, <1>6

\* Every step keeps MessageSoFar: no other handler leaves the message in place.
LEMMA MessageStep == MessageSoFar /\ [Next]_vars => MessageSoFar'
<1> SUFFICES ASSUME MessageSoFar, [Next]_vars, owner' = "sign_msg" PROVE MessageSoFar'
  BY DEF MessageSoFar
<1>0. \A member, p : Write(member, p, ZeroTx, ZeroMsg, Junk) => MessageSoFar'
  BY SessionAssumption DEF Write, ZeroMsg, MessageSoFar
<1>1. CASE \E pkt \in Packets, last \in BOOLEAN : SignMessageNext(pkt, last)
  BY <1>1, PacketCounted
<1>2. CASE \E p \in Paths \cup {NoPath} : SignMessageFirst(p)
  BY <1>2, SessionAssumption DEF SignMessageFirst, Write, ZeroMsg, Fail, Zero, MessageSoFar
<1>3. CASE UNCHANGED mem
  BY <1>3 DEF mem, MessageSoFar
<1>4. Zero => FALSE
  BY DEF Zero, Write
<1>5. CASE \E last, secure_only \in BOOLEAN, rv \in Verdicts, bad \in Callbacks :
             \/ SignFirst(last, secure_only, rv, bad)
             \/ SignNext(last, secure_only, rv, bad)
  BY <1>4, <1>5 DEF SignFirst, SignNext, ParseChunk, Fail, KeepTx, Write, Complete
<1>6. CASE \E last \in BOOLEAN : SignOther(last)
  BY <1>3, <1>4, <1>6 DEF SignOther, Complete, Fail, KeepTx, Write
<1>7. CASE \/ \E p \in Paths \cup {NoPath}, p1ok \in BOOLEAN : GetPublicKey(p, p1ok)
           \/ \E p \in GoodPaths, valid \in BOOLEAN : AccountImport(p, valid)
           \/ \E p \in Paths \cup {NoPath} : SignMessageHashFirst(p)
           \/ \E h \in Hashes \cup {Junk} : SignMessageHashLast(h)
           \/ RefuseApdu \/ Restart
  BY <1>4, <1>7 DEF GetPublicKey, AccountImport, OfferKey, SignMessageHashFirst, SignMessageHashLast,
     RefuseApdu, Restart, Fail, Write
<1>8. CASE \/ PlainAnswer \/ AcceptThrows \/ SwitchSetting \/ Quit \/ IoReset
           \/ Configure("menu", "settings") \/ Configure("settings", "menu")
           \/ UNCHANGED vars
  BY <1>3, <1>8 DEF PlainAnswer, AcceptThrows, SwitchSetting, Quit, IoReset,
     Configure, vars, mem
<1>9. CASE Accept \/ Reject \/ StrayStep
  <2>1. Spent \/ Cancelled => MessageSoFar'
    BY <1>0, <1>3, <1>4 DEF Spent, Cancelled
  <2>. QED
    BY <1>3, <1>4, <1>9, <2>1
    DEF Accept, Reject, StrayStep, StrayOk, StrayReject, StrayElse, RepliesAgain, Fail
<1>. QED
  BY <1>1, <1>2, <1>5, <1>6, <1>7, <1>8, <1>9
  DEF Next, HostStep, HandlerStep, UserStep, Answer

\* A message is put to the user only after a packet was hashed.
MessageCounted ==
  screen = "prompt" /\ prompt.kind = "sign_msg" /\ key # Junk => msg.packet_index > 0

\* Every step keeps MessageCounted: only P1_NEXT with the last marker prompts.
LEMMA CountedStep ==
  SessionInv /\ MessageSoFar /\ MessageCounted /\ [Next]_vars => MessageCounted'
<1> SUFFICES ASSUME SessionInv, MessageSoFar, MessageCounted, [Next]_vars,
                    screen' = "prompt", prompt'.kind = "sign_msg", key' # Junk
             PROVE  msg'.packet_index > 0
  BY DEF MessageCounted
<1>1. CASE UNCHANGED vars
  BY <1>1 DEF vars, MessageCounted
<1>2. SessionInv'
  BY SessionStep
<1>3. CASE \E pkt \in Packets, last \in BOOLEAN : SignMessageNext(pkt, last)
  BY <1>2, <1>3, PacketCounted DEF SessionInv, PromptIsCurrent
<1>4. CASE HandlerStep /\ ~\E pkt \in Packets, last \in BOOLEAN : SignMessageNext(pkt, last)
  <2>1. screen # "prompt"
    BY <1>4, HandlerSteps DEF SessionInv, OwedIffPrompt, Receives
  <2>2. ~Fail /\ \A sw : ~Reply(sw)
    BY <2>1 DEF Fail, Reply
  <2>3. \A k, p, d : Ask(k, p, d) => k = "sign_msg"
    BY DEF Ask
  <2>4. \A g, p : ~Complete(g, p)
    BY <2>2, <2>3 DEF Complete
  <2>5. \A g, p, last, secure_only, rv, bad : ~ParseChunk(g, p, last, secure_only, rv, bad)
    BY <2>2, <2>4 DEF ParseChunk
  <2>6. /\ ~RefuseApdu /\ ~PlainAnswer
        /\ \A p, ok : ~GetPublicKey(p, ok) /\ ~AccountImport(p, ok)
    BY <2>2, <2>3 DEF RefuseApdu, PlainAnswer, GetPublicKey, AccountImport, OfferKey
  <2>7. \A last, secure_only, rv, bad : /\ ~SignFirst(last, secure_only, rv, bad)
                                        /\ ~SignNext(last, secure_only, rv, bad)
    BY <2>5 DEF SignFirst, SignNext
  <2>8. \A last : ~SignOther(last)
    BY <2>2, <2>4 DEF SignOther
  <2>9. \A p : ~SignMessageFirst(p) /\ ~SignMessageHashFirst(p)
    BY <2>2 DEF SignMessageFirst, SignMessageHashFirst
  <2>10. \A h : ~SignMessageHashLast(h)
    BY <2>2, <2>3 DEF SignMessageHashLast
  <2>. QED
    BY <1>4, <2>6, <2>7, <2>8, <2>9, <2>10 DEF HandlerStep
<1>6. CASE StrayStep
  BY <1>6, StraySteps DEF SessionInv, OwedIffPrompt, Receives, Strays
<1>5. CASE UserStep \/ IoReset \/ Restart
  BY <1>5 DEF UserStep, Answer, Accept, AcceptThrows, Reject, LeavePrompt, Configure,
     SwitchSetting, Quit, IoReset, Restart
<1>. QED
  BY <1>1, <1>3, <1>4, <1>5, <1>6 DEF Next, HostStep

\* A message the user is asked to sign after a setup packet is displayed from its
\* first packet, which carries the magic, for any number of packets up to 255:
\* the guard on packet_index keeps it from wrapping back to 1.
THEOREM MessageCorrect == Spec => []MessageShowsItsFirstPacket
<1>1. Init => MessageSoFar
  BY DEF Init, MessageSoFar
<1>2. Init => MessageCounted
  BY DEF Init, MessageCounted
<1>3. SessionInv /\ MessageSoFar /\ MessageCounted => MessageShowsItsFirstPacket
  <2> SUFFICES ASSUME SessionInv, MessageSoFar, MessageCounted, screen = "prompt",
                      prompt.kind = "sign_msg", prompt.key # Junk
               PROVE  /\ prompt.data.shown = Head(prompt.data.signed)
                      /\ prompt.data.shown \in Magic
    BY DEF MessageShowsItsFirstPacket
  <2>1. owner = "sign_msg" /\ Released = prompt
    BY DEF SessionInv, PromptIsCurrent
  <2>2. key = prompt.key /\ prompt.data = [shown |-> msg.display, signed |-> msg.hashed]
    BY <2>1 DEF Released, KeyOf, SessionInv, PromptOnScreen
  <2>. QED
    BY <2>1, <2>2 DEF MessageSoFar, MessageCounted
<1>. QED
  BY <1>1, <1>2, <1>3, MessageStep, CountedStep, SessionInvariant, PTL DEF Spec

-----------------------------------------------------------------------------
(* Approval *)

\* Every step of the session is a step of Approval or leaves it alone.
LEMMA ApprovalStep ==
  SessionInv /\ [Next]_vars => [A!Next]_<<prompt, given, dispatched = "stray">>
<1> SUFFICES ASSUME SessionInv, [Next]_vars
             PROVE  [A!Next]_<<prompt, given, dispatched = "stray">>
  OBVIOUS
<1>1. screen # "prompt" => prompt = NoPrompt
  BY DEF SessionInv, PromptOnScreen
<1>2. screen = "prompt" => prompt # NoPrompt /\ dispatched = "handler"
  BY DEF SessionInv, PromptOnScreen, OwedIffPrompt, Kinds, NoPrompt
<1>3. CASE UNCHANGED vars
  BY <1>3 DEF vars
<1>4. CASE HandlerStep /\ dispatched' = "handler"
  <2>1. screen # "prompt"
    BY <1>4, HandlerSteps DEF SessionInv, OwedIffPrompt, Receives
  <2>2. CASE Answered
    BY <1>1, <1>4, <2>1, <2>2 DEF Answered, A!Next, A!Serve
  <2>3. CASE Prompts
    BY <1>1, <1>4, <2>1, <2>3 DEF Prompts, A!Next, A!Ask
  <2>. QED
    BY <1>4, <2>2, <2>3, HandlerSteps
<1>9. CASE StrayStep /\ dispatched' = "stray"
  <2>1. screen # "prompt"
    BY <1>9, StraySteps DEF SessionInv, OwedIffPrompt, Receives
  <2>. QED
    BY <1>1, <1>9, <2>1, StraySteps DEF Strays, A!Next, A!Stray
<1>5. CASE Accept
  BY <1>2, <1>5 DEF Accept, LeavePrompt, SessionInv, PromptIsCurrent, A!Next, A!Approve
<1>6. CASE AcceptThrows \/ Reject
  BY <1>2, <1>6 DEF AcceptThrows, Reject, LeavePrompt, A!Next, A!Dismiss
<1>7. CASE IoReset
  BY <1>1, <1>2, <1>7 DEF IoReset, LeavePrompt, A!Next, A!Dismiss
<1>10. CASE Restart
  BY <1>1, <1>10 DEF Restart, LeavePrompt, SessionInv, PromptOnScreen, A!Next, A!Serve
<1>8. CASE \/ Configure("menu", "settings") \/ Configure("settings", "menu")
           \/ SwitchSetting \/ Quit
  BY <1>8 DEF Configure, SwitchSetting, Quit
<1>. QED
  BY <1>3, <1>4, <1>5, <1>6, <1>7, <1>8, <1>9, <1>10 DEF Next, HostStep, UserStep, Answer

\* The session implements Approval: by a request that has a handler, a key or a
\* signature leaves the device only by the approval of the prompt on the screen, and
\* is what that prompt showed; one without a handler comes when no prompt is up and
\* leaves none, whatever it releases.
THEOREM ApprovalCorrect == Spec => ApprovalSpec
<1>1. Init => A!Init
  BY DEF Init, A!Init
<1>. QED
  BY <1>1, ApprovalStep, SessionInvariant, PTL DEF Spec, ApprovalSpec, A!Spec
=============================================================================

---------------------------- MODULE WitnessProps ----------------------------
(***************************************************************************)
(* What the hash of a transaction is made of, said without the parser: the *)
(* message does not depend on where the host cuts the witnesses.           *)
(***************************************************************************)
EXTENDS Witness, Folding

\* The witness ends before its fields do.
Truncated(f) == f.short \/ Len(f.body) < f.plen + f.it + f.ot
Whole(f) == ~Truncated(f) /\ Sound(f)

Fields(f) == SubSeq(f.body, f.plen + 1, f.plen + f.it + f.ot)

\* A lock that holds a multisig_script and signatures.
HasScript(f) ==
  /\ f.plen >= FLAGS /\ f.body[1] = 0 /\ f.body[FLAGS] > 0
  /\ f.plen >= FLAGS + KEY * f.body[FLAGS]

\* lock with its signatures, all that follows the script, zeroed.
WithoutSignatures(f) ==
  [k \in 1 .. f.plen |->
     IF k <= FLAGS + KEY * f.body[FLAGS] THEN f.body[k] ELSE 0]

\* The first witness of a single signature: lock is the zero lock whatever was
\* sent.
SinglesigFirst(f) ==
  Append(HashedHeader([f EXCEPT !.field = ZERO_LOCK], 0), ZeroWitness)
    \o Units(Fields(f))

\* That of a multisig input: lock as sent, but for the signatures.
MultisigFirst(f) ==
  HashedHeader(f, 0)
    \o (IF f.field = 0 THEN <<>>
        ELSE <<LockSize(f.plen)>> \o Units(WithoutSignatures(f)))
    \o Units(Fields(f))

\* A further witness adds its length and itself.
WithOther == [p \in Seq(Token) \X Seq(UNIT) |->
                p[1] \o <<Length(Len(p[2]))>> \o Units(p[2])]

Message(firstPart) == FoldUp(WithOther, <<TxHash>> \o firstPart, others)

Signable == pc = "final" /\ ~unsafe /\ count > 0

\* For a single signature the hash is over the transaction, the first witness
\* with a zero lock of 65 bytes, and the other witnesses with their lengths: the
\* lock that the host sends and its chunks leave no trace.  A first witness that
\* ends before its fields counts as one with the zero lock alone.
SighashMessage ==
  Signable /\ ~signing_multisig_input =>
    /\ Whole(first) => hashed = Message(SinglesigFirst(first))
    /\ Truncated(first) => hashed = Message(Tail(SelfWitness))

\* For a multisig input the hash covers the script and the fields as sent and
\* zeroes for the signatures, provided one chunk holds all of them and the end of
\* the script.  A first witness that ends early counts as one with the zero lock.
MultisigMessage ==
  Signable /\ signing_multisig_input =>
    /\ ~scattered /\ Whole(first) /\ (first.field = 0 \/ HasScript(first)) =>
         hashed = Message(MultisigFirst(first))
    /\ Truncated(first) => hashed = Message(Tail(SelfWitness))

-----------------------------------------------------------------------------
(* What a comment of apdu_sign.c says *)

\* "Zero signatures": no part of a signature is hashed, wherever a chunk begins.
SignaturesZeroed ==
  Signable /\ signing_multisig_input /\ Whole(first) /\ first.field # 0
    /\ HasScript(first)
  => hashed = Message(MultisigFirst(first))
=============================================================================

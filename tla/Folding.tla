------------------------------ MODULE Folding -------------------------------
(***************************************************************************)
(* The fold of a sequence from its first element on.  It is that of        *)
(* SequencesExt, but for the step, which is a function: a fact about all   *)
(* folds can then be stated, and proved, for any step.                     *)
(***************************************************************************)
EXTENDS Integers, Sequences

\* base, then step[base, s[1]], and so on to the end of s.
FoldUp(step, base, s) ==
  LET upto[i \in 0 .. Len(s)] ==
        IF i = 0 THEN base ELSE step[<<upto[i - 1], s[i]>>]
  IN upto[Len(s)]

\* Steps that depend on nothing else, k of them.
Repeat(step, base, k) ==
  FoldUp([p \in (DOMAIN step) \X {0} |-> step[p[1]]], base, [i \in 1 .. k |-> 0])

\* b to the power of k.
Power(b, k) == Repeat([n \in Nat |-> b * n], 1, k)
=============================================================================

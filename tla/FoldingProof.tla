---------------------------- MODULE FoldingProof ----------------------------
(***************************************************************************)
(* What a fold computes, for every step and every sequence: its value on   *)
(* the empty sequence, on a sequence with one element more, and its type.  *)
(*                                                                         *)
(* Induction on natural numbers is stated with a set in the place of the   *)
(* predicate, so that it can be instantiated by the provers.               *)
(***************************************************************************)
EXTENDS Folding, TLAPS, WellFoundedInduction

\* A nonempty set of natural numbers has a least element.
LEMMA LeastElement ==
  ASSUME NEW T, T \subseteq Nat, T # {}
  PROVE  \E n \in T : \A m \in T : n <= m
<1> DEFINE R == {ss \in Nat \X Nat : ss[1] < ss[2]}
<1>1. IsWellFoundedOn(R, Nat)
  BY NatLessThanWellFounded DEF OpToRel
<1>2. PICK n \in T : \A m \in T : ~(<<m, n>> \in R)
  <2> HIDE DEF R
  <2>. QED
    BY <1>1, WFMin
<1>3. \A m \in T : ~(m < n)
  BY <1>2
<1>. QED
  BY <1>3

\* Induction on natural numbers: S is the set of those with the property.
LEMMA Induction ==
  ASSUME NEW S, 0 \in S, \A n \in Nat : n \in S => n + 1 \in S
  PROVE  Nat \subseteq S
<1> SUFFICES ASSUME Nat \ S # {} PROVE FALSE
  OBVIOUS
<1>1. PICK n \in Nat \ S : \A m \in Nat \ S : n <= m
  BY LeastElement
<1>2. n # 0 /\ n - 1 \in Nat /\ n - 1 \notin Nat \ S
  BY <1>1
<1>. QED
  BY <1>2

\* A function that begins with b and takes n steps by F.
Iterates(g, n, A, b, F) ==
  /\ g \in [0 .. n -> A] /\ g[0] = b
  /\ \A i \in 1 .. n : g[i] = F[<<g[i - 1], i>>]

\* There is one for every number of steps.
LEMMA IterationExists ==
  ASSUME NEW A, NEW b \in A, NEW n \in Nat, NEW F \in [A \X (1 .. n) -> A]
  PROVE  \E g : Iterates(g, n, A, b, F)
<1> DEFINE S == {k \in Nat : k <= n => \E g : Iterates(g, k, A, b, F)}
<1>1. 0 \in S
  <2>1. Iterates([i \in 0 .. 0 |-> b], 0, A, b, F)
    BY DEF Iterates
  <2>. QED
    BY <2>1
<1>2. ASSUME NEW k \in Nat, k \in S PROVE k + 1 \in S
  <2> SUFFICES ASSUME k + 1 <= n PROVE \E g : Iterates(g, k + 1, A, b, F)
    OBVIOUS
  <2>1. PICK g : Iterates(g, k, A, b, F)
    BY <1>2
  <2> DEFINE h == [i \in 0 .. k + 1 |-> IF i <= k THEN g[i] ELSE F[<<g[k], k + 1>>]]
  <2>2. g[k] \in A /\ F[<<g[k], k + 1>>] \in A
    BY <2>1 DEF Iterates
  <2>3. h \in [0 .. k + 1 -> A] /\ h[0] = b
    BY <2>1, <2>2 DEF Iterates
  <2>4. ASSUME NEW i \in 1 .. k + 1 PROVE h[i] = F[<<h[i - 1], i>>]
    <3>1. CASE i <= k
      <4>1. h[i] = g[i] /\ h[i - 1] = g[i - 1]
        BY <3>1
      <4>2. g[i] = F[<<g[i - 1], i>>]
        BY <2>1, <3>1 DEF Iterates
      <4>. QED
        BY <4>1, <4>2, Zenon
    <3>2. CASE i = k + 1
      <4>1. h[i] = F[<<g[k], k + 1>>] /\ h[i - 1] = g[k]
        BY <3>2
      <4>. QED
        BY <3>2, <4>1, Zenon
    <3>. QED
      BY <3>1, <3>2
  <2>. QED
    BY <2>3, <2>4 DEF Iterates
<1>. HIDE DEF S
<1>3. Nat \subseteq S
  BY <1>1, <1>2, Induction
<1>. QED
  BY <1>3 DEF S

\* Two functions that go on alike for n steps.
Alike(g, h, n) == g[0] = h[0] /\ \A i \in 1 .. n : g[i - 1] = h[i - 1] => g[i] = h[i]

\* They are alike after n steps.
LEMMA IterationUnique ==
  ASSUME NEW n \in Nat, NEW g, NEW h, Alike(g, h, n)
  PROVE  g[n] = h[n]
<1> DEFINE S == {k \in Nat : k <= n => g[k] = h[k]}
<1>1. 0 \in S
  BY DEF Alike
<1>2. ASSUME NEW k \in Nat, k \in S PROVE k + 1 \in S
  BY <1>2 DEF Alike
<1>. HIDE DEF S
<1>3. Nat \subseteq S
  BY <1>1, <1>2, Induction
<1>. QED
  BY <1>3 DEF S

-----------------------------------------------------------------------------
(* Folds *)

\* g computes the fold of s with values in A.
Computes(g, A, step, base, s) ==
  /\ g \in [0 .. Len(s) -> A] /\ g[0] = base
  /\ \A i \in 1 .. Len(s) : g[i] = step[<<g[i - 1], s[i]>>]
  /\ FoldUp(step, base, s) = g[Len(s)]

\* The function that FoldUp computes satisfies its equation.
LEMMA FoldUpComputes ==
  ASSUME NEW A, NEW C, NEW base \in A, NEW step \in [A \X C -> A], NEW s \in Seq(C)
  PROVE  \E g : Computes(g, A, step, base, s)
<1> DEFINE F == [p \in A \X (1 .. Len(s)) |-> step[<<p[1], s[p[2]]>>]]
           R(g) == g = [i \in 0 .. Len(s) |->
                          IF i = 0 THEN base ELSE step[<<g[i - 1], s[i]>>]]
           upto == CHOOSE g : R(g)
<1>1. Len(s) \in Nat /\ \A i \in 1 .. Len(s) : s[i] \in C
  OBVIOUS
<1>2. F \in [A \X (1 .. Len(s)) -> A]
  BY <1>1
<1>3. PICK g : Iterates(g, Len(s), A, base, F)
  <2> HIDE DEF F
  <2>. QED
    BY <1>1, <1>2, IterationExists
<1>4. g \in [0 .. Len(s) -> A] /\ g[0] = base
  BY <1>3 DEF Iterates
<1>5. ASSUME NEW i \in 1 .. Len(s) PROVE g[i] = step[<<g[i - 1], s[i]>>]
  <2>1. g[i] = F[<<g[i - 1], i>>]
    <3> HIDE DEF F
    <3>. QED
      BY <1>3 DEF Iterates
  <2>2. g[i - 1] \in A
    <3>1. i - 1 \in 0 .. Len(s)
      BY <1>1
    <3>. QED
      BY <1>4, <3>1
  <2>3. \A x \in A, k \in 1 .. Len(s) : F[<<x, k>>] = step[<<x, s[k]>>]
    OBVIOUS
  <2>4. F[<<g[i - 1], i>>] = step[<<g[i - 1], s[i]>>]
    BY <2>2, <2>3
  <2>. QED
    BY <2>1, <2>4
<1>6. R(g)
  <2>1. \A i \in 0 .. Len(s) :
          g[i] = IF i = 0 THEN base ELSE step[<<g[i - 1], s[i]>>]
    BY <1>1, <1>4, <1>5
  <2>. QED
    BY <1>4, <2>1
<1>7. R(upto)
  BY <1>6, ZenonT(30)
<1>8. FoldUp(step, base, s) = upto[Len(s)]
  BY DEF FoldUp
<1>9. g[Len(s)] = upto[Len(s)]
  <2> HIDE DEF upto
  <2>1. /\ upto[0] = base
        /\ \A i \in 1 .. Len(s) : upto[i] = step[<<upto[i - 1], s[i]>>]
    BY <1>1, <1>7
  <2>2. Alike(g, upto, Len(s))
    BY <1>4, <1>5, <2>1 DEF Alike
  <2>. QED
    BY <1>1, <2>2, IterationUnique
<1>. QED
  <2> HIDE DEF upto
  <2>1. Computes(g, A, step, base, s)
    BY <1>4, <1>5, <1>8, <1>9 DEF Computes
  <2>. QED
    BY <2>1

\* A step and a beginning that a fold of a sequence over C can have.
Folds(step, base, A, C) == base \in A /\ step \in [A \X C -> A]

\* A fold has the type of its step.
LEMMA FoldUpType ==
  ASSUME NEW A, NEW C, NEW step, NEW base, Folds(step, base, A, C), NEW s \in Seq(C)
  PROVE  FoldUp(step, base, s) \in A
<1>1. PICK g : Computes(g, A, step, base, s)
  BY FoldUpComputes DEF Folds
<1>. QED
  BY <1>1 DEF Computes

\* The fold of nothing.
LEMMA FoldUpEmpty ==
  ASSUME NEW A, NEW C, NEW step, NEW base, Folds(step, base, A, C)
  PROVE  FoldUp(step, base, <<>>) = base
<1>1. <<>> \in Seq(C) /\ Len(<<>>) = 0
  OBVIOUS
<1>2. PICK g : Computes(g, A, step, base, <<>>)
  BY <1>1, FoldUpComputes DEF Folds
<1>. QED
  BY <1>1, <1>2 DEF Computes

\* One element more is one step more: as one formula for the provers.
Grows(step, base, C) ==
  \A s \in Seq(C) : \A c \in C :
    FoldUp(step, base, Append(s, c)) = step[<<FoldUp(step, base, s), c>>]

LEMMA FoldUpGrows ==
  ASSUME NEW A, NEW C, NEW step, NEW base, Folds(step, base, A, C)
  PROVE  Grows(step, base, C)
<1> SUFFICES ASSUME NEW s \in Seq(C), NEW c \in C
             PROVE  FoldUp(step, base, Append(s, c)) = step[<<FoldUp(step, base, s), c>>]
  BY Zenon DEF Grows
<1> DEFINE t == Append(s, c)
<1>1. /\ t \in Seq(C) /\ Len(t) = Len(s) + 1 /\ Len(s) \in Nat
      /\ t[Len(s) + 1] = c /\ \A i \in 1 .. Len(s) : t[i] = s[i]
  OBVIOUS
<1> HIDE DEF t
<1>2. PICK g : Computes(g, A, step, base, s)
  BY FoldUpComputes DEF Folds
<1>3. PICK h : Computes(h, A, step, base, t)
  BY <1>1, FoldUpComputes DEF Folds
<1>4. Alike(g, h, Len(s))
  <2>1. g[0] = base /\ h[0] = base
    BY <1>2, <1>3 DEF Computes
  <2>2. ASSUME NEW i \in 1 .. Len(s), g[i - 1] = h[i - 1] PROVE g[i] = h[i]
    <3>1. i \in 1 .. Len(t) /\ t[i] = s[i]
      BY <1>1
    <3>2. g[i] = step[<<g[i - 1], s[i]>>] /\ h[i] = step[<<h[i - 1], t[i]>>]
      BY <1>2, <1>3, <3>1, Zenon DEF Computes
    <3>. QED
      BY <2>2, <3>1, <3>2, Zenon
  <2>. QED
    BY <2>1, <2>2 DEF Alike
<1>5. g[Len(s)] = h[Len(s)]
  BY <1>1, <1>4, IterationUnique
<1>6. FoldUp(step, base, t) = step[<<h[Len(s)], c>>]
  <2>1. Len(t) \in 1 .. Len(t) /\ Len(t) - 1 = Len(s) /\ t[Len(t)] = c
    BY <1>1
  <2>2. h[Len(t)] = step[<<h[Len(t) - 1], t[Len(t)]>>]
    BY <1>3, <2>1, Zenon DEF Computes
  <2>. QED
    BY <1>3, <2>1, <2>2 DEF Computes
<1>. QED
  BY <1>2, <1>5, <1>6 DEF t, Computes

\* The same of one sequence.
LEMMA FoldUpAppend ==
  ASSUME NEW A, NEW C, NEW step, NEW base, Folds(step, base, A, C),
         NEW s \in Seq(C), NEW c \in C
  PROVE  FoldUp(step, base, Append(s, c)) = step[<<FoldUp(step, base, s), c>>]
<1>1. Grows(step, base, C)
  BY FoldUpGrows, Zenon
<1>. QED
  BY <1>1, Zenon DEF Grows

-----------------------------------------------------------------------------
(* Repetition and powers *)

\* The steps of a repetition, as those of a fold.
Again(step) == [p \in (DOMAIN step) \X {0} |-> step[p[1]]]

\* k steps that depend on nothing else: none, or one more.
Repeats(step, base, A) ==
  \A k \in Nat :
    /\ Repeat(step, base, 0) = base
    /\ Repeat(step, base, k) \in A
    /\ Repeat(step, base, k + 1) = step[Repeat(step, base, k)]

LEMMA RepeatGrows ==
  ASSUME NEW A, NEW step, step \in [A -> A], NEW base, base \in A
  PROVE  Repeats(step, base, A)
<1> SUFFICES ASSUME NEW k \in Nat
             PROVE  /\ Repeat(step, base, 0) = base
                    /\ Repeat(step, base, k) \in A
                    /\ Repeat(step, base, k + 1) = step[Repeat(step, base, k)]
  BY Zenon DEF Repeats
<1> DEFINE zeros(n) == [i \in 1 .. n |-> 0]
<1>1. Folds(Again(step), base, A, {0})
  BY DEF Folds, Again
<1>2. zeros(k) \in Seq({0}) /\ zeros(k + 1) = Append(zeros(k), 0) /\ zeros(0) = <<>>
  OBVIOUS
<1>3. \A n : Repeat(step, base, n) = FoldUp(Again(step), base, zeros(n))
  BY Zenon DEF Repeat, Again
<1> HIDE DEF zeros
<1>4. FoldUp(Again(step), base, zeros(k)) \in A
  BY <1>1, <1>2, FoldUpType, Zenon
<1>5. FoldUp(Again(step), base, <<>>) = base
  BY <1>1, FoldUpEmpty, Zenon
<1>6. FoldUp(Again(step), base, Append(zeros(k), 0))
        = Again(step)[<<FoldUp(Again(step), base, zeros(k)), 0>>]
  <2>1. Grows(Again(step), base, {0})
    BY <1>1, FoldUpGrows, Zenon
  <2>2. 0 \in {0}
    OBVIOUS
  <2>. QED
    BY <1>2, <2>1, <2>2, Zenon DEF Grows
<1>7. \A x \in A : Again(step)[<<x, 0>>] = step[x]
  BY DEF Again
<1>. QED
  BY <1>2, <1>3, <1>4, <1>5, <1>6, <1>7

\* The powers of a number.
LEMMA PowerSteps ==
  ASSUME NEW b \in Nat, NEW k \in Nat
  PROVE  /\ Power(b, 0) = 1 /\ Power(b, k) \in Nat
         /\ Power(b, k + 1) = b * Power(b, k)
<1> DEFINE f == [n \in Nat |-> b * n]
<1>1. f \in [Nat -> Nat] /\ \A n \in Nat : f[n] = b * n
  OBVIOUS
<1>2. \A n : Power(b, n) = Repeat(f, 1, n)
  BY Zenon DEF Power
<1> HIDE DEF f
<1>3. 1 \in Nat
  OBVIOUS
<1>4. Repeat(f, 1, 0) = 1 /\ Repeat(f, 1, k) \in Nat /\ Repeat(f, 1, k + 1) = f[Repeat(f, 1, k)]
  <2>1. Repeats(f, 1, Nat)
    BY <1>1, <1>3, RepeatGrows, Zenon
  <2>. QED
    BY <2>1, Zenon DEF Repeats
<1>. QED
  BY <1>1, <1>2, <1>4

\* They are positive.
LEMMA PowerPositive ==
  ASSUME NEW b \in Nat \ {0}, NEW k \in Nat
  PROVE  Power(b, k) \in Nat \ {0}
<1> DEFINE S == {n \in Nat : Power(b, n) \in Nat \ {0}}
<1>1. 0 \in S
  BY PowerSteps
<1>2. ASSUME NEW n \in Nat, n \in S PROVE n + 1 \in S
  <2>1. Power(b, n) \in Nat \ {0} /\ Power(b, n + 1) = b * Power(b, n)
    BY <1>2, PowerSteps
  <2>2. \A x, y \in Nat \ {0} : x * y \in Nat \ {0}
    BY SMTT(30)
  <2>. QED
    BY <2>1, <2>2
<1>. HIDE DEF S
<1>3. Nat \subseteq S
  BY <1>1, <1>2, Induction
<1>. QED
  BY <1>3 DEF S

\* A power of a sum.
LEMMA PowerSum ==
  ASSUME NEW b \in Nat, NEW j \in Nat, NEW k \in Nat
  PROVE  Power(b, j + k) = Power(b, j) * Power(b, k)
<1> DEFINE S == {n \in Nat : Power(b, j + n) = Power(b, j) * Power(b, n)}
<1>1. 0 \in S
  BY PowerSteps
<1>2. ASSUME NEW n \in Nat, n \in S PROVE n + 1 \in S
  <2>1. Power(b, j + n) = Power(b, j) * Power(b, n)
    BY <1>2
  <2>2. /\ Power(b, n + 1) = b * Power(b, n) /\ Power(b, n) \in Nat
        /\ Power(b, j + n + 1) = b * Power(b, j + n) /\ Power(b, j) \in Nat
    <3>1. j + n \in Nat
      OBVIOUS
    <3>. QED
      BY <3>1, PowerSteps
  <2>3. \A x, y \in Nat : b * (x * y) = x * (b * y)
    OBVIOUS
  <2>4. j + (n + 1) = j + n + 1
    OBVIOUS
  <2>. QED
    BY <2>1, <2>2, <2>3, <2>4
<1>. HIDE DEF S
<1>3. Nat \subseteq S
  BY <1>1, <1>2, Induction
<1>. QED
  BY <1>3 DEF S

\* A fold of a sequence is that of its end, begun with the fold of the rest.
Chains(step, base, C) ==
  \A s \in Seq(C) : \A t \in Seq(C) :
    FoldUp(step, base, s \o t) = FoldUp(step, FoldUp(step, base, s), t)

LEMMA FoldUpConcat ==
  ASSUME NEW A, NEW C, NEW step, NEW base, Folds(step, base, A, C)
  PROVE  Chains(step, base, C)
<1> SUFFICES ASSUME NEW s \in Seq(C), NEW t \in Seq(C)
             PROVE  FoldUp(step, base, s \o t) = FoldUp(step, FoldUp(step, base, s), t)
  BY Zenon DEF Chains
<1> DEFINE mid == FoldUp(step, base, s)
           S == {n \in Nat : \A u \in Seq(C) : Len(u) = n =>
                   FoldUp(step, base, s \o u) = FoldUp(step, mid, u)}
<1>1. mid \in A /\ Folds(step, mid, A, C)
  BY FoldUpType DEF Folds
<1> HIDE DEF mid
<1>2. 0 \in S
  <2> SUFFICES ASSUME NEW u \in Seq(C), Len(u) = 0
               PROVE  FoldUp(step, base, s \o u) = FoldUp(step, mid, u)
    OBVIOUS
  <2>1. u = <<>> /\ s \o u = s
    OBVIOUS
  <2>2. FoldUp(step, mid, <<>>) = mid
    BY <1>1, FoldUpEmpty, Zenon
  <2>. QED
    BY <2>1, <2>2 DEF mid
<1>3. ASSUME NEW n \in Nat, n \in S PROVE n + 1 \in S
  <2> SUFFICES ASSUME NEW u \in Seq(C), Len(u) = n + 1
               PROVE  FoldUp(step, base, s \o u) = FoldUp(step, mid, u)
    OBVIOUS
  <2> DEFINE v == SubSeq(u, 1, n)
             c == u[n + 1]
  <2>1. v \in Seq(C) /\ c \in C /\ Len(v) = n /\ u = Append(v, c)
    OBVIOUS
  <2>2. s \o u = Append(s \o v, c) /\ s \o v \in Seq(C)
    <3> HIDE DEF v, c
    <3>. QED
      BY <2>1, SMTT(30)
  <2> HIDE DEF v, c
  <2>3. FoldUp(step, base, s \o v) = FoldUp(step, mid, v)
    BY <1>3, <2>1
  <2>4. FoldUp(step, base, Append(s \o v, c)) = step[<<FoldUp(step, base, s \o v), c>>]
    <3>1. Grows(step, base, C)
      BY FoldUpGrows, Zenon
    <3>. QED
      BY <2>1, <2>2, <3>1, Zenon DEF Grows
  <2>5. FoldUp(step, mid, Append(v, c)) = step[<<FoldUp(step, mid, v), c>>]
    <3>1. Grows(step, mid, C)
      BY <1>1, FoldUpGrows, Zenon
    <3>. QED
      BY <2>1, <3>1, Zenon DEF Grows
  <2>. QED
    BY <2>1, <2>2, <2>3, <2>4, <2>5, Zenon
<1>. HIDE DEF S
<1>4. Nat \subseteq S
  BY <1>2, <1>3, Induction
<1>. QED
  BY <1>4 DEF S, mid
=============================================================================

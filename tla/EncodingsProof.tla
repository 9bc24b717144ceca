---------------------------- MODULE EncodingsProof ----------------------------
(***************************************************************************)
(* That every screen shows the value it stands for and every signature is  *)
(* in full width, for all sizes and values that the constants may have.    *)
(***************************************************************************)
EXTENDS EncodingsProps, FoldingProof, SequenceTheorems

-----------------------------------------------------------------------------
(* The smallest and the largest of a set, and parts of texts *)

LEMMA MinIs ==
  ASSUME NEW T, T \subseteq Int, NEW m \in T, \A n \in T : m <= n
  PROVE  Min(T) = m
<1>1. \A x \in T : (\A y \in T : x =< y) => x = m
  OBVIOUS
<1>. QED
  BY <1>1 DEF Min

\* A set of naturals below a bound has a largest element.
LEMMA MaxIs ==
  ASSUME NEW T, T # {}, NEW b \in Nat, T \subseteq 0 .. b
  PROVE  Max(T) \in T /\ \A n \in T : n <= Max(T)
<1> DEFINE U == {b - n : n \in T}
<1>1. U \subseteq Nat /\ U # {}
  OBVIOUS
<1>2. PICK u \in U : \A v \in U : u <= v
  <2> HIDE DEF U
  <2>. QED
    BY <1>1, LeastElement
<1>3. PICK n \in T : u = b - n
  OBVIOUS
<1>4. \A m \in T : m <= n
  <2>1. \A m \in T : b - m \in U
    OBVIOUS
  <2> HIDE DEF U
  <2>. QED
    BY <1>2, <1>3, <2>1
<1>5. \E x \in T : \A y \in T : x >= y
  BY <1>4
<1>. QED
  BY <1>5 DEF Max

LEMMA SeqOfFunction ==
  ASSUME NEW C, NEW n \in Nat, NEW f \in [1 .. n -> C]
  PROVE  f \in Seq(C) /\ Len(f) = n /\ DOMAIN f = 1 .. n
<1>1. f \in Seq(C)
  BY SeqDef
<1>2. DOMAIN f = 1 .. Len(f) /\ Len(f) \in Nat
  BY <1>1, LenProperties
<1>. QED
  BY <1>1, <1>2

\* A part of a sequence, given by its elements.
LEMMA Part ==
  ASSUME NEW C, NEW u \in Seq(C), NEW t \in Seq(C), NEW a \in Nat, a + Len(t) <= Len(u),
         \A i \in 1 .. Len(t) : u[a + i] = t[i]
  PROVE  SubSeq(u, a + 1, a + Len(t)) = t
<1> DEFINE v == SubSeq(u, a + 1, a + Len(t))
<1>1. Len(t) \in Nat /\ Len(u) \in Nat
  BY LenProperties
<1>2. \A i \in a + 1 .. a + Len(t) : u[i] \in C
  BY <1>1, ElementOfSeq
<1>3. a + 1 \in Int /\ a + Len(t) \in Int
  BY <1>1
<1>4. /\ v \in Seq(C) /\ Len(v) = (IF a + 1 <= a + Len(t) THEN a + Len(t) - (a + 1) + 1 ELSE 0)
      /\ \A i \in 1 .. a + Len(t) - (a + 1) + 1 : v[i] = u[a + 1 + i - 1]
  BY <1>2, <1>3, SubSeqProperties
<1> HIDE DEF v
<1>5. Len(v) = Len(t) /\ \A i \in 1 .. Len(t) : v[i] = u[a + i]
  <2>1. a + Len(t) - (a + 1) + 1 = Len(t) /\ (a + 1 <= a + Len(t) <=> Len(t) # 0)
    BY <1>1
  <2>2. \A i \in 1 .. Len(t) : a + 1 + i - 1 = a + i
    BY <1>1
  <2>. QED
    BY <1>1, <1>4, <2>1, <2>2
<1>6. v = t
  BY <1>4, <1>5, SeqEqual
<1>. QED
  BY <1>6 DEF v

\* Sequences are put together in any order: as one formula for the provers.
Regrouped(s, t, r) == (s \o t) \o r = s \o (t \o r)

LEMMA Regroups ==
  ASSUME NEW C, NEW s \in Seq(C), NEW t \in Seq(C), NEW r \in Seq(C)
  PROVE  Regrouped(s, t, r)
BY ConcatAssociative DEF Regrouped

\* Where a character is that does not come earlier.
LEMMA FirstIs ==
  ASSUME NEW C, NEW s \in Seq(C), NEW c, NEW p \in 1 .. Len(s) + 1,
         p <= Len(s) => s[p] = c, \A i \in 1 .. p - 1 : s[i] # c
  PROVE  FirstOf(c, s) = p
<1> DEFINE T == {i \in DOMAIN s : s[i] = c} \cup {Len(s) + 1}
<1>1. T \subseteq Int /\ p \in T
  OBVIOUS
<1>2. \A n \in T : p <= n
  OBVIOUS
<1> HIDE DEF T
<1>3. Min(T) = p
  BY <1>1, <1>2, MinIs
<1>. QED
  BY <1>3 DEF FirstOf, T

\* A text is divided at the first character of a kind.
LEMMA Divided ==
  ASSUME NEW C, NEW s \in Seq(C), NEW t \in Seq(C), NEW c \in C, \A i \in 1 .. Len(s) : s[i] # c
  PROVE  /\ Before(c, s \o <<c>> \o t) = s /\ After(c, s \o <<c>> \o t) = t
         /\ Before(c, s) = s /\ After(c, s) = <<>>
<1> DEFINE u == s \o <<c>> \o t
<1>1. /\ u \in Seq(C) /\ Len(u) = Len(s) + 1 + Len(t)
      /\ \A i \in 1 .. Len(s) : u[i] = s[i]
      /\ u[Len(s) + 1] = c
      /\ \A i \in 1 .. Len(t) : u[Len(s) + 1 + i] = t[i]
      /\ Len(s) \in Nat /\ Len(t) \in Nat
  OBVIOUS
<1> HIDE DEF u
<1>2. FirstOf(c, u) = Len(s) + 1
  <2>1. Len(s) + 1 \in 1 .. Len(u) + 1 /\ Len(s) + 1 - 1 = Len(s)
    BY <1>1
  <2>2. u \in Seq(C) /\ u[Len(s) + 1] = c /\ \A i \in 1 .. Len(s) + 1 - 1 : u[i] # c
    BY <1>1, <2>1
  <2>. QED
    BY <2>1, <2>2, FirstIs
<1>3. FirstOf(c, s) = Len(s) + 1
  <2>1. Len(s) + 1 \in 1 .. Len(s) + 1 /\ Len(s) + 1 - 1 = Len(s) /\ ~(Len(s) + 1 <= Len(s))
    BY <1>1
  <2>. QED
    BY <2>1, FirstIs
<1>4. SubSeq(u, 1, Len(s)) = s
  <2>1. SubSeq(u, 0 + 1, 0 + Len(s)) = s
    BY <1>1, Part
  <2>. QED
    BY <1>1, <2>1
<1>7. SubSeq(u, Len(s) + 2, Len(u)) = t
  <2>1. SubSeq(u, Len(s) + 1 + 1, Len(s) + 1 + Len(t)) = t
    BY <1>1, Part
  <2>. QED
    BY <1>1, <2>1
<1>5. SubSeq(s, 1, Len(s)) = s /\ SubSeq(s, Len(s) + 2, Len(s)) = <<>>
  OBVIOUS
<1>6. Len(s) + 1 - 1 = Len(s) /\ Len(s) + 1 + 1 = Len(s) + 2
  OBVIOUS
<1>. QED
  BY <1>2, <1>3, <1>4, <1>5, <1>6, <1>7, SMTT(30) DEF Before, After, u

-----------------------------------------------------------------------------
(* The buffer of the screen *)

LEMMA Sizes ==
  /\ MAX_INT_DIGITS \in Nat /\ DECIMAL_DIGITS \in Nat \ {0} /\ DECIMAL_DIGITS < MAX_INT_DIGITS
  /\ VALUE_WIDTH \in Nat /\ DISPLAY \in Nat /\ 3 <= DISPLAY /\ 2 * DISPLAY <= VALUE_WIDTH
  /\ BECH \in Nat /\ BECH <= VALUE_WIDTH
  /\ CODE_HASH \in Nat \ {0} /\ HASH \in Nat \ {0} /\ ARG \in Nat /\ HASH <= ARG
  /\ SCALAR \in Nat \ {0} /\ MAX_BIP32_PATH \in Nat /\ MaxSteps \in Nat
  /\ UNIT \in Nat \ {0} /\ HARDENED \in Nat \ {0}
BY SizesAssumption

Buffer == [1 .. VALUE_WIDTH + 1 -> Byte]
Chars == 1 .. 255

\* A text has no NUL.
LEMMA CharsType ==
  ASSUME NEW text \in Seq(Chars)
  PROVE  /\ text \in Seq(Byte) /\ Len(text) \in Nat /\ DOMAIN text = 1 .. Len(text)
         /\ \A i \in 1 .. Len(text) : text[i] \in 1 .. 255 /\ text[i] # 0
<1>1. Chars \subseteq Byte
  BY DEF Chars, Byte
<1>2. text \in Seq(Byte)
  BY <1>1, SeqMonotonic
<1>3. /\ Len(text) \in Nat /\ DOMAIN text = 1 .. Len(text)
      /\ text \in [1 .. Len(text) -> Chars]
  BY LenProperties
<1>4. \A i \in 1 .. Len(text) : text[i] \in Chars
  BY <1>3, Zenon
<1>5. \A i \in Chars : i \in 1 .. 255 /\ i # 0
  BY DEF Chars
<1>. QED
  BY <1>2, <1>3, <1>4, <1>5, Zenon

LEMMA PutType ==
  ASSUME NEW buf \in Buffer, NEW text \in Seq(Byte)
  PROVE  Put(buf, text) \in Buffer
<1>1. \A i \in DOMAIN text : text[i] \in Byte
  OBVIOUS
<1>2. 0 \in Byte
  BY DEF Byte
<1>. QED
  BY <1>1, <1>2 DEF Put, Buffer

\* What the screen shows of a buffer with a NUL after a text.
LEMMA TextIs ==
  ASSUME NEW buf \in Buffer, NEW text \in Seq(Chars), Len(text) <= VALUE_WIDTH,
         \A i \in 1 .. Len(text) : buf[i] = text[i], buf[Len(text) + 1] = 0
  PROVE  Text(buf) = text
<1> DEFINE T == {i \in DOMAIN buf : buf[i] = 0} \cup {Len(buf) + 1}
<1>1. VALUE_WIDTH \in Nat
  BY Sizes
<1>2. buf \in Seq(Byte) /\ Len(buf) = VALUE_WIDTH + 1 /\ DOMAIN buf = 1 .. VALUE_WIDTH + 1
  <2> DEFINE n == VALUE_WIDTH + 1
  <2>1. n \in Nat
    BY <1>1
  <2>2. buf \in [1 .. n -> Byte]
    BY DEF Buffer
  <2> HIDE DEF n
  <2>3. buf \in Seq(Byte) /\ Len(buf) = n /\ DOMAIN buf = 1 .. n
    BY <2>1, <2>2, SeqOfFunction
  <2>. QED
    BY <1>1, <2>3, Zenon DEF n
<1>3. Len(text) \in Nat /\ \A i \in 1 .. Len(text) : text[i] # 0
  BY CharsType
<1>4. T \subseteq Int /\ Len(text) + 1 \in T
  BY <1>1, <1>2, <1>3
<1>5. \A n \in T : Len(text) + 1 <= n
  BY <1>1, <1>2, <1>3
<1>6. Min(T) = Len(text) + 1
  <2> HIDE DEF T
  <2>. QED
    BY <1>4, <1>5, MinIs
<1>7. SubSeq(buf, 1, Len(text)) = text
  <2>1. text \in Seq(Byte)
    BY CharsType
  <2>2. SubSeq(buf, 0 + 1, 0 + Len(text)) = text
    BY <1>1, <1>2, <1>3, <2>1, Part
  <2>. QED
    BY <1>3, <2>2
<1>8. Len(text) + 1 - 1 = Len(text)
  BY <1>3
<1>9. Text(buf) = SubSeq(buf, 1, Min(T) - 1)
  BY Zenon DEF Text
<1> HIDE DEF T
<1>. QED
  BY <1>6, <1>7, <1>8, <1>9

\* A text that fits is the one that is shown.
LEMMA TextPut ==
  ASSUME NEW buf \in Buffer, NEW text \in Seq(Chars), Len(text) <= VALUE_WIDTH
  PROVE  /\ Text(Put(buf, text)) = text
         /\ \E i \in DOMAIN Put(buf, text) : Put(buf, text)[i] = 0
<1>1. VALUE_WIDTH \in Nat /\ Len(text) \in Nat
  BY Sizes
<1>2. text \in Seq(Byte)
  BY CharsType
<1>3. Put(buf, text) \in Buffer
  BY <1>2, PutType
<1>4. \A i \in 1 .. Len(text) : Put(buf, text)[i] = text[i]
  BY <1>1 DEF Put, Buffer
<1>5. Put(buf, text)[Len(text) + 1] = 0 /\ Len(text) + 1 \in DOMAIN Put(buf, text)
  BY <1>1 DEF Put, Buffer
<1>. QED
  BY <1>3, <1>4, <1>5, TextIs

\* One that does not leaves no NUL.
LEMMA PutSpills ==
  ASSUME NEW buf \in Buffer, NEW text \in Seq(Chars), Len(text) > VALUE_WIDTH
  PROVE  \A i \in DOMAIN Put(buf, text) : Put(buf, text)[i] # 0
<1>1. VALUE_WIDTH \in Nat /\ Len(text) \in Nat /\ \A i \in 1 .. Len(text) : text[i] # 0
  BY Sizes, CharsType
<1>2. DOMAIN Put(buf, text) = 1 .. VALUE_WIDTH + 1
  BY DEF Put, Buffer
<1>3. ASSUME NEW i \in 1 .. VALUE_WIDTH + 1 PROVE Put(buf, text)[i] # 0
  <2>1. i \in 1 .. Len(text) /\ DOMAIN text = 1 .. Len(text)
    BY <1>1
  <2>2. Put(buf, text)[i] = text[i]
    BY <2>1 DEF Put, Buffer
  <2>. QED
    BY <1>1, <2>1, <2>2
<1>. QED
  BY <1>2, <1>3

-----------------------------------------------------------------------------
(* Numbers *)

LEMMA RestSteps ==
  ASSUME NEW n \in Nat, NEW k \in Nat
  PROVE  Rest(n, 0) = n /\ Rest(n, k) \in Nat /\ Rest(n, k + 1) = Rest(n, k) \div 10
<1>1. Tenth \in [Nat -> Nat] /\ \A m \in Nat : Tenth[m] = m \div 10
  BY DEF Tenth
<1>2. Repeats(Tenth, n, Nat)
  BY <1>1, RepeatGrows, Zenon
<1>3. Rest(n, 0) = n /\ Rest(n, k) \in Nat /\ Rest(n, k + 1) = Tenth[Rest(n, k)]
  BY <1>2, Zenon DEF Repeats, Rest
<1>. QED
  BY <1>1, <1>3

\* What is left after k divisions is the quotient by 10 to the power of k.
LEMMA RestBounds ==
  ASSUME NEW n \in Nat, NEW k \in Nat
  PROVE  Rest(n, k) * Power(10, k) <= n /\ n < (Rest(n, k) + 1) * Power(10, k)
<1> DEFINE S == {j \in Nat : Rest(n, j) * Power(10, j) <= n /\ n < (Rest(n, j) + 1) * Power(10, j)}
<1>1. 0 \in S
  BY RestSteps, PowerSteps
<1>2. ASSUME NEW j \in Nat, j \in S PROVE j + 1 \in S
  <2> DEFINE r == Rest(n, j)
             q == Rest(n, j + 1)
             p == Power(10, j)
  <2>1. r \in Nat /\ q \in Nat /\ p \in Nat /\ q = r \div 10 /\ Power(10, j + 1) = 10 * p
    <3>1. r \in Nat /\ q = r \div 10
      BY RestSteps
    <3>2. p \in Nat /\ Power(10, j + 1) = 10 * p
      BY PowerSteps
    <3> HIDE DEF r, q, p
    <3>. QED
      BY <3>1, <3>2
  <2>2. r * p <= n /\ n < (r + 1) * p
    BY <1>2
  <2> HIDE DEF r, q, p
  <2>3. 10 * q <= r /\ r + 1 <= 10 * (q + 1)
    BY <2>1
  <2>4. (10 * q) * p <= r * p /\ (r + 1) * p <= (10 * (q + 1)) * p
    <3>1. \A a, b, c \in Nat : a <= b => a * c <= b * c
      BY SMTT(30)
    <3>2. 10 * q \in Nat /\ r + 1 \in Nat /\ 10 * (q + 1) \in Nat
      BY <2>1
    <3>. QED
      BY <2>1, <2>3, <3>1, <3>2, Zenon
  <2>5. (10 * q) * p = q * (10 * p) /\ (10 * (q + 1)) * p = (q + 1) * (10 * p)
    BY <2>1
  <2>6. (q * (10 * p)) \in Nat /\ ((q + 1) * (10 * p)) \in Nat /\ (r * p) \in Nat /\ ((r + 1) * p) \in Nat
    BY <2>1
  <2>7. q * (10 * p) <= n /\ n < (q + 1) * (10 * p)
    BY <2>2, <2>4, <2>5, <2>6
  <2>. QED
    BY <2>1, <2>7 DEF q
<1>. HIDE DEF S
<1>3. Nat \subseteq S
  BY <1>1, <1>2, Induction
<1>. QED
  BY <1>3 DEF S

\* Nothing is left of a number with no more digits than that.
LEMMA RestZero ==
  ASSUME NEW n \in Nat, NEW k \in Nat, n < Power(10, k)
  PROVE  Rest(n, k) = 0
<1> DEFINE r == Rest(n, k)
           p == Power(10, k)
<1>1. r \in Nat /\ p \in Nat /\ r * p <= n /\ n < p
  BY RestSteps, PowerSteps, RestBounds
<1> HIDE DEF r, p
<1>2. \A a \in Nat \ {0} : a * p >= p
  BY <1>1
<1>3. (r * p) \in Nat
  BY <1>1
<1>4. r = 0
  BY <1>1, <1>2, <1>3
<1>. QED
  BY <1>4 DEF r

LEMMA RestSum ==
  ASSUME NEW n \in Nat, NEW j \in Nat, NEW k \in Nat
  PROVE  Rest(Rest(n, j), k) = Rest(n, j + k)
<1> DEFINE S == {i \in Nat : Rest(Rest(n, j), i) = Rest(n, j + i)}
<1>0. Rest(n, j) \in Nat
  BY RestSteps
<1>1. 0 \in S
  <2>1. Rest(Rest(n, j), 0) = Rest(n, j)
    BY <1>0, RestSteps
  <2>. QED
    BY <2>1
<1>2. ASSUME NEW i \in Nat, i \in S PROVE i + 1 \in S
  <2>1. Rest(Rest(n, j), i) = Rest(n, j + i) /\ j + i \in Nat /\ j + (i + 1) = j + i + 1
    BY <1>2
  <2>2. Rest(Rest(n, j), i + 1) = Rest(Rest(n, j), i) \div 10
    BY <1>0, RestSteps
  <2>3. Rest(n, j + i + 1) = Rest(n, j + i) \div 10
    BY <2>1, RestSteps
  <2>. QED
    BY <2>1, <2>2, <2>3
<1>. HIDE DEF S
<1>3. Nat \subseteq S
  BY <1>1, <1>2, Induction
<1>. QED
  BY <1>3 DEF S

Digit == 48 .. 57

LEMMA DigitsType ==
  ASSUME NEW n \in Nat
  PROVE  /\ Digits(n) \in Seq(Digit) /\ Len(Digits(n)) = MAX_INT_DIGITS
         /\ DOMAIN Digits(n) = 1 .. MAX_INT_DIGITS
         /\ \A k \in 1 .. MAX_INT_DIGITS :
              /\ Digits(n)[k] \in Digit
              /\ Digits(n)[k] = 48 + (Rest(n, MAX_INT_DIGITS - k) % 10)
<1>1. MAX_INT_DIGITS \in Nat
  BY Sizes
<1>2. \A k \in 1 .. MAX_INT_DIGITS : 48 + (Rest(n, MAX_INT_DIGITS - k) % 10) \in Digit
  <2> SUFFICES ASSUME NEW k \in 1 .. MAX_INT_DIGITS
               PROVE  48 + (Rest(n, MAX_INT_DIGITS - k) % 10) \in Digit
    OBVIOUS
  <2>1. MAX_INT_DIGITS - k \in Nat
    BY <1>1
  <2>2. Rest(n, MAX_INT_DIGITS - k) \in Nat
    BY <2>1, RestSteps
  <2>. QED
    BY <2>2 DEF Digit
<1>3. /\ Digits(n) \in [1 .. MAX_INT_DIGITS -> Digit]
      /\ \A k \in 1 .. MAX_INT_DIGITS :
           Digits(n)[k] = 48 + (Rest(n, MAX_INT_DIGITS - k) % 10)
  BY <1>2, Zenon DEF Digits
<1>4. Digits(n) \in Seq(Digit) /\ Len(Digits(n)) = MAX_INT_DIGITS
  BY <1>1, <1>3, SeqOfFunction
<1>. QED
  BY <1>2, <1>3, <1>4, Zenon

LEMMA DecimalSteps ==
  /\ DecimalOf(<<>>) = 0
  /\ \A s \in Seq(Digit) : DecimalOf(s) \in Nat
  /\ \A s \in Seq(Digit) : \A c \in Digit : DecimalOf(Append(s, c)) = DecimalOf(s) * 10 + (c - 48)
<1>1. Folds(DecimalStep, 0, Nat, Digit)
  BY DEF Folds, DecimalStep, Digit
<1>2. Grows(DecimalStep, 0, Digit)
  BY <1>1, FoldUpGrows, Zenon
<1>3. \A s \in Seq(Digit) : DecimalOf(s) \in Nat
  BY <1>1, FoldUpType, Zenon DEF DecimalOf
<1>4. DecimalOf(<<>>) = 0
  BY <1>1, FoldUpEmpty, Zenon DEF DecimalOf
<1>5. \A x \in Nat, c \in Digit : DecimalStep[<<x, c>>] = x * 10 + (c - 48)
  BY DEF DecimalStep, Digit
<1>6. ASSUME NEW s \in Seq(Digit), NEW c \in Digit
      PROVE  DecimalOf(Append(s, c)) = DecimalOf(s) * 10 + (c - 48)
  <2>1. DecimalOf(Append(s, c)) = DecimalStep[<<DecimalOf(s), c>>]
    BY <1>2, Zenon DEF Grows, DecimalOf
  <2>. QED
    BY <1>3, <1>5, <2>1, Zenon
<1>. QED
  BY <1>3, <1>4, <1>6, Zenon

\* One element more of a part.
LEMMA PartGrows ==
  ASSUME NEW C, NEW s \in Seq(C), NEW m \in Nat \ {0}, NEW n \in Nat, m <= n + 1, n + 1 <= Len(s)
  PROVE  /\ SubSeq(s, m, n) \in Seq(C) /\ s[n + 1] \in C
         /\ SubSeq(s, m, n + 1) = Append(SubSeq(s, m, n), s[n + 1])
<1>1. Len(s) \in Nat /\ n + 1 \in 1 .. Len(s)
  OBVIOUS
<1>2. s[n + 1] \in C
  BY <1>1, ElementOfSeq
<1>3. SubSeq(s, m, n) \in Seq(C)
  <2>1. \A i \in m .. n : s[i] \in C
    BY <1>1, ElementOfSeq
  <2>. QED
    BY <2>1, SubSeqProperties
<1>4. SubSeq(s, m, n + 1) = SubSeq(s, m, n) \o <<s[n + 1]>>
  <2>1. m \in 1 .. Len(s) /\ n + 1 \in m .. Len(s) /\ n + 1 - 1 = n
    BY <1>1
  <2>2. SubSeq(s, m, n + 1) = SubSeq(s, m, n + 1 - 1) \o <<s[n + 1]>>
    BY <2>1, SubSeqRecursiveSecond
  <2>. QED
    BY <2>1, <2>2
<1>5. Append(SubSeq(s, m, n), s[n + 1]) = SubSeq(s, m, n) \o <<s[n + 1]>>
  BY <1>2, <1>3, AppendIsConcat
<1>. QED
  BY <1>2, <1>3, <1>4, <1>5, Zenon

\* A part of the digits of a number reads as what it adds to those before it.
LEMMA DigitsRead ==
  ASSUME NEW n \in Nat, NEW o \in 0 .. MAX_INT_DIGITS, NEW t \in o .. MAX_INT_DIGITS
  PROVE  DecimalOf(SubSeq(Digits(n), o + 1, t))
           = Rest(n, MAX_INT_DIGITS - t) - Rest(n, MAX_INT_DIGITS - o) * Power(10, t - o)
<1> DEFINE M == MAX_INT_DIGITS
           Read(d) == DecimalOf(SubSeq(Digits(n), o + 1, o + d))
           Adds(d) == Rest(n, M - (o + d)) - Rest(n, M - o) * Power(10, d)
           S == {d \in Nat : o + d <= M => Read(d) = Adds(d)}
<1>0. M \in Nat /\ o \in Nat /\ o <= M /\ M - o \in Nat
  BY Sizes
<1>a. Rest(n, M - o) \in Nat
  BY <1>0, RestSteps
<1>1. 0 \in S
  <2>1. SubSeq(Digits(n), o + 1, o + 0) = <<>>
    BY <1>0, SubSeqEmpty
  <2>2. Read(0) = 0
    BY <2>1, DecimalSteps
  <2>3. Adds(0) = 0
    <3>1. Power(10, 0) = 1 /\ o + 0 = o
      BY <1>0, PowerSteps
    <3>. QED
      BY <1>a, <3>1
  <2>. QED
    BY <2>2, <2>3
<1>2. ASSUME NEW d \in Nat, d \in S PROVE d + 1 \in S
  <2> SUFFICES ASSUME o + d + 1 <= M PROVE Read(d + 1) = Adds(d + 1)
    BY <1>0
  <2> DEFINE s == SubSeq(Digits(n), o + 1, o + d)
             c == Digits(n)[o + d + 1]
             k == M - (o + d + 1)
  <2>1. k \in Nat /\ M - (o + d) = k + 1 /\ o + d + 1 \in 1 .. M /\ o + (d + 1) = o + d + 1
    BY <1>0
  <2>2. Digits(n) \in Seq(Digit) /\ Len(Digits(n)) = M /\ c \in Digit /\ c = 48 + (Rest(n, k) % 10)
    BY <2>1, DigitsType
  <2>3. s \in Seq(Digit) /\ SubSeq(Digits(n), o + 1, o + d + 1) = Append(s, c)
    <3>1. o + 1 \in Nat \ {0} /\ o + d \in Nat /\ o + 1 <= o + d + 1 /\ o + d + 1 <= Len(Digits(n))
      BY <1>0, <2>1, <2>2
    <3>. QED
      BY <2>2, <3>1, PartGrows
  <2> HIDE DEF s
  <2>4. Read(d + 1) = DecimalOf(s) * 10 + (c - 48)
    <3>1. Read(d + 1) = DecimalOf(Append(s, c))
      BY <2>1, <2>3, Zenon
    <3> HIDE DEF c
    <3>. QED
      BY <2>2, <2>3, <3>1, DecimalSteps, Zenon
  <2>5. DecimalOf(s) = Rest(n, k + 1) - Rest(n, M - o) * Power(10, d)
    BY <1>0, <1>2, <2>1 DEF s
  <2>6. Rest(n, k) \in Nat /\ Rest(n, k + 1) = Rest(n, k) \div 10
    BY <2>1, RestSteps
  <2>7. Power(10, d) \in Nat /\ Power(10, d + 1) = 10 * Power(10, d)
    BY PowerSteps
  <2>8. Adds(d + 1) = Rest(n, k) - Rest(n, M - o) * (10 * Power(10, d))
    BY <2>1, <2>7
  <2> HIDE DEF c, k
  <2>9. ASSUME NEW a \in Nat, NEW b \in Nat, NEW y \in Nat
        PROVE  ((y \div 10) - a * b) * 10 + ((48 + (y % 10)) - 48) = y - a * (10 * b)
    <3>1. a * (10 * b) = 10 * (a * b) /\ (a * b) \in Nat
      OBVIOUS
    <3>2. y = 10 * (y \div 10) + (y % 10) /\ (y \div 10) \in Nat /\ (y % 10) \in Nat
      OBVIOUS
    <3>. QED
      BY <3>1, <3>2
  <2>10. DecimalOf(s) * 10 + (c - 48) = Rest(n, k) - Rest(n, M - o) * (10 * Power(10, d))
    <3> DEFINE a == Rest(n, M - o)
               b == Power(10, d)
               y == Rest(n, k)
    <3>1. a \in Nat /\ b \in Nat /\ y \in Nat
      BY <1>a, <2>6, <2>7
    <3>2. DecimalOf(s) = (y \div 10) - a * b /\ c = 48 + (y % 10)
      BY <2>2, <2>5, <2>6
    <3>3. ((y \div 10) - a * b) * 10 + ((48 + (y % 10)) - 48) = y - a * (10 * b)
      <4> HIDE DEF a, b, y
      <4>. QED
        BY <2>9, <3>1
    <3>. QED
      BY <3>2, <3>3
  <2>. QED
    BY <2>4, <2>8, <2>10
<1>. HIDE DEF S
<1>3. Nat \subseteq S
  BY <1>1, <1>2, Induction
<1>4. t - o \in Nat /\ o + (t - o) = t /\ t <= M
  BY <1>0
<1>. QED
  BY <1>3, <1>4 DEF S

LEMMA ConvertedNumber ==
  ASSUME NEW n \in Amount
  PROVE  /\ n \in Nat /\ convert_number(n) \in 0 .. MAX_INT_DIGITS - 1
         /\ Rest(n, MAX_INT_DIGITS - convert_number(n)) = 0
         /\ \A o \in 0 .. MAX_INT_DIGITS - 1 :
              Rest(n, MAX_INT_DIGITS - o) = 0 => o <= convert_number(n)
<1> DEFINE M == MAX_INT_DIGITS
           T == {0} \cup {o \in 0 .. M - 1 : Rest(n, M - o) = 0}
<1>1. M \in Nat \ {0} /\ n \in Nat /\ n < Power(10, M)
  <2>1. M \in Nat \ {0}
    BY Sizes
  <2>2. Power(10, M) \in Nat
    BY <2>1, PowerSteps
  <2>. QED
    BY <2>1, <2>2 DEF Amount
<1>2. Rest(n, M) = 0
  BY <1>1, RestZero
<1>3. T # {} /\ T \subseteq 0 .. M - 1 /\ M - 1 \in Nat
  BY <1>1
<1>4. \A o \in T : Rest(n, M - o) = 0
  BY <1>1, <1>2
<1>5. Max(T) \in T /\ \A o \in T : o <= Max(T)
  <2> HIDE DEF T
  <2>. QED
    BY <1>3, MaxIs
<1>6. convert_number(n) = Max(T)
  BY Zenon DEF convert_number
<1>7. \A o \in 0 .. M - 1 : Rest(n, M - o) = 0 => o \in T
  OBVIOUS
<1> HIDE DEF T
<1>. QED
  BY <1>1, <1>3, <1>4, <1>5, <1>6, <1>7

\* A number reads as itself, without the leading zeroes.
LEMMA NumberRead ==
  ASSUME NEW n \in Amount
  PROVE  /\ number_to_string(n) \in Seq(Digit)
         /\ Len(number_to_string(n)) \in 1 .. MAX_INT_DIGITS
         /\ DecimalOf(number_to_string(n)) = n
<1> DEFINE M == MAX_INT_DIGITS
           o == convert_number(n)
           s == number_to_string(n)
<1>1. n \in Nat /\ o \in 0 .. M - 1 /\ Rest(n, M - o) = 0
  BY ConvertedNumber
<1>2. s = SubSeq(Digits(n), o + 1, M)
  BY DEF number_to_string
<1>3. M \in Nat
  BY Sizes
<1>4. Digits(n) \in Seq(Digit) /\ Len(Digits(n)) = M
  BY <1>1, DigitsType
<1> HIDE DEF o, s
<1>5. s \in Seq(Digit) /\ Len(s) = M - o
  <2>1. \A i \in o + 1 .. M : Digits(n)[i] \in Digit
    BY <1>1, <1>3, DigitsType
  <2>2. o + 1 \in Int /\ M \in Int /\ o + 1 <= M /\ M - (o + 1) + 1 = M - o
    BY <1>1, <1>3
  <2>3. SubSeq(Digits(n), o + 1, M) \in Seq(Digit)
    BY <2>1, <2>2, SubSeqProperties
  <2>4. Len(SubSeq(Digits(n), o + 1, M)) = (IF o + 1 <= M THEN M - (o + 1) + 1 ELSE 0)
    BY <2>1, <2>2, SubSeqProperties
  <2>. QED
    BY <1>2, <2>2, <2>3, <2>4
<1>6. DecimalOf(s) = n
  <2>1. o \in 0 .. M /\ M \in o .. M
    BY <1>1, <1>3
  <2>2. DecimalOf(s) = Rest(n, M - M) - Rest(n, M - o) * Power(10, M - o)
    BY <1>1, <1>2, <2>1, DigitsRead
  <2>3. Power(10, M - o) \in Nat
    <3>1. M - o \in Nat
      BY <1>1, <1>3
    <3>. QED
      BY <3>1, PowerSteps
  <2>4. M - M = 0 /\ Rest(n, 0) = n
    BY <1>1, <1>3, RestSteps
  <2>. QED
    BY <1>1, <2>2, <2>3, <2>4
<1>. QED
  BY <1>1, <1>3, <1>5, <1>6 DEF s

\* A small number is short.
LEMMA NumberWidth ==
  ASSUME NEW n \in Amount, NEW w \in 1 .. MAX_INT_DIGITS, n < Power(10, w)
  PROVE  Len(number_to_string(n)) <= w
<1> DEFINE M == MAX_INT_DIGITS
           o == convert_number(n)
<1>1. n \in Nat /\ o \in 0 .. M - 1 /\ (Rest(n, M - (M - w)) = 0 => M - w <= o)
  <2>1. M - w \in 0 .. M - 1
    BY Sizes
  <2>. QED
    BY <2>1, ConvertedNumber
<1>2. M \in Nat
  BY Sizes
<1>3. Rest(n, w) = 0
  BY <1>1, <1>2, RestZero
<1>4. M - (M - w) = w
  BY <1>2
<1>5. M - w <= o
  BY <1>1, <1>3, <1>4
<1>6. number_to_string(n) = SubSeq(Digits(n), o + 1, M)
  BY DEF number_to_string
<1> HIDE DEF o
<1>7. Len(SubSeq(Digits(n), o + 1, M)) = M - o
  <2>1. \A i \in o + 1 .. M : Digits(n)[i] \in Digit
    BY <1>1, <1>2, DigitsType
  <2>2. o + 1 \in Int /\ M \in Int /\ o + 1 <= M /\ M - (o + 1) + 1 = M - o
    BY <1>1, <1>2
  <2>3. Len(SubSeq(Digits(n), o + 1, M)) = (IF o + 1 <= M THEN M - (o + 1) + 1 ELSE 0)
    BY <2>1, <2>2, SubSeqProperties
  <2>. QED
    BY <2>2, <2>3
<1>. QED
  BY <1>1, <1>2, <1>5, <1>6, <1>7

LEMMA QuotientIs ==
  ASSUME NEW n \in Nat, NEW d \in Nat \ {0}, NEW q \in Nat, q * d <= n, n < (q + 1) * d
  PROVE  n \div d = q /\ n % d = n - q * d
<1> DEFINE p == n \div d
           r == n % d
<1>1. n = d * p + r /\ p \in Int /\ r \in 0 .. d - 1
  BY SMTT(30)
<1> HIDE DEF p, r
<1>2. ~(p < q)
  <2> SUFFICES ASSUME p + 1 <= q PROVE FALSE
    BY <1>1
  <2>1. (p + 1) * d <= q * d
    BY <1>1, SMTT(30)
  <2>2. (p + 1) * d = d * p + d
    BY <1>1
  <2>. QED
    BY <1>1, <2>1, <2>2
<1>3. ~(q < p)
  <2> SUFFICES ASSUME q + 1 <= p PROVE FALSE
    BY <1>1
  <2>1. (q + 1) * d <= p * d
    BY <1>1, SMTT(30)
  <2>2. p * d = d * p
    BY <1>1
  <2>. QED
    BY <1>1, <2>1, <2>2
<1>4. p = q
  BY <1>1, <1>2, <1>3
<1>5. d * q = q * d
  OBVIOUS
<1>6. r = n - q * d
  BY <1>1, <1>4, <1>5
<1>. QED
  BY <1>4, <1>6 DEF p, r

\* The part of an amount before the point.
LEMMA WholeIs ==
  ASSUME NEW n \in Nat
  PROVE  /\ CKB_SCALE \in Nat \ {0} /\ n \div CKB_SCALE = Rest(n, DECIMAL_DIGITS)
         /\ n % CKB_SCALE = n - Rest(n, DECIMAL_DIGITS) * CKB_SCALE
<1>1. DECIMAL_DIGITS \in Nat
  BY Sizes
<1>2. CKB_SCALE \in Nat \ {0}
  BY <1>1, PowerPositive DEF CKB_SCALE
<1>3. Rest(n, DECIMAL_DIGITS) \in Nat
  BY <1>1, RestSteps
<1>4. Rest(n, DECIMAL_DIGITS) * CKB_SCALE <= n /\ n < (Rest(n, DECIMAL_DIGITS) + 1) * CKB_SCALE
  BY <1>1, RestBounds DEF CKB_SCALE
<1>. QED
  BY <1>2, <1>3, <1>4, QuotientIs

\* Digits that are zero at the end say that what is left is all of the number.
LEMMA TrailingZeros ==
  ASSUME NEW n \in Nat, NEW t \in 0 .. MAX_INT_DIGITS,
         \A k \in t + 1 .. MAX_INT_DIGITS : Digits(n)[k] = 48
  PROVE  n = Rest(n, MAX_INT_DIGITS - t) * Power(10, MAX_INT_DIGITS - t)
<1> DEFINE M == MAX_INT_DIGITS
           S == {d \in Nat : d <= M - t => n = Rest(n, d) * Power(10, d)}
<1>0. M \in Nat /\ M - t \in Nat
  BY Sizes
<1>1. 0 \in S
  BY RestSteps, PowerSteps
<1>2. ASSUME NEW d \in Nat, d \in S PROVE d + 1 \in S
  <2> SUFFICES ASSUME d + 1 <= M - t PROVE n = Rest(n, d + 1) * Power(10, d + 1)
    OBVIOUS
  <2>1. n = Rest(n, d) * Power(10, d)
    BY <1>0, <1>2
  <2>2. M - d \in t + 1 .. M /\ M - d \in 1 .. M /\ M - (M - d) = d
    BY <1>0
  <2>3. Digits(n)[M - d] = 48 + (Rest(n, d) % 10) /\ Digits(n)[M - d] = 48
    BY <2>2, DigitsType, SMTT(30)
  <2>4. Rest(n, d) \in Nat /\ Rest(n, d + 1) = Rest(n, d) \div 10
    BY RestSteps
  <2>5. Power(10, d) \in Nat /\ Power(10, d + 1) = 10 * Power(10, d)
    BY PowerSteps
  <2> DEFINE r == Rest(n, d)
             q == Rest(n, d + 1)
             p == Power(10, d)
  <2>6. r = 10 * q /\ q \in Nat
    <3>1. r % 10 = 0
      BY <2>3, <2>4
    <3>2. r \in Nat /\ q = r \div 10
      BY <2>4
    <3> HIDE DEF r, q
    <3>. QED
      BY <3>1, <3>2
  <2>7. (10 * q) * p = q * (10 * p)
    <3> HIDE DEF r, q, p
    <3>1. p \in Nat
      BY <2>5 DEF p
    <3>. QED
      BY <2>6, <3>1
  <2>. QED
    BY <2>1, <2>5, <2>6, <2>7
<1>. HIDE DEF S
<1>3. Nat \subseteq S
  BY <1>1, <1>2, Induction
<1>. QED
  BY <1>0, <1>3 DEF S

\* The number before the point.
LEMMA WholeText ==
  ASSUME NEW n \in Amount
  PROVE  /\ n \div CKB_SCALE \in Amount /\ n \in Nat
         /\ number_to_string(n \div CKB_SCALE) \in Seq(Digit)
         /\ Len(number_to_string(n \div CKB_SCALE)) \in 1 .. MAX_INT_DIGITS - DECIMAL_DIGITS
         /\ DecimalOf(number_to_string(n \div CKB_SCALE)) = n \div CKB_SCALE
<1> DEFINE M == MAX_INT_DIGITS
           D == DECIMAL_DIGITS
           w == n \div CKB_SCALE
           p == Power(10, M - D)
           d == Power(10, D)
<1>1. M \in Nat /\ D \in Nat /\ M - D \in 1 .. M /\ M = (M - D) + D
  BY Sizes
<1>2. p \in Nat /\ d \in Nat \ {0} /\ d = CKB_SCALE
  <2>1. p \in Nat
    BY <1>1, PowerSteps
  <2>2. d \in Nat \ {0}
    BY <1>1, PowerPositive
  <2>. QED
    BY <2>1, <2>2 DEF CKB_SCALE
<1>3. Power(10, M) = p * d
  BY <1>1, PowerSum
<1>4. n \in Nat /\ n < Power(10, M)
  BY <1>2, <1>3 DEF Amount
<1>5. w \in Nat /\ w * d <= n
  <2>1. w = Rest(n, D)
    BY <1>4, WholeIs
  <2>. QED
    BY <1>1, <1>4, <2>1, RestSteps, RestBounds
<1> HIDE DEF w, p, d
<1>6. w < p
  <2>1. ~(p <= w)
    <3> SUFFICES ASSUME p <= w PROVE FALSE
      OBVIOUS
    <3>1. p * d <= w * d
      BY <1>2, <1>5, SMTT(30)
    <3>2. (p * d) \in Nat /\ (w * d) \in Nat
      BY <1>2, <1>5
    <3>. QED
      BY <1>3, <1>4, <1>5, <3>1, <3>2
  <2>. QED
    BY <1>2, <1>5, <2>1
<1>7. w <= n
  <2>1. w <= w * d
    BY <1>2, <1>5, SMTT(30)
  <2>2. (w * d) \in Nat
    BY <1>2, <1>5
  <2>. QED
    BY <1>4, <1>5, <2>1, <2>2
<1>8. w \in Amount
  <2>1. (p * d) \in Nat
    BY <1>2
  <2>. QED
    BY <1>3, <1>4, <1>5, <1>7, <2>1 DEF Amount
<1>9. Len(number_to_string(w)) <= M - D
  BY <1>1, <1>6, <1>8, NumberWidth DEF p
<1>10. /\ number_to_string(w) \in Seq(Digit) /\ DecimalOf(number_to_string(w)) = w
       /\ Len(number_to_string(w)) \in 1 .. M
  BY <1>8, NumberRead
<1>11. Len(number_to_string(w)) \in 1 .. M - D
  BY <1>1, <1>9, <1>10
<1>. QED
  BY <1>4, <1>8, <1>10, <1>11 DEF w

AmountChar == Digit \cup {46}

\* What is written after the point is what the amount has after it.
LEMMA FractionText ==
  ASSUME NEW n \in Nat, n % CKB_SCALE # 0
  PROVE  LET end == Max({k \in 1 .. MAX_INT_DIGITS : Digits(n)[k] # 48})
             s == SubSeq(Digits(n), MAX_INT_DIGITS - DECIMAL_DIGITS + 1, end)
         IN /\ s \in Seq(Digit) /\ Len(s) \in 1 .. DECIMAL_DIGITS
            /\ (n \div CKB_SCALE) * CKB_SCALE
                 + DecimalOf(s) * Power(10, DECIMAL_DIGITS - Len(s)) = n
<1> DEFINE M == MAX_INT_DIGITS
           D == DECIMAL_DIGITS
           T == {k \in 1 .. M : Digits(n)[k] # 48}
           end == Max(T)
           s == SubSeq(Digits(n), M - D + 1, end)
           w == Rest(n, D)
<1>1. M \in Nat /\ D \in Nat /\ M - D \in 0 .. M /\ M - (M - D) = D
  BY Sizes
<1>2. CKB_SCALE \in Nat \ {0} /\ n \div CKB_SCALE = w /\ n % CKB_SCALE = n - w * CKB_SCALE
  BY WholeIs
<1>3. w \in Nat
  BY <1>1, RestSteps
<1>4. \E k \in M - D + 1 .. M : Digits(n)[k] # 48
  <2> SUFFICES ASSUME \A k \in M - D + 1 .. M : Digits(n)[k] = 48 PROVE FALSE
    OBVIOUS
  <2>1. n = w * CKB_SCALE
    BY <1>1, TrailingZeros, ZenonT(30) DEF CKB_SCALE
  <2>. QED
    BY <1>2, <2>1
<1>5. PICK k \in M - D + 1 .. M : Digits(n)[k] # 48
  BY <1>4
<1>6. k \in 1 .. M /\ k \in T
  BY <1>1, <1>5
<1>7. end \in T /\ \A i \in T : i <= end
  <2>1. T # {} /\ T \subseteq 0 .. M
    BY <1>6
  <2> HIDE DEF T
  <2>. QED
    BY <1>1, <2>1, MaxIs
<1>8. end \in M - D + 1 .. M
  <2>1. end \in 1 .. M /\ k <= end
    BY <1>6, <1>7
  <2> HIDE DEF end, T
  <2>. QED
    BY <1>1, <2>1
<1>9. \A i \in end + 1 .. M : Digits(n)[i] = 48
  <2>1. \A i \in 1 .. M : Digits(n)[i] # 48 => i <= end
    BY <1>7
  <2> HIDE DEF end, T
  <2>. QED
    BY <1>1, <1>8, <2>1
<1> HIDE DEF T, end, w
<1>10. n = Rest(n, M - end) * Power(10, M - end)
  <2>1. end \in 0 .. M
    BY <1>1, <1>8
  <2>. QED
    BY <1>9, <2>1, TrailingZeros
<1>11. s \in Seq(Digit) /\ Len(s) = end - (M - D)
  <2>1. \A i \in M - D + 1 .. end : Digits(n)[i] \in Digit
    BY <1>1, <1>8, DigitsType
  <2>2. M - D + 1 \in Int /\ end \in Int /\ M - D + 1 <= end /\ end - (M - D + 1) + 1 = end - (M - D)
    BY <1>1, <1>8
  <2>3. SubSeq(Digits(n), M - D + 1, end) \in Seq(Digit)
    BY <2>1, <2>2, SubSeqProperties
  <2>4. Len(SubSeq(Digits(n), M - D + 1, end))
          = (IF M - D + 1 <= end THEN end - (M - D + 1) + 1 ELSE 0)
    BY <2>1, <2>2, SubSeqProperties
  <2>. QED
    BY <2>2, <2>3, <2>4
<1>12. DecimalOf(s) = Rest(n, M - end) - w * Power(10, end - (M - D))
  <2>1. M - D \in 0 .. M /\ end \in M - D .. M
    BY <1>1, <1>8
  <2>2. DecimalOf(s) = Rest(n, M - end) - Rest(n, M - (M - D)) * Power(10, end - (M - D))
    BY <2>1, DigitsRead
  <2>. QED
    BY <1>1, <2>2 DEF w
<1> HIDE DEF s
<1> DEFINE R == Rest(n, M - end)
           a == Power(10, end - (M - D))
           b == Power(10, M - end)
<1>13. R \in Nat /\ a \in Nat /\ b \in Nat /\ CKB_SCALE = a * b
  <2>1. M - end \in Nat /\ end - (M - D) \in Nat /\ D = (end - (M - D)) + (M - end)
    BY <1>1, <1>8
  <2>2. Power(10, D) = Power(10, end - (M - D)) * Power(10, M - end)
    BY <2>1, PowerSum
  <2>3. R \in Nat
    BY <2>1, RestSteps
  <2>4. a \in Nat /\ b \in Nat
    BY <2>1, PowerSteps
  <2>. QED
    BY <2>2, <2>3, <2>4 DEF CKB_SCALE
<1>14. D - Len(s) = M - end
  BY <1>1, <1>8, <1>11
<1>15. w * CKB_SCALE + DecimalOf(s) * b = n
  <2>1. n = R * b /\ DecimalOf(s) = R - w * a
    BY <1>10, <1>12
  <2> HIDE DEF R, a, b
  <2>2. (R - w * a) * b = R * b - w * (a * b)
    <3>1. (R - w * a) * b = R * b - (w * a) * b
      BY <1>3, <1>13
    <3>2. (w * a) * b = w * (a * b)
      BY <1>3, <1>13
    <3>. QED
      BY <3>1, <3>2
  <2>3. (R * b) \in Nat /\ (w * (a * b)) \in Nat
    BY <1>3, <1>13
  <2>4. w * (a * b) + (R * b - w * (a * b)) = R * b
    BY <2>3
  <2>. QED
    BY <1>13, <2>1, <2>2, <2>4
<1>16. Len(s) \in 1 .. D
  BY <1>1, <1>8, <1>11
<1>. QED
  BY <1>2, <1>11, <1>14, <1>15, <1>16 DEF s, end, T

\* An amount reads as itself, and takes one character more than a number.
LEMMA AmountRead ==
  ASSUME NEW n \in Amount
  PROVE  /\ frac_ckb_to_string(n) \in Seq(AmountChar)
         /\ Len(frac_ckb_to_string(n)) \in 1 .. MAX_INT_DIGITS + 1
         /\ AmountOf(frac_ckb_to_string(n)) = n
<1> DEFINE M == MAX_INT_DIGITS
           D == DECIMAL_DIGITS
           w == n \div CKB_SCALE
           s == number_to_string(w)
           t == frac_ckb_to_string(n)
<1>1. M \in Nat /\ D \in Nat /\ D < M
  BY Sizes
<1>2. w \in Amount /\ n \in Nat /\ s \in Seq(Digit) /\ Len(s) \in 1 .. M - D /\ DecimalOf(s) = w
  BY WholeText
<1>3. s \in Seq(AmountChar) /\ \A i \in 1 .. Len(s) : s[i] # 46
  <2>1. \A i \in 1 .. Len(s) : s[i] \in Digit
    BY <1>2, ElementOfSeq
  <2>2. Digit \subseteq AmountChar /\ 46 \notin Digit
    BY DEF AmountChar, Digit
  <2>. QED
    BY <1>2, <2>1, <2>2, SeqMonotonic
<1>4. CKB_SCALE \in Nat \ {0} /\ w \in Nat /\ n % CKB_SCALE = n - w * CKB_SCALE
  <2>1. Rest(n, D) \in Nat
    BY <1>1, <1>2, RestSteps
  <2>. QED
    BY <1>2, <2>1, WholeIs
<1>5. 46 \in AmountChar
  BY DEF AmountChar
<1>6. CASE n % CKB_SCALE = 0
  <2>1. t = s
    <3>1. t = s \o <<>>
      BY <1>6 DEF frac_ckb_to_string
    <3>. QED
      BY <1>2, <3>1, ConcatEmptySeq
  <2>2. Before(46, s) = s /\ After(46, s) = <<>>
    BY <1>3, <1>5, Divided, ZenonT(30)
  <2>3. Len(<<>>) = 0 /\ D - 0 = D
    BY <1>1
  <2>4. AmountOf(s) = w * CKB_SCALE + 0 * Power(10, D)
    BY <1>2, <2>2, <2>3, DecimalSteps DEF AmountOf
  <2>5. n = w * CKB_SCALE /\ (w * CKB_SCALE) \in Nat
    BY <1>2, <1>4, <1>6
  <2>6. Power(10, D) \in Nat
    BY <1>1, PowerSteps
  <2>7. AmountOf(s) = n
    BY <2>4, <2>5, <2>6
  <2>8. Len(s) \in 1 .. M + 1
    BY <1>1, <1>2
  <2>. QED
    BY <1>3, <2>1, <2>7, <2>8
<1>7. CASE n % CKB_SCALE # 0
  <2> DEFINE f == SubSeq(Digits(n), M - D + 1, Max({k \in 1 .. M : Digits(n)[k] # 48}))
  <2>1. f \in Seq(Digit) /\ Len(f) \in 1 .. D
        /\ w * CKB_SCALE + DecimalOf(f) * Power(10, D - Len(f)) = n
    BY <1>2, <1>7, FractionText
  <2>2. t = s \o (<<46>> \o f)
    BY <1>7 DEF frac_ckb_to_string
  <2> HIDE DEF f, s, w, t
  <2>3. f \in Seq(AmountChar) /\ <<46>> \in Seq(AmountChar)
    <3>1. Digit \subseteq AmountChar
      BY DEF AmountChar
    <3>. QED
      BY <1>5, <2>1, <3>1, SeqMonotonic
  <2>4. t = s \o <<46>> \o f
    <3>1. Regrouped(s, <<46>>, f)
      BY <1>3, <2>3, Regroups, Zenon
    <3>. QED
      BY <2>2, <3>1, Zenon DEF Regrouped
  <2>5. Before(46, t) = s /\ After(46, t) = f
    BY <1>3, <1>5, <2>3, <2>4, Divided
  <2>6. AmountOf(t) = n
    BY <1>2, <2>1, <2>5 DEF AmountOf
  <2>7. t \in Seq(AmountChar) /\ Len(t) = Len(s) + 1 + Len(f)
    BY <1>3, <2>3, <2>4
  <2>8. Len(t) \in 1 .. M + 1
    BY <1>1, <1>2, <2>1, <2>7, SMTT(30)
  <2>. QED
    BY <2>6, <2>7, <2>8 DEF t
<1>. QED
  BY <1>6, <1>7

\* Two texts without a space, and " of " between them.
LEMMA PairRead ==
  ASSUME NEW s \in Seq(Chars), NEW t \in Seq(Chars), \A i \in 1 .. Len(s) : s[i] # 32
  PROVE  /\ FirstPart(s \o of_str \o t) = s /\ SecondPart(s \o of_str \o t) = t
         /\ s \o of_str \o t \in Seq(Chars) /\ Len(s \o of_str \o t) = Len(s) + 4 + Len(t)
<1> DEFINE a == <<32>>
           b == <<111, 102>>
           v == b \o a \o t
           u == s \o of_str \o t
<1>1. {32, 102, 111} \subseteq Chars
  BY DEF Chars
<1>3. /\ of_str \in Seq(Chars) /\ Len(of_str) = 4 /\ a \in Seq(Chars) /\ b \in Seq(Chars)
      /\ \A i \in 1 .. Len(b) : b[i] # 32
  BY <1>1 DEF of_str
<1> DEFINE c == b \o a
<1>4. of_str = a \o c /\ c \in Seq(Chars)
  BY <1>1 DEF of_str
<1> HIDE DEF a, b, c
<1>5. s \o of_str = (s \o a) \o c
  <2>1. a \in Seq(Chars) /\ c \in Seq(Chars)
    BY <1>3, <1>4, Zenon
  <2>2. (s \o a) \o c = s \o (a \o c)
    <3>1. Regrouped(s, a, c)
      BY <2>1, Regroups, Zenon
    <3>. QED
      BY <3>1, Zenon DEF Regrouped
  <2>. QED
    BY <1>4, <2>2, Zenon
<1>6. u = (s \o a) \o v
  <2> DEFINE p == s \o a
  <2>1. p \in Seq(Chars)
    BY <1>3, ConcatProperties
  <2> HIDE DEF p
  <2>2. (p \o c) \o t = p \o (c \o t)
    <3>1. Regrouped(p, c, t)
      BY <1>4, <2>1, Regroups, Zenon
    <3>. QED
      BY <3>1, Zenon DEF Regrouped
  <2>. QED
    BY <1>5, <2>2, Zenon DEF c, p, u, v
<1>7. u \in Seq(Chars) /\ Len(u) = Len(s) + 4 + Len(t) /\ v \in Seq(Chars)
  <2>1. s \o of_str \in Seq(Chars) /\ Len(s \o of_str) = Len(s) + Len(of_str)
    BY <1>3, ConcatProperties, Zenon
  <2>2. u \in Seq(Chars) /\ Len(u) = Len(s \o of_str) + Len(t)
    BY <2>1, ConcatProperties, Zenon DEF u
  <2>3. v \in Seq(Chars)
    BY <1>4, ConcatProperties DEF c
  <2>. QED
    BY <1>3, <2>1, <2>2, <2>3
<1> HIDE DEF u, v
<1>9. Before(32, u) = s /\ After(32, u) = v
  <2>1. 32 \in Chars
    BY <1>1
  <2>. QED
    BY <1>6, <1>7, <2>1, Divided, ZenonT(30) DEF a
<1>10. After(32, v) = t
  <2>1. 32 \in Chars
    BY <1>1
  <2>. QED
    BY <1>3, <2>1, Divided DEF v, a
<1>. QED
  BY <1>7, <1>9, <1>10 DEF FirstPart, SecondPart, u

\* u is s and then t.
Joins(u, s, t, C) ==
  /\ u \in Seq(C) /\ Len(u) = Len(s) + Len(t) /\ Len(s) \in Nat /\ Len(t) \in Nat
  /\ \A i \in 1 .. Len(s) : u[i] = s[i]
  /\ \A i \in 1 .. Len(t) : u[Len(s) + i] = t[i]
  /\ SubSeq(u, 1, Len(s)) = s
  /\ SubSeq(u, Len(s) + 1, Len(s) + Len(t)) = t

LEMMA Joined ==
  ASSUME NEW C, NEW s \in Seq(C), NEW t \in Seq(C)
  PROVE  Joins(s \o t, s, t, C)
<1> DEFINE u == s \o t
<1>1. /\ u \in Seq(C) /\ Len(u) = Len(s) + Len(t) /\ Len(s) \in Nat /\ Len(t) \in Nat
      /\ \A i \in 1 .. Len(s) : u[i] = s[i]
      /\ \A i \in 1 .. Len(t) : u[Len(s) + i] = t[i]
  OBVIOUS
<1> HIDE DEF u
<1>2. SubSeq(u, 0 + 1, 0 + Len(s)) = s
  BY <1>1, Part
<1>3. SubSeq(u, Len(s) + 1, Len(s) + Len(t)) = t
  <2>1. Len(s) \in Nat /\ Len(s) + Len(t) <= Len(u)
    BY <1>1
  <2>2. u \in Seq(C) /\ \A i \in 1 .. Len(t) : u[Len(s) + i] = t[i]
    BY <1>1
  <2>. QED
    BY <2>1, <2>2, Part
<1>4. 0 + 1 = 1 /\ 0 + Len(s) = Len(s)
  BY <1>1
<1>. QED
  BY <1>1, <1>2, <1>3, <1>4 DEF u, Joins

\* The text of an output is divided as it was put together.
LEMMA OutputRead ==
  ASSUME NEW s \in Seq(Chars), NEW t \in Seq(Chars), \A i \in 1 .. Len(s) : s[i] # 32
  PROVE  LET u == s \o separator \o t
         IN /\ FirstPart(u) = s /\ u \in Seq(Chars) /\ Len(u) = Len(s) + 8 + Len(t)
            /\ SubSeq(u, Len(s) + 1, Len(s) + Len(separator)) = separator
            /\ SubSeq(u, Len(s) + Len(separator) + 1, Len(u)) = t
<1> DEFINE a == <<32>>
           b == <<67, 75, 66, 32, 45, 62, 32>>
           p == s \o separator
           v == b \o t
           u == p \o t
<1>1. 32 \in Chars /\ a \in Seq(Chars) /\ b \in Seq(Chars)
  BY DEF Chars
<1>2. separator \in Seq(Chars) /\ Len(separator) = 8
  BY DEF separator, Chars
<1>3. separator = a \o b
  BY SMTT(30) DEF separator
<1> HIDE DEF a, b
<1>4. /\ p \in Seq(Chars) /\ Len(p) = Len(s) + Len(separator)
      /\ \A i \in 1 .. Len(s) : p[i] = s[i]
      /\ SubSeq(p, Len(s) + 1, Len(s) + Len(separator)) = separator
      /\ \A i \in 1 .. Len(separator) : p[Len(s) + i] = separator[i]
      /\ Len(s) \in Nat
  <2>1. Joins(p, s, separator, Chars)
    BY <1>2, Joined, Zenon
  <2> HIDE DEF p
  <2>. QED
    BY <2>1, Zenon DEF Joins
<1>5. v \in Seq(Chars)
  BY <1>1, ConcatProperties, Zenon
<1>6. (s \o a) \o b = p
  <2>1. a \in Seq(Chars) /\ b \in Seq(Chars)
    BY <1>1
  <2>2. (s \o a) \o b = s \o (a \o b)
    <3>1. Regrouped(s, a, b)
      BY <2>1, Regroups, Zenon
    <3>. QED
      BY <3>1, Zenon DEF Regrouped
  <2>. QED
    BY <1>3, <2>2
<1>7. u = (s \o a) \o v
  <2> DEFINE q == s \o a
  <2>1. q \in Seq(Chars)
    BY <1>1, ConcatProperties
  <2> HIDE DEF q
  <2>2. b \in Seq(Chars)
    BY <1>1
  <2>3. (q \o b) \o t = q \o (b \o t)
    <3>1. Regrouped(q, b, t)
      BY <2>1, <2>2, Regroups, Zenon
    <3>. QED
      BY <3>1, Zenon DEF Regrouped
  <2>. QED
    BY <1>6, <2>3, Zenon DEF q
<1> HIDE DEF p
<1>8. /\ u \in Seq(Chars) /\ Len(u) = Len(p) + Len(t) /\ Len(t) \in Nat
      /\ \A i \in 1 .. Len(p) : u[i] = p[i]
      /\ SubSeq(u, Len(p) + 1, Len(p) + Len(t)) = t
  <2>1. Joins(u, p, t, Chars)
    BY <1>4, Joined, Zenon
  <2> HIDE DEF u
  <2>. QED
    BY <2>1, Zenon DEF Joins
<1> HIDE DEF u, v
<1>9. Before(32, u) = s
  BY <1>1, <1>5, <1>7, Divided DEF a
<1>10. SubSeq(u, Len(s) + 1, Len(s) + Len(separator)) = separator
  <2>1. \A i \in 1 .. Len(separator) : u[Len(s) + i] = separator[i]
    <3> SUFFICES ASSUME NEW i \in 1 .. Len(separator) PROVE u[Len(s) + i] = separator[i]
      OBVIOUS
    <3>1. Len(s) + i \in 1 .. Len(p)
      BY <1>2, <1>4, SMTT(30)
    <3>. QED
      BY <1>4, <1>8, <3>1
  <2>2. Len(s) + Len(separator) <= Len(u)
    BY <1>2, <1>4, <1>8
  <2>. QED
    BY <1>2, <1>4, <1>8, <2>1, <2>2, Part
<1>11. SubSeq(u, Len(s) + Len(separator) + 1, Len(u)) = t /\ Len(u) = Len(s) + 8 + Len(t)
  BY <1>2, <1>4, <1>8
<1>. QED
  BY <1>8, <1>9, <1>10, <1>11 DEF FirstPart, u, p

-----------------------------------------------------------------------------
(* Hexadecimal *)

\* Bytes read as themselves.
LEMMA HexReads ==
  ASSUME NEW bytes \in Seq(Byte)
  PROVE  /\ bin_to_hex(bytes) \in Seq(Chars) /\ Len(bin_to_hex(bytes)) = 2 * Len(bytes)
         /\ HexRead(bin_to_hex(bytes)) = bytes
<1> DEFINE n == Len(bytes)
           t == bin_to_hex(bytes)
           Code(k) == LET byte == bytes[(k + 1) \div 2]
                      IN HexDigit(IF k % 2 = 1 THEN byte \div 16 ELSE byte % 16)
<1>1. n \in Nat /\ \A i \in 1 .. n : bytes[i] \in Byte
  BY ElementOfSeq
<1>2. \A x \in 0 .. 15 : HexDigit(x) \in Chars /\ HexValue(HexDigit(x)) = x
  BY DEF HexDigit, HexValue, Chars
<1>3. \A b \in Byte : b \div 16 \in 0 .. 15 /\ b % 16 \in 0 .. 15 /\ 16 * (b \div 16) + (b % 16) = b
  BY DEF Byte
<1>4. ASSUME NEW k \in 1 .. 2 * n PROVE Code(k) \in Chars
  <2>1. (k + 1) \div 2 \in 1 .. n
    BY <1>1
  <2>2. bytes[(k + 1) \div 2] \in Byte
    BY <1>1, <2>1
  <2>. QED
    BY <1>2, <1>3, <2>2
<1>5. t = [k \in 1 .. 2 * n |-> Code(k)]
  BY DEF bin_to_hex
<1> HIDE DEF Code, t
<1>6. t \in [1 .. 2 * n -> Chars] /\ 2 * n \in Nat
  BY <1>1, <1>4, <1>5
<1>7. t \in Seq(Chars) /\ Len(t) = 2 * n
  BY <1>6, SeqOfFunction
<1>8. ASSUME NEW i \in 1 .. n PROVE 16 * HexValue(t[2 * i - 1]) + HexValue(t[2 * i]) = bytes[i]
  <2>1. /\ 2 * i - 1 \in 1 .. 2 * n /\ (2 * i - 1 + 1) \div 2 = i /\ (2 * i - 1) % 2 = 1
        /\ 2 * i \in 1 .. 2 * n /\ (2 * i + 1) \div 2 = i /\ (2 * i) % 2 # 1
    BY <1>1
  <2>2. t[2 * i - 1] = HexDigit(bytes[i] \div 16) /\ t[2 * i] = HexDigit(bytes[i] % 16)
    BY <1>5, <2>1, Zenon DEF Code
  <2>3. bytes[i] \in Byte
    BY <1>1
  <2>. QED
    BY <1>2, <1>3, <2>2, <2>3, SMTT(30)
<1>9. HexRead(t) = bytes
  <2>1. Len(t) \div 2 = n
    BY <1>1, <1>7
  <2>2. HexRead(t) = [i \in 1 .. n |-> bytes[i]]
    BY <1>8, <2>1, Zenon DEF HexRead
  <2>. QED
    BY <1>1, <2>2
<1>. QED
  BY <1>7, <1>9 DEF t

\* A long message is shown with dots at its end.
LEMMA Abridges ==
  ASSUME NEW C, 46 \in C, NEW s \in Seq(C)
  PROVE  /\ handle_long_message(s) \in Seq(C) /\ Len(handle_long_message(s)) <= DISPLAY
         /\ Abridged(handle_long_message(s), s)
         /\ Len(handle_long_message(s)) <= Len(s)
         /\ Len(s) <= DISPLAY => handle_long_message(s) = s
<1>1. DISPLAY \in Nat /\ 3 <= DISPLAY /\ Len(s) \in Nat
  BY Sizes, LenProperties
<1>2. CASE Len(s) <= DISPLAY
  <2>1. handle_long_message(s) = s
    BY <1>1, <1>2 DEF handle_long_message
  <2>. QED
    BY <1>1, <1>2, <2>1 DEF Abridged
<1>3. CASE Len(s) > DISPLAY
  <2> DEFINE p == SubSeq(s, 1, DISPLAY - 3)
             d == <<46, 46, 46>>
             u == p \o d
  <2>1. handle_long_message(s) = u
    BY <1>3 DEF handle_long_message
  <2>2. /\ p \in Seq(C) /\ Len(p) = DISPLAY - 3
        /\ \A i \in 1 .. DISPLAY - 3 : p[i] = s[i]
    <3>1. \A i \in 1 .. DISPLAY - 3 : s[i] \in C
      BY <1>1, <1>3, ElementOfSeq
    <3>2. /\ SubSeq(s, 1, DISPLAY - 3) \in Seq(C)
          /\ Len(SubSeq(s, 1, DISPLAY - 3)) = (IF 1 <= DISPLAY - 3 THEN DISPLAY - 3 - 1 + 1 ELSE 0)
          /\ \A i \in 1 .. DISPLAY - 3 - 1 + 1 : SubSeq(s, 1, DISPLAY - 3)[i] = s[1 + i - 1]
      <4>1. 1 \in Int /\ DISPLAY - 3 \in Int
        BY <1>1
      <4>. QED
        BY <3>1, <4>1, SubSeqProperties
    <3> HIDE DEF p
    <3>. QED
      BY <1>1, <3>2 DEF p
  <2>3. d \in Seq(C) /\ Len(d) = 3 /\ \A i \in 1 .. 3 : d[i] = 46
    OBVIOUS
  <2> HIDE DEF p, d
  <2>4. /\ u \in Seq(C) /\ Len(u) = Len(p) + Len(d)
        /\ \A i \in 1 .. Len(p) : u[i] = p[i]
        /\ \A i \in 1 .. Len(d) : u[Len(p) + i] = d[i]
    <3>1. Joins(u, p, d, C)
      BY <2>2, <2>3, Joined, Zenon
    <3> HIDE DEF u
    <3>. QED
      BY <3>1, Zenon DEF Joins
  <2> HIDE DEF u
  <2>5. \A i \in 1 .. DISPLAY : u[i] = IF i > DISPLAY - 3 THEN 46 ELSE s[i]
    <3> SUFFICES ASSUME NEW i \in 1 .. DISPLAY
                 PROVE  u[i] = IF i > DISPLAY - 3 THEN 46 ELSE s[i]
      OBVIOUS
    <3>1. CASE i <= DISPLAY - 3
      BY <1>1, <2>2, <2>4, <3>1
    <3>2. CASE i > DISPLAY - 3
      <4>1. i - (DISPLAY - 3) \in 1 .. 3 /\ i = DISPLAY - 3 + (i - (DISPLAY - 3))
        BY <1>1, <3>2
      <4>. QED
        BY <2>2, <2>3, <2>4, <3>2, <4>1
    <3>. QED
      BY <1>1, <3>1, <3>2
  <2>6. Len(u) = DISPLAY
    BY <1>1, <2>2, <2>3, <2>4
  <2>. QED
    BY <1>1, <1>3, <2>1, <2>4, <2>5, <2>6 DEF Abridged
<1>. QED
  BY <1>1, <1>2, <1>3

-----------------------------------------------------------------------------
(* Signatures *)

Zeros(k) == [i \in 1 .. k |-> 0]

LEMMA ZerosSteps ==
  ASSUME NEW k \in Nat
  PROVE  /\ Zeros(k) \in Seq(Byte) /\ Len(Zeros(k)) = k
         /\ Zeros(0) = <<>> /\ Zeros(k + 1) = Append(Zeros(k), 0) /\ Zeros(1) = <<0>>
<1>1. Zeros(k) \in [1 .. k -> Byte]
  BY DEF Zeros, Byte
<1>2. Zeros(k) \in Seq(Byte) /\ Len(Zeros(k)) = k
  BY <1>1, SeqOfFunction
<1>3. Zeros(0) = <<>> /\ Zeros(k + 1) = Append(Zeros(k), 0) /\ Zeros(1) = <<0>>
  BY DEF Zeros
<1>. QED
  BY <1>2, <1>3

\* Leading zeroes do not change a number.
LEMMA LeadingZeros ==
  ASSUME NEW k \in Nat, NEW s \in Seq(Byte)
  PROVE  NumberOf(Zeros(k) \o s) = NumberOf(s)
<1>1. Folds(NumberStep, 0, Nat, Byte)
  <2>1. \A p \in Nat \X Byte : p[1] * 256 + p[2] \in Nat
    <3>1. \A x \in Nat, b \in Byte : x * 256 + b \in Nat
      BY DEF Byte
    <3>2. \A p \in Nat \X Byte : p[1] \in Nat /\ p[2] \in Byte
      OBVIOUS
    <3>. QED
      BY <3>1, <3>2, ZenonT(30)
  <2>2. 0 \in Nat
    OBVIOUS
  <2>3. NumberStep \in [Nat \X Byte -> Nat]
    BY <2>1, Zenon DEF NumberStep
  <2>. QED
    BY <2>2, <2>3, Zenon DEF Folds
<1> DEFINE S == {j \in Nat : NumberOf(Zeros(j)) = 0}
<1>2. 0 \in S
  <2>1. FoldUp(NumberStep, 0, <<>>) = 0
    BY <1>1, FoldUpEmpty, Zenon
  <2>2. Zeros(0) = <<>>
    BY ZerosSteps
  <2>. QED
    BY <2>1, <2>2 DEF NumberOf
<1>3. ASSUME NEW j \in Nat, j \in S PROVE j + 1 \in S
  <2>1. Grows(NumberStep, 0, Byte)
    BY <1>1, FoldUpGrows, Zenon
  <2>2. 0 \in Byte
    BY DEF Byte
  <2>3. Zeros(j) \in Seq(Byte) /\ Zeros(j + 1) = Append(Zeros(j), 0)
    BY ZerosSteps
  <2>4. NumberOf(Append(Zeros(j), 0)) = NumberStep[<<NumberOf(Zeros(j)), 0>>]
    BY <2>1, <2>2, <2>3, Zenon DEF Grows, NumberOf
  <2>5. NumberStep[<<0, 0>>] = 0
    <3>1. <<0, 0>> \in Nat \X Byte
      BY DEF Byte
    <3>. QED
      BY <3>1 DEF NumberStep
  <2>6. NumberOf(Zeros(j)) = 0
    BY <1>3
  <2>7. NumberOf(Zeros(j + 1)) = 0
    BY <2>3, <2>4, <2>5, <2>6, Zenon
  <2>. QED
    BY <2>7
<1>. HIDE DEF S
<1>4. Nat \subseteq S
  BY <1>2, <1>3, Induction
<1>5. FoldUp(NumberStep, 0, Zeros(k)) = 0
  BY <1>4 DEF S, NumberOf
<1>6. Zeros(k) \in Seq(Byte)
  BY ZerosSteps
<1>7. FoldUp(NumberStep, 0, Zeros(k) \o s) = FoldUp(NumberStep, FoldUp(NumberStep, 0, Zeros(k)), s)
  <2>1. Chains(NumberStep, 0, Byte)
    BY <1>1, FoldUpConcat, Zenon
  <2>. QED
    BY <1>6, <2>1, Zenon DEF Chains
<1>. QED
  BY <1>5, <1>7 DEF NumberOf

Scalar(n) == n \in Seq(Byte) /\ Len(n) \in 1 .. SCALAR /\ n[1] # 0

\* A number as DER has it has the value of the number.
LEMMA DerIntIs ==
  ASSUME NEW n, Scalar(n)
  PROVE  /\ DerInt(n) \in Seq(Byte) /\ NumberOf(DerInt(n)) = NumberOf(n)
         /\ \/ DerInt(n) = n
            \/ /\ Len(DerInt(n)) = Len(n) + 1
               /\ \A i \in 1 .. Len(n) : DerInt(n)[1 + i] = n[i]
<1>1. n \in Seq(Byte) /\ Len(n) \in Nat
  BY LenProperties DEF Scalar
<1>2. CASE n[1] >= 128
  <2>1. DerInt(n) = <<0>> \o n
    BY <1>2 DEF DerInt
  <2>2. <<0>> = Zeros(1) /\ 1 \in Nat
    BY ZerosSteps
  <2>3. NumberOf(Zeros(1) \o n) = NumberOf(n)
    BY <1>1, <2>2, LeadingZeros
  <2>4. <<0>> \in Seq(Byte) /\ Len(<<0>>) = 1
    BY DEF Byte
  <2>5. Joins(<<0>> \o n, <<0>>, n, Byte)
    BY <1>1, <2>4, Joined, Zenon
  <2>6. <<0>> \o n \in Seq(Byte) /\ Len(<<0>> \o n) = Len(<<0>>) + Len(n)
        /\ \A i \in 1 .. Len(n) : (<<0>> \o n)[Len(<<0>>) + i] = n[i]
    BY <2>5, Zenon DEF Joins
  <2>7. NumberOf(DerInt(n)) = NumberOf(n)
    BY <2>1, <2>2, <2>3, Zenon
  <2> DEFINE m == <<0>> \o n
  <2>8. m \in Seq(Byte) /\ Len(m) = Len(n) + 1 /\ \A i \in 1 .. Len(n) : m[1 + i] = n[i]
    <3> HIDE DEF m
    <3>1. m \in Seq(Byte) /\ Len(m) = 1 + Len(n) /\ \A i \in 1 .. Len(n) : m[1 + i] = n[i]
      BY <2>4, <2>6, Zenon DEF m
    <3>. QED
      BY <1>1, <3>1
  <2>. QED
    BY <2>1, <2>7, <2>8, Zenon
<1>3. CASE ~(n[1] >= 128)
  BY <1>1, <1>3 DEF DerInt
<1>. QED
  BY <1>2, <1>3

\* What is copied of it.
LEMMA CopiedIs ==
  ASSUME NEW n, Scalar(n), NEW sig \in Seq(Int), NEW at \in Nat \ {0},
         at + Len(DerInt(n)) <= Len(sig) + 1,
         \A i \in 1 .. Len(DerInt(n)) : sig[at - 1 + i] = DerInt(n)[i]
  PROVE  LET b == Copied(sig, at, Len(DerInt(n)))
         IN b \in Seq(Byte) /\ Len(b) <= SCALAR /\ NumberOf(b) = NumberOf(n)
<1> DEFINE m == DerInt(n)
           b == Copied(sig, at, Len(m))
<1>1. SCALAR \in Nat /\ Len(sig) \in Nat
  BY Sizes, LenProperties
<1>2. n \in Seq(Byte) /\ Len(n) \in Nat /\ Len(n) <= SCALAR
  <2>1. n \in Seq(Byte) /\ Len(n) \in 1 .. SCALAR
    BY DEF Scalar
  <2>. QED
    BY <1>1, <2>1
<1>3. /\ m \in Seq(Byte) /\ NumberOf(m) = NumberOf(n)
      /\ \/ m = n
         \/ Len(m) = Len(n) + 1 /\ \A i \in 1 .. Len(n) : m[1 + i] = n[i]
  BY DerIntIs
<1>4. at + Len(m) <= Len(sig) + 1 /\ \A i \in 1 .. Len(m) : sig[at - 1 + i] = m[i]
  OBVIOUS
<1>5. Len(m) \in Nat
  BY <1>3, LenProperties
<1>a. n \in Seq(Int) /\ m \in Seq(Int)
  <2>1. Byte \subseteq Int
    BY DEF Byte
  <2>. QED
    BY <1>2, <1>3, <2>1, SeqMonotonic
<1> HIDE DEF m
<1>6. CASE Len(m) > SCALAR
  <2>1. Len(m) = Len(n) + 1 /\ Len(n) = SCALAR /\ \A i \in 1 .. Len(n) : m[1 + i] = n[i]
    BY <1>1, <1>2, <1>3, <1>6
  <2>2. b = SubSeq(sig, at + 1, at + Len(n))
    BY <1>6, <2>1 DEF Copied
  <2>3. at + Len(n) <= Len(sig) /\ \A i \in 1 .. Len(n) : sig[at + i] = n[i]
    <3>1. at + Len(n) <= Len(sig)
      BY <1>1, <1>2, <1>4, <2>1
    <3>2. ASSUME NEW i \in 1 .. Len(n) PROVE sig[at + i] = n[i]
      <4>1. 1 + i \in 1 .. Len(m) /\ at - 1 + (1 + i) = at + i
        BY <1>2, <2>1
      <4>. QED
        BY <1>4, <2>1, <4>1
    <3>. QED
      BY <3>1, <3>2
  <2>4. SubSeq(sig, at + 1, at + Len(n)) = n
    <3>1. at \in Nat
      OBVIOUS
    <3>. QED
      BY <1>a, <2>3, <3>1, Part
  <2>. QED
    BY <1>2, <2>2, <2>4 DEF m
<1>7. CASE ~(Len(m) > SCALAR)
  <2>1. b = SubSeq(sig, at, at + Len(m) - 1)
    BY <1>7 DEF Copied
  <2> DEFINE a == at - 1
  <2>2. a \in Nat /\ a + Len(m) <= Len(sig) /\ a + 1 = at /\ a + Len(m) = at + Len(m) - 1
    BY <1>1, <1>4, <1>5
  <2>3. \A i \in 1 .. Len(m) : sig[a + i] = m[i]
    BY <1>4
  <2> HIDE DEF a
  <2>4. SubSeq(sig, a + 1, a + Len(m)) = m
    BY <1>a, <2>2, <2>3, Part
  <2>5. b = m
    BY <2>1, <2>2, <2>4
  <2>. QED
    BY <1>1, <1>3, <1>5, <1>7, <2>5 DEF m
<1>. QED
  BY <1>6, <1>7

\* Its place in the answer.
LEMMA AlignedIs ==
  ASSUME NEW b \in Seq(Byte), Len(b) <= SCALAR
  PROVE  /\ Aligned(Cleared, b) \in Seq(Byte) /\ Len(Aligned(Cleared, b)) = SCALAR
         /\ NumberOf(Aligned(Cleared, b)) = NumberOf(b)
<1> DEFINE k == SCALAR - Len(b)
<1>1. SCALAR \in Nat /\ Len(b) \in Nat
  BY Sizes, LenProperties
<1>2. k \in Nat /\ k <= SCALAR /\ k + Len(b) = SCALAR
  BY <1>1
<1>3. SubSeq(Cleared, 1, k) = Zeros(k)
  <2>1. Cleared = Zeros(SCALAR)
    BY DEF Cleared, Zeros
  <2>2. /\ Zeros(k) \in Seq(Byte) /\ Zeros(SCALAR) \in Seq(Byte)
        /\ Len(Zeros(k)) = k /\ Len(Zeros(SCALAR)) = SCALAR
    BY <1>1, <1>2, ZerosSteps
  <2>3. \A i \in 1 .. k : Zeros(SCALAR)[0 + i] = Zeros(k)[i]
    BY <1>1, <1>2 DEF Zeros
  <2> HIDE DEF k
  <2>4. SubSeq(Zeros(SCALAR), 0 + 1, 0 + Len(Zeros(k))) = Zeros(k)
    <3>1. 0 \in Nat /\ 0 + Len(Zeros(k)) <= Len(Zeros(SCALAR))
      BY <1>1, <1>2, <2>2
    <3>. QED
      BY <2>2, <2>3, <3>1, Part
  <2>. QED
    BY <1>2, <2>1, <2>2, <2>4
<1>4. Aligned(Cleared, b) = Zeros(k) \o b
  BY <1>3 DEF Aligned
<1> HIDE DEF k
<1>5. Zeros(k) \in Seq(Byte) /\ Len(Zeros(k)) = k
  BY <1>2, ZerosSteps
<1>6. Joins(Zeros(k) \o b, Zeros(k), b, Byte)
  BY <1>5, Joined, Zenon
<1>7. Zeros(k) \o b \in Seq(Byte) /\ Len(Zeros(k) \o b) = Len(Zeros(k)) + Len(b)
  BY <1>6, Zenon DEF Joins
<1>8. NumberOf(Zeros(k) \o b) = NumberOf(b)
  BY <1>2, LeadingZeros
<1>. QED
  BY <1>2, <1>4, <1>5, <1>7, <1>8

Answer == [1 .. 2 * SCALAR + 1 -> Byte]

\* The DER of two numbers has them at these places.
HasBoth(sig, m, n) ==
  /\ sig \in Seq(Int) /\ Len(sig) = 8 + Len(m) + Len(n)
  /\ sig[4] = Len(m) /\ \A i \in 1 .. Len(m) : sig[4 + i] = m[i]
  /\ sig[6 + Len(m)] = Len(n) /\ \A i \in 1 .. Len(n) : sig[6 + Len(m) + i] = n[i]

LEMMA DerIs ==
  ASSUME NEW r, NEW s, Scalar(r), Scalar(s)
  PROVE  HasBoth(Der(r, s), DerInt(r), DerInt(s))
<1> DEFINE m == DerInt(r)
           n == DerInt(s)
           a == <<48, Len(m) + Len(n) + 4, 2, Len(m)>>
           b == <<2, Len(n)>>
           z == <<0, 0>>
           p == a \o m
           q == p \o b
           u == q \o n
           sig == u \o z
<1>1. m \in Seq(Int) /\ n \in Seq(Int) /\ Len(m) \in Nat /\ Len(n) \in Nat
  <2>1. Byte \subseteq Int
    BY DEF Byte
  <2>2. m \in Seq(Byte) /\ n \in Seq(Byte)
    BY DerIntIs
  <2>. QED
    BY <2>1, <2>2, SeqMonotonic, LenProperties
<1> HIDE DEF m, n
<1>2. /\ a \in Seq(Int) /\ Len(a) = 4 /\ a[4] = Len(m)
      /\ b \in Seq(Int) /\ Len(b) = 2 /\ b[2] = Len(n)
      /\ z \in Seq(Int) /\ Len(z) = 2
  BY <1>1
<1>3. Der(r, s) = sig
  BY DEF Der, m, n
<1> HIDE DEF a, b, z
<1>4. Joins(p, a, m, Int)
  BY <1>1, <1>2, Joined, Zenon
<1>5. p \in Seq(Int)
  BY <1>4, Zenon DEF Joins
<1> HIDE DEF p
<1>6. Joins(q, p, b, Int)
  BY <1>2, <1>5, Joined, Zenon
<1>7. q \in Seq(Int)
  BY <1>6, Zenon DEF Joins
<1> HIDE DEF q
<1>8. Joins(u, q, n, Int)
  BY <1>1, <1>7, Joined, Zenon
<1>9. u \in Seq(Int)
  BY <1>8, Zenon DEF Joins
<1> HIDE DEF u
<1>10. Joins(sig, u, z, Int)
  BY <1>2, <1>9, Joined, Zenon
<1>11. sig \in Seq(Int) /\ Len(sig) = Len(u) + Len(z) /\ \A i \in 1 .. Len(u) : sig[i] = u[i]
  BY <1>10, Zenon DEF Joins
<1> HIDE DEF sig
<1>12. /\ Len(u) = Len(q) + Len(n) /\ \A i \in 1 .. Len(q) : u[i] = q[i]
       /\ \A i \in 1 .. Len(n) : u[Len(q) + i] = n[i]
  BY <1>8, Zenon DEF Joins
<1>13. /\ Len(q) = Len(p) + Len(b) /\ \A i \in 1 .. Len(p) : q[i] = p[i]
       /\ \A i \in 1 .. Len(b) : q[Len(p) + i] = b[i]
  BY <1>6, Zenon DEF Joins
<1>14. /\ Len(p) = Len(a) + Len(m) /\ \A i \in 1 .. Len(a) : p[i] = a[i]
       /\ \A i \in 1 .. Len(m) : p[Len(a) + i] = m[i]
  BY <1>4, Zenon DEF Joins
<1>15. Len(p) = 4 + Len(m) /\ Len(q) = 6 + Len(m) /\ Len(u) = 6 + Len(m) + Len(n)
       /\ Len(sig) = 8 + Len(m) + Len(n)
  BY <1>1, <1>2, <1>11, <1>12, <1>13, <1>14
<1>16. \A i \in 1 .. Len(p) : sig[i] = p[i]
  BY <1>1, <1>11, <1>12, <1>13, <1>15, SMTT(30)
<1>17. sig[4] = Len(m)
  BY <1>1, <1>2, <1>14, <1>15, <1>16
<1>18. ASSUME NEW i \in 1 .. Len(m) PROVE sig[4 + i] = m[i]
  <2>1. 4 + i \in 1 .. Len(p) /\ Len(a) + i = 4 + i
    BY <1>1, <1>2, <1>15
  <2>. QED
    BY <1>14, <1>16, <2>1
<1>19. sig[6 + Len(m)] = Len(n)
  <2>1. /\ 2 \in 1 .. Len(b) /\ Len(p) + 2 = 6 + Len(m) /\ 6 + Len(m) \in 1 .. Len(q)
        /\ 6 + Len(m) \in 1 .. Len(u)
    BY <1>1, <1>2, <1>15, SMTT(30)
  <2>. QED
    BY <1>2, <1>11, <1>12, <1>13, <2>1
<1>20. ASSUME NEW i \in 1 .. Len(n) PROVE sig[6 + Len(m) + i] = n[i]
  <2>1. 6 + Len(m) + i \in 1 .. Len(u) /\ Len(q) + i = 6 + Len(m) + i
    BY <1>1, <1>15
  <2>. QED
    BY <1>11, <1>12, <2>1
<1>. QED
  BY <1>3, <1>11, <1>15, <1>17, <1>18, <1>19, <1>20 DEF m, n, HasBoth

\* sign: the answer has the numbers that were signed with.
LEMMA CompactIs ==
  ASSUME NEW r, NEW s, Scalar(r), Scalar(s), NEW info \in 0 .. 3, NEW old
  PROVE  LET c == Compact(old, Der(r, s), info)
         IN /\ c \in Answer /\ c[2 * SCALAR + 1] = info
            /\ NumberOf(SubSeq(c, 1, SCALAR)) = NumberOf(r)
            /\ NumberOf(SubSeq(c, SCALAR + 1, 2 * SCALAR)) = NumberOf(s)
<1> DEFINE sig == Der(r, s)
           m == DerInt(r)
           n == DerInt(s)
           x == Copied(sig, 5, Len(m))
           y == Copied(sig, 7 + Len(m), Len(n))
           f == Aligned(Cleared, x)
           g == Aligned(Cleared, y)
           h == f \o g
           c == h \o <<info>>
<1>1. SCALAR \in Nat
  BY Sizes
<1>2. /\ sig \in Seq(Int) /\ Len(sig) = 8 + Len(m) + Len(n)
      /\ sig[4] = Len(m) /\ \A i \in 1 .. Len(m) : sig[4 + i] = m[i]
      /\ sig[6 + Len(m)] = Len(n) /\ \A i \in 1 .. Len(n) : sig[6 + Len(m) + i] = n[i]
  <2>1. HasBoth(sig, m, n)
    BY DerIs, Zenon
  <2>. QED
    BY <2>1, Zenon DEF HasBoth
<1>3. Len(m) \in Nat /\ Len(n) \in Nat
  <2>1. m \in Seq(Byte) /\ n \in Seq(Byte)
    BY DerIntIs, Zenon
  <2> HIDE DEF m, n
  <2>. QED
    BY <2>1, LenProperties
<1>4. Compact(old, sig, info) = c
  BY <1>2, Zenon DEF Compact
<1> HIDE DEF sig
<1>5. x \in Seq(Byte) /\ Len(x) <= SCALAR /\ NumberOf(x) = NumberOf(r)
  <2>1. 5 \in Nat \ {0} /\ 5 + Len(m) <= Len(sig) + 1 /\ 5 - 1 = 4
    <3> HIDE DEF m, n
    <3>. QED
      BY <1>2, <1>3
  <2>2. \A i \in 1 .. Len(m) : sig[5 - 1 + i] = m[i]
    BY <1>2, <2>1, Zenon
  <2>. QED
    BY <1>2, <2>1, <2>2, CopiedIs, Zenon
<1>6. y \in Seq(Byte) /\ Len(y) <= SCALAR /\ NumberOf(y) = NumberOf(s)
  <2> DEFINE at == 7 + Len(m)
  <2>1. at \in Nat \ {0} /\ at + Len(n) <= Len(sig) + 1 /\ at - 1 = 6 + Len(m)
    <3> HIDE DEF m, n
    <3>. QED
      BY <1>2, <1>3
  <2>2. \A i \in 1 .. Len(n) : sig[at - 1 + i] = n[i]
    BY <1>2, <2>1, Zenon
  <2> HIDE DEF at
  <2>3. Copied(sig, at, Len(n)) \in Seq(Byte) /\ Len(Copied(sig, at, Len(n))) <= SCALAR
        /\ NumberOf(Copied(sig, at, Len(n))) = NumberOf(s)
    BY <1>2, <2>1, <2>2, CopiedIs, Zenon
  <2>. QED
    BY <2>3, Zenon DEF at
<1> HIDE DEF x, y
<1>7. /\ f \in Seq(Byte) /\ Len(f) = SCALAR /\ NumberOf(f) = NumberOf(r)
      /\ g \in Seq(Byte) /\ Len(g) = SCALAR /\ NumberOf(g) = NumberOf(s)
  BY <1>5, <1>6, AlignedIs
<1> HIDE DEF f, g
<1>8. Joins(h, f, g, Byte)
  BY <1>7, Joined, Zenon
<1>9. /\ h \in Seq(Byte) /\ Len(h) = Len(f) + Len(g)
      /\ SubSeq(h, 1, Len(f)) = f /\ SubSeq(h, Len(f) + 1, Len(f) + Len(g)) = g
  BY <1>8, Zenon DEF Joins
<1> HIDE DEF h
<1>10. <<info>> \in Seq(Byte) /\ Len(<<info>>) = 1 /\ <<info>>[1] = info
  BY DEF Byte
<1> DEFINE z == <<info>>
<1> HIDE DEF z
<1>11. Joins(c, h, z, Byte)
  <2>1. Joins(h \o z, h, z, Byte)
    BY <1>9, <1>10, Joined, Zenon DEF z
  <2>. QED
    BY <2>1, Zenon DEF z
<1> HIDE DEF c
<1>12. c \in Seq(Byte) /\ Len(c) = Len(h) + Len(z) /\ \A i \in 1 .. Len(h) : c[i] = h[i]
  BY <1>11, Zenon DEF Joins
<1>13. Len(z) = 1 /\ z[1] = info /\ Len(h) = 2 * SCALAR /\ Len(c) = 2 * SCALAR + 1
  BY <1>1, <1>7, <1>9, <1>10, <1>12 DEF z
<1>14. c[2 * SCALAR + 1] = info
  <2>1. 1 \in 1 .. Len(z)
    BY <1>13
  <2>2. \A i \in 1 .. Len(z) : c[Len(h) + i] = z[i]
    BY <1>11, Zenon DEF Joins
  <2>3. c[Len(h) + 1] = z[1]
    BY <2>1, <2>2
  <2>4. Len(h) = 2 * SCALAR /\ z[1] = info
    BY <1>13, Zenon
  <2>. QED
    BY <2>3, <2>4, Zenon
<1>15. SubSeq(c, 1, SCALAR) = f
  <2>1. SubSeq(c, 1, SCALAR) = SubSeq(h, 1, SCALAR)
    BY <1>1, <1>9, <1>12, <1>13
  <2>. QED
    BY <1>7, <1>9, <2>1
<1>16. SubSeq(c, SCALAR + 1, 2 * SCALAR) = g
  <2>1. SubSeq(c, SCALAR + 1, 2 * SCALAR) = SubSeq(h, SCALAR + 1, 2 * SCALAR)
    BY <1>1, <1>9, <1>12, <1>13
  <2>2. Len(f) + Len(g) = 2 * SCALAR
    BY <1>1, <1>7
  <2>. QED
    BY <1>7, <1>9, <2>1, <2>2
<1>17. c \in Answer
  <2>1. c \in [1 .. Len(c) -> Byte]
    BY <1>12, LenProperties, Zenon
  <2>. QED
    BY <1>13, <2>1, Zenon DEF Answer
<1>. QED
  BY <1>4, <1>7, <1>14, <1>15, <1>16, <1>17 DEF sig

-----------------------------------------------------------------------------
(* Paths *)

PathChar == Digit \cup {39, 47}
ReadPath == Seq(Nat) \ {<<>>}
Mark(n) == IF n >= HARDENED THEN <<39>> ELSE <<>>
ComponentText(n) == number_to_string(n % HARDENED) \o Mark(n)

LEMMA PathStepIs ==
  /\ PathStep \in [ReadPath \X PathChar -> ReadPath]
  /\ \A q \in Seq(Nat), m \in Nat :
       /\ Append(q, m) \in ReadPath
       /\ PathStep[<<Append(q, m), 47>>] = Append(Append(q, m), 0)
       /\ PathStep[<<Append(q, m), 39>>] = Append(q, m + HARDENED)
       /\ \A c \in Digit : PathStep[<<Append(q, m), c>>] = Append(q, m * 10 + (c - 48))
<1> DEFINE X == {39, 47, 48, 49, 50, 51, 52, 53, 54, 55, 56, 57}
           Y(p) == IF p[2] = 47 THEN Append(p[1], 0)
                   ELSE [p[1] EXCEPT ![Len(p[1])] =
                           IF p[2] = 39 THEN @ + HARDENED ELSE @ * 10 + (p[2] - 48)]
<1>1. X = PathChar /\ 47 \in PathChar /\ 39 \in PathChar /\ Digit \subseteq PathChar
  BY DEF PathChar, Digit
<1>2. HARDENED \in Nat
  BY Sizes
<1>3. PathStep = [p \in ReadPath \X PathChar |-> Y(p)]
  <2>1. PathStep = [p \in ReadPath \X X |-> Y(p)]
    BY Zenon DEF PathStep, ReadPath
  <2> HIDE DEF X, Y
  <2>. QED
    BY <1>1, <2>1, Zenon
<1>4. ASSUME NEW q \in Seq(Nat), NEW m \in Nat
      PROVE  /\ Append(q, m) \in ReadPath
             /\ \A x \in Nat : [Append(q, m) EXCEPT ![Len(Append(q, m))] = x] = Append(q, x)
             /\ Append(q, m)[Len(Append(q, m))] = m
  <2> DEFINE t == Append(q, m)
  <2>1. /\ t \in Seq(Nat) /\ Len(t) = Len(q) + 1 /\ Len(q) \in Nat /\ t[Len(q) + 1] = m
        /\ \A i \in 1 .. Len(q) : t[i] = q[i]
    OBVIOUS
  <2> HIDE DEF t
  <2>2. t \in ReadPath
    BY <2>1, EmptySeq DEF ReadPath
  <2>3. ASSUME NEW x \in Nat PROVE [t EXCEPT ![Len(t)] = x] = Append(q, x)
    <3> DEFINE u == [t EXCEPT ![Len(t)] = x]
               v == Append(q, x)
    <3>1. /\ v \in Seq(Nat) /\ Len(v) = Len(q) + 1 /\ v[Len(q) + 1] = x
          /\ \A i \in 1 .. Len(q) : v[i] = q[i]
      OBVIOUS
    <3>2. u \in Seq(Nat) /\ Len(u) = Len(t)
      BY <2>1
    <3>3. \A i \in 1 .. Len(t) : u[i] = IF i = Len(t) THEN x ELSE t[i]
      BY <2>1
    <3> HIDE DEF u, v
    <3>4. ASSUME NEW i \in 1 .. Len(v) PROVE u[i] = v[i]
      <4>1. Len(v) = Len(t) /\ Len(t) = Len(q) + 1 /\ Len(q) \in Nat
        BY <2>1, <3>1
      <4>2. CASE i = Len(t)
        BY <3>1, <3>3, <4>1, <4>2
      <4>3. CASE i \in 1 .. Len(q)
        BY <2>1, <3>1, <3>3, <4>1, <4>3
      <4>. QED
        BY <4>1, <4>2, <4>3
    <3>5. u = v
      BY <2>1, <3>1, <3>2, <3>4, SeqEqual
    <3>. QED
      BY <3>5 DEF u, v
  <2>. QED
    BY <2>1, <2>2, <2>3 DEF t
<1>5. ASSUME NEW q \in Seq(Nat), NEW m \in Nat, NEW c \in PathChar
      PROVE  Y(<<Append(q, m), c>>) = IF c = 47 THEN Append(Append(q, m), 0)
                                      ELSE IF c = 39 THEN Append(q, m + HARDENED)
                                      ELSE Append(q, m * 10 + (c - 48))
  <2> DEFINE p == Append(q, m)
  <2>1. /\ p \in ReadPath /\ \A x \in Nat : [p EXCEPT ![Len(p)] = x] = Append(q, x)
        /\ p[Len(p)] = m
    BY <1>4
  <2>2. m + HARDENED \in Nat /\ (c # 39 /\ c # 47 => m * 10 + (c - 48) \in Nat)
    BY <1>2 DEF PathChar, Digit
  <2> HIDE DEF p
  <2>3. Y(<<p, c>>) = IF c = 47 THEN Append(p, 0)
                      ELSE [p EXCEPT ![Len(p)] = IF c = 39 THEN m + HARDENED ELSE m * 10 + (c - 48)]
    BY <2>1
  <2> HIDE DEF Y
  <2>4. CASE c = 47
    BY <2>3, <2>4 DEF p
  <2>5. CASE c = 39
    BY <2>1, <2>2, <2>3, <2>5 DEF p
  <2>6. CASE c # 47 /\ c # 39
    BY <2>1, <2>2, <2>3, <2>6 DEF p
  <2>. QED
    BY <2>4, <2>5, <2>6
<1>6. ASSUME NEW p \in ReadPath, NEW c \in PathChar PROVE Y(<<p, c>>) \in ReadPath
  <2>1. p \in Seq(Nat) /\ p # <<>>
    BY DEF ReadPath
  <2>2. PICK q \in Seq(Nat), m \in Nat : p = Append(q, m)
    BY <2>1, SequenceEmptyOrAppend
  <2>3. Y(<<p, c>>) = IF c = 47 THEN Append(p, 0)
                      ELSE IF c = 39 THEN Append(q, m + HARDENED)
                      ELSE Append(q, m * 10 + (c - 48))
    BY <1>5, <2>2
  <2> HIDE DEF Y
  <2>4. m + HARDENED \in Nat /\ (c # 39 /\ c # 47 => m * 10 + (c - 48) \in Nat)
    BY <1>2 DEF PathChar, Digit
  <2>5. Append(p, 0) \in ReadPath /\ \A x \in Nat : Append(q, x) \in ReadPath
    BY <1>4, <2>1
  <2>. QED
    BY <2>3, <2>4, <2>5, ZenonT(30)
<1>7. \A p \in ReadPath \X PathChar : Y(p) \in ReadPath
  <2>1. \A p \in ReadPath \X PathChar : p = <<p[1], p[2]>> /\ p[1] \in ReadPath /\ p[2] \in PathChar
    OBVIOUS
  <2> HIDE DEF Y
  <2>. QED
    BY <1>6, <2>1, Zenon
<1> HIDE DEF Y, X
<1>8. PathStep \in [ReadPath \X PathChar -> ReadPath]
  BY <1>3, <1>7, Zenon
<1>9. ASSUME NEW q \in Seq(Nat), NEW m \in Nat, NEW c \in PathChar
      PROVE  PathStep[<<Append(q, m), c>>] = Y(<<Append(q, m), c>>)
  <2>1. <<Append(q, m), c>> \in ReadPath \X PathChar
    BY <1>4
  <2>. QED
    BY <1>3, <2>1, Zenon
<1>10. ASSUME NEW q \in Seq(Nat), NEW m \in Nat, NEW c \in PathChar
       PROVE  PathStep[<<Append(q, m), c>>] = IF c = 47 THEN Append(Append(q, m), 0)
                                              ELSE IF c = 39 THEN Append(q, m + HARDENED)
                                              ELSE Append(q, m * 10 + (c - 48))
  <2>1. PathStep[<<Append(q, m), c>>] = Y(<<Append(q, m), c>>)
    BY <1>9
  <2>. QED
    BY <1>5, <2>1
<1>11. ASSUME NEW q \in Seq(Nat), NEW m \in Nat
       PROVE  /\ PathStep[<<Append(q, m), 47>>] = Append(Append(q, m), 0)
              /\ PathStep[<<Append(q, m), 39>>] = Append(q, m + HARDENED)
              /\ \A c \in Digit : PathStep[<<Append(q, m), c>>] = Append(q, m * 10 + (c - 48))
  <2>1. PathStep[<<Append(q, m), 47>>] = Append(Append(q, m), 0)
    BY <1>1, <1>10
  <2>2. PathStep[<<Append(q, m), 39>>] = Append(q, m + HARDENED)
    <3>1. 39 \in PathChar /\ 39 # 47
      BY <1>1
    <3>2. PathStep[<<Append(q, m), 39>>] = IF 39 = 47 THEN Append(Append(q, m), 0)
                                           ELSE IF 39 = 39 THEN Append(q, m + HARDENED)
                                           ELSE Append(q, m * 10 + (39 - 48))
      BY <1>10, <3>1, Zenon
    <3>. QED
      BY <3>1, <3>2, Zenon
  <2>3. ASSUME NEW c \in Digit PROVE PathStep[<<Append(q, m), c>>] = Append(q, m * 10 + (c - 48))
    <3>1. c \in PathChar /\ c # 47 /\ c # 39
      BY <1>1, SMTT(30) DEF Digit
    <3>. QED
      BY <1>10, <3>1, ZenonT(30)
  <2>. QED
    BY <2>1, <2>2, <2>3
<1>. QED
  BY <1>4, <1>8, <1>11, ZenonT(30)

LEMMA PathFolds ==
  ASSUME NEW q \in ReadPath
  PROVE  /\ Folds(PathStep, q, ReadPath, PathChar) /\ Grows(PathStep, q, PathChar)
         /\ Chains(PathStep, q, PathChar) /\ FoldUp(PathStep, q, <<>>) = q
<1>1. PathStep \in [ReadPath \X PathChar -> ReadPath]
  BY PathStepIs, Zenon
<1>2. Folds(PathStep, q, ReadPath, PathChar)
  BY <1>1, Zenon DEF Folds
<1>3. Grows(PathStep, q, PathChar)
  BY <1>2, FoldUpGrows, Zenon
<1>4. Chains(PathStep, q, PathChar)
  BY <1>2, FoldUpConcat, Zenon
<1>5. FoldUp(PathStep, q, <<>>) = q
  BY <1>2, FoldUpEmpty, Zenon
<1>. QED
  BY <1>2, <1>3, <1>4, <1>5, Zenon

\* Digits after a separator become the last component.
LEMMA ReadDigits ==
  ASSUME NEW q \in Seq(Nat), NEW s \in Seq(Digit)
  PROVE  FoldUp(PathStep, Append(q, 0), s) = Append(q, DecimalOf(s))
<1> DEFINE b == Append(q, 0)
           Reads(u) == FoldUp(PathStep, b, u) = Append(q, DecimalOf(u))
           S == {n \in Nat : \A u \in Seq(Digit) : Len(u) = n => Reads(u)}
<1>1. b \in ReadPath
  BY PathStepIs, Zenon
<1> HIDE DEF b
<1>2. 0 \in S
  <2>1. FoldUp(PathStep, b, <<>>) = b
    BY <1>1, PathFolds, Zenon
  <2>2. DecimalOf(<<>>) = 0
    BY DecimalSteps, Zenon
  <2>3. Reads(<<>>)
    BY <2>1, <2>2, Zenon DEF b
  <2>4. \A u \in Seq(Digit) : Len(u) = 0 => u = <<>>
    BY EmptySeq
  <2> HIDE DEF Reads
  <2>. QED
    BY <2>3, <2>4
<1>3. ASSUME NEW n \in Nat, n \in S PROVE n + 1 \in S
  <2> SUFFICES ASSUME NEW u \in Seq(Digit), Len(u) = n + 1 PROVE Reads(u)
    OBVIOUS
  <2>1. u # <<>>
    BY EmptySeq
  <2>2. PICK v \in Seq(Digit), c \in Digit : u = Append(v, c)
    BY <2>1, SequenceEmptyOrAppend
  <2>3. Len(v) = n
    <3>1. Len(Append(v, c)) = Len(v) + 1 /\ Len(v) \in Nat
      BY AppendProperties, LenProperties
    <3>. QED
      BY <2>2, <3>1
  <2>4. Reads(v)
    BY <1>3, <2>3
  <2>5. v \in Seq(PathChar) /\ c \in PathChar
    <3>1. Digit \subseteq PathChar
      BY DEF PathChar
    <3>. QED
      BY <3>1, SeqMonotonic
  <2>6. Grows(PathStep, b, PathChar)
    BY <1>1, PathFolds, Zenon
  <2>7. FoldUp(PathStep, b, Append(v, c)) = PathStep[<<FoldUp(PathStep, b, v), c>>]
    BY <2>5, <2>6, Zenon DEF Grows
  <2>8. DecimalOf(v) \in Nat /\ DecimalOf(Append(v, c)) = DecimalOf(v) * 10 + (c - 48)
    BY DecimalSteps, Zenon
  <2>9. PathStep[<<Append(q, DecimalOf(v)), c>>] = Append(q, DecimalOf(v) * 10 + (c - 48))
    BY <2>8, PathStepIs, Zenon
  <2>10. Reads(Append(v, c))
    BY <2>4, <2>7, <2>8, <2>9, Zenon
  <2>. QED
    BY <2>2, <2>10, Zenon
<1>. HIDE DEF S
<1>4. Nat \subseteq S
  BY <1>2, <1>3, Induction
<1>5. Len(s) \in Nat
  BY LenProperties
<1> HIDE DEF Reads
<1>6. Reads(s)
  BY <1>4, <1>5 DEF S
<1>. QED
  BY <1>6, Zenon DEF Reads, b

PathComponent == 0 .. 2 * HARDENED - 1

\* A component reads as itself.
LEMMA ReadComponent ==
  ASSUME NEW n \in PathComponent
  PROVE  /\ ComponentText(n) \in Seq(PathChar) /\ number_to_string(n % HARDENED) \in Seq(PathChar)
         /\ Mark(n) \in Seq(PathChar)
         /\ Len(ComponentText(n)) \in 1 .. MAX_INT_DIGITS + 1
         /\ \A q \in Seq(Nat) : FoldUp(PathStep, Append(q, 0), ComponentText(n)) = Append(q, n)
<1> DEFINE m == n % HARDENED
           s == number_to_string(m)
<1>1. HARDENED \in Nat \ {0} /\ n \in Nat /\ n < 2 * HARDENED
  BY Sizes DEF PathComponent
<1>2. m \in Amount /\ m \in Nat /\ n = IF n >= HARDENED THEN m + HARDENED ELSE m
  <2>1. m \in 0 .. HARDENED - 1
    BY <1>1
  <2>2. m = IF n >= HARDENED THEN n - HARDENED ELSE n
    <3>1. CASE n >= HARDENED
      <4>1. 1 \in Nat /\ 1 * HARDENED <= n /\ n < (1 + 1) * HARDENED
        BY <1>1, <3>1
      <4>2. n % HARDENED = n - 1 * HARDENED
        BY <1>1, <4>1, QuotientIs, Zenon
      <4>. QED
        BY <1>1, <3>1, <4>2
    <3>2. CASE n < HARDENED
      BY <1>1, <3>2
    <3>. QED
      BY <1>1, <3>1, <3>2
  <2>3. HARDENED <= Power(10, MAX_INT_DIGITS) /\ Power(10, MAX_INT_DIGITS) \in Nat
    <3>1. MAX_INT_DIGITS \in Nat
      BY Sizes
    <3>2. Power(10, MAX_INT_DIGITS) \in Nat
      BY <3>1, PowerSteps
    <3>. QED
      BY <3>2, SizesAssumption, Zenon
  <2> HIDE DEF m
  <2>. QED
    BY <1>1, <2>1, <2>2, <2>3 DEF Amount
<1> HIDE DEF m
<1>3. s \in Seq(Digit) /\ Len(s) \in 1 .. MAX_INT_DIGITS /\ DecimalOf(s) = m
  BY <1>2, NumberRead
<1> HIDE DEF s
<1>4. Digit \subseteq PathChar /\ 39 \in PathChar
  BY DEF PathChar
<1>5. s \in Seq(PathChar) /\ Mark(n) \in Seq(PathChar) /\ Len(Mark(n)) \in 0 .. 1
  <2>1. s \in Seq(PathChar)
    BY <1>3, <1>4, SeqMonotonic
  <2>2. Mark(n) \in Seq(PathChar) /\ Len(Mark(n)) \in 0 .. 1
    BY <1>4 DEF Mark
  <2>. QED
    BY <2>1, <2>2
<1>6. ComponentText(n) = s \o Mark(n)
  BY DEF ComponentText, s, m
<1>7. Joins(s \o Mark(n), s, Mark(n), PathChar)
  BY <1>5, Joined, Zenon
<1>8. s \o Mark(n) \in Seq(PathChar) /\ Len(s \o Mark(n)) = Len(s) + Len(Mark(n))
  BY <1>7, Zenon DEF Joins
<1>9. MAX_INT_DIGITS \in Nat
  BY Sizes
<1>10. Len(ComponentText(n)) \in 1 .. MAX_INT_DIGITS + 1
  BY <1>3, <1>5, <1>6, <1>8, <1>9, SMTT(30)
<1>11. ASSUME NEW q \in Seq(Nat)
       PROVE  FoldUp(PathStep, Append(q, 0), s \o Mark(n)) = Append(q, n)
  <2>1. Append(q, 0) \in ReadPath /\ Append(q, m) \in ReadPath
    BY <1>2, PathStepIs, Zenon
  <2>2. Chains(PathStep, Append(q, 0), PathChar)
    BY <2>1, PathFolds, Zenon
  <2>3. FoldUp(PathStep, Append(q, 0), s) = Append(q, m)
    BY <1>3, ReadDigits, Zenon
  <2>4. FoldUp(PathStep, Append(q, 0), s \o Mark(n)) = FoldUp(PathStep, Append(q, m), Mark(n))
    BY <1>5, <2>2, <2>3, Zenon DEF Chains
  <2>5. CASE n >= HARDENED
    <3>1. Mark(n) = Append(<<>>, 39)
      BY <2>5 DEF Mark
    <3>2. Grows(PathStep, Append(q, m), PathChar) /\ FoldUp(PathStep, Append(q, m), <<>>) = Append(q, m)
      BY <2>1, PathFolds, Zenon
    <3>3. <<>> \in Seq(PathChar)
      OBVIOUS
    <3>4. FoldUp(PathStep, Append(q, m), Append(<<>>, 39)) = PathStep[<<Append(q, m), 39>>]
      BY <1>4, <3>2, <3>3, Zenon DEF Grows
    <3>5. PathStep[<<Append(q, m), 39>>] = Append(q, m + HARDENED)
      BY <1>2, PathStepIs, Zenon
    <3>6. n = m + HARDENED
      BY <1>2, <2>5
    <3>. QED
      BY <2>4, <3>1, <3>4, <3>5, <3>6, Zenon
  <2>6. CASE ~(n >= HARDENED)
    <3>1. Mark(n) = <<>> /\ n = m
      BY <1>2, <2>6 DEF Mark
    <3>2. FoldUp(PathStep, Append(q, m), <<>>) = Append(q, m)
      BY <2>1, PathFolds, Zenon
    <3>. QED
      BY <2>4, <3>1, <3>2, Zenon
  <2>. QED
    BY <2>5, <2>6
<1>. QED
  BY <1>5, <1>6, <1>8, <1>10, <1>11 DEF s, m

LEMMA PathChars == PathChar \subseteq Chars /\ Digit \subseteq PathChar /\ 47 \in PathChar /\ 39 \in PathChar
                     /\ PathChar \subseteq Byte
  BY DEF PathChar, Chars, Digit, Byte

LEMMA AddsComponent ==
  /\ Folds(AddComponent, <<>>, Seq(Byte), Nat)
  /\ \A t \in Seq(Byte), n \in PathComponent :
       /\ n \in Nat
       /\ AddComponent[<<t, n>>] = (IF t = <<>> THEN <<>> ELSE Append(t, 47)) \o ComponentText(n)
<1> DEFINE Lead(t) == IF t = <<>> THEN <<>> ELSE Append(t, 47)
           A(t, n) == (Lead(t) \o number_to_string(n % HARDENED)) \o Mark(n)
<1>1. HARDENED \in Nat \ {0}
  BY Sizes
<1>2. AddComponent = [p \in Seq(Byte) \X Nat |-> A(p[1], p[2])]
  BY Zenon DEF AddComponent, Mark
<1>3. ASSUME NEW n \in Nat PROVE number_to_string(n % HARDENED) \in Seq(Byte) /\ Mark(n) \in Seq(Byte)
  <2>1. n % HARDENED \in Amount
    <3>1. n % HARDENED \in 0 .. HARDENED - 1
      BY <1>1
    <3>2. MAX_INT_DIGITS \in Nat
      BY Sizes
    <3>3. Power(10, MAX_INT_DIGITS) \in Nat
      BY <3>2, PowerSteps
    <3>4. HARDENED <= Power(10, MAX_INT_DIGITS)
      BY SizesAssumption, Zenon
    <3>. QED
      BY <1>1, <3>1, <3>3, <3>4 DEF Amount
  <2>2. number_to_string(n % HARDENED) \in Seq(Digit)
    BY <2>1, NumberRead
  <2>3. Digit \subseteq Byte
    BY DEF Digit, Byte
  <2>4. Mark(n) \in Seq(Byte)
    <3>1. 39 \in Byte
      BY DEF Byte
    <3>. QED
      BY <3>1 DEF Mark
  <2>. QED
    BY <2>2, <2>3, <2>4, SeqMonotonic
<1>4. ASSUME NEW t \in Seq(Byte) PROVE Lead(t) \in Seq(Byte)
  BY PathChars
<1> HIDE DEF Lead
<1>5. ASSUME NEW t \in Seq(Byte), NEW n \in Nat PROVE A(t, n) \in Seq(Byte)
  <2>1. Lead(t) \in Seq(Byte) /\ number_to_string(n % HARDENED) \in Seq(Byte) /\ Mark(n) \in Seq(Byte)
    BY <1>3, <1>4
  <2>2. Lead(t) \o number_to_string(n % HARDENED) \in Seq(Byte)
    BY <2>1, ConcatProperties, Zenon
  <2>. QED
    BY <2>1, <2>2, ConcatProperties, Zenon
<1> HIDE DEF A
<1>6. AddComponent \in [Seq(Byte) \X Nat -> Seq(Byte)]
  BY <1>2, <1>5
<1>7. ASSUME NEW t \in Seq(Byte), NEW n \in Nat
      PROVE  AddComponent[<<t, n>>] = Lead(t) \o ComponentText(n)
  <2>1. <<t, n>> \in Seq(Byte) \X Nat
    OBVIOUS
  <2>2. AddComponent[<<t, n>>] = A(t, n)
    BY <1>2, <2>1, Zenon
  <2>3. (Lead(t) \o number_to_string(n % HARDENED)) \o Mark(n)
          = Lead(t) \o (number_to_string(n % HARDENED) \o Mark(n))
    <3>1. Lead(t) \in Seq(Byte) /\ number_to_string(n % HARDENED) \in Seq(Byte) /\ Mark(n) \in Seq(Byte)
      BY <1>3, <1>4
    <3> DEFINE x == Lead(t)
               y == number_to_string(n % HARDENED)
               z == Mark(n)
    <3> HIDE DEF x, y, z
    <3>2. x \in Seq(Byte) /\ y \in Seq(Byte) /\ z \in Seq(Byte)
      BY <3>1, Zenon DEF x, y, z
    <3>3. (x \o y) \o z = x \o (y \o z)
      <4>1. Regrouped(x, y, z)
        BY <3>2, Regroups, Zenon
      <4>. QED
        BY <4>1, Zenon DEF Regrouped
    <3>. QED
      BY <3>3, Zenon DEF x, y, z
  <2>. QED
    BY <2>2, <2>3, Zenon DEF A, ComponentText
<1>8. Folds(AddComponent, <<>>, Seq(Byte), Nat)
  <2>1. <<>> \in Seq(Byte)
    OBVIOUS
  <2>. QED
    BY <1>6, <2>1, Zenon DEF Folds
<1>9. \A n \in PathComponent : n \in Nat
  BY <1>1 DEF PathComponent
<1>. QED
  BY <1>7, <1>8, <1>9, Zenon DEF Lead

\* The text of a path: how long it is, and what is read from it.
Renders(u) ==
  LET t == bip32_path_to_string(u)
  IN /\ t \in Seq(PathChar) /\ Len(t) \in Nat /\ Len(t) <= (MAX_INT_DIGITS + 2) * Len(u)
     /\ t = <<>> <=> u = <<>>
     /\ u # <<>> => PathRead(t) = u

LEMMA RendersMore ==
  ASSUME NEW v \in Seq(PathComponent), NEW n \in PathComponent, Renders(v)
  PROVE  Renders(Append(v, n))
<1> DEFINE t == bip32_path_to_string(v)
           l == IF t = <<>> THEN <<>> ELSE Append(t, 47)
           c == ComponentText(n)
           u == Append(v, n)
           m == MAX_INT_DIGITS
<1>1. /\ t \in Seq(PathChar) /\ Len(t) \in Nat /\ Len(t) <= (m + 2) * Len(v)
      /\ t = <<>> <=> v = <<>>
      /\ v # <<>> => PathRead(t) = v
  BY DEF Renders
<1>2. m \in Nat
  BY Sizes
<1>3. /\ u \in Seq(PathComponent) /\ Len(u) = Len(v) + 1 /\ Len(v) \in Nat /\ u # <<>>
  <2>1. u \in Seq(PathComponent) /\ Len(u) = Len(v) + 1
    BY AppendProperties
  <2>2. Len(v) \in Nat
    BY LenProperties
  <2>. QED
    BY <2>1, <2>2, EmptySeq
<1>4. c \in Seq(PathChar) /\ Len(c) \in 1 .. m + 1
      /\ \A q \in Seq(Nat) : FoldUp(PathStep, Append(q, 0), c) = Append(q, n)
  BY ReadComponent, Zenon
<1>5. PathComponent \subseteq Nat
  <2>1. HARDENED \in Nat
    BY Sizes
  <2>. QED
    BY <2>1 DEF PathComponent
<1>6. v \in Seq(Nat) /\ u = Append(v, n)
  BY <1>5, SeqMonotonic
<1>7. bip32_path_to_string(u) = l \o c
  <2>1. Grows(AddComponent, <<>>, Nat)
    BY AddsComponent, FoldUpGrows, Zenon
  <2>2. bip32_path_to_string(u) = AddComponent[<<t, n>>]
    BY <1>5, <1>6, <2>1, Zenon DEF Grows, bip32_path_to_string
  <2>3. t \in Seq(Byte)
    BY <1>1, PathChars, SeqMonotonic
  <2>. QED
    BY <2>2, <2>3, AddsComponent, Zenon
<1>8. l \in Seq(PathChar) /\ Len(l) \in Nat /\ Len(l) <= Len(t) + 1
  <2>1. CASE t = <<>>
    BY <1>1, <2>1
  <2>2. CASE t # <<>>
    <3>1. Append(t, 47) \in Seq(PathChar) /\ Len(Append(t, 47)) = Len(t) + 1
      BY <1>1, PathChars, AppendProperties
    <3>. QED
      BY <1>1, <2>2, <3>1
  <2>. QED
    BY <2>1, <2>2
<1>9. <<0>> = Append(<<>>, 0) /\ <<>> \in Seq(Nat) /\ <<0>> \in ReadPath
  <2>1. <<0>> = Append(<<>>, 0) /\ <<>> \in Seq(Nat)
    OBVIOUS
  <2>. QED
    BY <2>1, PathStepIs, Zenon
<1> HIDE DEF t, c, u, m
<1>10. FoldUp(PathStep, <<0>>, l \o c) = u
  <2>1. Chains(PathStep, <<0>>, PathChar) /\ Grows(PathStep, <<0>>, PathChar)
    BY <1>9, PathFolds, Zenon
  <2>2. CASE v = <<>>
    <3>1. l \o c = c
      <4>1. l = <<>>
        BY <1>1, <2>2
      <4>. QED
        BY <1>4, <4>1, ConcatEmptySeq, Zenon
    <3>2. FoldUp(PathStep, Append(<<>>, 0), c) = Append(<<>>, n)
      BY <1>4, <1>9, Zenon
    <3>. QED
      BY <1>6, <1>9, <2>2, <3>1, <3>2, Zenon
  <2>3. CASE v # <<>>
    <3>1. l = Append(t, 47) /\ FoldUp(PathStep, <<0>>, t) = v
      BY <1>1, <2>3, Zenon DEF PathRead
    <3>2. FoldUp(PathStep, <<0>>, l) = PathStep[<<v, 47>>]
      BY <1>1, <2>1, <3>1, PathChars, Zenon DEF Grows
    <3>3. PICK w \in Seq(Nat), k \in Nat : v = Append(w, k)
      BY <1>6, <2>3, SequenceEmptyOrAppend
    <3>4. PathStep[<<v, 47>>] = Append(v, 0)
      BY <3>3, PathStepIs, Zenon
    <3>5. FoldUp(PathStep, <<0>>, l \o c) = FoldUp(PathStep, FoldUp(PathStep, <<0>>, l), c)
      BY <1>4, <1>8, <2>1, Zenon DEF Chains
    <3>6. FoldUp(PathStep, <<0>>, l \o c) = FoldUp(PathStep, Append(v, 0), c)
      BY <3>2, <3>4, <3>5, Zenon
    <3>. QED
      BY <1>4, <1>6, <3>6, Zenon
  <2>. QED
    BY <2>2, <2>3
<1> HIDE DEF l
<1>11. Joins(l \o c, l, c, PathChar)
  BY <1>4, <1>8, Joined, Zenon
<1>12. l \o c \in Seq(PathChar) /\ Len(l \o c) = Len(l) + Len(c)
  BY <1>11, Zenon DEF Joins
<1>13. Len(l \o c) \in Nat /\ Len(l \o c) <= (m + 2) * Len(u) /\ Len(l \o c) # 0
  <2> DEFINE a == Len(l \o c)
             b == Len(l)
             d == Len(t)
             e == Len(c)
             x == (m + 2) * Len(v)
             y == (m + 2) * Len(u)
  <2>1. y = x + (m + 2) /\ x \in Nat
    BY <1>2, <1>3
  <2>2. b \in Nat /\ d \in Nat /\ e \in 1 .. m + 1 /\ a = b + e /\ b <= d + 1 /\ d <= x
    BY <1>1, <1>4, <1>8, <1>12
  <2> HIDE DEF a, b, d, e, x, y
  <2>3. a \in Nat /\ a <= y /\ a # 0
    BY <1>2, <2>1, <2>2
  <2>. QED
    BY <2>3, Zenon DEF a, y
<1>14. l \o c # <<>>
  BY <1>12, <1>13, EmptySeq
<1>15. bip32_path_to_string(Append(v, n)) = l \o c /\ Append(v, n) = u /\ m = MAX_INT_DIGITS
  BY <1>7 DEF u, m
<1>. QED
  BY <1>3, <1>10, <1>12, <1>13, <1>14, <1>15, Zenon DEF Renders, PathRead

LEMMA PathRendered ==
  ASSUME NEW path \in Seq(PathComponent)
  PROVE  Renders(path)
<1> DEFINE S == {n \in Nat : \A u \in Seq(PathComponent) : Len(u) = n => Renders(u)}
<1>1. 0 \in S
  <2>1. bip32_path_to_string(<<>>) = <<>>
    BY AddsComponent, FoldUpEmpty, Zenon DEF bip32_path_to_string
  <2>2. MAX_INT_DIGITS \in Nat
    BY Sizes
  <2>3. <<>> \in Seq(PathChar) /\ Len(<<>>) = 0 /\ 0 <= (MAX_INT_DIGITS + 2) * 0
    BY <2>2
  <2>4. Renders(<<>>)
    BY <2>1, <2>3 DEF Renders
  <2>. QED
    BY <2>4, EmptySeq
<1>2. ASSUME NEW n \in Nat, n \in S PROVE n + 1 \in S
  <2> SUFFICES ASSUME NEW u \in Seq(PathComponent), Len(u) = n + 1 PROVE Renders(u)
    OBVIOUS
  <2>1. u # <<>>
    BY EmptySeq
  <2>2. PICK v \in Seq(PathComponent), c \in PathComponent : u = Append(v, c)
    BY <2>1, SequenceEmptyOrAppend
  <2>3. Len(v) = n
    <3>1. Len(Append(v, c)) = Len(v) + 1 /\ Len(v) \in Nat
      BY AppendProperties, LenProperties
    <3>. QED
      BY <2>2, <3>1
  <2>4. Renders(v)
    BY <1>2, <2>3
  <2>. QED
    BY <2>2, <2>4, RendersMore, Zenon
<1>. HIDE DEF S
<1>3. Nat \subseteq S
  BY <1>1, <1>2, Induction
<1>4. Len(path) \in Nat
  BY LenProperties
<1>. QED
  BY <1>3, <1>4 DEF S

\* The components of a path that is not refused.
LEMMA PathReceived ==
  ASSUME NEW wire \in Seq(0 .. UNIT - 1), PathAccepted(wire)
  PROVE  /\ PathOf(wire) \in Seq(PathComponent) /\ Len(PathOf(wire)) \in 1 .. MAX_BIP32_PATH
         /\ DOMAIN PathOf(wire) = 1 .. Len(PathOf(wire))
<1> DEFINE k == wire[1]
           l == Len(wire)
<1>1. UNIT \in Nat \ {0} /\ HARDENED \in Nat \ {0} /\ MAX_BIP32_PATH \in Nat
  BY Sizes
<1>2. k \in Nat /\ l \in Nat /\ l - 1 >= k * 2 /\ k \in 1 .. MAX_BIP32_PATH
  BY <1>1, LenProperties DEF PathAccepted
<1>3. \A i \in 1 .. l : wire[i] \in 0 .. UNIT - 1
  BY ElementOfSeq
<1>4. \A x, y \in 0 .. UNIT - 1 : x * UNIT + y \in PathComponent
  <2> SUFFICES ASSUME NEW x \in 0 .. UNIT - 1, NEW y \in 0 .. UNIT - 1
               PROVE  x * UNIT + y \in PathComponent
    OBVIOUS
  <2> DEFINE u == UNIT
             z == x * u
             w == u * u
  <2>1. u \in Nat \ {0} /\ x \in Nat /\ x <= u - 1 /\ y \in Nat /\ y <= u - 1
    BY <1>1
  <2> HIDE DEF u
  <2>2. z \in Nat /\ w \in Nat /\ z <= w - u
    <3>1. x + 1 <= u /\ x + 1 \in Nat
      BY <2>1
    <3>2. \A a, b, c \in Nat : a <= b => a * c <= b * c
      BY SMTT(30)
    <3>3. (x + 1) * u <= u * u
      BY <2>1, <3>1, <3>2
    <3>4. (x + 1) * u = x * u + u /\ x * u \in Nat /\ u * u \in Nat
      BY <2>1
    <3>. QED
      BY <2>1, <3>3, <3>4
  <2>3. 2 * HARDENED = w
    BY SizesAssumption, Zenon DEF w, u
  <2> HIDE DEF z, w
  <2>4. z + y \in 0 .. 2 * HARDENED - 1
    BY <1>1, <2>1, <2>2, <2>3
  <2>. QED
    BY <2>4 DEF PathComponent, z, u
<1>5. \A i \in 1 .. k : Component(wire, i) \in PathComponent
  <2> TAKE i \in 1 .. k
  <2>1. 2 * i \in 1 .. l /\ 2 * i + 1 \in 1 .. l
    BY <1>2
  <2>. QED
    BY <1>3, <1>4, <2>1 DEF Component
<1>6. PathOf(wire) = [i \in 1 .. k |-> Component(wire, i)]
  BY Zenon DEF PathOf
<1> HIDE DEF k, l
<1>7. PathOf(wire) \in [1 .. k -> PathComponent]
  BY <1>5, <1>6, Zenon
<1>8. PathOf(wire) \in Seq(PathComponent) /\ Len(PathOf(wire)) = k /\ DOMAIN PathOf(wire) = 1 .. k
  BY <1>2, <1>7, SeqOfFunction, Zenon
<1>. QED
  BY <1>2, <1>8, Zenon

\* There is room for all of it.
LEMMA PathShown ==
  ASSUME NEW path \in Seq(PathComponent), Len(path) \in 1 .. MAX_BIP32_PATH
  PROVE  /\ PathFits(path)
         /\ bip32_path_to_string(path) \in Seq(Chars) /\ Len(bip32_path_to_string(path)) <= VALUE_WIDTH
         /\ PathRead(bip32_path_to_string(path)) = path
<1>1. MAX_INT_DIGITS \in Nat /\ VALUE_WIDTH \in Nat /\ MAX_BIP32_PATH \in Nat
  BY Sizes
<1>2. (MAX_INT_DIGITS + 2) * MAX_BIP32_PATH <= VALUE_WIDTH
  BY SizesAssumption, Zenon
<1>3. ASSUME NEW n \in Nat, n <= Len(path)
      PROVE  (MAX_INT_DIGITS + 2) * n <= VALUE_WIDTH /\ (MAX_INT_DIGITS + 2) * n \in Nat
  <2> DEFINE a == MAX_INT_DIGITS + 2
  <2>1. a \in Nat
    BY <1>1
  <2> HIDE DEF a
  <2>2. \A i, j \in Nat : i <= j => a * i <= a * j /\ a * i \in Nat /\ a * j \in Nat
    BY <2>1, SMTT(30)
  <2>3. n <= MAX_BIP32_PATH
    BY <1>1, <1>3
  <2>4. a * MAX_BIP32_PATH <= VALUE_WIDTH
    BY <1>2, Zenon DEF a
  <2>5. a * n <= VALUE_WIDTH /\ a * n \in Nat
    <3>1. a * n <= a * MAX_BIP32_PATH /\ a * n \in Nat /\ a * MAX_BIP32_PATH \in Nat
      BY <1>1, <2>2, <2>3, Zenon
    <3> DEFINE x == a * n
               y == a * MAX_BIP32_PATH
               w == VALUE_WIDTH
    <3>2. x \in Nat /\ y \in Nat /\ w \in Nat /\ x <= y /\ y <= w
      BY <1>1, <2>4, <3>1, Zenon
    <3> HIDE DEF x, y, w
    <3>3. x <= w /\ x \in Nat
      BY <3>2
    <3>. QED
      BY <3>3, Zenon DEF x, w
  <2>. QED
    BY <2>5, Zenon DEF a
<1>4. Renders(path)
  BY PathRendered
<1> DEFINE t == bip32_path_to_string(path)
<1>5. t \in Seq(PathChar) /\ Len(t) \in Nat /\ Len(t) <= (MAX_INT_DIGITS + 2) * Len(path)
  BY <1>4, Zenon DEF Renders
<1>6. PathRead(t) = path
  <2>1. path # <<>>
    BY EmptySeq
  <2>. QED
    BY <1>4, <2>1, Zenon DEF Renders
<1>7. t \in Seq(Chars)
  BY <1>5, PathChars, SeqMonotonic
<1> HIDE DEF t
<1>8. Len(t) <= VALUE_WIDTH
  <2>1. Len(path) \in Nat /\ Len(path) <= Len(path)
    BY LenProperties
  <2>2. (MAX_INT_DIGITS + 2) * Len(path) <= VALUE_WIDTH /\ (MAX_INT_DIGITS + 2) * Len(path) \in Nat
    BY <1>3, <2>1
  <2>. QED
    BY <1>1, <1>5, <2>2
<1>9. ASSUME NEW i \in 1 .. Len(path)
      PROVE  LET written == Len(bip32_path_to_string(SubSeq(path, 1, i - 1))) + (IF i = 1 THEN 0 ELSE 1)
             IN VALUE_WIDTH + 1 - written >= MAX_INT_DIGITS + 1
  <2> DEFINE v == SubSeq(path, 1, i - 1)
             s == bip32_path_to_string(v)
  <2>1. i - 1 \in Nat /\ i \in Nat /\ i <= Len(path) /\ Len(path) \in Nat
    BY LenProperties
  <2>2. v \in Seq(PathComponent) /\ Len(v) = i - 1
    BY <2>1
  <2>3. Renders(v)
    BY <2>2, PathRendered
  <2> HIDE DEF v
  <2>4. Len(s) \in Nat /\ Len(s) <= (MAX_INT_DIGITS + 2) * Len(v)
    BY <2>3, Zenon DEF Renders
  <2>5. (MAX_INT_DIGITS + 2) * i <= VALUE_WIDTH /\ (MAX_INT_DIGITS + 2) * i \in Nat
    BY <1>3, <2>1
  <2> DEFINE n == Len(s)
             x == (MAX_INT_DIGITS + 2) * i
             y == (MAX_INT_DIGITS + 2) * (i - 1)
  <2>6. x = y + (MAX_INT_DIGITS + 2) /\ y \in Nat
    BY <1>1, <2>1
  <2>7. n \in Nat /\ n <= y /\ x <= VALUE_WIDTH
    BY <2>2, <2>4, <2>5, Zenon
  <2> HIDE DEF n, x, y, s
  <2>8. \A e \in {0, 1} : VALUE_WIDTH + 1 - (n + e) >= MAX_INT_DIGITS + 1
    <3> DEFINE m == MAX_INT_DIGITS
               w == VALUE_WIDTH
    <3>1. m \in Nat /\ w \in Nat /\ x = y + (m + 2) /\ y \in Nat /\ n \in Nat /\ n <= y /\ x <= w
      BY <1>1, <2>6, <2>7
    <3> HIDE DEF m, w
    <3>2. \A e \in {0, 1} : w + 1 - (n + e) >= m + 1
      BY <3>1
    <3>. QED
      BY <3>2, Zenon DEF m, w
  <2>9. (IF i = 1 THEN 0 ELSE 1) \in {0, 1}
    OBVIOUS
  <2>10. VALUE_WIDTH + 1 - (n + (IF i = 1 THEN 0 ELSE 1)) >= MAX_INT_DIGITS + 1
    BY <2>8, <2>9, Zenon
  <2>. QED
    BY <2>10, Zenon DEF n, s, v
<1>10. PathFits(path)
  <2>1. DOMAIN path = 1 .. Len(path)
    BY LenProperties
  <2>. QED
    BY <1>9, <2>1, Zenon DEF PathFits
<1>. QED
  BY <1>6, <1>7, <1>8, <1>10, Zenon DEF t

-----------------------------------------------------------------------------
(* Messages *)

Continued(c, b) == IF Continues(b) THEN c ELSE Append(c, IF b \in 32 .. 126 THEN b ELSE 42)

\* One byte more, as it is written and as it is read.
ByteWritten(w, b) ==
  IF w.skip > 0 THEN [w EXCEPT !.skip = @ - 1]
  ELSE IF Displayable(b) THEN [w EXCEPT !.text = Append(@, b)]
  ELSE [text |-> Append(w.text, 42), skip |-> Following(b)]

LEMMA MessageFolds ==
  /\ Folds(AddByte, [text |-> <<>>, skip |-> 0], Writer, Byte)
  /\ \A w \in Writer, b \in Byte : AddByte[<<w, b>>] = ByteWritten(w, b)
  /\ Folds(AddCharacter, <<>>, Seq(Byte), Byte)
  /\ \A c \in Seq(Byte), b \in Byte : AddCharacter[<<c, b>>] = Continued(c, b)
<1>1. ASSUME NEW w \in Writer, NEW b \in Byte PROVE ByteWritten(w, b) \in Writer
  <2>1. /\ w = [text |-> w.text, skip |-> w.skip]
        /\ w.text \in Seq(Byte) /\ w.skip \in 0 .. 3 /\ 42 \in Byte /\ Following(b) \in 0 .. 3
    BY DEF Writer, Byte, Following
  <2>2. Append(w.text, b) \in Seq(Byte) /\ Append(w.text, 42) \in Seq(Byte)
    BY <2>1, AppendProperties, ZenonT(30)
  <2>3. w.skip > 0 => w.skip - 1 \in 0 .. 3
    BY <2>1
  <2>4. CASE w.skip > 0
    BY <2>1, <2>3, <2>4 DEF ByteWritten, Writer
  <2>5. CASE ~(w.skip > 0) /\ Displayable(b)
    BY <2>1, <2>2, <2>5 DEF ByteWritten, Writer
  <2>6. CASE ~(w.skip > 0) /\ ~Displayable(b)
    BY <2>1, <2>2, <2>6 DEF ByteWritten, Writer
  <2>. QED
    BY <2>4, <2>5, <2>6
<1>2. AddByte = [p \in Writer \X Byte |-> ByteWritten(p[1], p[2])]
  BY Zenon DEF AddByte, ByteWritten
<1>3. ASSUME NEW c \in Seq(Byte), NEW b \in Byte PROVE Continued(c, b) \in Seq(Byte)
  <2>1. 42 \in Byte
    BY DEF Byte
  <2>2. Append(c, b) \in Seq(Byte) /\ Append(c, 42) \in Seq(Byte)
    BY <2>1, AppendProperties, ZenonT(30)
  <2>. QED
    BY <2>2, Zenon DEF Continued
<1>4. AddCharacter = [p \in Seq(Byte) \X Byte |-> Continued(p[1], p[2])]
  BY Zenon DEF AddCharacter, Continued
<1>5. AddByte \in [Writer \X Byte -> Writer]
  BY <1>1, <1>2
<1>6. AddCharacter \in [Seq(Byte) \X Byte -> Seq(Byte)]
  BY <1>3, <1>4
<1>7. <<>> \in Seq(Byte) /\ [text |-> <<>>, skip |-> 0] \in Writer
  BY DEF Writer
<1>8. ASSUME NEW w \in Writer, NEW b \in Byte PROVE AddByte[<<w, b>>] = ByteWritten(w, b)
  <2>1. <<w, b>> \in Writer \X Byte
    OBVIOUS
  <2>. QED
    BY <1>2, <2>1, Zenon
<1>9. ASSUME NEW c \in Seq(Byte), NEW b \in Byte PROVE AddCharacter[<<c, b>>] = Continued(c, b)
  <2>1. <<c, b>> \in Seq(Byte) \X Byte
    OBVIOUS
  <2>. QED
    BY <1>4, <2>1, Zenon
<1>. QED
  BY <1>5, <1>6, <1>7, <1>8, <1>9, Zenon DEF Folds

\* The j-th byte after the end would still belong to the last character.
Wants(u, j) == \E k \in 1 .. Len(u) : Len(u) + j <= k + Width(u[k])

\* What is written of a message so far: without a NUL, and, in UTF-8, its characters
\* while skip counts the bytes that are missing of the last one.
Writes(u) ==
  /\ Written(u) \in Writer
  /\ Written(u).text \in Seq(Chars)
  /\ IsUtf8(u) => /\ Written(u).text = CharactersOf(u)
                  /\ \A j \in Nat \ {0} : Wants(u, j) <=> j <= Written(u).skip

LEMMA WritesMore ==
  ASSUME NEW v \in Seq(Byte), NEW b \in Byte, Writes(v)
  PROVE  Writes(Append(v, b))
<1> DEFINE u == Append(v, b)
           w == Written(v)
           x == Written(u)
           n == Len(v)
<1>1. w \in Writer /\ w.text \in Seq(Chars) /\ w.skip \in 0 .. 3
  BY DEF Writes, Writer
<1>2. x = ByteWritten(w, b) /\ x \in Writer
  <2>1. Grows(AddByte, [text |-> <<>>, skip |-> 0], Byte)
    BY MessageFolds, FoldUpGrows, Zenon
  <2>2. x = AddByte[<<w, b>>]
    BY <2>1, Zenon DEF Written, Grows
  <2>3. u \in Seq(Byte)
    BY AppendProperties, Zenon
  <2>4. x \in Writer
    BY <2>3, MessageFolds, FoldUpType, Zenon DEF Written
  <2>. QED
    BY <1>1, <2>2, <2>4, MessageFolds, Zenon
<1>3. CharactersOf(u) = Continued(CharactersOf(v), b)
  <2>1. Grows(AddCharacter, <<>>, Byte)
    BY MessageFolds, FoldUpGrows, Zenon
  <2>2. CharactersOf(u) = AddCharacter[<<CharactersOf(v), b>>]
    BY <2>1, Zenon DEF CharactersOf, Grows
  <2>3. CharactersOf(v) \in Seq(Byte)
    BY MessageFolds, FoldUpType, Zenon DEF CharactersOf
  <2>. QED
    BY <2>2, <2>3, MessageFolds, Zenon
<1>4. /\ u \in Seq(Byte) /\ Len(u) = n + 1 /\ n \in Nat /\ u[n + 1] = b
      /\ DOMAIN u = 1 .. n + 1 /\ DOMAIN v = 1 .. n /\ \A i \in 1 .. n : u[i] = v[i]
  OBVIOUS
<1>5. x.text \in Seq(Chars)
  <2>1. 42 \in Chars /\ (Displayable(b) => b \in Chars)
    BY DEF Chars, Displayable
  <2>2. Append(w.text, 42) \in Seq(Chars) /\ (Displayable(b) => Append(w.text, b) \in Seq(Chars))
    BY <1>1, <2>1, AppendProperties, ZenonT(30)
  <2>3. x.text = IF w.skip > 0 THEN w.text ELSE IF Displayable(b) THEN Append(w.text, b)
                 ELSE Append(w.text, 42)
    BY <1>1, <1>2 DEF ByteWritten, Writer
  <2>. QED
    BY <1>1, <2>2, <2>3
<1> HIDE DEF u, w, x, n
<1>6. ASSUME IsUtf8(u)
      PROVE  x.text = CharactersOf(u) /\ \A j \in Nat \ {0} : Wants(u, j) <=> j <= x.skip
  <2>1. ASSUME NEW i \in 1 .. n
        PROVE  Continues(v[i]) <=> \E k \in 1 .. i - 1 : i <= k + Width(v[k])
    <3>1. i \in 1 .. n + 1 /\ \A k \in 1 .. i - 1 : k \in 1 .. n
      BY <1>4
    <3>2. Continues(u[i]) <=> \E k \in 1 .. i - 1 : i <= k + Width(u[k])
      BY <1>4, <1>6, <3>1, Zenon DEF IsUtf8
    <3>. QED
      BY <1>4, <3>1, <3>2, Zenon
  <2>2. IsUtf8(v)
    BY <1>4, <2>1, Zenon DEF IsUtf8
  <2>3. w.text = CharactersOf(v) /\ \A j \in Nat \ {0} : Wants(v, j) <=> j <= w.skip
    BY <2>2, Zenon DEF Writes, w
  <2>4. Continues(b) <=> w.skip > 0
    <3> DEFINE i == n + 1
    <3>1. i \in DOMAIN u /\ i - 1 = n /\ u[i] = b
      BY <1>4
    <3> HIDE DEF i
    <3>2. Continues(u[i]) <=> \E k \in 1 .. i - 1 : i <= k + Width(u[k])
      BY <1>6, <3>1, Zenon DEF IsUtf8
    <3>3. Continues(b) <=> \E k \in 1 .. n : n + 1 <= k + Width(v[k])
      BY <1>4, <3>1, <3>2, Zenon DEF i
    <3>4. Continues(b) <=> Wants(v, 1)
      BY <3>3, Zenon DEF Wants, n
    <3>5. 1 \in Nat \ {0}
      OBVIOUS
    <3>6. Wants(v, 1) <=> 1 <= w.skip
      BY <2>3, <3>5, Zenon
    <3>. QED
      BY <1>1, <3>4, <3>6
  <2>5. Width(b) \in 0 .. 3
    BY DEF Width
  <2>6. ASSUME NEW j \in Nat \ {0}
        PROVE  Wants(u, j) <=> (j + 1 <= w.skip \/ j <= Width(b))
    <3>1. Wants(u, j) <=> \E k \in 1 .. n + 1 : n + 1 + j <= k + Width(u[k])
      BY <1>4, Zenon DEF Wants
    <3>2. Wants(v, j + 1) <=> \E k \in 1 .. n : n + (j + 1) <= k + Width(v[k])
      BY Zenon DEF Wants, n
    <3>3. Wants(v, j + 1) <=> j + 1 <= w.skip
      <4>1. j + 1 \in Nat \ {0}
        OBVIOUS
      <4>. QED
        BY <2>3, <4>1, Zenon
    <3>4. n + (j + 1) = n + 1 + j
      BY <1>4
    <3>5. (\E k \in 1 .. n + 1 : n + 1 + j <= k + Width(u[k]))
            <=> (\E k \in 1 .. n : n + 1 + j <= k + Width(u[k])) \/ n + 1 + j <= n + 1 + Width(u[n + 1])
      <4>1. \A k : k \in 1 .. n + 1 <=> k \in 1 .. n \/ k = n + 1
        BY <1>4
      <4>. QED
        BY <4>1, Zenon
    <3>6. n + 1 + j <= n + 1 + Width(b) <=> j <= Width(b)
      BY <1>4, <2>5
    <3>7. (\E k \in 1 .. n : n + 1 + j <= k + Width(u[k])) <=> Wants(v, j + 1)
      BY <1>4, <3>2, <3>4, Zenon
    <3>8. u[n + 1] = b
      BY <1>4
    <3>9. Wants(u, j) <=> Wants(v, j + 1) \/ n + 1 + j <= n + 1 + Width(u[n + 1])
      BY <3>1, <3>5, <3>7, Zenon
    <3>10. n + 1 + j <= n + 1 + Width(u[n + 1]) <=> j <= Width(b)
      BY <3>6, <3>8, Zenon
    <3>. QED
      BY <3>3, <3>9, <3>10, Zenon
  <2>7. CASE w.skip > 0
    <3>1. x.text = w.text /\ x.skip = w.skip - 1
      BY <1>1, <1>2, <2>7 DEF ByteWritten, Writer
    <3>2. Width(b) = 0
      BY <2>4, <2>7 DEF Width, Continues, Byte
    <3>3. CharactersOf(u) = CharactersOf(v)
      BY <1>3, <2>4, <2>7, Zenon DEF Continued, u
    <3>4. \A j \in Nat \ {0} : (j + 1 <= w.skip \/ j <= Width(b)) <=> j <= x.skip
      BY <1>1, <3>1, <3>2
    <3>. QED
      BY <2>3, <2>6, <3>1, <3>3, <3>4, Zenon
  <2>8. CASE ~(w.skip > 0)
    <3>1. w.skip = 0
      BY <1>1, <2>8
    <3>2. ~Continues(b)
      BY <2>4, <2>8
    <3>3. CASE Displayable(b)
      <4>1. x.text = Append(w.text, b) /\ x.skip = 0
        BY <1>1, <1>2, <3>1, <3>3 DEF ByteWritten, Writer
      <4>2. Width(b) = 0
        BY <3>3 DEF Width, Displayable
      <4>3. CharactersOf(u) = Append(CharactersOf(v), b)
        BY <1>3, <3>2, <3>3, Zenon DEF Continued, Displayable, u
      <4>4. \A j \in Nat \ {0} : (j + 1 <= w.skip \/ j <= Width(b)) <=> j <= x.skip
        BY <3>1, <4>1, <4>2
      <4>. QED
        BY <2>3, <2>6, <4>1, <4>3, <4>4, Zenon
    <3>4. CASE ~Displayable(b)
      <4>1. x.text = Append(w.text, 42) /\ x.skip = Following(b)
        BY <1>1, <1>2, <3>1, <3>4 DEF ByteWritten, Writer
      <4>2. Width(b) = Following(b)
        BY DEF Width, Following, Byte
      <4>3. CharactersOf(u) = Append(CharactersOf(v), 42)
        BY <1>3, <3>2, <3>4, Zenon DEF Continued, Displayable, u
      <4>4. \A j \in Nat \ {0} : (j + 1 <= w.skip \/ j <= Width(b)) <=> j <= x.skip
        BY <3>1, <4>1, <4>2
      <4>. QED
        BY <2>3, <2>6, <4>1, <4>3, <4>4, Zenon
    <3>. QED
      BY <3>3, <3>4
  <2>. QED
    BY <2>7, <2>8
<1>. QED
  BY <1>2, <1>5, <1>6, Zenon DEF Writes, u, x

LEMMA MessageWritten ==
  ASSUME NEW message \in Seq(Byte)
  PROVE  Writes(message)
<1> DEFINE S == {n \in Nat : \A u \in Seq(Byte) : Len(u) = n => Writes(u)}
<1>1. 0 \in S
  <2>1. Written(<<>>) = [text |-> <<>>, skip |-> 0]
    BY MessageFolds, FoldUpEmpty, Zenon DEF Written
  <2>2. CharactersOf(<<>>) = <<>>
    BY MessageFolds, FoldUpEmpty, Zenon DEF CharactersOf
  <2>3. <<>> \in Seq(Byte) /\ <<>> \in Seq(Chars) /\ Len(<<>>) = 0
    OBVIOUS
  <2>4. Written(<<>>).text = <<>> /\ Written(<<>>).skip = 0 /\ Written(<<>>) \in Writer
    <3>1. Written(<<>>).text = <<>> /\ Written(<<>>).skip = 0
      <4>1. [text |-> <<>>, skip |-> 0].text = <<>> /\ [text |-> <<>>, skip |-> 0].skip = 0
        OBVIOUS
      <4>. QED
        BY <2>1, <4>1, Zenon
    <3>2. Written(<<>>) \in Writer
      BY <2>3, MessageFolds, FoldUpType, Zenon DEF Written
    <3>. QED
      BY <3>1, <3>2, Zenon
  <2>5. \A j \in Nat \ {0} : Wants(<<>>, j) <=> j <= 0
    <3>1. \A j : ~Wants(<<>>, j)
      BY <2>3 DEF Wants
    <3>2. \A j \in Nat \ {0} : ~(j <= 0)
      OBVIOUS
    <3>. QED
      BY <3>1, <3>2
  <2>6. Written(<<>>).text = CharactersOf(<<>>) /\ Written(<<>>).text \in Seq(Chars)
    BY <2>2, <2>3, <2>4, Zenon
  <2>7. \A j \in Nat \ {0} : Wants(<<>>, j) <=> j <= Written(<<>>).skip
    BY <2>4, <2>5, Zenon
  <2>8. Writes(<<>>)
    BY <2>4, <2>6, <2>7, Zenon DEF Writes
  <2>. QED
    BY <2>8, EmptySeq
<1>2. ASSUME NEW n \in Nat, n \in S PROVE n + 1 \in S
  <2> SUFFICES ASSUME NEW u \in Seq(Byte), Len(u) = n + 1 PROVE Writes(u)
    OBVIOUS
  <2>1. u # <<>>
    BY EmptySeq
  <2>2. PICK v \in Seq(Byte), b \in Byte : u = Append(v, b)
    BY <2>1, SequenceEmptyOrAppend
  <2>3. Len(v) = n
    <3>1. Len(Append(v, b)) = Len(v) + 1 /\ Len(v) \in Nat
      BY AppendProperties, LenProperties
    <3>. QED
      BY <2>2, <3>1
  <2>4. Writes(v)
    BY <1>2, <2>3
  <2>. QED
    BY <2>2, <2>4, WritesMore, Zenon
<1>. HIDE DEF S
<1>3. Nat \subseteq S
  BY <1>1, <1>2, Induction
<1>4. Len(message) \in Nat
  BY LenProperties
<1>. QED
  BY <1>3, <1>4 DEF S

\* What is left of a text without its last characters.
LEMMA Shortened ==
  ASSUME NEW s \in Seq(Chars), NEW k \in Nat
  PROVE  LET r == SubSeq(s, 1, Len(s) - k)
         IN /\ r \in Seq(Chars) /\ Len(r) \in Nat /\ Len(r) <= Len(s)
            /\ \A i \in 1 .. Len(r) : r[i] = s[i]
            /\ k = 0 => r = s
<1> DEFINE n == Len(s)
           r == SubSeq(s, 1, n - k)
<1>1. n \in Nat /\ 1 \in Int /\ n - k \in Int
  BY LenProperties
<1>2. \A i \in 1 .. n - k : s[i] \in Chars
  BY <1>1, ElementOfSeq
<1>3. /\ r \in Seq(Chars) /\ Len(r) = (IF 1 <= n - k THEN n - k - 1 + 1 ELSE 0)
      /\ \A i \in 1 .. n - k - 1 + 1 : r[i] = s[1 + i - 1]
  BY <1>1, <1>2, SubSeqProperties
<1> HIDE DEF r
<1>4. Len(r) \in Nat /\ Len(r) <= n /\ \A i \in 1 .. Len(r) : i \in 1 .. n - k - 1 + 1 /\ 1 + i - 1 = i
  BY <1>1, <1>3
<1>5. \A i \in 1 .. Len(r) : r[i] = s[i]
  BY <1>3, <1>4
<1>6. ASSUME k = 0 PROVE r = s
  <2>1. Len(r) = n
    BY <1>1, <1>3, <1>6
  <2>. QED
    BY <1>3, <1>5, <2>1, SeqEqual
<1>. QED
  BY <1>3, <1>4, <1>5, <1>6, Zenon DEF r, n

\* A beginning that is abridged.
LEMMA BeginsAbridged ==
  ASSUME NEW s \in Seq(Chars), NEW r \in Seq(Chars), Len(r) <= Len(s),
         \A i \in 1 .. Len(r) : r[i] = s[i]
  PROVE  Begins(handle_long_message(r), s)
<1> DEFINE h == handle_long_message(r)
<1>1. 46 \in Chars
  BY DEF Chars
<1>2. /\ h \in Seq(Chars) /\ Len(h) <= Len(r) /\ Abridged(h, r)
  BY <1>1, Abridges, Zenon
<1>3. Len(r) \in Nat /\ Len(s) \in Nat /\ Len(h) \in Nat /\ DISPLAY \in Nat
  BY <1>2, LenProperties, Sizes
<1> HIDE DEF h
<1>4. CASE Len(r) <= DISPLAY
  <2>1. h = r
    BY <1>2, <1>4, Zenon DEF Abridged
  <2>2. SubSeq(r, 1, Len(r)) = r
    OBVIOUS
  <2>3. SubSeq(s, 0 + 1, 0 + Len(r)) = r
    BY <1>3, Part
  <2>4. SubSeq(s, 1, Len(r)) = r
    BY <1>3, <2>3
  <2>5. IsPrefix(h, s)
    BY <2>1, <2>2, <2>4, Zenon DEF IsPrefix
  <2>. QED
    BY <2>1, <2>5, Zenon DEF Begins, h
<1>5. CASE ~(Len(r) <= DISPLAY)
  <2>1. Len(h) = DISPLAY /\ \A i \in 1 .. DISPLAY : h[i] = IF i > DISPLAY - 3 THEN 46 ELSE r[i]
    BY <1>2, <1>5, Zenon DEF Abridged
  <2>2. \A i \in 1 .. DISPLAY : i \in 1 .. Len(r)
    BY <1>3, <1>5
  <2>3. \A i \in 1 .. DISPLAY : h[i] = IF i > DISPLAY - 3 THEN 46 ELSE s[i]
    BY <2>1, <2>2, Zenon
  <2>4. Len(h) <= Len(s)
    BY <1>2, <1>3
  <2>. QED
    BY <2>1, <2>3, <2>4, Zenon DEF Begins, h
<1>. QED
  BY <1>4, <1>5

LEMMA TextWritten ==
  ASSUME NEW message \in Seq(Byte)
  PROVE  LET text == handle_long_message(replace_undisplayable(message))
         IN /\ text \in Seq(Chars) /\ Len(text) <= DISPLAY
            /\ IsUtf8(message) =>
                 IF EndsWithin(message) THEN Begins(text, CharactersOf(message))
                 ELSE Abridged(text, CharactersOf(message))
<1> DEFINE w == Written(message)
           r == replace_undisplayable(message)
           h == handle_long_message(r)
<1>1. Writes(message)
  BY MessageWritten
<1>2. w \in Writer /\ w.text \in Seq(Chars)
  BY <1>1, Zenon DEF Writes
<1>3. w.skip \in Nat
  BY <1>2 DEF Writer
<1>4. r = SubSeq(w.text, 1, Len(w.text) - w.skip)
  BY Zenon DEF replace_undisplayable
<1>5. /\ r \in Seq(Chars) /\ Len(r) <= Len(w.text) /\ \A i \in 1 .. Len(r) : r[i] = w.text[i]
      /\ w.skip = 0 => r = w.text
  <2> DEFINE s == w.text
             k == w.skip
  <2>1. s \in Seq(Chars) /\ k \in Nat
    BY <1>2, <1>3
  <2> HIDE DEF s, k
  <2> DEFINE q == SubSeq(s, 1, Len(s) - k)
  <2>2. /\ q \in Seq(Chars) /\ Len(q) <= Len(s)
        /\ \A i \in 1 .. Len(q) : q[i] = s[i] /\ (k = 0 => q = s)
    BY <2>1, Shortened
  <2>3. k = 0 => q = s
    BY <2>1, Shortened
  <2>. QED
    BY <1>4, <2>2, <2>3, Zenon DEF s, k
<1>6. 46 \in Chars
  BY DEF Chars
<1> HIDE DEF r
<1>7. h \in Seq(Chars) /\ Len(h) <= DISPLAY /\ Abridged(h, r)
  BY <1>5, <1>6, Abridges, Zenon
<1>8. ASSUME IsUtf8(message)
      PROVE  /\ w.text = CharactersOf(message)
             /\ EndsWithin(message) <=> w.skip # 0
  <2>1. w.text = CharactersOf(message) /\ \A j \in Nat \ {0} : Wants(message, j) <=> j <= w.skip
    BY <1>1, <1>8, Zenon DEF Writes
  <2>2. EndsWithin(message) <=> Wants(message, 1)
    <3>1. Len(message) \in Nat /\ DOMAIN message = 1 .. Len(message)
      BY LenProperties
    <3>2. \A i \in 1 .. Len(message) : i + Width(message[i]) > Len(message)
                                        <=> Len(message) + 1 <= i + Width(message[i])
      <4>1. \A b : Width(b) \in Nat
        BY DEF Width
      <4>. QED
        BY <3>1, <4>1
    <3>. QED
      BY <3>1, <3>2, Zenon DEF EndsWithin, Wants
  <2>3. 1 \in Nat \ {0} /\ (1 <= w.skip <=> w.skip # 0)
    BY <1>3
  <2>4. Wants(message, 1) <=> 1 <= w.skip
    BY <2>1, <2>3, Zenon
  <2>. QED
    BY <2>1, <2>2, <2>3, <2>4, Zenon
<1>9. Begins(h, w.text)
  <2> DEFINE s == w.text
  <2>1. s \in Seq(Chars) /\ Len(r) <= Len(s) /\ \A i \in 1 .. Len(r) : r[i] = s[i]
    BY <1>2, <1>5
  <2> HIDE DEF s
  <2>2. Begins(h, s)
    BY <1>5, <2>1, BeginsAbridged
  <2>. QED
    BY <2>2 DEF s
<1>. QED
  BY <1>5, <1>7, <1>8, <1>9, Zenon DEF r

\* copy_buffer clears what the buffer held.
LEMMA CopyShown ==
  ASSUME NEW buf \in Buffer, NEW text \in Seq(Chars), Len(text) <= VALUE_WIDTH
  PROVE  LET f == [i \in DOMAIN buf |-> IF i \in DOMAIN text THEN text[i] ELSE 0]
         IN f \in Buffer /\ Text(f) = text /\ \E i \in DOMAIN f : f[i] = 0
<1> DEFINE f == [i \in DOMAIN buf |-> IF i \in DOMAIN text THEN text[i] ELSE 0]
<1>1. VALUE_WIDTH \in Nat
  BY Sizes
<1>2. /\ text \in Seq(Byte) /\ Len(text) \in Nat /\ DOMAIN text = 1 .. Len(text)
  BY CharsType
<1>3. DOMAIN buf = 1 .. VALUE_WIDTH + 1
  BY DEF Buffer
<1>4. f \in Buffer
  <2>1. 0 \in Byte
    BY DEF Byte
  <2>. QED
    BY <1>2, <1>3, <2>1 DEF Buffer
<1>5. \A i \in 1 .. Len(text) : f[i] = text[i]
  BY <1>1, <1>2, <1>3
<1>6. f[Len(text) + 1] = 0 /\ Len(text) + 1 \in DOMAIN f
  BY <1>1, <1>2, <1>3
<1> HIDE DEF f
<1>7. Text(f) = text
  BY <1>4, <1>5, <1>6, TextIs
<1>. QED
  BY <1>4, <1>6, <1>7, Zenon DEF f

-----------------------------------------------------------------------------
(* Bits *)

Bit(x, k) == (x \div Power(2, k)) % 2

LEMMA Products ==
  \A a, b \in Nat : a * b \in Nat /\ a * b = b * a /\ (a # 0 /\ b # 0 => a * b # 0)
  BY SMTT(30)

LEMMA Associates == \A i, j, k \in Nat : (i * j) * k = i * (j * k)
  BY SMTT(30)

LEMMA Distributes == \A i, j, k \in Nat : (i + j) * k = i * k + j * k
  BY SMTT(30)

LEMMA Ordered == \A a, b, c \in Nat : a <= b => a * c <= b * c
  BY SMTT(30)

LEMMA DivIs ==
  ASSUME NEW n \in Nat, NEW d \in Nat \ {0}
  PROVE  /\ n \div d \in Nat /\ n % d \in 0 .. d - 1 /\ n % d \in Nat
         /\ n = (n \div d) * d + (n % d) /\ (n \div d) * d <= n /\ n < (n \div d + 1) * d
<1> DEFINE q == n \div d
           r == n % d
<1>1. q \in Nat /\ r \in 0 .. d - 1 /\ n = q * d + r
  <2>1. q \in Nat /\ r \in 0 .. d - 1
    OBVIOUS
  <2>2. n = d * q + r
    OBVIOUS
  <2>. QED
    BY <2>1, <2>2, Products
<1> HIDE DEF q, r
<1>2. q * d \in Nat /\ (q + 1) * d = q * d + 1 * d /\ 1 * d = d
  <2>1. d \in Nat /\ 1 \in Nat /\ q \in Nat
    BY <1>1
  <2>2. 1 * d = d
    OBVIOUS
  <2>3. (q + 1) * d = q * d + 1 * d
    BY <2>1, Distributes, ZenonT(30)
  <2>4. q * d \in Nat
    BY <2>1, Products, Zenon
  <2>. QED
    BY <2>2, <2>3, <2>4, Zenon
<1> DEFINE x == q * d
           y == (q + 1) * d
<1>3. x \in Nat /\ y = x + d /\ n = x + r
  BY <1>1, <1>2
<1> HIDE DEF x, y
<1>4. x <= n /\ n < y /\ r \in Nat
  BY <1>1, <1>3
<1>. QED
  BY <1>1, <1>4 DEF q, r, x, y

\* A quotient of a quotient.
LEMMA DivDiv ==
  ASSUME NEW n \in Nat, NEW a \in Nat \ {0}, NEW b \in Nat \ {0}
  PROVE  (n \div a) \div b = n \div (a * b)
<1> DEFINE m == n \div a
           q == m \div b
<1>1. m \in Nat /\ m * a <= n /\ n < (m + 1) * a
  BY DivIs
<1> HIDE DEF m
<1>2. q \in Nat /\ q * b <= m /\ m < (q + 1) * b
  BY <1>1, DivIs
<1> HIDE DEF q
<1>3. m + 1 <= (q + 1) * b /\ q * b \in Nat /\ (q + 1) * b \in Nat /\ m + 1 \in Nat
  <2>1. q * b \in Nat /\ (q + 1) * b \in Nat
    <3>1. q + 1 \in Nat /\ b \in Nat
      BY <1>2
    <3>. QED
      BY <1>2, <3>1, Products, Zenon
  <2> DEFINE y == (q + 1) * b
  <2>2. y \in Nat /\ m < y
    BY <1>2, <2>1
  <2> HIDE DEF y
  <2>3. m + 1 <= y /\ m + 1 \in Nat
    BY <1>1, <2>2
  <2>. QED
    BY <2>1, <2>3 DEF y
<1>4. (q * b) * a <= m * a /\ (m + 1) * a <= ((q + 1) * b) * a
  <2>1. a \in Nat
    OBVIOUS
  <2>. QED
    BY <1>1, <1>2, <1>3, <2>1, Ordered, Zenon
<1>5. (q * b) * a = q * (a * b) /\ ((q + 1) * b) * a = (q + 1) * (a * b)
  <2>1. a \in Nat /\ b \in Nat /\ q + 1 \in Nat
    BY <1>2
  <2>2. b * a = a * b
    BY <2>1, Products, Zenon
  <2>3. (q * b) * a = q * (b * a)
    BY <1>2, <2>1, Associates, ZenonT(30)
  <2>4. ((q + 1) * b) * a = (q + 1) * (b * a)
    BY <2>1, Associates, ZenonT(30)
  <2>. QED
    BY <2>2, <2>3, <2>4, Zenon
<1> DEFINE d == a * b
           x == q * d
           y == (q + 1) * d
<1>6. d \in Nat \ {0} /\ x \in Nat /\ y \in Nat
  <2>1. d \in Nat \ {0}
    BY Products
  <2> HIDE DEF d
  <2>2. q + 1 \in Nat /\ d \in Nat
    BY <1>2, <2>1
  <2>. QED
    BY <1>2, <2>1, <2>2, Products, Zenon
<1>7. x <= m * a /\ (m + 1) * a <= y /\ m * a \in Nat /\ (m + 1) * a \in Nat
  <2>1. a \in Nat
    OBVIOUS
  <2>. QED
    BY <1>1, <1>3, <1>4, <1>5, <2>1, Products, Zenon
<1>8. x <= n /\ n < y
  <2> DEFINE u == m * a
             v == (m + 1) * a
  <2>1. u \in Nat /\ v \in Nat /\ u <= n /\ n < v /\ x <= u /\ v <= y
    BY <1>1, <1>7, Zenon
  <2> HIDE DEF u, v, x, y
  <2>. QED
    BY <1>6, <2>1
<1> HIDE DEF d
<1>9. n \div d = q
  BY <1>2, <1>6, <1>8, QuotientIs
<1>. QED
  BY <1>9 DEF d, q, m

\* What is a multiple of twice a power does not change the bit of that power.
LEMMA BitDrops ==
  ASSUME NEW a \in Nat \ {0}, NEW c \in Nat, NEW y \in Nat
  PROVE  ((c * (2 * a) + y) \div a) % 2 = (y \div a) % 2
<1> DEFINE s == y \div a
           n == c * (2 * a) + y
           q == 2 * c + s
           x == s * a
           z == (s + 1) * a
           e == c * (2 * a)
<1>1. s \in Nat /\ x <= y /\ y < z
  BY DivIs
<1> HIDE DEF s
<1>2. x \in Nat /\ z \in Nat /\ e \in Nat
  <2>1. a \in Nat /\ s + 1 \in Nat /\ 2 * a \in Nat
    BY <1>1
  <2>. QED
    BY <1>1, <2>1, Products, Zenon
<1>3. q * a = e + x /\ (q + 1) * a = e + z
  <2>1. a \in Nat /\ s \in Nat /\ s + 1 \in Nat /\ 2 * c \in Nat /\ 2 \in Nat
    BY <1>1
  <2>2. (2 * c + s) * a = (2 * c) * a + x
    <3>1. \A k, i, j \in Nat : (k + i) * j = k * j + i * j
      BY Distributes, Zenon
    <3>2. \A i, j \in Nat : (2 * c + i) * j = (2 * c) * j + i * j
      BY <2>1, <3>1, Zenon
    <3>. QED
      BY <2>1, <3>2, Zenon
  <2>3. (2 * c + (s + 1)) * a = (2 * c) * a + z
    <3> DEFINE i == 2 * c
               k == s + 1
    <3>1. i \in Nat /\ k \in Nat /\ a \in Nat
      BY <2>1
    <3> HIDE DEF i, k
    <3>2. (i + k) * a = i * a + k * a
      BY <3>1, Distributes
    <3>. QED
      BY <3>2, Zenon DEF i, k
  <2>4. 2 * c = c * 2
    OBVIOUS
  <2>5. (c * 2) * a = e
    BY <2>1, Associates, ZenonT(30)
  <2>6. (2 * c) * a = e
    BY <2>4, <2>5, Zenon
  <2>7. (2 * c + s) * a = e + x
    BY <2>2, <2>6, Zenon
  <2>8. q + 1 = 2 * c + (s + 1)
    BY <1>1
  <2>9. (q + 1) * a = e + z
    BY <2>3, <2>6, <2>8, Zenon
  <2>. QED
    BY <2>7, <2>9, Zenon
<1>4. n = e + y /\ q \in Nat
  BY <1>1
<1>5. n \in Nat /\ q * a <= n /\ n < (q + 1) * a
  <2> HIDE DEF n, q, x, z, e
  <2>. QED
    BY <1>1, <1>2, <1>3, <1>4
<1>6. n \div a = q
  <2> HIDE DEF n, q
  <2>. QED
    BY <1>4, <1>5, QuotientIs
<1>7. q % 2 = s % 2
  BY <1>1
<1>. QED
  BY <1>6, <1>7 DEF s

LEMMA TwoPower ==
  ASSUME NEW k \in Nat
  PROVE  Power(2, k) \in Nat \ {0} /\ Power(2, k + 1) = 2 * Power(2, k)
BY PowerSteps, PowerPositive

LEMMA FirstPowers ==
  /\ Power(2, 0) = 1 /\ Power(2, 1) = 2 /\ Power(2, 2) = 4 /\ Power(2, 3) = 8 /\ Power(2, 4) = 16
  /\ Power(2, 5) = 32 /\ Power(2, 6) = 64 /\ Power(2, 7) = 128 /\ Power(2, 8) = 256
  /\ Power(2, 16) = 65536
<1>1. \A k \in Nat, n \in Nat : n = k + 1 => Power(2, n) = 2 * Power(2, k)
  BY TwoPower
<1>2. Power(2, 0) = 1
  BY PowerSteps
<1>3. Power(2, 1) = 2 /\ Power(2, 2) = 4 /\ Power(2, 3) = 8 /\ Power(2, 4) = 16
  BY <1>1, <1>2
<1>4. Power(2, 5) = 32 /\ Power(2, 6) = 64 /\ Power(2, 7) = 128 /\ Power(2, 8) = 256
  BY <1>1, <1>3
<1>5. Power(2, 9) = 512 /\ Power(2, 10) = 1024 /\ Power(2, 11) = 2048 /\ Power(2, 12) = 4096
  BY <1>1, <1>4
<1>6. Power(2, 13) = 8192 /\ Power(2, 14) = 16384 /\ Power(2, 15) = 32768 /\ Power(2, 16) = 65536
  BY <1>1, <1>5
<1>. QED
  BY <1>2, <1>3, <1>4, <1>6

LEMMA BitType ==
  ASSUME NEW x \in Nat, NEW k \in Nat
  PROVE  Bit(x, k) \in {0, 1}
<1>1. Power(2, k) \in Nat \ {0}
  BY TwoPower
<1>2. x \div Power(2, k) \in Nat
  BY <1>1, DivIs
<1>. QED
  BY <1>2 DEF Bit

LEMMA BitDiv ==
  ASSUME NEW x \in Nat, NEW a \in Nat, NEW s \in Nat
  PROVE  Bit(x \div Power(2, a), s) = Bit(x, a + s)
<1>1. Power(2, a) \in Nat \ {0} /\ Power(2, s) \in Nat \ {0}
  BY TwoPower
<1>2. 2 \in Nat
  OBVIOUS
<1>3. Power(2, a + s) = Power(2, a) * Power(2, s)
  BY <1>2, PowerSum, Zenon
<1>4. (x \div Power(2, a)) \div Power(2, s) = x \div (Power(2, a) * Power(2, s))
  BY <1>1, DivDiv, Zenon
<1>. QED
  BY <1>3, <1>4, Zenon DEF Bit

\* A power of two is a multiple of twice a smaller one.
LEMMA PowerParts ==
  ASSUME NEW w \in Nat, NEW k \in Nat, k < w
  PROVE  \E d \in Nat : \A q \in Nat : \E c \in Nat : q * Power(2, w) = c * (2 * Power(2, k))
<1> DEFINE a == Power(2, k)
           j == w - (k + 1)
           d == Power(2, j)
<1>1. j \in Nat /\ w = j + (k + 1) /\ k + 1 \in Nat /\ 2 \in Nat
  OBVIOUS
<1> HIDE DEF j
<1>2. Power(2, w) = d * Power(2, k + 1)
  <2>1. Power(2, j + (k + 1)) = Power(2, j) * Power(2, k + 1)
    BY <1>1, PowerSum, ZenonT(30)
  <2>. QED
    BY <1>1, <2>1, Zenon
<1>3. a \in Nat /\ d \in Nat /\ Power(2, k + 1) = 2 * a
  BY <1>1, TwoPower
<1> HIDE DEF a, d
<1>4. ASSUME NEW q \in Nat PROVE q * Power(2, w) = (q * d) * (2 * a) /\ q * d \in Nat
  <2> DEFINE e == 2 * a
  <2>1. e \in Nat
    BY <1>3
  <2>2. Power(2, w) = d * e
    BY <1>2, <1>3, Zenon
  <2> HIDE DEF e
  <2>3. q * (d * e) = (q * d) * e /\ q * d \in Nat
    BY <1>3, <2>1, Associates, Products
  <2>. QED
    BY <2>2, <2>3, Zenon DEF e
<1>. QED
  BY <1>3, <1>4, Zenon DEF a

LEMMA BitAbove ==
  ASSUME NEW v \in Nat, NEW b \in Nat, NEW w \in Nat, NEW k \in Nat, NEW x,
         k < w, x = v * Power(2, w) + b
  PROVE  Bit(x, k) = Bit(b, k)
<1> DEFINE a == Power(2, k)
<1>1. PICK c \in Nat : v * Power(2, w) = c * (2 * a)
  BY PowerParts
<1>2. a \in Nat \ {0}
  BY TwoPower
<1> HIDE DEF a
<1>3. ((c * (2 * a) + b) \div a) % 2 = (b \div a) % 2
  BY <1>2, BitDrops, Zenon
<1>. QED
  BY <1>1, <1>3, Zenon DEF Bit, a

LEMMA BitBelow ==
  ASSUME NEW v \in Nat, NEW b \in Nat, NEW w \in Nat, NEW k \in Nat, NEW u,
         w <= k, b < Power(2, w), u = v * Power(2, w) + b
  PROVE  Bit(u, k) = Bit(v, k - w)
<1> DEFINE p == Power(2, w)
           x == v * p
           n == x + b
<1>1. p \in Nat \ {0}
  BY TwoPower
<1>2. x \in Nat /\ (v + 1) * p = x + p
  <2>1. p \in Nat
    BY <1>1
  <2> HIDE DEF p
  <2>2. x \in Nat
    BY <2>1, Products
  <2>3. (v + 1) * p = x + p
    BY <2>1
  <2>. QED
    BY <2>2, <2>3
<1>3. n \in Nat /\ v * p <= n /\ n < (v + 1) * p
  <2>1. b < p
    OBVIOUS
  <2> HIDE DEF p
  <2> DEFINE y == (v + 1) * p
  <2>2. y = x + p
    BY <1>2
  <2> HIDE DEF x, y
  <2>3. n \in Nat /\ x <= n /\ n < y
    BY <1>1, <1>2, <2>1, <2>2
  <2>. QED
    BY <2>3 DEF x, y
<1>4. n \div p = v
  <2> HIDE DEF p, n
  <2>. QED
    BY <1>1, <1>3, QuotientIs
<1>5. k - w \in Nat /\ k = w + (k - w)
  OBVIOUS
<1>6. Bit(n \div p, k - w) = Bit(n, w + (k - w))
  <2> HIDE DEF n
  <2>. QED
    BY <1>3, <1>5, BitDiv, ZenonT(30)
<1>. QED
  BY <1>4, <1>5, <1>6

\* x is made of the bits of v and the w bits of b.
BitsJoin(x, v, w, b) ==
  /\ \A k \in 0 .. w - 1 : Bit(x, k) = Bit(b, k)
  /\ b < Power(2, w) => \A k \in Nat : w <= k => Bit(x, k) = Bit(v, k - w)

LEMMA BitJoin ==
  ASSUME NEW v \in Nat, NEW b \in Nat, NEW w \in Nat, NEW x, x = v * Power(2, w) + b
  PROVE  BitsJoin(x, v, w, b)
<1>1. ASSUME NEW k \in 0 .. w - 1 PROVE Bit(x, k) = Bit(b, k)
  BY BitAbove
<1>2. ASSUME b < Power(2, w), NEW k \in Nat, w <= k PROVE Bit(x, k) = Bit(v, k - w)
  BY <1>2, BitBelow
<1>. QED
  BY <1>1, <1>2, Zenon DEF BitsJoin

LEMMA BitMod ==
  ASSUME NEW x \in Nat, NEW w \in Nat, NEW k \in Nat, k < w
  PROVE  Bit(x % Power(2, w), k) = Bit(x, k)
<1> DEFINE p == Power(2, w)
           q == x \div p
           r == x % p
<1>1. p \in Nat \ {0}
  BY TwoPower
<1>2. q \in Nat /\ r \in Nat /\ x = q * p + r
  <2> HIDE DEF p
  <2>. QED
    BY <1>1, DivIs
<1> HIDE DEF q, r
<1>3. Bit(x, k) = Bit(r, k)
  <2>1. BitsJoin(x, q, w, r)
    BY <1>2, BitJoin, Zenon
  <2>2. k \in 0 .. w - 1
    OBVIOUS
  <2>. QED
    BY <2>1, <2>2, Zenon DEF BitsJoin
<1>. QED
  BY <1>2, <1>3, Zenon DEF r

LEMMA BitHigh ==
  ASSUME NEW x \in Nat, NEW k \in Nat, x < Power(2, k)
  PROVE  Bit(x, k) = 0
<1> DEFINE p == Power(2, k)
<1>1. p \in Nat \ {0} /\ x < p
  BY TwoPower
<1> HIDE DEF p
<1>2. x \div p = 0
  BY <1>1
<1>. QED
  BY <1>2 DEF Bit, p

LEMMA BitAppend ==
  ASSUME NEW w \in {5, 8}, NEW u \in Seq(Nat), NEW b \in Nat
  PROVE  /\ \A j \in 1 .. w * Len(u) : BitOf(Append(u, b), w, j) = BitOf(u, w, j)
         /\ \A k \in 0 .. w - 1 : BitOf(Append(u, b), w, (w * Len(u) + w) - k) = Bit(b, k)
<1> DEFINE v == Append(u, b)
           n == Len(u)
<1>1. n \in Nat /\ v[n + 1] = b /\ \A i \in 1 .. n : v[i] = u[i]
  OBVIOUS
<1> HIDE DEF v, n
<1>2. ASSUME NEW j \in 1 .. w * n PROVE BitOf(v, w, j) = BitOf(u, w, j)
  <2>1. (j - 1) \div w + 1 \in 1 .. n
    <3>1. CASE w = 5
      <4>1. j - 1 \in Nat /\ j - 1 < 5 * n
        BY <1>1, <3>1
      <4> DEFINE i == j - 1
      <4> HIDE DEF i
      <4>2. i \div 5 \in 0 .. n - 1
        BY <1>1, <4>1 DEF i
      <4>3. i \div 5 + 1 \in 1 .. n
        BY <1>1, <4>2
      <4>. QED
        BY <3>1, <4>3 DEF i
    <3>2. CASE w = 8
      <4>1. j - 1 \in Nat /\ j - 1 < 8 * n
        BY <1>1, <3>2
      <4> DEFINE i == j - 1
      <4> HIDE DEF i
      <4>2. i \div 8 \in 0 .. n - 1
        BY <1>1, <4>1 DEF i
      <4>3. i \div 8 + 1 \in 1 .. n
        BY <1>1, <4>2
      <4>. QED
        BY <3>2, <4>3 DEF i
    <3>. QED
      BY <3>1, <3>2
  <2>2. v[(j - 1) \div w + 1] = u[(j - 1) \div w + 1]
    BY <1>1, <2>1, Zenon
  <2>. QED
    BY <2>2, Zenon DEF BitOf
<1>3. ASSUME NEW k \in 0 .. w - 1 PROVE BitOf(v, w, (w * n + w) - k) = Bit(b, k)
  <2> DEFINE at == (w * n + w) - k
  <2>1. (at - 1) \div w + 1 = n + 1 /\ w - 1 - ((at - 1) % w) = k
    <3>1. CASE w = 5
      <4>1. at - 1 = 5 * n + (4 - k) /\ 4 - k \in 0 .. 4
        BY <1>1, <3>1
      <4> DEFINE r == 4 - k
                 i == at - 1
      <4>2. r \in 0 .. 4 /\ i = 5 * n + r /\ k = 4 - r
        BY <3>1, <4>1
      <4> HIDE DEF r, i
      <4>3. i \in Nat /\ n * 5 <= i /\ i < (n + 1) * 5 /\ i - n * 5 = r /\ 5 \in Nat \ {0}
        BY <1>1, <4>2
      <4>4. i \div 5 = n /\ i % 5 = i - n * 5
        BY <1>1, <4>3, QuotientIs, Zenon
      <4>. QED
        BY <1>1, <3>1, <4>2, <4>3, <4>4 DEF i
    <3>2. CASE w = 8
      <4>1. at - 1 = 8 * n + (7 - k) /\ 7 - k \in 0 .. 7
        BY <1>1, <3>2
      <4> DEFINE r == 7 - k
                 i == at - 1
      <4>2. r \in 0 .. 7 /\ i = 8 * n + r /\ k = 7 - r
        BY <3>2, <4>1
      <4> HIDE DEF r, i
      <4>3. i \in Nat /\ n * 8 <= i /\ i < (n + 1) * 8 /\ i - n * 8 = r /\ 8 \in Nat \ {0}
        BY <1>1, <4>2
      <4>4. i \div 8 = n /\ i % 8 = i - n * 8
        BY <1>1, <4>3, QuotientIs, Zenon
      <4>. QED
        BY <1>1, <3>2, <4>2, <4>3, <4>4 DEF i
    <3>. QED
      BY <3>1, <3>2
  <2> HIDE DEF at
  <2>2. v[(at - 1) \div w + 1] = b
    BY <1>1, <2>1
  <2>3. BitOf(v, w, at) = (v[(at - 1) \div w + 1] \div Power(2, w - 1 - ((at - 1) % w))) % 2
    BY Zenon DEF BitOf
  <2>4. BitOf(v, w, at) = (b \div Power(2, k)) % 2
    BY <2>1, <2>2, <2>3, Zenon
  <2>. QED
    BY <2>4, Zenon DEF Bit, at
<1>. QED
  BY <1>2, <1>3, Zenon DEF v, n

LEMMA ByteTypes == Byte \subseteq Nat /\ Group \subseteq Nat
  BY DEF Byte, Group

\* The bits of groups are those of bytes.
Agree(g, z) == \A j \in 1 .. 5 * Len(g) : BitOf(g, 5, j) = BitOf(z, 8, j)

LEMMA AgreeMore ==
  ASSUME NEW g \in Seq(Group), NEW z, NEW q \in Group, Agree(g, z),
         \A s \in 0 .. 4 : Bit(q, s) = BitOf(z, 8, (5 * Len(g) + 5) - s)
  PROVE  Agree(Append(g, q), z) /\ Append(g, q) \in Seq(Group) /\ Len(Append(g, q)) = Len(g) + 1
<1> DEFINE n == Len(g)
           h == Append(g, q)
<1>1. n \in Nat /\ Len(h) = n + 1 /\ h \in Seq(Group)
  BY LenProperties, AppendProperties
<1>2. g \in Seq(Nat) /\ q \in Nat
  BY ByteTypes, SeqMonotonic
<1>3. \A j \in 1 .. 5 * n : BitOf(h, 5, j) = BitOf(g, 5, j)
  BY <1>2, BitAppend
<1>4. \A s \in 0 .. 5 - 1 : BitOf(h, 5, (5 * n + 5) - s) = Bit(q, s)
  BY <1>2, BitAppend
<1> HIDE DEF h
<1>5. ASSUME NEW j \in 1 .. 5 * Len(h) PROVE BitOf(h, 5, j) = BitOf(z, 8, j)
  <2>1. CASE j \in 1 .. 5 * n
    BY <1>3, <2>1, Zenon DEF Agree
  <2>2. CASE j \notin 1 .. 5 * n
    <3> DEFINE s == (5 * n + 5) - j
    <3>1. s \in 0 .. 4 /\ s \in 0 .. 5 - 1 /\ j = (5 * n + 5) - s
      <4>1. 5 * Len(h) = 5 * n + 5 /\ 5 * n \in Nat
        BY <1>1
      <4> DEFINE m == 5 * n
      <4> HIDE DEF m
      <4>2. j \in 1 .. m + 5 /\ j \notin 1 .. m /\ m \in Nat
        BY <2>2, <4>1 DEF m
      <4>3. (m + 5) - j \in 0 .. 4 /\ (m + 5) - j \in 0 .. 5 - 1 /\ j = (m + 5) - ((m + 5) - j)
        BY <4>2
      <4>. QED
        BY <4>3 DEF m
    <3> HIDE DEF s
    <3>2. BitOf(h, 5, j) = Bit(q, s)
      BY <1>4, <3>1, Zenon
    <3>3. Bit(q, s) = BitOf(z, 8, (5 * n + 5) - s)
      BY <3>1, Zenon
    <3>. QED
      BY <3>1, <3>2, <3>3, Zenon
  <2>. QED
    BY <2>1, <2>2
<1>. QED
  BY <1>1, <1>5, Zenon DEF Agree, h

\* One byte more of the conversion.
NewVal(p, b) == (p.val * 256 + b) % Power(2, 16)
NewGroup(p, b, i) == (NewVal(p, b) \div Power(2, (p.bits + 8) - 5 * i)) % 32
Converted(p, b) ==
  [val |-> NewVal(p, b), bits |-> (p.bits + 8) % 5,
   groups |-> p.groups \o [i \in 1 .. (p.bits + 8) \div 5 |-> NewGroup(p, b, i)]]
NoneConverted == [val |-> 0, bits |-> 0, groups |-> <<>>]
AllConverted(u) == FoldUp(ConvertByte, NoneConverted, u)

LEMMA AppendTwo ==
  ASSUME NEW C, NEW s \in Seq(C), NEW x \in C, NEW y \in C
  PROVE  s \o <<x, y>> = Append(Append(s, x), y)
<1> DEFINE u == s \o <<x, y>>
           v == Append(Append(s, x), y)
<1>1. /\ u \in Seq(C) /\ Len(u) = Len(s) + 2 /\ Len(s) \in Nat
      /\ \A i \in 1 .. Len(s) : u[i] = s[i]
      /\ u[Len(s) + 1] = x /\ u[Len(s) + 2] = y
  OBVIOUS
<1>2. /\ v \in Seq(C) /\ Len(v) = Len(s) + 2
      /\ \A i \in 1 .. Len(s) : v[i] = s[i]
      /\ v[Len(s) + 1] = x /\ v[Len(s) + 2] = y
  OBVIOUS
<1> HIDE DEF u, v
<1>3. ASSUME NEW i \in 1 .. Len(u) PROVE u[i] = v[i]
  <2>1. i \in 1 .. Len(s) \/ i = Len(s) + 1 \/ i = Len(s) + 2
    BY <1>1
  <2>. QED
    BY <1>1, <1>2, <2>1
<1>4. u = v
  BY <1>1, <1>2, <1>3, SeqEqual
<1>. QED
  BY <1>4 DEF u, v

LEMMA ConverterType ==
  ASSUME NEW p \in Converter, NEW b \in Byte
  PROVE  /\ p.val \in Nat /\ p.val < Power(2, 16) /\ p.bits \in 0 .. 4 /\ p.groups \in Seq(Group)
         /\ b \in Nat /\ b < 256
         /\ NewVal(p, b) \in Nat /\ NewVal(p, b) < Power(2, 16)
         /\ NewGroup(p, b, 1) \in Group
         /\ p.bits + 8 >= 10 => NewGroup(p, b, 2) \in Group
         /\ Converted(p, b).groups = IF p.bits + 8 >= 10
              THEN Append(Append(p.groups, NewGroup(p, b, 1)), NewGroup(p, b, 2))
              ELSE Append(p.groups, NewGroup(p, b, 1))
<1> DEFINE t == p.bits + 8
           v == NewVal(p, b)
           g == p.groups
<1>1. Power(2, 16) = 65536
  BY FirstPowers
<1>2. p.val \in Nat /\ p.val < Power(2, 16) /\ p.bits \in 0 .. 4 /\ g \in Seq(Group)
  BY <1>1 DEF Converter
<1>3. b \in Nat /\ b < 256
  BY DEF Byte
<1>4. v \in Nat /\ v < Power(2, 16)
  BY <1>1, <1>2, <1>3 DEF NewVal
<1>5. ASSUME NEW i \in Nat, 5 * i <= t PROVE NewGroup(p, b, i) \in Group
  <2> DEFINE d == Power(2, (p.bits + 8) - 5 * i)
  <2>1. (p.bits + 8) - 5 * i \in Nat
    <3> DEFINE n == p.bits
    <3>1. n \in 0 .. 4 /\ 5 * i <= n + 8
      BY <1>2, <1>5
    <3> HIDE DEF n
    <3>2. (n + 8) - 5 * i \in Nat
      BY <3>1
    <3>. QED
      BY <3>2 DEF n
  <2>2. d \in Nat \ {0}
    BY <2>1, TwoPower, Zenon
  <2> HIDE DEF v, d
  <2>3. v \div d \in Nat
    BY <1>4, <2>2, DivIs
  <2>4. (v \div d) % 32 \in Group
    BY <2>3 DEF Group
  <2>. QED
    BY <2>4 DEF NewGroup, v, d
<1>6. NewGroup(p, b, 1) \in Group /\ (t >= 10 => NewGroup(p, b, 2) \in Group)
  BY <1>2, <1>5
<1>7. Converted(p, b).groups = g \o [i \in 1 .. t \div 5 |-> NewGroup(p, b, i)]
  BY DEF Converted
<1>8. CASE t >= 10
  <2>1. t \div 5 = 2
    BY <1>2, <1>8
  <2>2. [i \in 1 .. 2 |-> NewGroup(p, b, i)] = <<NewGroup(p, b, 1), NewGroup(p, b, 2)>>
    OBVIOUS
  <2> DEFINE x == NewGroup(p, b, 1)
             y == NewGroup(p, b, 2)
  <2> HIDE DEF x, y
  <2>3. g \o <<x, y>> = Append(Append(g, x), y)
    <3>1. x \in Group /\ y \in Group
      BY <1>6, <1>8 DEF x, y
    <3>. QED
      BY <1>2, <3>1, AppendTwo
  <2>. QED
    BY <1>2, <1>3, <1>4, <1>6, <1>7, <1>8, <2>1, <2>2, <2>3 DEF x, y
<1>9. CASE ~(t >= 10)
  <2>1. t \div 5 = 1
    <3>1. t \in 8 .. 9
      BY <1>2, <1>9
    <3> HIDE DEF t
    <3>. QED
      BY <3>1
  <2>2. [i \in 1 .. 1 |-> NewGroup(p, b, i)] = <<NewGroup(p, b, 1)>>
    OBVIOUS
  <2> DEFINE x == NewGroup(p, b, 1)
  <2> HIDE DEF x
  <2>3. g \o <<x>> = Append(g, x)
    BY <1>2, <1>6 DEF x
  <2>. QED
    BY <1>2, <1>3, <1>4, <1>6, <1>7, <1>9, <2>1, <2>2, <2>3 DEF x
<1>. QED
  BY <1>8, <1>9

LEMMA ConvertFolds ==
  /\ Folds(ConvertByte, NoneConverted, Converter, Byte)
  /\ \A p \in Converter, b \in Byte : ConvertByte[<<p, b>>] = Converted(p, b)
<1>1. ConvertByte = [p \in Converter \X Byte |-> Converted(p[1], p[2])]
  BY DEF ConvertByte, Converted, NewVal, NewGroup
<1>2. ASSUME NEW p \in Converter, NEW b \in Byte PROVE Converted(p, b) \in Converter
  <2> DEFINE c == Converted(p, b)
             v == NewVal(p, b)
             n == (p.bits + 8) % 5
             g == c.groups
  <2>1. c = [val |-> v, bits |-> n, groups |-> g]
    BY DEF Converted
  <2>2. v \in Nat /\ v < Power(2, 16)
    BY ConverterType
  <2>3. v \in 0 .. Power(2, 16) - 1
    BY <2>2, FirstPowers
  <2>4. n \in 0 .. 4
    <3>1. p.bits \in 0 .. 4
      BY ConverterType
    <3>. QED
      BY <3>1
  <2>5. g \in Seq(Group)
    <3> DEFINE h == p.groups
               x == NewGroup(p, b, 1)
               y == NewGroup(p, b, 2)
    <3>1. /\ h \in Seq(Group) /\ x \in Group /\ (p.bits + 8 >= 10 => y \in Group)
          /\ g = IF p.bits + 8 >= 10 THEN Append(Append(h, x), y) ELSE Append(h, x)
      BY ConverterType
    <3> HIDE DEF h, x, y, g
    <3>2. Append(h, x) \in Seq(Group)
      BY <3>1
    <3>3. y \in Group => Append(Append(h, x), y) \in Seq(Group)
      BY <3>2
    <3>. QED
      BY <3>1, <3>2, <3>3
  <2> HIDE DEF c, v, n, g
  <2>6. c \in Converter
    BY <2>1, <2>3, <2>4, <2>5 DEF Converter
  <2>. QED
    BY <2>6 DEF c
<1>3. NoneConverted \in Converter
  <2>1. 0 \in 0 .. Power(2, 16) - 1
    BY FirstPowers
  <2>2. <<>> \in Seq(Group)
    OBVIOUS
  <2>. QED
    BY <2>1, <2>2 DEF Converter, NoneConverted
<1>4. ConvertByte \in [Converter \X Byte -> Converter]
  BY <1>1, <1>2
<1>5. ASSUME NEW p \in Converter, NEW b \in Byte PROVE ConvertByte[<<p, b>>] = Converted(p, b)
  <2>1. <<p, b>> \in Converter \X Byte
    OBVIOUS
  <2>. QED
    BY <1>1, <2>1, Zenon
<1>. QED
  BY <1>3, <1>4, <1>5, Zenon DEF Folds

\* The low bits of what is converted are the last bits of bytes.
Pending(v, n, u) == \A k \in 0 .. n - 1 : Bit(v, k) = BitOf(u, 8, 8 * Len(u) - k)

Converts(u) ==
  LET p == AllConverted(u)
  IN /\ p \in Converter /\ 5 * Len(p.groups) + p.bits = 8 * Len(u)
     /\ Agree(p.groups, u) /\ Pending(p.val, p.bits, u)

\* A byte comes in at the low end.
LEMMA PendingMore ==
  ASSUME NEW u \in Seq(Byte), NEW b \in Byte, NEW p \in Converter,
         p.bits <= 8 * Len(u), Pending(p.val, p.bits, u)
  PROVE  Pending(NewVal(p, b), p.bits + 8, Append(u, b))
<1> DEFINE n == p.bits
           z == Append(u, b)
           l == Len(u)
           v == p.val
           x == v * 256 + b
           y == NewVal(p, b)
<1>1. v \in Nat /\ n \in 0 .. 4 /\ b \in Nat /\ b < 256 /\ l \in Nat /\ n <= 8 * l
  BY ConverterType, LenProperties
<1>2. Len(z) = l + 1
  BY AppendProperties
<1>3. u \in Seq(Nat)
  BY ByteTypes, SeqMonotonic
<1>4. \A j \in 1 .. 8 * l : BitOf(z, 8, j) = BitOf(u, 8, j)
  BY <1>1, <1>3, BitAppend
<1>5. \A k \in 0 .. 8 - 1 : BitOf(z, 8, (8 * l + 8) - k) = Bit(b, k)
  BY <1>1, <1>3, BitAppend
<1>6. x \in Nat /\ y = x % Power(2, 16) /\ Power(2, 8) = 256
  BY <1>1, FirstPowers, SMTT(30) DEF NewVal
<1>7. \A k \in 0 .. n - 1 : Bit(v, k) = BitOf(u, 8, 8 * l - k)
  BY Zenon DEF Pending
<1> HIDE DEF n, z, l, v, x, y
<1>8. ASSUME NEW k \in 0 .. (n + 8) - 1 PROVE Bit(y, k) = BitOf(z, 8, (8 * l + 8) - k)
  <2>1. k \in Nat /\ k < 16 /\ 16 \in Nat /\ 8 \in Nat
    BY <1>1
  <2>2. Bit(x % Power(2, 16), k) = Bit(x, k)
    BY <1>6, <2>1, BitMod, Zenon
  <2>3. Bit(y, k) = Bit(x, k)
    BY <1>6, <2>2, Zenon
  <2>4. x = v * Power(2, 8) + b /\ b < Power(2, 8)
    BY <1>1, <1>6 DEF x
  <2>7. BitsJoin(x, v, 8, b)
    BY <1>1, <2>1, <2>4, BitJoin, Zenon
  <2>5. CASE k < 8
    <3>2. k \in 0 .. 8 - 1
      BY <2>1, <2>5
    <3>1. Bit(x, k) = Bit(b, k)
      BY <2>7, <3>2, Zenon DEF BitsJoin
    <3>. QED
      BY <1>5, <2>3, <3>1, <3>2, Zenon
  <2>6. CASE ~(k < 8)
    <3> DEFINE i == k - 8
    <3>1. 8 <= k /\ i \in 0 .. n - 1 /\ (8 * l + 8) - k = 8 * l - i /\ 8 * l - i \in 1 .. 8 * l
      BY <1>1, <2>1, <2>6
    <3>2. Bit(x, k) = Bit(v, i)
      BY <2>1, <2>4, <2>7, <3>1, Zenon DEF BitsJoin
    <3> HIDE DEF i
    <3>3. Bit(v, i) = BitOf(u, 8, 8 * l - i)
      BY <1>7, <3>1, Zenon
    <3>4. BitOf(z, 8, 8 * l - i) = BitOf(u, 8, 8 * l - i)
      BY <1>4, <3>1, Zenon
    <3>5. Bit(y, k) = Bit(v, i)
      BY <2>3, <3>2, Zenon
    <3>. QED
      BY <3>1, <3>3, <3>4, <3>5, Zenon
  <2>. QED
    BY <2>5, <2>6
<1>9. 8 * Len(z) = 8 * l + 8
  BY <1>1, <1>2
<1>10. Pending(y, n + 8, z)
  BY <1>8, <1>9, Zenon DEF Pending
<1>. QED
  BY <1>10, Zenon DEF n, y, z

\* The bits of a new group.
LEMMA GroupBits ==
  ASSUME NEW p \in Converter, NEW b \in Byte, NEW i \in {1, 2}, 5 * i <= p.bits + 8, NEW s \in 0 .. 4
  PROVE  Bit(NewGroup(p, b, i), s) = Bit(NewVal(p, b), (p.bits + 8) - 5 * i + s)
<1> DEFINE v == NewVal(p, b)
           a == (p.bits + 8) - 5 * i
           x == v \div Power(2, a)
<1>1. v \in Nat /\ p.bits \in 0 .. 4
  BY ConverterType
<1>2. a \in Nat /\ s \in Nat /\ s < 5 /\ 5 \in Nat
  <2> DEFINE n == p.bits
  <2>1. n \in 0 .. 4 /\ 5 * i <= n + 8
    BY <1>1
  <2> HIDE DEF n
  <2>2. (n + 8) - 5 * i \in Nat
    BY <2>1
  <2>. QED
    BY <2>2 DEF n
<1> HIDE DEF v, a
<1>3. x \in Nat
  <2>1. Power(2, a) \in Nat \ {0}
    BY <1>2, TwoPower, Zenon
  <2>. QED
    BY <1>1, <2>1, DivIs, Zenon
<1>4. Bit(x, s) = Bit(v, a + s)
  BY <1>1, <1>2, BitDiv, Zenon
<1> HIDE DEF x
<1>5. Bit(x % Power(2, 5), s) = Bit(x, s)
  BY <1>2, <1>3, BitMod, Zenon
<1>6. Power(2, 5) = 32
  BY FirstPowers
<1>7. NewGroup(p, b, i) = x % 32
  BY Zenon DEF NewGroup, x, v, a
<1>. QED
  BY <1>4, <1>5, <1>6, <1>7, Zenon DEF v, a

\* How many bits are left over.
LEMMA BitsLeft ==
  ASSUME NEW m \in 0 .. 4, NEW n \in Nat, NEW l \in Nat, NEW t, 5 * n + m = 8 * l, t = m + 8
  PROVE  /\ t \in Nat /\ m <= 8 * l /\ 5 * n <= 8 * l /\ 5 * 1 <= t
         /\ IF t >= 10 THEN t % 5 = t - 10 /\ 5 * (n + 2) + (t - 10) = 8 * (l + 1) /\ t - 10 \in Nat
            ELSE t % 5 = t - 5 /\ 5 * (n + 1) + (t - 5) = 8 * (l + 1) /\ t - 5 \in Nat
<1>1. t \in Nat /\ m <= 8 * l /\ 5 * n <= 8 * l /\ 5 * 1 <= t /\ m \in Nat /\ t <= 12
  OBVIOUS
<1>2. CASE t >= 10
  BY <1>1, <1>2
<1>3. CASE ~(t >= 10)
  BY <1>1, <1>3
<1>. QED
  BY <1>1, <1>2, <1>3

LEMMA PendingLess ==
  ASSUME NEW v, NEW z, NEW t \in Nat, NEW d \in Nat, d <= t, Pending(v, t, z)
  PROVE  Pending(v, d, z)
<1>1. \A k \in 0 .. d - 1 : k \in 0 .. t - 1
  OBVIOUS
<1>. QED
  BY <1>1, Zenon DEF Pending

LEMMA ConvertsMore ==
  ASSUME NEW u \in Seq(Byte), NEW b \in Byte, Converts(u)
  PROVE  Converts(Append(u, b))
<1> DEFINE p == AllConverted(u)
           r == AllConverted(Append(u, b))
           z == Append(u, b)
           g == p.groups
           h == r.groups
           t == p.bits + 8
           v == NewVal(p, b)
           x == NewGroup(p, b, 1)
           y == NewGroup(p, b, 2)
           l == Len(u)
           n == Len(g)
<1>1. p \in Converter /\ 5 * n + p.bits = 8 * l /\ Agree(g, u) /\ Pending(p.val, p.bits, u)
  BY Zenon DEF Converts
<1>2. /\ r \in Converter /\ r = Converted(p, b)
  <2>1. Grows(ConvertByte, NoneConverted, Byte)
    BY ConvertFolds, FoldUpGrows, Zenon
  <2>2. r = ConvertByte[<<p, b>>]
    BY <2>1, Zenon DEF AllConverted, Grows
  <2>3. z \in Seq(Byte)
    BY AppendProperties, Zenon
  <2>4. r \in Converter
    BY <2>3, ConvertFolds, FoldUpType, Zenon DEF AllConverted
  <2>. QED
    BY <1>1, <2>2, <2>4, ConvertFolds, Zenon
<1> HIDE DEF p, r
<1>3. /\ p.bits \in 0 .. 4 /\ g \in Seq(Group) /\ x \in Group /\ (t >= 10 => y \in Group)
      /\ h = IF t >= 10 THEN Append(Append(g, x), y) ELSE Append(g, x)
  BY <1>1, <1>2, ConverterType
<1>4. r.val = v /\ r.bits = t % 5
  BY <1>2 DEF Converted
<1>5. /\ l \in Nat /\ n \in Nat /\ Len(z) = l + 1 /\ t \in Nat /\ p.bits <= 8 * l
      /\ 5 * n <= 8 * l /\ 5 * 1 <= t
      /\ IF t >= 10 THEN t % 5 = t - 10 /\ 5 * (n + 2) + (t - 10) = 8 * (l + 1) /\ t - 10 \in Nat
         ELSE t % 5 = t - 5 /\ 5 * (n + 1) + (t - 5) = 8 * (l + 1) /\ t - 5 \in Nat
  <2> DEFINE m == p.bits
  <2>1. l \in Nat /\ n \in Nat /\ Len(z) = l + 1
    BY <1>3, LenProperties, AppendProperties
  <2>2. m \in 0 .. 4 /\ 5 * n + m = 8 * l
    BY <1>1, <1>3
  <2> HIDE DEF m, n, l
  <2> DEFINE e == m + 8
  <2>3. e = m + 8
    OBVIOUS
  <2> HIDE DEF e
  <2>4. /\ e \in Nat /\ m <= 8 * l /\ 5 * n <= 8 * l /\ 5 * 1 <= e
        /\ IF e >= 10 THEN e % 5 = e - 10 /\ 5 * (n + 2) + (e - 10) = 8 * (l + 1) /\ e - 10 \in Nat
           ELSE e % 5 = e - 5 /\ 5 * (n + 1) + (e - 5) = 8 * (l + 1) /\ e - 5 \in Nat
    BY <2>1, <2>2, <2>3, BitsLeft
  <2>. QED
    BY <2>1, <2>4, Zenon DEF e, m
<1>6. Pending(v, t, z)
  BY <1>1, <1>5, PendingMore
<1>7. ASSUME NEW i \in {1, 2}, 5 * i <= t, NEW s \in 0 .. 4
      PROVE  Bit(NewGroup(p, b, i), s) = BitOf(z, 8, (5 * (n + i - 1) + 5) - s)
  <2> DEFINE k == t - 5 * i + s
             m == p.bits
  <2>1. m \in 0 .. 4 /\ t = m + 8 /\ 5 * n + m = 8 * l
    BY <1>1, <1>3
  <2>2. Bit(NewGroup(p, b, i), s) = Bit(v, k)
    BY <1>1, <1>7, GroupBits
  <2> HIDE DEF m, t
  <2>3. k \in 0 .. t - 1 /\ 8 * Len(z) - k = (5 * (n + i - 1) + 5) - s
    BY <1>5, <1>7, <2>1
  <2> HIDE DEF k
  <2>4. Bit(v, k) = BitOf(z, 8, 8 * Len(z) - k)
    BY <1>6, <2>3, Zenon DEF Pending
  <2>. QED
    BY <2>2, <2>3, <2>4
<1>8. Agree(g, z)
  <2>1. n \in Nat /\ l \in Nat /\ 5 * n <= 8 * l
    BY <1>5, Zenon
  <2>2. \A j \in 1 .. 5 * n : j \in 1 .. 8 * l
    <3> HIDE DEF n, l
    <3>. QED
      BY <2>1
  <2>3. u \in Seq(Nat) /\ b \in Nat
    BY ByteTypes, SeqMonotonic
  <2>4. \A j \in 1 .. 8 * l : BitOf(z, 8, j) = BitOf(u, 8, j)
    BY <2>3, BitAppend
  <2>. QED
    BY <1>1, <2>2, <2>4, Zenon DEF Agree
<1>9. Agree(Append(g, x), z) /\ Append(g, x) \in Seq(Group) /\ Len(Append(g, x)) = n + 1
  <2>1. \A s \in 0 .. 4 : Bit(x, s) = BitOf(z, 8, (5 * n + 5) - s)
    <3>1. 1 \in {1, 2} /\ 5 * 1 <= t /\ n + 1 - 1 = n
      <4>1. n \in Nat /\ 5 * 1 <= t
        BY <1>5, Zenon
      <4> HIDE DEF n, t
      <4>. QED
        BY <4>1
    <3>2. \A s \in 0 .. 4 : Bit(x, s) = BitOf(z, 8, (5 * (n + 1 - 1) + 5) - s)
      BY <1>7, <3>1
    <3>. QED
      BY <3>1, <3>2
  <2> HIDE DEF x, z
  <2>. QED
    BY <1>3, <1>8, <2>1, AgreeMore
<1>10. CASE t >= 10
  <2>1. \A s \in 0 .. 4 : Bit(y, s) = BitOf(z, 8, (5 * (n + 1) + 5) - s)
    <3>1. 2 \in {1, 2} /\ 5 * 2 <= t /\ n + 2 - 1 = n + 1
      <4>1. n \in Nat /\ t \in Nat /\ t >= 10
        BY <1>5, <1>10, Zenon
      <4> HIDE DEF n, t
      <4>. QED
        BY <4>1
    <3>2. \A s \in 0 .. 4 : Bit(y, s) = BitOf(z, 8, (5 * (n + 2 - 1) + 5) - s)
      BY <1>7, <3>1
    <3>. QED
      BY <3>1, <3>2
  <2>2. y \in Group /\ h = Append(Append(g, x), y)
    BY <1>3, <1>10
  <2> DEFINE f == Append(g, x)
  <2>3. f \in Seq(Group) /\ Agree(f, z) /\ Len(f) = n + 1
    BY <1>9, Zenon
  <2> HIDE DEF f, z, x, y, h
  <2>4. Agree(Append(f, y), z) /\ Append(f, y) \in Seq(Group) /\ Len(Append(f, y)) = Len(f) + 1
    BY <2>1, <2>2, <2>3, AgreeMore
  <2>5. h = Append(f, y)
    BY <2>2, Zenon DEF f
  <2>6. t % 5 = t - 10 /\ 5 * (n + 2) + (t - 10) = 8 * (l + 1) /\ t - 10 \in Nat
    BY <1>5, <1>10, Zenon
  <2>7. Agree(h, z) /\ Len(h) = n + 2
    BY <1>5, <2>3, <2>4, <2>5
  <2>8. 5 * Len(h) + r.bits = 8 * Len(z) /\ Pending(r.val, r.bits, z)
    <3>1. 5 * Len(h) + r.bits = 8 * Len(z)
      BY <1>4, <1>5, <2>6, <2>7, Zenon
    <3>2. t - 10 <= t
      <4>1. t \in Nat
        BY <1>5, Zenon
      <4> HIDE DEF t
      <4>. QED
        BY <4>1
    <3> DEFINE d == t - 10
    <3>3. d \in Nat /\ d <= t /\ t \in Nat
      BY <1>5, <2>6, <3>2, Zenon
    <3> HIDE DEF d, t, v
    <3>4. Pending(v, d, z)
      BY <1>6, <3>3, PendingLess
    <3>. QED
      BY <1>4, <2>6, <3>1, <3>4, Zenon DEF d
  <2>. QED
    BY <1>2, <2>7, <2>8, Zenon DEF Converts, r, h, z
<1>11. CASE ~(t >= 10)
  <2>1. h = Append(g, x)
    BY <1>3, <1>11
  <2> HIDE DEF z, x, h
  <2>2. t % 5 = t - 5 /\ 5 * (n + 1) + (t - 5) = 8 * (l + 1) /\ t - 5 \in Nat
    BY <1>5, <1>11, Zenon
  <2>3. Agree(h, z) /\ Len(h) = n + 1
    BY <1>9, <2>1
  <2>4. 5 * Len(h) + r.bits = 8 * Len(z) /\ Pending(r.val, r.bits, z)
    <3>1. 5 * Len(h) + r.bits = 8 * Len(z)
      BY <1>4, <1>5, <2>2, <2>3, Zenon
    <3>2. t - 5 <= t
      <4>1. t \in Nat
        BY <1>5, Zenon
      <4> HIDE DEF t
      <4>. QED
        BY <4>1
    <3> DEFINE d == t - 5
    <3>3. d \in Nat /\ d <= t /\ t \in Nat
      BY <1>5, <2>2, <3>2, Zenon
    <3> HIDE DEF d, t, v
    <3>4. Pending(v, d, z)
      BY <1>6, <3>3, PendingLess
    <3>. QED
      BY <1>4, <2>2, <3>1, <3>4, Zenon DEF d
  <2>. QED
    BY <1>2, <2>3, <2>4, Zenon DEF Converts, r, h, z
<1>. QED
  BY <1>10, <1>11

LEMMA ConvertsAll ==
  ASSUME NEW bytes \in Seq(Byte)
  PROVE  Converts(bytes)
<1> DEFINE S == {n \in Nat : \A u \in Seq(Byte) : Len(u) = n => Converts(u)}
<1>1. 0 \in S
  <2>1. AllConverted(<<>>) = NoneConverted
    BY ConvertFolds, FoldUpEmpty, Zenon DEF AllConverted
  <2>2. NoneConverted.bits = 0 /\ NoneConverted.groups = <<>>
    BY DEF NoneConverted
  <2>3. NoneConverted \in Converter
    BY ConvertFolds, Zenon DEF Folds
  <2>4. Len(<<>>) = 0 /\ 5 * 0 + 0 = 8 * 0
    OBVIOUS
  <2>5. Agree(<<>>, <<>>) /\ \A v : Pending(v, 0, <<>>)
    BY DEF Agree, Pending
  <2>6. Converts(<<>>)
    BY <2>1, <2>2, <2>3, <2>4, <2>5, Zenon DEF Converts
  <2>. QED
    BY <2>6, EmptySeq
<1>2. ASSUME NEW n \in Nat, n \in S PROVE n + 1 \in S
  <2> SUFFICES ASSUME NEW u \in Seq(Byte), Len(u) = n + 1 PROVE Converts(u)
    OBVIOUS
  <2>1. u # <<>>
    BY EmptySeq
  <2>2. PICK v \in Seq(Byte), b \in Byte : u = Append(v, b)
    BY <2>1, SequenceEmptyOrAppend
  <2>3. Len(v) = n
    <3>1. Len(Append(v, b)) = Len(v) + 1 /\ Len(v) \in Nat
      BY AppendProperties, LenProperties
    <3>. QED
      BY <2>2, <3>1
  <2>4. Converts(v)
    BY <1>2, <2>3
  <2>. QED
    BY <2>2, <2>4, ConvertsMore, Zenon
<1>. HIDE DEF S
<1>3. Nat \subseteq S
  BY <1>1, <1>2, Induction
<1>4. Len(bytes) \in Nat
  BY LenProperties
<1>. QED
  BY <1>3, <1>4 DEF S

\* The last group is padded with zeroes.
LEMMA PaddedBits ==
  ASSUME NEW v \in Nat, NEW m \in 1 .. 4, NEW s \in 0 .. 4
  PROVE  LET q == (v * Power(2, 5 - m)) % 32
         IN /\ q \in Group
            /\ s < 5 - m => Bit(q, s) = 0
            /\ s >= 5 - m => Bit(q, s) = Bit(v, s - (5 - m))
<1> DEFINE w == 5 - m
           x == v * Power(2, w)
           q == x % 32
<1>1. w \in Nat /\ s \in Nat /\ s < 5 /\ 5 \in Nat /\ 0 \in Nat
  OBVIOUS
<1> HIDE DEF w
<1>2. Power(2, w) \in Nat \ {0} /\ Power(2, 5) = 32
  BY <1>1, TwoPower, FirstPowers
<1>3. x \in Nat /\ x = v * Power(2, w) + 0 /\ 0 < Power(2, w)
  <2> DEFINE p == Power(2, w)
  <2>1. p \in Nat \ {0}
    BY <1>2
  <2> HIDE DEF p
  <2>2. v * p \in Nat
    BY <2>1, Products
  <2>3. v * p = v * p + 0 /\ 0 < p
    BY <2>1, <2>2
  <2>. QED
    BY <2>2, <2>3, Zenon DEF p
<1>4. BitsJoin(x, v, w, 0)
  BY <1>1, <1>3, BitJoin, Zenon
<1> HIDE DEF x
<1>5. q \in Group
  BY <1>3 DEF Group
<1>6. Bit(x % Power(2, 5), s) = Bit(x, s)
  BY <1>1, <1>3, BitMod, ZenonT(30)
<1>7. Bit(q, s) = Bit(x, s)
  BY <1>2, <1>6, Zenon
<1>8. ASSUME s < w PROVE Bit(q, s) = 0
  <2>1. s \in 0 .. w - 1
    BY <1>1, <1>8
  <2>2. Bit(x, s) = Bit(0, s)
    BY <1>4, <2>1, Zenon DEF BitsJoin
  <2>3. 0 < Power(2, s)
    BY <1>1, TwoPower
  <2>4. Bit(0, s) = 0
    BY <1>1, <2>3, BitHigh
  <2>. QED
    BY <1>7, <2>2, <2>4
<1>9. ASSUME s >= w PROVE Bit(q, s) = Bit(v, s - w)
  <2>1. w <= s
    BY <1>1, <1>9
  <2>. QED
    BY <1>1, <1>3, <1>4, <1>7, <2>1, Zenon DEF BitsJoin
<1>. QED
  BY <1>5, <1>8, <1>9 DEF w, x

\* All groups: how many they are, and their bits.
HasBits(c, bytes) ==
  /\ c \in Seq(Group) /\ Len(c) = (8 * Len(bytes) + 4) \div 5
  /\ 8 * Len(bytes) <= 5 * Len(c) /\ 5 * Len(c) < 8 * Len(bytes) + 5
  /\ \A j \in 1 .. 5 * Len(c) :
       BitOf(c, 5, j) = IF j <= 8 * Len(bytes) THEN BitOf(bytes, 8, j) ELSE 0

LEMMA ConvertBitsIs ==
  ASSUME NEW bytes \in Seq(Byte)
  PROVE  HasBits(convert_bits(bytes), bytes)
<1> DEFINE p == AllConverted(bytes)
           g == p.groups
           n == Len(g)
           l == Len(bytes)
           m == p.bits
           q == (p.val * Power(2, 5 - m)) % 32
           c == convert_bits(bytes)
<1>1. p \in Converter /\ 5 * n + m = 8 * l /\ Agree(g, bytes) /\ Pending(p.val, m, bytes)
  BY ConvertsAll, Zenon DEF Converts
<1>2. c = IF m = 0 THEN g ELSE Append(g, q)
  BY Zenon DEF convert_bits, AllConverted, NoneConverted
<1> HIDE DEF p, c
<1>3. g \in Seq(Group) /\ p.val \in Nat /\ m \in 0 .. 4
  <2>1. \A b \in Byte : p.groups \in Seq(Group) /\ p.val \in Nat /\ p.bits \in 0 .. 4
    BY <1>1, ConverterType
  <2>2. 0 \in Byte
    BY DEF Byte
  <2>. QED
    BY <2>1, <2>2, Zenon
<1>4. n \in Nat /\ l \in Nat
  BY <1>3, LenProperties
<1> DEFINE v == p.val
<1>5. v \in Nat
  BY <1>3
<1> HIDE DEF m, v, n, l
<1>6. ASSUME m = 0 PROVE HasBits(c, bytes)
  <2>1. c = g
    BY <1>2, <1>6, Zenon
  <2>2. n = (8 * l + 4) \div 5 /\ 8 * l = 5 * n /\ 5 * n < 8 * l + 5
    BY <1>1, <1>4, <1>6
  <2>3. \A j \in 1 .. 5 * n : BitOf(g, 5, j) = IF j <= 8 * l THEN BitOf(bytes, 8, j) ELSE 0
    <3>1. \A j \in 1 .. 5 * n : j <= 8 * l
      BY <1>4, <2>2
    <3>. QED
      BY <1>1, <3>1, Zenon DEF Agree, n
  <2>4. 8 * l <= 5 * n
    BY <1>4, <2>2
  <2>. QED
    BY <1>3, <2>1, <2>2, <2>3, <2>4, Zenon DEF HasBits, n, l
<1>7. ASSUME m # 0 PROVE HasBits(c, bytes)
  <2>1. c = Append(g, q) /\ m \in 1 .. 4
    BY <1>2, <1>3, <1>7
  <2>2. q \in Group /\ \A s \in 0 .. 4 : /\ s < 5 - m => Bit(q, s) = 0
                                         /\ s >= 5 - m => Bit(q, s) = Bit(v, s - (5 - m))
    BY <1>5, <2>1, PaddedBits DEF v
  <2> HIDE DEF q, g
  <2>3. c \in Seq(Group) /\ Len(c) = n + 1
    BY <1>3, <2>1, <2>2, AppendProperties DEF n
  <2>4. g \in Seq(Nat) /\ q \in Nat
    BY <1>3, <2>2, ByteTypes, SeqMonotonic
  <2>5. \A j \in 1 .. 5 * n : BitOf(c, 5, j) = BitOf(g, 5, j)
    BY <2>1, <2>4, BitAppend DEF n
  <2>6. \A s \in 0 .. 5 - 1 : BitOf(c, 5, (5 * n + 5) - s) = Bit(q, s)
    BY <2>1, <2>4, BitAppend DEF n
  <2>7. /\ n + 1 = (8 * l + 4) \div 5 /\ 8 * l <= 5 * (n + 1) /\ 5 * (n + 1) < 8 * l + 5
        /\ 5 * n <= 8 * l
    BY <1>1, <1>4, <2>1
  <2>8. ASSUME NEW j \in 1 .. 5 * (n + 1)
        PROVE  BitOf(c, 5, j) = IF j <= 8 * l THEN BitOf(bytes, 8, j) ELSE 0
    <3>1. CASE j <= 5 * n
      <4>1. j \in 1 .. 5 * n /\ j <= 8 * l
        BY <1>4, <2>7, <3>1
      <4>. QED
        BY <1>1, <2>5, <4>1, Zenon DEF Agree, n
    <3>2. CASE ~(j <= 5 * n)
      <4> DEFINE s == (5 * n + 5) - j
      <4>1. s \in 0 .. 4 /\ s \in 0 .. 5 - 1 /\ j = (5 * n + 5) - s /\ s \in Nat
            /\ (s < 5 - m <=> ~(j <= 8 * l))
        BY <1>1, <1>4, <2>1, <3>2
      <4>2. s >= 5 - m => s - (5 - m) \in 0 .. m - 1 /\ 8 * l - (s - (5 - m)) = j
        BY <1>1, <1>4, <2>1, <3>2
      <4>3. s < 5 - m \/ s >= 5 - m
        BY <2>1, <4>1
      <4> HIDE DEF s
      <4>4. BitOf(c, 5, j) = Bit(q, s)
        BY <2>6, <4>1, Zenon
      <4>5. CASE s < 5 - m
        BY <2>2, <4>1, <4>4, <4>5, Zenon
      <4>6. CASE s >= 5 - m
        <5> DEFINE k == s - (5 - m)
        <5>1. Bit(q, s) = Bit(v, k)
          BY <2>2, <4>1, <4>6, Zenon
        <5>2. k \in 0 .. m - 1 /\ 8 * l - k = j
          BY <4>2, <4>6, Zenon
        <5> HIDE DEF k
        <5>3. Bit(v, k) = BitOf(bytes, 8, j)
          BY <1>1, <5>2, Zenon DEF Pending, v, l
        <5>4. j <= 8 * l
          BY <2>1, <4>1, <4>6
        <5>. QED
          BY <4>4, <5>1, <5>3, <5>4, Zenon
      <4>. QED
        BY <4>3, <4>5, <4>6, Zenon
    <3>. QED
      BY <3>1, <3>2
  <2>. QED
    BY <2>3, <2>7, <2>8, Zenon DEF HasBits, l
<1>. QED
  BY <1>6, <1>7 DEF c

LEMMA Halves ==
  ASSUME NEW m \in Nat
  PROVE  m = 2 * (m \div 2) + (m % 2) /\ m \div 2 \in Nat /\ m % 2 \in {0, 1}
<1> DEFINE h == m \div 2
           r == m % 2
<1>1. 2 \in Nat \ {0}
  OBVIOUS
<1>2. h \in Nat /\ r \in 0 .. 2 - 1 /\ m = h * 2 + r
  BY <1>1, DivIs, Zenon
<1> HIDE DEF h, r
<1>3. m = 2 * h + r
  BY <1>2
<1>4. h \in Nat /\ r \in {0, 1}
  BY <1>2
<1>5. m = 2 * (m \div 2) + (m % 2)
  BY <1>3 DEF h, r
<1>6. m \div 2 \in Nat /\ m % 2 \in {0, 1}
  BY <1>4 DEF h, r
<1>. QED
  BY <1>5, <1>6, Zenon

LEMMA Extremes ==
  ASSUME NEW m \in Nat
  PROVE  m \div 1 = m /\ (m < 256 => m \div 256 = 0)
OBVIOUS

\* What is left above a bit, and the bit.
LEMMA BitStep ==
  ASSUME NEW x \in Nat, NEW k \in Nat, NEW n, n = k + 1
  PROVE  /\ x \div Power(2, k) \in Nat /\ x \div Power(2, n) \in Nat /\ Bit(x, k) \in {0, 1}
         /\ x \div Power(2, k) = 2 * (x \div Power(2, n)) + Bit(x, k)
<1> DEFINE p == Power(2, k)
           q == x \div p
           r == x \div Power(2, n)
<1>1. p \in Nat \ {0} /\ Power(2, n) = 2 * p /\ 2 * p = p * 2
  BY TwoPower
<1>2. q \in Nat /\ Bit(x, k) = q % 2
  <2>1. Bit(x, k) = q % 2
    BY Zenon DEF Bit
  <2> HIDE DEF p
  <2>. QED
    BY <1>1, <2>1, DivIs
<1>3. r = q \div 2
  <2>1. 2 \in Nat \ {0}
    OBVIOUS
  <2>2. (x \div p) \div 2 = x \div (p * 2)
    <3> HIDE DEF p
    <3>. QED
      BY <1>1, <2>1, DivDiv, Zenon
  <2>. QED
    BY <1>1, <2>2, Zenon
<1>4. q = 2 * (q \div 2) + (q % 2) /\ q \div 2 \in Nat /\ q % 2 \in {0, 1}
  <2> HIDE DEF q
  <2>. QED
    BY <1>2, Halves
<1>5. q \in Nat /\ r \in Nat /\ Bit(x, k) \in {0, 1} /\ q = 2 * r + Bit(x, k)
  <2> DEFINE h == q \div 2
             m == q % 2
             b == Bit(x, k)
  <2>1. q = 2 * h + m /\ h \in Nat /\ m \in {0, 1} /\ q \in Nat /\ b = m /\ r = h
    BY <1>2, <1>3, <1>4
  <2> HIDE DEF q, r, h, m, b
  <2>2. q \in Nat /\ r \in Nat /\ b \in {0, 1} /\ q = 2 * r + b
    BY <2>1
  <2>. QED
    BY <2>2 DEF b
<1>. QED
  BY <1>5

\* A byte is the sum of its bits.
LEMMA ByteSum ==
  ASSUME NEW b \in Byte
  PROVE  b = 128 * Bit(b, 7) + 64 * Bit(b, 6) + 32 * Bit(b, 5) + 16 * Bit(b, 4)
               + 8 * Bit(b, 3) + 4 * Bit(b, 2) + 2 * Bit(b, 1) + Bit(b, 0)
<1> DEFINE H(k) == b \div Power(2, k)
<1>1. b \in Nat /\ b < 256
  BY DEF Byte
<1>2. \A k \in Nat : \A n : n = k + 1 =>
        H(k) \in Nat /\ H(n) \in Nat /\ Bit(b, k) \in {0, 1} /\ H(k) = 2 * H(n) + Bit(b, k)
  BY <1>1, BitStep, Zenon
<1>3. H(0) = b /\ H(8) = 0
  <2>1. b \div 1 = b /\ b \div 256 = 0
    BY <1>1, Extremes, Zenon
  <2>2. Power(2, 0) = 1
    BY FirstPowers
  <2>3. Power(2, 8) = 256
    BY FirstPowers
  <2>4. H(0) = b
    BY <2>1, <2>2, Zenon
  <2>5. H(8) = 0
    BY <2>1, <2>3, Zenon
  <2>. QED
    BY <2>4, <2>5, Zenon
<1> HIDE DEF H
<1>4. H(0) = 2 * H(1) + Bit(b, 0) /\ H(1) = 2 * H(2) + Bit(b, 1) /\ H(2) = 2 * H(3) + Bit(b, 2)
  BY <1>2
<1>5. H(3) = 2 * H(4) + Bit(b, 3) /\ H(4) = 2 * H(5) + Bit(b, 4) /\ H(5) = 2 * H(6) + Bit(b, 5)
  BY <1>2
<1>6. H(6) = 2 * H(7) + Bit(b, 6) /\ H(7) = 2 * H(8) + Bit(b, 7)
  BY <1>2
<1>7. \A k \in 0 .. 7 : H(k) \in Nat /\ Bit(b, k) \in Nat
  BY <1>2, SMTT(30)
<1>. QED
  BY <1>1, <1>3, <1>4, <1>5, <1>6, <1>7

LEMMA BitAt ==
  ASSUME NEW s \in Seq(Byte), NEW i \in 1 .. Len(s), NEW r \in 0 .. 7, NEW j, j = 8 * i - r
  PROVE  BitOf(s, 8, j) = Bit(s[i], r)
<1>1. i \in Nat /\ i >= 1
  BY LenProperties
<1>2. (j - 1) \div 8 + 1 = i /\ (8 - 1) - ((j - 1) % 8) = r
  BY <1>1
<1>. QED
  BY <1>2 DEF BitOf, Bit

\* What HasBits says is enough to read the bytes again.
BitsRead(bits, c, bytes) ==
  /\ bits \in Seq({0, 1}) /\ Len(bits) = 5 * Len(c) /\ Len(bits) \div 8 = Len(bytes)
  /\ 8 * Len(bytes) <= Len(bits) /\ Len(bits) < 8 * Len(bytes) + 5
  /\ \A j \in 1 .. Len(bits) : bits[j] = IF j <= 8 * Len(bytes) THEN BitOf(bytes, 8, j) ELSE 0

LEMMA BitsReadIs ==
  ASSUME NEW bytes \in Seq(Byte), NEW c, HasBits(c, bytes)
  PROVE  BitsRead(BitsOf(c, 5), c, bytes)
<1> DEFINE bits == BitsOf(c, 5)
           n == 5 * Len(c)
           l == Len(bytes)
<1>1. /\ c \in Seq(Group) /\ 8 * l <= n /\ n < 8 * l + 5
      /\ \A j \in 1 .. n : BitOf(c, 5, j) = IF j <= 8 * l THEN BitOf(bytes, 8, j) ELSE 0
  BY Zenon DEF HasBits
<1>2. n \in Nat /\ l \in Nat
  BY <1>1, LenProperties
<1>3. ASSUME NEW j \in 1 .. n PROVE BitOf(c, 5, j) \in {0, 1}
  <2> DEFINE i == (j - 1) \div 5 + 1
             r == (5 - 1) - ((j - 1) % 5)
  <2>1. i \in 1 .. Len(c) /\ r \in Nat
    BY <1>1, LenProperties
  <2>2. c[i] \in Nat
    <3> HIDE DEF i
    <3>1. c[i] \in Group
      BY <1>1, <2>1, ElementOfSeq
    <3>. QED
      BY <3>1, ByteTypes
  <2>3. BitOf(c, 5, j) = Bit(c[i], r)
    BY DEF BitOf, Bit
  <2> HIDE DEF i, r
  <2>. QED
    BY <2>1, <2>2, <2>3, BitType
<1>4. bits = [j \in 1 .. n |-> BitOf(c, 5, j)]
  BY Zenon DEF BitsOf
<1> HIDE DEF bits, n, l
<1>5. bits \in [1 .. n -> {0, 1}] /\ \A j \in 1 .. n : bits[j] = BitOf(c, 5, j)
  BY <1>3, <1>4
<1>6. bits \in Seq({0, 1}) /\ Len(bits) = n
  BY <1>2, <1>5, SeqOfFunction
<1>7. n \div 8 = l
  BY <1>1, <1>2
<1>8. Len(bits) = 5 * Len(c)
  BY <1>6 DEF n
<1>9. BitsRead(bits, c, bytes)
  BY <1>1, <1>5, <1>6, <1>7, <1>8, Zenon DEF BitsRead, l
<1>. QED
  BY <1>9 DEF bits

\* The bytes that are read from the groups of a payload, and the padding after them.
ReadsBytes(c, bytes) ==
  LET bits == BitsOf(c, 5)
      padding == SubSeq(bits, 8 * Len(bytes) + 1, Len(bits))
  IN /\ BytesOf(bits) = bytes
     /\ Len(padding) < 5 /\ \A i \in DOMAIN padding : padding[i] = 0

LEMMA BytesRead ==
  ASSUME NEW bytes \in Seq(Byte), NEW c, HasBits(c, bytes)
  PROVE  ReadsBytes(c, bytes)
<1> DEFINE bits == BitsOf(c, 5)
           l == Len(bytes)
           n == Len(bits)
           z == BytesOf(bits)
           padding == SubSeq(bits, 8 * l + 1, n)
<1>1. /\ bits \in Seq({0, 1}) /\ n \div 8 = l /\ 8 * l <= n /\ n < 8 * l + 5
      /\ \A j \in 1 .. n : bits[j] = IF j <= 8 * l THEN BitOf(bytes, 8, j) ELSE 0
  BY BitsReadIs, Zenon DEF BitsRead
<1>2. z = [i \in 1 .. n \div 8 |->
            128 * bits[8 * i - 7] + 64 * bits[8 * i - 6] + 32 * bits[8 * i - 5]
              + 16 * bits[8 * i - 4] + 8 * bits[8 * i - 3] + 4 * bits[8 * i - 2]
              + 2 * bits[8 * i - 1] + bits[8 * i]]
  BY Zenon DEF BytesOf
<1> HIDE DEF bits, z
<1>3. l \in Nat /\ n \in Nat
  BY <1>1, LenProperties
<1>4. ASSUME NEW i \in 1 .. l PROVE z[i] = bytes[i]
  <2>1. ASSUME NEW r \in 0 .. 7, NEW j, j = 8 * i - r PROVE bits[j] = Bit(bytes[i], r)
    <3>1. j \in 1 .. n /\ j <= 8 * l
      BY <1>1, <1>3, <2>1
    <3>2. BitOf(bytes, 8, j) = Bit(bytes[i], r)
      BY <2>1, BitAt
    <3>. QED
      BY <1>1, <3>1, <3>2, Zenon
  <2>2. 8 * i = 8 * i - 0
    BY <1>3
  <2> DEFINE b == bytes[i]
  <2>3. /\ bits[8 * i - 7] = Bit(b, 7) /\ bits[8 * i - 6] = Bit(b, 6)
        /\ bits[8 * i - 5] = Bit(b, 5) /\ bits[8 * i - 4] = Bit(b, 4)
        /\ bits[8 * i - 3] = Bit(b, 3) /\ bits[8 * i - 2] = Bit(b, 2)
        /\ bits[8 * i - 1] = Bit(b, 1) /\ bits[8 * i] = Bit(b, 0)
    BY <2>1, <2>2
  <2>4. b \in Byte
    BY ElementOfSeq
  <2>5. b = 128 * Bit(b, 7) + 64 * Bit(b, 6) + 32 * Bit(b, 5) + 16 * Bit(b, 4)
              + 8 * Bit(b, 3) + 4 * Bit(b, 2) + 2 * Bit(b, 1) + Bit(b, 0)
    BY <2>4, ByteSum
  <2>6. z[i] = 128 * bits[8 * i - 7] + 64 * bits[8 * i - 6] + 32 * bits[8 * i - 5]
                 + 16 * bits[8 * i - 4] + 8 * bits[8 * i - 3] + 4 * bits[8 * i - 2]
                 + 2 * bits[8 * i - 1] + bits[8 * i]
    BY <1>1, <1>2
  <2> HIDE DEF b
  <2>7. z[i] = b
    BY <2>3, <2>5, <2>6
  <2>. QED
    BY <2>7 DEF b
<1>5. z = bytes
  <2>1. z = [i \in 1 .. l |-> z[i]]
    BY <1>1, <1>2
  <2>2. bytes = [i \in 1 .. l |-> bytes[i]]
    BY LenProperties
  <2>. QED
    BY <1>4, <2>1, <2>2
<1>6. Len(padding) < 5 /\ \A i \in DOMAIN padding : padding[i] = 0
  <2>1. 8 * l + 1 \in 1 .. n + 1 /\ n \in 8 * l .. n
    BY <1>1, <1>3
  <2>2. /\ padding \in Seq({0, 1}) /\ Len(padding) = n - 8 * l
        /\ \A i \in 1 .. n - 8 * l : padding[i] = bits[8 * l + i]
    <3> DEFINE a == 8 * l + 1
    <3>1. a \in Int /\ n \in Int /\ \A i \in a .. n : bits[i] \in {0, 1}
      BY <1>1, <1>3, ElementOfSeq
    <3>2. /\ padding \in Seq({0, 1}) /\ Len(padding) = (IF a <= n THEN n - a + 1 ELSE 0)
          /\ \A i \in 1 .. n - a + 1 : padding[i] = bits[a + i - 1]
      BY <3>1, SubSeqProperties
    <3> HIDE DEF padding
    <3>3. n - a + 1 = n - 8 * l /\ (~(a <= n) => n - 8 * l = 0) /\ \A i \in Nat : a + i - 1 = 8 * l + i
      BY <1>1, <1>3
    <3>4. \A i \in 1 .. n - 8 * l : i \in Nat
      BY <1>3
    <3>. QED
      BY <3>2, <3>3, <3>4, Zenon
  <2> HIDE DEF padding
  <2>3. DOMAIN padding = 1 .. n - 8 * l
    BY <2>2, LenProperties
  <2>4. ASSUME NEW i \in 1 .. n - 8 * l PROVE padding[i] = 0
    <3>1. 8 * l + i \in 1 .. n /\ ~(8 * l + i <= 8 * l)
      BY <1>1, <1>3
    <3>. QED
      BY <1>1, <2>2, <3>1
  <2>5. Len(padding) < 5
    BY <1>1, <1>3, <2>2
  <2>. QED
    BY <2>3, <2>4, <2>5
<1> HIDE DEF padding
<1>7. BytesOf(BitsOf(c, 5)) = bytes
  BY <1>5 DEF z, bits
<1>8. padding = SubSeq(BitsOf(c, 5), 8 * Len(bytes) + 1, Len(BitsOf(c, 5)))
  BY Zenon DEF padding, bits
<1>. QED
  BY <1>6, <1>7, <1>8, Zenon DEF ReadsBytes

-----------------------------------------------------------------------------
(* Checksums *)

LEMMA XorIs ==
  ASSUME NEW a, NEW b, NEW e
  PROVE  e \in Xor(a, b) <=> ~(e \in a <=> e \in b)
BY DEF Xor

LEMMA XorType ==
  ASSUME NEW a \in Word, NEW b \in Word
  PROVE  Xor(a, b) \in Word
BY DEF Xor, Word

LEMMA XorSwap ==
  ASSUME NEW a, NEW b, NEW c, NEW d
  PROVE  Xor(Xor(a, b), Xor(c, d)) = Xor(Xor(a, c), Xor(b, d))
BY Zenon DEF Xor

LEMMA XorTwice ==
  ASSUME NEW a, NEW b
  PROVE  Xor(a, Xor(a, b)) = b
BY DEF Xor

LEMMA XorNone ==
  ASSUME NEW a
  PROVE  Xor(a, {}) = a
BY DEF Xor

Shifted(pre) == {i + 5 : i \in pre \ (25 .. 29)}
TermOf(i, pre) == IF 24 + i \in pre THEN GENERATOR[i] ELSE {}

LEMMA StepIs ==
  ASSUME NEW pre
  PROVE  bech32_polymod_step(pre) =
           Xor(Xor(Xor(Xor(Xor(Shifted(pre), TermOf(1, pre)), TermOf(2, pre)), TermOf(3, pre)),
                   TermOf(4, pre)), TermOf(5, pre))
BY Zenon DEF bech32_polymod_step, Shifted, TermOf

LEMMA TermType ==
  ASSUME NEW pre \in Word, NEW i \in 1 .. 5
  PROVE  TermOf(i, pre) \in Word
<1>1. \A n : WordOf(n) \in Word
  BY Zenon DEF WordOf, Word
<1>2. GENERATOR[i] \in Word
  BY <1>1, SMT DEF GENERATOR
<1>. QED
  BY <1>2 DEF TermOf, Word

LEMMA ShiftedType ==
  ASSUME NEW pre \in Word
  PROVE  Shifted(pre) \in Word
BY DEF Shifted, Word

LEMMA StepType ==
  ASSUME NEW pre \in Word
  PROVE  bech32_polymod_step(pre) \in Word
<1>1. /\ TermOf(1, pre) \in Word /\ TermOf(2, pre) \in Word /\ TermOf(3, pre) \in Word
      /\ TermOf(4, pre) \in Word /\ TermOf(5, pre) \in Word
  BY TermType
<1>2. Shifted(pre) \in Word
  BY ShiftedType
<1>3. Xor(Shifted(pre), TermOf(1, pre)) \in Word
  BY <1>1, <1>2, XorType, Zenon
<1>4. Xor(Xor(Shifted(pre), TermOf(1, pre)), TermOf(2, pre)) \in Word
  BY <1>1, <1>3, XorType, Zenon
<1>5. Xor(Xor(Xor(Shifted(pre), TermOf(1, pre)), TermOf(2, pre)), TermOf(3, pre)) \in Word
  BY <1>1, <1>4, XorType, Zenon
<1>6. Xor(Xor(Xor(Xor(Shifted(pre), TermOf(1, pre)), TermOf(2, pre)), TermOf(3, pre)),
          TermOf(4, pre)) \in Word
  BY <1>1, <1>5, XorType, Zenon
<1>. QED
  BY <1>1, <1>6, XorType, StepIs, Zenon

LEMMA TermLinear ==
  ASSUME NEW a, NEW b, NEW i
  PROVE  TermOf(i, Xor(a, b)) = Xor(TermOf(i, a), TermOf(i, b))
<1> DEFINE n == 24 + i
           g == GENERATOR[i]
<1>1. n \in Xor(a, b) <=> ~(n \in a <=> n \in b)
  BY XorIs
<1>2. Xor(g, g) = {} /\ Xor(g, {}) = g /\ Xor({}, g) = g /\ Xor({}, {}) = {}
  <2> HIDE DEF g
  <2>. QED
    BY DEF Xor
<1>3. \A u : TermOf(i, u) = IF n \in u THEN g ELSE {}
  BY Zenon DEF TermOf
<1> HIDE DEF n, g
<1>. QED
  BY <1>1, <1>2, <1>3

LEMMA ShiftedLinear ==
  ASSUME NEW a \in Word, NEW b \in Word
  PROVE  Shifted(Xor(a, b)) = Xor(Shifted(a), Shifted(b))
<1>1. \A u \in Word : \A e : e \in Shifted(u) <=> e \in Int /\ e - 5 \in u /\ e - 5 \in 0 .. 24
  BY DEF Shifted, Word
<1>2. Xor(a, b) \in Word
  BY XorType
<1>3. ASSUME NEW e PROVE e \in Shifted(Xor(a, b)) <=> e \in Xor(Shifted(a), Shifted(b))
  <2> DEFINE P == e \in Int /\ e - 5 \in 0 .. 24
             A == e - 5 \in a
             B == e - 5 \in b
             X == e - 5 \in Xor(a, b)
  <2>1. e - 5 \in Xor(a, b) <=> ~(e - 5 \in a <=> e - 5 \in b)
    <3> DEFINE k == e - 5
    <3> HIDE DEF k
    <3>1. k \in Xor(a, b) <=> ~(k \in a <=> k \in b)
      BY XorIs, Zenon
    <3>. QED
      BY <3>1 DEF k
  <2>2. e \in Xor(Shifted(a), Shifted(b)) <=> ~(e \in Shifted(a) <=> e \in Shifted(b))
    BY XorIs, Zenon
  <2>3. e \in Shifted(a) <=> e \in Int /\ e - 5 \in a /\ e - 5 \in 0 .. 24
    BY <1>1, Zenon
  <2>4. e \in Shifted(b) <=> e \in Int /\ e - 5 \in b /\ e - 5 \in 0 .. 24
    BY <1>1, Zenon
  <2>5. e \in Shifted(Xor(a, b)) <=> e \in Int /\ e - 5 \in Xor(a, b) /\ e - 5 \in 0 .. 24
    BY <1>1, <1>2, Zenon
  <2>. QED
    <3>1. (X <=> ~(A <=> B)) /\ (e \in Shifted(a) <=> P /\ A) /\ (e \in Shifted(b) <=> P /\ B)
      BY <2>1, <2>3, <2>4, Zenon
    <3>2. e \in Shifted(Xor(a, b)) <=> P /\ X
      BY <2>5, Zenon
    <3> HIDE DEF P, A, B, X
    <3>. QED
      BY <2>2, <3>1, <3>2, Zenon
<1>. QED
  BY <1>3, Zenon

\* The step of a sum is the sum of the steps.
LEMMA StepLinear ==
  ASSUME NEW a \in Word, NEW b \in Word
  PROVE  bech32_polymod_step(Xor(a, b)) = Xor(bech32_polymod_step(a), bech32_polymod_step(b))
<1> DEFINE x == Xor(a, b)
           S1(u) == Xor(Shifted(u), TermOf(1, u))
           S2(u) == Xor(S1(u), TermOf(2, u))
           S3(u) == Xor(S2(u), TermOf(3, u))
           S4(u) == Xor(S3(u), TermOf(4, u))
           S5(u) == Xor(S4(u), TermOf(5, u))
<1>1. \A i : TermOf(i, x) = Xor(TermOf(i, a), TermOf(i, b))
  BY TermLinear, Zenon
<1>2. \A u : S5(u) = bech32_polymod_step(u)
  BY StepIs, Zenon
<1>3. Shifted(x) = Xor(Shifted(a), Shifted(b))
  BY ShiftedLinear, Zenon
<1>4. S1(x) = Xor(S1(a), S1(b))
  <2>1. S1(x) = Xor(Xor(Shifted(a), Shifted(b)), Xor(TermOf(1, a), TermOf(1, b)))
    BY <1>1, <1>3, Zenon
  <2>. QED
    BY <2>1, XorSwap
<1>5. S2(x) = Xor(S2(a), S2(b))
  <2> HIDE DEF S1, x
  <2>1. S2(x) = Xor(Xor(S1(a), S1(b)), Xor(TermOf(2, a), TermOf(2, b)))
    BY <1>1, <1>4, Zenon
  <2>. QED
    BY <2>1, XorSwap
<1>6. S3(x) = Xor(S3(a), S3(b))
  <2> HIDE DEF S2, x
  <2>1. S3(x) = Xor(Xor(S2(a), S2(b)), Xor(TermOf(3, a), TermOf(3, b)))
    BY <1>1, <1>5, Zenon
  <2>. QED
    BY <2>1, XorSwap
<1>7. S4(x) = Xor(S4(a), S4(b))
  <2> HIDE DEF S3, x
  <2>1. S4(x) = Xor(Xor(S3(a), S3(b)), Xor(TermOf(4, a), TermOf(4, b)))
    BY <1>1, <1>6, Zenon
  <2>. QED
    BY <2>1, XorSwap
<1>8. S5(x) = Xor(S5(a), S5(b))
  <2> HIDE DEF S4, x
  <2>1. S5(x) = Xor(Xor(S4(a), S4(b)), Xor(TermOf(5, a), TermOf(5, b)))
    BY <1>1, <1>7, Zenon
  <2>. QED
    BY <2>1, XorSwap
<1> HIDE DEF S5
<1>. QED
  BY <1>2, <1>8, Zenon

\* A word without the five high bits is only shifted.
LEMMA StepShifts ==
  ASSUME NEW d, d \subseteq 0 .. 24
  PROVE  bech32_polymod_step(d) = Shifted(d)
<1>1. /\ TermOf(1, d) = {} /\ TermOf(2, d) = {} /\ TermOf(3, d) = {} /\ TermOf(4, d) = {}
      /\ TermOf(5, d) = {}
  BY DEF TermOf
<1>. QED
  BY <1>1, XorNone, StepIs, Zenon

LEMMA ZeroBits ==
  ASSUME NEW k \in Nat
  PROVE  Bit(0, k) = 0
<1>1. Power(2, k) \in Nat \ {0}
  BY TwoPower
<1>2. 0 < Power(2, k) /\ 0 \in Nat
  BY <1>1
<1>. QED
  BY <1>2, BitHigh

\* A number that is doubled and incremented.
BitsDouble(x, q, b) == Bit(x, 0) = b /\ \A k \in Nat : Bit(x, k + 1) = Bit(q, k)

LEMMA BitDouble ==
  ASSUME NEW q \in Nat, NEW b \in {0, 1}, NEW x, x = b + 2 * q
  PROVE  BitsDouble(x, q, b) /\ x \in Nat
<1>1. Power(2, 1) = 2 /\ Power(2, 0) = 1
  BY FirstPowers
<1>2. x = q * 2 + b /\ x \in Nat /\ b < 2 /\ 1 \in Nat /\ b \in Nat
  OBVIOUS
<1>3. BitsJoin(x, q, 1, b)
  BY <1>1, <1>2, BitJoin
<1>4. Bit(b, 0) = b
  <2>1. (b \div 1) % 2 = b
    OBVIOUS
  <2>. QED
    BY <1>1, <2>1 DEF Bit
<1>5. Bit(x, 0) = b
  <2>1. 0 \in 0 .. 1 - 1
    OBVIOUS
  <2>. QED
    BY <1>3, <1>4, <2>1, Zenon DEF BitsJoin
<1>6. ASSUME NEW k \in Nat PROVE Bit(x, k + 1) = Bit(q, k)
  <2>1. k + 1 \in Nat /\ 1 <= k + 1 /\ (k + 1) - 1 = k
    OBVIOUS
  <2>2. b < Power(2, 1)
    BY <1>1, <1>2
  <2>3. Bit(x, k + 1) = Bit(q, (k + 1) - 1)
    BY <1>3, <2>1, <2>2, Zenon DEF BitsJoin
  <2>. QED
    BY <2>1, <2>3
<1>. QED
  BY <1>2, <1>5, <1>6, Zenon DEF BitsDouble

\* A group with the given bits.
FiveBits(b) == b[0] + 2 * b[1] + 4 * b[2] + 8 * b[3] + 16 * b[4]

LEMMA GroupWord ==
  ASSUME NEW b \in [0 .. 4 -> {0, 1}]
  PROVE  /\ FiveBits(b) \in Group
         /\ GroupWords[FiveBits(b)] = {i \in 0 .. 4 : b[i] = 1}
<1> DEFINE n4 == b[4] + 2 * 0
           n3 == b[3] + 2 * n4
           n2 == b[2] + 2 * n3
           n1 == b[1] + 2 * n2
           n0 == b[0] + 2 * n1
<1>1. \A i \in 0 .. 4 : b[i] \in {0, 1}
  OBVIOUS
<1>2. n0 \in Group /\ FiveBits(b) = n0
  BY <1>1 DEF Group, FiveBits
<1>3. /\ n4 = b[4] + 2 * 0 /\ n3 = b[3] + 2 * n4 /\ n2 = b[2] + 2 * n3 /\ n1 = b[1] + 2 * n2
      /\ n0 = b[0] + 2 * n1 /\ 0 \in Nat
  OBVIOUS
<1> HIDE DEF n0, n1, n2, n3, n4
<1>0. /\ b[0] \in {0, 1} /\ b[1] \in {0, 1} /\ b[2] \in {0, 1} /\ b[3] \in {0, 1}
      /\ b[4] \in {0, 1}
  BY <1>1
<1>4. BitsDouble(n4, 0, b[4]) /\ n4 \in Nat
  BY <1>0, <1>3, BitDouble, Zenon
<1>5. BitsDouble(n3, n4, b[3]) /\ n3 \in Nat
  BY <1>0, <1>3, <1>4, BitDouble, Zenon
<1>6. BitsDouble(n2, n3, b[2]) /\ n2 \in Nat
  BY <1>0, <1>3, <1>5, BitDouble, Zenon
<1>7. BitsDouble(n1, n2, b[1]) /\ n1 \in Nat
  BY <1>0, <1>3, <1>6, BitDouble, Zenon
<1>8. BitsDouble(n0, n1, b[0])
  BY <1>0, <1>3, <1>7, BitDouble, Zenon
<1>9. \A k \in Nat : /\ Bit(n0, k + 1) = Bit(n1, k) /\ Bit(n1, k + 1) = Bit(n2, k)
                     /\ Bit(n2, k + 1) = Bit(n3, k) /\ Bit(n3, k + 1) = Bit(n4, k)
                     /\ Bit(n4, k + 1) = 0
  BY <1>4, <1>5, <1>6, <1>7, <1>8, ZeroBits, Zenon DEF BitsDouble
<1>10. /\ Bit(n0, 0) = b[0] /\ Bit(n1, 0) = b[1] /\ Bit(n2, 0) = b[2] /\ Bit(n3, 0) = b[3]
       /\ Bit(n4, 0) = b[4]
  BY <1>4, <1>5, <1>6, <1>7, <1>8, Zenon DEF BitsDouble
<1>11. /\ Bit(n0, 1) = b[1] /\ Bit(n0, 2) = b[2] /\ Bit(n0, 3) = b[3] /\ Bit(n0, 4) = b[4]
  <2>1. Bit(n0, 1) = Bit(n1, 0) /\ Bit(n1, 1) = Bit(n2, 0) /\ Bit(n2, 1) = Bit(n3, 0)
        /\ Bit(n3, 1) = Bit(n4, 0)
    BY <1>9
  <2>2. Bit(n0, 2) = Bit(n1, 1) /\ Bit(n1, 2) = Bit(n2, 1) /\ Bit(n2, 2) = Bit(n3, 1)
    BY <1>9
  <2>3. Bit(n0, 3) = Bit(n1, 2) /\ Bit(n1, 3) = Bit(n2, 2) /\ Bit(n0, 4) = Bit(n1, 3)
    BY <1>9
  <2>. QED
    BY <1>10, <2>1, <2>2, <2>3
<1>12. ASSUME NEW i \in 0 .. 29, i > 4 PROVE Bit(n0, i) = 0
  <2>1. i - 5 \in Nat /\ i - 4 \in Nat /\ i - 3 \in Nat /\ i - 2 \in Nat /\ i - 1 \in Nat
    BY <1>12
  <2>2. i = (i - 1) + 1 /\ i - 1 = (i - 2) + 1 /\ i - 2 = (i - 3) + 1 /\ i - 3 = (i - 4) + 1
        /\ i - 4 = (i - 5) + 1
    OBVIOUS
  <2>3. Bit(n0, i) = Bit(n1, i - 1) /\ Bit(n1, i - 1) = Bit(n2, i - 2)
    BY <1>9, <2>1, <2>2
  <2>4. Bit(n2, i - 2) = Bit(n3, i - 3) /\ Bit(n3, i - 3) = Bit(n4, i - 4) /\ Bit(n4, i - 4) = 0
    BY <1>9, <2>1, <2>2
  <2>. QED
    BY <2>3, <2>4
<1>13. GroupWords[n0] = {i \in 0 .. 29 : Bit(n0, i) = 1}
  BY <1>2, Zenon DEF GroupWords, WordOf, Bit
<1>14. \A i \in 0 .. 29 : Bit(n0, i) = 1 <=> i \in 0 .. 4 /\ b[i] = 1
  <2>1. ASSUME NEW i \in 0 .. 4 PROVE Bit(n0, i) = b[i]
    <3>1. i = 0 \/ i = 1 \/ i = 2 \/ i = 3 \/ i = 4
      OBVIOUS
    <3>. QED
      BY <1>10, <1>11, <3>1, Zenon
  <2>. QED
    BY <1>12, <2>1
<1>15. {i \in 0 .. 29 : Bit(n0, i) = 1} = {i \in 0 .. 4 : b[i] = 1}
  BY <1>14
<1>. QED
  BY <1>2, <1>13, <1>15, Zenon

LEMMA NoWord == GroupWords[0] = {}
<1>1. 0 \in Group
  BY DEF Group
<1>2. GroupWords[0] = {i \in 0 .. 29 : Bit(0, i) = 1}
  BY <1>1, Zenon DEF GroupWords, WordOf, Bit
<1>3. \A i \in 0 .. 29 : Bit(0, i) = 0
  BY ZeroBits
<1>. QED
  BY <1>2, <1>3

LEMMA GroupWordType ==
  ASSUME NEW v \in Group
  PROVE  GroupWords[v] \in Word
BY Zenon DEF GroupWords, WordOf, Word

LEMMA ChecksumFolds == \A a \in Word : Folds(AddGroup, a, Word, Group)
<1>1. ASSUME NEW p \in Word \X Group
      PROVE  Xor(bech32_polymod_step(p[1]), GroupWords[p[2]]) \in Word
  <2>1. p[1] \in Word /\ p[2] \in Group
    OBVIOUS
  <2>. QED
    BY <2>1, StepType, GroupWordType, XorType, Zenon
<1>2. AddGroup \in [Word \X Group -> Word]
  BY <1>1, Zenon DEF AddGroup
<1>. QED
  BY <1>2, Zenon DEF Folds

Flag(chk, i) == IF i \in chk THEN 1 ELSE 0

\* The groups of the checksum, as bech32_encode writes them.
SumOf(chk) ==
  [i \in 1 .. 6 |->
     LET low == 5 * (6 - i)
     IN Flag(chk, low) + 2 * Flag(chk, low + 1) + 4 * Flag(chk, low + 2) + 8 * Flag(chk, low + 3)
          + 16 * Flag(chk, low + 4)]

\* What such a group is in a word, and what is above it.
Low(chk, low) == {j \in 0 .. 4 : low + j \in chk}
Above(chk, low) == {j \in 0 .. 29 : j + low \in chk}

LEMMA SumGroup ==
  ASSUME NEW chk, NEW i \in 1 .. 6
  PROVE  SumOf(chk)[i] \in Group /\ GroupWords[SumOf(chk)[i]] = Low(chk, 5 * (6 - i))
<1> DEFINE low == 5 * (6 - i)
           b == [j \in 0 .. 4 |-> Flag(chk, low + j)]
<1>1. \A j : Flag(chk, j) \in {0, 1} /\ (Flag(chk, j) = 1 <=> j \in chk)
  BY DEF Flag
<1>2. low \in Nat /\ low + 0 = low
  OBVIOUS
<1> HIDE DEF low
<1>3. b \in [0 .. 4 -> {0, 1}]
  BY <1>1
<1>4. /\ b[0] = Flag(chk, low) /\ b[1] = Flag(chk, low + 1) /\ b[2] = Flag(chk, low + 2)
      /\ b[3] = Flag(chk, low + 3) /\ b[4] = Flag(chk, low + 4)
  BY <1>2
<1>5. {j \in 0 .. 4 : b[j] = 1} = Low(chk, low)
  BY <1>1 DEF Low
<1>6. SumOf(chk)[i] = Flag(chk, low) + 2 * Flag(chk, low + 1) + 4 * Flag(chk, low + 2)
                        + 8 * Flag(chk, low + 3) + 16 * Flag(chk, low + 4)
  BY DEF SumOf, low
<1> HIDE DEF b
<1>7. SumOf(chk)[i] = FiveBits(b)
  BY <1>4, <1>6, Zenon DEF FiveBits
<1>8. FiveBits(b) \in Group /\ GroupWords[FiveBits(b)] = {j \in 0 .. 4 : b[j] = 1}
  BY <1>3, GroupWord, Zenon
<1>9. SumOf(chk)[i] \in Group /\ GroupWords[SumOf(chk)[i]] = Low(chk, low)
  BY <1>5, <1>7, <1>8, Zenon
<1>. QED
  BY <1>9 DEF low

\* A group more of the checksum: what was above it is shifted.
LEMMA AboveStep ==
  ASSUME NEW chk \in Word, NEW low \in Nat
  PROVE  /\ Above(chk, low + 5) \in Word
         /\ Xor(bech32_polymod_step(Above(chk, low + 5)), Low(chk, low)) = Above(chk, low)
<1> DEFINE d == Above(chk, low + 5)
<1>1. chk \subseteq 0 .. 29
  BY DEF Word
<1>2. d \subseteq 0 .. 24 /\ d \in Word
  BY <1>1 DEF Above, Word
<1>3. bech32_polymod_step(d) = Shifted(d)
  BY <1>2, StepShifts, Zenon
<1>4. Shifted(d) = {j \in 5 .. 29 : j + low \in chk}
  <2>1. d = {j \in 0 .. 24 : j + (low + 5) \in chk}
    BY <1>1 DEF Above
  <2> HIDE DEF d
  <2>2. Shifted(d) = {j + 5 : j \in d}
    BY <1>2 DEF Shifted
  <2>3. ASSUME NEW j \in 0 .. 24 PROVE j + (low + 5) = (j + 5) + low
    OBVIOUS
  <2>4. ASSUME NEW e \in Shifted(d) PROVE e \in 5 .. 29 /\ e + low \in chk
    BY <2>1, <2>2, <2>3
  <2>5. ASSUME NEW e \in 5 .. 29, e + low \in chk PROVE e \in Shifted(d)
    <3>1. e - 5 \in 0 .. 24 /\ (e - 5) + (low + 5) = e + low /\ e = (e - 5) + 5
      OBVIOUS
    <3>2. e - 5 \in d
      BY <2>1, <2>5, <3>1
    <3>. QED
      BY <2>2, <3>1, <3>2
  <2>. QED
    BY <2>4, <2>5
<1> HIDE DEF d
<1>5. Above(chk, low) = {j \in 5 .. 29 : j + low \in chk} \cup Low(chk, low)
  <2>1. \A j \in 0 .. 4 : j + low = low + j
    OBVIOUS
  <2>2. Low(chk, low) = {j \in 0 .. 4 : j + low \in chk}
    BY <2>1 DEF Low
  <2>3. \A j : j \in 0 .. 29 <=> j \in 5 .. 29 \/ j \in 0 .. 4
    OBVIOUS
  <2>. QED
    BY <2>2, <2>3 DEF Above
<1>6. Xor({j \in 5 .. 29 : j + low \in chk}, Low(chk, low))
        = {j \in 5 .. 29 : j + low \in chk} \cup Low(chk, low)
  <2>1. \A j \in 0 .. 4 : j \notin 5 .. 29
    OBVIOUS
  <2>. QED
    BY <2>1 DEF Xor, Low
<1>7. d \in Word /\ Xor(bech32_polymod_step(d), Low(chk, low)) = Above(chk, low)
  BY <1>2, <1>3, <1>4, <1>5, <1>6, Zenon
<1>. QED
  BY <1>7 DEF d

LEMMA XorAssociates ==
  ASSUME NEW a, NEW b, NEW c
  PROVE  Xor(Xor(a, b), c) = Xor(a, Xor(b, c))
BY DEF Xor

SixZeros == <<0, 0, 0, 0, 0, 0>>

\* With its checksum, whatever was read before it, a text has the checksum one.
LEMMA ChecksumIsOne ==
  ASSUME NEW a \in Word, NEW chk, chk = Xor(FoldUp(AddGroup, a, SixZeros), {0})
  PROVE  chk \in Word /\ FoldUp(AddGroup, a, SumOf(chk)) = {0}
<1> DEFINE sum == SumOf(chk)
<1>1. a \in Word /\ AddGroup \in [Word \X Group -> Word]
  BY ChecksumFolds, Zenon DEF Folds
<1>2. /\ SixZeros \in Seq(Group) /\ Len(SixZeros) = 6 /\ \A i \in 1 .. 6 : SixZeros[i] = 0
      /\ 0 \in Group
  BY DEF SixZeros, Group
<1>3. sum \in Seq(Group) /\ Len(sum) = 6
  <2>1. \A i \in 1 .. 6 : sum[i] \in Group
    BY SumGroup
  <2>2. sum \in [1 .. 6 -> Group]
    BY <2>1, Zenon DEF SumOf
  <2>. QED
    BY <2>2, SeqOfFunction, ZenonT(30)
<1>4. PICK h : Computes(h, Word, AddGroup, a, SixZeros)
  BY <1>1, <1>2, FoldUpComputes, Zenon
<1>5. PICK g : Computes(g, Word, AddGroup, a, sum)
  BY <1>1, <1>3, FoldUpComputes, Zenon
<1>6. /\ h \in [0 .. 6 -> Word] /\ h[0] = a /\ FoldUp(AddGroup, a, SixZeros) = h[6]
      /\ \A i \in 1 .. 6 : h[i] = AddGroup[<<h[i - 1], SixZeros[i]>>]
  BY <1>2, <1>4 DEF Computes
<1>7. /\ g \in [0 .. 6 -> Word] /\ g[0] = a /\ FoldUp(AddGroup, a, sum) = g[6]
      /\ \A i \in 1 .. 6 : g[i] = AddGroup[<<g[i - 1], sum[i]>>]
  BY <1>3, <1>5 DEF Computes
<1>8. chk \in Word /\ chk = Xor(h[6], {0})
  <2>1. h[6] \in Word /\ {0} \in Word
    BY <1>6 DEF Word
  <2>. QED
    BY <1>6, <2>1, XorType, Zenon
<1>9. \A p \in Word, v \in Group : AddGroup[<<p, v>>] = Xor(bech32_polymod_step(p), GroupWords[v])
  BY DEF AddGroup
<1> DEFINE D(i) == Above(chk, 5 * (6 - i))
<1>10. ASSUME NEW i \in 1 .. 6, g[i - 1] = Xor(h[i - 1], D(i - 1))
       PROVE  g[i] = Xor(h[i], D(i))
  <2> DEFINE k == i - 1
             low == 5 * (6 - i)
             x == bech32_polymod_step(h[k])
             y == bech32_polymod_step(D(k))
             w == Low(chk, low)
  <2>1. k \in 0 .. 6 /\ low \in Nat /\ 5 * (6 - k) = low + 5
    OBVIOUS
  <2>2. h[k] \in Word /\ g[k] \in Word
    BY <1>6, <1>7, <2>1
  <2>3. D(k) \in Word /\ Xor(y, w) = D(i)
    BY <1>8, <2>1, AboveStep, Zenon
  <2>4. sum[i] \in Group /\ GroupWords[sum[i]] = w
    BY SumGroup, Zenon
  <2>5. h[i] = x
    <3>1. h[i] = AddGroup[<<h[k], 0>>]
      BY <1>2, <1>6
    <3>2. AddGroup[<<h[k], 0>>] = Xor(x, {})
      BY <1>2, <1>9, <2>2, NoWord, ZenonT(30)
    <3>. QED
      BY <3>1, <3>2, XorNone
  <2>6. g[i] = Xor(bech32_polymod_step(g[k]), w)
    <3>1. g[i] = AddGroup[<<g[k], sum[i]>>]
      BY <1>7
    <3>2. AddGroup[<<g[k], sum[i]>>] = Xor(bech32_polymod_step(g[k]), GroupWords[sum[i]])
      BY <1>9, <2>2, <2>4, Zenon
    <3>. QED
      BY <2>4, <3>1, <3>2, Zenon
  <2>7. bech32_polymod_step(g[k]) = Xor(x, y)
    <3>1. bech32_polymod_step(Xor(h[k], D(k))) = Xor(x, y)
      BY <2>2, <2>3, StepLinear, Zenon
    <3>. QED
      BY <1>10, <3>1
  <2>8. Xor(Xor(x, y), w) = Xor(x, Xor(y, w))
    <3> HIDE DEF x, y, w
    <3>. QED
      BY XorAssociates
  <2>. QED
    BY <2>3, <2>5, <2>6, <2>7, <2>8, Zenon
<1>11. g[0] = Xor(h[0], D(0))
  <2>1. D(0) = {}
    BY <1>8 DEF Above, Word
  <2>. QED
    BY <1>6, <1>7, <2>1, XorNone, Zenon
<1>12. g[6] = Xor(h[6], D(6))
  <2> HIDE DEF D
  <2>1. g[1] = Xor(h[1], D(1))
    BY <1>10, <1>11
  <2>2. g[2] = Xor(h[2], D(2))
    BY <1>10, <2>1
  <2>3. g[3] = Xor(h[3], D(3))
    BY <1>10, <2>2
  <2>4. g[4] = Xor(h[4], D(4))
    BY <1>10, <2>3
  <2>5. g[5] = Xor(h[5], D(5))
    BY <1>10, <2>4
  <2>. QED
    BY <1>10, <2>5
<1>13. D(6) = chk
  BY <1>8 DEF Above, Word
<1>14. g[6] = {0}
  <2>1. g[6] = Xor(h[6], chk)
    BY <1>12, <1>13
  <2>2. Xor(h[6], Xor(h[6], {0})) = {0}
    BY XorTwice, Zenon
  <2>. QED
    BY <1>8, <2>1, <2>2
<1>. QED
  BY <1>7, <1>8, <1>14

-----------------------------------------------------------------------------
(* The text of an address *)

\* The value of a character of the charset.
ValueOf(c) ==
  CASE c = 113 -> 0 [] c = 112 -> 1 [] c = 122 -> 2 [] c = 114 -> 3 [] c = 121 -> 4
    [] c = 57 -> 5 [] c = 120 -> 6 [] c = 56 -> 7 [] c = 103 -> 8 [] c = 102 -> 9
    [] c = 50 -> 10 [] c = 116 -> 11 [] c = 118 -> 12 [] c = 100 -> 13 [] c = 119 -> 14
    [] c = 48 -> 15 [] c = 115 -> 16 [] c = 51 -> 17 [] c = 106 -> 18 [] c = 110 -> 19
    [] c = 53 -> 20 [] c = 52 -> 21 [] c = 107 -> 22 [] c = 104 -> 23 [] c = 99 -> 24
    [] c = 101 -> 25 [] c = 54 -> 26 [] c = 109 -> 27 [] c = 117 -> 28 [] c = 97 -> 29
    [] c = 55 -> 30 [] OTHER -> 31

LEMMA CharsetIs ==
  /\ \A v \in Group : charset[v + 1] \in Chars
  /\ \A v \in Group : \A w \in Group : charset[w + 1] = charset[v + 1] => w = v
<1>1. ASSUME NEW v \in Group
      PROVE  charset[v + 1] \in 48 .. 122 /\ ValueOf(charset[v + 1]) = v
  <2>1. charset[1] = 113 /\ charset[2] = 112 /\ charset[3] = 122 /\ charset[4] = 114
    BY SMTT(30) DEF charset
  <2>2. charset[5] = 121 /\ charset[6] = 57 /\ charset[7] = 120 /\ charset[8] = 56
    BY SMTT(30) DEF charset
  <2>3. charset[9] = 103 /\ charset[10] = 102 /\ charset[11] = 50 /\ charset[12] = 116
    BY SMTT(30) DEF charset
  <2>4. charset[13] = 118 /\ charset[14] = 100 /\ charset[15] = 119 /\ charset[16] = 48
    BY SMTT(30) DEF charset
  <2>5. charset[17] = 115 /\ charset[18] = 51 /\ charset[19] = 106 /\ charset[20] = 110
    BY SMTT(30) DEF charset
  <2>6. charset[21] = 53 /\ charset[22] = 52 /\ charset[23] = 107 /\ charset[24] = 104
    BY SMTT(30) DEF charset
  <2>7. charset[25] = 99 /\ charset[26] = 101 /\ charset[27] = 54 /\ charset[28] = 109
    BY SMTT(30) DEF charset
  <2>8. charset[29] = 117 /\ charset[30] = 97 /\ charset[31] = 55 /\ charset[32] = 108
    BY SMTT(30) DEF charset
  <2>9. ValueOf(113) = 0 /\ ValueOf(112) = 1 /\ ValueOf(122) = 2 /\ ValueOf(114) = 3
    BY SMTT(30) DEF ValueOf
  <2>10. ValueOf(121) = 4 /\ ValueOf(57) = 5 /\ ValueOf(120) = 6 /\ ValueOf(56) = 7
    BY SMTT(30) DEF ValueOf
  <2>11. ValueOf(103) = 8 /\ ValueOf(102) = 9 /\ ValueOf(50) = 10 /\ ValueOf(116) = 11
    BY SMTT(30) DEF ValueOf
  <2>12. ValueOf(118) = 12 /\ ValueOf(100) = 13 /\ ValueOf(119) = 14 /\ ValueOf(48) = 15
    BY SMTT(30) DEF ValueOf
  <2>13. ValueOf(115) = 16 /\ ValueOf(51) = 17 /\ ValueOf(106) = 18 /\ ValueOf(110) = 19
    BY SMTT(30) DEF ValueOf
  <2>14. ValueOf(53) = 20 /\ ValueOf(52) = 21 /\ ValueOf(107) = 22 /\ ValueOf(104) = 23
    BY SMTT(30) DEF ValueOf
  <2>15. ValueOf(99) = 24 /\ ValueOf(101) = 25 /\ ValueOf(54) = 26 /\ ValueOf(109) = 27
    BY SMTT(30) DEF ValueOf
  <2>16. ValueOf(117) = 28 /\ ValueOf(97) = 29 /\ ValueOf(55) = 30 /\ ValueOf(108) = 31
    BY SMTT(30) DEF ValueOf
  <2>17. v \in 0 .. 31
    BY DEF Group
  <2>18. CASE v \in 0 .. 3
    BY <2>1, <2>9, <2>18
  <2>19. CASE v \in 4 .. 7
    BY <2>2, <2>10, <2>19
  <2>20. CASE v \in 8 .. 11
    BY <2>3, <2>11, <2>20
  <2>21. CASE v \in 12 .. 15
    BY <2>4, <2>12, <2>21
  <2>22. CASE v \in 16 .. 19
    BY <2>5, <2>13, <2>22
  <2>23. CASE v \in 20 .. 23
    BY <2>6, <2>14, <2>23
  <2>24. CASE v \in 24 .. 27
    BY <2>7, <2>15, <2>24
  <2>25. CASE v \in 28 .. 31
    BY <2>8, <2>16, <2>25
  <2>. QED
    BY <2>17, <2>18, <2>19, <2>20, <2>21, <2>22, <2>23, <2>24, <2>25
<1>2. 48 .. 122 \subseteq Chars
  BY DEF Chars
<1>3. \A v \in Group : charset[v + 1] \in Chars
  BY <1>1, <1>2, Zenon
<1>4. ASSUME NEW v \in Group, NEW w \in Group, charset[w + 1] = charset[v + 1] PROVE w = v
  BY <1>1, <1>4, Zenon
<1>. QED
  BY <1>3, <1>4, Zenon

Net == DOMAIN hrbs

LEMMA PrefixIs ==
  ASSUME NEW net \in Net
  PROVE  /\ hrbs[net] \in Seq(Chars) /\ Len(hrbs[net]) = 3
         /\ Expanded(hrbs[net]) \in Seq(Group)
         /\ Append(hrbs[net], 49) = hrbs[net] \o <<49>>
<1> DEFINE hrp == hrbs[net]
           high == [i \in DOMAIN hrp |-> hrp[i] \div 32]
           low == [i \in DOMAIN hrp |-> hrp[i] % 32]
<1>1. hrp = <<99, 107, 98>> \/ hrp = <<99, 107, 116>>
  BY DEF hrbs, Net
<1> HIDE DEF hrp
<1>2. /\ hrp \in Seq(Chars) /\ Len(hrp) = 3 /\ DOMAIN hrp = 1 .. 3
      /\ \A i \in 1 .. 3 : hrp[i] \in 0 .. 127
  <2>1. 99 \in Chars /\ 107 \in Chars /\ 98 \in Chars /\ 116 \in Chars
    BY DEF Chars
  <2>2. CASE hrp = <<99, 107, 98>>
    BY <2>1, <2>2
  <2>3. CASE hrp = <<99, 107, 116>>
    BY <2>1, <2>3
  <2>. QED
    BY <1>1, <2>2, <2>3, Zenon
<1>3. high \in [1 .. 3 -> Group] /\ low \in [1 .. 3 -> Group]
  <2>1. \A n \in 0 .. 127 : n \div 32 \in Group /\ n % 32 \in Group
    BY DEF Group
  <2>2. \A i \in 1 .. 3 : hrp[i] \div 32 \in Group /\ hrp[i] % 32 \in Group
    BY <1>2, <2>1, Zenon
  <2>. QED
    BY <1>2, <2>2, Zenon
<1> HIDE DEF high, low
<1>4. high \in Seq(Group) /\ low \in Seq(Group) /\ <<0>> \in Seq(Group)
  <2>1. <<0>> \in Seq(Group)
    BY DEF Group
  <2>. QED
    BY <1>3, <2>1, SeqOfFunction
<1>5. high \o <<0>> \o low \in Seq(Group)
  BY <1>4, ConcatProperties, Zenon
<1>6. Expanded(hrp) \in Seq(Group)
  BY <1>5 DEF Expanded, high, low
<1>7. Append(hrp, 49) = hrp \o <<49>>
  BY <1>2
<1>. QED
  BY <1>2, <1>6, <1>7 DEF hrp

\* The characters of groups.
CharsOf(all) == [i \in DOMAIN all |-> charset[all[i] + 1]]

\* A text with its groups and their checksum.
Encodes(text, hrp, data, all) ==
  /\ all \in Seq(Group) /\ Len(all) = Len(data) + 6 /\ Len(data) \in Nat
  /\ SubSeq(all, 1, Len(data)) = data
  /\ Polymod(Expanded(hrp) \o all) = {0}
  /\ text = hrp \o <<49>> \o CharsOf(all)

LEMMA EncodeIs ==
  ASSUME NEW net \in Net, NEW data \in Seq(Group)
  PROVE  \E all : Encodes(bech32_encode(hrbs[net], data), hrbs[net], data, all)
<1> DEFINE hrp == hrbs[net]
           e == Expanded(hrp)
           u == e \o data
           a == FoldUp(AddGroup, {0}, u)
           chk == Xor(Polymod(u \o SixZeros), {0})
           sum == SumOf(chk)
           all == data \o sum
<1>1. e \in Seq(Group)
  BY PrefixIs
<1> HIDE DEF e
<1>2. u \in Seq(Group)
  BY <1>1, ConcatProperties, Zenon
<1>3. Chains(AddGroup, {0}, Group) /\ a \in Word
  <2>1. Folds(AddGroup, {0}, Word, Group)
    <3>1. {0} \in Word
      BY DEF Word
    <3>. QED
      BY <3>1, ChecksumFolds, Zenon
  <2>2. a \in Word
    <3> HIDE DEF u
    <3>. QED
      BY <1>2, <2>1, FoldUpType, Zenon
  <2>. QED
    BY <2>1, <2>2, FoldUpConcat, Zenon
<1>4. SixZeros \in Seq(Group)
  BY DEF SixZeros, Group
<1>5. chk = Xor(FoldUp(AddGroup, a, SixZeros), {0})
  <2> HIDE DEF u
  <2>. QED
    BY <1>2, <1>3, <1>4, Zenon DEF Chains, Polymod
<1> HIDE DEF chk, a
<1>6. FoldUp(AddGroup, a, sum) = {0}
  BY <1>3, <1>5, ChecksumIsOne, Zenon
<1>7. sum \in Seq(Group) /\ Len(sum) = 6
  <2>1. \A i \in 1 .. 6 : sum[i] \in Group
    BY SumGroup
  <2>2. sum \in [1 .. 6 -> Group]
    BY <2>1, Zenon DEF SumOf
  <2>. QED
    BY <2>2, SeqOfFunction
<1> HIDE DEF sum
<1>8. Polymod(u \o sum) = {0}
  <2>1. FoldUp(AddGroup, {0}, u \o sum) = FoldUp(AddGroup, a, sum)
    BY <1>2, <1>3, <1>7, Zenon DEF Chains, a
  <2>. QED
    BY <1>6, <2>1, Zenon DEF Polymod
<1>9. u \o sum = e \o all
  <2>1. sum \in Seq(Group)
    BY <1>7, Zenon
  <2>2. Regrouped(e, data, sum)
    BY <1>1, <2>1, Regroups, Zenon
  <2>. QED
    BY <2>2, Zenon DEF Regrouped
<1>10. Joins(all, data, sum, Group)
  BY <1>7, Joined, Zenon
<1>11. bech32_encode(hrp, data) = hrp \o <<49>> \o CharsOf(all)
  BY Zenon DEF bech32_encode, CharsOf, all, sum, SumOf, Flag, chk, u, e, SixZeros
<1> HIDE DEF all
<1>12. all \in Seq(Group) /\ Len(all) = Len(data) + 6 /\ Len(data) \in Nat
       /\ SubSeq(all, 1, Len(data)) = data
  BY <1>7, <1>10, Zenon DEF Joins
<1>13. Polymod(Expanded(hrp) \o all) = {0}
  BY <1>8, <1>9, Zenon DEF e
<1>14. Encodes(bech32_encode(hrp, data), hrp, data, all)
  BY <1>11, <1>12, <1>13, Zenon DEF Encodes
<1>. QED
  BY <1>14

\* The text names the network and the bytes.
Names(text, net, z) ==
  LET data == DataOf(text)
      bits == BitsOf(SubSeq(data, 1, Len(data) - 6), 5)
      padding == SubSeq(bits, 8 * Len(z) + 1, Len(bits))
  IN /\ text \in Seq(Chars) /\ Len(text) = AddressWidth(Len(z))
     /\ SubSeq(text, 1, 4) = Append(hrbs[net], 49)
     /\ Polymod(Expanded(hrbs[net]) \o data) = {0}
     /\ BytesOf(bits) = z
     /\ Len(padding) < 5 /\ \A i \in DOMAIN padding : padding[i] = 0

\* The groups are read from the characters after the prefix and the separator.
LEMMA GroupsRead ==
  ASSUME NEW p \in Seq(Chars), NEW all \in Seq(Group), NEW text, Len(p) = 4, text = p \o CharsOf(all)
  PROVE  /\ text \in Seq(Chars) /\ Len(text) = 4 + Len(all) /\ SubSeq(text, 1, 4) = p
         /\ DataOf(text) = all
<1> DEFINE t == CharsOf(all)
           m == Len(all)
<1>1. m \in Nat /\ DOMAIN all = 1 .. m /\ \A i \in 1 .. m : all[i] \in Group
  BY LenProperties, ElementOfSeq
<1>2. t \in [1 .. m -> Chars] /\ \A i \in 1 .. m : t[i] = charset[all[i] + 1]
  BY <1>1, CharsetIs, Zenon DEF CharsOf
<1>3. t \in Seq(Chars) /\ Len(t) = m
  BY <1>1, <1>2, SeqOfFunction
<1>4. Joins(text, p, t, Chars)
  BY <1>3, Joined, Zenon
<1> HIDE DEF t
<1>5. text \in Seq(Chars) /\ SubSeq(text, 1, 4) = p /\ Len(text) = Len(p) + Len(t)
      /\ \A i \in 1 .. Len(t) : text[Len(p) + i] = t[i]
  BY <1>4, Zenon DEF Joins
<1>6. Len(text) = 4 + m /\ Len(text) - 4 = m
  BY <1>1, <1>3, <1>5
<1>7. ASSUME NEW i \in 1 .. m PROVE text[i + 4] = charset[all[i] + 1]
  <2>1. 4 + i = i + 4
    BY <1>1
  <2>2. t[i] = charset[all[i] + 1]
    BY <1>2, Zenon
  <2>3. text[Len(p) + i] = t[i]
    BY <1>3, <1>5, Zenon
  <2>4. text[4 + i] = t[i]
    BY <2>3, Zenon
  <2>. QED
    BY <2>1, <2>2, <2>4, Zenon
<1>8. ASSUME NEW i \in 1 .. m
      PROVE  (CHOOSE v \in 0 .. 31 : charset[v + 1] = text[i + 4]) = all[i]
  <2>1. all[i] \in Group
    BY <1>1
  <2>2. \A w \in Group : charset[w + 1] = charset[all[i] + 1] => w = all[i]
    BY <2>1, CharsetIs, Zenon
  <2>3. \E v \in Group : charset[v + 1] = text[i + 4]
    BY <1>7, <2>1, Zenon
  <2> DEFINE c == CHOOSE v \in Group : charset[v + 1] = text[i + 4]
  <2>4. c \in Group /\ charset[c + 1] = text[i + 4]
    BY <2>3, Zenon
  <2> HIDE DEF c
  <2>5. c = all[i]
    BY <1>7, <2>2, <2>4, Zenon
  <2>. QED
    BY <2>5, Zenon DEF c, Group
<1>9. DataOf(text) = [i \in 1 .. m |-> all[i]]
  <2>1. DataOf(text) = [i \in 1 .. m |-> CHOOSE v \in 0 .. 31 : charset[v + 1] = text[i + 4]]
    BY <1>6, Zenon DEF DataOf
  <2>. QED
    BY <1>8, <2>1, Zenon
<1>10. DataOf(text) = all
  <2>1. all = [i \in 1 .. m |-> all[i]]
    BY LenProperties
  <2>. QED
    BY <1>9, <2>1, Zenon
<1>. QED
  BY <1>5, <1>6, <1>10, Zenon DEF m

LEMMA AddressRead ==
  ASSUME NEW net \in Net, NEW z \in Seq(Byte), NEW text,
         text = bech32_encode(hrbs[net], convert_bits(z))
  PROVE  /\ Names(text, net, z) /\ convert_bits(z) \in Seq(Group)
         /\ Len(convert_bits(z)) = (8 * Len(z) + 4) \div 5
<1> DEFINE c == convert_bits(z)
           hrp == hrbs[net]
           p == hrp \o <<49>>
<1>1. HasBits(c, z)
  BY ConvertBitsIs, Zenon
<1>2. c \in Seq(Group) /\ Len(c) = (8 * Len(z) + 4) \div 5
  BY <1>1, Zenon DEF HasBits
<1> HIDE DEF c
<1>3. ReadsBytes(c, z)
  BY <1>1, BytesRead, Zenon
<1>4. PICK all : Encodes(bech32_encode(hrp, c), hrp, c, all)
  BY <1>2, EncodeIs, Zenon
<1>5. hrp \in Seq(Chars) /\ Len(hrp) = 3 /\ Append(hrp, 49) = p
  BY PrefixIs, Zenon
<1> HIDE DEF hrp
<1>6. p \in Seq(Chars) /\ Len(p) = 4
  <2>1. 49 \in Chars
    BY DEF Chars
  <2>2. Append(hrp, 49) \in Seq(Chars) /\ Len(Append(hrp, 49)) = Len(hrp) + 1
    <3>1. hrp \in Seq(Chars)
      BY <1>5, Zenon
    <3>. QED
      BY <2>1, <3>1, AppendProperties
  <2> DEFINE q == Append(hrp, 49)
  <2> HIDE DEF q
  <2>3. q \in Seq(Chars) /\ Len(q) = 4
    BY <1>5, <2>2 DEF q
  <2>. QED
    BY <1>5, <2>3 DEF q
<1>7. all \in Seq(Group) /\ Len(all) = Len(c) + 6 /\ Len(c) \in Nat
      /\ SubSeq(all, 1, Len(c)) = c /\ Polymod(Expanded(hrp) \o all) = {0}
  BY <1>4, Zenon DEF Encodes
<1>8. text = p \o CharsOf(all)
  BY <1>4, Zenon DEF Encodes, c, hrp
<1> HIDE DEF p
<1>9. /\ text \in Seq(Chars) /\ Len(text) = 4 + Len(all) /\ SubSeq(text, 1, 4) = p
      /\ DataOf(text) = all
  BY <1>6, <1>7, <1>8, GroupsRead, Zenon
<1>10. Len(text) = AddressWidth(Len(z))
  <2>1. Len(text) = 4 + (Len(c) + 6) /\ AddressWidth(Len(z)) = 3 + 7 + Len(c)
    BY <1>2, <1>7, <1>9, Zenon DEF AddressWidth
  <2>. QED
    BY <1>7, <2>1
<1>11. Len(DataOf(text)) - 6 = Len(c) /\ SubSeq(DataOf(text), 1, Len(DataOf(text)) - 6) = c
  <2>1. Len(all) - 6 = Len(c)
    BY <1>7
  <2>. QED
    BY <1>7, <1>9, <2>1, Zenon
<1>12. Names(text, net, z)
  <2>1. SubSeq(text, 1, 4) = Append(hrbs[net], 49)
    BY <1>5, <1>9, Zenon DEF hrp
  <2>2. Polymod(Expanded(hrbs[net]) \o DataOf(text)) = {0}
    BY <1>7, <1>9, Zenon DEF hrp
  <2>. QED
    BY <1>3, <1>9, <1>10, <1>11, <2>1, <2>2, Zenon DEF Names, ReadsBytes
<1>. QED
  BY <1>2, <1>12, Zenon DEF c

-----------------------------------------------------------------------------
(* Addresses of lock arguments *)

LockArg(arg) == arg \in Seq(Byte) /\ Len(arg) = ARG
Timelocked(arg) == \E i \in HASH + 1 .. Len(arg) : arg[i] # 0
PayloadWidth(multisig, arg) == IF multisig /\ Timelocked(arg) THEN 1 + CODE_HASH + ARG ELSE 2 + HASH

\* A payload is that of the lock argument.
Means(z, multisig, arg) ==
  LET hash == SubSeq(arg, 1, HASH)
      period == SubSeq(arg, HASH + 1, Len(arg))
  IN \/ ~multisig /\ z = <<1, 0>> \o hash
     \/ multisig /\ z = <<1, 1>> \o hash /\ \A i \in DOMAIN period : period[i] = 0
     \/ multisig /\ z = <<4>> \o multisigLockScript \o hash \o period
          /\ \E i \in DOMAIN period : period[i] # 0

\* A lock argument is a hash and a period.
LEMMA ArgIs ==
  ASSUME NEW arg, LockArg(arg)
  PROVE  LET hash == SubSeq(arg, 1, HASH)
             period == SubSeq(arg, HASH + 1, Len(arg))
         IN /\ hash \in Seq(Byte) /\ Len(hash) = HASH /\ period \in Seq(Byte)
            /\ arg = hash \o period
            /\ (\E i \in DOMAIN period : period[i] # 0) <=> Timelocked(arg)
<1> DEFINE hash == SubSeq(arg, 1, HASH)
           period == SubSeq(arg, HASH + 1, Len(arg))
           n == ARG - HASH
           u == hash \o period
<1>1. HASH \in Nat /\ ARG \in Nat /\ HASH <= ARG /\ n \in Nat
  BY Sizes
<1>2. arg \in Seq(Byte) /\ Len(arg) = ARG /\ \A i \in 1 .. ARG : arg[i] \in Byte
  BY ElementOfSeq, Zenon DEF LockArg
<1>3. hash \in Seq(Byte) /\ Len(hash) = HASH /\ \A i \in 1 .. HASH : hash[i] = arg[i]
  BY <1>1, <1>2
<1>4. period \in Seq(Byte) /\ Len(period) = n /\ \A i \in 1 .. n : period[i] = arg[HASH + i]
  BY <1>1, <1>2
<1> HIDE DEF hash, period
<1>5. Joins(u, hash, period, Byte)
  BY <1>3, <1>4, Joined, Zenon
<1>6. /\ u \in Seq(Byte) /\ Len(u) = Len(hash) + Len(period)
      /\ \A i \in 1 .. Len(hash) : u[i] = hash[i]
      /\ \A i \in 1 .. Len(period) : u[Len(hash) + i] = period[i]
  BY <1>5, Zenon DEF Joins
<1> HIDE DEF u
<1>7. ASSUME NEW i \in 1 .. ARG PROVE u[i] = arg[i]
  <2>1. CASE i \in 1 .. HASH
    BY <1>3, <1>6, <2>1
  <2>2. CASE i \notin 1 .. HASH
    <3> DEFINE k == i - HASH
    <3>1. k \in 1 .. n /\ i = HASH + k
      BY <1>1, <2>2
    <3> HIDE DEF k, n
    <3>2. u[HASH + k] = period[k]
      BY <1>3, <1>4, <1>6, <3>1, Zenon
    <3>3. period[k] = arg[HASH + k]
      BY <1>4, <3>1, Zenon
    <3>. QED
      BY <3>1, <3>2, <3>3, Zenon
  <2>. QED
    BY <2>1, <2>2
<1>8. u = arg
  <2>1. Len(u) = ARG
    BY <1>1, <1>3, <1>4, <1>6
  <2>. QED
    BY <1>2, <1>6, <1>7, <2>1, SeqEqual
<1>9. DOMAIN period = 1 .. n
  BY <1>4, LenProperties
<1>10. (\E i \in 1 .. n : period[i] # 0) <=> Timelocked(arg)
  <2>1. ASSUME NEW i \in 1 .. n, period[i] # 0 PROVE Timelocked(arg)
    <3>1. HASH + i \in HASH + 1 .. Len(arg) /\ arg[HASH + i] # 0
      BY <1>1, <1>2, <1>4, <2>1
    <3>. QED
      BY <3>1, Zenon DEF Timelocked
  <2>2. ASSUME NEW j \in HASH + 1 .. Len(arg), arg[j] # 0 PROVE \E i \in 1 .. n : period[i] # 0
    <3>1. j - HASH \in 1 .. n /\ HASH + (j - HASH) = j
      BY <1>1, <1>2
    <3>2. period[j - HASH] = arg[j]
      BY <1>4, <3>1
    <3>. QED
      BY <2>2, <3>1, <3>2
  <2>. QED
    BY <2>1, <2>2, Zenon DEF Timelocked
<1>. QED
  BY <1>3, <1>4, <1>8, <1>9, <1>10, Zenon DEF hash, period, u

\* The bytes of an address.
HasPayload(z, multisig, arg) ==
  z \in Seq(Byte) /\ Len(z) = PayloadWidth(multisig, arg) /\ Means(z, multisig, arg)

LEMMA PayloadIs ==
  ASSUME NEW arg, NEW multisig \in BOOLEAN, LockArg(arg)
  PROVE  HasPayload(Payload(multisig, arg), multisig, arg)
<1> DEFINE hash == SubSeq(arg, 1, HASH)
           period == SubSeq(arg, HASH + 1, Len(arg))
           z == Payload(multisig, arg)
           code == multisigLockScript
<1>1. /\ hash \in Seq(Byte) /\ Len(hash) = HASH /\ period \in Seq(Byte)
      /\ arg = hash \o period
      /\ (\E i \in DOMAIN period : period[i] # 0) <=> Timelocked(arg)
  BY ArgIs, Zenon
<1>2. arg \in Seq(Byte) /\ Len(arg) = ARG /\ HASH \in Nat /\ ARG \in Nat /\ CODE_HASH \in Nat
  BY Sizes, Zenon DEF LockArg
<1>3. z = IF ~multisig THEN <<1, 0>> \o hash
          ELSE IF ~Timelocked(arg) THEN <<1, 1>> \o hash
          ELSE <<4>> \o code \o arg
  BY Zenon DEF Payload, Timelocked
<1>4. code \in Seq(Byte) /\ Len(code) = CODE_HASH
  <2>1. \A i \in 1 .. CODE_HASH : (200 + i) % 256 \in Byte
    BY <1>2 DEF Byte
  <2>2. code \in [1 .. CODE_HASH -> Byte]
    BY <2>1, Zenon DEF multisigLockScript
  <2>. QED
    BY <1>2, <2>2, SeqOfFunction
<1> HIDE DEF hash, period, z, code
<1> DEFINE short == <<1, 0>>
           multi == <<1, 1>>
           full == <<4>>
<1>5. /\ short \in Seq(Byte) /\ multi \in Seq(Byte) /\ full \in Seq(Byte)
      /\ Len(short) = 2 /\ Len(multi) = 2 /\ Len(full) = 1
  BY DEF Byte
<1> HIDE DEF short, multi, full
<1>6. CASE ~multisig
  <2>1. z = short \o hash /\ z = <<1, 0>> \o hash
    BY <1>3, <1>6, Zenon DEF short
  <2>2. Joins(short \o hash, short, hash, Byte)
    BY <1>1, <1>5, Joined, Zenon
  <2>3. z \in Seq(Byte) /\ Len(z) = Len(short) + Len(hash)
    BY <2>1, <2>2, Zenon DEF Joins
  <2>4. Len(z) = PayloadWidth(multisig, arg)
    BY <1>1, <1>2, <1>5, <1>6, <2>3, Zenon DEF PayloadWidth
  <2>5. Means(z, multisig, arg)
    BY <1>6, <2>1, Zenon DEF Means, hash
  <2>. QED
    BY <2>3, <2>4, <2>5, Zenon DEF HasPayload, z
<1>7. CASE multisig /\ ~Timelocked(arg)
  <2>1. z = multi \o hash /\ z = <<1, 1>> \o hash
    BY <1>3, <1>7, Zenon DEF multi
  <2>2. Joins(multi \o hash, multi, hash, Byte)
    BY <1>1, <1>5, Joined, Zenon
  <2>3. z \in Seq(Byte) /\ Len(z) = Len(multi) + Len(hash)
    BY <2>1, <2>2, Zenon DEF Joins
  <2>4. Len(z) = PayloadWidth(multisig, arg)
    BY <1>1, <1>2, <1>5, <1>7, <2>3, Zenon DEF PayloadWidth
  <2>5. \A i \in DOMAIN period : period[i] = 0
    BY <1>1, <1>7, Zenon
  <2>6. Means(z, multisig, arg)
    BY <1>7, <2>1, <2>5, Zenon DEF Means, hash, period
  <2>. QED
    BY <2>3, <2>4, <2>6, Zenon DEF HasPayload, z
<1>8. CASE multisig /\ Timelocked(arg)
  <2> DEFINE head == full \o code
  <2>1. z = head \o arg
    BY <1>3, <1>8, Zenon DEF full
  <2>2. Joins(head, full, code, Byte)
    BY <1>4, <1>5, Joined, Zenon
  <2> HIDE DEF head
  <2>3. head \in Seq(Byte) /\ Len(head) = Len(full) + Len(code)
    BY <2>2, Zenon DEF Joins
  <2>4. Joins(head \o arg, head, arg, Byte)
    BY <1>2, <2>3, Joined, Zenon
  <2>5. z \in Seq(Byte) /\ Len(z) = Len(head) + Len(arg)
    BY <2>1, <2>4, Zenon DEF Joins
  <2>6. Len(z) = PayloadWidth(multisig, arg)
    BY <1>2, <1>4, <1>5, <1>8, <2>3, <2>5, Zenon DEF PayloadWidth
  <2>7. head \o arg = (head \o hash) \o period
    <3>1. hash \in Seq(Byte) /\ period \in Seq(Byte) /\ head \in Seq(Byte)
      BY <1>1, <2>3, Zenon
    <3>2. (head \o hash) \o period = head \o (hash \o period)
      <4>1. Regrouped(head, hash, period)
        BY <3>1, Regroups, Zenon
      <4>. QED
        BY <4>1, Zenon DEF Regrouped
    <3>3. arg = hash \o period
      BY <1>1, Zenon
    <3>. QED
      BY <3>2, <3>3
  <2>8. z = <<4>> \o multisigLockScript \o hash \o period
    BY <2>1, <2>7, Zenon DEF head, full, code
  <2>9. \E i \in DOMAIN period : period[i] # 0
    BY <1>1, <1>8, Zenon
  <2>10. Means(z, multisig, arg)
    BY <1>8, <2>8, <2>9, Zenon DEF Means, hash, period
  <2>. QED
    BY <2>5, <2>6, <2>10, Zenon DEF HasPayload, z
<1>. QED
  BY <1>6, <1>7, <1>8, Zenon

\* An address of a lock argument, and its text.
HasAddress(t, net, multisig, arg) ==
  /\ t \in Seq(Chars) /\ Len(t) = AddressWidth(PayloadWidth(multisig, arg))
  /\ IsAddress(t, net, multisig, arg)
  /\ AddressFits(net, multisig, arg)

LEMMA AddressIs ==
  ASSUME NEW net \in Net, NEW arg \in Locks, NEW multisig \in BOOLEAN
  PROVE  HasAddress(Rendered[<<net, multisig, arg>>], net, multisig, arg)
<1> DEFINE t == Rendered[<<net, multisig, arg>>]
           z == Payload(multisig, arg)
           c == convert_bits(z)
<1>1. LockArg(arg)
  BY ValuesAssumption, Zenon DEF LockArg
<1>2. HasPayload(z, multisig, arg)
  BY <1>1, PayloadIs, Zenon
<1>3. t = bech32_encode(hrbs[net], c)
  BY DEF Rendered, Net
<1> HIDE DEF t, z
<1>4. z \in Seq(Byte) /\ Len(z) = PayloadWidth(multisig, arg) /\ Means(z, multisig, arg)
  BY <1>2, Zenon DEF HasPayload
<1>5. Names(t, net, z) /\ Len(c) = (8 * Len(z) + 4) \div 5
  BY <1>3, <1>4, AddressRead, Zenon
<1>6. IsAddress(t, net, multisig, arg)
  BY <1>4, <1>5, Zenon DEF Names, Means, IsAddress
<1>7. t \in Seq(Chars) /\ Len(t) = AddressWidth(PayloadWidth(multisig, arg))
  BY <1>4, <1>5, Zenon DEF Names
<1>8. AddressFits(net, multisig, arg)
  <2> DEFINE l == Len(z)
             m == 1 + CODE_HASH + ARG
  <2>1. l \in Nat /\ m \in Nat /\ l <= m
    <3>1. l = 2 + HASH \/ l = m
      BY <1>4, Zenon DEF PayloadWidth
    <3> HIDE DEF l
    <3>. QED
      BY <3>1, Sizes
  <2>2. AddressWidth(l) <= AddressWidth(m)
    <3> HIDE DEF l, m
    <3>. QED
      BY <2>1 DEF AddressWidth
  <2>3. AddressWidth(m) <= BECH
    BY SizesAssumption, Zenon
  <2>4. AddressWidth(l) \in Int /\ AddressWidth(m) \in Int /\ BECH \in Nat /\ BECH <= VALUE_WIDTH
        /\ VALUE_WIDTH \in Nat
    <3> HIDE DEF l, m
    <3>. QED
      BY <2>1, Sizes DEF AddressWidth
  <2> DEFINE w == AddressWidth(l)
  <2>5. Len(hrbs[net]) + 7 + Len(c) = w
    <3>1. Len(hrbs[net]) = 3
      BY PrefixIs, Zenon
    <3>. QED
      BY <1>5, <3>1, Zenon DEF AddressWidth
  <2>6. w <= BECH /\ w <= VALUE_WIDTH + 1
    <3> DEFINE v == AddressWidth(m)
    <3>1. w <= v /\ v <= BECH /\ w \in Int /\ v \in Int
      BY <2>2, <2>3, <2>4, Zenon
    <3> HIDE DEF w, v
    <3>. QED
      BY <2>4, <3>1
  <2>. QED
    BY <2>5, <2>6, Zenon DEF AddressFits, EncodeFits, z
<1>. QED
  BY <1>6, <1>7, <1>8, Zenon DEF HasAddress, t

-----------------------------------------------------------------------------
(* Screens *)

\* What every step establishes.
Inv ==
  /\ TypeOK /\ ShownIsMeant /\ RenderingSucceeds /\ OnlyTimelockedSpills /\ SignatureIsCompact

LEMMA Widths ==
  /\ Room(MAX_INT_DIGITS) /\ Room(2 * MAX_INT_DIGITS + Len(of_str))
  /\ MAX_INT_DIGITS + 1 <= VALUE_WIDTH /\ 2 * (MAX_INT_DIGITS + 1) + 4 <= VALUE_WIDTH
  /\ 12 <= VALUE_WIDTH
  /\ MAX_INT_DIGITS + 1 + 8 + AddressWidth(2 + HASH) <= VALUE_WIDTH
<1>1. Len(of_str) = 4
  BY DEF of_str
<1> DEFINE w == AddressWidth(2 + HASH)
<1>2. w \in Nat /\ w >= 10
  BY Sizes DEF AddressWidth
<1>3. 2 * (MAX_INT_DIGITS + 1) + Len(of_str) <= VALUE_WIDTH
  BY SizesAssumption, Zenon
<1>4. MAX_INT_DIGITS + 1 + 8 + w <= VALUE_WIDTH
  BY SizesAssumption, Zenon
<1> HIDE DEF w
<1>5. MAX_INT_DIGITS \in Nat /\ VALUE_WIDTH \in Nat /\ MAX_INT_DIGITS >= 2
  BY Sizes
<1>6. 2 * (MAX_INT_DIGITS + 1) + 4 <= VALUE_WIDTH
  BY <1>1, <1>3, Zenon
<1>7. /\ Room(MAX_INT_DIGITS) /\ Room(2 * MAX_INT_DIGITS + Len(of_str))
      /\ MAX_INT_DIGITS + 1 <= VALUE_WIDTH /\ 12 <= VALUE_WIDTH
  BY <1>1, <1>2, <1>4, <1>5, <1>6 DEF Room
<1>. QED
  BY <1>4, <1>6, <1>7, Zenon DEF w

LEMMA TypeParts ==
  ASSUME TypeOK
  PROVE  active_value \in Buffer /\ out \in Answer /\ steps \in 0 .. MaxSteps
BY Zenon DEF TypeOK, Buffer, Answer

\* A screen with a text that fits.
LEMMA ScreenShows ==
  ASSUME TypeOK, NEW what, NEW ok \in BOOLEAN, NEW text \in Seq(Chars), Screen(what, ok, text), ok,
         Len(text) <= VALUE_WIDTH, what[1] \in Kinds
  PROVE  TypeOK' /\ done' = what /\ Text(active_value') = text /\ ~Spilled'
<1>1. active_value \in Buffer /\ out \in Answer /\ steps \in 0 .. MaxSteps /\ MaxSteps \in Nat
  BY TypeParts, Sizes
<1>2. /\ steps < MaxSteps /\ steps' = steps + 1 /\ active_value' = Put(active_value, text)
      /\ done' = what /\ out' = out
  BY Zenon DEF Screen
<1>3. /\ Text(active_value') = text
      /\ \E i \in DOMAIN active_value' : active_value'[i] = 0
  BY <1>1, <1>2, TextPut, Zenon
<1>4. active_value' \in Buffer
  <2>1. text \in Seq(Byte)
    BY CharsType
  <2>. QED
    BY <1>1, <1>2, <2>1, PutType, Zenon
<1>5. steps' \in 0 .. MaxSteps
  BY <1>1, <1>2
<1>6. ~Spilled'
  BY <1>3, Zenon DEF Spilled
<1>7. TypeOK'
  BY <1>1, <1>2, <1>4, <1>5, Zenon DEF TypeOK, Buffer, Answer
<1>. QED
  BY <1>2, <1>3, <1>6, <1>7, Zenon

\* A screen that is refused.
LEMMA ScreenRefused ==
  ASSUME TypeOK, Screen(<<"refused">>, FALSE, <<>>)
  PROVE  Inv'
<1>1. active_value \in Buffer /\ out \in Answer /\ steps \in 0 .. MaxSteps /\ MaxSteps \in Nat
  BY TypeParts, Sizes
<1>2. /\ steps < MaxSteps /\ steps' = steps + 1 /\ active_value' = active_value
      /\ done' = <<"THROW", <<"refused">>>> /\ out' = out
  BY Zenon DEF Screen
<1>3. steps' \in 0 .. MaxSteps
  BY <1>1, <1>2
<1>4. Kind' = "THROW" /\ done'[1] \in Kinds /\ done'[2] = <<"refused">>
  <2>1. done' = <<"THROW", <<"refused">>>>
    BY <1>2, Zenon
  <2>2. done'[1] = "THROW" /\ done'[2] = <<"refused">>
    BY <2>1
  <2>3. "THROW" \in Kinds
    BY DEF Kinds
  <2>. QED
    BY <2>2, <2>3, Zenon DEF Kind
<1>5. TypeOK'
  BY <1>1, <1>2, <1>3, <1>4, Zenon DEF TypeOK, Buffer, Answer
<1>6. ~IsScreen' /\ Kind' # "signature"
  BY <1>4 DEF IsScreen
<1>7. ShownIsMeant' /\ OnlyTimelockedSpills'
  BY <1>6, Zenon DEF ShownIsMeant, OnlyTimelockedSpills
<1>8. SignatureIsCompact' /\ RenderingSucceeds'
  BY <1>4, <1>6, Zenon DEF SignatureIsCompact, RenderingSucceeds
<1>. QED
  BY <1>5, <1>7, <1>8, Zenon DEF Inv

\* One that shows what is meant, and fits.
LEMMA ScreenIsRight ==
  ASSUME TypeOK', Kind' \notin {"none", "THROW", "signature"}, ~Spilled', ShownIsMeant'
  PROVE  Inv'
<1>1. Kind' # "THROW" /\ Kind' # "signature"
  OBVIOUS
<1>2. RenderingSucceeds' /\ SignatureIsCompact' /\ OnlyTimelockedSpills'
  BY <1>1, Zenon DEF RenderingSucceeds, SignatureIsCompact, OnlyTimelockedSpills
<1>. QED
  BY <1>2, Zenon DEF Inv

LEMMA TextTypes == Digit \subseteq Chars /\ AmountChar \subseteq Chars /\ 32 \notin AmountChar /\ 32 \notin Digit
BY DEF Digit, AmountChar, Chars

LEMMA AmountScreen ==
  ASSUME TypeOK, NEW n \in Numbers, frac_ckb_to_string_indirect(n)
  PROVE  Inv'
<1> DEFINE what == <<"amount", n>>
           text == frac_ckb_to_string(n)
<1>1. n \in Amount
  BY ValuesAssumption, Zenon
<1>2. text \in Seq(AmountChar) /\ Len(text) \in 1 .. MAX_INT_DIGITS + 1 /\ AmountOf(text) = n
  BY <1>1, AmountRead, Zenon
<1>3. Screen(what, Room(MAX_INT_DIGITS), text)
  BY Zenon DEF frac_ckb_to_string_indirect
<1> HIDE DEF text
<1>4. text \in Seq(Chars)
  BY <1>2, TextTypes, SeqMonotonic
<1>5. Len(text) <= VALUE_WIDTH
  <2>1. MAX_INT_DIGITS + 1 <= VALUE_WIDTH
    BY Widths, Zenon
  <2>. QED
    BY <1>2, <2>1, Sizes
<1>6. Room(MAX_INT_DIGITS) /\ Room(MAX_INT_DIGITS) \in BOOLEAN
  BY Widths, Zenon DEF Room
<1>0. what[1] \in Kinds
  BY DEF Kinds
<1>7. TypeOK' /\ done' = what /\ Text(active_value') = text /\ ~Spilled'
  BY <1>0, <1>3, <1>4, <1>5, <1>6, ScreenShows, Zenon
<1>8. Kind' = "amount" /\ done'[2] = n
  BY <1>7 DEF Kind
<1>9. AmountOf(Text(active_value')) = n
  BY <1>2, <1>7, Zenon
<1>10. ShownIsMeant'
  BY <1>8, <1>9 DEF ShownIsMeant
<1>. QED
  BY <1>7, <1>8, <1>10, ScreenIsRight

LEMMA AmountsScreen ==
  ASSUME TypeOK, NEW x \in Counts, NEW y \in Counts, frac_ckb_tuple_to_string_indirect(x, y)
  PROVE  Inv'
<1> DEFINE what == <<"amounts", x, y>>
           s == frac_ckb_to_string(x)
           t == frac_ckb_to_string(y)
           text == s \o of_str \o t
           ok == Room(2 * MAX_INT_DIGITS + Len(of_str))
<1>1. x \in Amount /\ y \in Amount
  BY ValuesAssumption, Zenon
<1>2. /\ s \in Seq(AmountChar) /\ Len(s) \in 1 .. MAX_INT_DIGITS + 1 /\ AmountOf(s) = x
      /\ t \in Seq(AmountChar) /\ Len(t) \in 1 .. MAX_INT_DIGITS + 1 /\ AmountOf(t) = y
  BY <1>1, AmountRead, Zenon
<1>3. Screen(what, ok, text)
  BY Zenon DEF frac_ckb_tuple_to_string_indirect
<1> HIDE DEF s, t
<1>4. s \in Seq(Chars) /\ t \in Seq(Chars) /\ \A i \in 1 .. Len(s) : s[i] # 32
  <2>1. s \in Seq(Chars) /\ t \in Seq(Chars)
    BY <1>2, TextTypes, SeqMonotonic
  <2>2. \A i \in 1 .. Len(s) : s[i] \in AmountChar
    BY <1>2, ElementOfSeq
  <2>. QED
    BY <2>1, <2>2, TextTypes, Zenon
<1>5. /\ FirstPart(text) = s /\ SecondPart(text) = t
      /\ text \in Seq(Chars) /\ Len(text) = Len(s) + 4 + Len(t)
  BY <1>4, PairRead, Zenon
<1> HIDE DEF text
<1>6. Len(text) <= VALUE_WIDTH
  <2>1. 2 * (MAX_INT_DIGITS + 1) + 4 <= VALUE_WIDTH
    BY Widths, Zenon
  <2>. QED
    BY <1>2, <1>5, <2>1, Sizes
<1>7. what[1] \in Kinds
  BY DEF Kinds
<1>8. ok /\ ok \in BOOLEAN
  BY Widths, Zenon DEF Room
<1>9. TypeOK' /\ done' = what /\ Text(active_value') = text /\ ~Spilled'
  BY <1>3, <1>5, <1>6, <1>7, <1>8, ScreenShows, Zenon
<1>10. Kind' = "amounts" /\ done'[2] = x /\ done'[3] = y
  BY <1>9 DEF Kind
<1>11. /\ AmountOf(FirstPart(Text(active_value'))) = x /\ AmountOf(SecondPart(Text(active_value'))) = y
  BY <1>2, <1>5, <1>9, Zenon
<1>12. ShownIsMeant'
  BY <1>10, <1>11 DEF ShownIsMeant
<1>. QED
  BY <1>9, <1>10, <1>12, ScreenIsRight

LEMMA CountsScreen ==
  ASSUME TypeOK, NEW x \in Counts, NEW y \in Counts, uint64_tuple_to_string(x, y)
  PROVE  Inv'
<1> DEFINE what == <<"counts", x, y>>
           s == number_to_string(x)
           t == number_to_string(y)
           text == s \o of_str \o t
<1>1. x \in Amount /\ y \in Amount
  BY ValuesAssumption, Zenon
<1>2. /\ s \in Seq(Digit) /\ Len(s) \in 1 .. MAX_INT_DIGITS /\ DecimalOf(s) = x
      /\ t \in Seq(Digit) /\ Len(t) \in 1 .. MAX_INT_DIGITS /\ DecimalOf(t) = y
  BY <1>1, NumberRead, Zenon
<1>3. Screen(what, TRUE, text)
  BY Zenon DEF uint64_tuple_to_string
<1> HIDE DEF s, t
<1>4. s \in Seq(Chars) /\ t \in Seq(Chars) /\ \A i \in 1 .. Len(s) : s[i] # 32
  <2>1. s \in Seq(Chars) /\ t \in Seq(Chars)
    BY <1>2, TextTypes, SeqMonotonic
  <2>2. \A i \in 1 .. Len(s) : s[i] \in Digit
    BY <1>2, ElementOfSeq
  <2>. QED
    BY <2>1, <2>2, TextTypes, Zenon
<1>5. /\ FirstPart(text) = s /\ SecondPart(text) = t
      /\ text \in Seq(Chars) /\ Len(text) = Len(s) + 4 + Len(t)
  BY <1>4, PairRead, Zenon
<1> HIDE DEF text
<1>6. Len(text) <= VALUE_WIDTH
  <2>1. 2 * (MAX_INT_DIGITS + 1) + 4 <= VALUE_WIDTH
    BY Widths, Zenon
  <2>. QED
    BY <1>2, <1>5, <2>1, Sizes
<1>7. what[1] \in Kinds
  BY DEF Kinds
<1>8. TRUE /\ TRUE \in BOOLEAN
  OBVIOUS
<1>9. TypeOK' /\ done' = what /\ Text(active_value') = text /\ ~Spilled'
  BY <1>3, <1>5, <1>6, <1>7, <1>8, ScreenShows, Zenon
<1>10. Kind' = "counts" /\ done'[2] = x /\ done'[3] = y
  BY <1>9 DEF Kind
<1>11. /\ DecimalOf(FirstPart(Text(active_value'))) = x /\ DecimalOf(SecondPart(Text(active_value'))) = y
  BY <1>2, <1>5, <1>9, Zenon
<1>12. ShownIsMeant'
  BY <1>10, <1>11 DEF ShownIsMeant
<1>. QED
  BY <1>9, <1>10, <1>12, ScreenIsRight

LEMMA LabelScreen ==
  ASSUME TypeOK, NEW text \in Labels, copy_string(text)
  PROVE  Inv'
<1> DEFINE what == <<"label", text>>
           ok == Len(text) < VALUE_WIDTH + 1
<1>1. text \in Seq(Chars) /\ Len(text) <= VALUE_WIDTH
  BY ValuesAssumption, Zenon DEF Chars
<1>2. Screen(what, ok, text)
  BY Zenon DEF copy_string
<1>3. ok /\ ok \in BOOLEAN
  BY <1>1, CharsType, Sizes
<1>4. what[1] \in Kinds
  BY DEF Kinds
<1> HIDE DEF ok
<1>5. TypeOK' /\ done' = what /\ Text(active_value') = text /\ ~Spilled'
  BY <1>1, <1>2, <1>3, <1>4, ScreenShows, Zenon
<1>6. Kind' = "label" /\ done'[2] = text
  BY <1>5 DEF Kind
<1>7. ShownIsMeant'
  BY <1>5, <1>6 DEF ShownIsMeant
<1>. QED
  BY <1>5, <1>6, <1>7, ScreenIsRight

LEMMA ContractScreen ==
  ASSUME TypeOK, NEW present \in BOOLEAN, contract_type_to_string_indirect(present)
  PROVE  Inv'
<1> DEFINE what == <<"contract", present>>
           text == IF present THEN PRESENT ELSE NOT_PRESENT
           ok == Len(text) + 1 < VALUE_WIDTH + 1
<1>1. text \in Seq(Chars) /\ Len(text) <= 11 /\ Len(text) \in Nat
  <2> DEFINE a == <<78, 111, 116, 32>>
  <2>1. PRESENT \in Seq(Chars) /\ Len(PRESENT) = 7 /\ a \in Seq(Chars) /\ Len(a) = 4
    BY DEF PRESENT, Chars
  <2>2. NOT_PRESENT = a \o PRESENT
    BY Zenon DEF NOT_PRESENT
  <2> HIDE DEF a
  <2>3. Joins(NOT_PRESENT, a, PRESENT, Chars)
    BY <2>1, <2>2, Joined, Zenon
  <2>4. NOT_PRESENT \in Seq(Chars) /\ Len(NOT_PRESENT) = Len(a) + Len(PRESENT)
    BY <2>3, Zenon DEF Joins
  <2>5. Len(NOT_PRESENT) = 11
    BY <2>1, <2>4
  <2>6. text \in Seq(Chars) /\ (Len(text) = 7 \/ Len(text) = 11)
    BY <2>1, <2>4, <2>5, Zenon
  <2>7. \A n : n = 7 \/ n = 11 => n <= 11 /\ n \in Nat
    OBVIOUS
  <2>. QED
    BY <2>6, <2>7, Zenon
<1>2. Screen(what, ok, text)
  BY Zenon DEF contract_type_to_string_indirect
<1>3. text = IF present THEN PRESENT ELSE NOT_PRESENT
  OBVIOUS
<1> HIDE DEF text
<1>4. ok /\ ok \in BOOLEAN /\ Len(text) <= VALUE_WIDTH
  <2>1. 12 <= VALUE_WIDTH
    BY Widths, Zenon
  <2>. QED
    BY <1>1, <2>1, Sizes
<1>5. what[1] \in Kinds
  BY DEF Kinds
<1> HIDE DEF ok
<1>6. TypeOK' /\ done' = what /\ Text(active_value') = text /\ ~Spilled'
  BY <1>1, <1>2, <1>4, <1>5, ScreenShows, Zenon
<1>7. Kind' = "contract" /\ done'[2] = present
  BY <1>6 DEF Kind
<1>8. Text(active_value') = IF done'[2] THEN PRESENT ELSE NOT_PRESENT
  BY <1>3, <1>6, <1>7, Zenon
<1>9. ShownIsMeant'
  BY <1>7, <1>8 DEF ShownIsMeant
<1>. QED
  BY <1>6, <1>7, <1>9, ScreenIsRight

LEMMA AddressScreen ==
  ASSUME TypeOK, NEW net \in Net, NEW multisig \in BOOLEAN, NEW arg \in Locks,
         lock_arg_to_address(net, multisig, arg)
  PROVE  Inv'
<1> DEFINE what == <<"address", net, multisig, arg>>
           text == Rendered[<<net, multisig, arg>>]
           ok == AddressFits(net, multisig, arg)
<1>1. HasAddress(text, net, multisig, arg)
  BY AddressIs, Zenon
<1>2. Screen(what, ok, text)
  BY Zenon DEF lock_arg_to_address
<1>3. ok /\ ok \in BOOLEAN
  BY <1>1, Zenon DEF HasAddress, AddressFits, EncodeFits
<1> HIDE DEF text, ok
<1>4. text \in Seq(Chars) /\ IsAddress(text, net, multisig, arg)
  BY <1>1, Zenon DEF HasAddress
<1>5. Len(text) <= VALUE_WIDTH
  <2> DEFINE w == AddressWidth(PayloadWidth(multisig, arg))
             z == convert_bits(Payload(multisig, arg))
  <2>1. Len(text) = w /\ w <= VALUE_WIDTH
    <3>1. Len(text) = w
      BY <1>1, Zenon DEF HasAddress
    <3>2. LockArg(arg)
      BY ValuesAssumption, Zenon DEF LockArg
    <3>3. PayloadWidth(multisig, arg) = 1 + CODE_HASH + ARG \/ PayloadWidth(multisig, arg) = 2 + HASH
      BY Zenon DEF PayloadWidth
    <3>4. AddressWidth(1 + CODE_HASH + ARG) <= BECH
      BY SizesAssumption, Zenon
    <3>5. MAX_INT_DIGITS + 1 + 8 + AddressWidth(2 + HASH) <= VALUE_WIDTH
      BY Widths, Zenon
    <3>6. w <= VALUE_WIDTH
      <4> DEFINE long == AddressWidth(1 + CODE_HASH + ARG)
                 short == AddressWidth(2 + HASH)
      <4>1. long \in Nat /\ short \in Nat
        BY Sizes DEF AddressWidth
      <4>2. w = long \/ w = short
        BY <3>3, Zenon
      <4> HIDE DEF long, short, w
      <4>3. long <= BECH /\ MAX_INT_DIGITS + 1 + 8 + short <= VALUE_WIDTH
        BY <3>4, <3>5, Zenon DEF long, short
      <4>. QED
        BY <4>1, <4>2, <4>3, Sizes
    <3>. QED
      BY <3>1, <3>6, Zenon
  <2>. QED
    BY <2>1, Zenon
<1>6. what[1] \in Kinds
  BY DEF Kinds
<1>7. TypeOK' /\ done' = what /\ Text(active_value') = text /\ ~Spilled'
  BY <1>2, <1>3, <1>4, <1>5, <1>6, ScreenShows, Zenon
<1>8. Kind' = "address" /\ done'[2] = net /\ done'[3] = multisig /\ done'[4] = arg
  BY <1>7 DEF Kind
<1>9. IsAddress(Text(active_value'), done'[2], done'[3], done'[4])
  BY <1>4, <1>7, <1>8, Zenon
<1>10. ShownIsMeant'
  BY <1>8, <1>9 DEF ShownIsMeant
<1>. QED
  BY <1>7, <1>8, <1>10, ScreenIsRight

LEMMA PathScreen ==
  ASSUME TypeOK, NEW wire \in Paths, PromptPath(wire)
  PROVE  Inv'
<1> DEFINE what == <<"path", wire>>
           path == PathOf(wire)
           text == bip32_path_to_string(path)
           ok == PathFits(path)
<1>1. wire \in Seq(0 .. UNIT - 1) /\ PathAccepted(wire)
  BY ValuesAssumption, Zenon DEF PromptPath
<1>2. path \in Seq(PathComponent) /\ Len(path) \in 1 .. MAX_BIP32_PATH
  BY <1>1, PathReceived, Zenon
<1>3. Screen(what, ok, text)
  BY Zenon DEF PromptPath
<1> HIDE DEF path
<1>4. ok /\ text \in Seq(Chars) /\ Len(text) <= VALUE_WIDTH /\ PathRead(text) = path
  BY <1>2, PathShown, Zenon
<1>5. ok \in BOOLEAN
  BY Zenon DEF PathFits
<1>6. what[1] \in Kinds
  BY DEF Kinds
<1> HIDE DEF text, ok
<1>7. TypeOK' /\ done' = what /\ Text(active_value') = text /\ ~Spilled'
  BY <1>3, <1>4, <1>5, <1>6, ScreenShows, Zenon
<1>8. Kind' = "path" /\ done'[2] = wire
  BY <1>7 DEF Kind
<1>9. PathRead(Text(active_value')) = PathOf(done'[2])
  BY <1>4, <1>7, <1>8, Zenon DEF path
<1>10. ShownIsMeant'
  BY <1>8, <1>9 DEF ShownIsMeant
<1>. QED
  BY <1>7, <1>8, <1>10, ScreenIsRight

LEMMA HashScreen ==
  ASSUME TypeOK, NEW hash \in Hashes, PromptHash(hash)
  PROVE  Inv'
<1> DEFINE what == <<"hash", hash>>
           text == bin_to_hex(hash)
           ok == HexFits(hash)
<1>1. hash \in Seq(Byte)
  BY ValuesAssumption, Zenon
<1>2. Screen(what, ok, text) /\ 2 * Len(hash) <= DISPLAY
  BY Zenon DEF PromptHash
<1>3. text \in Seq(Chars) /\ Len(text) = 2 * Len(hash) /\ HexRead(text) = hash
  BY <1>1, HexReads, Zenon
<1> HIDE DEF text
<1>4. ok /\ ok \in BOOLEAN /\ Len(text) <= VALUE_WIDTH
  <2>1. Len(hash) \in Nat
    BY <1>1, LenProperties
  <2>2. 2 * DISPLAY <= VALUE_WIDTH /\ DISPLAY \in Nat /\ VALUE_WIDTH \in Nat
    BY Sizes
  <2> DEFINE n == Len(hash)
  <2> HIDE DEF n
  <2>3. VALUE_WIDTH + 1 >= 2 * n + 1 /\ 2 * n <= VALUE_WIDTH
    BY <1>2, <2>1, <2>2 DEF n
  <2>. QED
    BY <1>3, <2>3, Zenon DEF HexFits, n
<1>5. what[1] \in Kinds
  BY DEF Kinds
<1> HIDE DEF ok
<1>6. TypeOK' /\ done' = what /\ Text(active_value') = text /\ ~Spilled'
  BY <1>2, <1>3, <1>4, <1>5, ScreenShows, Zenon
<1>7. Kind' = "hash" /\ done'[2] = hash
  BY <1>6 DEF Kind
<1>8. HexRead(Text(active_value')) = hash
  BY <1>3, <1>6, Zenon
<1>9. ShownIsMeant'
  BY <1>7, <1>8 DEF ShownIsMeant
<1>. QED
  BY <1>6, <1>7, <1>9, ScreenIsRight

LEMMA HexScreen ==
  ASSUME TypeOK, NEW packet \in Packets, PromptHex(packet)
  PROVE  Inv'
<1> DEFINE what == <<"hex", packet>>
           message == MessageOf(packet)
           buf == handle_long_message(message)
           text == bin_to_hex(buf)
           ok == HexFits(buf)
<1>1. message \in Seq(Byte)
  <2>1. packet \in Seq(Byte) /\ MAGIC \in Seq(Byte)
    BY ValuesAssumption, Zenon
  <2>. QED
    BY <2>1 DEF MessageOf
<1>2. Screen(what, ok, text)
  BY DEF PromptHex, DisplayOf, Sliced, MessageOf
<1> HIDE DEF message
<1>3. buf \in Seq(Byte) /\ Len(buf) <= DISPLAY /\ Abridged(buf, message)
  <2>1. 46 \in Byte
    BY DEF Byte
  <2>. QED
    BY <1>1, <2>1, Abridges, Zenon
<1> HIDE DEF buf
<1>4. text \in Seq(Chars) /\ Len(text) = 2 * Len(buf) /\ HexRead(text) = buf
  BY <1>3, HexReads, Zenon
<1> HIDE DEF text
<1>5. ok /\ ok \in BOOLEAN /\ Len(text) <= VALUE_WIDTH
  <2>1. Len(buf) \in Nat
    BY <1>3, LenProperties
  <2>2. 2 * DISPLAY <= VALUE_WIDTH /\ DISPLAY \in Nat /\ VALUE_WIDTH \in Nat
    BY Sizes
  <2> DEFINE n == Len(buf)
  <2>3. n <= DISPLAY /\ n \in Nat
    BY <1>3, <2>1
  <2> HIDE DEF n
  <2>4. VALUE_WIDTH + 1 >= 2 * n + 1 /\ 2 * n <= VALUE_WIDTH
    BY <2>2, <2>3
  <2>. QED
    BY <1>4, <2>4, Zenon DEF HexFits, n
<1>6. what[1] \in Kinds
  BY DEF Kinds
<1> HIDE DEF ok
<1>7. TypeOK' /\ done' = what /\ Text(active_value') = text /\ ~Spilled'
  BY <1>2, <1>4, <1>5, <1>6, ScreenShows, Zenon
<1>8. Kind' = "hex" /\ done'[2] = packet
  BY <1>7 DEF Kind
<1>9. Abridged(HexRead(Text(active_value')), MessageOf(done'[2]))
  BY <1>3, <1>4, <1>7, <1>8, Zenon DEF message
<1>10. ShownIsMeant'
  BY <1>8, <1>9 DEF ShownIsMeant
<1>. QED
  BY <1>7, <1>8, <1>10, ScreenIsRight

LEMMA TextScreen ==
  ASSUME TypeOK, NEW packet \in Packets, PromptText(packet)
  PROVE  Inv'
<1> DEFINE what == <<"text", packet>>
           message == MessageOf(packet)
           text == handle_long_message(replace_undisplayable(message))
           f == [i \in DOMAIN active_value |-> IF i \in DOMAIN text THEN text[i] ELSE 0]
           meant == IsUtf8(message) =>
                      IF EndsWithin(message) THEN Begins(text, CharactersOf(message))
                      ELSE Abridged(text, CharactersOf(message))
<1>1. message \in Seq(Byte)
  <2>1. packet \in Seq(Byte) /\ MAGIC \in Seq(Byte)
    BY ValuesAssumption, Zenon
  <2>. QED
    BY <2>1 DEF MessageOf
<1>2. copy_buffer(what, text)
  BY DEF PromptText, DisplayOf, Sliced, MessageOf
<1> HIDE DEF message
<1>3. text \in Seq(Chars) /\ Len(text) <= DISPLAY /\ meant
  BY <1>1, TextWritten, Zenon
<1> HIDE DEF text, meant
<1>4. Len(text) <= VALUE_WIDTH /\ Len(text) <= VALUE_WIDTH + 1
  <2>1. DISPLAY <= VALUE_WIDTH /\ DISPLAY \in Nat /\ VALUE_WIDTH \in Nat
    BY Sizes
  <2>2. Len(text) \in Nat
    BY <1>3, CharsType
  <2> DEFINE n == Len(text)
  <2>3. n \in Nat /\ n <= DISPLAY
    BY <1>3, <2>2, Zenon
  <2> HIDE DEF n
  <2>4. n <= VALUE_WIDTH /\ n <= VALUE_WIDTH + 1
    BY <2>1, <2>3
  <2>. QED
    BY <2>4 DEF n
<1>5. active_value \in Buffer /\ out \in Answer /\ steps \in 0 .. MaxSteps /\ MaxSteps \in Nat
  BY TypeParts, Sizes
<1>6. /\ steps < MaxSteps /\ steps' = steps + 1 /\ active_value' = f /\ done' = what /\ out' = out
  BY <1>2, <1>4, Zenon DEF copy_buffer
<1>7. f \in Buffer /\ Text(f) = text /\ \E i \in DOMAIN f : f[i] = 0
  BY <1>3, <1>4, <1>5, CopyShown, Zenon
<1> HIDE DEF f
<1>8. ~Spilled' /\ Text(active_value') = text
  BY <1>6, <1>7, Zenon DEF Spilled
<1>9. Kind' = "text" /\ done'[2] = packet /\ done'[1] = "text"
  <2>1. done' = what
    BY <1>6, Zenon
  <2>. QED
    BY <2>1 DEF Kind
<1>10. TypeOK'
  <2>1. steps' \in 0 .. MaxSteps
    BY <1>5, <1>6
  <2>2. done'[1] \in Kinds
    BY <1>9 DEF Kinds
  <2>3. active_value' \in Buffer /\ out' \in Answer
    BY <1>5, <1>6, <1>7, Zenon
  <2>. QED
    BY <2>1, <2>2, <2>3, Zenon DEF TypeOK, Buffer, Answer
<1>11. MessageOf(done'[2]) = message
  BY <1>9, Zenon DEF message
<1>12. LET m == MessageOf(done'[2])
       IN IsUtf8(m) => IF EndsWithin(m) THEN Begins(Text(active_value'), CharactersOf(m))
                       ELSE Abridged(Text(active_value'), CharactersOf(m))
  BY <1>3, <1>8, <1>11 DEF meant
<1>13. ShownIsMeant'
  BY <1>9, <1>12 DEF ShownIsMeant
<1>. QED
  BY <1>8, <1>9, <1>10, <1>13, ScreenIsRight

LEMMA OutputScreen ==
  ASSUME TypeOK, NEW net \in Net, NEW multisig \in BOOLEAN, NEW o \in Outputs,
         multi_output_prompts_cb(o[1], net, multisig, o[2])
  PROVE  Inv'
<1> DEFINE n == o[1]
           arg == o[2]
           what == <<"output", n, net, multisig, arg>>
           s == frac_ckb_to_string(n)
           t == Rendered[<<net, multisig, arg>>]
           text == s \o separator \o t
           ok == Room(MAX_INT_DIGITS) /\ AddressFits(net, multisig, arg)
<1>1. n \in Amount /\ arg \in Locks
  <2>1. o \in Amount \X Locks
    BY ValuesAssumption, Zenon
  <2>. QED
    BY <2>1
<1>2. Screen(what, ok, text)
  BY Zenon DEF multi_output_prompts_cb
<1> HIDE DEF n, arg
<1>3. s \in Seq(AmountChar) /\ Len(s) \in 1 .. MAX_INT_DIGITS + 1 /\ AmountOf(s) = n
  BY <1>1, AmountRead, Zenon
<1>4. HasAddress(t, net, multisig, arg)
  BY <1>1, AddressIs, Zenon
<1>5. ok /\ ok \in BOOLEAN
  BY <1>4, Widths, Zenon DEF HasAddress, AddressFits, EncodeFits, Room
<1> HIDE DEF s, t, ok
<1>6. /\ t \in Seq(Chars) /\ IsAddress(t, net, multisig, arg)
      /\ Len(t) = AddressWidth(PayloadWidth(multisig, arg))
  BY <1>4, Zenon DEF HasAddress
<1>7. s \in Seq(Chars) /\ \A i \in 1 .. Len(s) : s[i] # 32
  <2>1. s \in Seq(Chars)
    BY <1>3, TextTypes, SeqMonotonic
  <2>2. \A i \in 1 .. Len(s) : s[i] \in AmountChar
    BY <1>3, ElementOfSeq
  <2>. QED
    BY <2>1, <2>2, TextTypes, Zenon
<1>8. /\ FirstPart(text) = s /\ text \in Seq(Chars) /\ Len(text) = Len(s) + 8 + Len(t)
      /\ SubSeq(text, Len(s) + 1, Len(s) + Len(separator)) = separator
      /\ SubSeq(text, Len(s) + Len(separator) + 1, Len(text)) = t
  BY <1>6, <1>7, OutputRead, Zenon
<1> HIDE DEF text
<1>9. active_value \in Buffer /\ out \in Answer /\ steps \in 0 .. MaxSteps /\ MaxSteps \in Nat
  BY TypeParts, Sizes
<1>10. what[1] \in Kinds
  BY DEF Kinds
<1>11. CASE Len(text) <= VALUE_WIDTH
  <2>1. TypeOK' /\ done' = what /\ Text(active_value') = text /\ ~Spilled'
    BY <1>2, <1>5, <1>8, <1>10, <1>11, ScreenShows, Zenon
  <2>2. /\ Kind' = "output" /\ done'[2] = n /\ done'[3] = net /\ done'[4] = multisig
        /\ done'[5] = arg
    BY <2>1 DEF Kind
  <2>3. LET amount == FirstPart(Text(active_value'))
            address == SubSeq(Text(active_value'), Len(amount) + Len(separator) + 1,
                              Len(Text(active_value')))
        IN /\ AmountOf(amount) = done'[2]
           /\ SubSeq(Text(active_value'), Len(amount) + 1, Len(amount) + Len(separator)) = separator
           /\ IsAddress(address, done'[3], done'[4], done'[5])
    <3>1. Text(active_value') = text
      BY <2>1, Zenon
    <3>2. LET amount == FirstPart(text)
              address == SubSeq(text, Len(amount) + Len(separator) + 1, Len(text))
          IN /\ AmountOf(amount) = n
             /\ SubSeq(text, Len(amount) + 1, Len(amount) + Len(separator)) = separator
             /\ IsAddress(address, net, multisig, arg)
      BY <1>3, <1>6, <1>8
    <3>. QED
      BY <2>2, <3>1, <3>2
  <2>4. ShownIsMeant'
    BY <2>2, <2>3 DEF ShownIsMeant
  <2>. QED
    BY <2>1, <2>2, <2>4, ScreenIsRight
<1>12. CASE ~(Len(text) <= VALUE_WIDTH)
  <2>1. VALUE_WIDTH \in Nat /\ Len(text) \in Nat
    BY <1>8, CharsType, Sizes
  <2>2. Len(text) > VALUE_WIDTH
    <3> DEFINE l == Len(text)
    <3> HIDE DEF l
    <3>1. l \in Nat /\ ~(l <= VALUE_WIDTH)
      BY <1>12, <2>1, Zenon DEF l
    <3>2. l > VALUE_WIDTH
      BY <2>1, <3>1
    <3>. QED
      BY <3>2 DEF l
  <2>3. /\ steps < MaxSteps /\ steps' = steps + 1 /\ active_value' = Put(active_value, text)
        /\ done' = what /\ out' = out
    BY <1>2, <1>5, Zenon DEF Screen
  <2>4. Spilled'
    <3>1. \A i \in DOMAIN Put(active_value, text) : Put(active_value, text)[i] # 0
      BY <1>8, <1>9, <2>2, PutSpills, Zenon
    <3>. QED
      BY <2>3, <3>1, Zenon DEF Spilled
  <2>5. /\ Kind' = "output" /\ done'[1] = "output" /\ done'[4] = multisig /\ done'[5] = arg
    <3>1. done' = what
      BY <2>3, Zenon
    <3>. QED
      BY <3>1 DEF Kind
  <2>6. multisig /\ Timelocked(arg)
    <3>1. SUFFICES ASSUME ~(multisig /\ Timelocked(arg)) PROVE FALSE
      OBVIOUS
    <3> DEFINE w == AddressWidth(2 + HASH)
    <3>2. Len(t) = w
      BY <1>6, <3>1, Zenon DEF PayloadWidth
    <3>3. w \in Nat
      BY Sizes DEF AddressWidth
    <3>4. MAX_INT_DIGITS + 1 + 8 + w <= VALUE_WIDTH
      BY Widths, Zenon
    <3> HIDE DEF w
    <3> DEFINE l == Len(s)
    <3>5. l \in 1 .. MAX_INT_DIGITS + 1 /\ Len(text) = l + 8 + w
      BY <1>3, <1>8, <3>2, Zenon
    <3> HIDE DEF l
    <3>. QED
      BY <2>1, <2>2, <3>3, <3>4, <3>5, Sizes
  <2>7. TypeOK'
    <3>1. steps' \in 0 .. MaxSteps
      BY <1>9, <2>3
    <3>2. active_value' \in Buffer /\ out' \in Answer
      <4>1. text \in Seq(Byte)
        BY <1>8, CharsType
      <4>. QED
        BY <1>9, <2>3, <4>1, PutType, Zenon
    <3>3. done'[1] \in Kinds
      BY <2>5 DEF Kinds
    <3>. QED
      BY <3>1, <3>2, <3>3, Zenon DEF TypeOK, Buffer, Answer
  <2>8. OnlyTimelockedSpills'
    BY <2>5, <2>6, Zenon DEF OnlyTimelockedSpills, Timelocked
  <2>9. ShownIsMeant'
    BY <2>4, Zenon DEF ShownIsMeant
  <2>10. Kind' # "THROW" /\ Kind' # "signature"
    BY <2>5
  <2>11. RenderingSucceeds' /\ SignatureIsCompact'
    BY <2>10, Zenon DEF RenderingSucceeds, SignatureIsCompact
  <2>. QED
    BY <2>7, <2>8, <2>9, <2>11, Zenon DEF Inv
<1>. QED
  BY <1>11, <1>12, Zenon

\* A signature: the screen keeps what it shows, but nothing is said of that.
LEMMA Signed ==
  ASSUME TypeOK, NEW r \in Scalars, NEW s \in Scalars, NEW info \in 0 .. 3, sign(r, s, info)
  PROVE  Inv'
<1> DEFINE what == <<"signature", r, s, info>>
           c == Compact(out, Der(r, s), info)
<1>1. Scalar(r) /\ Scalar(s)
  BY ValuesAssumption, Zenon DEF Scalar
<1>2. /\ c \in Answer /\ c[2 * SCALAR + 1] = info
      /\ NumberOf(SubSeq(c, 1, SCALAR)) = NumberOf(r)
      /\ NumberOf(SubSeq(c, SCALAR + 1, 2 * SCALAR)) = NumberOf(s)
  BY <1>1, CompactIs
<1> HIDE DEF c
<1>3. active_value \in Buffer /\ out \in Answer /\ steps \in 0 .. MaxSteps /\ MaxSteps \in Nat
  BY TypeParts, Sizes
<1>4. /\ steps < MaxSteps /\ steps' = steps + 1 /\ active_value' = active_value
      /\ done' = what /\ out' = c
  BY Zenon DEF sign, c
<1>5. steps' \in 0 .. MaxSteps
  BY <1>3, <1>4
<1>6. Kind' = "signature" /\ done'[1] \in Kinds /\ done'[2] = r /\ done'[3] = s /\ done'[4] = info
  <2>1. done' = what
    BY <1>4, Zenon
  <2>. QED
    BY <2>1 DEF Kind, Kinds
<1>7. TypeOK'
  BY <1>2, <1>3, <1>4, <1>5, <1>6, Zenon DEF TypeOK, Buffer, Answer
<1>8. SignatureIsCompact'
  <2>1. out' = c
    BY <1>4, Zenon
  <2>2. /\ NumberOf(SubSeq(out', 1, SCALAR)) = NumberOf(r)
        /\ NumberOf(SubSeq(out', SCALAR + 1, 2 * SCALAR)) = NumberOf(s)
        /\ out'[2 * SCALAR + 1] = info
    BY <1>2, <2>1
  <2>. QED
    BY <1>6, <2>2, Zenon DEF SignatureIsCompact
<1>9. ~IsScreen' /\ Kind' # "THROW"
  BY <1>6 DEF IsScreen
<1>10. ShownIsMeant' /\ OnlyTimelockedSpills' /\ RenderingSucceeds'
  BY <1>9, Zenon DEF ShownIsMeant, OnlyTimelockedSpills, RenderingSucceeds
<1>. QED
  BY <1>7, <1>8, <1>10, Zenon DEF Inv

\* A beginning with an empty screen.
LEMMA Begun ==
  ASSUME done = <<"none">>, steps = 0,
         active_value = [i \in 1 .. VALUE_WIDTH + 1 |-> 0],
         out = [i \in 1 .. 2 * SCALAR + 1 |-> 255]
  PROVE  Inv
<1>1. 0 \in Byte /\ 255 \in Byte
  BY DEF Byte
<1>2. Kind = "none" /\ done[1] \in Kinds
  BY DEF Kind, Kinds
<1>3. TypeOK
  BY <1>1, <1>2, Sizes DEF TypeOK
<1>4. ~IsScreen /\ Kind # "THROW" /\ Kind # "signature"
  BY <1>2 DEF IsScreen
<1>5. ShownIsMeant /\ OnlyTimelockedSpills /\ RenderingSucceeds /\ SignatureIsCompact
  BY <1>4, Zenon DEF ShownIsMeant, OnlyTimelockedSpills, RenderingSucceeds, SignatureIsCompact
<1>. QED
  BY <1>3, <1>5, Zenon DEF Inv

LEMMA InitInv == Init => Inv
BY Begun DEF Init

LEMMA Restarted ==
  ASSUME init_globals
  PROVE  Inv'
<1>1. /\ done' = <<"none">> /\ steps' = 0
      /\ active_value' = [i \in 1 .. VALUE_WIDTH + 1 |-> 0]
      /\ out' = [i \in 1 .. 2 * SCALAR + 1 |-> 255]
  BY Zenon DEF init_globals
<1>2. 0 \in Byte /\ 255 \in Byte
  BY DEF Byte
<1>3. Kind' = "none" /\ done'[1] \in Kinds
  BY <1>1 DEF Kind, Kinds
<1>4. TypeOK'
  BY <1>1, <1>2, <1>3, Sizes DEF TypeOK
<1>5. ~IsScreen' /\ Kind' # "THROW" /\ Kind' # "signature"
  BY <1>3 DEF IsScreen
<1>6. ShownIsMeant' /\ OnlyTimelockedSpills' /\ RenderingSucceeds' /\ SignatureIsCompact'
  BY <1>5, Zenon DEF ShownIsMeant, OnlyTimelockedSpills, RenderingSucceeds, SignatureIsCompact
<1>. QED
  BY <1>4, <1>6, Zenon DEF Inv

LEMMA Unchanged ==
  ASSUME Inv, UNCHANGED vars
  PROVE  Inv'
<1>1. active_value' = active_value /\ out' = out /\ done' = done /\ steps' = steps
  BY DEF vars
<1>2. TypeOK' /\ ShownIsMeant'
  BY <1>1, Zenon DEF Inv, TypeOK, ShownIsMeant, IsScreen, Kind, Spilled
<1>3. RenderingSucceeds' /\ OnlyTimelockedSpills' /\ SignatureIsCompact'
  BY <1>1, Zenon DEF Inv, RenderingSucceeds, OnlyTimelockedSpills, SignatureIsCompact, IsScreen,
                     Kind, Spilled
<1>. QED
  BY <1>2, <1>3, Zenon DEF Inv

LEMMA NextInv ==
  ASSUME Inv, [Next]_vars
  PROVE  Inv'
<1>1. TypeOK
  BY Zenon DEF Inv
<1>2. ASSUME NEW n \in Numbers, frac_ckb_to_string_indirect(n) PROVE Inv'
  BY <1>1, <1>2, AmountScreen
<1>3. ASSUME NEW x \in Counts, NEW y \in Counts, frac_ckb_tuple_to_string_indirect(x, y) PROVE Inv'
  BY <1>1, <1>3, AmountsScreen
<1>4. ASSUME NEW x \in Counts, NEW y \in Counts, uint64_tuple_to_string(x, y) PROVE Inv'
  BY <1>1, <1>4, CountsScreen
<1>5. ASSUME NEW text \in Labels, copy_string(text) PROVE Inv'
  BY <1>1, <1>5, LabelScreen
<1>6. ASSUME NEW present \in BOOLEAN, contract_type_to_string_indirect(present) PROVE Inv'
  BY <1>1, <1>6, ContractScreen
<1>7. ASSUME NEW net \in DOMAIN hrbs, NEW multisig \in BOOLEAN, NEW arg \in Locks,
             lock_arg_to_address(net, multisig, arg)
      PROVE  Inv'
  BY <1>1, <1>7, AddressScreen DEF Net
<1>8. ASSUME NEW net \in DOMAIN hrbs, NEW multisig \in BOOLEAN, NEW o \in Outputs,
             multi_output_prompts_cb(o[1], net, multisig, o[2])
      PROVE  Inv'
  BY <1>1, <1>8, OutputScreen DEF Net
<1>9. ASSUME NEW wire \in Paths, PromptPath(wire) PROVE Inv'
  BY <1>1, <1>9, PathScreen
<1>10. ASSUME NEW wire \in Paths, RefusePath(wire) PROVE Inv'
  BY <1>1, <1>10, ScreenRefused DEF RefusePath
<1>11. ASSUME NEW packet \in Packets, PromptText(packet) PROVE Inv'
  BY <1>1, <1>11, TextScreen
<1>12. ASSUME NEW packet \in Packets, PromptHex(packet) PROVE Inv'
  BY <1>1, <1>12, HexScreen
<1>13. ASSUME NEW packet \in Packets, RefuseMessage(packet) PROVE Inv'
  BY <1>1, <1>13, ScreenRefused DEF RefuseMessage
<1>14. ASSUME NEW hash \in Hashes, PromptHash(hash) PROVE Inv'
  BY <1>1, <1>14, HashScreen
<1>15. ASSUME NEW r \in Scalars, NEW s \in Scalars, NEW info \in 0 .. 3, sign(r, s, info) PROVE Inv'
  BY <1>1, <1>15, Signed
<1>16. CASE init_globals
  BY <1>16, Restarted
<1>17. CASE UNCHANGED vars
  BY <1>17, Unchanged
<1>. QED
  BY <1>2, <1>3, <1>4, <1>5, <1>6, <1>7, <1>8, <1>9, <1>10, <1>11, <1>12, <1>13, <1>14, <1>15,
     <1>16, <1>17, Zenon DEF Next

LEMMA InvCorrect == Spec => []Inv
<1>1. Init => Inv
  BY InitInv
<1>2. Inv /\ [Next]_vars => Inv'
  BY NextInv
<1>. QED
  BY <1>1, <1>2, PTL DEF Spec

\* The buffers keep their sizes and hold bytes, whatever is rendered into them.
THEOREM TypeCorrect == Spec => []TypeOK
<1>1. Inv => TypeOK
  BY DEF Inv
<1>. QED
  BY <1>1, InvCorrect, PTL

\* switch_screen: for every size of numbers, hashes and buffers that the assumptions
\* allow, the text on the screen denotes the value it stands for: an amount to the last
\* decimal, the network and the script of an address with a right checksum, the path,
\* the bytes in hex and the beginning of a message.
THEOREM ShownCorrect == Spec => []ShownIsMeant
<1>1. Inv => ShownIsMeant
  BY DEF Inv
<1>. QED
  BY <1>1, InvCorrect, PTL

\* The callbacks of the screens have room for whatever the application shows, and do
\* not throw.
THEOREM RenderingCorrect == Spec => []RenderingSucceeds
<1>1. Inv => RenderingSucceeds
  BY DEF Inv
<1>. QED
  BY <1>1, InvCorrect, PTL

\* multi_output_prompts_cb: an output to a multisig lock with a period is the only text
\* that may need more than active_value has.
THEOREM SpillCorrect == Spec => []OnlyTimelockedSpills
<1>1. Inv => OnlyTimelockedSpills
  BY DEF Inv
<1>. QED
  BY <1>1, InvCorrect, PTL

\* sign: a signature has both numbers in full width and the recovery id, for numbers of
\* every length.
THEOREM SignatureCorrect == Spec => []SignatureIsCompact
<1>1. Inv => SignatureIsCompact
  BY DEF Inv
<1>. QED
  BY <1>1, InvCorrect, PTL
===============================================================================

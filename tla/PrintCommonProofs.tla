--------------------------- MODULE PrintCommonProofs ---------------------------
(***************************************************************************)
(* Proofs about PrintCommon: the text of every amount of 64 bits is that   *)
(* amount in lowest form, it tells the network, and the text of every node *)
(* id fits in its buffer.                                                  *)
(***************************************************************************)
EXTENDS PrintCommon, SequenceTheorems, FiniteSetTheorems, WellFoundedInduction,
        TLAPS

------------------------------------------------------------------------------
(* Numbers *)

\* A set of numbers that is not empty has a least member.
LEMMA LeastNumber ==
  ASSUME NEW T \in SUBSET Nat, T # {}
  PROVE  \E x \in T : \A y \in T : x <= y
<1> DEFINE R == OpToRel(<, Nat)
<1>1. \A y, x \in Nat : y < x => <<y, x>> \in R
  BY DEF OpToRel
<1>2. IsWellFoundedOn(R, Nat)
  BY NatLessThanWellFounded
<1> HIDE DEF R
<1>3. PICK x \in T : \A y \in T : ~(<<y, x>> \in R)
  BY <1>2, WFMin
<1>4. \A y \in T : y \in Nat /\ ~(y < x) /\ x \in Nat
  BY <1>1, <1>3
<1>5. \A y \in T : x <= y
  BY <1>4
<1> QED
  BY <1>5

\* A set of numbers up to n has a greatest member.
LEMMA GreatestNumber ==
  ASSUME NEW n \in Nat, NEW T \in SUBSET (0..n), T # {}
  PROVE  \E x \in T : \A y \in T : x >= y
<1> DEFINE U == {n - x : x \in T}
<1>1. U \in SUBSET Nat /\ U # {}
  <2>1. PICK t \in T : TRUE
    OBVIOUS
  <2>2. n - t \in U
    BY <2>1
  <2>3. \A x \in T : n - x \in Nat
    OBVIOUS
  <2> QED
    BY <2>2, <2>3
<1>2. PICK u \in U : \A y \in U : u <= y
  <2> HIDE DEF U
  <2> QED
    BY <1>1, LeastNumber
<1>3. PICK x \in T : u = n - x
  OBVIOUS
<1>4. \A y \in T : x >= y
  <2> TAKE y \in T
  <2>1. n - x <= n - y
    BY <1>2, <1>3
  <2>2. x \in 0..n /\ y \in 0..n
    OBVIOUS
  <2>3. \A i, j \in 0..n : n - i <= n - j => i >= j
    OBVIOUS
  <2> HIDE DEF U
  <2> QED
    BY ONLY <2>1, <2>2, <2>3
<1> QED
  BY <1>4

\* Induction up to a bound: the set of the numbers for which a fact holds.
LEMMA UpTo ==
  ASSUME NEW n \in Nat, NEW T \in SUBSET (0..n), 0 \in T,
         \A k \in T : k < n => k + 1 \in T
  PROVE  T = 0..n
<1> DEFINE U == (0..n) \ T
<1>1. SUFFICES ASSUME U # {} PROVE FALSE
  OBVIOUS
<1>2. U \in SUBSET Nat
  OBVIOUS
<1>3. PICK x \in U : \A y \in U : x <= y
  <2> HIDE DEF U
  <2> QED
    BY <1>1, <1>2, LeastNumber
<1>4. x \in 0..n /\ x # 0 /\ x \notin T
  BY <1>3
<1>5. x - 1 \in 0..n /\ x - 1 < n /\ (x - 1) + 1 = x /\ ~(x <= x - 1)
  BY <1>4
<1>6. x - 1 \in T
  BY <1>3, <1>5
<1> QED
  BY <1>4, <1>5, <1>6

\* The least number of a set is its Min, the greatest its Max.
LEMMA MinIs ==
  ASSUME NEW T \in SUBSET Nat, NEW x \in T, \A y \in T : x <= y
  PROVE  Min(T) = x
<1>1. \A z \in T : (\A y \in T : z <= y) => z = x
  OBVIOUS
<1> QED
  BY <1>1 DEF Min

LEMMA MaxIs ==
  ASSUME NEW T \in SUBSET Nat, NEW x \in T, \A y \in T : x >= y
  PROVE  Max(T) = x
<1>1. \A z \in T : (\A y \in T : z >= y) => z = x
  OBVIOUS
<1> QED
  BY <1>1 DEF Max

\* A function defined step by step from a first value exists.
Steps(n, S) == [1..n -> [S -> S]]

Made(f, n, S, base, step) ==
    /\ f \in [0..n -> S]
    /\ f[0] = base
    /\ \A k \in 1..n : f[k] = step[k][f[k - 1]]

LEMMA StepByStep ==
  ASSUME NEW n \in Nat, NEW S, NEW base \in S, NEW step \in Steps(n, S)
  PROVE  \E f : Made(f, n, S, base, step)
<1> DEFINE T == {m \in 0..n : \E f : Made(f, m, S, base, step)}
<1>1. 0 \in T
  <2>1. Made([k \in 0..0 |-> base], 0, S, base, step)
    BY DEF Made
  <2> QED
    BY <2>1
<1>2. ASSUME NEW m \in T, m < n
      PROVE  m + 1 \in T
  <2>1. PICK f : Made(f, m, S, base, step)
    OBVIOUS
  <2>2. m \in Nat /\ m + 1 \in 1..n /\ f[m] \in S
    BY <1>2, <2>1 DEF Made
  <2>3. step[m + 1] \in [S -> S]
    BY <2>2 DEF Steps
  <2>4. step[m + 1][f[m]] \in S
    BY <2>2, <2>3
  <2> DEFINE g == [k \in 0..m + 1 |-> IF k = m + 1 THEN step[m + 1][f[m]] ELSE f[k]]
  <2>5. g \in [0..m + 1 -> S] /\ g[0] = base
    BY <2>1, <2>2, <2>4 DEF Made
  <2>6. ASSUME NEW k \in 1..m + 1
        PROVE  g[k] = step[k][g[k - 1]]
    <3>1. CASE k = m + 1
      <4>1. g[k] = step[m + 1][f[m]] /\ g[k - 1] = f[m]
        BY <2>2, <3>1
      <4> QED
        BY <3>1, <4>1
    <3>2. CASE k # m + 1
      <4>1. k \in 1..m /\ k - 1 \in 0..m /\ k # m + 1 /\ k - 1 # m + 1
        BY <2>2, <3>2
      <4> QED
        BY <2>1, <2>2, <4>1 DEF Made
    <3> QED
      BY <3>1, <3>2
  <2>7. Made(g, m + 1, S, base, step)
    BY <2>5, <2>6 DEF Made
  <2> HIDE DEF g
  <2> QED
    BY <2>2, <2>7
<1>3. T = 0..n
  <2>1. T \in SUBSET (0..n)
    OBVIOUS
  <2> HIDE DEF T
  <2> QED
    BY <1>1, <1>2, <2>1, UpTo
<1>4. n \in T
  <2> HIDE DEF T
  <2> QED
    BY <1>3
<1> QED
  BY <1>4

------------------------------------------------------------------------------
(* Texts *)

\* The digits of a text, and the point: a point is where the first "." is.
Chars == Digits \cup {"."}

LEMMA CharsDiffer == "." \notin Digits /\ "0" \in Digits /\ "." # "0"
  BY DEF Digits

LEMMA PointAt ==
  ASSUME NEW s, Len(s) \in Nat, NEW p \in 1..Len(s), s[p] = ".",
         \A k \in 1..Len(s) : k < p => s[k] # "."
  PROVE  Point(s) = p
<1> DEFINE I == {i \in 1..Len(s) : s[i] = "."}
<1>1. I \in SUBSET Nat /\ p \in I
  OBVIOUS
<1>2. \A i \in I : p <= i
  OBVIOUS
<1>3. Min(I) = p
  <2> HIDE DEF I
  <2> QED
    BY <1>1, <1>2, MinIs
<1> QED
  BY <1>1, <1>3 DEF Point, SelectInSeq

LEMMA NoPoint ==
  ASSUME NEW s, \A k \in 1..Len(s) : s[k] # "."
  PROVE  Point(s) = 0
  BY DEF Point, SelectInSeq

\* The significant part of a text starts at its first character that is no zero.
LEMMA SignificantFrom ==
  ASSUME NEW s, Len(s) \in Nat, NEW p \in 1..Len(s), s[p] # "0",
         \A k \in 1..Len(s) : k < p => s[k] = "0"
  PROVE  Significant(s) = SubSeq(s, p, Len(s))
<1> DEFINE I == {i \in 1..Len(s) : s[i] # "0"}
<1>1. I \in SUBSET Nat /\ p \in I
  OBVIOUS
<1>2. \A i \in I : p <= i
  OBVIOUS
<1>3. Min(I) = p
  <2> HIDE DEF I
  <2> QED
    BY <1>1, <1>2, MinIs
<1>4. SelectInSeq(s, LAMBDA c : c # "0") = p
  BY <1>1, <1>3 DEF SelectInSeq
<1>5. p # 0
  OBVIOUS
<1> QED
  BY <1>4, <1>5 DEF Significant

LEMMA NothingSignificant ==
  ASSUME NEW s, \A k \in 1..Len(s) : s[k] = "0"
  PROVE  Significant(s) = <<"0">>
  BY DEF Significant, SelectInSeq

\* The first n characters of a text.
LEMMA FirstChars ==
  ASSUME NEW S, NEW s \in Seq(S), NEW n \in 0..Len(s)
  PROVE  LET t == SubSeq(s, 1, n)
         IN  t \in Seq(S) /\ Len(t) = n /\ \A k \in 1..n : t[k] = s[k]
<1>1. n \in Nat /\ Len(s) \in Nat
  BY LenProperties
<1>2. \A i \in 1..n : s[i] \in S
  BY <1>1, ElementOfSeq
<1>3. /\ SubSeq(s, 1, n) \in Seq(S)
      /\ Len(SubSeq(s, 1, n)) = IF 1 <= n THEN n - 1 + 1 ELSE 0
      /\ \A i \in 1..n - 1 + 1 : SubSeq(s, 1, n)[i] = s[1 + i - 1]
  BY <1>1, <1>2, SubSeqProperties
<1>4. /\ (IF 1 <= n THEN n - 1 + 1 ELSE 0) = n /\ n - 1 + 1 = n
      /\ \A i \in 1..n : 1 + i - 1 = i
  BY <1>1
<1> QED
  BY <1>3, <1>4

\* The characters of a text from the m-th on.
LEMMA LastChars ==
  ASSUME NEW S, NEW s \in Seq(S), NEW m \in 1..Len(s) + 1
  PROVE  /\ SubSeq(s, m, Len(s)) \in Seq(S)
         /\ Len(SubSeq(s, m, Len(s))) = Len(s) + 1 - m
         /\ \A k \in 1..Len(s) + 1 - m : SubSeq(s, m, Len(s))[k] = s[m - 1 + k]
<1> DEFINE n == Len(s)
<1>1. n \in Nat /\ m \in Nat /\ m >= 1 /\ m <= n + 1
  BY LenProperties
<1>2. \A i \in m..n : s[i] \in S
  BY <1>1, ElementOfSeq
<1> HIDE DEF n
<1>3. /\ SubSeq(s, m, n) \in Seq(S)
      /\ Len(SubSeq(s, m, n)) = IF m <= n THEN n - m + 1 ELSE 0
      /\ \A i \in 1..n - m + 1 : SubSeq(s, m, n)[i] = s[m + i - 1]
  BY <1>1, <1>2, SubSeqProperties
<1>4. /\ (IF m <= n THEN n - m + 1 ELSE 0) = n + 1 - m /\ n - m + 1 = n + 1 - m
      /\ \A i \in 1..n + 1 - m : m + i - 1 = m - 1 + i
  BY <1>1
<1> QED
  BY <1>3, <1>4 DEF n

\* Texts joined: each is where the one before it ends.
LEMMA Joined ==
  ASSUME NEW S, NEW x \in Seq(S), NEW y \in Seq(S)
  PROVE  LET t == x \o y
         IN  /\ t \in Seq(S) /\ Len(t) = Len(x) + Len(y)
             /\ \A k \in 1..Len(x) : t[k] = x[k]
             /\ \A k \in 1..Len(y) : t[Len(x) + k] = y[k]
<1> DEFINE t == x \o y
           m == Len(x)
           n == Len(y)
<1>1. m \in Nat /\ n \in Nat
  BY LenProperties
<1>2. /\ t \in Seq(S) /\ Len(t) = m + n
      /\ \A k \in 1..m + n : t[k] = IF k <= m THEN x[k] ELSE y[k - m]
  BY ConcatProperties
<1> HIDE DEF t, m, n
<1>3. \A k \in 1..m : t[k] = x[k]
  <2> TAKE k \in 1..m
  <2>1. k \in 1..m + n /\ k <= m
    BY <1>1
  <2> QED
    BY <1>2, <2>1
<1>4. \A k \in 1..n : t[m + k] = y[k]
  <2> TAKE k \in 1..n
  <2>1. m + k \in 1..m + n /\ ~(m + k <= m) /\ (m + k) - m = k
    BY <1>1
  <2> QED
    BY <1>2, <2>1
<1> QED
  BY <1>2, <1>3, <1>4 DEF t, m, n

LEMMA ThreeJoined ==
  ASSUME NEW S, NEW x \in Seq(S), NEW y \in Seq(S), NEW z \in Seq(S)
  PROVE  LET t == x \o y \o z
         IN  /\ t \in Seq(S) /\ Len(t) = Len(x) + Len(y) + Len(z)
             /\ \A k \in 1..Len(x) : t[k] = x[k]
             /\ \A k \in 1..Len(y) : t[Len(x) + k] = y[k]
             /\ \A k \in 1..Len(z) : t[Len(x) + Len(y) + k] = z[k]
<1> DEFINE xy == x \o y
           m == Len(x)
           n == Len(y)
<1>1. m \in Nat /\ n \in Nat
  BY LenProperties
<1>2. /\ xy \in Seq(S) /\ Len(xy) = m + n
      /\ \A k \in 1..m : xy[k] = x[k]
      /\ \A k \in 1..n : xy[m + k] = y[k]
  BY Joined
<1> HIDE DEF xy, m, n
<1> DEFINE t == xy \o z
<1>3. /\ t \in Seq(S) /\ Len(t) = Len(xy) + Len(z)
      /\ \A k \in 1..Len(xy) : t[k] = xy[k]
      /\ \A k \in 1..Len(z) : t[Len(xy) + k] = z[k]
  <2>1. xy \in Seq(S) /\ z \in Seq(S)
    BY <1>2
  <2> QED
    BY ONLY <2>1, Joined
<1> HIDE DEF t
<1>4. \A k \in 1..m : k \in 1..m + n
  BY <1>1
<1>5. \A k \in 1..n : m + k \in 1..m + n
  BY <1>1
<1>6. /\ \A k \in 1..m : t[k] = x[k]
      /\ \A k \in 1..n : t[m + k] = y[k]
      /\ \A k \in 1..Len(z) : t[m + n + k] = z[k]
  BY <1>2, <1>3, <1>4, <1>5
<1> QED
  BY <1>2, <1>3, <1>6 DEF t, xy, m, n

------------------------------------------------------------------------------
(* The digits of an amount *)

\* An amount with the zeros in front that make ten digits of it.
Padded(a) == IF Len(a) > 9 THEN a ELSE Zeros(9 + 1 - Len(a)) \o a

LEMMA AmountType ==
  ASSUME NEW a \in Amounts
  PROVE  /\ a \in Seq(Digits) /\ Len(a) \in 1..20
         /\ \A k \in 1..Len(a) : a[k] \in Digits
         /\ a[1] = "0" => Len(a) = 1
<1>1. a \in Seq(Digits) /\ Len(a) \in 1..20 /\ (a[1] = "0" => Len(a) = 1)
  BY AmountsAssumption DEF UINT64_DIGITS
<1> QED
  BY <1>1, ElementOfSeq

\* Padding puts zeros in front, and only where there are less than ten digits.
LEMMA PaddedDigits ==
  ASSUME NEW a \in Amounts
  PROVE  LET p == Padded(a)
             z == Len(p) - Len(a)
         IN  /\ p \in Seq(Digits) /\ Len(p) \in 10..20
             /\ z \in 0..9 /\ (z > 0 => Len(p) = 10)
             /\ \A k \in 1..z : p[k] = "0"
             /\ \A k \in 1..Len(a) : p[z + k] = a[k]
<1> DEFINE n == Len(a)
<1>1. a \in Seq(Digits) /\ n \in 1..20 /\ n = Len(a)
  BY AmountType
<1> HIDE DEF n
<1>2. CASE n > 9
  <2>1. Padded(a) = a
    BY <1>1, <1>2 DEF Padded
  <2>2. n - n = 0 /\ \A k \in 1..n : 0 + k = k
    BY <1>1
  <2>3. Len(Padded(a)) = n /\ \A k \in 1..n : Padded(a)[0 + k] = a[k]
    BY <1>1, <2>1, <2>2
  <2>4. n \in 10..20 /\ n - n \in 0..9 /\ ~(n - n > 0)
    <3>1. \A x \in 1..20 : x > 9 => x \in 10..20 /\ x - x \in 0..9 /\ ~(x - x > 0)
      OBVIOUS
    <3> QED
      BY <1>1, <1>2, <3>1
  <2>5. \A k \in 1..n - n : FALSE
    BY <1>1
  <2> QED
    BY ONLY <1>1, <2>1, <2>2, <2>3, <2>4, <2>5
<1>3. CASE ~(n > 9)
  <2> DEFINE m == 9 + 1 - n
  <2>1. m \in 1..9 /\ m + n = 10 /\ 10 - n = m /\ m \in Nat
    <3>1. \A x \in 1..20 :
             ~(x > 9) => /\ 9 + 1 - x \in 1..9 /\ (9 + 1 - x) + x = 10
                         /\ 10 - x = 9 + 1 - x /\ 9 + 1 - x \in Nat
      OBVIOUS
    <3> QED
      BY <1>1, <1>3, <3>1
  <2> HIDE DEF m
  <2>2. Zeros(m) \in [1..m -> Digits] /\ \A k \in 1..m : Zeros(m)[k] = "0"
    BY CharsDiffer DEF Zeros
  <2>3. Zeros(m) \in Seq(Digits) /\ Len(Zeros(m)) = m
    BY <2>1, <2>2
  <2> DEFINE p == Zeros(m) \o a
  <2>4. /\ p \in Seq(Digits) /\ Len(p) = Len(Zeros(m)) + Len(a)
        /\ \A k \in 1..Len(Zeros(m)) : p[k] = Zeros(m)[k]
        /\ \A k \in 1..Len(a) : p[Len(Zeros(m)) + k] = a[k]
    <3>1. Zeros(m) \in Seq(Digits) /\ a \in Seq(Digits)
      BY <1>1, <2>3
    <3> QED
      BY ONLY <3>1, Joined
  <2>5. Padded(a) = p
    BY <1>1, <1>3 DEF Padded, m
  <2> HIDE DEF p
  <2>6. p \in Seq(Digits) /\ Len(p) = 10
    BY <1>1, <2>1, <2>3, <2>4
  <2>7. \A k \in 1..m : p[k] = "0"
    BY <2>2, <2>3, <2>4
  <2>8. \A k \in 1..n : p[m + k] = a[k]
    BY <1>1, <2>3, <2>4
  <2>9. Len(p) - n = m /\ Len(p) \in 10..20 /\ m \in 0..9
    BY <2>1, <2>6
  <2> QED
    BY ONLY <1>1, <2>5, <2>6, <2>7, <2>8, <2>9
<1> QED
  BY <1>2, <1>3

\* The point goes before the last nine digits.
LEMMA PointedDigits ==
  ASSUME NEW a \in Amounts
  PROVE  LET p == Padded(a)
             w == Len(p) - 9
             s == intstr_to_fpstr_inplace(a, AMOUNT_DECIMAL_PLACES)
         IN  /\ s \in Seq(Chars) /\ w \in 1..11 /\ Len(s) = w + 10
             /\ \A k \in 1..w : s[k] = p[k]
             /\ s[w + 1] = "."
             /\ \A k \in 1..9 : s[w + 1 + k] = p[w + k]
             /\ \A k \in 1..w + 10 : k # w + 1 => s[k] \in Digits
<1> DEFINE p == Padded(a)
           w == Len(p) - 9
           x == SubSeq(p, 1, w)
           y == SubSeq(p, w + 1, Len(p))
<1>1. p \in Seq(Digits) /\ Len(p) \in 10..20
  BY PaddedDigits
<1>2. p \in Seq(Chars) /\ \A k \in 1..Len(p) : p[k] \in Digits
  <2>1. Digits \subseteq Chars
    BY DEF Chars
  <2> QED
    BY <1>1, <2>1, SeqMonotonic, ElementOfSeq
<1>3. intstr_to_fpstr_inplace(a, AMOUNT_DECIMAL_PLACES) = x \o <<".">> \o y
  BY DEF intstr_to_fpstr_inplace, Padded, AMOUNT_DECIMAL_PLACES
<1> HIDE DEF p
<1>4. w \in 1..11 /\ Len(p) = w + 9 /\ w \in 0..Len(p) /\ w + 1 \in 1..Len(p) + 1
      /\ Len(p) + 1 - (w + 1) = 9 /\ w + 1 - 1 = w
  <2>1. \A n \in 10..20 :
           /\ n - 9 \in 1..11 /\ n = (n - 9) + 9 /\ n - 9 \in 0..n
           /\ n - 9 + 1 \in 1..n + 1
           /\ n + 1 - (n - 9 + 1) = 9 /\ n - 9 + 1 - 1 = n - 9
    OBVIOUS
  <2> QED
    BY <1>1, <2>1
<1> HIDE DEF w
<1>5. x \in Seq(Chars) /\ Len(x) = w /\ \A k \in 1..w : x[k] = p[k]
  BY <1>2, <1>4, FirstChars
<1>6. y \in Seq(Chars) /\ Len(y) = 9 /\ \A k \in 1..9 : y[k] = p[w + k]
  BY <1>2, <1>4, LastChars
<1> HIDE DEF x, y
<1> DEFINE d == <<".">>
           s == x \o d \o y
<1>7. d \in Seq(Chars) /\ Len(d) = 1 /\ d[1] = "."
  BY DEF Chars
<1> HIDE DEF d
<1>8. /\ s \in Seq(Chars) /\ Len(s) = Len(x) + Len(d) + Len(y)
      /\ \A k \in 1..Len(x) : s[k] = x[k]
      /\ \A k \in 1..Len(d) : s[Len(x) + k] = d[k]
      /\ \A k \in 1..Len(y) : s[Len(x) + Len(d) + k] = y[k]
  <2>1. x \in Seq(Chars) /\ d \in Seq(Chars) /\ y \in Seq(Chars)
    BY <1>5, <1>6, <1>7
  <2> QED
    BY ONLY <2>1, ThreeJoined
<1> HIDE DEF s
<1>9. s \in Seq(Chars) /\ Len(s) = w + 10
  <2>1. w + 1 + 9 = w + 10
    BY <1>4
  <2> QED
    BY <1>5, <1>6, <1>7, <1>8, <2>1
<1>10. \A k \in 1..w : s[k] = p[k]
  BY <1>5, <1>8
<1>11. s[w + 1] = "."
  BY <1>5, <1>7, <1>8
<1>12. \A k \in 1..9 : s[w + 1 + k] = p[w + k]
  <2>1. \A k \in 1..9 : k \in 1..Len(y) /\ s[w + 1 + k] = y[k]
    BY ONLY <1>5, <1>6, <1>7, <1>8
  <2> QED
    BY <1>6, <2>1
<1>13. \A k \in 1..w + 10 : k # w + 1 => s[k] \in Digits
  <2> TAKE k \in 1..w + 10
  <2> HAVE k # w + 1
  <2>1. CASE k \in 1..w
    <3>1. k \in 1..Len(p)
      BY <1>4, <2>1
    <3> QED
      BY <1>2, <1>10, <2>1, <3>1
  <2>2. CASE k \notin 1..w
    <3>1. k - (w + 1) \in 1..9 /\ w + 1 + (k - (w + 1)) = k
          /\ w + (k - (w + 1)) \in 1..w + 9
      BY <1>4, <2>2
    <3> QED
      BY <1>2, <1>4, <1>12, <3>1
  <2> QED
    BY <2>1, <2>2
<1>14. s = x \o <<".">> \o y
  BY DEF s, d
<1> QED
  BY <1>3, <1>4, <1>9, <1>10, <1>11, <1>12, <1>13, <1>14 DEF w, p

------------------------------------------------------------------------------
(* The zeros that are cut off *)

\* A number with w digits before the point and nine behind it.
IsFixed(s, w) ==
    /\ s \in Seq(Chars) /\ w \in 1..11 /\ Len(s) = w + 10
    /\ s[w + 1] = "."
    /\ \A k \in 1..w + 10 : k # w + 1 => s[k] \in Digits

\* Cut behind the point, it has its point there; cut before, it has none.
LEMMA PointOfFront ==
  ASSUME NEW s, NEW w, IsFixed(s, w), NEW n \in 1..w + 10
  PROVE  /\ n >= w + 1 => Point(SubSeq(s, 1, n)) = w + 1
         /\ n <= w => Point(SubSeq(s, 1, n)) = 0
<1> DEFINE t == SubSeq(s, 1, n)
<1>1. /\ s \in Seq(Chars) /\ w \in 1..11 /\ n \in 1..w + 10 /\ Len(s) = w + 10
      /\ s[w + 1] = "." /\ \A k \in 1..w + 10 : k # w + 1 => s[k] # "."
  BY CharsDiffer DEF IsFixed
<1>2. n \in 0..Len(s) /\ n \in Nat
  BY <1>1
<1>3. Len(t) = n /\ \A k \in 1..n : t[k] = s[k]
  BY <1>1, <1>2, FirstChars
<1> HIDE DEF t
<1>4. CASE n >= w + 1
  <2>1. /\ w + 1 \in 1..n /\ ~(n <= w)
        /\ \A k \in 1..n : k < w + 1 => k \in 1..w + 10 /\ k # w + 1
    BY <1>1, <1>4
  <2>2. t[w + 1] = "." /\ \A k \in 1..n : k < w + 1 => t[k] # "."
    BY <1>1, <1>3, <2>1
  <2>3. Len(t) \in Nat /\ w + 1 \in 1..Len(t)
    BY <1>2, <1>3, <2>1
  <2>4. Point(t) = w + 1
    BY <1>3, <2>2, <2>3, PointAt
  <2> QED
    BY <2>1, <2>4 DEF t
<1>5. CASE n <= w
  <2>1. ~(n >= w + 1) /\ \A k \in 1..n : k \in 1..w + 10 /\ k # w + 1
    BY <1>1, <1>5
  <2>2. Point(t) = 0
    BY <1>1, <1>3, <2>1, NoPoint
  <2> QED
    BY <2>1, <2>2 DEF t
<1> QED
  BY <1>1, <1>4, <1>5

\* Trimming leaves at least one digit behind the point, cuts nothing but zeros,
\* and leaves no zero at the end of several.
LEMMA TrimmedZeros ==
  ASSUME NEW s, NEW w, IsFixed(s, w)
  PROVE  \E last \in w + 2..w + 10 :
            /\ number_inplace_trimming(s, 1) = SubSeq(s, 1, last)
            /\ \A k \in 1..w + 10 : k > last => s[k] = "0"
            /\ last > w + 2 => s[last] # "0"
<1> DEFINE I == {i \in 1..Len(s) : s[i] # "0"}
<1>1. w \in 1..11 /\ Len(s) = w + 10 /\ s[w + 1] = "." /\ s \in Seq(Chars)
  BY DEF IsFixed
<1>2. I \in SUBSET (0..w + 10) /\ w + 1 \in I /\ w + 10 \in Nat
  BY <1>1, CharsDiffer
<1>3. PICK m \in I : \A i \in I : m >= i
  <2> HIDE DEF I
  <2> QED
    BY <1>2, GreatestNumber
<1>4. Max(I) = m
  <2>1. I \in SUBSET Nat
    BY <1>2
  <2> HIDE DEF I
  <2> QED
    BY <1>3, <2>1, MaxIs
<1>5. SelectLastInSeq(s, LAMBDA c : c # "0") = m
  BY <1>3, <1>4 DEF SelectLastInSeq
<1>6. m \in w + 1..w + 10 /\ s[m] # "0" /\ \A k \in 1..w + 10 : k > m => s[k] = "0"
  <2>1. m \in 1..w + 10 /\ s[m] # "0" /\ m >= w + 1
    BY <1>1, <1>2, <1>3
  <2>2. ASSUME NEW k \in 1..w + 10, k > m
        PROVE  s[k] = "0"
    <3>1. k \notin I
      BY <1>1, <1>3, <2>1, <2>2
    <3> QED
      BY <1>1, <3>1
  <2> QED
    BY <1>1, <2>1, <2>2
<1> HIDE DEF I
<1>7. Point(s) = w + 1
  <2>1. w + 10 \in 1..w + 10 /\ w + 10 >= w + 1
    BY <1>1
  <2>2. SubSeq(s, 1, w + 10) = s
    BY <1>1, SubSeqFull
  <2>3. Point(SubSeq(s, 1, w + 10)) = w + 1
    BY <2>1, PointOfFront
  <2> QED
    BY <2>2, <2>3
<1> DEFINE last == IF m > w + 1 + 1 THEN m ELSE w + 1 + 1
<1>8. last \in w + 2..w + 10 /\ ~(w + 1 = 0) /\ ~(last > w + 10) /\ last >= m
      /\ (last > w + 2 => last = m)
  BY <1>1, <1>6
<1>9. number_inplace_trimming(s, 1) = SubSeq(s, 1, last)
  <2>1. number_inplace_trimming(s, 1) =
           IF Point(s) = 0 \/ last > Len(s) THEN s ELSE SubSeq(s, 1, last)
    BY <1>5, <1>7 DEF number_inplace_trimming
  <2> QED
    BY <1>1, <1>7, <1>8, <2>1
<1> HIDE DEF last
<1>10. \A k \in 1..w + 10 : k > last => s[k] = "0"
  <2>1. \A k \in 1..w + 10 : k > last => k > m
    BY <1>1, <1>6, <1>8
  <2> QED
    BY <1>6, <2>1
<1> QED
  BY <1>6, <1>8, <1>9, <1>10

\* With remove_fraction the point goes too when only zeros are behind it.
LEMMA CutZeros ==
  ASSUME NEW s, NEW w, IsFixed(s, w)
  PROVE  \E last \in w..w + 10 :
            /\ remove_fraction(number_inplace_trimming(s, 1)) = SubSeq(s, 1, last)
            /\ last # w + 1
            /\ \A k \in 1..w + 10 : k > last /\ k # w + 1 => s[k] = "0"
            /\ last > w => s[last] # "0"
<1>1. w \in 1..11 /\ Len(s) = w + 10 /\ s \in Seq(Chars)
  BY DEF IsFixed
<1>2. PICK n \in w + 2..w + 10 :
         /\ number_inplace_trimming(s, 1) = SubSeq(s, 1, n)
         /\ \A k \in 1..w + 10 : k > n => s[k] = "0"
         /\ n > w + 2 => s[n] # "0"
  BY TrimmedZeros
<1> DEFINE t == SubSeq(s, 1, n)
<1>3. n \in 1..w + 10 /\ n >= w + 1 /\ n \in 0..Len(s) /\ w \in 0..n /\ w \in 0..Len(s)
      /\ w + 1 # 0 /\ w + 1 - 1 = w
  BY <1>1, <1>2
<1>4. t \in Seq(Chars) /\ Len(t) = n /\ \A k \in 1..n : t[k] = s[k]
  BY <1>1, <1>3, FirstChars
<1>5. Point(t) = w + 1
  BY <1>3, PointOfFront
<1> HIDE DEF t
<1>6. CASE \A k \in w + 1 + 1..n : t[k] = "0"
  <2>1. remove_fraction(t) = SubSeq(t, 1, w)
    BY <1>3, <1>4, <1>5, <1>6 DEF remove_fraction
  <2>2. SubSeq(t, 1, w) = SubSeq(s, 1, w)
    <3> DEFINE u == SubSeq(t, 1, w)
               v == SubSeq(s, 1, w)
    <3>1. u \in Seq(Chars) /\ Len(u) = w /\ \A k \in 1..w : u[k] = t[k]
      BY <1>3, <1>4, FirstChars
    <3>2. v \in Seq(Chars) /\ Len(v) = w /\ \A k \in 1..w : v[k] = s[k]
      BY <1>1, <1>3, FirstChars
    <3>3. \A k \in 1..w : k \in 1..n
      BY <1>1, <1>3
    <3> HIDE DEF u, v
    <3>4. \A k \in 1..w : u[k] = v[k]
      BY <1>4, <3>1, <3>2, <3>3
    <3>5. u = v
      BY <3>1, <3>2, <3>4, SeqEqual
    <3> QED
      BY <3>5 DEF u, v
  <2>3. ASSUME NEW k \in 1..w + 10, k > w, k # w + 1
        PROVE  s[k] = "0"
    <3>1. CASE k > n
      BY <1>2, <3>1
    <3>2. CASE ~(k > n)
      <4>1. k \in w + 1 + 1..n /\ k \in 1..n
        BY <1>1, <1>3, <2>3, <3>2
      <4> QED
        BY <1>4, <1>6, <4>1
    <3> QED
      BY <3>1, <3>2
  <2>4. w \in w..w + 10 /\ w # w + 1 /\ ~(w > w)
    BY <1>1
  <2> QED
    BY <1>2, <2>1, <2>2, <2>3, <2>4 DEF t
<1>7. CASE \E k \in w + 1 + 1..n : t[k] # "0"
  <2>1. remove_fraction(t) = t
    BY <1>3, <1>4, <1>5, <1>7 DEF remove_fraction
  <2>2. s[n] # "0"
    <3>1. PICK k \in w + 1 + 1..n : t[k] # "0"
      BY <1>7
    <3>2. k \in 1..n /\ (~(n > w + 2) => k = n)
      BY <1>1, <1>3, <3>1
    <3> QED
      BY <1>2, <1>4, <3>1, <3>2
  <2>3. n \in w..w + 10 /\ n # w + 1
    BY <1>1, <1>2
  <2> QED
    BY <1>2, <2>1, <2>2, <2>3 DEF t
<1> QED
  BY <1>6, <1>7

------------------------------------------------------------------------------
(* The text of an amount *)

\* An amount with its point, and its digits before it.
Pointed(a)   == intstr_to_fpstr_inplace(a, AMOUNT_DECIMAL_PLACES)
NBefore(a)   == Len(Padded(a)) - 9
Known        == {"songbird", "coston", "coston2", "mainnet"}

\* Where the text of an amount may end: it has every digit that is not a zero at
\* the end of the fraction, and a point only before such a digit.
EndsAt(a, last) ==
    LET s == Pointed(a)
        w == NBefore(a)
    IN  /\ last \in w..w + 10 /\ last # w + 1
        /\ \A k \in 1..w + 10 : k > last /\ k # w + 1 => s[k] = "0"
        /\ last > w => s[last] # "0"

LEMMA PointedIsFixed ==
  ASSUME NEW a \in Amounts
  PROVE  IsFixed(Pointed(a), NBefore(a))
  BY PointedDigits DEF IsFixed, Pointed, NBefore

\* The number on the screen is such a text, and there is always room for the symbol.
LEMMA AmountText ==
  ASSUME NEW a \in Amounts, NEW network \in Known
  PROVE  \E last : /\ EndsAt(a, last)
                   /\ printAmount64(a, network) =
                         Append(SubSeq(Pointed(a), 1, last), Symbol(network).name)
<1> DEFINE s == Pointed(a)
           w == NBefore(a)
<1>1. IsFixed(s, w)
  BY PointedIsFixed
<1>2. w \in 1..11 /\ s \in Seq(Chars) /\ Len(s) = w + 10
  BY <1>1 DEF IsFixed
<1>3. printAmount64(a, network) =
         z_str3join(remove_fraction(number_inplace_trimming(s, 1)), Symbol(network))
  BY DEF printAmount64, Pointed
<1> HIDE DEF s, w
<1>4. PICK last \in w..w + 10 :
         /\ remove_fraction(number_inplace_trimming(s, 1)) = SubSeq(s, 1, last)
         /\ last # w + 1
         /\ \A k \in 1..w + 10 : k > last /\ k # w + 1 => s[k] = "0"
         /\ last > w => s[last] # "0"
  BY <1>1, CutZeros
<1>5. last \in 0..Len(s) /\ last \in Nat /\ last <= 21
  BY <1>2
<1>6. Len(SubSeq(s, 1, last)) = last
  BY <1>2, <1>5, FirstChars
<1>7. Symbol(network).len \in 4..6
  BY DEF Known, Symbol
<1>8. z_str3join(SubSeq(s, 1, last), Symbol(network)) =
         Append(SubSeq(s, 1, last), Symbol(network).name)
  BY <1>5, <1>6, <1>7 DEF z_str3join, STR_AMOUNT_LEN
<1> QED
  BY <1>3, <1>4, <1>8 DEF s, w, EndsAt

\* The number of a text, and the symbol behind it.
LEMMA NumberAndSymbol ==
  ASSUME NEW n \in Seq(Chars), NEW x, shown.text = Append(n, x)
  PROVE  Number = n /\ Last(shown.text) = x
<1> DEFINE S == Chars \cup {x}
           t == Append(n, x)
           m == Len(n)
<1>1. n \in Seq(S) /\ x \in S /\ m \in Nat
  BY SeqMonotonic, LenProperties
<1>2. /\ t \in Seq(S) /\ Len(t) = m + 1 /\ t[m + 1] = x
      /\ \A k \in 1..m : t[k] = n[k]
  BY <1>1, AppendProperties
<1> HIDE DEF S, t, m
<1> DEFINE u == SubSeq(t, 1, m)
<1>3. m + 1 - 1 = m /\ m \in 0..Len(t)
  BY <1>1, <1>2
<1>4. u \in Seq(S) /\ Len(u) = m /\ \A k \in 1..m : u[k] = t[k]
  BY <1>2, <1>3, FirstChars
<1> HIDE DEF u
<1>5. \A k \in 1..m : u[k] = n[k]
  BY <1>2, <1>4
<1>6. u = n
  BY <1>1, <1>4, <1>5, SeqEqual DEF m
<1>7. shown.text = t
  BY DEF t
<1>8. Number = u
  BY <1>2, <1>3, <1>7 DEF Number, u
<1> QED
  BY <1>2, <1>6, <1>7, <1>8 DEF Last

\* The digits behind the point that are left.
NDecimals(a, last) == IF last = NBefore(a) THEN 0 ELSE last - (NBefore(a) + 1)

\* The two parts of the number are the digits of the amount, less the zeros cut off.
LEMMA Parts ==
  ASSUME NEW a \in Amounts, NEW last, EndsAt(a, last),
         Number = SubSeq(Pointed(a), 1, last)
  PROVE  LET p == Padded(a)
             w == NBefore(a)
             d == NDecimals(a, last)
         IN  /\ w \in 1..11 /\ d \in 0..9
             /\ Whole \in Seq(Chars) /\ Len(Whole) = w
             /\ \A k \in 1..w : Whole[k] = p[k]
             /\ Decimals \in Seq(Chars) /\ Len(Decimals) = d
             /\ \A k \in 1..d : Decimals[k] = p[w + k]
             /\ \A k \in 1..9 : k > d => p[w + k] = "0"
             /\ d > 0 => p[w + d] # "0"
             /\ Point(Number) # 0 => d > 0
<1> DEFINE p == Padded(a)
           w == NBefore(a)
           s == Pointed(a)
           n == SubSeq(s, 1, last)
           d == NDecimals(a, last)
<1>1. /\ IsFixed(s, w)
      /\ \A k \in 1..w : s[k] = p[k]
      /\ \A k \in 1..9 : s[w + 1 + k] = p[w + k]
  BY PointedIsFixed, PointedDigits DEF Pointed, NBefore
<1>2. s \in Seq(Chars) /\ w \in 1..11 /\ Len(s) = w + 10
  BY <1>1 DEF IsFixed
<1>3. /\ last \in w..w + 10 /\ last # w + 1
      /\ \A k \in 1..w + 10 : k > last /\ k # w + 1 => s[k] = "0"
      /\ last > w => s[last] # "0"
  BY DEF EndsAt
<1>4. d = IF last = w THEN 0 ELSE last - (w + 1)
  BY DEF NDecimals
<1>5. Number = n
  OBVIOUS
<1> HIDE DEF p, w, s, d
<1>6. /\ last \in 1..w + 10 /\ last \in 0..Len(s) /\ last \in Nat /\ w \in 0..last
      /\ w \in 0..Len(s) /\ d \in 0..9
      /\ last # w => last >= w + 1 /\ last = w + 1 + d /\ d > 0
      /\ last = w => d = 0
  BY <1>2, <1>3, <1>4
<1>7. n \in Seq(Chars) /\ Len(n) = last /\ \A k \in 1..last : n[k] = s[k]
  BY <1>2, <1>6, FirstChars
<1>8. /\ last # w => Point(n) = w + 1
      /\ last = w => Point(n) = 0
  BY <1>1, <1>6, PointOfFront
<1> HIDE DEF n
<1>9. Whole = SubSeq(n, 1, w)
  <2>1. CASE last = w
    <3>1. Whole = n
      BY <1>5, <1>8, <2>1 DEF Whole
    <3>2. SubSeq(n, 1, w) = n
      BY <1>7, <2>1, SubSeqFull
    <3> QED
      BY <3>1, <3>2
  <2>2. CASE last # w
    <3>1. w + 1 # 0 /\ w + 1 - 1 = w
      BY <1>2
    <3>2. Point(Number) = w + 1
      BY <1>5, <1>8, <2>2
    <3>3. Whole = SubSeq(Number, 1, Point(Number) - 1)
      BY <3>1, <3>2 DEF Whole
    <3>4. Point(Number) - 1 = w
      <4>1. \A x : x = w + 1 => x - 1 = w
        BY <1>2
      <4> QED
        BY <3>2, <4>1
    <3>5. SubSeq(Number, 1, Point(Number) - 1) = SubSeq(Number, 1, w)
      BY <3>4
    <3>6. SubSeq(Number, 1, w) = SubSeq(n, 1, w)
      BY <1>5
    <3> QED
      BY <3>3, <3>5, <3>6
  <2> QED
    BY <2>1, <2>2
<1>10. Whole \in Seq(Chars) /\ Len(Whole) = w /\ \A k \in 1..w : Whole[k] = n[k]
  BY <1>6, <1>7, <1>9, FirstChars
<1>11. \A k \in 1..w : Whole[k] = p[k]
  <2>1. \A k \in 1..w : k \in 1..last
    BY <1>2, <1>6
  <2> QED
    BY <1>1, <1>7, <1>10, <2>1
<1>12. Decimals = SubSeq(n, w + 2, last)
  BY <1>5, <1>7, <1>10 DEF Decimals
<1>13. /\ Decimals \in Seq(Chars)
       /\ Len(Decimals) = IF w + 2 <= last THEN last - (w + 2) + 1 ELSE 0
       /\ \A i \in 1..last - (w + 2) + 1 : Decimals[i] = n[w + 2 + i - 1]
  <2>1. \A i \in w + 2..last : n[i] \in Chars
    <3>1. \A i \in w + 2..last : i \in 1..last
      BY <1>2, <1>6
    <3> QED
      BY <1>7, <3>1, ElementOfSeq
  <2>2. w + 2 \in Int /\ last \in Int
    BY <1>2, <1>6
  <2> QED
    BY <1>12, <2>1, <2>2, SubSeqProperties
<1>14. Len(Decimals) = d
  <2>1. (IF w + 2 <= last THEN last - (w + 2) + 1 ELSE 0) = d
    BY <1>2, <1>6
  <2> QED
    BY <1>13, <2>1
<1>15. \A k \in 1..d : Decimals[k] = p[w + k]
  <2> TAKE k \in 1..d
  <2>1. last # w /\ k \in 1..9 /\ k \in 1..last - (w + 2) + 1
        /\ w + 2 + k - 1 = w + 1 + k /\ w + 1 + k \in 1..last
    BY <1>2, <1>6
  <2> QED
    BY <1>1, <1>7, <1>13, <2>1
<1>16. \A k \in 1..9 : k > d => p[w + k] = "0"
  <2> TAKE k \in 1..9
  <2> HAVE k > d
  <2>1. w + 1 + k \in 1..w + 10 /\ w + 1 + k > last /\ w + 1 + k # w + 1
    BY <1>2, <1>6
  <2> QED
    BY <1>1, <1>3, <2>1
<1>17. d > 0 => p[w + d] # "0"
  <2> HAVE d > 0
  <2>1. last > w /\ last = w + 1 + d /\ d \in 1..9
    BY <1>2, <1>6
  <2> QED
    BY <1>1, <1>3, <2>1
<1>18. Point(Number) # 0 => d > 0
  BY <1>5, <1>6, <1>8
<1> QED
  BY <1>2, <1>6, <1>10, <1>11, <1>13, <1>14, <1>15, <1>16, <1>17, <1>18 DEF p, w, d

\* The digits of an amount behind the zeros in front are the amount.
LEMMA SignificantPadded ==
  ASSUME NEW a \in Amounts
  PROVE  Significant(Padded(a)) = a
<1> DEFINE p == Padded(a)
           n == Len(a)
           z == Len(p) - n
<1>1. /\ p \in Seq(Digits) /\ Len(p) \in 10..20
      /\ z \in 0..9 /\ (z > 0 => Len(p) = 10)
      /\ \A k \in 1..z : p[k] = "0"
      /\ \A k \in 1..n : p[z + k] = a[k]
  BY PaddedDigits
<1>2. a \in Seq(Digits) /\ n \in 1..20 /\ (a[1] = "0" => n = 1)
  BY AmountType
<1>3. z = Len(p) - n
  OBVIOUS
<1> HIDE DEF p, n, z
<1> DEFINE l == Len(p)
<1>4. l \in 10..20 /\ l = z + n
  <2>1. \A x \in 10..20, y \in 1..20 : x = (x - y) + y
    OBVIOUS
  <2> QED
    BY <1>1, <1>2, <1>3, <2>1
<1>5. CASE a[1] = "0"
  <2>1. n = 1 /\ z + 1 = l
    BY <1>2, <1>4, <1>5
  <2>2. \A k \in 1..l : p[k] = "0"
    <3> TAKE k \in 1..l
    <3>1. k \in 1..z \/ k = z + 1
      BY <1>1, <1>4, <2>1
    <3> QED
      BY <1>1, <1>5, <2>1, <3>1
  <2>3. Significant(p) = <<"0">>
    BY <2>2, NothingSignificant
  <2>4. a = <<"0">>
    <3>1. <<"0">> \in Seq(Digits) /\ Len(<<"0">>) = 1 /\ <<"0">>[1] = "0"
      BY CharsDiffer
    <3>2. Len(a) = 1 /\ \A k \in 1..1 : a[k] = <<"0">>[k]
      BY <1>5, <2>1, <3>1 DEF n
    <3> QED
      BY <1>2, <3>1, <3>2, SeqEqual
  <2> QED
    BY <2>3, <2>4 DEF p
<1>6. CASE a[1] # "0"
  <2>1. /\ z + 1 \in 1..l /\ z + 1 \in 1..l + 1 /\ l \in Nat /\ l + 1 - (z + 1) = n
        /\ z + 1 - 1 = z
        /\ \A k \in 1..l : k < z + 1 => k \in 1..z
    BY <1>1, <1>2, <1>4
  <2>2. p[z + 1] # "0" /\ \A k \in 1..l : k < z + 1 => p[k] = "0"
    BY <1>1, <1>2, <1>6, <2>1
  <2>3. Significant(p) = SubSeq(p, z + 1, l)
    BY <2>1, <2>2, SignificantFrom
  <2> DEFINE u == SubSeq(p, z + 1, l)
  <2>4. u \in Seq(Digits) /\ Len(u) = n /\ \A k \in 1..n : u[k] = p[z + k]
    BY <1>1, <2>1, LastChars
  <2> HIDE DEF u
  <2>5. Len(u) = Len(a) /\ \A k \in 1..Len(u) : u[k] = a[k]
    BY <1>1, <2>4 DEF n
  <2>6. u = a
    BY <1>2, <2>4, <2>5, SeqEqual
  <2> QED
    BY <2>3, <2>6 DEF u, p
<1> QED
  BY <1>5, <1>6

------------------------------------------------------------------------------
(* The number and the amount *)

\* The zeros that were cut off, put back: every digit of the amount is there.
LEMMA ZerosPutBack ==
  ASSUME NEW a \in Amounts, NEW last, EndsAt(a, last),
         Number = SubSeq(Pointed(a), 1, last)
  PROVE  Whole \o Decimals \o Zeros(AMOUNT_DECIMAL_PLACES - Len(Decimals)) = Padded(a)
<1> DEFINE p == Padded(a)
           w == NBefore(a)
           d == NDecimals(a, last)
           z == Zeros(AMOUNT_DECIMAL_PLACES - Len(Decimals))
<1>1. /\ w \in 1..11 /\ d \in 0..9
      /\ Whole \in Seq(Chars) /\ Len(Whole) = w
      /\ \A k \in 1..w : Whole[k] = p[k]
      /\ Decimals \in Seq(Chars) /\ Len(Decimals) = d
      /\ \A k \in 1..d : Decimals[k] = p[w + k]
      /\ \A k \in 1..9 : k > d => p[w + k] = "0"
  BY Parts
<1>2. p \in Seq(Digits) /\ Len(p) \in 10..20
  BY PaddedDigits
<1>3. w = Len(p) - 9
  BY DEF NBefore
<1> HIDE DEF p, w, d
<1>4. Len(p) = w + 9
  <2>1. \A n \in 10..20 : n = (n - 9) + 9
    OBVIOUS
  <2> QED
    BY <1>2, <1>3, <2>1
<1>5. p \in Seq(Chars)
  <2>1. Digits \subseteq Chars
    BY DEF Chars
  <2> QED
    BY <1>2, <2>1, SeqMonotonic
<1>6. z \in Seq(Chars) /\ Len(z) = 9 - d /\ \A k \in 1..9 - d : z[k] = "0"
  <2>1. z = [k \in 1..9 - d |-> "0"]
    BY <1>1 DEF Zeros, AMOUNT_DECIMAL_PLACES
  <2>2. 9 - d \in Nat /\ "0" \in Chars
    BY <1>1, CharsDiffer DEF Chars
  <2> HIDE DEF z
  <2>3. z \in [1..9 - d -> Chars]
    BY <2>1, <2>2
  <2> QED
    BY <2>1, <2>2, <2>3
<1> HIDE DEF z
<1> DEFINE t == Whole \o Decimals \o z
<1>7. /\ t \in Seq(Chars) /\ Len(t) = Len(Whole) + Len(Decimals) + Len(z)
      /\ \A k \in 1..Len(Whole) : t[k] = Whole[k]
      /\ \A k \in 1..Len(Decimals) : t[Len(Whole) + k] = Decimals[k]
      /\ \A k \in 1..Len(z) : t[Len(Whole) + Len(Decimals) + k] = z[k]
  <2>1. Whole \in Seq(Chars) /\ Decimals \in Seq(Chars) /\ z \in Seq(Chars)
    BY <1>1, <1>6
  <2> QED
    BY ONLY <2>1, ThreeJoined
<1> HIDE DEF t
<1>8. /\ Len(t) = w + d + (9 - d)
      /\ \A k \in 1..w : t[k] = Whole[k]
      /\ \A k \in 1..d : t[w + k] = Decimals[k]
      /\ \A k \in 1..9 - d : t[w + d + k] = z[k]
  BY ONLY <1>1, <1>6, <1>7
<1>9. w + d + (9 - d) = w + 9
  BY <1>1
<1>10. \A k \in 1..w + 9 : t[k] = p[k]
  <2> TAKE k \in 1..w + 9
  <2>1. CASE k \in 1..w
    BY <1>1, <1>8, <2>1
  <2>2. CASE k \notin 1..w
    <3> DEFINE j == k - w
    <3>1. j \in 1..9 /\ k = w + j /\ (j > d \/ j \in 1..d)
      BY <1>1, <2>2
    <3> HIDE DEF j
    <3>2. CASE j \in 1..d
      BY <1>1, <1>8, <3>1, <3>2
    <3>3. CASE j > d
      <4>1. j - d \in 1..9 - d /\ w + d + (j - d) = w + j
        BY <1>1, <3>1, <3>3
      <4>2. t[w + j] = "0"
        BY <1>6, <1>8, <4>1
      <4>3. p[w + j] = "0"
        BY <1>1, <3>1, <3>3
      <4> QED
        BY <3>1, <4>2, <4>3
    <3> QED
      BY <3>1, <3>2, <3>3
  <2> QED
    BY <2>1, <2>2
<1>11. t = p
  <2>1. Len(t) = Len(p) /\ \A k \in 1..Len(t) : t[k] = p[k]
    BY <1>4, <1>8, <1>9, <1>10
  <2> QED
    BY <1>5, <1>7, <2>1, SeqEqual
<1> QED
  BY <1>11 DEF t, z, p

\* The digits before the point start with a zero only if that is the only one.
LEMMA WholeIsSignificant ==
  ASSUME NEW a \in Amounts, NEW last, EndsAt(a, last),
         Number = SubSeq(Pointed(a), 1, last)
  PROVE  Whole = Significant(Whole)
<1> DEFINE p == Padded(a)
           w == NBefore(a)
           n == Len(a)
           z == Len(p) - n
<1>1. /\ w \in 1..11 /\ Whole \in Seq(Chars) /\ Len(Whole) = w
      /\ \A k \in 1..w : Whole[k] = p[k]
  BY Parts
<1>2. /\ Len(p) \in 10..20 /\ z \in 0..9 /\ (z > 0 => Len(p) = 10)
      /\ \A k \in 1..n : p[z + k] = a[k]
  BY PaddedDigits
<1>3. n \in 1..20 /\ (a[1] = "0" => n = 1)
  BY AmountType
<1>4. w = Len(p) - 9 /\ z = Len(p) - n
  BY DEF NBefore
<1> HIDE DEF p, w, n, z
<1>5. Whole[1] = "0" => w = 1
  <2> HAVE Whole[1] = "0"
  <2>1. p[1] = "0"
    BY <1>1
  <2> SUFFICES ASSUME w # 1 PROVE FALSE
    OBVIOUS
  <2>2. \A x \in 10..20, y \in 1..20 :
           x - 9 # 1 /\ (x - y > 0 => x = 10) /\ x - y \in 0..9
              => x - y = 0 /\ y # 1 /\ 1 \in 1..y
    OBVIOUS
  <2>3. z = 0 /\ n # 1 /\ 1 \in 1..n
    BY <1>2, <1>3, <1>4, <2>2
  <2>4. p[0 + 1] = a[1]
    BY <1>2, <2>3
  <2>5. a[1] = "0"
    BY <2>1, <2>4
  <2> QED
    BY <1>3, <2>3, <2>5
<1>6. w \in Nat /\ 1 \in 1..w /\ ~\E k \in 1..w : k < 1
  BY <1>1
<1>7. CASE Whole[1] = "0"
  <2>1. w = 1 /\ \A k \in 1..Len(Whole) : Whole[k] = "0"
    BY <1>1, <1>5, <1>7
  <2>2. Significant(Whole) = <<"0">>
    BY <2>1, NothingSignificant
  <2>3. <<"0">> \in Seq(Chars) /\ Len(<<"0">>) = 1 /\ <<"0">>[1] = "0"
    BY CharsDiffer DEF Chars
  <2>4. Len(Whole) = Len(<<"0">>) /\ \A k \in 1..Len(Whole) : Whole[k] = <<"0">>[k]
    BY <1>1, <1>7, <2>1, <2>3
  <2>5. Whole = <<"0">>
    BY <1>1, <2>3, <2>4, SeqEqual
  <2> QED
    BY <2>2, <2>5
<1>8. CASE Whole[1] # "0"
  <2>1. Len(Whole) \in Nat /\ 1 \in 1..Len(Whole)
        /\ \A k \in 1..Len(Whole) : k < 1 => Whole[k] = "0"
    BY <1>1, <1>6
  <2>2. Significant(Whole) = SubSeq(Whole, 1, Len(Whole))
    BY <1>8, <2>1, SignificantFrom
  <2> QED
    BY <1>1, <2>2, SubSeqFull
<1> QED
  BY <1>7, <1>8

\* What the properties say of the text of an amount.
LEMMA TextIsAmount ==
  ASSUME NEW a \in Amounts, NEW network \in Known,
         shown.text = printAmount64(a, network)
  PROVE  /\ Significant(Whole \o Decimals
               \o Zeros(AMOUNT_DECIMAL_PLACES - Len(Decimals))) = a
         /\ Last(shown.text) = Symbol(network).name
         /\ Whole = Significant(Whole)
         /\ Point(Number) # 0 => Decimals # <<>> /\ Last(Decimals) # "0"
<1>1. PICK last : /\ EndsAt(a, last)
                  /\ printAmount64(a, network) =
                        Append(SubSeq(Pointed(a), 1, last), Symbol(network).name)
  BY AmountText
<1> DEFINE n == SubSeq(Pointed(a), 1, last)
<1>2. n \in Seq(Chars)
  <2>1. IsFixed(Pointed(a), NBefore(a))
    BY PointedIsFixed
  <2>2. /\ Pointed(a) \in Seq(Chars) /\ NBefore(a) \in 1..11
        /\ Len(Pointed(a)) = NBefore(a) + 10 /\ last \in NBefore(a)..NBefore(a) + 10
    BY <1>1, <2>1 DEF IsFixed, EndsAt
  <2>3. last \in 0..Len(Pointed(a))
    BY <2>2
  <2> QED
    BY <2>2, <2>3, FirstChars
<1>3. shown.text = Append(n, Symbol(network).name)
  BY <1>1
<1> HIDE DEF n
<1>4. Number = n /\ Last(shown.text) = Symbol(network).name
  BY <1>2, <1>3, NumberAndSymbol
<1>5. Number = SubSeq(Pointed(a), 1, last)
  BY <1>4 DEF n
<1>6. Whole \o Decimals \o Zeros(AMOUNT_DECIMAL_PLACES - Len(Decimals)) = Padded(a)
  BY <1>1, <1>5, ZerosPutBack
<1>7. Whole = Significant(Whole)
  BY <1>1, <1>5, WholeIsSignificant
<1>8. ASSUME Point(Number) # 0
      PROVE  Decimals # <<>> /\ Last(Decimals) # "0"
  <2> DEFINE d == NDecimals(a, last)
             w == NBefore(a)
             p == Padded(a)
  <2>1. /\ d \in 0..9 /\ Decimals \in Seq(Chars) /\ Len(Decimals) = d /\ d > 0
        /\ \A k \in 1..d : Decimals[k] = p[w + k]
        /\ p[w + d] # "0"
    BY <1>1, <1>5, <1>8, Parts
  <2> HIDE DEF d, w, p
  <2>2. d \in 1..d /\ d # 0
    BY <2>1
  <2>3. Decimals[Len(Decimals)] # "0"
    BY <2>1, <2>2
  <2>4. Decimals # <<>>
    BY <2>1, <2>2, EmptySeq
  <2> QED
    BY <2>3, <2>4 DEF Last
<1> QED
  BY <1>4, <1>6, <1>7, <1>8, SignificantPadded

------------------------------------------------------------------------------
(* Another network *)

LEMMA SymbolsDiffer ==
  ASSUME NEW one \in Known, NEW other \in Known, one # other
  PROVE  Symbol(one).name # Symbol(other).name /\ Hrp(one) # Hrp(other)
<1>1. /\ Symbol("songbird").name = " SGB" /\ Hrp("songbird") = "song"
      /\ Symbol("coston").name = " CFLR" /\ Hrp("coston") = "coston"
      /\ Symbol("coston2").name = " C2FLR" /\ Hrp("coston2") = "costwo"
      /\ Symbol("mainnet").name = " FLR" /\ Hrp("mainnet") = "flare"
  BY DEF Symbol, Hrp
<1> QED
  BY <1>1 DEF Known

LEMMA LastDiffers ==
  ASSUME NEW S, NEW s \in Seq(S), NEW t \in Seq(S), NEW x, NEW y, x # y
  PROVE  Append(s, x) # Append(t, y)
<1> DEFINE R == S \cup {x, y}
<1>1. s \in Seq(R) /\ t \in Seq(R) /\ x \in R /\ y \in R
  BY SeqMonotonic
<1> HIDE DEF R
<1>2. /\ Len(Append(s, x)) = Len(s) + 1 /\ Append(s, x)[Len(s) + 1] = x
      /\ Len(Append(t, y)) = Len(t) + 1 /\ Append(t, y)[Len(t) + 1] = y
  BY <1>1, AppendProperties
<1> QED
  BY <1>2

LEMMA AmountsTellNetwork ==
  ASSUME NEW a \in Amounts, NEW one \in Known, NEW other \in Known, one # other
  PROVE  printAmount64(a, one) # printAmount64(a, other)
<1>1. /\ Pointed(a) \in Seq(Chars) /\ NBefore(a) \in 1..11
      /\ Len(Pointed(a)) = NBefore(a) + 10
  BY PointedIsFixed DEF IsFixed
<1>2. \A last : EndsAt(a, last) => SubSeq(Pointed(a), 1, last) \in Seq(Chars)
  <2> TAKE last
  <2> HAVE EndsAt(a, last)
  <2>1. last \in 0..Len(Pointed(a))
    BY <1>1 DEF EndsAt
  <2> QED
    BY <1>1, <2>1, FirstChars
<1>3. PICK l : /\ EndsAt(a, l)
               /\ printAmount64(a, one) =
                     Append(SubSeq(Pointed(a), 1, l), Symbol(one).name)
  BY AmountText
<1>4. PICK m : /\ EndsAt(a, m)
               /\ printAmount64(a, other) =
                     Append(SubSeq(Pointed(a), 1, m), Symbol(other).name)
  BY AmountText
<1>5. Symbol(one).name # Symbol(other).name
  BY SymbolsDiffer
<1>6. /\ SubSeq(Pointed(a), 1, l) \in Seq(Chars)
      /\ SubSeq(Pointed(a), 1, m) \in Seq(Chars)
  BY <1>2, <1>3, <1>4
<1>7. Append(SubSeq(Pointed(a), 1, l), Symbol(one).name)
        # Append(SubSeq(Pointed(a), 1, m), Symbol(other).name)
  BY ONLY <1>5, <1>6, LastDiffers
<1> QED
  BY <1>3, <1>4, <1>7

LEMMA AddressesTellNetwork ==
  ASSUME NEW k, NEW one \in Known, NEW other \in Known, one # other
  PROVE  printAddress(k, one) # printAddress(k, other)
<1>1. Hrp(one) # Hrp(other)
  BY SymbolsDiffer
<1>2. printAddress(k, one)[1] = Hrp(one) /\ printAddress(k, other)[1] = Hrp(other)
  BY DEF printAddress, bech32EncodeFromBytes
<1> QED
  BY <1>1, <1>2

\* No two ids are of one known network.
LEMMA NetworksDiffer ==
  ASSUME NEW one, NEW other, one # other,
         NetworkOf(one) # "unknown", NetworkOf(other) # "unknown"
  PROVE  /\ NetworkOf(one) \in Known /\ NetworkOf(other) \in Known
         /\ NetworkOf(one) # NetworkOf(other)
<1>1. \A id : /\ NetworkOf(id) = "mainnet" => id = MAINNET_ID
              /\ NetworkOf(id) = "coston" => id = COSTON_ID
              /\ NetworkOf(id) = "coston2" => id = COSTON2_ID
              /\ NetworkOf(id) = "songbird" => id = SONGBIRD_ID
              /\ NetworkOf(id) \in Known \cup {"unknown"}
  BY DEF NetworkOf, Known
<1> QED
  BY <1>1 DEF Known

------------------------------------------------------------------------------
(* The division of a node id *)

\* A node id with its checksum, and what is left of it after a division.
IdLen == NODE_ID_LEN + CB58_CHECKSUM_LEN
Bytes == [1..IdLen -> 0..255]
Part  == [quotient : Seq(0..255), rest : 0..57]

LEMMA IdLenIs == IdLen = 24 /\ IdLen \in Nat
  BY DEF IdLen, NODE_ID_LEN, CB58_CHECKSUM_LEN

LEMMA FunctionIsText ==
  ASSUME NEW S, NEW n \in Nat, NEW s \in [1..n -> S]
  PROVE  s \in Seq(S) /\ Len(s) = n
  OBVIOUS

LEMMA BytesType ==
  ASSUME NEW s \in Bytes
  PROVE  Len(s) = IdLen /\ s \in Seq(0..255) /\ \A k \in 1..IdLen : s[k] \in 0..255
<1>1. s \in [1..IdLen -> 0..255] /\ IdLen \in Nat
  BY IdLenIs DEF Bytes
<1>2. s \in Seq(0..255) /\ Len(s) = IdLen
  BY ONLY <1>1, FunctionIsText
<1> QED
  BY <1>1, <1>2

\* One step of the division, as the function of what the step before it left.
DivisionStep(s, k) ==
    [x \in Part |-> [quotient |-> Append(x.quotient, (x.rest * 256 + s[k]) \div 58),
                     rest |-> (x.rest * 256 + s[k]) % 58]]

LEMMA DivisionStepType ==
  ASSUME NEW s \in Bytes, NEW k \in 1..IdLen
  PROVE  DivisionStep(s, k) \in [Part -> Part]
<1>1. s[k] \in 0..255
  BY BytesType
<1>2. \A r \in 0..57, b \in 0..255 :
         (r * 256 + b) \div 58 \in 0..255 /\ (r * 256 + b) % 58 \in 0..57
  OBVIOUS
<1>3. ASSUME NEW x \in Part
      PROVE  [quotient |-> Append(x.quotient, (x.rest * 256 + s[k]) \div 58),
              rest |-> (x.rest * 256 + s[k]) % 58] \in Part
  <2>1. x.quotient \in Seq(0..255) /\ x.rest \in 0..57
    BY DEF Part
  <2>2. (x.rest * 256 + s[k]) \div 58 \in 0..255 /\ (x.rest * 256 + s[k]) % 58 \in 0..57
    BY <1>1, <1>2, <2>1
  <2>3. Append(x.quotient, (x.rest * 256 + s[k]) \div 58) \in Seq(0..255)
    BY <2>1, <2>2, AppendProperties
  <2> QED
    BY <2>2, <2>3 DEF Part
<1> QED
  BY <1>3 DEF DivisionStep

LEMMA DivisionDefined ==
  ASSUME NEW s \in Bytes
  PROVE  LET u == Division(s)
         IN  /\ u \in [0..IdLen -> Part]
             /\ u[0] = [quotient |-> <<>>, rest |-> 0]
             /\ \A k \in 1..IdLen : u[k] = DivisionStep(s, k)[u[k - 1]]
<1> DEFINE base == [quotient |-> <<>>, rest |-> 0]
           F(g) == [k \in 0..Len(s) |->
                      IF k = 0 THEN base
                      ELSE LET before == g[k - 1]
                               digit  == before.rest * 256 + s[k]
                           IN  [quotient |-> Append(before.quotient, digit \div 58),
                                rest |-> digit % 58]]
<1>1. Division(s) = CHOOSE g : g = F(g)
  BY DEF Division
<1>2. Len(s) = IdLen
  BY BytesType
<1>3. base \in Part
  BY EmptySeq DEF Part
<1> HIDE DEF base
<1> DEFINE step == [k \in 1..IdLen |-> DivisionStep(s, k)]
<1>4. step \in [1..IdLen -> [Part -> Part]]
  BY DivisionStepType
<1>5. \A k \in 1..IdLen : step[k] = DivisionStep(s, k)
  OBVIOUS
<1> HIDE DEF step
<1>6. PICK f \in [0..IdLen -> Part] :
         f[0] = base /\ \A k \in 1..IdLen : f[k] = step[k][f[k - 1]]
  <2>1. step \in Steps(IdLen, Part)
    BY <1>4 DEF Steps
  <2> HIDE DEF F
  <2>2. PICK f : Made(f, IdLen, Part, base, step)
    BY <1>3, <2>1, IdLenIs, StepByStep
  <2> QED
    BY <2>2 DEF Made
<1>7. f = F(f)
  <2>1. ASSUME NEW k \in 0..IdLen
        PROVE  f[k] = F(f)[k]
    <3>1. CASE k = 0
      BY <1>2, <1>6, <3>1
    <3>2. CASE k # 0
      <4>1. k \in 1..IdLen /\ k - 1 \in 0..IdLen
        BY <3>2, IdLenIs
      <4>2. f[k] = DivisionStep(s, k)[f[k - 1]] /\ f[k - 1] \in Part
        BY <1>5, <1>6, <4>1
      <4>3. DivisionStep(s, k)[f[k - 1]] = F(f)[k]
        BY <1>2, <3>2, <4>1, <4>2 DEF DivisionStep
      <4> QED
        BY <4>2, <4>3
    <3> QED
      BY <3>1, <3>2
  <2>2. F(f) = [k \in 0..IdLen |-> F(f)[k]]
    BY <1>2
  <2>3. f = [k \in 0..IdLen |-> f[k]]
    BY <1>6
  <2> HIDE DEF F
  <2> QED
    BY <2>1, <2>2, <2>3
<1> DEFINE u == Division(s)
<1>8. u = F(u)
  <2> HIDE DEF F
  <2> QED
    BY <1>1, <1>7
<1>9. u[0] = base /\ DOMAIN u = 0..IdLen
  BY <1>2, <1>8
<1>10. \A k \in 1..IdLen : u[k - 1] \in Part => u[k] = DivisionStep(s, k)[u[k - 1]]
  <2> TAKE k \in 1..IdLen
  <2> HAVE u[k - 1] \in Part
  <2>1. k \in 0..IdLen /\ k # 0
    OBVIOUS
  <2> DEFINE x == u[k - 1]
  <2>2. F(u)[k] = [quotient |-> Append(x.quotient, (x.rest * 256 + s[k]) \div 58),
                   rest |-> (x.rest * 256 + s[k]) % 58]
    BY <1>2, <2>1
  <2>3. u[k] = F(u)[k]
    BY <1>8
  <2> HIDE DEF F, u
  <2> QED
    BY <2>2, <2>3 DEF DivisionStep
<1> HIDE DEF u, F
<1> DEFINE T == {k \in 0..IdLen : u[k] \in Part}
<1>11. T = 0..IdLen
  <2>1. 0 \in T
    BY <1>3, <1>9, IdLenIs
  <2>2. ASSUME NEW k \in T, k < IdLen
        PROVE  k + 1 \in T
    <3>1. k + 1 \in 1..IdLen /\ k + 1 - 1 = k /\ u[k] \in Part
      BY <2>2, IdLenIs
    <3>2. u[k + 1] = DivisionStep(s, k + 1)[u[k]]
      BY <1>10, <3>1
    <3>3. u[k + 1] \in Part
      BY <3>1, <3>2, DivisionStepType
    <3> QED
      BY <3>1, <3>3
  <2>3. T \in SUBSET (0..IdLen)
    OBVIOUS
  <2> HIDE DEF T
  <2> QED
    BY <2>1, <2>2, <2>3, IdLenIs, UpTo
<1>12. \A k \in 0..IdLen : u[k] \in Part
  BY <1>11
<1>13. \A k \in 1..IdLen : u[k] = DivisionStep(s, k)[u[k - 1]]
  BY <1>10, <1>12, IdLenIs
<1>14. u = [k \in 0..IdLen |-> u[k]]
  <2>1. \E G : u = [k \in 0..IdLen |-> G[k]]
    BY <1>2, <1>8 DEF F
  <2> QED
    BY <2>1
<1>15. u \in [0..IdLen -> Part]
  BY <1>12, <1>14
<1> QED
  BY <1>9, <1>13, <1>15 DEF u, base

\* The digits of the quotient, each from what the digits before it left.
LEMMA QuotientDigits ==
  ASSUME NEW s \in Bytes
  PROVE  LET u == Division(s)
             q == Div58(s)
         IN  /\ q \in Bytes
             /\ u[0].rest = 0
             /\ \A k \in 1..IdLen :
                   /\ u[k - 1].rest \in 0..57 /\ u[k].rest \in 0..57
                   /\ q[k] = (u[k - 1].rest * 256 + s[k]) \div 58
                   /\ u[k].rest = (u[k - 1].rest * 256 + s[k]) % 58
<1> DEFINE u == Division(s)
           q == Div58(s)
           D(k) == (u[k - 1].rest * 256 + s[k]) \div 58
<1>1. /\ u \in [0..IdLen -> Part]
      /\ u[0] = [quotient |-> <<>>, rest |-> 0]
      /\ \A k \in 1..IdLen : u[k] = DivisionStep(s, k)[u[k - 1]]
  BY DivisionDefined
<1>2. q = u[IdLen].quotient
  BY BytesType DEF Div58
<1> HIDE DEF u, q
<1>3. \A k \in 0..IdLen : u[k] \in Part /\ u[k].quotient \in Seq(0..255) /\ u[k].rest \in 0..57
  BY <1>1 DEF Part
<1>4. \A k \in 1..IdLen : k \in 0..IdLen /\ k - 1 \in 0..IdLen /\ k \in Nat
  BY IdLenIs
<1>5. \A k \in 1..IdLen : /\ u[k].quotient = Append(u[k - 1].quotient, D(k))
                          /\ u[k].rest = (u[k - 1].rest * 256 + s[k]) % 58
  <2> TAKE k \in 1..IdLen
  <2>1. u[k - 1] \in Part
    BY <1>3, <1>4
  <2>2. u[k] = [quotient |-> Append(u[k - 1].quotient, (u[k - 1].rest * 256 + s[k]) \div 58),
                rest |-> (u[k - 1].rest * 256 + s[k]) % 58]
    BY <1>1, <2>1 DEF DivisionStep
  <2> QED
    BY <2>2
<1>6. \A k \in 1..IdLen : D(k) \in 0..255
  <2> TAKE k \in 1..IdLen
  <2>1. \A r \in 0..57, b \in 0..255 : (r * 256 + b) \div 58 \in 0..255
    OBVIOUS
  <2>2. u[k - 1].rest \in 0..57 /\ s[k] \in 0..255
    BY <1>3, <1>4, BytesType
  <2> QED
    BY <2>1, <2>2
<1> HIDE DEF D
<1> DEFINE T == {k \in 0..IdLen : /\ Len(u[k].quotient) = k
                                  /\ \A j \in 1..k : u[k].quotient[j] = D(j)}
<1>7. T = 0..IdLen
  <2>1. 0 \in T
    BY <1>1, EmptySeq, IdLenIs
  <2>2. ASSUME NEW k \in T, k < IdLen
        PROVE  k + 1 \in T
    <3>1. /\ k \in 0..IdLen /\ k + 1 \in 1..IdLen /\ k + 1 - 1 = k /\ k + 1 \in 0..IdLen
          /\ Len(u[k].quotient) = k /\ \A j \in 1..k : u[k].quotient[j] = D(j)
      BY <2>2, IdLenIs
    <3> DEFINE x == u[k].quotient
               y == Append(x, D(k + 1))
    <3>2. u[k + 1].quotient = y
      BY <1>5, <3>1
    <3>3. x \in Seq(0..255) /\ D(k + 1) \in 0..255 /\ Len(x) = k
          /\ \A j \in 1..k : x[j] = D(j)
      BY <1>3, <1>6, <3>1
    <3> HIDE DEF x
    <3>4. Len(y) = k + 1 /\ y[k + 1] = D(k + 1) /\ \A j \in 1..k : y[j] = x[j]
      BY <3>3, AppendProperties
    <3> HIDE DEF y
    <3>5. \A j \in 1..k + 1 : j \in 1..k \/ j = k + 1
      BY <3>1
    <3>6. \A j \in 1..k + 1 : y[j] = D(j)
      BY <3>3, <3>4, <3>5
    <3> QED
      BY <3>1, <3>2, <3>4, <3>6
  <2>3. T \in SUBSET (0..IdLen)
    OBVIOUS
  <2> HIDE DEF T
  <2> QED
    BY <2>1, <2>2, <2>3, IdLenIs, UpTo
<1>8. IdLen \in T
  <2> HIDE DEF T
  <2> QED
    BY <1>7, IdLenIs
<1>9. /\ q \in Seq(0..255) /\ Len(q) = IdLen
      /\ \A k \in 1..IdLen : q[k] = D(k)
  BY <1>2, <1>3, <1>8
<1>10. q \in Bytes
  BY <1>9, LenProperties DEF Bytes
<1>11. u[0].rest = 0
  BY <1>1
<1> QED
  BY <1>3, <1>4, <1>5, <1>9, <1>10, <1>11 DEF D, u, q

\* The number that bytes stand for, up to the k-th of them.
ValueStep(s) == [k \in 1..IdLen |-> [x \in Nat |-> 256 * x + s[k]]]
Value(s)     == CHOOSE v : Made(v, IdLen, Nat, 0, ValueStep(s))

LEMMA ValueDefined ==
  ASSUME NEW s \in Bytes
  PROVE  LET v == Value(s)
         IN  /\ v \in [0..IdLen -> Nat] /\ v[0] = 0
             /\ \A k \in 1..IdLen : v[k] = 256 * v[k - 1] + s[k]
<1>1. \A k \in 1..IdLen : s[k] \in 0..255
  BY BytesType
<1>2. ValueStep(s) \in Steps(IdLen, Nat)
  BY <1>1 DEF ValueStep, Steps
<1>3. \E v : Made(v, IdLen, Nat, 0, ValueStep(s))
  <2>1. 0 \in Nat
    OBVIOUS
  <2> QED
    BY <1>2, <2>1, IdLenIs, StepByStep
<1> DEFINE v == Value(s)
<1>4. Made(v, IdLen, Nat, 0, ValueStep(s))
  BY <1>3 DEF Value
<1> HIDE DEF v
<1>5. v \in [0..IdLen -> Nat] /\ v[0] = 0
      /\ \A k \in 1..IdLen : v[k] = ValueStep(s)[k][v[k - 1]]
  BY <1>4 DEF Made
<1>6. \A k \in 1..IdLen : v[k] = 256 * v[k - 1] + s[k]
  <2> TAKE k \in 1..IdLen
  <2>1. k - 1 \in 0..IdLen
    BY IdLenIs
  <2>2. v[k - 1] \in Nat
    BY <1>5, <2>1
  <2> QED
    BY <1>5, <2>2 DEF ValueStep
<1> QED
  BY <1>5, <1>6 DEF v

\* A division leaves at most one part in 58.
LEMMA DividedBy58 ==
  ASSUME NEW s \in Bytes
  PROVE  58 * Value(Div58(s))[IdLen] <= Value(s)[IdLen]
<1> DEFINE u == Division(s)
           q == Div58(s)
           v == Value(s)
           w == Value(q)
<1>1. /\ q \in Bytes
      /\ u[0].rest = 0
      /\ \A k \in 1..IdLen :
            /\ u[k - 1].rest \in 0..57 /\ u[k].rest \in 0..57
            /\ q[k] = (u[k - 1].rest * 256 + s[k]) \div 58
            /\ u[k].rest = (u[k - 1].rest * 256 + s[k]) % 58
  BY QuotientDigits
<1>2. /\ v \in [0..IdLen -> Nat] /\ v[0] = 0
      /\ \A k \in 1..IdLen : v[k] = 256 * v[k - 1] + s[k]
  BY ValueDefined
<1> HIDE DEF q
<1>3. /\ w \in [0..IdLen -> Nat] /\ w[0] = 0
      /\ \A k \in 1..IdLen : w[k] = 256 * w[k - 1] + q[k]
  BY <1>1, ValueDefined
<1> HIDE DEF u, v, w
<1> DEFINE T == {k \in 0..IdLen : v[k] = 58 * w[k] + u[k].rest}
<1>4. T = 0..IdLen
  <2>1. 0 \in T
    BY <1>1, <1>2, <1>3, IdLenIs
  <2>2. ASSUME NEW k \in T, k < IdLen
        PROVE  k + 1 \in T
    <3>1. /\ k \in 0..IdLen /\ k + 1 \in 1..IdLen /\ k + 1 - 1 = k /\ k + 1 \in 0..IdLen
          /\ v[k] = 58 * w[k] + u[k].rest
      BY <2>2, IdLenIs
    <3>2. s[k + 1] \in 0..255
      BY <3>1, BytesType
    <3>3. /\ u[k].rest \in 0..57 /\ u[k + 1].rest \in 0..57
          /\ q[k + 1] = (u[k].rest * 256 + s[k + 1]) \div 58
          /\ u[k + 1].rest = (u[k].rest * 256 + s[k + 1]) % 58
      BY <1>1, <3>1
    <3>4. /\ v[k + 1] = 256 * v[k] + s[k + 1] /\ w[k + 1] = 256 * w[k] + q[k + 1]
          /\ v[k] \in Nat /\ w[k] \in Nat
      BY <1>2, <1>3, <3>1
    <3> DEFINE c == u[k].rest
               d == s[k + 1]
               e == q[k + 1]
               g == u[k + 1].rest
    <3>5. c \in Nat /\ d \in Nat /\ e \in Nat /\ g \in Nat /\ c * 256 + d = 58 * e + g
      <4>1. \A x \in Nat : x \div 58 \in Nat /\ x % 58 \in Nat
                           /\ x = 58 * (x \div 58) + (x % 58)
        OBVIOUS
      <4>2. e = (c * 256 + d) \div 58 /\ g = (c * 256 + d) % 58
        BY <3>3
      <4>3. c \in 0..57 /\ d \in 0..255
        BY <3>2, <3>3
      <4> HIDE DEF c, d, e, g
      <4>4. c * 256 + d \in Nat /\ c \in Nat /\ d \in Nat
        BY <4>3
      <4> QED
        BY <4>1, <4>2, <4>4
    <3>6. /\ v[k + 1] = 256 * v[k] + d /\ w[k + 1] = 256 * w[k] + e
          /\ v[k] = 58 * w[k] + c
      BY <3>1, <3>4
    <3> HIDE DEF c, d, e, g
    <3>7. \A a, b \in Nat : a = 58 * b + c => 256 * a + d = 58 * (256 * b + e) + g
      BY <3>5
    <3>8. v[k + 1] = 58 * w[k + 1] + g
      BY <3>4, <3>6, <3>7
    <3> QED
      BY <3>1, <3>8 DEF g
  <2>3. T \in SUBSET (0..IdLen)
    OBVIOUS
  <2> HIDE DEF T
  <2> QED
    BY <2>1, <2>2, <2>3, IdLenIs, UpTo
<1>5. IdLen \in T
  <2> HIDE DEF T
  <2> QED
    BY <1>4, IdLenIs
<1>6. IdLen \in 1..IdLen /\ IdLen \in 0..IdLen
  BY IdLenIs
<1>7. /\ v[IdLen] = 58 * w[IdLen] + u[IdLen].rest /\ u[IdLen].rest \in 0..57
      /\ w[IdLen] \in Nat
  BY <1>1, <1>3, <1>5, <1>6
<1>8. 58 * w[IdLen] <= v[IdLen]
  BY <1>7
<1> QED
  BY <1>8 DEF v, w, q

\* One division after another.
Most == 2 * IdLen

LEMMA MostIs == Most = 48 /\ Most \in Nat
  BY IdLenIs DEF Most

LEMMA DividedDefined ==
  ASSUME NEW s \in Bytes
  PROVE  LET number == Divided(s)
         IN  /\ number \in [0..Most -> Bytes]
             /\ number[0] = s
             /\ \A k \in 1..Most : number[k] = Div58(number[k - 1])
<1> DEFINE F(g) == [k \in 0..2 * Len(s) |-> IF k = 0 THEN s ELSE Div58(g[k - 1])]
<1>1. Divided(s) = CHOOSE g : g = F(g)
  BY DEF Divided
<1>2. 2 * Len(s) = Most
  BY BytesType DEF Most
<1> DEFINE step == [k \in 1..Most |-> [x \in Bytes |-> Div58(x)]]
<1>3. step \in Steps(Most, Bytes)
  <2>1. \A x \in Bytes : Div58(x) \in Bytes
    BY QuotientDigits
  <2> QED
    BY <2>1 DEF Steps
<1>4. \A k \in 1..Most, x \in Bytes : step[k][x] = Div58(x)
  OBVIOUS
<1> HIDE DEF step
<1>5. PICK f \in [0..Most -> Bytes] :
         f[0] = s /\ \A k \in 1..Most : f[k] = step[k][f[k - 1]]
  <2> HIDE DEF F
  <2>1. PICK f : Made(f, Most, Bytes, s, step)
    BY <1>3, MostIs, StepByStep
  <2> QED
    BY <2>1 DEF Made
<1>6. \A k \in 1..Most : k \in 0..Most /\ k - 1 \in 0..Most /\ k # 0
  BY MostIs
<1>7. f = F(f)
  <2>1. ASSUME NEW k \in 0..Most
        PROVE  f[k] = F(f)[k]
    <3>1. CASE k = 0
      BY <1>2, <1>5, <3>1
    <3>2. CASE k # 0
      <4>1. k \in 1..Most
        BY <3>2, MostIs
      <4>2. f[k] = step[k][f[k - 1]] /\ f[k - 1] \in Bytes
        BY <1>5, <1>6, <4>1
      <4>3. f[k] = Div58(f[k - 1])
        BY <1>4, <4>1, <4>2
      <4> QED
        BY <1>2, <3>2, <4>3
    <3> QED
      BY <3>1, <3>2
  <2>2. F(f) = [k \in 0..Most |-> F(f)[k]]
    BY <1>2
  <2>3. f = [k \in 0..Most |-> f[k]]
    BY <1>5
  <2> HIDE DEF F
  <2> QED
    BY <2>1, <2>2, <2>3
<1> DEFINE number == Divided(s)
<1>8. number = F(number)
  <2> HIDE DEF F
  <2> QED
    BY <1>1, <1>7
<1>9. number[0] = s /\ \A k \in 1..Most : number[k] = Div58(number[k - 1])
  <2>1. 0 \in 0..2 * Len(s) /\ \A k \in 1..Most : k \in 0..2 * Len(s)
    <3>1. 0..2 * Len(s) = 0..Most
      BY <1>2
    <3>2. 0 \in 0..Most
      BY MostIs
    <3> HIDE DEF F, number
    <3> QED
      BY <1>6, <3>1, <3>2
  <2>2. F(number)[0] = s /\ \A k \in 1..Most : F(number)[k] = Div58(number[k - 1])
    BY <1>6, <2>1
  <2> HIDE DEF F, number
  <2> QED
    BY <1>8, <2>2
<1>10. \E G : number = [k \in 0..Most |-> G[k]]
  BY <1>2, <1>8
<1> HIDE DEF number, F
<1> DEFINE T == {k \in 0..Most : number[k] \in Bytes}
<1>11. T = 0..Most
  <2>1. 0 \in T
    BY <1>9, MostIs
  <2>2. ASSUME NEW k \in T, k < Most
        PROVE  k + 1 \in T
    <3>1. k + 1 \in 1..Most /\ k + 1 \in 0..Most /\ k + 1 - 1 = k /\ number[k] \in Bytes
      BY <2>2, MostIs
    <3>2. number[k + 1] = Div58(number[k])
      BY <1>9, <3>1
    <3>3. number[k + 1] \in Bytes
      BY <3>1, <3>2, QuotientDigits
    <3> QED
      BY <3>1, <3>3
  <2>3. T \in SUBSET (0..Most)
    OBVIOUS
  <2> HIDE DEF T
  <2> QED
    BY <2>1, <2>2, <2>3, MostIs, UpTo
<1>12. number \in [0..Most -> Bytes]
  <2>1. \A k \in 0..Most : number[k] \in Bytes
    BY <1>11
  <2>2. number = [k \in 0..Most |-> number[k]]
    BY <1>10
  <2> QED
    BY <2>1, <2>2
<1> QED
  BY <1>9, <1>12 DEF number

\* A number that is not zero has a value.
LEMMA ValueOfNumber ==
  ASSUME NEW s \in Bytes, ~IsZero(s)
  PROVE  Value(s)[IdLen] >= 1
<1> DEFINE v == Value(s)
<1>1. /\ v \in [0..IdLen -> Nat] /\ v[0] = 0
      /\ \A k \in 1..IdLen : v[k] = 256 * v[k - 1] + s[k]
  BY ValueDefined
<1>2. \A k \in 1..IdLen : s[k] \in 0..255
  BY BytesType
<1>3. PICK i \in 1..IdLen : s[i] # 0
  <2>1. DOMAIN s = 1..IdLen
    BY DEF Bytes
  <2> QED
    BY <2>1 DEF IsZero
<1> HIDE DEF v
<1> DEFINE T == {k \in 0..IdLen : k >= i => v[k] >= 1}
<1>4. T = 0..IdLen
  <2>1. 0 \in T
    BY <1>3, IdLenIs
  <2>2. ASSUME NEW k \in T, k < IdLen
        PROVE  k + 1 \in T
    <3>1. /\ k \in 0..IdLen /\ k + 1 \in 1..IdLen /\ k + 1 - 1 = k /\ k + 1 \in 0..IdLen
          /\ (k >= i => v[k] >= 1) /\ (k + 1 >= i => k >= i \/ k + 1 = i)
      BY <1>3, <2>2, IdLenIs
    <3>2. v[k + 1] = 256 * v[k] + s[k + 1] /\ v[k] \in Nat /\ s[k + 1] \in 0..255
      BY <1>1, <1>2, <3>1
    <3>3. k + 1 >= i => v[k] >= 1 \/ s[k + 1] # 0
      BY <1>3, <3>1
    <3>4. k + 1 >= i => v[k + 1] >= 1
      BY <3>2, <3>3
    <3> QED
      BY <3>1, <3>4
  <2>3. T \in SUBSET (0..IdLen)
    OBVIOUS
  <2> HIDE DEF T
  <2> QED
    BY <2>1, <2>2, <2>3, IdLenIs, UpTo
<1>5. IdLen \in 0..IdLen /\ IdLen >= i
  BY <1>3, IdLenIs
<1> QED
  BY <1>4, <1>5 DEF v

------------------------------------------------------------------------------
(* The length of a node id *)

\* The powers of a base.
ArePowers(f, base) ==
    f \in [0..Most -> Nat] /\ f[0] = 1 /\ \A k \in 1..Most : f[k] = base * f[k - 1]

LEMMA PowersExist ==
  ASSUME NEW base \in Nat
  PROVE  \E f : ArePowers(f, base)
<1> DEFINE step == [k \in 1..Most |-> [x \in Nat |-> base * x]]
<1>1. step \in Steps(Most, Nat) /\ 1 \in Nat
  BY DEF Steps
<1>2. \A k \in 1..Most, x \in Nat : step[k][x] = base * x
  OBVIOUS
<1> HIDE DEF step
<1>3. PICK f : Made(f, Most, Nat, 1, step)
  BY <1>1, MostIs, StepByStep
<1>4. f \in [0..Most -> Nat] /\ f[0] = 1 /\ \A k \in 1..Most : f[k] = step[k][f[k - 1]]
  BY <1>3 DEF Made
<1>5. \A k \in 1..Most : f[k] = base * f[k - 1]
  <2> TAKE k \in 1..Most
  <2>1. k - 1 \in 0..Most
    BY MostIs
  <2>2. f[k - 1] \in Nat
    BY <1>4, <2>1
  <2> QED
    BY <1>2, <1>4, <2>2
<1> QED
  BY <1>4, <1>5 DEF ArePowers

\* 24 bytes have at most 33 digits of base 58.
LEMMA PowersCompare ==
  ASSUME NEW f, NEW g, ArePowers(f, 256), ArePowers(g, 58)
  PROVE  \A m \in 0..24 : f[m] <= g[m + 9]
<1>1. /\ f[0] = 1 /\ \A k \in 1..48 : f[k] = 256 * f[k - 1]
      /\ \A k \in 0..48 : f[k] \in Nat
      /\ g[0] = 1 /\ \A k \in 1..48 : g[k] = 58 * g[k - 1]
      /\ \A k \in 0..48 : g[k] \in Nat
  BY MostIs DEF ArePowers
<1>2. f[24] <= g[33]
  <2>1. \A k \in 0..40 : f[k + 4] = 4294967296 * f[k]
    <3> TAKE k \in 0..40
    <3>1. /\ k + 1 \in 1..48 /\ k + 2 \in 1..48 /\ k + 3 \in 1..48 /\ k + 4 \in 1..48
          /\ k + 1 - 1 = k /\ k + 2 - 1 = k + 1 /\ k + 3 - 1 = k + 2 /\ k + 4 - 1 = k + 3
          /\ k \in 0..48 /\ k + 1 \in 0..48 /\ k + 2 \in 0..48 /\ k + 3 \in 0..48
      OBVIOUS
    <3>2. /\ f[k + 1] = 256 * f[k] /\ f[k + 2] = 256 * f[k + 1]
          /\ f[k + 3] = 256 * f[k + 2] /\ f[k + 4] = 256 * f[k + 3]
          /\ f[k] \in Nat /\ f[k + 1] \in Nat /\ f[k + 2] \in Nat /\ f[k + 3] \in Nat
      BY <1>1, <3>1
    <3> QED
      BY ONLY <3>2
  <2>2. \A k \in 0..40 : g[k + 3] = 195112 * g[k]
    <3> TAKE k \in 0..40
    <3>1. /\ k + 1 \in 1..48 /\ k + 2 \in 1..48 /\ k + 3 \in 1..48
          /\ k + 1 - 1 = k /\ k + 2 - 1 = k + 1 /\ k + 3 - 1 = k + 2
          /\ k \in 0..48 /\ k + 1 \in 0..48 /\ k + 2 \in 0..48
      OBVIOUS
    <3>2. /\ g[k + 1] = 58 * g[k] /\ g[k + 2] = 58 * g[k + 1] /\ g[k + 3] = 58 * g[k + 2]
          /\ g[k] \in Nat /\ g[k + 1] \in Nat /\ g[k + 2] \in Nat
      BY <1>1, <3>1
    <3> QED
      BY ONLY <3>2
  <2>3. /\ f[4] = 4294967296 * f[0] /\ f[8] = 4294967296 * f[4]
        /\ f[12] = 4294967296 * f[8] /\ f[16] = 4294967296 * f[12]
        /\ f[20] = 4294967296 * f[16] /\ f[24] = 4294967296 * f[20]
    BY <2>1
  <2>4. /\ g[3] = 195112 * g[0] /\ g[6] = 195112 * g[3] /\ g[9] = 195112 * g[6]
        /\ g[12] = 195112 * g[9] /\ g[15] = 195112 * g[12] /\ g[18] = 195112 * g[15]
        /\ g[21] = 195112 * g[18] /\ g[24] = 195112 * g[21] /\ g[27] = 195112 * g[24]
        /\ g[30] = 195112 * g[27] /\ g[33] = 195112 * g[30]
    BY <2>2
  <2>5. /\ f[0] = 1 /\ f[4] \in Nat /\ f[8] \in Nat /\ f[12] \in Nat /\ f[16] \in Nat
        /\ f[20] \in Nat /\ f[24] \in Nat
        /\ g[0] = 1 /\ g[3] \in Nat /\ g[6] \in Nat /\ g[9] \in Nat /\ g[12] \in Nat
        /\ g[15] \in Nat /\ g[18] \in Nat /\ g[21] \in Nat /\ g[24] \in Nat
        /\ g[27] \in Nat /\ g[30] \in Nat /\ g[33] \in Nat
    BY <1>1
  <2> QED
    BY ONLY <2>3, <2>4, <2>5
<1> DEFINE T == {j \in 0..24 : f[24 - j] <= g[33 - j]}
<1>3. \A j \in 0..24 : j \in T
  <2>1. 0 \in T
    BY <1>2
  <2>2. ASSUME NEW j \in T, j < 24
        PROVE  j + 1 \in T
    <3>1. /\ j \in 0..24 /\ j + 1 \in 0..24 /\ 24 - j \in 1..48 /\ 33 - j \in 1..48
          /\ 24 - j - 1 = 24 - (j + 1) /\ 33 - j - 1 = 33 - (j + 1)
          /\ 24 - (j + 1) \in 0..48 /\ 33 - (j + 1) \in 0..48
          /\ f[24 - j] <= g[33 - j]
      BY <2>2
    <3> DEFINE a == f[24 - (j + 1)]
               b == g[33 - (j + 1)]
    <3>2. f[24 - j] = 256 * a /\ g[33 - j] = 58 * b /\ a \in Nat /\ b \in Nat
      BY <1>1, <3>1
    <3> HIDE DEF a, b
    <3>3. 256 * a <= 58 * b
      BY <3>1, <3>2
    <3>4. a <= b
      BY ONLY <3>2, <3>3
    <3> QED
      BY <3>1, <3>4 DEF a, b
  <2>3. T \in SUBSET (0..24)
    OBVIOUS
  <2> HIDE DEF T
  <2> DEFINE n == 24
  <2>4. n \in Nat
    OBVIOUS
  <2>5. 0 \in T /\ T \in SUBSET (0..n) /\ \A j \in T : j < n => j + 1 \in T
    BY <2>1, <2>2, <2>3
  <2>6. 0..24 = 0..n
    OBVIOUS
  <2> HIDE DEF n
  <2>7. T = 0..n
    BY ONLY <2>4, <2>5, UpTo
  <2> QED
    BY <2>6, <2>7
<1>4. \A m \in 0..24 : f[m] <= g[m + 9]
  <2> TAKE m \in 0..24
  <2>1. 24 - m \in 0..24 /\ 24 - (24 - m) = m /\ 33 - (24 - m) = m + 9
    OBVIOUS
  <2>2. f[24 - (24 - m)] <= g[33 - (24 - m)]
    BY <1>3, <2>1
  <2> QED
    BY <2>1, <2>2
<1> QED
  BY <1>4

\* A number that starts with z zeros is less than a power.
LEMMA ZerosInFront ==
  ASSUME NEW s \in Bytes, NEW z \in 0..IdLen, \A i \in 1..z : s[i] = 0,
         NEW f, ArePowers(f, 256)
  PROVE  Value(s)[IdLen] < f[IdLen - z]
<1> DEFINE v == Value(s)
<1>1. /\ v \in [0..IdLen -> Nat] /\ v[0] = 0
      /\ \A k \in 1..IdLen : v[k] = 256 * v[k - 1] + s[k]
  BY ValueDefined
<1>2. \A k \in 1..IdLen : s[k] \in 0..255
  BY BytesType
<1>3. /\ f[0] = 1 /\ \A k \in 1..IdLen : f[k] = 256 * f[k - 1]
      /\ \A k \in 0..IdLen : f[k] \in Nat
  BY IdLenIs, MostIs DEF ArePowers
<1> HIDE DEF v
<1> DEFINE T == {k \in 0..IdLen : /\ k <= z => v[k] = 0
                                  /\ k >= z => v[k] < f[k - z]}
<1>4. T = 0..IdLen
  <2>1. 0 \in T
    BY <1>1, <1>3, IdLenIs
  <2>2. ASSUME NEW k \in T, k < IdLen
        PROVE  k + 1 \in T
    <3>1. /\ k \in 0..IdLen /\ k + 1 \in 1..IdLen /\ k + 1 - 1 = k /\ k + 1 \in 0..IdLen
          /\ (k <= z => v[k] = 0) /\ (k >= z => v[k] < f[k - z])
      BY <2>2, IdLenIs
    <3>2. v[k + 1] = 256 * v[k] + s[k + 1] /\ v[k] \in Nat /\ s[k + 1] \in 0..255
      BY <1>1, <1>2, <3>1
    <3>3. CASE k + 1 <= z
      <4>1. k <= z /\ k + 1 \in 1..z
        BY <3>1, <3>3, IdLenIs
      <4>2. v[k + 1] = 0
        BY <3>1, <3>2, <4>1
      <4>3. k + 1 >= z => k + 1 - z = 0
        BY <3>1, <3>3, IdLenIs
      <4>4. k + 1 >= z => v[k + 1] < f[k + 1 - z]
        BY <1>3, <4>2, <4>3
      <4> QED
        BY <3>1, <4>2, <4>4
    <3>4. CASE ~(k + 1 <= z)
      <4>1. k >= z /\ k + 1 - z \in 1..IdLen /\ k + 1 - z - 1 = k - z /\ k - z \in 0..IdLen
        BY <3>1, <3>4, IdLenIs
      <4> DEFINE x == f[k - z]
                 y == v[k]
                 b == s[k + 1]
      <4>2. f[k + 1 - z] = 256 * x /\ x \in Nat /\ y \in Nat /\ y < x /\ b \in 0..255
            /\ v[k + 1] = 256 * y + b
        BY <1>3, <3>1, <3>2, <4>1
      <4> HIDE DEF x, y, b
      <4>3. 256 * y + b < 256 * x
        BY ONLY <4>2
      <4> QED
        BY <3>1, <3>4, <4>2, <4>3
    <3> QED
      BY <3>3, <3>4
  <2>3. T \in SUBSET (0..IdLen)
    OBVIOUS
  <2> HIDE DEF T
  <2> QED
    BY <2>1, <2>2, <2>3, IdLenIs, UpTo
<1>5. IdLen \in 0..IdLen /\ IdLen >= z
  BY IdLenIs
<1> QED
  BY <1>4, <1>5 DEF v

\* After as many divisions as its bytes behind the zeros have digits, it is zero.
LEMMA FewDivisions ==
  ASSUME NEW s \in Bytes, NEW z \in 0..IdLen, \A i \in 1..z : s[i] = 0
  PROVE  \A k \in 0..Most : ~IsZero(Divided(s)[k]) => k \in 0..33 - z - 1
<1> DEFINE number == Divided(s)
           V(k) == Value(number[k])[IdLen]
           m == 33 - z
<1>1. PICK f : ArePowers(f, 256)
  BY PowersExist
<1>2. PICK g : ArePowers(g, 58)
  BY PowersExist
<1>3. m \in 9..33 /\ 24 - z \in 0..24 /\ m = 24 - z + 9 /\ IdLen - z = 24 - z
  BY IdLenIs
<1>4. number \in [0..Most -> Bytes] /\ number[0] = s
      /\ \A k \in 1..Most : number[k] = Div58(number[k - 1])
  BY DividedDefined
<1>5. /\ g[0] = 1 /\ \A k \in 1..33 : g[k] = 58 * g[k - 1]
      /\ \A k \in 0..33 : g[k] \in Nat
      /\ \A k \in 0..24 : f[k] \in Nat
  BY <1>1, <1>2, MostIs DEF ArePowers
<1>6. \A k \in 0..Most : V(k) \in Nat
  <2> TAKE k \in 0..Most
  <2> HIDE DEF number
  <2>1. number[k] \in Bytes
    BY <1>4
  <2>2. Value(number[k]) \in [0..IdLen -> Nat]
    BY <2>1, ValueDefined
  <2> QED
    BY <2>2, IdLenIs
<1>7. \A k \in 1..Most : 58 * V(k) <= V(k - 1)
  <2> TAKE k \in 1..Most
  <2> HIDE DEF number
  <2>1. k - 1 \in 0..Most
    BY MostIs
  <2>2. number[k - 1] \in Bytes /\ number[k] = Div58(number[k - 1])
    BY <1>4, <2>1
  <2> QED
    BY <2>2, DividedBy58
<1>8. V(0) < g[m]
  <2>1. V(0) < f[24 - z]
    BY <1>1, <1>3, <1>4, ZerosInFront
  <2>2. f[24 - z] <= g[m]
    BY <1>1, <1>2, <1>3, PowersCompare
  <2>3. V(0) \in Nat /\ f[24 - z] \in Nat /\ g[m] \in Nat
    BY <1>3, <1>5, <1>6, MostIs
  <2> HIDE DEF V
  <2> QED
    BY <2>1, <2>2, <2>3
<1>9. \A k \in 0..Most : V(k) >= 1 \/ IsZero(number[k])
  <2> TAKE k \in 0..Most
  <2>1. number[k] \in Bytes
    BY <1>4
  <2> HIDE DEF number
  <2> QED
    BY <2>1, ValueOfNumber
<1> HIDE DEF V, number, m
<1> DEFINE T == {k \in 0..Most : IF k <= m THEN V(k) < g[m - k] ELSE V(k) = 0}
<1>10. T = 0..Most
  <2>1. 0 \in T
    BY <1>3, <1>8, MostIs
  <2>2. ASSUME NEW k \in T, k < Most
        PROVE  k + 1 \in T
    <3>1. /\ k \in 0..Most /\ k + 1 \in 1..Most /\ k + 1 - 1 = k /\ k + 1 \in 0..Most
          /\ (k <= m => V(k) < g[m - k]) /\ (~(k <= m) => V(k) = 0)
      BY <2>2, MostIs
    <3>2. 58 * V(k + 1) <= V(k) /\ V(k) \in Nat /\ V(k + 1) \in Nat
      BY <1>6, <1>7, <3>1
    <3>3. CASE k + 1 <= m
      <4>1. /\ k <= m /\ m - k \in 1..33 /\ m - k - 1 = m - (k + 1)
            /\ m - (k + 1) \in 0..33
        BY <1>3, <3>1, <3>3, MostIs
      <4> DEFINE x == g[m - (k + 1)]
      <4>2. g[m - k] = 58 * x /\ x \in Nat /\ V(k) < g[m - k]
        BY <1>5, <3>1, <4>1
      <4> HIDE DEF x
      <4>3. V(k + 1) < x
        BY <3>2, <4>2
      <4> QED
        BY <3>1, <3>3, <4>3 DEF x
    <3>4. CASE ~(k + 1 <= m)
      <4>1. k <= m => m - k = 0
        BY <1>3, <3>1, <3>4, MostIs
      <4>2. V(k) = 0
        <5>1. k <= m => V(k) < 1
          BY <1>5, <3>1, <4>1
        <5> QED
          BY <3>1, <3>2, <5>1
      <4>3. V(k + 1) = 0
        BY <3>2, <4>2
      <4> QED
        BY <3>1, <3>4, <4>3
    <3> QED
      BY <3>3, <3>4
  <2>3. T \in SUBSET (0..Most)
    OBVIOUS
  <2> HIDE DEF T
  <2> QED
    BY <2>1, <2>2, <2>3, MostIs, UpTo
<1>11. ASSUME NEW k \in 0..Most, ~IsZero(number[k])
       PROVE  k \in 0..m - 1
  <2>1. V(k) >= 1 /\ V(k) \in Nat /\ k \in T
    BY <1>6, <1>9, <1>10, <1>11
  <2>2. (k <= m => V(k) < g[m - k]) /\ (~(k <= m) => V(k) = 0)
    BY <2>1
  <2>3. k <= m
    BY <2>1, <2>2
  <2>4. k # m
    <3>1. k = m => m - k = 0
      BY <1>3
    <3>2. k = m => V(k) < 1
      BY <1>5, <2>2, <2>3, <3>1
    <3> QED
      BY <2>1, <3>2
  <2> QED
    BY <1>3, <2>3, <2>4, MostIs
<1> QED
  BY <1>11 DEF number, m

\* The Base58 text of a node id with its checksum: at most 33 characters.
LEMMA NodeIdLength ==
  ASSUME NEW s \in Bytes
  PROVE  Base58Len(s) \in 0..33
<1> DEFINE number == Divided(s)
           front  == {k \in 1..Len(s) : \A i \in 1..k : s[i] = 0}
           digits == {k \in 0..2 * Len(s) : ~IsZero(number[k])}
<1>1. Base58Len(s) = Cardinality(front) + Cardinality(digits)
  BY DEF Base58Len
<1>2. Len(s) = IdLen /\ 2 * Len(s) = Most
  BY BytesType DEF Most
<1> HIDE DEF front
<1>3. front = {k \in 1..IdLen : \A i \in 1..k : s[i] = 0}
  BY <1>2 DEF front
<1>4. \E z \in 0..IdLen : front = 1..z
  <2>1. CASE front = {}
    <3>1. 0 \in 0..IdLen /\ 1..0 = {}
      BY IdLenIs
    <3> QED
      BY <2>1, <3>1
  <2>2. CASE front # {}
    <3>1. front \in SUBSET (0..IdLen)
      BY <1>3, IdLenIs
    <3>2. PICK z \in front : \A j \in front : z >= j
      BY <2>2, <3>1, IdLenIs, GreatestNumber
    <3>3. z \in 1..IdLen /\ \A i \in 1..z : s[i] = 0
      BY <1>3, <3>2
    <3>4. \A j \in front : j \in 1..z
      <4>1. \A j \in front : j \in 1..IdLen /\ z >= j
        BY <1>3, <3>2
      <4> QED
        BY <3>3, <4>1, IdLenIs
    <3>5. ASSUME NEW j \in 1..z
          PROVE  j \in front
      <4>1. j \in 1..IdLen /\ \A i \in 1..j : i \in 1..z
        BY <3>3, IdLenIs
      <4> QED
        BY <1>3, <3>3, <4>1
    <3>6. front = 1..z
      BY <3>4, <3>5
    <3>7. z \in 0..IdLen
      BY <3>3, IdLenIs
    <3> QED
      BY <3>6, <3>7
  <2> QED
    BY <2>1, <2>2
<1>5. PICK z \in 0..IdLen : front = 1..z
  BY <1>4
<1>6. Cardinality(front) = z
  <2>1. Cardinality(1..z) = IF 1 > z THEN 0 ELSE z - 1 + 1
    BY IdLenIs, FS_Interval
  <2>2. (IF 1 > z THEN 0 ELSE z - 1 + 1) = z
    BY IdLenIs
  <2> QED
    BY <1>5, <2>1, <2>2
<1>7. \A i \in 1..z : s[i] = 0
  <2>1. \A i \in 1..z : i \in front /\ i \in 1..i
    BY <1>5, IdLenIs
  <2> QED
    BY <1>3, <2>1
<1>8. digits \subseteq 0..33 - z - 1
  <2>1. \A k \in 0..Most : ~IsZero(number[k]) => k \in 0..33 - z - 1
    BY <1>7, FewDivisions
  <2> HIDE DEF number
  <2> QED
    BY <1>2, <2>1
<1> HIDE DEF digits
<1>9. IsFiniteSet(0..33 - z - 1) /\ Cardinality(0..33 - z - 1) = 33 - z
  <2>1. 33 - z - 1 \in 0..32 /\ ~(0 > 33 - z - 1) /\ 33 - z - 1 - 0 + 1 = 33 - z
    BY IdLenIs
  <2>2. 0 \in Int /\ 33 - z - 1 \in Int
    BY <2>1
  <2>3. /\ IsFiniteSet(0..33 - z - 1)
        /\ Cardinality(0..33 - z - 1)
              = IF 0 > 33 - z - 1 THEN 0 ELSE 33 - z - 1 - 0 + 1
    BY <2>2, FS_Interval
  <2> QED
    BY <2>1, <2>3
<1>10. Cardinality(digits) \in Nat /\ Cardinality(digits) <= 33 - z
  <2>1. IsFiniteSet(digits) /\ Cardinality(digits) <= Cardinality(0..33 - z - 1)
    BY <1>8, <1>9, FS_Subset
  <2> QED
    BY <1>9, <2>1, FS_CardinalityType
<1>11. Base58Len(s) = z + Cardinality(digits)
  BY <1>1, <1>6 DEF front, digits
<1> QED
  BY <1>10, <1>11, IdLenIs

------------------------------------------------------------------------------
(* The screens *)

\* What the last screen shows is something the document can hold, as text for the
\* network of the document.
ShowsDocument ==
    /\ shown.what = "Amount" =>
          /\ shown.value \in Amounts
          /\ shown.text = printAmount64(shown.value, network_id)
    /\ shown.what = "Address" =>
          shown.text = printAddress(shown.value, network_id)
    /\ shown.what = "NodeID" =>
          /\ shown.value \in NodeIds
          /\ shown.text = printNodeId(shown.value)

IInv == TypeOK /\ ShowsDocument

\* Every document and every screen keeps it: a new document clears the screen, and
\* a screen is made from a member of the set it is about (ReadNetwork, ShowAmount,
\* ShowAddress, ShowNodeId).
THEOREM InductiveInvariant == Spec => []IInv
<1>1. Init => IInv
  <2> SUFFICES ASSUME Init PROVE IInv
    OBVIOUS
  <2>1. netword_id = 0 /\ status = "header" /\ shown.what = "nothing"
    BY DEF Init, Blank
  <2> QED
    BY <2>1 DEF IInv, TypeOK, ShowsDocument
<1>2. IInv /\ [Next]_vars => IInv'
  <2> SUFFICES ASSUME IInv, [Next]_vars
               PROVE  IInv'
    OBVIOUS
  <2>1. CASE ReadNetwork
    <3>1. shown'.what = "nothing"
      BY <2>1 DEF ReadNetwork, Blank
    <3>2. /\ netword_id' \in NetworkIds
          /\ status' = IF NetworkOf(netword_id') = "unknown"
                       THEN "parser_unexpected_network" ELSE "ok"
      BY <2>1 DEF ReadNetwork
    <3> QED
      BY <3>1, <3>2 DEF IInv, TypeOK, ShowsDocument, network_id
  <2>2. CASE ShowAmount
    <3>1. PICK a \in Amounts :
             shown' = [what |-> "Amount", value |-> a,
                       text |-> printAmount64(a, network_id)]
      BY <2>2 DEF ShowAmount
    <3>2. /\ shown'.what = "Amount" /\ shown'.value = a
          /\ shown'.text = printAmount64(a, network_id)
      BY <3>1
    <3>3. status = "ok" /\ netword_id' = netword_id /\ status' = status
      BY <2>2 DEF ShowAmount
    <3> QED
      BY <3>2, <3>3 DEF IInv, TypeOK, ShowsDocument, network_id
  <2>3. CASE ShowAddress
    <3>1. PICK k \in PubKeys :
             shown' = [what |-> "Address", value |-> k,
                       text |-> printAddress(k, network_id)]
      BY <2>3 DEF ShowAddress
    <3>2. /\ shown'.what = "Address" /\ shown'.value = k
          /\ shown'.text = printAddress(k, network_id)
      BY <3>1
    <3>3. status = "ok" /\ netword_id' = netword_id /\ status' = status
      BY <2>3 DEF ShowAddress
    <3> QED
      BY <3>2, <3>3 DEF IInv, TypeOK, ShowsDocument, network_id
  <2>4. CASE ShowNodeId
    <3>1. PICK bytes \in NodeIds :
             shown' = [what |-> "NodeID", value |-> bytes, text |-> printNodeId(bytes)]
      BY <2>4 DEF ShowNodeId
    <3>2. /\ shown'.what = "NodeID" /\ shown'.value = bytes
          /\ shown'.text = printNodeId(bytes)
      BY <3>1
    <3>3. status = "ok" /\ netword_id' = netword_id /\ status' = status
      BY <2>4 DEF ShowNodeId
    <3> QED
      BY <3>2, <3>3 DEF IInv, TypeOK, ShowsDocument, network_id
  <2>5. CASE UNCHANGED vars
    BY <2>5 DEF vars, IInv, TypeOK, ShowsDocument, network_id
  <2> QED
    BY <2>1, <2>2, <2>3, <2>4, <2>5 DEF Next
<1> QED
  BY <1>1, <1>2, PTL DEF Spec

\* A document of an unknown network never gets to a screen, and every variable has
\* a value of its type (ReadNetwork).
THEOREM TypeCorrect == Spec => []TypeOK
<1>1. IInv => TypeOK
  BY DEF IInv
<1> QED
  BY <1>1, InductiveInvariant, PTL

\* On a screen the document has a network the app knows.
LEMMA KnownNetwork ==
  ASSUME IInv, shown.what # "nothing"
  PROVE  network_id \in Known /\ NetworkOf(netword_id) # "unknown"
  BY DEF IInv, TypeOK, network_id, NetworkOf, Known

\* Whatever the digits of the uint64_t, the number on the screen has every one of
\* them: the zeros put in front, the point, and the zeros cut off at the end change
\* no amount (printAmount64, remove_fraction).
THEOREM AmountsAreExact == Spec => []AmountIsExact
<1>1. IInv => AmountIsExact
  <2> SUFFICES ASSUME IInv, shown.what = "Amount" PROVE AmountIsExact
    BY DEF AmountIsExact
  <2>1. /\ network_id \in Known /\ shown.value \in Amounts
        /\ shown.text = printAmount64(shown.value, network_id)
    BY KnownNetwork DEF IInv, ShowsDocument
  <2> QED
    BY <2>1, TextIsAmount DEF AmountIsExact
<1> QED
  BY <1>1, InductiveInvariant, PTL

\* And it is in lowest form, with its symbol behind it: the longest number and the
\* longest symbol fit in strAmount together (printAmount64, z_str3join).
THEOREM AmountsAreReadable == Spec => []AmountIsReadable
<1>1. IInv => AmountIsReadable
  <2> SUFFICES ASSUME IInv, shown.what = "Amount" PROVE AmountIsReadable
    BY DEF AmountIsReadable
  <2>1. /\ network_id \in Known /\ shown.value \in Amounts
        /\ shown.text = printAmount64(shown.value, network_id)
    BY KnownNetwork DEF IInv, ShowsDocument
  <2> QED
    BY <2>1, TextIsAmount DEF AmountIsReadable
<1> QED
  BY <1>1, InductiveInvariant, PTL

\* The same amount or address of a document of another network would have been
\* another text, whatever the amount and the key (parser_get_network_id and the
\* symbols and prefixes chosen by it).
THEOREM NetworksAreVisible == Spec => []NetworkIsVisible
<1>1. IInv => NetworkIsVisible
  <2> SUFFICES ASSUME IInv,
                      NEW id \in NetworkIds \ {netword_id},
                      NetworkOf(id) # "unknown"
               PROVE  /\ shown.what = "Amount" =>
                            printAmount64(shown.value, NetworkOf(id)) # shown.text
                      /\ shown.what = "Address" =>
                            printAddress(shown.value, NetworkOf(id)) # shown.text
    BY DEF NetworkIsVisible
  <2>1. shown.what # "nothing" =>
           /\ network_id \in Known /\ NetworkOf(id) \in Known
           /\ NetworkOf(id) # network_id
    <3> HAVE shown.what # "nothing"
    <3>1. NetworkOf(netword_id) # "unknown" /\ id # netword_id
      BY KnownNetwork
    <3> QED
      BY <3>1, NetworksDiffer DEF network_id
  <2>2. shown.what = "Amount" =>
           printAmount64(shown.value, NetworkOf(id)) # shown.text
    <3> HAVE shown.what = "Amount"
    <3>1. /\ shown.value \in Amounts
          /\ shown.text = printAmount64(shown.value, network_id)
      BY DEF IInv, ShowsDocument
    <3>2. network_id \in Known /\ NetworkOf(id) \in Known /\ NetworkOf(id) # network_id
      BY <2>1
    <3> QED
      BY <3>1, <3>2, AmountsTellNetwork
  <2>3. shown.what = "Address" =>
           printAddress(shown.value, NetworkOf(id)) # shown.text
    <3> HAVE shown.what = "Address"
    <3>1. shown.text = printAddress(shown.value, network_id)
      BY DEF IInv, ShowsDocument
    <3>2. network_id \in Known /\ NetworkOf(id) \in Known /\ NetworkOf(id) # network_id
      BY <2>1
    <3> QED
      BY <3>1, <3>2, AddressesTellNetwork
  <2> QED
    BY <2>2, <2>3
<1> QED
  BY <1>1, InductiveInvariant, PTL

\* No digest makes a node id too long for node_id: with its checksum it is a number
\* of 24 bytes, which has at most 33 digits of base 58, and a zero byte in front
\* costs one character where it saves more than one (printNodeId, NODE_ID_MAX_SIZE).
THEOREM NodeIdsFit == Spec => []NodeIdFits
<1>1. IInv => NodeIdFits
  <2> SUFFICES ASSUME IInv, shown.what = "NodeID" PROVE NodeIdFits
    BY DEF NodeIdFits
  <2>1. shown.value \in NodeIds /\ shown.text = printNodeId(shown.value)
    BY DEF IInv, ShowsDocument
  <2>2. shown.value \in Bytes
    BY <2>1, NodeIdsAssumption DEF Bytes, IdLen
  <2>3. Base58Len(shown.value) \in 0..33
    BY <2>2, NodeIdLength
  <2>4. shown.text = 7 + Base58Len(shown.value)
    BY <2>1, <2>3 DEF printNodeId, outlen, NODE_ID_MAX_SIZE, PREFIX_LEN
  <2> QED
    BY <2>3, <2>4 DEF NodeIdFits, NODE_ID_MAX_SIZE
<1> QED
  BY <1>1, InductiveInvariant, PTL
==============================================================================

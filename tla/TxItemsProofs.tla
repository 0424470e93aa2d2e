----------------------------- MODULE TxItemsProofs -----------------------------
(***************************************************************************)
(* Proofs about TxItems, for transactions with any outputs: the screens    *)
(* show what the document says.  The index arithmetic of getNumItems, of   *)
(* the walk over the outputs and of the printers is compared with Items,   *)
(* which is written without an index.                                      *)
(***************************************************************************)
EXTENDS TxItems, SequenceTheorems, WellFoundedInduction, TLAPS

------------------------------------------------------------------------------
(* Sums and concatenations over sequences of any length.  Each fact is proved  *)
(* by induction on a set of numbers: the lengths up to which it holds.         *)

\* A set of numbers with 0 and with the successor of each of its members is Nat.
LEMMA Induction ==
  ASSUME NEW T \in SUBSET Nat, 0 \in T, \A n \in T : n + 1 \in T
  PROVE  T = Nat
<1>1. SUFFICES ASSUME Nat \ T # {} PROVE FALSE
  OBVIOUS
<1> DEFINE R == OpToRel(<, Nat)
           U == Nat \ T
<1>2. \A y, x \in Nat : y < x => <<y, x>> \in R
  BY DEF OpToRel
<1>3. IsWellFoundedOn(R, Nat) /\ U \subseteq Nat /\ U # {}
  BY <1>1, NatLessThanWellFounded
<1> HIDE DEF R
<1>4. PICK x \in U : \A y \in U : ~(<<y, x>> \in R)
  <2> HIDE DEF U
  <2> QED
    BY <1>3, WFMin
<1>5. x \in Nat /\ x # 0
  BY <1>4
<1>6. x - 1 \in Nat /\ x - 1 < x /\ (x - 1) + 1 = x
  BY <1>5
<1>7. x - 1 \in T
  BY <1>2, <1>4, <1>5, <1>6
<1> QED
  BY <1>4, <1>6, <1>7

\* Induction up to a bound.
LEMMA BoundedInduction ==
  ASSUME NEW n \in Nat, NEW T \in SUBSET (0..n), 0 \in T,
         \A k \in T : k < n => k + 1 \in T
  PROVE  T = 0..n
<1> DEFINE U == {k \in Nat : k <= n => k \in T}
<1>1. 0 \in U /\ U \in SUBSET Nat
  OBVIOUS
<1>2. \A k \in U : k + 1 \in U
  OBVIOUS
<1>3. U = Nat
  <2> HIDE DEF U
  <2> QED
    BY <1>1, <1>2, Induction
<1>4. \A k \in 0..n : k \in T
  BY <1>3
<1> QED
  BY <1>4

------------------------------------------------------------------------------
(* Running totals *)

\* The recursive definition of Totals defines what it says.
LEMMA TotalsDefined ==
  ASSUME NEW n \in Nat, NEW w \in [1..n -> Nat]
  PROVE  /\ Totals(w, n) \in [0..n -> Nat]
         /\ Totals(w, n)[0] = 0
         /\ \A k \in 1..n : Totals(w, n)[k] = Totals(w, n)[k - 1] + w[k]
<1> DEFINE SumUpTo(f, m) == /\ f \in [0..m -> Nat]
                            /\ f[0] = 0
                            /\ \A k \in 1..m : f[k] = f[k - 1] + w[k]
           T == {m \in 0..n : \E f : SumUpTo(f, m)}
<1>1. 0 \in T
  <2>1. SumUpTo([k \in 0..0 |-> 0], 0)
    OBVIOUS
  <2> HIDE DEF SumUpTo
  <2> QED
    BY <2>1
<1>2. ASSUME NEW m \in T, m < n
      PROVE  m + 1 \in T
  <2>1. PICK f : SumUpTo(f, m)
    OBVIOUS
  <2>2. m \in Nat /\ m + 1 \in 1..n /\ w[m + 1] \in Nat
    BY <1>2
  <2> DEFINE g == [k \in 0..m + 1 |-> IF k = m + 1 THEN f[m] + w[m + 1] ELSE f[k]]
  <2>3. g \in [0..m + 1 -> Nat]
    BY <2>1, <2>2
  <2>4. g[0] = 0
    BY <2>1, <2>2
  <2>5. ASSUME NEW k \in 1..m + 1
        PROVE  g[k] = g[k - 1] + w[k]
    <3>1. CASE k = m + 1
      BY <2>1, <2>2, <3>1
    <3>2. CASE k # m + 1
      <4>1. k \in 1..m /\ k - 1 \in 0..m
        BY <2>2, <3>2
      <4> QED
        BY <2>1, <2>2, <4>1
    <3> QED
      BY <3>1, <3>2
  <2>6. SumUpTo(g, m + 1)
    BY <2>3, <2>4, <2>5
  <2> HIDE DEF SumUpTo, g
  <2> QED
    BY <2>2, <2>6
<1>3. T = 0..n
  <2>1. T \in SUBSET (0..n)
    OBVIOUS
  <2> HIDE DEF T
  <2> QED
    BY <1>1, <1>2, <2>1, BoundedInduction
<1>4. PICK f : SumUpTo(f, n)
  <2>1. n \in T
    <3> HIDE DEF T
    <3> QED
      BY <1>3
  <2> QED
    BY <2>1
<1> DEFINE Body(s) == [k \in 0..n |-> IF k = 0 THEN 0 ELSE s[k - 1] + w[k]]
<1>5. f = Body(f)
  <2>1. \A k \in 0..n : f[k] = Body(f)[k]
    BY <1>4
  <2> QED
    BY <1>4, <2>1
<1>6. Totals(w, n) = CHOOSE s : s = Body(s)
  BY DEF Totals
<1> DEFINE t == Totals(w, n)
<1>7. t = Body(t)
  BY <1>5, <1>6
<1> HIDE DEF t
<1>8. t[0] = 0 /\ \A k \in 1..n : t[k] = t[k - 1] + w[k]
  BY <1>7
<1> DEFINE V == {m \in 0..n : t[m] \in Nat}
<1>9. V = 0..n
  <2>1. V \in SUBSET (0..n) /\ 0 \in V
    BY <1>8
  <2>2. ASSUME NEW m \in V, m < n
        PROVE  m + 1 \in V
    BY <1>8, <2>2
  <2> HIDE DEF V
  <2> QED
    BY <2>1, <2>2, BoundedInduction
<1>10. t \in [0..n -> Nat]
  BY <1>7, <1>9
<1> QED
  BY <1>8, <1>10 DEF t

\* Totals never decrease.
LEMMA TotalsGrow ==
  ASSUME NEW n \in Nat, NEW w \in [1..n -> Nat],
         NEW j \in 0..n, NEW k \in j..n
  PROVE  Totals(w, n)[j] <= Totals(w, n)[k]
<1> DEFINE t == Totals(w, n)
           V == {m \in 0..n : m >= j => t[j] <= t[m]}
<1>1. t \in [0..n -> Nat] /\ \A m \in 1..n : t[m] = t[m - 1] + w[m]
  BY TotalsDefined
<1> HIDE DEF t
<1>2. V \in SUBSET (0..n) /\ 0 \in V
  BY <1>1
<1>3. ASSUME NEW m \in V, m < n
      PROVE  m + 1 \in V
  BY <1>1, <1>3
<1>4. V = 0..n
  <2> HIDE DEF V
  <2> QED
    BY <1>2, <1>3, BoundedInduction
<1>5. k \in V /\ k >= j
  BY <1>4
<1> QED
  BY <1>5 DEF t

\* Every position up to the last total lies in one of the parts summed up.
LEMMA TotalsCover ==
  ASSUME NEW n \in Nat, NEW w \in [1..n -> Nat],
         NEW i \in 1..Totals(w, n)[n]
  PROVE  \E k \in 1..n : \E j \in 1..w[k] : i = Totals(w, n)[k - 1] + j
<1> DEFINE t == Totals(w, n)
           V == {m \in 0..n : i <= t[m] =>
                    \E k \in 1..n : \E j \in 1..w[k] : i = t[k - 1] + j}
<1>1. /\ t \in [0..n -> Nat] /\ t[0] = 0
      /\ \A m \in 1..n : t[m] = t[m - 1] + w[m]
  BY TotalsDefined
<1>2. i \in Nat /\ i >= 1 /\ i <= t[n]
  BY <1>1
<1> HIDE DEF t
<1>3. V \in SUBSET (0..n) /\ 0 \in V
  BY <1>1, <1>2
<1>4. ASSUME NEW m \in V, m < n
      PROVE  m + 1 \in V
  <2>1. m + 1 \in 1..n /\ t[m + 1] = t[m] + w[m + 1] /\ t[m] \in Nat /\ w[m + 1] \in Nat
        /\ (m + 1) - 1 = m
    BY <1>1, <1>4
  <2>2. CASE i <= t[m]
    BY <2>1, <2>2
  <2>3. CASE i > t[m] /\ i <= t[m + 1]
    <3>1. i - t[m] \in 1..w[m + 1] /\ i = t[(m + 1) - 1] + (i - t[m])
      BY <1>2, <2>1, <2>3
    <3> QED
      BY <2>1, <3>1
  <2>4. CASE ~(i <= t[m + 1])
    BY <2>1, <2>4
  <2> QED
    BY <1>2, <2>1, <2>2, <2>3, <2>4
<1>5. V = 0..n
  <2> HIDE DEF V
  <2> QED
    BY <1>3, <1>4, BoundedInduction
<1> QED
  BY <1>2, <1>5 DEF t

\* Counting one more for each number: an output has one item more than it has
\* addresses.
LEMMA OneMoreEach ==
  ASSUME NEW n \in Nat, NEW w \in [1..n -> Nat]
  PROVE  LET more == [k \in 1..n |-> 1 + w[k]]
         IN  /\ more \in [1..n -> Nat]
             /\ \A m \in 0..n : Totals(more, n)[m] = Totals(w, n)[m] + m
<1> DEFINE more == [k \in 1..n |-> 1 + w[k]]
           c == Totals(more, n)
           a == Totals(w, n)
           V == {m \in 0..n : c[m] = a[m] + m}
<1>1. more \in [1..n -> Nat] /\ \A k \in 1..n : more[k] = 1 + w[k]
  OBVIOUS
<1> HIDE DEF more
<1>2. a \in [0..n -> Nat] /\ a[0] = 0 /\ \A k \in 1..n : a[k] = a[k - 1] + w[k]
  BY TotalsDefined
<1>3. c \in [0..n -> Nat] /\ c[0] = 0 /\ \A k \in 1..n : c[k] = c[k - 1] + more[k]
  BY <1>1, TotalsDefined
<1> HIDE DEF c, a
<1>4. V \in SUBSET (0..n) /\ 0 \in V
  BY <1>2, <1>3
<1>5. ASSUME NEW m \in V, m < n
      PROVE  m + 1 \in V
  <2>1. m \in 0..n /\ m + 1 \in 1..n /\ (m + 1) - 1 = m /\ c[m] = a[m] + m
    BY <1>5
  <2>2. c[m + 1] = (a[m] + m) + (1 + w[m + 1]) /\ a[m + 1] = a[m] + w[m + 1]
    BY <1>1, <1>2, <1>3, <2>1
  <2>3. a[m] \in Nat /\ w[m + 1] \in Nat /\ m \in Nat
    BY <1>2, <2>1
  <2>4. c[m + 1] = a[m + 1] + (m + 1)
    <3>1. \A x, y, z \in Nat : (x + y) + (1 + z) = (x + z) + (y + 1)
      OBVIOUS
    <3>2. (a[m] + m) + (1 + w[m + 1]) = (a[m] + w[m + 1]) + (m + 1)
      BY <2>3, <3>1
    <3> QED
      BY ONLY <2>2, <3>2
  <2> QED
    BY <2>1, <2>4
<1>6. V = 0..n
  <2> HIDE DEF V
  <2> QED
    BY <1>4, <1>5, BoundedInduction
<1>7. \A m \in 0..n : c[m] = a[m] + m
  BY <1>6
<1> QED
  BY <1>1, <1>7 DEF more, c, a

\* Of parts of 1 + w[k] items each, those that have the item at inner, or that it
\* is before.
Reached(w, n, inner) ==
    {m \in 1..n : inner - Totals([p \in 1..n |-> 1 + w[p]], n)[m - 1] <= w[m]}

\* A walk over the parts stops at the one that has the item: those before it end
\* where it starts, or earlier.
LEMMA FirstReached ==
  ASSUME NEW n \in Nat, NEW w \in [1..n -> Nat],
         NEW k \in 1..n, NEW j \in 0..w[k]
  PROVE  LET inner == Totals([p \in 1..n |-> 1 + w[p]], n)[k - 1] + j
         IN  k \in Reached(w, n, inner) /\ Min(Reached(w, n, inner)) = k
<1> DEFINE more == [p \in 1..n |-> 1 + w[p]]
           c == Totals(more, n)
           inner == c[k - 1] + j
           hits == {m \in 1..n : inner - c[m - 1] <= w[m]}
<1>1. more \in [1..n -> Nat] /\ \A m \in 1..n : more[m] = 1 + w[m]
  OBVIOUS
<1> HIDE DEF more
<1>2. /\ c \in [0..n -> Nat]
      /\ \A m \in 1..n : c[m] = c[m - 1] + more[m]
  BY <1>1, TotalsDefined
<1>3. \A m \in 1..n : m < k => c[m] <= c[k - 1]
  <2>1. \A m \in 1..n : m < k => m \in 0..n /\ k - 1 \in m..n
    OBVIOUS
  <2> QED
    BY <1>1, <2>1, TotalsGrow
<1> HIDE DEF c
<1>4. k - 1 \in 0..n /\ c[k - 1] \in Nat /\ w[k] \in Nat /\ j \in Nat /\ j <= w[k]
  <2>1. k - 1 \in 0..n /\ w[k] \in Nat
    OBVIOUS
  <2> QED
    BY <1>2, <2>1
<1>5. k \in hits
  <2>1. \A p, q \in Nat : (p + q) - p = q
    OBVIOUS
  <2>2. inner - c[k - 1] = j
    BY <1>4, <2>1
  <2>3. k \in 1..n
    OBVIOUS
  <2> QED
    BY ONLY <1>4, <2>2, <2>3
<1>6. ASSUME NEW m \in hits
      PROVE  k <= m
  <2>1. m \in 1..n /\ inner - c[m - 1] <= w[m]
    OBVIOUS
  <2>2. m - 1 \in 0..n /\ c[m - 1] \in Nat /\ w[m] \in Nat
    <3>1. m - 1 \in 0..n /\ w[m] \in Nat
      BY <2>1
    <3> QED
      BY <1>2, <3>1
  <2>3. SUFFICES ASSUME m < k
                 PROVE  FALSE
    BY <2>1
  <2>4. c[m - 1] + (1 + w[m]) <= c[k - 1]
    <3>1. c[m] = c[m - 1] + (1 + w[m]) /\ c[m] <= c[k - 1]
      BY <1>1, <1>2, <1>3, <2>1, <2>3
    <3> QED
      BY ONLY <3>1
  <2>5. \A p, q, r, x \in Nat : p + (1 + q) <= r => ~((r + x) - p <= q)
    OBVIOUS
  <2> HIDE DEF inner, hits
  <2>6. inner = c[k - 1] + j
    BY DEF inner
  <2> QED
    BY ONLY <1>4, <2>1, <2>2, <2>4, <2>5, <2>6
<1>7. Min(hits) = k
  <2>1. \A m \in hits : m \in Nat
    OBVIOUS
  <2> HIDE DEF hits
  <2>2. \A m \in hits : (\A y \in hits : m <= y) => m = k
    BY <1>5, <1>6, <2>1
  <2> QED
    BY <1>5, <1>6, <2>2 DEF Min
<1> QED
  BY <1>5, <1>7 DEF more, c, Reached
------------------------------------------------------------------------------
(* Concatenations *)

\* A function on 1..n is a sequence of length n.
LEMMA FunctionIsSeq ==
  ASSUME NEW n \in Nat, NEW S, NEW f \in [1..n -> S]
  PROVE  f \in Seq(S) /\ Len(f) = n
OBVIOUS

\* One element before a sequence, or behind it.
LEMMA OneBefore ==
  ASSUME NEW S, NEW s \in Seq(S), NEW x \in S
  PROVE  /\ <<x>> \o s \in Seq(S) /\ Len(<<x>> \o s) = 1 + Len(s)
         /\ (<<x>> \o s)[1] = x
         /\ \A i \in 1..Len(s) : (<<x>> \o s)[1 + i] = s[i]
<1> DEFINE a == <<x>>
<1>1. a \in Seq(S) /\ Len(a) = 1 /\ a[1] = x /\ Len(s) \in Nat
  BY LenProperties
<1> HIDE DEF a
<1>2. /\ a \o s \in Seq(S) /\ Len(a \o s) = Len(a) + Len(s)
      /\ \A i \in 1..Len(a) + Len(s) :
            (a \o s)[i] = IF i <= Len(a) THEN a[i] ELSE s[i - Len(a)]
  BY <1>1, ConcatProperties
<1>3. /\ a \o s \in Seq(S) /\ Len(a \o s) = 1 + Len(s)
      /\ \A i \in 1..1 + Len(s) : (a \o s)[i] = IF i <= 1 THEN a[i] ELSE s[i - 1]
  BY ONLY <1>1, <1>2
<1>4. \A m \in Nat : /\ 1 \in 1..1 + m
                     /\ \A i \in 1..m : 1 + i \in 1..1 + m /\ ~(1 + i <= 1) /\ (1 + i) - 1 = i
  OBVIOUS
<1>5. /\ 1 \in 1..1 + Len(s)
      /\ \A i \in 1..Len(s) :
            1 + i \in 1..1 + Len(s) /\ ~(1 + i <= 1) /\ (1 + i) - 1 = i
  BY ONLY <1>1, <1>4
<1>6. (a \o s)[1] = x /\ \A i \in 1..Len(s) : (a \o s)[1 + i] = s[i]
  BY <1>1, <1>3, <1>5
<1> QED
  BY <1>3, <1>6 DEF a

LEMMA OneBehind ==
  ASSUME NEW S, NEW s \in Seq(S), NEW x \in S
  PROVE  /\ s \o <<x>> \in Seq(S) /\ Len(s \o <<x>>) = Len(s) + 1
         /\ \A i \in 1..Len(s) : (s \o <<x>>)[i] = s[i]
         /\ (s \o <<x>>)[Len(s) + 1] = x
<1> DEFINE a == <<x>>
           n == Len(s)
<1>1. a \in Seq(S) /\ Len(a) = 1 /\ a[1] = x /\ n \in Nat
  BY LenProperties
<1> HIDE DEF a
<1>2. /\ s \o a \in Seq(S) /\ Len(s \o a) = n + Len(a)
      /\ \A i \in 1..n + Len(a) :
            (s \o a)[i] = IF i <= n THEN s[i] ELSE a[i - n]
  BY <1>1, ConcatProperties
<1> HIDE DEF n
<1>3. /\ s \o a \in Seq(S) /\ Len(s \o a) = n + 1
      /\ \A i \in 1..n + 1 : (s \o a)[i] = IF i <= n THEN s[i] ELSE a[i - n]
  BY ONLY <1>1, <1>2
<1>4. /\ n + 1 \in 1..n + 1 /\ ~(n + 1 <= n) /\ (n + 1) - n = 1
      /\ \A i \in 1..n : i \in 1..n + 1 /\ i <= n
  BY <1>1
<1>5. (s \o a)[n + 1] = x /\ \A i \in 1..n : (s \o a)[i] = s[i]
  BY <1>1, <1>3, <1>4
<1> QED
  BY <1>3, <1>5 DEF a, n

\* A sequence a that holds the first m parts, each behind those before it.
Holds(a, parts, t, m) ==
    /\ Len(a) = t[m]
    /\ \A k \in 1..m : \A j \in 1..Len(parts[k]) : a[t[k - 1] + j] = parts[k][j]

\* One more part appended.
LEMMA AppendPart ==
  ASSUME NEW n \in Nat, NEW S, NEW parts \in [1..n -> Seq(S)],
         NEW lens \in [1..n -> Nat], \A k \in 1..n : lens[k] = Len(parts[k]),
         NEW m \in 1..n, m + 1 \in 1..n,
         NEW a \in Seq(S), Holds(a, parts, Totals(lens, n), m)
  PROVE  /\ a \o parts[m + 1] \in Seq(S)
         /\ Holds(a \o parts[m + 1], parts, Totals(lens, n), m + 1)
<1> DEFINE t == Totals(lens, n)
           b == parts[m + 1]
           c == a \o b
<1>1. lens \in [1..n -> Nat] /\ \A k \in 1..n : lens[k] = Len(parts[k])
  OBVIOUS
<1>2. /\ t \in [0..n -> Nat]
      /\ \A k \in 1..n : t[k] = t[k - 1] + Len(parts[k])
      /\ \A k \in 1..m : t[k] <= t[m]
  <2>1. ASSUME NEW k \in 1..m PROVE t[k] <= t[m]
    <3>1. k \in 0..n /\ m \in k..n
      OBVIOUS
    <3> QED
      BY <1>1, <3>1, TotalsGrow
  <2> QED
    BY <1>1, <2>1, TotalsDefined
<1>3. /\ Len(a) = t[m]
      /\ \A k \in 1..m : \A j \in 1..Len(parts[k]) : a[t[k - 1] + j] = parts[k][j]
  BY DEF Holds
<1> HIDE DEF t
<1>4. b \in Seq(S) /\ t[m] \in Nat /\ Len(b) \in Nat /\ t[m + 1] = t[m] + Len(b)
      /\ (m + 1) - 1 = m /\ m \in Nat
  BY <1>2
<1> HIDE DEF b
<1>5. /\ c \in Seq(S) /\ Len(c) = Len(a) + Len(b)
      /\ \A i \in 1..Len(a) + Len(b) : c[i] = IF i <= Len(a) THEN a[i] ELSE b[i - Len(a)]
  BY <1>4, ConcatProperties
<1> HIDE DEF c
<1>6. Len(c) = t[m + 1]
  BY <1>3, <1>4, <1>5
<1>7. ASSUME NEW j \in 1..Len(b)
      PROVE  c[t[m] + j] = b[j]
  <2>1. \A p, q \in Nat : \A x \in 1..q :
           p + x \in 1..p + q /\ ~(p + x <= p) /\ (p + x) - p = x
    OBVIOUS
  <2>2. /\ t[m] + j \in 1..t[m] + Len(b) /\ ~(t[m] + j <= t[m])
        /\ (t[m] + j) - t[m] = j
    BY <1>4, <2>1
  <2>3. Len(a) = t[m]
    BY <1>3
  <2>4. /\ t[m] + j \in 1..Len(a) + Len(b) /\ ~(t[m] + j <= Len(a))
        /\ (t[m] + j) - Len(a) = j
    BY ONLY <2>2, <2>3
  <2> QED
    BY <1>5, <2>4
<1>8. ASSUME NEW k \in 1..m, NEW j \in 1..Len(parts[k])
      PROVE  c[t[k - 1] + j] = parts[k][j]
  <2>1. k \in 1..n /\ k - 1 \in 0..n /\ Len(parts[k]) \in Nat /\ m \in 0..n
    BY <1>4
  <2>2. t[k] = t[k - 1] + Len(parts[k]) /\ t[k] <= t[m] /\ t[k - 1] \in Nat
    BY <1>2, <2>1
  <2> DEFINE i == t[k - 1] + j
  <2>3. i \in Nat /\ 1 <= i /\ i <= t[m]
    <3>1. \A p, q, r \in Nat : \A x \in 1..q :
             p + q <= r => p + x \in Nat /\ 1 <= p + x /\ p + x <= r
      OBVIOUS
    <3>2. t[k - 1] + Len(parts[k]) <= t[m]
      BY <2>2
    <3> QED
      BY <1>4, <2>1, <2>2, <3>1, <3>2
  <2> HIDE DEF i
  <2>4. i \in 1..t[m] + Len(b)
    BY <1>4, <2>3
  <2>5. Len(a) = t[m]
    BY <1>3
  <2>6. c[i] = a[i]
    BY <1>5, <2>3, <2>4, <2>5
  <2> QED
    BY <1>3, <2>6 DEF i
<1>9. ASSUME NEW k \in 1..m + 1, NEW j \in 1..Len(parts[k])
      PROVE  c[t[k - 1] + j] = parts[k][j]
  <2>1. CASE k = m + 1
    BY <1>4, <1>7, <2>1 DEF b
  <2>2. CASE k # m + 1
    <3>1. k \in 1..m
      BY <1>4, <2>2
    <3> QED
      BY <1>8, <3>1
  <2> QED
    BY <2>1, <2>2
<1> QED
  BY <1>5, <1>6, <1>9 DEF Holds, b, c, t

\* n sequences over S and their lengths.
PartsOf(parts, lens, n, S) ==
    /\ n \in Nat
    /\ parts \in [1..n -> Seq(S)]
    /\ lens \in [1..n -> Nat]
    /\ \A k \in 1..n : lens[k] = Len(parts[k])

\* FlattenSeq puts the j-th element of part k behind the parts before it.
LEMMA FlattenProperties ==
  ASSUME NEW n, NEW S, NEW parts, NEW lens, PartsOf(parts, lens, n, S)
  PROVE  /\ FlattenSeq(parts) \in Seq(S)
         /\ Len(FlattenSeq(parts)) = Totals(lens, n)[n]
         /\ \A k \in 1..n : \A j \in 1..Len(parts[k]) :
               FlattenSeq(parts)[Totals(lens, n)[k - 1] + j] = parts[k][j]
<1> n \in Nat /\ parts \in [1..n -> Seq(S)] /\ lens \in [1..n -> Nat]
    /\ \A k \in 1..n : lens[k] = Len(parts[k])
  BY DEF PartsOf
<1> DEFINE t == Totals(lens, n)
<1>1. Len(parts) = n /\ lens \in [1..n -> Nat]
      /\ \A k \in 1..n : lens[k] = Len(parts[k]) /\ parts[k] \in Seq(S)
  BY FunctionIsSeq
<1>2. /\ t \in [0..n -> Nat] /\ t[0] = 0
      /\ \A k \in 1..n : t[k] = t[k - 1] + lens[k]
  BY <1>1, TotalsDefined
<1> HIDE DEF t
<1>3. CASE n = 0
  <2>1. FlattenSeq(parts) = parts
    BY <1>1, <1>3 DEF FlattenSeq
  <2>2. parts \in Seq(S) /\ Len(parts) = 0
    BY <1>1, <1>3
  <2> QED
    BY <1>2, <1>3, <2>1, <2>2 DEF t
<1>4. CASE n # 0
  <2> DEFINE Flat(f, m) == /\ f \in [1..m -> Seq(S)]
                           /\ f[1] = parts[1]
                           /\ \A k \in 2..m : f[k] = f[k - 1] \o parts[k]
             T == {m \in 0..n - 1 : \E f : Flat(f, m + 1)}
  <2>1. 0 \in T
    <3>1. Flat([k \in 1..1 |-> parts[1]], 0 + 1)
      BY <1>1, <1>4
    <3> HIDE DEF Flat
    <3> QED
      BY <1>4, <3>1
  <2>2. ASSUME NEW m \in T, m < n - 1
        PROVE  m + 1 \in T
    <3>1. PICK f : Flat(f, m + 1)
      OBVIOUS
    <3>2. m \in Nat /\ m + 2 \in 1..n /\ parts[m + 2] \in Seq(S) /\ (m + 1) + 1 = m + 2
      BY <1>1, <2>2
    <3> DEFINE g == [k \in 1..m + 2 |->
                       IF k = m + 2 THEN f[m + 1] \o parts[m + 2] ELSE f[k]]
    <3>3. f[m + 1] \in Seq(S) /\ f[m + 1] \o parts[m + 2] \in Seq(S)
      BY <3>1, <3>2
    <3>4. g \in [1..m + 2 -> Seq(S)]
      BY <3>1, <3>2, <3>3
    <3>5. /\ g[m + 2] = f[m + 1] \o parts[m + 2]
          /\ \A k \in 1..m + 1 : g[k] = f[k]
          /\ g[1] = parts[1]
      <4>1. m + 2 \in 1..m + 2 /\ 1 \in 1..m + 1 /\ \A k \in 1..m + 1 : k # m + 2 /\ k \in 1..m + 2
        BY <3>2
      <4>2. f[1] = parts[1]
        BY <3>1
      <4> QED
        BY <4>1, <4>2
    <3>6. ASSUME NEW k \in 2..m + 2
          PROVE  g[k] = g[k - 1] \o parts[k]
      <4> HIDE DEF g
      <4>1. CASE k = m + 2
        <5>1. k - 1 = m + 1 /\ m + 1 \in 1..m + 1
          BY <3>2, <4>1
        <5>2. g[k - 1] = f[m + 1]
          BY <3>5, <5>1
        <5> QED
          BY <3>5, <4>1, <5>2
      <4>2. CASE k # m + 2
        <5>1. k \in 2..m + 1 /\ k - 1 \in 1..m + 1 /\ k \in 1..m + 1
          BY <3>2, <4>2
        <5>2. f[k] = f[k - 1] \o parts[k]
          BY <3>1, <5>1
        <5> QED
          BY <3>5, <5>1, <5>2
      <4> QED
        BY <4>1, <4>2
    <3>7. Flat(g, (m + 1) + 1)
      BY <3>2, <3>4, <3>5, <3>6
    <3> HIDE DEF Flat, g
    <3> QED
      BY <2>2, <3>2, <3>7
  <2>3. PICK f : Flat(f, n)
    <3>1. n - 1 \in Nat /\ (n - 1) + 1 = n /\ n - 1 \in 0..n - 1
      BY <1>4
    <3>a. T \in SUBSET (0..n - 1)
      <4> HIDE DEF Flat
      <4> QED
        OBVIOUS
    <3>2. n - 1 \in T
      <4> HIDE DEF T
      <4>1. T = 0..n - 1
        BY <2>1, <2>2, <3>1, <3>a, BoundedInduction
      <4> QED
        BY <3>1, <4>1
    <3> HIDE DEF Flat
    <3> QED
      BY <3>1, <3>2
  <2> DEFINE Body(s) == [k \in 1..Len(parts) |->
                           IF k = 1 THEN parts[k] ELSE s[k - 1] \o parts[k]]
             flatten == CHOOSE s : s = Body(s)
  <2>4. FlattenSeq(parts) = flatten[n]
    BY <1>1, <1>4 DEF FlattenSeq
  <2>5. f = Body(f)
    <3>1. \A k \in 1..n : f[k] = Body(f)[k]
      <4>1. TAKE k \in 1..n
      <4>2. k # 1 => k \in 2..n
        OBVIOUS
      <4> QED
        BY <1>1, <2>3, <4>2
    <3> QED
      BY <1>1, <2>3, <3>1
  <2>6. flatten = Body(flatten)
    BY <2>5
  <2> HIDE DEF flatten
  <2>7. flatten[1] = parts[1] /\ \A k \in 2..n : flatten[k] = flatten[k - 1] \o parts[k]
    <3>1. DOMAIN Body(flatten) = 1..n
      BY <1>1
    <3>2. \A k \in 1..n : flatten[k] = IF k = 1 THEN parts[k]
                                       ELSE flatten[k - 1] \o parts[k]
      BY <1>1, <2>6
    <3>3. 1 \in 1..n /\ \A k \in 2..n : k \in 1..n /\ k # 1
      BY <1>4
    <3> QED
      BY <3>2, <3>3
  <2> DEFINE Right(m) == flatten[m] \in Seq(S) /\ Holds(flatten[m], parts, t, m)
             V == {m \in 0..n - 1 : Right(m + 1)}
  <2>8. 0 \in V
    <3>1. 1 \in 1..n /\ t[1] = Len(parts[1]) /\ t[0] = 0 /\ parts[1] \in Seq(S)
      BY <1>1, <1>2, <1>4
    <3>2. \A k \in 1..1 : k - 1 = 0 /\ k = 1
      OBVIOUS
    <3>3. \A j \in 1..Len(parts[1]) : 0 + j = j
      BY <3>1
    <3>4. Right(1)
      BY <2>7, <3>1, <3>2, <3>3 DEF Holds
    <3> HIDE DEF Right
    <3> QED
      BY <1>4, <3>4
  <2>9. ASSUME NEW m \in V, m < n - 1
        PROVE  m + 1 \in V
    <3>1. m \in Nat /\ m + 1 \in 1..n /\ (m + 1) + 1 \in 1..n
          /\ (m + 1) + 1 \in 2..n /\ ((m + 1) + 1) - 1 = m + 1 /\ m + 1 \in 0..n - 1
      BY <2>9
    <3>2. Right(m + 1)
      BY <2>9
    <3>3. flatten[(m + 1) + 1] = flatten[m + 1] \o parts[(m + 1) + 1]
      BY <2>7, <3>1
    <3> DEFINE k == m + 1
    <3>4. /\ k \in 1..n /\ k + 1 \in 1..n
          /\ flatten[k] \in Seq(S) /\ Holds(flatten[k], parts, Totals(lens, n), k)
      BY <3>1, <3>2 DEF t
    <3> HIDE DEF k
    <3>5. /\ flatten[k] \o parts[k + 1] \in Seq(S)
          /\ Holds(flatten[k] \o parts[k + 1], parts, Totals(lens, n), k + 1)
      BY <3>4, AppendPart
    <3>6. Right((m + 1) + 1)
      BY <3>3, <3>5 DEF t, k
    <3> HIDE DEF Right
    <3> QED
      BY <3>1, <3>6
  <2>10. Right(n)
    <3>1. n - 1 \in Nat /\ (n - 1) + 1 = n /\ n - 1 \in 0..n - 1
      BY <1>4
    <3>2. n - 1 \in V
      <4>1. V \in SUBSET (0..n - 1)
        <5> HIDE DEF Right
        <5> QED
          OBVIOUS
      <4> HIDE DEF V
      <4>2. V = 0..n - 1
        BY <2>8, <2>9, <3>1, <4>1, BoundedInduction
      <4> QED
        BY <3>1, <4>2
    <3> HIDE DEF Right
    <3> QED
      BY <3>1, <3>2
  <2> QED
    BY <2>4, <2>10 DEF t, Holds
<1> QED
  BY <1>3, <1>4

------------------------------------------------------------------------------
(* The numbers of a transaction *)

NoOfAddrs(d) == [k \in 1..NOuts(d) |-> Len(d.outs[k].addrs)]
Amounts(d)   == [k \in 1..NOuts(d) |-> d.outs[k].amount]

\* The items of each output, and of the first k of them.
Sizes(d)  == [k \in 1..NOuts(d) |-> 1 + Len(d.outs[k].addrs)]
Counts(d) == Totals(Sizes(d), NOuts(d))

------------------------------------------------------------------------------
(* The outputs *)

LEMMA OutputTypes ==
  ASSUME NEW d, IsDocument(d)
  PROVE  /\ NOuts(d) \in Nat
         /\ NoOfAddrs(d) \in [1..NOuts(d) -> Nat]
         /\ Amounts(d) \in [1..NOuts(d) -> Nat]
         /\ Sizes(d) \in [1..NOuts(d) -> Nat]
         /\ \A k \in 1..NOuts(d) :
               /\ d.outs[k].amount \in Nat
               /\ d.outs[k].addrs \in Seq(Addrs) /\ Len(d.outs[k].addrs) \in Nat
<1> DEFINE Output == [amount: 0..UINT64_MAX, addrs: Seq(Addrs)]
<1>1. d.outs \in Seq(Output)
  BY DEF IsDocument
<1>2. NOuts(d) \in Nat /\ \A k \in 1..NOuts(d) : d.outs[k] \in Output
  BY <1>1, LenProperties, ElementOfSeq DEF NOuts
<1>3. \A o \in Output : o.amount \in Nat /\ o.addrs \in Seq(Addrs) /\ Len(o.addrs) \in Nat
  BY WidthsAssumption
<1> HIDE DEF Output
<1>4. \A k \in 1..NOuts(d) :
         /\ d.outs[k].amount \in Nat
         /\ d.outs[k].addrs \in Seq(Addrs) /\ Len(d.outs[k].addrs) \in Nat
  BY <1>2, <1>3
<1>5. \A k \in 1..NOuts(d) : 1 + Len(d.outs[k].addrs) \in Nat
  BY <1>4
<1>6. NoOfAddrs(d) \in [1..NOuts(d) -> Nat] /\ Amounts(d) \in [1..NOuts(d) -> Nat]
  BY <1>4 DEF NoOfAddrs, Amounts
<1>7. Sizes(d) \in [1..NOuts(d) -> Nat]
  BY <1>5 DEF Sizes
<1> QED
  BY <1>2, <1>4, <1>6, <1>7

LEMMA CountTypes ==
  ASSUME NEW d, IsDocument(d)
  PROVE  /\ OutSum(d) \in Nat /\ NAddrs(d) \in Nat
         /\ Counts(d) \in [0..NOuts(d) -> Nat] /\ Counts(d)[0] = 0
         /\ \A k \in 1..NOuts(d) :
               Counts(d)[k] = Counts(d)[k - 1] + 1 + Len(d.outs[k].addrs)
<1>1. NOuts(d) \in Nat /\ NOuts(d) \in 0..NOuts(d)
  BY OutputTypes
<1>2. OutSum(d) = Totals(Amounts(d), NOuts(d))[NOuts(d)]
      /\ NAddrs(d) = Totals(NoOfAddrs(d), NOuts(d))[NOuts(d)]
  BY DEF OutSum, NAddrs, Amounts, NoOfAddrs
<1>3. Totals(Amounts(d), NOuts(d)) \in [0..NOuts(d) -> Nat]
      /\ Totals(NoOfAddrs(d), NOuts(d)) \in [0..NOuts(d) -> Nat]
  BY OutputTypes, TotalsDefined
<1>4. /\ Counts(d) \in [0..NOuts(d) -> Nat] /\ Counts(d)[0] = 0
      /\ \A k \in 1..NOuts(d) : Counts(d)[k] = Counts(d)[k - 1] + Sizes(d)[k]
  BY OutputTypes, TotalsDefined DEF Counts
<1>5. ASSUME NEW k \in 1..NOuts(d)
      PROVE  Counts(d)[k] = Counts(d)[k - 1] + 1 + Len(d.outs[k].addrs)
  <2>1. Len(d.outs[k].addrs) \in Nat /\ k - 1 \in 0..NOuts(d)
    BY OutputTypes
  <2>2. Sizes(d)[k] = 1 + Len(d.outs[k].addrs) /\ Counts(d)[k - 1] \in Nat
    BY <1>4, <2>1 DEF Sizes
  <2>3. \A x, y \in Nat : x + (1 + y) = x + 1 + y
    OBVIOUS
  <2>4. Counts(d)[k] = Counts(d)[k - 1] + (1 + Len(d.outs[k].addrs))
    BY <1>4, <2>2
  <2> QED
    BY <2>1, <2>2, <2>3, <2>4
<1> QED
  BY <1>1, <1>2, <1>3, <1>4, <1>5

\* getNumItems adds up the addresses and the amounts separately.
LEMMA CountIsSum ==
  ASSUME NEW d, IsDocument(d)
  PROVE  Counts(d)[NOuts(d)] = NAddrs(d) + NOuts(d)
<1>1. NOuts(d) \in Nat /\ NOuts(d) \in 0..NOuts(d)
      /\ NoOfAddrs(d) \in [1..NOuts(d) -> Nat]
  BY OutputTypes
<1>2. Sizes(d) = [k \in 1..NOuts(d) |-> 1 + NoOfAddrs(d)[k]]
  BY DEF Sizes, NoOfAddrs
<1>3. Counts(d)[NOuts(d)] = Totals(NoOfAddrs(d), NOuts(d))[NOuts(d)] + NOuts(d)
  BY <1>1, <1>2, OneMoreEach DEF Counts
<1> QED
  BY <1>3 DEF NAddrs, NoOfAddrs

------------------------------------------------------------------------------
(* The items of the outputs *)

OutputItemSet == {Amount(x) : x \in Nat} \cup {To(x) : x \in Addrs}

\* An amount and the addresses of an output.
Part(d, k) ==
    <<Amount(d.outs[k].amount)>>
      \o [j \in 1..Len(d.outs[k].addrs) |-> To(d.outs[k].addrs[j])]

LEMMA PartItems ==
  ASSUME NEW d, IsDocument(d), NEW k \in 1..NOuts(d)
  PROVE  /\ Part(d, k) \in Seq(OutputItemSet)
         /\ Len(Part(d, k)) = 1 + Len(d.outs[k].addrs)
         /\ Part(d, k)[1] = Amount(d.outs[k].amount)
         /\ \A j \in 1..Len(d.outs[k].addrs) : Part(d, k)[1 + j] = To(d.outs[k].addrs[j])
<1> DEFINE n == Len(d.outs[k].addrs)
           x == Amount(d.outs[k].amount)
           t == [j \in 1..n |-> To(d.outs[k].addrs[j])]
<1>1. n \in Nat /\ d.outs[k].amount \in Nat
      /\ \A j \in 1..n : d.outs[k].addrs[j] \in Addrs
  BY OutputTypes, ElementOfSeq
<1>2. x \in OutputItemSet
  BY <1>1 DEF OutputItemSet
<1>3. t \in [1..n -> OutputItemSet] /\ \A j \in 1..n : t[j] = To(d.outs[k].addrs[j])
  BY <1>1 DEF OutputItemSet
<1>4. Part(d, k) = <<x>> \o t
  BY DEF Part
<1> HIDE DEF n, x, t
<1>5. t \in Seq(OutputItemSet) /\ Len(t) = n
  BY <1>1, <1>3, FunctionIsSeq
<1>6. /\ <<x>> \o t \in Seq(OutputItemSet) /\ Len(<<x>> \o t) = 1 + Len(t)
      /\ (<<x>> \o t)[1] = x
      /\ \A j \in 1..Len(t) : (<<x>> \o t)[1 + j] = t[j]
  BY <1>2, <1>5, OneBefore
<1> QED
  BY ONLY <1>3, <1>4, <1>5, <1>6 DEF n, x

\* Where each of them is among the items of the transaction.
LEMMA OutputItemsAt ==
  ASSUME NEW d, IsDocument(d)
  PROVE  /\ OutputItems(d) \in Seq(OutputItemSet)
         /\ Len(OutputItems(d)) = NAddrs(d) + NOuts(d)
         /\ \A k \in 1..NOuts(d) :
              /\ OutputItems(d)[Counts(d)[k - 1] + 1] = Amount(d.outs[k].amount)
              /\ \A j \in 1..Len(d.outs[k].addrs) :
                    OutputItems(d)[Counts(d)[k - 1] + (1 + j)] = To(d.outs[k].addrs[j])
<1> DEFINE n == NOuts(d)
           parts == [k \in 1..n |-> Part(d, k)]
           lens == [k \in 1..n |-> Len(parts[k])]
<1>1. n \in Nat /\ \A k \in 1..n : Len(d.outs[k].addrs) \in Nat
  BY OutputTypes
<1>2. parts \in [1..n -> Seq(OutputItemSet)] /\ \A k \in 1..n : parts[k] = Part(d, k)
  BY PartItems
<1>3. lens = Sizes(d)
  BY <1>2, PartItems DEF Sizes
<1>4. OutputItems(d) = FlattenSeq(parts)
  BY DEF OutputItems, Part
<1> HIDE DEF n, parts
<1>5. /\ FlattenSeq(parts) \in Seq(OutputItemSet)
      /\ Len(FlattenSeq(parts)) = Totals(lens, n)[n]
      /\ \A k \in 1..n : \A j \in 1..Len(parts[k]) :
            FlattenSeq(parts)[Totals(lens, n)[k - 1] + j] = parts[k][j]
  <2>1. lens \in [1..n -> Nat] /\ \A k \in 1..n : lens[k] = Len(parts[k])
    BY <1>2
  <2>2. PartsOf(parts, lens, n, OutputItemSet)
    BY <1>1, <1>2, <2>1 DEF PartsOf
  <2> HIDE DEF lens
  <2> QED
    BY ONLY <2>2, FlattenProperties
<1> HIDE DEF lens
<1>6. Totals(lens, n) = Counts(d)
  BY <1>3 DEF Counts, n
<1>7. ASSUME NEW k \in 1..n
      PROVE  /\ FlattenSeq(parts)[Counts(d)[k - 1] + 1] = Amount(d.outs[k].amount)
             /\ \A j \in 1..Len(d.outs[k].addrs) :
                   FlattenSeq(parts)[Counts(d)[k - 1] + (1 + j)] = To(d.outs[k].addrs[j])
  <2>1. /\ Len(parts[k]) = 1 + Len(d.outs[k].addrs)
        /\ parts[k][1] = Amount(d.outs[k].amount)
        /\ \A j \in 1..Len(d.outs[k].addrs) : parts[k][1 + j] = To(d.outs[k].addrs[j])
    <3>1. k \in 1..NOuts(d) /\ parts[k] = Part(d, k)
      BY <1>2 DEF n
    <3>2. /\ Len(Part(d, k)) = 1 + Len(d.outs[k].addrs)
          /\ Part(d, k)[1] = Amount(d.outs[k].amount)
          /\ \A j \in 1..Len(d.outs[k].addrs) :
                Part(d, k)[1 + j] = To(d.outs[k].addrs[j])
      BY <3>1, PartItems
    <3> QED
      BY ONLY <3>1, <3>2
  <2>2. /\ 1 \in 1..Len(parts[k])
        /\ \A j \in 1..Len(d.outs[k].addrs) : 1 + j \in 1..Len(parts[k])
    BY <1>1, <2>1
  <2> QED
    BY <1>5, <1>6, <2>1, <2>2
<1> QED
  BY <1>4, <1>5, <1>6, <1>7, CountIsSum DEF n
------------------------------------------------------------------------------
(* The walk over the outputs *)

\* The least of the outputs that pass the test of the walk is the one that has
\* the item: those before it end where it starts, or earlier.
LEMMA WalkStopsAt ==
  ASSUME NEW d, IsDocument(d),
         NEW k \in 1..NOuts(d), NEW j \in 0..Len(d.outs[k].addrs)
  PROVE  LET inner == Counts(d)[k - 1] + j
         IN  /\ \E m \in 1..NOuts(d) : inner - Counts(d)[m - 1] <= Len(d.outs[m].addrs)
             /\ Min({m \in 1..NOuts(d) :
                       inner - Counts(d)[m - 1] <= Len(d.outs[m].addrs)}) = k
<1> DEFINE n == NOuts(d)
           w == NoOfAddrs(d)
           inner == Counts(d)[k - 1] + j
           hits == {m \in 1..n : inner - Counts(d)[m - 1] <= Len(d.outs[m].addrs)}
<1>1. n \in Nat /\ w \in [1..n -> Nat] /\ k \in 1..n
      /\ \A m \in 1..n : w[m] = Len(d.outs[m].addrs)
  BY OutputTypes DEF NoOfAddrs
<1>2. Counts(d) = Totals([p \in 1..n |-> 1 + w[p]], n)
  <2>1. Sizes(d) = [p \in 1..n |-> 1 + w[p]]
    BY DEF Sizes, NoOfAddrs
  <2> QED
    BY <2>1 DEF Counts
<1>3. Reached(w, n, inner) = hits
  BY <1>1, <1>2 DEF Reached
<1>4. j \in 0..w[k]
  BY <1>1
<1> HIDE DEF n, w
<1>5. k \in Reached(w, n, inner) /\ Min(Reached(w, n, inner)) = k
  <2> DEFINE c == Totals([p \in 1..n |-> 1 + w[p]], n)
  <2>1. /\ k \in Reached(w, n, c[k - 1] + j)
        /\ Min(Reached(w, n, c[k - 1] + j)) = k
    BY ONLY <1>1, <1>4, FirstReached
  <2> QED
    BY ONLY <1>2, <2>1
<1>6. k \in hits /\ Min(hits) = k
  BY <1>3, <1>5
<1> QED
  BY <1>6 DEF n

\* Every screen of an output item shows the item at its place in the document.
LEMMA SecpOutputIsItem ==
  ASSUME NEW d, IsDocument(d), NEW inner \in 0..NAddrs(d) + NOuts(d) - 1
  PROVE  SecpOutputForIndex(d, inner) = OutputItems(d)[inner + 1]
<1> DEFINE n == NOuts(d)
           c == Counts(d)
<1>1. n \in Nat /\ Sizes(d) \in [1..n -> Nat]
      /\ \A m \in 1..n : Len(d.outs[m].addrs) \in Nat
  BY OutputTypes
<1>2. inner \in Nat /\ inner + 1 \in 1..c[n]
  BY CountIsSum, CountTypes, OutputTypes
<1>3. \E k \in 1..n : \E j \in 1..Sizes(d)[k] : inner + 1 = c[k - 1] + j
  BY <1>1, <1>2, TotalsCover DEF Counts
<1>4. PICK k \in 1..n : \E j \in 1..Sizes(d)[k] : inner + 1 = c[k - 1] + j
  BY <1>3
<1>5. PICK j \in 1..Sizes(d)[k] : inner + 1 = c[k - 1] + j
  BY <1>4
<1>6. Sizes(d)[k] = 1 + Len(d.outs[k].addrs) /\ Len(d.outs[k].addrs) \in Nat
  BY <1>1 DEF Sizes
<1>7. k - 1 \in 0..n /\ c[k - 1] \in Nat
  <2>1. k - 1 \in 0..n
    BY <1>1
  <2>2. c \in [0..n -> Nat]
    BY CountTypes
  <2> HIDE DEF c
  <2> QED
    BY <2>1, <2>2
<1> DEFINE e == j - 1
<1>8. e \in 0..Len(d.outs[k].addrs) /\ j = 1 + e
  BY <1>6
<1> HIDE DEF n, c, e
<1>9. inner = c[k - 1] + e /\ inner - c[k - 1] = e
  BY <1>2, <1>5, <1>7, <1>8
<1>10. /\ \E m \in 1..n : inner - c[m - 1] <= Len(d.outs[m].addrs)
      /\ Min({m \in 1..n : inner - c[m - 1] <= Len(d.outs[m].addrs)}) = k
  <2>1. /\ \E m \in 1..n : (c[k - 1] + e) - c[m - 1] <= Len(d.outs[m].addrs)
        /\ Min({m \in 1..n : (c[k - 1] + e) - c[m - 1] <= Len(d.outs[m].addrs)}) = k
    BY <1>8, WalkStopsAt DEF n, c
  <2> QED
    BY ONLY <1>9, <2>1
<1>11. SecpOutputForIndex(d, inner)
         = IF e = 0 THEN Amount(d.outs[k].amount) ELSE To(d.outs[k].addrs[e])
  <2>1. SecpOutputForIndex(d, inner) = ItemAmong(d, c, inner)
    BY DEF SecpOutputForIndex, Counts, Sizes, c
  <2> DEFINE hits == {m \in 1..n : inner - c[m - 1] <= Len(d.outs[m].addrs)}
  <2>2. hits # {} /\ Min(hits) = k
    BY <1>10
  <2>3. ItemAmong(d, c, inner)
          = IF hits = {} THEN NoItem
            ELSE IF inner - c[Min(hits) - 1] = 0 THEN Amount(d.outs[Min(hits)].amount)
            ELSE To(d.outs[Min(hits)].addrs[inner - c[Min(hits) - 1]])
    BY DEF ItemAmong, n
  <2> HIDE DEF hits
  <2> QED
    BY ONLY <1>9, <2>1, <2>2, <2>3
<1>12. /\ OutputItems(d)[c[k - 1] + 1] = Amount(d.outs[k].amount)
       /\ \A i \in 1..Len(d.outs[k].addrs) :
             OutputItems(d)[c[k - 1] + (1 + i)] = To(d.outs[k].addrs[i])
  BY OutputItemsAt DEF n, c
<1>13. CASE e = 0
  <2>1. inner + 1 = c[k - 1] + 1
    BY <1>5, <1>8, <1>13
  <2> QED
    BY ONLY <1>11, <1>12, <1>13, <2>1
<1>14. CASE e # 0
  <2>1. e \in 1..Len(d.outs[k].addrs)
    BY <1>6, <1>8, <1>14
  <2>2. inner + 1 = c[k - 1] + (1 + e)
    BY <1>5, <1>8
  <2> QED
    BY ONLY <1>11, <1>12, <1>14, <2>1, <2>2
<1> QED
  BY <1>13, <1>14
\* An output of a C-chain import has an amount and one address.
LEMMA EvmCounts ==
  ASSUME NEW d, IsDocument(d), d.type = "c_import_tx"
  PROVE  \A m \in 0..NOuts(d) : Counts(d)[m] = 2 * m
<1> DEFINE n == NOuts(d)
           c == Counts(d)
           V == {m \in 0..n : c[m] = 2 * m}
<1>1. n \in Nat /\ \A m \in 1..n : Len(d.outs[m].addrs) = 1
  <2>1. n \in Nat /\ DOMAIN d.outs = 1..n
    BY LenProperties DEF IsDocument, NOuts
  <2> QED
    BY <2>1 DEF IsDocument
<1>2. /\ c \in [0..n -> Nat] /\ c[0] = 0
      /\ \A m \in 1..n : c[m] = c[m - 1] + 1 + Len(d.outs[m].addrs)
  BY CountTypes
<1> HIDE DEF n, c
<1>3. V \in SUBSET (0..n) /\ 0 \in V
  BY <1>1, <1>2
<1>4. ASSUME NEW m \in V, m < n
      PROVE  m + 1 \in V
  <2>1. m \in 0..n /\ m + 1 \in 1..n /\ (m + 1) - 1 = m /\ c[m] = 2 * m
    BY <1>1, <1>4
  <2>2. c[m + 1] = c[m] + 1 + 1
    BY <1>1, <1>2, <2>1
  <2>3. c[m + 1] = 2 * (m + 1)
    BY <2>1, <2>2
  <2> QED
    BY <1>1, <2>1, <2>3
<1>5. V = 0..n
  <2> HIDE DEF V
  <2> QED
    BY <1>1, <1>3, <1>4, BoundedInduction
<1> QED
  BY <1>5 DEF n, c

LEMMA EvmOutputIsItem ==
  ASSUME NEW d, IsDocument(d), d.type = "c_import_tx",
         NEW i \in 1..2 * NOuts(d)
  PROVE  EvmOutputForIndex(d, i) = OutputItems(d)[i]
<1> DEFINE n == NOuts(d)
           k == (i - 1) \div 2 + 1
<1>1. n \in Nat /\ \A m \in 1..n : Len(d.outs[m].addrs) = 1
  <2>1. n \in Nat /\ DOMAIN d.outs = 1..n
    BY LenProperties DEF IsDocument, NOuts
  <2> QED
    BY <2>1 DEF IsDocument
<1>2. k \in 1..n /\ k - 1 \in 0..n
  BY <1>1
<1>3. \/ (i - 1) % 2 = 0 /\ i = 2 * (k - 1) + 1
      \/ (i - 1) % 2 = 1 /\ i = 2 * (k - 1) + (1 + 1)
  BY <1>1
<1>4. EvmOutputForIndex(d, i)
        = IF (i - 1) % 2 = 0 THEN Amount(d.outs[k].amount) ELSE To(d.outs[k].addrs[1])
  BY DEF EvmOutputForIndex
<1> HIDE DEF n, k
<1>5. Counts(d)[k - 1] = 2 * (k - 1)
  BY <1>2, EvmCounts DEF n
<1>6. /\ OutputItems(d)[Counts(d)[k - 1] + 1] = Amount(d.outs[k].amount)
      /\ \A j \in 1..Len(d.outs[k].addrs) :
            OutputItems(d)[Counts(d)[k - 1] + (1 + j)] = To(d.outs[k].addrs[j])
  BY <1>2, OutputItemsAt DEF n
<1>7. 1 \in 1..Len(d.outs[k].addrs)
  BY <1>1, <1>2
<1>8. /\ OutputItems(d)[2 * (k - 1) + 1] = Amount(d.outs[k].amount)
      /\ OutputItems(d)[2 * (k - 1) + (1 + 1)] = To(d.outs[k].addrs[1])
  BY ONLY <1>5, <1>6, <1>7
<1> QED
  BY ONLY <1>3, <1>4, <1>8

------------------------------------------------------------------------------
(* The fee *)

\* The checks against overflow and underflow leave the unbounded difference.
LEMMA FeeItemIsTrue ==
  ASSUME NEW d, IsDocument(d), FeeItem(d) # Failed
  PROVE  /\ FeeItem(d) = Fee(TrueFee(d))
         /\ TrueFee(d) \in 0..UINT64_MAX
         /\ d.in + d.in2 <= UINT64_MAX
<1>1. d.in \in Nat /\ d.in2 \in Nat /\ d.out \in Nat /\ d.stake \in Nat
  BY WidthsAssumption DEF IsDocument
<1>2. OutSum(d) \in Nat
  BY CountTypes
<1>3. d.in + d.in2 <= UINT64_MAX /\ d.out + d.stake + OutSum(d) <= d.in + d.in2
      /\ FeeItem(d) = Fee((d.in + d.in2) - (d.out + d.stake + OutSum(d)))
  BY <1>1, <1>2, WidthsAssumption DEF FeeItem
<1> QED
  BY <1>1, <1>2, <1>3, WidthsAssumption DEF TrueFee
------------------------------------------------------------------------------
(* The items of the transaction *)

ItemSet(d) ==
    OutputItemSet \cup {Title(d), Stake(d.stake), Fee(TrueFee(d)), Hash}
      \cup {Other("Validator"), Other("Start time"), Other("End time"),
            Other("Rewards to"), Other("Delegate fee")}

\* The fee and the hash end every review.
FollowedByFee(all, s, n, d, withHash) ==
    /\ withHash \in BOOLEAN
    /\ n \in Nat /\ s \in Seq(ItemSet(d)) /\ Len(s) = n
    /\ all = s \o <<Fee(TrueFee(d))>> \o (IF withHash THEN <<Hash>> ELSE <<>>)

LEMMA LastItems ==
  ASSUME NEW d, NEW withHash, NEW s, NEW n, NEW all,
         FollowedByFee(all, s, n, d, withHash)
  PROVE  /\ all \in Seq(ItemSet(d))
         /\ Len(all) = n + 1 + (IF withHash THEN 1 ELSE 0)
         /\ \A i \in 1..n : all[i] = s[i]
         /\ all[n + 1] = Fee(TrueFee(d))
         /\ withHash => all[n + 2] = Hash
<1> DEFINE f == Fee(TrueFee(d))
           r == s \o <<f>>
           S == ItemSet(d)
<1> /\ n \in Nat /\ s \in Seq(S) /\ Len(s) = n /\ withHash \in BOOLEAN
    /\ all = r \o (IF withHash THEN <<Hash>> ELSE <<>>)
  BY DEF FollowedByFee
<1>1. f \in S /\ Hash \in S
  BY DEF ItemSet
<1> HIDE DEF f
<1>2. /\ r \in Seq(S) /\ Len(r) = n + 1
      /\ \A i \in 1..n : r[i] = s[i]
      /\ r[n + 1] = f
  BY <1>1, OneBehind
<1> HIDE DEF r, S
<1>3. CASE withHash
  <2>1. /\ r \o <<Hash>> \in Seq(S) /\ Len(r \o <<Hash>>) = Len(r) + 1
        /\ \A i \in 1..Len(r) : (r \o <<Hash>>)[i] = r[i]
        /\ (r \o <<Hash>>)[Len(r) + 1] = Hash
    BY <1>1, <1>2, OneBehind
  <2>2. /\ (n + 1) + 1 = n + 2 /\ n + 1 \in 1..n + 1 /\ \A i \in 1..n : i \in 1..n + 1
    OBVIOUS
  <2>3. all = r \o <<Hash>>
    BY <1>3 DEF r, f
  <2>4. /\ all \in Seq(S)
        /\ Len(all) = n + 1 + 1 /\ \A i \in 1..n + 1 : all[i] = r[i]
        /\ all[n + 2] = Hash
    BY ONLY <1>2, <2>1, <2>2, <2>3
  <2>5. /\ \A i \in 1..n : all[i] = s[i]
        /\ all[n + 1] = f
    BY <1>2, <2>2, <2>4
  <2> QED
    BY ONLY <1>3, <2>4, <2>5 DEF f, S
<1>4. CASE ~withHash
  <2>1. r \o <<>> = r
    BY <1>2, ConcatEmptySeq
  <2>2. r = all
    BY <1>4, <2>1 DEF r, f
  <2>3. n + 1 = n + 1 + 0
    OBVIOUS
  <2> QED
    BY ONLY <1>2, <1>4, <2>2, <2>3 DEF f, S
<1> QED
  BY <1>3, <1>4

LEMMA TransferItems ==
  ASSUME NEW d, IsDocument(d), NEW withHash \in BOOLEAN,
         d.type \notin StakingTypes, NEW n, n = NAddrs(d) + NOuts(d)
  PROVE  /\ n \in Nat
         /\ Items(d, withHash) \in Seq(ItemSet(d))
         /\ Len(Items(d, withHash)) = 2 + n + (IF withHash THEN 1 ELSE 0)
         /\ Items(d, withHash)[1] = Title(d)
         /\ \A i \in 1..n : Items(d, withHash)[1 + i] = OutputItems(d)[i]
         /\ Items(d, withHash)[n + 2] = Fee(TrueFee(d))
         /\ withHash => Items(d, withHash)[n + 3] = Hash
<1> DEFINE o == OutputItems(d)
           t == Title(d)
           s == <<t>> \o o
<1>1. n \in Nat
  BY OutputTypes, CountTypes
<1>2. o \in Seq(ItemSet(d)) /\ Len(o) = n
  <2>1. o \in Seq(OutputItemSet) /\ Len(o) = n
    BY OutputItemsAt
  <2>2. OutputItemSet \subseteq ItemSet(d)
    BY DEF ItemSet
  <2> HIDE DEF o
  <2> QED
    BY <2>1, <2>2
<1>3. t \in ItemSet(d)
  BY DEF ItemSet
<1> HIDE DEF o, t
<1>4. /\ s \in Seq(ItemSet(d)) /\ Len(s) = 1 + n
      /\ s[1] = t /\ \A i \in 1..n : s[1 + i] = o[i]
  BY <1>2, <1>3, OneBefore
<1>5. Items(d, withHash)
        = s \o <<Fee(TrueFee(d))>> \o (IF withHash THEN <<Hash>> ELSE <<>>)
  BY DEF Items, o, t
<1> HIDE DEF s
<1>6. /\ 1 + n \in Nat /\ (1 + n) + 1 = n + 2 /\ (1 + n) + 2 = n + 3
      /\ 1 \in 1..1 + n /\ \A i \in 1..n : 1 + i \in 1..1 + n
      /\ \A h \in Nat : (1 + n) + 1 + h = 2 + n + h
  BY <1>1
<1>7. /\ Items(d, withHash) \in Seq(ItemSet(d))
      /\ Len(Items(d, withHash)) = (1 + n) + 1 + (IF withHash THEN 1 ELSE 0)
      /\ \A i \in 1..1 + n : Items(d, withHash)[i] = s[i]
      /\ Items(d, withHash)[(1 + n) + 1] = Fee(TrueFee(d))
      /\ withHash => Items(d, withHash)[(1 + n) + 2] = Hash
  <2>1. FollowedByFee(Items(d, withHash), s, 1 + n, d, withHash)
    BY <1>4, <1>5, <1>6 DEF FollowedByFee
  <2> QED
    BY <2>1, LastItems
<1>8. /\ Items(d, withHash)[1] = t
      /\ \A i \in 1..n : Items(d, withHash)[1 + i] = o[i]
  BY <1>4, <1>6, <1>7
<1>9. Len(Items(d, withHash)) = 2 + n + (IF withHash THEN 1 ELSE 0)
  BY <1>6, <1>7
<1> QED
  BY ONLY <1>1, <1>6, <1>7, <1>8, <1>9 DEF o, t

\* The items of a staking transaction before the fee.
NStaking(d) == IF d.type = "add_permissionless_validator_tx" THEN 6 ELSE 5

LEMMA StakingItems ==
  ASSUME NEW d, NEW withHash \in BOOLEAN, d.type \in StakingTypes
  PROVE  /\ Items(d, withHash) \in Seq(ItemSet(d))
         /\ Len(Items(d, withHash)) = NStaking(d) + 1 + (IF withHash THEN 1 ELSE 0)
         /\ Items(d, withHash)[1] = Other("Validator")
         /\ Items(d, withHash)[2] = Other("Start time")
         /\ Items(d, withHash)[3] = Other("End time")
         /\ Items(d, withHash)[4] = Stake(d.stake)
         /\ Items(d, withHash)[5] = Other("Rewards to")
         /\ NStaking(d) = 6 => Items(d, withHash)[6] = Other("Delegate fee")
         /\ Items(d, withHash)[NStaking(d) + 1] = Fee(TrueFee(d))
         /\ withHash => Items(d, withHash)[NStaking(d) + 2] = Hash
<1> DEFINE n == NStaking(d)
           validator == d.type = "add_permissionless_validator_tx"
           b == <<Other("Validator"), Other("Start time"), Other("End time"),
                  Stake(d.stake), Other("Rewards to")>>
           s == b \o (IF validator THEN <<Other("Delegate fee")>> ELSE <<>>)
           S == ItemSet(d)
<1>0. n = IF validator THEN 6 ELSE 5
  BY DEF NStaking
<1>1. /\ b \in Seq(S) /\ Len(b) = 5
      /\ b[1] = Other("Validator") /\ b[2] = Other("Start time")
      /\ b[3] = Other("End time") /\ b[4] = Stake(d.stake) /\ b[5] = Other("Rewards to")
  <2>1. /\ Other("Validator") \in S /\ Other("Start time") \in S
        /\ Other("End time") \in S /\ Stake(d.stake) \in S /\ Other("Rewards to") \in S
    BY DEF ItemSet
  <2> HIDE DEF S
  <2>2. \A p, q, x, y, z \in S :
           /\ <<p, q, x, y, z>> \in Seq(S) /\ Len(<<p, q, x, y, z>>) = 5
           /\ <<p, q, x, y, z>>[1] = p /\ <<p, q, x, y, z>>[2] = q
           /\ <<p, q, x, y, z>>[3] = x /\ <<p, q, x, y, z>>[4] = y
           /\ <<p, q, x, y, z>>[5] = z
    OBVIOUS
  <2> QED
    BY ONLY <2>1, <2>2
<1>2. Other("Delegate fee") \in S
  BY DEF ItemSet
<1>3. Items(d, withHash)
        = s \o <<Fee(TrueFee(d))>> \o (IF withHash THEN <<Hash>> ELSE <<>>)
  BY DEF Items
<1> HIDE DEF b, S, n
<1>4. /\ s \in Seq(S) /\ Len(s) = n /\ n \in Nat /\ n \in {5, 6}
      /\ \A i \in 1..5 : s[i] = b[i]
      /\ n = 6 => s[6] = Other("Delegate fee")
  <2>1. CASE validator
    <3> DEFINE x == Other("Delegate fee")
    <3>1. s = b \o <<x>> /\ n = 6
      BY <1>0, <2>1
    <3> HIDE DEF x, s
    <3>2. /\ b \o <<x>> \in Seq(S) /\ Len(b \o <<x>>) = Len(b) + 1
          /\ \A i \in 1..Len(b) : (b \o <<x>>)[i] = b[i]
          /\ (b \o <<x>>)[Len(b) + 1] = x
      BY <1>1, <1>2, OneBehind DEF x
    <3>3. 5 + 1 = 6 /\ n \in Nat /\ n \in {5, 6}
      BY <3>1
    <3>4. Len(b) = 5
      BY <1>1
    <3> QED
      BY ONLY <3>1, <3>2, <3>3, <3>4 DEF x
  <2>2. CASE ~validator
    <3>1. s = b /\ n = 5
      BY <1>0, <1>1, <2>2, ConcatEmptySeq
    <3> HIDE DEF s
    <3>2. n \in Nat /\ n \in {5, 6} /\ n # 6
      BY ONLY <3>1
    <3> QED
      BY ONLY <1>1, <3>1, <3>2
  <2> QED
    BY <2>1, <2>2
<1> HIDE DEF s
<1>5. /\ Items(d, withHash) \in Seq(S)
      /\ Len(Items(d, withHash)) = n + 1 + (IF withHash THEN 1 ELSE 0)
      /\ \A i \in 1..n : Items(d, withHash)[i] = s[i]
      /\ Items(d, withHash)[n + 1] = Fee(TrueFee(d))
      /\ withHash => Items(d, withHash)[n + 2] = Hash
  <2>1. FollowedByFee(Items(d, withHash), s, n, d, withHash)
    BY <1>3, <1>4 DEF FollowedByFee, S
  <2> QED
    BY <2>1, LastItems DEF S
<1>6. /\ 1 \in 1..n /\ 2 \in 1..n /\ 3 \in 1..n /\ 4 \in 1..n /\ 5 \in 1..n
      /\ n = 6 => 6 \in 1..n
      /\ 1 \in 1..5 /\ 2 \in 1..5 /\ 3 \in 1..5 /\ 4 \in 1..5 /\ 5 \in 1..5
  <2>1. n = 5 \/ n = 6
    BY <1>4
  <2> QED
    BY ONLY <2>1
<1>7. /\ Items(d, withHash)[1] = b[1] /\ Items(d, withHash)[2] = b[2]
      /\ Items(d, withHash)[3] = b[3] /\ Items(d, withHash)[4] = b[4]
      /\ Items(d, withHash)[5] = b[5]
      /\ n = 6 => Items(d, withHash)[6] = Other("Delegate fee")
  <2>1. /\ Items(d, withHash)[1] = s[1] /\ Items(d, withHash)[2] = s[2]
        /\ Items(d, withHash)[3] = s[3] /\ Items(d, withHash)[4] = s[4]
        /\ Items(d, withHash)[5] = s[5]
        /\ n = 6 => Items(d, withHash)[6] = s[6]
    BY ONLY <1>5, <1>6
  <2>2. /\ s[1] = b[1] /\ s[2] = b[2] /\ s[3] = b[3] /\ s[4] = b[4] /\ s[5] = b[5]
        /\ n = 6 => s[6] = Other("Delegate fee")
    BY ONLY <1>4, <1>6
  <2> QED
    BY ONLY <2>1, <2>2
<1> QED
  BY ONLY <1>1, <1>5, <1>7 DEF n, S
------------------------------------------------------------------------------
(* The screens *)

\* A transfer's printer, given that its output items are the document's.
LEMMA TransferShown ==
  ASSUME NEW d, IsDocument(d), NEW withHash \in BOOLEAN,
         d.type \notin StakingTypes, NEW n, n = NAddrs(d) + NOuts(d),
         NEW i \in 0..1 + n + (IF withHash THEN 1 ELSE 0), NEW item,
         i \in 1..n => item = OutputItems(d)[i],
         PrintTransfer(d, i, n, item) # Failed
  PROVE  PrintTransfer(d, i, n, item) = Items(d, withHash)[i + 1]
<1> DEFINE s == Items(d, withHash)
<1>1. /\ n \in Nat /\ s[1] = Title(d) /\ \A j \in 1..n : s[1 + j] = OutputItems(d)[j]
      /\ s[n + 2] = Fee(TrueFee(d)) /\ (withHash => s[n + 3] = Hash)
  BY TransferItems
<1> HIDE DEF s
<1>2. CASE i = 0
  <2>1. PrintTransfer(d, i, n, item)
          = IF d.type = "base_tx" \/ d.known THEN Title(d) ELSE Failed
    BY <1>1, <1>2 DEF PrintTransfer
  <2>2. d.known \in BOOLEAN
    BY DEF IsDocument
  <2>3. PrintTransfer(d, i, n, item) = Title(d) /\ i + 1 = 1
    BY <1>2, <2>1, <2>2
  <2> QED
    BY <1>1, <2>3 DEF s
<1>3. CASE i \in 1..n
  <2>1. PrintTransfer(d, i, n, item) = item /\ i + 1 = 1 + i
    BY <1>1, <1>3 DEF PrintTransfer
  <2> QED
    BY <1>1, <1>3, <2>1 DEF s
<1>4. CASE i = n + 1
  <2>1. PrintTransfer(d, i, n, item) = FeeItem(d) /\ i + 1 = n + 2
    BY <1>1, <1>4 DEF PrintTransfer
  <2>2. FeeItem(d) = Fee(TrueFee(d))
    BY <2>1, FeeItemIsTrue
  <2> QED
    BY <1>1, <2>1, <2>2 DEF s
<1>5. CASE i = n + 2 /\ withHash
  <2>1. PrintTransfer(d, i, n, item) = Hash /\ i + 1 = n + 3
    BY <1>1, <1>5 DEF PrintTransfer
  <2> QED
    BY <1>1, <1>5, <2>1 DEF s
<1>6. i = 0 \/ i \in 1..n \/ i = n + 1 \/ (i = n + 2 /\ withHash)
  BY <1>1
<1> QED
  BY <1>2, <1>3, <1>4, <1>5, <1>6

LEMMA ItemsAreSeq ==
  ASSUME NEW d, IsDocument(d), NEW withHash \in BOOLEAN
  PROVE  DOMAIN Items(d, withHash) = 1..Len(Items(d, withHash))
<1>1. CASE d.type \in StakingTypes
  <2>1. Items(d, withHash) \in Seq(ItemSet(d))
    BY <1>1, StakingItems
  <2> QED
    BY <2>1, LenProperties
<1>2. CASE d.type \notin StakingTypes
  <2>1. Items(d, withHash) \in Seq(ItemSet(d))
    BY <1>2, TransferItems
  <2> QED
    BY <2>1, LenProperties
<1> QED
  BY <1>1, <1>2

\* getNumItems counts the items, unless there are too many for its type.
LEMMA CountIsLength ==
  ASSUME NEW d, IsDocument(d), NEW withHash \in BOOLEAN,
         getNumItems(d, withHash) # 0
  PROVE  /\ getNumItems(d, withHash) = Len(Items(d, withHash))
         /\ getNumItems(d, withHash) \in 1..UINT8_MAX
<1> DEFINE n == NAddrs(d) + NOuts(d)
           h == IF withHash THEN 1 ELSE 0
           g == getNumItems(d, withHash)
<1>1. NOuts(d) \in Nat /\ NAddrs(d) \in Nat /\ n \in Nat /\ h \in {0, 1}
  BY OutputTypes, CountTypes
<1>2. CASE d.type \in StakingTypes
  <2>1. g = NStaking(d) + 1 + h /\ g \in 1..UINT8_MAX
    BY <1>1, <1>2, WidthsAssumption DEF getNumItems, StakingTypes, NStaking
  <2>2. Len(Items(d, withHash)) = NStaking(d) + 1 + h
    BY <1>2, StakingItems
  <2> QED
    BY <2>1, <2>2
<1>3. CASE d.type \notin StakingTypes
  <2>1. g = 2 + n + h /\ g \in 1..UINT8_MAX
    <3>1. CASE d.type = "c_import_tx"
      <4>1. 2 * NOuts(d) = n
        <5>1. NOuts(d) \in 0..NOuts(d)
          BY <1>1
        <5> QED
          BY <3>1, <5>1, EvmCounts, CountIsSum
      <4>2. g = 2 + 2 * NOuts(d) + h /\ g <= UINT8_MAX
        BY <1>1, <3>1, WidthsAssumption DEF getNumItems
      <4> HIDE DEF g, n
      <4> QED
        BY <1>1, <4>1, <4>2, WidthsAssumption
    <3>2. CASE d.type # "c_import_tx"
      BY <1>1, <1>3, <3>2, WidthsAssumption DEF getNumItems, StakingTypes
    <3> QED
      BY <3>1, <3>2
  <2>2. Len(Items(d, withHash)) = 2 + n + h
    BY <1>3, TransferItems
  <2> QED
    BY <2>1, <2>2
<1> QED
  BY <1>2, <1>3
\* The printer of the staking transactions, item by item.
LEMMA StakingPrinter ==
  ASSUME NEW d
  PROVE  LET P(i) == print_add_permissionless_del_val_tx(d, i)
             validator == d.type = "add_permissionless_validator_tx"
         IN  /\ P(0) = Other("Validator")
             /\ P(1) = IF d.known THEN Other("Start time") ELSE Failed
             /\ P(2) = Other("End time")
             /\ P(3) = Stake(d.stake)
             /\ P(4) = Other("Rewards to")
             /\ P(5) = IF validator THEN Other("Delegate fee") ELSE FeeItem(d)
             /\ P(6) = IF validator THEN FeeItem(d) ELSE Hash
             /\ P(7) = IF validator THEN Hash ELSE Failed
<1>1. CASE d.type = "add_permissionless_validator_tx"
  BY <1>1 DEF print_add_permissionless_del_val_tx
<1>2. CASE d.type # "add_permissionless_validator_tx"
  BY <1>2 DEF print_add_permissionless_del_val_tx
<1> QED
  BY <1>1, <1>2

LEMMA StakingShown ==
  ASSUME NEW d, IsDocument(d), NEW withHash \in BOOLEAN,
         d.type \in StakingTypes,
         NEW i \in 0..getNumItems(d, withHash) - 1,
         print_add_permissionless_del_val_tx(d, i) # Failed
  PROVE  print_add_permissionless_del_val_tx(d, i) = Items(d, withHash)[i + 1]
<1> DEFINE s == Items(d, withHash)
           n == NStaking(d)
           x == print_add_permissionless_del_val_tx(d, i)
<1>0. n \in {5, 6} /\ (n = 6 <=> d.type = "add_permissionless_validator_tx")
  BY DEF NStaking
<1>1. /\ s[1] = Other("Validator") /\ s[2] = Other("Start time")
      /\ s[3] = Other("End time") /\ s[4] = Stake(d.stake) /\ s[5] = Other("Rewards to")
      /\ n = 6 => s[6] = Other("Delegate fee")
      /\ s[n + 1] = Fee(TrueFee(d)) /\ (withHash => s[n + 2] = Hash)
  BY StakingItems
<1>2. i \in 0..n + (IF withHash THEN 1 ELSE 0)
  BY WidthsAssumption DEF getNumItems, StakingTypes, NStaking
<1>3. d.known \in BOOLEAN
  BY DEF IsDocument
<1>4. /\ i = 0 => x = Other("Validator")
      /\ i = 1 => x = IF d.known THEN Other("Start time") ELSE Failed
      /\ i = 2 => x = Other("End time")
      /\ i = 3 => x = Stake(d.stake)
      /\ i = 4 => x = Other("Rewards to")
      /\ i = 5 => x = IF n = 6 THEN Other("Delegate fee") ELSE FeeItem(d)
      /\ i = 6 => x = IF n = 6 THEN FeeItem(d) ELSE Hash
      /\ i = 7 => x = IF n = 6 THEN Hash ELSE Failed
  <2>1. d.type = "add_permissionless_validator_tx" <=> n = 6
    BY <1>0
  <2> DEFINE P(k) == print_add_permissionless_del_val_tx(d, k)
             validator == d.type = "add_permissionless_validator_tx"
  <2>2. /\ P(0) = Other("Validator")
        /\ P(1) = IF d.known THEN Other("Start time") ELSE Failed
        /\ P(2) = Other("End time")
        /\ P(3) = Stake(d.stake)
        /\ P(4) = Other("Rewards to")
        /\ P(5) = IF validator THEN Other("Delegate fee") ELSE FeeItem(d)
        /\ P(6) = IF validator THEN FeeItem(d) ELSE Hash
        /\ P(7) = IF validator THEN Hash ELSE Failed
    BY ONLY StakingPrinter
  <2>3. x = P(i)
    OBVIOUS
  <2> HIDE DEF n, x, P, validator
  <2>4. validator <=> n = 6
    BY <2>1 DEF validator
  <2> QED
    BY ONLY <2>2, <2>3, <2>4
<1>5. x = FeeItem(d) => x = Fee(TrueFee(d))
  BY FeeItemIsTrue
<1>6. x # Failed
  OBVIOUS
<1> HIDE DEF s, n, x
<1>7. i \in 0..7 /\ (i = 7 => n = 6 /\ withHash) /\ (i = 6 /\ n = 5 => withHash)
  <2>1. n = 5 \/ n = 6
    BY <1>0
  <2> QED
    BY ONLY <1>2, <2>1, withHash \in BOOLEAN
<1>8. CASE i \in 0..4
  <2>1. /\ i = 0 => i + 1 = 1
        /\ i = 1 => i + 1 = 2
        /\ i = 2 => i + 1 = 3
        /\ i = 3 => i + 1 = 4
        /\ i = 4 => i + 1 = 5
        /\ i = 0 \/ i = 1 \/ i = 2 \/ i = 3 \/ i = 4
    BY <1>8
  <2>2. i = 1 => x = Other("Start time")
    BY <1>3, <1>4, <1>6
  <2> QED
    BY <1>1, <1>4, <2>1, <2>2 DEF s, x
<1>9. 5 + 1 = 6 /\ 5 + 2 = 7 /\ 6 + 1 = 7 /\ 6 + 2 = 8 /\ 7 + 1 = 8 /\ 5 # 6
  OBVIOUS
<1>10. CASE i = 5
  <2>1. CASE n = 6
    BY ONLY <1>1, <1>4, <1>9, <1>10, <2>1 DEF s, x
  <2>2. CASE n = 5
    BY ONLY <1>1, <1>4, <1>5, <1>9, <1>10, <2>2 DEF s, x
  <2> QED
    BY <1>0, <2>1, <2>2
<1>11. CASE i = 6
  <2>1. CASE n = 6
    BY ONLY <1>1, <1>4, <1>5, <1>9, <1>11, <2>1 DEF s, x
  <2>2. CASE n = 5
    BY ONLY <1>1, <1>4, <1>7, <1>9, <1>11, <2>2 DEF s, x
  <2> QED
    BY <1>0, <2>1, <2>2
<1>12. CASE i = 7
  BY ONLY <1>1, <1>4, <1>7, <1>9, <1>12 DEF s, x
<1> QED
  BY <1>7, <1>8, <1>10, <1>11, <1>12

\* An item that does not fail is the document's item.
LEMMA ShownIsItem ==
  ASSUME NEW d, IsDocument(d), NEW withHash \in BOOLEAN,
         NEW i \in 0..getNumItems(d, withHash) - 1,
         getNumItems(d, withHash) # 0,
         parser_getItem(d, withHash, i) # Failed
  PROVE  parser_getItem(d, withHash, i) = Items(d, withHash)[i + 1]
<1> DEFINE n == NAddrs(d) + NOuts(d)
           h == IF withHash THEN 1 ELSE 0
           g == getNumItems(d, withHash)
<1>1. n \in Nat /\ NOuts(d) \in Nat /\ NAddrs(d) \in Nat /\ h \in {0, 1}
  BY OutputTypes, CountTypes
<1>2. g \in 1..UINT8_MAX /\ g = Len(Items(d, withHash)) /\ i < g /\ i \in Nat
  BY CountIsLength, WidthsAssumption
<1>3. CASE d.type \in StakingTypes
  <2>1. parser_getItem(d, withHash, i) = print_add_permissionless_del_val_tx(d, i)
    BY <1>2, <1>3, WidthsAssumption DEF parser_getItem, StakingTypes
  <2> QED
    BY <1>3, <2>1, StakingShown
<1>4. CASE d.type \notin StakingTypes
  <2>1. i \in 0..1 + n + h
    <3>1. g = 2 + n + h
      BY <1>2, <1>4, TransferItems
    <3> HIDE DEF g, n, h
    <3> QED
      BY <1>1, <1>2, <3>1
  <2>2. ~(i >= g)
    <3> HIDE DEF g
    <3> QED
      BY <1>2, WidthsAssumption
  <2>3. CASE d.type = "c_import_tx"
    <3> DEFINE item == EvmOutputForIndex(d, i)
    <3>1. 2 * NOuts(d) = n
      <4>1. NOuts(d) \in 0..NOuts(d)
        BY <1>1
      <4> QED
        BY <2>3, <4>1, EvmCounts, CountIsSum
    <3>2. parser_getItem(d, withHash, i) = PrintTransfer(d, i, n, item)
      <4>1. parser_getItem(d, withHash, i) = print_c_import_tx(d, i)
        BY <2>2, <2>3 DEF parser_getItem, StakingTypes
      <4> HIDE DEF n
      <4> QED
        BY <3>1, <4>1 DEF print_c_import_tx
    <3>3. i \in 1..n => item = OutputItems(d)[i]
      BY <2>3, <3>1, EvmOutputIsItem
    <3> HIDE DEF item
    <3> QED
      BY <1>4, <2>1, <3>2, <3>3, TransferShown
  <2>4. CASE d.type # "c_import_tx"
    <3> DEFINE item == SecpOutputForIndex(d, i - 1)
    <3>1. parser_getItem(d, withHash, i) = PrintTransfer(d, i, n, item)
      <4>1. d.type \in {"base_tx", "p_export_tx", "p_import_tx", "c_export_tx"}
        BY <1>4, <2>4 DEF IsDocument, TxTypes, CTypes, PTypes, StakingTypes
      <4>2. parser_getItem(d, withHash, i)
              = CASE d.type = "base_tx" -> print_base_tx(d, i)
                  [] d.type = "p_export_tx" -> print_p_export_tx(d, i)
                  [] d.type = "p_import_tx" -> print_p_import_tx(d, i)
                  [] d.type = "c_export_tx" -> print_c_export_tx(d, i)
        BY <2>2, <4>1 DEF parser_getItem, StakingTypes
      <4> HIDE DEF n
      <4>3. /\ print_base_tx(d, i) = PrintTransfer(d, i, n, item)
            /\ print_p_export_tx(d, i) = PrintTransfer(d, i, n, item)
            /\ print_p_import_tx(d, i) = PrintTransfer(d, i, n, item)
            /\ print_c_export_tx(d, i) = PrintTransfer(d, i, n, item)
        BY DEF print_base_tx, print_p_export_tx, print_p_import_tx, print_c_export_tx, n
      <4> HIDE DEF item
      <4> QED
        BY <4>1, <4>2, <4>3
    <3>2. i \in 1..n => item = OutputItems(d)[i]
      <4>1. i \in 1..n => i - 1 \in 0..NAddrs(d) + NOuts(d) - 1 /\ (i - 1) + 1 = i
        BY <1>1
      <4> HIDE DEF n
      <4> QED
        BY <4>1, SecpOutputIsItem
    <3> HIDE DEF item
    <3> QED
      BY <1>4, <2>1, <3>1, <3>2, TransferShown
  <2> QED
    BY <2>3, <2>4
<1> QED
  BY <1>3, <1>4

\* The index comes back as it was from int8_t, and a screen shows its item.
LEMMA ScreensAreItems ==
  ASSUME NEW d, IsDocument(d), NEW withHash \in BOOLEAN,
         Validated(d, withHash)
  PROVE  /\ getNumItems(d, withHash) = Len(Items(d, withHash))
         /\ \A i \in 0..getNumItems(d, withHash) - 1 :
               tx_getItem(d, withHash, i) = Items(d, withHash)[i + 1]
<1> DEFINE g == getNumItems(d, withHash)
<1>1. g # 0 /\ \A i \in 0..g - 1 : parser_getItem(d, withHash, i) # Failed
  BY DEF Validated
<1>2. g \in 1..UINT8_MAX /\ g = Len(Items(d, withHash))
  BY <1>1, CountIsLength
<1>3. ASSUME NEW i \in 0..g - 1
      PROVE  tx_getItem(d, withHash, i) = Items(d, withHash)[i + 1]
  <2>1. ToUint8(ToInt8(i)) = i /\ ToInt8(i) <= g
    <3> HIDE DEF g
    <3> QED
      BY <1>2, WidthsAssumption DEF ToUint8, ToInt8
  <2>2. tx_getItem(d, withHash, i) = parser_getItem(d, withHash, i)
    <3>1. ToInt8(i) \in Int
      <4> HIDE DEF g
      <4> QED
        BY <1>2, WidthsAssumption DEF ToInt8
    <3>2. ~(ToInt8(i) > g)
      <4> HIDE DEF g
      <4> QED
        BY <1>2, <2>1, <3>1, WidthsAssumption
    <3> QED
      BY <2>1, <3>2 DEF tx_getItem
  <2> QED
    BY <1>1, <2>2, ShownIsItem
<1> QED
  BY <1>2, <1>3
\* parser_validate reads the fee item: it checked the totals.
LEMMA ValidatedFee ==
  ASSUME NEW d, IsDocument(d), NEW withHash \in BOOLEAN,
         Validated(d, withHash)
  PROVE  FeeItem(d) # Failed
<1> DEFINE n == NAddrs(d) + NOuts(d)
           h == IF withHash THEN 1 ELSE 0
           g == getNumItems(d, withHash)
<1>1. g # 0 /\ \A i \in 0..g - 1 : parser_getItem(d, withHash, i) # Failed
  BY DEF Validated
<1>2. g \in 1..UINT8_MAX /\ g = Len(Items(d, withHash))
  BY <1>1, CountIsLength
<1>3. n \in Nat /\ NOuts(d) \in Nat /\ NAddrs(d) \in Nat /\ h \in {0, 1}
  BY OutputTypes, CountTypes
<1>4. CASE d.type \in StakingTypes
  <2>1. NStaking(d) \in {5, 6}
        /\ (NStaking(d) = 6 <=> d.type = "add_permissionless_validator_tx")
    BY DEF NStaking
  <2>2. g = NStaking(d) + 1 + h
    BY <1>2, <1>4, StakingItems
  <2>3. NStaking(d) \in 0..g - 1 /\ ~(NStaking(d) >= g)
    <3> HIDE DEF g, h
    <3>1. NStaking(d) = 5 \/ NStaking(d) = 6
      BY <2>1
    <3> QED
      BY ONLY <1>3, <2>2, <3>1
  <2>4. parser_getItem(d, withHash, NStaking(d))
          = print_add_permissionless_del_val_tx(d, NStaking(d))
    BY <1>4, <2>3 DEF parser_getItem, StakingTypes
  <2>5. print_add_permissionless_del_val_tx(d, NStaking(d)) = FeeItem(d)
    <3> DEFINE P(k) == print_add_permissionless_del_val_tx(d, k)
               validator == d.type = "add_permissionless_validator_tx"
    <3>1. /\ P(5) = IF validator THEN Other("Delegate fee") ELSE FeeItem(d)
          /\ P(6) = IF validator THEN FeeItem(d) ELSE Hash
      BY ONLY StakingPrinter
    <3> HIDE DEF P, validator
    <3>2. NStaking(d) = 5 \/ NStaking(d) = 6
      BY <2>1
    <3>3. (NStaking(d) = 6 <=> validator) /\ 5 # 6
      BY <2>1 DEF validator
    <3>4. P(NStaking(d)) = FeeItem(d)
      BY ONLY <3>1, <3>2, <3>3
    <3> QED
      BY <3>4 DEF P
  <2> QED
    BY <1>1, <2>3, <2>4, <2>5
<1>5. CASE d.type \notin StakingTypes
  <2>1. g = 2 + n + h
    BY <1>2, <1>5, TransferItems
  <2>2. n + 1 \in 0..g - 1 /\ ~(n + 1 >= g)
    <3> HIDE DEF g, h, n
    <3> QED
      BY ONLY <1>3, <2>1
  <2>3. \A item : PrintTransfer(d, n + 1, n, item) = FeeItem(d)
    <3> HIDE DEF n
    <3> QED
      BY <1>3 DEF PrintTransfer
  <2>4. \E item : parser_getItem(d, withHash, n + 1) = PrintTransfer(d, n + 1, n, item)
    <3>1. CASE d.type = "c_import_tx"
      <4>1. NOuts(d) \in 0..NOuts(d)
        BY <1>3
      <4>2. 2 * NOuts(d) = n
        BY <3>1, <4>1, EvmCounts, CountIsSum
      <4> HIDE DEF n, g
      <4>3. parser_getItem(d, withHash, n + 1) = print_c_import_tx(d, n + 1)
        BY <2>2, <3>1 DEF parser_getItem, StakingTypes, g
      <4> QED
        BY <4>2, <4>3 DEF print_c_import_tx
    <3>2. CASE d.type # "c_import_tx"
      <4> DEFINE item == SecpOutputForIndex(d, (n + 1) - 1)
      <4>1. d.type \in {"base_tx", "p_export_tx", "p_import_tx", "c_export_tx"}
        BY <1>5, <3>2 DEF IsDocument, TxTypes, CTypes, PTypes, StakingTypes
      <4> HIDE DEF n, g
      <4>2. parser_getItem(d, withHash, n + 1)
              = CASE d.type = "base_tx" -> print_base_tx(d, n + 1)
                  [] d.type = "p_export_tx" -> print_p_export_tx(d, n + 1)
                  [] d.type = "p_import_tx" -> print_p_import_tx(d, n + 1)
                  [] d.type = "c_export_tx" -> print_c_export_tx(d, n + 1)
        BY <2>2, <4>1 DEF parser_getItem, StakingTypes, g
      <4>3. /\ print_base_tx(d, n + 1) = PrintTransfer(d, n + 1, n, item)
            /\ print_p_export_tx(d, n + 1) = PrintTransfer(d, n + 1, n, item)
            /\ print_p_import_tx(d, n + 1) = PrintTransfer(d, n + 1, n, item)
            /\ print_c_export_tx(d, n + 1) = PrintTransfer(d, n + 1, n, item)
        BY DEF print_base_tx, print_p_export_tx, print_p_import_tx, print_c_export_tx, n
      <4> HIDE DEF item
      <4>4. parser_getItem(d, withHash, n + 1) = PrintTransfer(d, n + 1, n, item)
        BY <4>1, <4>2, <4>3
      <4> QED
        BY <4>4
    <3> QED
      BY <3>1, <3>2
  <2> HIDE DEF n, g
  <2> QED
    BY <1>1, <2>2, <2>3, <2>4
<1> QED
  BY <1>4, <1>5
================================================================================

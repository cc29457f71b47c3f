----------------------------- MODULE Arithmetic -----------------------------
(***************************************************************************)
(* Facts about positions on a ring of n entries, that is, about integers   *)
(* modulo n, and about sums. All rings of the data path (receive ring,     *)
(* ring of send work requests, worker queue) step through their entries    *)
(* this way; sums are what the pool of components and the allocator of     *)
(* huge pages conserve.                                                    *)
(***************************************************************************)
EXTENDS Sums, FiniteSetsExt, WellFoundedInduction, TLAPS

----------------------------------------------------------------------------
(* Positions on a ring.                                                    *)

\* A position is an index of the ring.
LEMMA ModInRange ==
  ASSUME NEW a \in Int, NEW n \in Nat \ {0}
  PROVE  a % n \in 0 .. n - 1
  BY SMT

\* Quotient and remainder.
LEMMA DivMod ==
  ASSUME NEW a \in Int, NEW n \in Nat \ {0}
  PROVE  a \div n \in Int /\ a = n * (a \div n) + (a % n)
  BY SMT

\* The only multiple of n between -n and n is zero.
LEMMA NoMultiple ==
  ASSUME NEW n \in Nat \ {0}, NEW k \in Int, -n < n * k, n * k < n
  PROVE  k = 0
<1>1. CASE k >= 1
  <2>1. n * k >= n * 1
    BY <1>1
  <2> QED
    BY <2>1
<1>2. CASE k <= -1
  <2>1. n * k <= n * (-1)
    BY <1>2
  <2> QED
    BY <2>1
<1> QED
  BY <1>1, <1>2

\* The remainder is determined by its range.
LEMMA ModUnique ==
  ASSUME NEW n \in Nat \ {0}, NEW a \in Int, NEW k \in Int, NEW r \in 0 .. n - 1,
         a = n * k + r
  PROVE  a % n = r
<1>1. /\ a = n * (a \div n) + (a % n)
      /\ a \div n \in Int
      /\ a % n \in 0 .. n - 1
  BY DivMod, ModInRange
<1>2. n * (a \div n - k) = r - (a % n)
  BY <1>1
<1>3. a \div n - k = 0
  BY <1>1, <1>2, NoMultiple
<1> QED
  BY <1>1, <1>2, <1>3

\* Reducing a position before moving on from it changes nothing.
LEMMA ModAdd ==
  ASSUME NEW n \in Nat \ {0}, NEW a \in Int, NEW x \in Int
  PROVE  ((a % n) + x) % n = (a + x) % n
<1> DEFINE s == a + x
<1>1. s \in Int /\ a % n \in Int
  OBVIOUS
<1>2. a = n * (a \div n) + (a % n) /\ a \div n \in Int
  BY DivMod
<1>3. s = n * (s \div n) + (s % n) /\ s \div n \in Int /\ s % n \in 0 .. n - 1
  BY <1>1, DivMod, ModInRange
<1>4. (a % n) + x = n * (s \div n - a \div n) + (s % n)
  BY <1>1, <1>2, <1>3
<1>5. (a % n) + x \in Int /\ s \div n - a \div n \in Int
  BY <1>1, <1>2, <1>3
<1> HIDE DEF s
<1>6. ((a % n) + x) % n = s % n
  BY <1>3, <1>4, <1>5, ModUnique
<1> QED
  BY <1>6 DEF s

\* An index of the ring is its own position.
LEMMA ModSmall ==
  ASSUME NEW n \in Nat \ {0}, NEW a \in 0 .. n - 1
  PROVE  a % n = a
  BY SMT

\* Once around the ring, either way, comes back to the same position.
LEMMA ModTurn ==
  ASSUME NEW n \in Nat \ {0}, NEW a \in Int
  PROVE  (a + n) % n = a % n /\ (a - n) % n = a % n
<1>1. a = n * (a \div n) + (a % n) /\ a \div n \in Int /\ a % n \in 0 .. n - 1
  BY DivMod, ModInRange
<1>2. /\ a + n = n * (a \div n + 1) + (a % n)
      /\ a - n = n * (a \div n - 1) + (a % n)
  BY <1>1
<1>3. (a + n) % n = a % n
  <2>1. a + n \in Int /\ a \div n + 1 \in Int
    BY <1>1
  <2> QED
    BY <1>1, <1>2, <2>1, ModUnique
<1>4. (a - n) % n = a % n
  <2>1. a - n \in Int /\ a \div n - 1 \in Int
    BY <1>1
  <2> QED
    BY <1>1, <1>2, <2>1, ModUnique
<1> QED
  BY <1>3, <1>4

\* Positions less than a turn apart are different entries.
LEMMA ModInjective ==
  ASSUME NEW n \in Nat \ {0}, NEW i \in Int, NEW j \in Int, i - j < n, j - i < n,
         i % n = j % n
  PROVE  i = j
<1>1. i = n * (i \div n) + (i % n) /\ i \div n \in Int
  BY DivMod
<1>2. j = n * (j \div n) + (j % n) /\ j \div n \in Int
  BY DivMod
<1>3. i % n \in Int
  BY ModInRange
<1>4. i - j = n * (i \div n - j \div n)
  BY <1>1, <1>2, <1>3
<1>5. i \div n - j \div n = 0
  BY <1>1, <1>2, <1>4, NoMultiple
<1> QED
  BY <1>4, <1>5

----------------------------------------------------------------------------
(* Sums. SumTo is defined by recursion: that the sums exist is shown by    *)
(* the least number of shares for which they would not.                    *)

\* A set of natural numbers that is not empty has a least member.
LEMMA LeastMember ==
  ASSUME NEW S, S \subseteq Nat, S # {}
  PROVE  Min(S) \in S /\ \A x \in S : Min(S) <= x
<1>1. \E x \in S : \A y \in S : ~(<<y, x>> \in OpToRel(<, Nat))
  BY NatLessThanWellFounded, WFMin
<1>2. PICK x \in S : \A y \in S : ~(<<y, x>> \in OpToRel(<, Nat))
  BY <1>1
<1>3. ASSUME NEW y \in S
      PROVE  x <= y
  <2>1. y \in Nat /\ x \in Nat
    OBVIOUS
  <2>2. OpToRel(<, Nat) = {p \in Nat \X Nat : p[1] < p[2]}
    BY DEF OpToRel
  <2>3. y < x => <<y, x>> \in OpToRel(<, Nat)
    BY <2>1, <2>2
  <2>4. ~(y < x)
    BY <1>2, <2>3
  <2> QED
    BY <2>1, <2>4
<1> QED
  BY <1>3 DEF Min

IsSums(f, g, n) == f[0] = 0 /\ \A i \in 1 .. n : f[i] = f[i - 1] + g[i]

\* There are sums for any shares.
LEMMA SumsExist ==
  ASSUME NEW n \in Nat, NEW g \in [1 .. n -> Nat]
  PROVE  \E f \in [0 .. n -> Nat] : IsSums(f, g, n)
<1> DEFINE Bad == {m \in 0 .. n : ~ \E f \in [0 .. m -> Nat] : IsSums(f, g, m)}
<1> SUFFICES ASSUME Bad # {}
             PROVE  FALSE
  <2>1. n \in 0 .. n
    OBVIOUS
  <2> QED
    BY <2>1
<1>1. Bad \subseteq Nat
  OBVIOUS
<1>2. PICK m \in Bad : \A x \in Bad : m <= x
  BY <1>1, LeastMember
<1>3. m \in 0 .. n /\ ~ \E f \in [0 .. m -> Nat] : IsSums(f, g, m)
  OBVIOUS
<1>4. CASE m = 0
  <2>1. [i \in 0 .. 0 |-> 0] \in [0 .. m -> Nat] /\ IsSums([i \in 0 .. 0 |-> 0], g, m)
    BY <1>4 DEF IsSums
  <2> QED
    BY <1>3, <2>1
<1>5. CASE m # 0
  <2>1. m - 1 \in 0 .. n /\ ~(m <= m - 1) /\ m \in 1 .. n
    BY <1>3, <1>5
  <2>2. m - 1 \notin Bad
    BY <1>2, <2>1
  <2>3. PICK f \in [0 .. m - 1 -> Nat] : IsSums(f, g, m - 1)
    BY <2>1, <2>2
  <2> DEFINE h == [i \in 0 .. m |-> IF i = m THEN f[m - 1] + g[m] ELSE f[i]]
  <2>4. g[m] \in Nat /\ f[m - 1] \in Nat
    BY <2>1
  <2>5. h \in [0 .. m -> Nat]
    <3> SUFFICES ASSUME NEW i \in 0 .. m
                 PROVE  (IF i = m THEN f[m - 1] + g[m] ELSE f[i]) \in Nat
      OBVIOUS
    <3>1. CASE i = m
      BY <2>4, <3>1
    <3>2. CASE i # m
      BY <1>3, <3>2
    <3> QED
      BY <3>1, <3>2
  <2>6. /\ \A i \in 0 .. m - 1 : h[i] = f[i]
        /\ h[m] = f[m - 1] + g[m]
    BY <1>3
  <2> HIDE DEF h
  <2>7. h[0] = 0
    BY <1>3, <1>5, <2>3, <2>6 DEF IsSums
  <2>8. ASSUME NEW i \in 1 .. m
        PROVE  h[i] = h[i - 1] + g[i]
    <3>1. CASE i = m
      <4>1. m - 1 \in 0 .. m - 1
        BY <1>3, <1>5
      <4> QED
        BY <2>6, <3>1, <4>1
    <3>2. CASE i # m
      <4>1. i \in 1 .. m - 1 /\ i \in 0 .. m - 1 /\ i - 1 \in 0 .. m - 1
        BY <1>3, <3>2
      <4> QED
        BY <2>3, <2>6, <4>1 DEF IsSums
    <3> QED
      BY <3>1, <3>2
  <2>9. IsSums(h, g, m)
    BY <2>7, <2>8 DEF IsSums
  <2> QED
    BY <1>3, <2>5, <2>9
<1> QED
  BY <1>4, <1>5

\* Two lists of sums differ as the shares do from one position on.
SumsOfTwo(f, h, g, e, b, d, n) ==
  /\ IsSums(f, g, n) /\ IsSums(h, e, n)
  /\ \A i \in 0 .. n : f[i] \in Int
  /\ \A i \in 1 .. n : g[i] \in Int /\ e[i] \in Int /\ e[i] = g[i] + (IF i = b THEN d ELSE 0)

Shifted(f, h, b, d, n) == \A i \in 0 .. n : h[i] = f[i] + (IF b # 0 /\ i >= b THEN d ELSE 0)

\* Where one share differs, all sums from there on do, by as much.
LEMMA SumsAlike ==
  ASSUME NEW n \in Nat, NEW f, NEW h, NEW g, NEW e, NEW b \in Nat, NEW d \in Int,
         SumsOfTwo(f, h, g, e, b, d, n)
  PROVE  Shifted(f, h, b, d, n)
<1> USE DEF SumsOfTwo, Shifted
<1> DEFINE Diff(i) == IF b # 0 /\ i >= b THEN d ELSE 0
           Bad == {i \in 0 .. n : h[i] # f[i] + Diff(i)}
<1> SUFFICES ASSUME Bad # {}
             PROVE  FALSE
  OBVIOUS
<1>1. Bad \subseteq Nat
  OBVIOUS
<1>2. PICK m \in Bad : \A x \in Bad : m <= x
  BY <1>1, LeastMember
<1>3. m \in 0 .. n /\ h[m] # f[m] + Diff(m)
  OBVIOUS
<1>4. CASE m = 0
  <2>1. Diff(0) = 0 /\ h[0] = 0 /\ f[0] = 0
    BY DEF IsSums
  <2> QED
    BY <1>3, <1>4, <2>1
<1>5. CASE m # 0
  <2>1. m - 1 \in 0 .. n /\ ~(m <= m - 1) /\ m \in 1 .. n
    BY <1>3, <1>5
  <2>2. h[m - 1] = f[m - 1] + Diff(m - 1)
    BY <1>2, <2>1
  <2>3. h[m] = h[m - 1] + e[m] /\ f[m] = f[m - 1] + g[m]
    BY <2>1 DEF IsSums
  <2>4. Diff(m) = Diff(m - 1) + (IF m = b THEN d ELSE 0)
    BY <2>1
  <2>5. Diff(m) \in Int /\ Diff(m - 1) \in Int
    OBVIOUS
  <2>6. f[m - 1] \in Int /\ g[m] \in Int /\ e[m] = g[m] + (IF m = b THEN d ELSE 0)
    BY <2>1
  <2> HIDE DEF Diff
  <2>7. h[m] = f[m] + Diff(m)
    BY <2>2, <2>3, <2>4, <2>5, <2>6
  <2> QED
    BY <1>3, <2>7
<1> QED
  BY <1>4, <1>5

\* SumTo is the last of the sums.
LEMMA SumToIs ==
  ASSUME NEW n \in Nat, NEW g \in [1 .. n -> Nat]
  PROVE  \E f \in [0 .. n -> Nat] : IsSums(f, g, n) /\ SumTo(g, n) = f[n]
<1> DEFINE Eq(f) == f = [i \in 0 .. n |-> IF i = 0 THEN 0 ELSE f[i - 1] + g[i]]
           sum == CHOOSE f : Eq(f)
<1>1. PICK f \in [0 .. n -> Nat] : IsSums(f, g, n)
  BY SumsExist
<1>2. Eq(f)
  <2>1. ASSUME NEW i \in 0 .. n
        PROVE  f[i] = IF i = 0 THEN 0 ELSE f[i - 1] + g[i]
    <3>1. CASE i = 0
      BY <1>1, <3>1 DEF IsSums
    <3>2. CASE i # 0
      <4>1. i \in 1 .. n
        BY <3>2
      <4> QED
        BY <1>1, <3>2, <4>1 DEF IsSums
    <3> QED
      BY <3>1, <3>2
  <2> QED
    BY <2>1
<1>3. Eq(sum)
  BY <1>2
<1>4. SumTo(g, n) = sum[n]
  BY DEF SumTo
<1> HIDE DEF sum
<1>5. IsSums(sum, g, n)
  <2>1. \A i \in 0 .. n : sum[i] = IF i = 0 THEN 0 ELSE sum[i - 1] + g[i]
    BY <1>3
  <2>2. 0 \in 0 .. n /\ \A i \in 1 .. n : i \in 0 .. n /\ i # 0
    OBVIOUS
  <2> QED
    BY <2>1, <2>2 DEF IsSums
<1>6. sum[n] = f[n]
  <2>1. /\ \A i \in 0 .. n : f[i] \in Int
        /\ \A i \in 1 .. n : g[i] \in Int /\ g[i] = g[i] + (IF i = 0 THEN 0 ELSE 0)
    OBVIOUS
  <2>2. Shifted(f, sum, 0, 0, n)
    <3>1. SumsOfTwo(f, sum, g, g, 0, 0, n)
      BY <1>1, <1>5, <2>1 DEF SumsOfTwo
    <3>2. 0 \in Nat /\ 0 \in Int
      OBVIOUS
    <3> QED
      BY <3>1, <3>2, SumsAlike
  <2> QED
    BY <2>2 DEF Shifted
<1> QED
  BY <1>1, <1>4, <1>6

\* The sum with one share changed, and the sum of nothing.
LEMMA SumChanged ==
  ASSUME NEW n \in Nat, NEW g \in [1 .. n -> Nat], NEW e \in [1 .. n -> Nat], NEW b \in 1 .. n,
         \A i \in 1 .. n \ {b} : e[i] = g[i]
  PROVE  SumTo(g, n) \in Nat /\ SumTo(e, n) \in Nat /\ SumTo(e, n) = SumTo(g, n) + e[b] - g[b]
<1>1. PICK f \in [0 .. n -> Nat] : IsSums(f, g, n) /\ SumTo(g, n) = f[n]
  BY SumToIs
<1>2. PICK h \in [0 .. n -> Nat] : IsSums(h, e, n) /\ SumTo(e, n) = h[n]
  BY SumToIs
<1>3. PICK d \in Int : d = e[b] - g[b]
  OBVIOUS
<1>4. \A i \in 1 .. n : g[i] \in Int /\ e[i] \in Int /\ e[i] = g[i] + (IF i = b THEN d ELSE 0)
  BY <1>3
<1>5. \A i \in 0 .. n : f[i] \in Int
  OBVIOUS
<1>6. Shifted(f, h, b, d, n)
  <2>1. SumsOfTwo(f, h, g, e, b, d, n)
    BY <1>1, <1>2, <1>4, <1>5 DEF SumsOfTwo
  <2>2. b \in Nat
    OBVIOUS
  <2> QED
    BY <2>1, <2>2, SumsAlike
<1>7. h[n] = f[n] + d
  BY <1>6 DEF Shifted
<1>8. f[n] \in Nat /\ h[n] \in Nat /\ e[b] \in Nat /\ g[b] \in Nat
  OBVIOUS
<1> QED
  BY <1>1, <1>2, <1>3, <1>7, <1>8

\* The sum of shares that are all zero.
LEMMA SumOfNothing ==
  ASSUME NEW n \in Nat, NEW g \in [1 .. n -> Nat], \A i \in 1 .. n : g[i] = 0
  PROVE  SumTo(g, n) = 0
<1>1. PICK f \in [0 .. n -> Nat] : IsSums(f, g, n) /\ SumTo(g, n) = f[n]
  BY SumToIs
<1> DEFINE h == [i \in 0 .. n |-> 0]
<1>2. IsSums(h, g, n)
  <2>1. h[0] = 0 /\ \A i \in 1 .. n : h[i] = 0 /\ h[i - 1] = 0 /\ g[i] = 0
    OBVIOUS
  <2> HIDE DEF h
  <2> QED
    BY <2>1 DEF IsSums
<1>3. /\ \A i \in 0 .. n : h[i] \in Int
      /\ \A i \in 1 .. n : g[i] \in Int /\ g[i] = g[i] + (IF i = 0 THEN 0 ELSE 0)
  OBVIOUS
<1>4. h[n] = 0
  OBVIOUS
<1> HIDE DEF h
<1>5. Shifted(h, f, 0, 0, n)
  <2>1. SumsOfTwo(h, f, g, g, 0, 0, n)
    BY <1>1, <1>2, <1>3 DEF SumsOfTwo
  <2>2. 0 \in Nat /\ 0 \in Int
    OBVIOUS
  <2> QED
    BY <2>1, <2>2, SumsAlike
<1> QED
  BY <1>1, <1>4, <1>5 DEF Shifted

=============================================================================

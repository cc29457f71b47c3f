-------------------------- MODULE SocChannelProofs --------------------------
(***************************************************************************)
(* Theorems about SocChannel, for any number of size classes and all sizes *)
(* of rings and buffers that fit: the entries of both rings and the free   *)
(* buffers are disjoint, the allocator never comes back empty-handed, and  *)
(* no memory gets lost.                                                    *)
(***************************************************************************)
EXTENDS SocChannel, Arithmetic, SequenceTheorems

----------------------------------------------------------------------------
(* Powers of two. Power2 is defined by recursion: that the powers exist is *)
(* shown by the least exponent for which they would not.                   *)

IsPowers(f, n) == f[0] = 1 /\ \A i \in 1 .. n : f[i] = 2 * f[i - 1]

\* There are powers up to any exponent.
LEMMA PowersExist ==
  ASSUME NEW n \in Nat
  PROVE  \E f \in [0 .. n -> Nat \ {0}] : IsPowers(f, n)
<1> DEFINE Bad == {m \in 0 .. n : ~ \E f \in [0 .. m -> Nat \ {0}] : IsPowers(f, m)}
<1> SUFFICES ASSUME Bad # {}
             PROVE  FALSE
  <2>1. n \in 0 .. n
    OBVIOUS
  <2> QED
    BY <2>1
<1>1. Bad \subseteq Nat
  OBVIOUS
<1>2. PICK m \in Bad : \A x \in Bad : m <= x
  BY <1>1, LeastMember
<1>3. m \in 0 .. n /\ ~ \E f \in [0 .. m -> Nat \ {0}] : IsPowers(f, m)
  OBVIOUS
<1>4. CASE m = 0
  <2>1. [i \in 0 .. 0 |-> 1] \in [0 .. m -> Nat \ {0}] /\ IsPowers([i \in 0 .. 0 |-> 1], m)
    BY <1>4 DEF IsPowers
  <2> QED
    BY <1>3, <2>1
<1>5. CASE m # 0
  <2>1. m - 1 \in 0 .. n /\ ~(m <= m - 1) /\ m \in 1 .. n
    BY <1>3, <1>5
  <2>2. m - 1 \notin Bad
    BY <1>2, <2>1
  <2>3. PICK f \in [0 .. m - 1 -> Nat \ {0}] : IsPowers(f, m - 1)
    BY <2>1, <2>2
  <2> DEFINE h == [i \in 0 .. m |-> IF i = m THEN 2 * f[m - 1] ELSE f[i]]
  <2>4. f[m - 1] \in Nat \ {0}
    BY <2>1
  <2>5. h \in [0 .. m -> Nat \ {0}]
    <3> SUFFICES ASSUME NEW i \in 0 .. m
                 PROVE  (IF i = m THEN 2 * f[m - 1] ELSE f[i]) \in Nat \ {0}
      OBVIOUS
    <3>1. CASE i = m
      BY <2>4, <3>1
    <3>2. CASE i # m
      BY <1>3, <3>2
    <3> QED
      BY <3>1, <3>2
  <2>6. /\ \A i \in 0 .. m - 1 : h[i] = f[i]
        /\ h[m] = 2 * f[m - 1]
    BY <1>3
  <2> HIDE DEF h
  <2>7. h[0] = 1
    BY <1>3, <1>5, <2>3, <2>6 DEF IsPowers
  <2>8. ASSUME NEW i \in 1 .. m
        PROVE  h[i] = 2 * h[i - 1]
    <3>1. CASE i = m
      <4>1. m - 1 \in 0 .. m - 1
        BY <1>3, <1>5
      <4> QED
        BY <2>6, <3>1, <4>1
    <3>2. CASE i # m
      <4>1. i \in 1 .. m - 1 /\ i \in 0 .. m - 1 /\ i - 1 \in 0 .. m - 1
        BY <1>3, <3>2
      <4> QED
        BY <2>3, <2>6, <4>1 DEF IsPowers
    <3> QED
      BY <3>1, <3>2
  <2>9. IsPowers(h, m)
    BY <2>7, <2>8 DEF IsPowers
  <2> QED
    BY <1>3, <2>5, <2>9
<1> QED
  BY <1>4, <1>5

SamePowers(f, h, n) == \A i \in 0 .. n : f[i] = h[i]

\* The powers are determined by the recursion.
LEMMA PowersAlike ==
  ASSUME NEW n \in Nat, NEW f, NEW h, IsPowers(f, n), IsPowers(h, n)
  PROVE  SamePowers(f, h, n)
<1> DEFINE Bad == {i \in 0 .. n : f[i] # h[i]}
<1> SUFFICES ASSUME Bad # {}
             PROVE  FALSE
  BY DEF SamePowers
<1>1. Bad \subseteq Nat
  OBVIOUS
<1>2. PICK m \in Bad : \A x \in Bad : m <= x
  BY <1>1, LeastMember
<1>3. m \in 0 .. n /\ f[m] # h[m]
  OBVIOUS
<1>4. m # 0
  BY <1>3 DEF IsPowers
<1>5. m - 1 \in 0 .. n /\ ~(m <= m - 1) /\ m \in 1 .. n
  BY <1>3, <1>4
<1>6. f[m - 1] = h[m - 1]
  BY <1>2, <1>5
<1>7. f[m] = 2 * f[m - 1] /\ h[m] = 2 * h[m - 1]
  BY <1>5 DEF IsPowers
<1> QED
  BY <1>3, <1>6, <1>7

\* Power2 is the last of the powers.
LEMMA Power2Is ==
  ASSUME NEW n \in Nat
  PROVE  \E f \in [0 .. n -> Nat \ {0}] : IsPowers(f, n) /\ Power2(n) = f[n]
<1> DEFINE Eq(f) == f = [i \in 0 .. n |-> IF i = 0 THEN 1 ELSE 2 * f[i - 1]]
           power == CHOOSE f : Eq(f)
<1>1. PICK f \in [0 .. n -> Nat \ {0}] : IsPowers(f, n)
  BY PowersExist
<1>2. Eq(f)
  <2>1. ASSUME NEW i \in 0 .. n
        PROVE  f[i] = IF i = 0 THEN 1 ELSE 2 * f[i - 1]
    <3>1. CASE i = 0
      BY <1>1, <3>1 DEF IsPowers
    <3>2. CASE i # 0
      <4>1. i \in 1 .. n
        BY <3>2
      <4> QED
        BY <1>1, <3>2, <4>1 DEF IsPowers
    <3> QED
      BY <3>1, <3>2
  <2> QED
    BY <2>1
<1>3. Eq(power)
  BY <1>2
<1>4. Power2(n) = power[n]
  BY DEF Power2
<1> HIDE DEF power
<1>5. IsPowers(power, n)
  <2>1. \A i \in 0 .. n : power[i] = IF i = 0 THEN 1 ELSE 2 * power[i - 1]
    BY <1>3
  <2>2. 0 \in 0 .. n /\ \A i \in 1 .. n : i \in 0 .. n /\ i # 0
    OBVIOUS
  <2> QED
    BY <2>1, <2>2 DEF IsPowers
<1>6. power[n] = f[n]
  BY <1>1, <1>5, PowersAlike DEF SamePowers
<1> QED
  BY <1>1, <1>4, <1>6

\* What is used of powers of two: they are positive and double.
LEMMA Power2Doubles ==
  ASSUME NEW n \in Nat
  PROVE  /\ Power2(n) \in Nat \ {0}
         /\ Power2(0) = 1
         /\ Power2(n + 1) = 2 * Power2(n)
<1>1. PICK f \in [0 .. n -> Nat \ {0}] : IsPowers(f, n) /\ Power2(n) = f[n]
  BY Power2Is
<1>2. PICK h \in [0 .. n + 1 -> Nat \ {0}] : IsPowers(h, n + 1) /\ Power2(n + 1) = h[n + 1]
  <2>1. n + 1 \in Nat
    OBVIOUS
  <2> QED
    BY <2>1, Power2Is
<1>3. PICK g \in [0 .. 0 -> Nat \ {0}] : IsPowers(g, 0) /\ Power2(0) = g[0]
  <2>1. 0 \in Nat
    OBVIOUS
  <2> QED
    BY <2>1, Power2Is
<1>4. IsPowers(h, n)
  BY <1>2 DEF IsPowers
<1>5. h[n] = f[n]
  BY <1>1, <1>4, PowersAlike DEF SamePowers
<1>6. h[n + 1] = 2 * h[n]
  BY <1>2 DEF IsPowers
<1> QED
  BY <1>1, <1>2, <1>3, <1>5, <1>6 DEF IsPowers

\* A larger exponent gives a power that is not smaller.
LEMMA Power2Grows ==
  ASSUME NEW i \in Nat, NEW j \in Nat, i <= j
  PROVE  Power2(i) <= Power2(j)
<1> DEFINE Bad == {m \in Nat : i <= m /\ ~(Power2(i) <= Power2(m))}
<1> SUFFICES ASSUME Bad # {}
             PROVE  FALSE
  OBVIOUS
<1>1. Bad \subseteq Nat
  OBVIOUS
<1>2. PICK m \in Bad : \A x \in Bad : m <= x
  BY <1>1, LeastMember
<1>3. m \in Nat /\ i <= m /\ ~(Power2(i) <= Power2(m))
  OBVIOUS
<1>4. Power2(i) \in Nat /\ m # i
  BY <1>3, Power2Doubles
<1>5. m - 1 \in Nat /\ i <= m - 1 /\ ~(m <= m - 1)
  BY <1>3, <1>4
<1>6. Power2(i) <= Power2(m - 1)
  BY <1>2, <1>5
<1>7. Power2(m - 1) \in Nat /\ Power2((m - 1) + 1) = 2 * Power2(m - 1) /\ (m - 1) + 1 = m
  BY <1>5, Power2Doubles
<1> QED
  BY <1>3, <1>4, <1>6, <1>7

\* A power of two exceeds its exponent.
LEMMA Power2Exceeds ==
  ASSUME NEW n \in Nat
  PROVE  n < Power2(n)
<1> DEFINE Bad == {m \in Nat : ~(m < Power2(m))}
<1> SUFFICES ASSUME Bad # {}
             PROVE  FALSE
  OBVIOUS
<1>1. Bad \subseteq Nat
  OBVIOUS
<1>2. PICK m \in Bad : \A x \in Bad : m <= x
  BY <1>1, LeastMember
<1>3. m \in Nat /\ ~(m < Power2(m))
  OBVIOUS
<1>4. m # 0
  BY <1>3, Power2Doubles
<1>5. m - 1 \in Nat /\ ~(m <= m - 1)
  BY <1>3, <1>4
<1>6. m - 1 < Power2(m - 1)
  BY <1>2, <1>5
<1>7. Power2(m - 1) \in Nat \ {0} /\ Power2((m - 1) + 1) = 2 * Power2(m - 1)
  BY <1>5, Power2Doubles
<1>8. (m - 1) + 1 = m
  BY <1>3
<1>9. Power2(m) = 2 * Power2(m - 1)
  BY <1>7, <1>8
<1> QED
  BY <1>3, <1>6, <1>7, <1>9

----------------------------------------------------------------------------
(* The classes.                                                            *)

\* The highest bit set of x: x lies between two powers of two.
LEMMA MsbIndexIs ==
  ASSUME NEW x \in Nat
  PROVE  /\ MsbIndex(x) \in Nat
         /\ x < Power2(MsbIndex(x))
         /\ MsbIndex(x) # 0 => Power2(MsbIndex(x) - 1) <= x
<1>1. CASE x = 0
  <2>1. Power2(0) = 1
    BY Power2Doubles, <1>1
  <2> QED
    BY <1>1, <2>1 DEF MsbIndex
<1>2. CASE x # 0
  <2> DEFINE Above == {n \in Nat : x < Power2(n)}
             P(n) == Power2(n - 1) <= x /\ x < Power2(n)
  <2>1. Above \subseteq Nat /\ x \in Above
    BY Power2Exceeds
  <2>2. PICK m \in Above : \A n \in Above : m <= n
    BY <2>1, LeastMember
  <2>3. m \in Nat /\ x < Power2(m) /\ m <= x
    BY <2>1, <2>2
  <2>4. m # 0
    BY <1>2, <2>3, Power2Doubles
  <2>5. m - 1 \in Nat /\ ~(m <= m - 1) /\ m \in 1 .. x
    BY <2>3, <2>4
  <2>6. ~(x < Power2(m - 1)) /\ Power2(m - 1) \in Nat
    BY <2>2, <2>5, Power2Doubles
  <2>7. P(m)
    BY <2>3, <2>6
  <2>8. MsbIndex(x) = CHOOSE n \in 1 .. x : P(n)
    BY <1>2 DEF MsbIndex
  <2> HIDE DEF P
  <2>9. MsbIndex(x) \in 1 .. x /\ P(MsbIndex(x))
    BY <2>5, <2>7, <2>8
  <2> QED
    BY <2>9 DEF P
<1> QED
  BY <1>1, <1>2

\* Of the limits of the classes only this is used: they are positive and
\* double from class to class.
LEMMA ClassSizes ==
  ASSUME NEW c \in Nat
  PROVE  /\ ClassMaxSize(c) \in Nat \ {0}
         /\ ClassMaxSize(c + 1) = 2 * ClassMaxSize(c)
<1> DEFINE p == Power2(c)
<1>1. p \in Nat \ {0} /\ Power2(c + 1) = 2 * p
  BY Power2Doubles
<1>2. MinClassSize \in Nat \ {0}
  BY ClassAssumption
<1> HIDE DEF p
<1>3. MinClassSize * p \in Nat \ {0} /\ MinClassSize * (2 * p) = 2 * (MinClassSize * p)
  BY <1>1, <1>2
<1> QED
  BY <1>1, <1>3 DEF ClassMaxSize, p

\* Of two factors of Min the larger one gives the larger product.
LEMMA ProductGrows ==
  ASSUME NEW a \in Nat, NEW i \in Int, NEW j \in Int, i <= j
  PROVE  a * i <= a * j
OBVIOUS

\* A larger class has a limit that is not smaller.
LEMMA ClassesGrow ==
  ASSUME NEW i \in Nat, NEW j \in Nat, i <= j
  PROVE  ClassMaxSize(i) <= ClassMaxSize(j)
<1>1. Power2(i) \in Int /\ Power2(j) \in Int /\ Power2(i) <= Power2(j) /\ MinClassSize \in Nat
  BY Power2Doubles, Power2Grows, ClassAssumption
<1> QED
  BY <1>1, ProductGrows DEF ClassMaxSize

\* A quotient is below p exactly if the dividend is below p divisors.
LEMMA QuotientBelow ==
  ASSUME NEW a \in Nat, NEW n \in Nat \ {0}, NEW p \in Nat
  PROVE  a \div n \in Nat /\ (a \div n < p <=> a < n * p)
<1> DEFINE d == a \div n
           r == a % n
<1>1. d \in Int /\ a = n * d + r /\ r \in 0 .. n - 1
  BY DivMod, ModInRange
<1> HIDE DEF d, r
<1>2. d >= 0
  <2> SUFFICES ASSUME d <= -1
               PROVE  FALSE
    BY <1>1
  <2>1. n * d <= n * (-1)
    BY <1>1, ProductGrows
  <2> QED
    BY <1>1, <2>1
<1>3. ASSUME d < p
      PROVE  a < n * p
  <2>1. n * (d + 1) <= n * p
    BY <1>1, <1>3, ProductGrows
  <2>2. n * (d + 1) = n * d + n /\ n * d \in Int /\ n * p \in Int
    BY <1>1
  <2> QED
    BY <1>1, <2>1, <2>2
<1>4. ASSUME p <= d
      PROVE  ~(a < n * p)
  <2>1. n * p <= n * d
    BY <1>1, <1>4, ProductGrows
  <2>2. n * d \in Int /\ n * p \in Int
    BY <1>1
  <2> QED
    BY <1>1, <2>1, <2>2
<1> QED
  BY <1>1, <1>2, <1>3, <1>4 DEF d

\* The class of a size is the smallest one that takes it, and get_class agrees
\* with its reference function.
LEMMA ClassOfSize ==
  ASSUME NEW s \in Nat \ {0}, s <= MaxClassSize
  PROVE  /\ GetClass(s) \in Classes
         /\ s <= ClassMaxSize(GetClass(s))
         /\ GetClass(s) # 0 => ClassMaxSize(GetClass(s) - 1) < s
         /\ GetClassSlow(s) = GetClass(s)
<1> DEFINE y == (s - 1) \div MinClassSize
           n == GetClass(s)
<1>1. MinClassSize \in Nat \ {0} /\ s - 1 \in Nat /\ NumClasses - 1 \in Nat
  BY ClassAssumption
<1>2. y \in Nat
  BY <1>1, QuotientBelow
<1>3. n \in Nat /\ y < Power2(n) /\ (n # 0 => Power2(n - 1) <= y)
  BY <1>2, MsbIndexIs DEF GetClass
<1>4. Power2(n) \in Nat /\ ClassMaxSize(n) = MinClassSize * Power2(n) /\ ClassMaxSize(n) \in Nat
  BY <1>3, Power2Doubles, ClassSizes DEF ClassMaxSize
<1>5. s <= ClassMaxSize(n)
  <2>1. s - 1 < MinClassSize * Power2(n)
    BY <1>1, <1>3, <1>4, QuotientBelow
  <2> QED
    BY <1>4, <2>1
<1>6. ASSUME n # 0
      PROVE  ClassMaxSize(n - 1) < s /\ n - 1 \in Nat /\ ClassMaxSize(n - 1) \in Nat
  <2>1. n - 1 \in Nat
    BY <1>3, <1>6
  <2>2. Power2(n - 1) \in Nat /\ Power2(n - 1) <= y /\ ClassMaxSize(n - 1) \in Nat
        /\ ClassMaxSize(n - 1) = MinClassSize * Power2(n - 1)
    BY <1>3, <1>6, <2>1, Power2Doubles, ClassSizes DEF ClassMaxSize
  <2> HIDE DEF n
  <2>3. ~(y < Power2(n - 1))
    BY <1>2, <2>2
  <2>4. ~(s - 1 < MinClassSize * Power2(n - 1))
    BY <1>1, <2>2, <2>3, QuotientBelow
  <2> QED
    BY <2>1, <2>2, <2>4
<1> HIDE DEF n, y
<1>7. n \in Classes
  <2> SUFFICES ASSUME NumClasses - 1 < n
               PROVE  FALSE
    BY <1>1, <1>3 DEF Classes
  <2>1. n # 0 /\ NumClasses - 1 <= n - 1
    BY <1>1, <1>3
  <2>2. ClassMaxSize(NumClasses - 1) <= ClassMaxSize(n - 1)
    BY <1>1, <1>6, <2>1, ClassesGrow
  <2>3. ClassMaxSize(NumClasses - 1) \in Nat
    BY <1>1, ClassSizes
  <2> QED
    BY <1>6, <2>1, <2>2, <2>3 DEF MaxClassSize
<1> DEFINE Q(c) == s <= ClassMaxSize(c) /\ \A d \in 0 .. c - 1 : s > ClassMaxSize(d)
<1>8. Q(n)
  <2> SUFFICES ASSUME NEW d \in 0 .. n - 1
               PROVE  s > ClassMaxSize(d)
    BY <1>5
  <2>1. n # 0 /\ d \in Nat /\ d <= n - 1
    BY <1>3
  <2>2. ClassMaxSize(d) \in Nat /\ ClassMaxSize(d) <= ClassMaxSize(n - 1)
    BY <1>6, <2>1, ClassesGrow, ClassSizes
  <2> QED
    BY <1>6, <2>1, <2>2
<1>9. ASSUME NEW c \in Classes, Q(c)
      PROVE  c = n
  <2>1. c \in Nat /\ ClassMaxSize(c) \in Nat
    BY <1>1, ClassSizes DEF Classes
  <2>2. ~(c < n)
    <3> SUFFICES ASSUME c < n
                 PROVE  FALSE
      OBVIOUS
    <3>1. c \in 0 .. n - 1
      BY <1>3, <2>1
    <3> QED
      BY <1>8, <1>9, <2>1, <3>1
  <2>3. ~(n < c)
    <3> SUFFICES ASSUME n < c
                 PROVE  FALSE
      OBVIOUS
    <3>1. n \in 0 .. c - 1
      BY <1>3, <2>1
    <3> QED
      BY <1>4, <1>5, <1>9, <3>1
  <2> QED
    BY <1>3, <2>1, <2>2, <2>3
<1> HIDE DEF Q
<1>10. GetClassSlow(s) = n
  <2>1. GetClassSlow(s) = CHOOSE c \in Classes : Q(c)
    BY DEF GetClassSlow, Q
  <2> QED
    BY <1>7, <1>8, <1>9, <2>1
<1> QED
  BY <1>5, <1>6, <1>7, <1>10 DEF n

----------------------------------------------------------------------------
(* The sizes.                                                              *)

Top == NumClasses - 1
RingClass == GetClass(RingExtentSize)
Wholes == MemRegionSize \div MaxClassSize

\* The region is a number of buffers of the largest class.
LEMMA RegionSize ==
  ASSUME sizing \in Sizings
  PROVE  /\ sizing.rq \in Nat \ {0} /\ sizing.sq \in Nat \ {0} /\ sizing.mbuf \in Nat \ {0}
         /\ RingExtentSize \in Nat \ {0} /\ RingExtentSize <= MaxClassSize
         /\ sizing.mbuf <= RingExtentSize
         /\ MaxClassSize \in Nat \ {0}
         /\ MemRegionSize \in Nat \ {0} /\ 2 * RingExtentSize < MemRegionSize
         /\ MemRegionSize % MaxClassSize = 0
         /\ Wholes \in Nat \ {0} /\ MemRegionSize = MaxClassSize * Wholes
<1> DEFINE rq == sizing.rq
           sq == sizing.sq
           mbuf == sizing.mbuf
           max == MaxClassSize
<1>1. /\ rq \in Nat \ {0} /\ sq \in Nat \ {0} /\ mbuf \in Nat \ {0}
      /\ rq * mbuf <= max /\ (2 * mbuf * (rq + sq)) % max = 0
  BY SizingsAssumption
<1>2. max \in Nat \ {0}
  <2>1. NumClasses - 1 \in Nat
    BY ClassAssumption
  <2> QED
    BY <2>1, ClassSizes DEF MaxClassSize
<1> DEFINE ext == rq * mbuf
           reg == 2 * (mbuf * rq + mbuf * sq)
<1>3. RingExtentSize = ext /\ MemRegionSize = reg
  BY DEF RingExtentSize, MemRegionSize
<1> HIDE DEF rq, sq, mbuf, max
<1>4. ext \in Nat \ {0} /\ mbuf * sq \in Nat \ {0} /\ mbuf * rq = ext
  BY <1>1
<1>5. mbuf <= ext
  <2>1. mbuf * 1 <= mbuf * rq
    BY <1>1, ProductGrows
  <2> QED
    BY <1>1, <1>4, <2>1
<1>6. reg = 2 * mbuf * (rq + sq)
  BY <1>1
<1>7. reg \in Nat \ {0} /\ 2 * ext < reg
  BY <1>4
<1>8. reg % max = 0
  BY <1>1, <1>6
<1> HIDE DEF reg, ext
<1>9. reg \div max \in Int /\ reg = max * (reg \div max)
  BY <1>2, <1>7, <1>8, DivMod
<1>10. reg \div max \in Nat /\ reg \div max # 0
  BY <1>2, <1>7, <1>9, QuotientBelow
<1>11. MaxClassSize \in Nat \ {0} /\ MemRegionSize = reg /\ Wholes = reg \div max
  BY <1>2, <1>3 DEF max, Wholes
<1> QED
  BY <1>1, <1>3, <1>4, <1>5, <1>7, <1>8, <1>9, <1>10, <1>11 DEF ext, rq, sq, mbuf, max

\* The class a ring is served from; when it is the largest one, the region has
\* a buffer for each ring.
LEMMA RingSize ==
  ASSUME sizing \in Sizings
  PROVE  /\ RingClass \in Classes /\ RingClass \in Nat /\ Top \in Classes /\ Top \in Nat \ {0}
         /\ RingClass <= Top
         /\ RingExtentSize <= ClassMaxSize(RingClass)
         /\ ClassMaxSize(RingClass) \in Nat \ {0}
         /\ ClassMaxSize(Top) = MaxClassSize
         /\ RingClass = Top => Wholes >= 2
         /\ 2 * ClassMaxSize(RingClass) <= MemRegionSize
         /\ GetClassSlow(RingExtentSize) = RingClass
<1>1. NumClasses \in Nat \ {0, 1}
  BY ClassAssumption
<1>2. /\ RingExtentSize \in Nat \ {0} /\ RingExtentSize <= MaxClassSize
      /\ MaxClassSize \in Nat \ {0} /\ 2 * RingExtentSize < MemRegionSize
      /\ Wholes \in Nat \ {0} /\ MemRegionSize = MaxClassSize * Wholes
  BY RegionSize
<1>3. /\ RingClass \in Classes /\ RingExtentSize <= ClassMaxSize(RingClass)
      /\ RingClass # 0 => ClassMaxSize(RingClass - 1) < RingExtentSize
      /\ GetClassSlow(RingExtentSize) = RingClass
  BY <1>2, ClassOfSize DEF RingClass
<1>4. RingClass \in Nat /\ Top \in Classes /\ Top \in Nat \ {0} /\ RingClass <= Top
  BY <1>1, <1>3 DEF Classes, Top
<1>5. ClassMaxSize(Top) = MaxClassSize /\ ClassMaxSize(RingClass) \in Nat \ {0}
  BY <1>4, ClassSizes DEF Top, MaxClassSize
<1>6. Top - 1 \in Nat /\ ClassMaxSize(Top - 1) \in Nat /\ 2 * ClassMaxSize(Top - 1) = MaxClassSize
  <2>1. Top - 1 \in Nat /\ (Top - 1) + 1 = Top
    BY <1>4
  <2>2. ClassMaxSize(Top - 1) \in Nat /\ ClassMaxSize((Top - 1) + 1) = 2 * ClassMaxSize(Top - 1)
    BY <2>1, ClassSizes
  <2> QED
    BY <1>5, <2>1, <2>2
<1>7. ASSUME RingClass = Top
      PROVE  Wholes >= 2
  <2>1. ClassMaxSize(Top - 1) < RingExtentSize
    BY <1>3, <1>4, <1>7
  <2>2. MaxClassSize < MaxClassSize * Wholes
    BY <1>2, <1>6, <2>1
  <2>3. Wholes # 1
    BY <1>2, <2>2
  <2> QED
    BY <1>2, <2>3
<1>8. 2 * ClassMaxSize(RingClass) <= MemRegionSize
  <2>1. CASE RingClass = Top
    <3>1. MaxClassSize * 2 <= MaxClassSize * Wholes
      BY <1>2, <1>7, <2>1, ProductGrows
    <3> QED
      BY <1>2, <1>5, <2>1, <3>1
  <2>2. CASE RingClass # Top
    <3>1. ClassMaxSize(RingClass) <= ClassMaxSize(Top - 1)
      BY <1>4, <1>6, <2>2, ClassesGrow
    <3>2. MaxClassSize * 1 <= MaxClassSize * Wholes
      BY <1>2, ProductGrows
    <3> QED
      BY <1>2, <1>5, <1>6, <3>1, <3>2
  <2> QED
    BY <2>1, <2>2
<1> QED
  BY <1>3, <1>4, <1>5, <1>7, <1>8

----------------------------------------------------------------------------
(* The invariant.                                                          *)

Early == {"resolve", "roce", "pd", "verbs", "raw", "register", "failed", "aborted"}
Placed == {"alloc", "split", "sends", "allocated"}

Buffers == [addr : Nat, class_size : Nat]

\* How many rings have been cut, and where a ring begins.
Cut == IF pc \in {"alloc", "split"} THEN side - 1
       ELSE IF pc \in {"sends", "allocated"} THEN side ELSE 0
Base(q) == rx_ring[q][1]

Basics ==
  /\ sizing \in Sizings
  /\ side \in {1, 2}
  /\ verbs \subseteq {1, 2} \X VerbsParts
  /\ shm \in Seq(Nat)
  /\ freelist \in [Classes -> Seq(Buffers)]
  /\ next_class \in Classes

\* Nothing is handed out before the region is registered; from then on one
\* ring after the other is.
Phases ==
  /\ pc \in Early \cup Placed
  /\ pc \in {"raw", "register"} => side = 1
  /\ pc = "allocated" => side = 2
  /\ mr = IF pc \in Placed THEN MemRegionSize ELSE 0
  /\ user_alloc = Cut * ClassMaxSize(RingClass)
  /\ send_wr = IF pc = "allocated" THEN {1, 2} ELSE IF pc \in Placed THEN 1 .. side - 1 ELSE {}

\* A ring that was cut is one extent of the region.
Rings ==
  /\ rx_ring = [q \in {1, 2} |-> rx_ring[q]]
  /\ \A q \in {1, 2} :
       /\ q > Cut => rx_ring[q] = <<>>
       /\ q <= Cut => /\ Base(q) \in 0 .. MemRegionSize - RingExtentSize
                      /\ rx_ring[q] = [i \in 1 .. sizing.rq |-> Base(q) + (i - 1) * sizing.mbuf]

\* A buffer in a list has the size of its class and lies within the region.
Lists ==
  \A c \in Classes : \A i \in 1 .. Len(freelist[c]) :
    /\ freelist[c][i].class_size = ClassMaxSize(c)
    /\ freelist[c][i].addr \in 0 .. MemRegionSize - ClassMaxSize(c)

\* Which lists have buffers. The first ring starts from whole buffers and
\* splits one at most, of which it leaves the other half to the second ring.
Shape ==
  /\ pc \in Early => \A c \in Classes : freelist[c] = <<>>
  /\ pc = "alloc" /\ side = 1 =>
       \A c \in Classes : Len(freelist[c]) = IF c = Top THEN Wholes ELSE 0
  /\ pc = "alloc" /\ side = 2 => Len(freelist[RingClass]) >= 1
  /\ pc = "split" => RingClass <= next_class /\ Len(freelist[next_class]) >= 1
  /\ pc = "split" /\ side = 1 =>
       /\ \A c \in Classes : c < next_class => freelist[c] = <<>>
       /\ Len(freelist[next_class]) >= IF next_class = Top THEN Wholes ELSE 2
  /\ pc = "split" /\ side = 2 => next_class = RingClass
  /\ pc = "sends" => next_class = RingClass
  /\ pc = "sends" /\ side = 1 => Len(freelist[RingClass]) >= 1

\* The m bytes from a on and the n bytes from b on have none in common.
Disjoint(a, m, b, n) == a + m <= b \/ b + n <= a

FreeApart ==
  \A c, d \in Classes : \A i \in 1 .. Len(freelist[c]), j \in 1 .. Len(freelist[d]) :
    c # d \/ i # j =>
      Disjoint(freelist[c][i].addr, ClassMaxSize(c), freelist[d][j].addr, ClassMaxSize(d))

RingsFree ==
  \A q \in 1 .. Cut : \A c \in Classes : \A i \in 1 .. Len(freelist[c]) :
    Disjoint(Base(q), RingExtentSize, freelist[c][i].addr, ClassMaxSize(c))

RingsApart == Cut = 2 => Disjoint(Base(1), RingExtentSize, Base(2), RingExtentSize)

ChannelInv ==
  Basics /\ Phases /\ Rings /\ Lists /\ Shape /\ FreeApart /\ RingsFree /\ RingsApart

\* At first there is nothing.
LEMMA ChannelInit == Init => ChannelInv
<1> SUFFICES ASSUME Init
             PROVE  ChannelInv
  OBVIOUS
<1>1. /\ sizing \in Sizings /\ pc = "resolve" /\ side = 1 /\ verbs = {} /\ mr = 0
      /\ rx_ring = [q \in {1, 2} |-> <<>>] /\ send_wr = {} /\ shm = <<>>
      /\ freelist = [c \in Classes |-> <<>>] /\ user_alloc = 0 /\ next_class = 0
  BY DEF Init, AllocInit
<1>2. Cut = 0 /\ ClassMaxSize(RingClass) \in Nat
  BY <1>1, RingSize DEF Cut
<1>3. \A c \in Classes : freelist[c] = <<>> /\ Len(freelist[c]) = 0
  BY <1>1
<1>4. Basics
  <2>1. 0 \in Classes
    BY ClassAssumption DEF Classes
  <2>2. <<>> \in Seq(Nat) /\ <<>> \in Seq(Buffers)
    OBVIOUS
  <2> QED
    BY <1>1, <2>1, <2>2 DEF Basics
<1>5. Phases
  BY <1>1, <1>2 DEF Phases, Early, Placed
<1>6. Rings
  BY <1>1, <1>2 DEF Rings
<1>7. Lists /\ FreeApart /\ RingsFree /\ RingsApart
  BY <1>2, <1>3 DEF Lists, FreeApart, RingsFree, RingsApart
<1>8. Shape
  BY <1>1, <1>3 DEF Shape
<1> QED
  BY <1>4, <1>5, <1>6, <1>7, <1>8 DEF ChannelInv

\* The sizes are compiled in.
LEMMA SizesStay ==
  ASSUME sizing' = sizing
  PROVE  /\ RingExtentSize' = RingExtentSize /\ MemRegionSize' = MemRegionSize
         /\ RingClass' = RingClass /\ Wholes' = Wholes
BY DEF RingExtentSize, MemRegionSize, RingClass, Wholes, GetClass, MsbIndex

\* The calls before the region is registered.
LEMMA ChannelQuiet ==
  ASSUME ChannelInv, UNCHANGED <<sizing, mr, rx_ring, send_wr, freelist, user_alloc, next_class>>,
         pc \in Early, pc' \in Early, side' \in {1, 2}, pc' \in {"raw", "register"} => side' = 1,
         verbs' \subseteq {1, 2} \X VerbsParts, shm' \in Seq(Nat)
  PROVE  ChannelInv'
<1>1. /\ RingExtentSize' = RingExtentSize /\ MemRegionSize' = MemRegionSize
      /\ RingClass' = RingClass /\ Wholes' = Wholes
  BY SizesStay
<1>2. Cut = 0 /\ Cut' = 0
  BY DEF Cut, Early
<1>3. \A c \in Classes : freelist[c] = <<>>
  BY DEF ChannelInv, Shape
<1>4. Basics'
  BY DEF ChannelInv, Basics
<1>5. Phases'
  BY <1>1, <1>2 DEF ChannelInv, Phases, Early, Placed
<1>6. Rings'
  <2> SUFFICES ASSUME NEW q \in {1, 2}
               PROVE  rx_ring[q] = <<>>
    BY <1>2 DEF ChannelInv, Rings
  <2> QED
    BY <1>2 DEF ChannelInv, Rings
<1>7. Lists' /\ FreeApart' /\ RingsFree' /\ RingsApart'
  BY <1>2, <1>3 DEF Lists, FreeApart, RingsFree, RingsApart
<1>8. Shape'
  BY <1>3 DEF Shape, Early
<1> QED
  BY <1>4, <1>5, <1>6, <1>7, <1>8 DEF ChannelInv

\* The port, the verbs objects and the shared memory.
LEMMA ChannelEarly ==
  ASSUME ChannelInv,
         ResolvePhyPort \/ RoceResolvePhyPort \/ AllocPd \/ CreateQp \/ QpCreated \/ AllocRegion
  PROVE  ChannelInv'
<1>1. /\ side \in {1, 2} /\ verbs \subseteq {1, 2} \X VerbsParts /\ shm \in Seq(Nat)
      /\ sizing \in Sizings
      /\ pc \in {"raw", "register"} => side = 1
  BY DEF ChannelInv, Basics, Phases
<1>2. CASE ResolvePhyPort
  BY <1>1, <1>2, ChannelQuiet DEF ResolvePhyPort, Early, alloc_vars
<1>3. CASE RoceResolvePhyPort
  BY <1>1, <1>3, ChannelQuiet DEF RoceResolvePhyPort, Early, alloc_vars
<1>4. CASE AllocPd
  BY <1>1, <1>4, ChannelQuiet DEF AllocPd, Early, alloc_vars
<1>5. CASE CreateQp
  <2>1. <<side, Makes(side)>> \in {1, 2} \X VerbsParts
    BY <1>1 DEF Makes, VerbsParts
  <2>2. verbs' \subseteq {1, 2} \X VerbsParts
    BY <1>1, <1>5, <2>1 DEF CreateQp
  <2> QED
    BY <1>1, <1>5, <2>2, ChannelQuiet DEF CreateQp, Early, alloc_vars
<1>6. CASE QpCreated
  BY <1>1, <1>6, ChannelQuiet DEF QpCreated, Early, alloc_vars
<1>7. CASE AllocRegion
  <2>1. RoundUp(MemRegionSize) \in Nat
    <3>1. MemRegionSize \in Nat /\ HugePageSize \in Nat \ {0}
      BY <1>1, RegionSize, ClassAssumption
    <3> DEFINE a == MemRegionSize + HugePageSize - 1
    <3>2. a \in Nat
      BY <3>1
    <3> HIDE DEF a
    <3>3. a \div HugePageSize \in Nat
      BY <3>1, <3>2, QuotientBelow
    <3>4. (a \div HugePageSize) * HugePageSize \in Nat
      BY <3>1, <3>3
    <3> QED
      BY <3>4 DEF RoundUp, a
  <2>2. shm' \in Seq(Nat)
    BY <1>1, <1>7, <2>1 DEF AllocRegion, AllocRaw
  <2> QED
    BY <1>1, <1>7, <2>2, ChannelQuiet DEF AllocRegion, Early, alloc_vars
<1> QED
  BY <1>2, <1>3, <1>4, <1>5, <1>6, <1>7

\* The region is cut into whole buffers, one after the other.
LEMMA WholeIs ==
  ASSUME sizing \in Sizings
  PROVE  /\ Whole(MemRegionSize) \in Seq(Buffers)
         /\ Len(Whole(MemRegionSize)) = Wholes
         /\ \A i \in 1 .. Wholes :
              Whole(MemRegionSize)[i] =
                [addr |-> (i - 1) * MaxClassSize, class_size |-> MaxClassSize]
         /\ Remainder(MemRegionSize) = <<>>
<1>1. /\ MaxClassSize \in Nat \ {0} /\ Wholes \in Nat \ {0}
      /\ MemRegionSize % MaxClassSize = 0
  BY RegionSize
<1> DEFINE w == Whole(MemRegionSize)
<1>2. w = [i \in 1 .. Wholes |-> [addr |-> (i - 1) * MaxClassSize, class_size |-> MaxClassSize]]
  BY DEF Whole, Wholes
<1>3. ASSUME NEW i \in 1 .. Wholes
      PROVE  [addr |-> (i - 1) * MaxClassSize, class_size |-> MaxClassSize] \in Buffers
  <2>1. (i - 1) * MaxClassSize \in Nat
    BY <1>1
  <2> QED
    BY <1>1, <2>1 DEF Buffers
<1>4. w \in [1 .. Wholes -> Buffers]
  BY <1>2, <1>3
<1>5. w \in Seq(Buffers) /\ Len(w) = Wholes
  <2> HIDE DEF w
  <2> QED
    BY <1>1, <1>4
<1>6. Remainder(MemRegionSize) = <<>>
  BY <1>1 DEF Remainder
<1> QED
  BY <1>2, <1>5, <1>6

\* The region is registered and handed to the allocator.
LEMMA ChannelRegister ==
  ASSUME ChannelInv, RegisterRegion, pc' = "alloc"
  PROVE  /\ ChannelInv'
         /\ \A c \in Classes : Len(freelist'[c]) = IF c = Top THEN Wholes ELSE 0
<1>1. /\ pc = "register" /\ mr' = MemRegionSize /\ AddRawBuffer(MemRegionSize)
      /\ UNCHANGED <<sizing, side, verbs, rx_ring, send_wr, shm, user_alloc, next_class>>
  BY DEF RegisterRegion
<1>2. Basics /\ Phases /\ Rings /\ Shape
  BY DEF ChannelInv
<1>3. /\ RingExtentSize' = RingExtentSize /\ MemRegionSize' = MemRegionSize
      /\ RingClass' = RingClass /\ Wholes' = Wholes
  BY <1>1, SizesStay
<1>4. sizing \in Sizings /\ side = 1 /\ Cut = 0 /\ Cut' = 0
  BY <1>1, <1>2 DEF Basics, Phases, Cut
<1>5. \A c \in Classes : freelist[c] = <<>>
  BY <1>1, <1>2 DEF Shape, Early
<1> DEFINE w == Whole(MemRegionSize)
<1>6. /\ w \in Seq(Buffers) /\ Len(w) = Wholes
      /\ \A i \in 1 .. Wholes :
           w[i] = [addr |-> (i - 1) * MaxClassSize, class_size |-> MaxClassSize]
      /\ Remainder(MemRegionSize) = <<>>
  BY <1>4, WholeIs
<1>7. /\ MaxClassSize \in Nat \ {0} /\ Wholes \in Nat \ {0}
      /\ MemRegionSize = MaxClassSize * Wholes
      /\ Top \in Classes /\ ClassMaxSize(Top) = MaxClassSize
  BY <1>4, RegionSize, RingSize
<1> HIDE DEF w
<1>8. freelist' = [c \in Classes |-> IF c = Top THEN w ELSE <<>>]
  <2>1. freelist' = [c \in Classes |-> freelist[c]
                       \o (IF c = Top THEN w ELSE <<>>) \o <<>>]
    BY <1>1, <1>6 DEF AddRawBuffer, Top, w
  <2>2. ASSUME NEW c \in Classes
        PROVE  freelist[c] \o (IF c = Top THEN w ELSE <<>>) \o <<>> = IF c = Top THEN w ELSE <<>>
    <3>1. CASE c = Top
      <4>1. <<>> \o w = w /\ w \o <<>> = w
        BY <1>6
      <4> QED
        BY <1>5, <3>1, <4>1
    <3>2. CASE c # Top
      <4>1. <<>> \o <<>> = <<>> /\ freelist[c] = <<>>
        BY <1>5
      <4> QED
        BY <3>2, <4>1
    <3> QED
      BY <3>1, <3>2
  <2> QED
    BY <2>1, <2>2
<1>9. \A c \in Classes : Len(freelist'[c]) = IF c = Top THEN Wholes ELSE 0
  BY <1>6, <1>8
<1>10. Basics'
  <2>1. freelist' \in [Classes -> Seq(Buffers)]
    <3>1. <<>> \in Seq(Buffers)
      OBVIOUS
    <3> QED
      BY <1>6, <1>8, <3>1
  <2> QED
    BY <1>1, <1>2, <2>1 DEF Basics
<1>11. Phases'
  BY <1>1, <1>2, <1>3, <1>4 DEF Phases, Early, Placed
<1>12. Rings'
  BY <1>1, <1>2, <1>3, <1>4 DEF Rings
<1>13. ASSUME NEW c \in Classes, NEW i \in 1 .. Len(freelist'[c])
       PROVE  /\ c = Top /\ i \in 1 .. Wholes
              /\ freelist'[c][i].class_size = MaxClassSize
              /\ freelist'[c][i].addr = (i - 1) * MaxClassSize
  <2>1. c = Top /\ i \in 1 .. Wholes
    BY <1>7, <1>9
  <2> QED
    BY <1>6, <1>8, <2>1
<1>14. Lists'
  <2> SUFFICES ASSUME NEW c \in Classes, NEW i \in 1 .. Len(freelist'[c])
               PROVE  /\ freelist'[c][i].class_size = ClassMaxSize(c)
                      /\ freelist'[c][i].addr \in 0 .. MemRegionSize - ClassMaxSize(c)
    BY <1>3 DEF Lists
  <2>1. c = Top /\ i \in 1 .. Wholes /\ freelist'[c][i].class_size = MaxClassSize
        /\ freelist'[c][i].addr = (i - 1) * MaxClassSize
    BY <1>13
  <2>2. MaxClassSize * i <= MaxClassSize * Wholes /\ (i - 1) * MaxClassSize = MaxClassSize * i - MaxClassSize
    BY <1>7, <2>1, ProductGrows
  <2>3. (i - 1) * MaxClassSize \in Nat /\ MaxClassSize * i \in Nat
    BY <1>7, <2>1
  <2> QED
    BY <1>7, <2>1, <2>2, <2>3
<1>15. FreeApart'
  <2> SUFFICES ASSUME NEW c \in Classes, NEW d \in Classes,
                      NEW i \in 1 .. Len(freelist'[c]), NEW j \in 1 .. Len(freelist'[d]),
                      c # d \/ i # j
               PROVE  Disjoint(freelist'[c][i].addr, ClassMaxSize(c),
                               freelist'[d][j].addr, ClassMaxSize(d))
    BY DEF FreeApart
  <2>1. /\ c = Top /\ d = Top /\ i \in 1 .. Wholes /\ j \in 1 .. Wholes
        /\ freelist'[c][i].addr = (i - 1) * MaxClassSize
        /\ freelist'[d][j].addr = (j - 1) * MaxClassSize
    BY <1>13
  <2>2. /\ (i - 1) * MaxClassSize + MaxClassSize = MaxClassSize * i
        /\ (j - 1) * MaxClassSize + MaxClassSize = MaxClassSize * j
        /\ (i - 1) * MaxClassSize = MaxClassSize * (i - 1)
        /\ (j - 1) * MaxClassSize = MaxClassSize * (j - 1)
    BY <1>7, <2>1
  <2>3. i \in Int /\ j \in Int /\ i - 1 \in Int /\ j - 1 \in Int /\ (i <= j - 1 \/ j <= i - 1)
    BY <2>1
  <2>4. MaxClassSize * i <= MaxClassSize * (j - 1) \/ MaxClassSize * j <= MaxClassSize * (i - 1)
    BY <1>7, <2>3, ProductGrows
  <2> QED
    BY <1>7, <2>1, <2>2, <2>4 DEF Disjoint
<1>16. RingsFree' /\ RingsApart'
  BY <1>4 DEF RingsFree, RingsApart
<1>17. Shape'
  BY <1>3, <1>4, <1>1, <1>9 DEF Shape, Early
<1> QED
  BY <1>9, <1>10, <1>11, <1>12, <1>14, <1>15, <1>16, <1>17 DEF ChannelInv

\* alloc finds a class: the largest for the first ring, and for the second the
\* class of the first.
LEMMA ChannelAlloc ==
  ASSUME ChannelInv, Alloc
  PROVE  ChannelInv'
<1>1. /\ pc = "alloc"
      /\ UNCHANGED <<sizing, side, verbs, mr, rx_ring, send_wr, shm, freelist, user_alloc>>
  BY DEF Alloc
<1>2. Basics /\ Phases /\ Rings /\ Lists /\ Shape /\ FreeApart /\ RingsFree /\ RingsApart
  BY DEF ChannelInv
<1>3. /\ RingExtentSize' = RingExtentSize /\ MemRegionSize' = MemRegionSize
      /\ RingClass' = RingClass /\ Wholes' = Wholes
  BY <1>1, SizesStay
<1>4. /\ sizing \in Sizings /\ side \in {1, 2} /\ freelist \in [Classes -> Seq(Buffers)]
  BY <1>2 DEF Basics
<1>5. /\ RingClass \in Classes /\ RingClass \in Nat /\ Top \in Classes /\ Top \in Nat
      /\ RingClass <= Top /\ Wholes \in Nat \ {0}
  BY <1>4, RingSize, RegionSize
<1> DEFINE L == Larger(RingExtentSize)
<1>6. L = {c \in Classes : c >= RingClass /\ freelist[c] # <<>>} /\ L \subseteq Nat
  BY DEF Larger, RingClass, Classes
<1>7. \A c \in Classes : Len(freelist[c]) \in Nat /\ (freelist[c] # <<>> <=> Len(freelist[c]) # 0)
  BY <1>4
<1>8. side = 1 => L = {Top} /\ Len(freelist[Top]) = Wholes
  <2> SUFFICES ASSUME side = 1
               PROVE  L = {Top} /\ Len(freelist[Top]) = Wholes
    OBVIOUS
  <2>1. \A c \in Classes : Len(freelist[c]) = IF c = Top THEN Wholes ELSE 0
    BY <1>1, <1>2 DEF Shape
  <2> HIDE DEF L
  <2> QED
    BY <1>5, <1>6, <1>7, <2>1
<1>9. side = 2 => RingClass \in L /\ Len(freelist[RingClass]) >= 1
  <2> SUFFICES ASSUME side = 2
               PROVE  RingClass \in L /\ Len(freelist[RingClass]) >= 1
    OBVIOUS
  <2>1. Len(freelist[RingClass]) >= 1
    BY <1>1, <1>2 DEF Shape
  <2> QED
    BY <1>5, <1>6, <1>7, <2>1
<1>10. L # {}
  BY <1>4, <1>8, <1>9
<1>11. pc' = "split" /\ next_class' = Min(L)
  BY <1>10 DEF Alloc, Exhausted, FindClass
<1>12. Min(L) \in L /\ \A x \in L : Min(L) <= x
  <2> HIDE DEF L
  <2> QED
    BY <1>6, <1>10, LeastMember
<1> HIDE DEF L
<1>13. /\ next_class' \in Classes /\ RingClass <= next_class'
       /\ side = 1 => next_class' = Top
       /\ side = 2 => next_class' = RingClass
  <2>1. next_class' \in Classes /\ RingClass <= next_class' /\ next_class' \in Nat
    BY <1>5, <1>6, <1>11, <1>12
  <2>2. side = 1 => next_class' = Top
    BY <1>8, <1>11, <1>12
  <2>3. side = 2 => next_class' <= RingClass
    BY <1>9, <1>11, <1>12
  <2> QED
    BY <1>5, <2>1, <2>2, <2>3
<1>14. Cut' = Cut
  BY <1>1, <1>11 DEF Cut
<1>15. Basics'
  BY <1>1, <1>2, <1>13 DEF Basics
<1>16. Phases'
  BY <1>1, <1>2, <1>3, <1>11, <1>14 DEF Phases, Early, Placed
<1>17. Rings' /\ Lists' /\ FreeApart' /\ RingsFree' /\ RingsApart'
  <2>1. Base(1)' = Base(1) /\ Base(2)' = Base(2) /\ \A q \in {1, 2} : Base(q)' = Base(q)
    BY <1>1 DEF Base
  <2>2. Rings'
    BY <1>1, <1>2, <1>3, <1>14, <2>1 DEF Rings
  <2>3. Lists' /\ FreeApart'
    BY <1>1, <1>2, <1>3 DEF Lists, FreeApart
  <2>4. RingsFree' /\ RingsApart'
    BY <1>1, <1>2, <1>3, <1>14 DEF RingsFree, RingsApart, Base
  <2> QED
    BY <2>2, <2>3, <2>4
<1>18. Shape'
  <2>1. Len(freelist[next_class']) >= 1
    BY <1>4, <1>5, <1>8, <1>9, <1>13
  <2>2. side = 1 => \A c \in Classes : c < next_class' => freelist[c] = <<>>
    <3> SUFFICES ASSUME side = 1, NEW c \in Classes, c < Top
                 PROVE  freelist[c] = <<>>
      BY <1>13
    <3>1. c # Top
      BY <1>5
    <3>2. Len(freelist[c]) = 0
      BY <1>1, <1>2, <3>1 DEF Shape
    <3> QED
      BY <1>7, <3>2
  <2>3. side = 1 => Len(freelist[next_class']) >= IF next_class' = Top THEN Wholes ELSE 2
    BY <1>5, <1>8, <1>13
  <2> QED
    BY <1>1, <1>3, <1>11, <1>13, <2>1, <2>2, <2>3 DEF Shape, Early
<1> QED
  BY <1>15, <1>16, <1>17, <1>18 DEF ChannelInv

\* The last buffer of a list, and the list without it.
LEMMA WithoutLast ==
  ASSUME NEW s \in Seq(Buffers), Len(s) >= 1
  PROVE  /\ Front(s) \in Seq(Buffers) /\ Len(Front(s)) = Len(s) - 1
         /\ \A i \in 1 .. Len(s) - 1 : Front(s)[i] = s[i] /\ i \in 1 .. Len(s) /\ i # Len(s)
         /\ Last(s) = s[Len(s)] /\ Len(s) \in 1 .. Len(s) /\ Last(s) \in Buffers
<1>1. Len(s) \in Nat
  OBVIOUS
<1>2. Len(s) \in 1 .. Len(s) /\ 1 \in 1 .. Len(s) + 1 /\ Len(s) - 1 \in 1 - 1 .. Len(s)
  BY <1>1
<1> DEFINE f == SubSeq(s, 1, Len(s) - 1)
<1>3. f \in Seq(Buffers) /\ Len(f) = Len(s) - 1 /\ \A i \in 1 .. Len(s) - 1 : f[i] = s[i]
  <2>1. 1 \in Int /\ Len(s) - 1 \in Int /\ \A i \in 1 .. Len(s) - 1 : s[i] \in Buffers
    BY <1>1
  <2>2. /\ f \in Seq(Buffers)
        /\ Len(f) = IF 1 <= Len(s) - 1 THEN (Len(s) - 1) - 1 + 1 ELSE 0
        /\ \A i \in 1 .. (Len(s) - 1) - 1 + 1 : f[i] = s[1 + i - 1]
    BY <2>1, SubSeqProperties
  <2> HIDE DEF f
  <2>3. \A i \in 1 .. Len(s) - 1 : 1 + i - 1 = i /\ i \in 1 .. (Len(s) - 1) - 1 + 1
    BY <1>1
  <2>4. ASSUME NEW i \in 1 .. Len(s) - 1
        PROVE  f[i] = s[i]
    BY <2>2, <2>3, Zenon
  <2>5. Len(f) = Len(s) - 1
    <3> DEFINE n == Len(s)
               m == Len(f)
    <3>1. n \in Nat /\ n >= 1 /\ m = IF 1 <= n - 1 THEN (n - 1) - 1 + 1 ELSE 0
      BY <1>1, <2>2
    <3> HIDE DEF n, m
    <3>2. m = n - 1
      BY <3>1
    <3> QED
      BY <3>2 DEF n, m
  <2> QED
    BY <2>2, <2>4, <2>5
<1>4. Front(s) = f /\ Last(s) = s[Len(s)]
  BY DEF Front, Last
<1>5. \A i \in 1 .. Len(s) - 1 : i \in 1 .. Len(s) /\ i # Len(s)
  BY <1>1
<1>6. s[Len(s)] \in Buffers
  BY <1>2
<1> HIDE DEF f
<1> QED
  BY <1>2, <1>3, <1>4, <1>5, <1>6

\* What split does to the lists, the class below being empty.
Halved(d) ==
  LET last == freelist[d][Len(freelist[d])]
      half == ClassMaxSize(d - 1)
  IN /\ freelist' \in [Classes -> Seq(Buffers)]
     /\ \A c \in Classes \ {d, d - 1} : freelist'[c] = freelist[c]
     /\ Len(freelist'[d]) = Len(freelist[d]) - 1
     /\ \A i \in 1 .. Len(freelist[d]) - 1 : freelist'[d][i] = freelist[d][i]
     /\ Len(freelist'[d - 1]) = 2
     /\ freelist'[d - 1][1].class_size = half /\ freelist'[d - 1][1].addr = last.addr
     /\ freelist'[d - 1][2].class_size = half /\ freelist'[d - 1][2].addr = last.addr + half

\* A split gives two halves.
LEMMA SplitHalves ==
  ASSUME Basics, Lists, NEW d \in Classes, d # 0, Len(freelist[d]) >= 1, freelist[d - 1] = <<>>,
         freelist' = AfterSplit(d)
  PROVE  Halved(d) /\ d - 1 \in Classes /\ d - 1 \in Nat
         /\ ClassMaxSize(d - 1) \in Nat \ {0} /\ ClassMaxSize(d) = 2 * ClassMaxSize(d - 1)
<1> DEFINE half == ClassMaxSize(d - 1)
           s == freelist[d]
           t == Halves(Last(s))
<1>1. d \in Nat \ {0} /\ d - 1 \in Classes /\ d - 1 \in Nat /\ (d - 1) + 1 = d
  BY ClassAssumption DEF Classes
<1>2. half \in Nat \ {0} /\ ClassMaxSize(d) = 2 * half
  <2>1. half \in Nat \ {0} /\ ClassMaxSize((d - 1) + 1) = 2 * half
    BY <1>1, ClassSizes
  <2> QED
    BY <1>1, <2>1
<1>3. s \in Seq(Buffers) /\ freelist \in [Classes -> Seq(Buffers)]
  BY DEF Basics
<1>4. /\ Front(s) \in Seq(Buffers) /\ Len(Front(s)) = Len(s) - 1
      /\ \A i \in 1 .. Len(s) - 1 : Front(s)[i] = s[i]
      /\ Last(s) = s[Len(s)] /\ Len(s) \in 1 .. Len(s) /\ Last(s) \in Buffers
  BY <1>3, WithoutLast
<1>5. Last(s).class_size = 2 * half /\ Last(s).addr \in Nat
  BY <1>2, <1>4 DEF Lists, Buffers
<1>6. Last(s).class_size \div 2 = half
  BY <1>2, <1>5
<1>7. t = << [addr |-> Last(s).addr, class_size |-> half],
             [addr |-> Last(s).addr + half, class_size |-> half] >>
  BY <1>6 DEF Halves
<1>8. /\ [addr |-> Last(s).addr, class_size |-> half] \in Buffers
      /\ [addr |-> Last(s).addr + half, class_size |-> half] \in Buffers
  BY <1>2, <1>5 DEF Buffers
<1> HIDE DEF half
<1>9. t \in Seq(Buffers) /\ Len(t) = 2
  BY <1>7, <1>8
<1>10. /\ t[1].class_size = half /\ t[1].addr = Last(s).addr
       /\ t[2].class_size = half /\ t[2].addr = Last(s).addr + half
  BY <1>7
<1>11. freelist' = [freelist EXCEPT ![d] = Front(s), ![d - 1] = <<>> \o t]
  BY <1>1, <1>3 DEF AfterSplit
<1> HIDE DEF s, t
<1>12. <<>> \o t = t
  BY <1>9
<1>13. /\ freelist'[d] = Front(s) /\ freelist'[d - 1] = t
       /\ \A c \in Classes \ {d, d - 1} : freelist'[c] = freelist[c]
       /\ freelist' \in [Classes -> Seq(Buffers)]
  BY <1>1, <1>3, <1>4, <1>9, <1>11, <1>12
<1>14. Halved(d)
  BY <1>4, <1>9, <1>10, <1>13 DEF Halved, s, half
<1> QED
  BY <1>1, <1>2, <1>14 DEF half

\* Where a buffer comes from after a split: from the same place, or it is half
\* of the buffer that was split.
Origin(d, c, i) == IF c = d - 1 THEN <<d, Len(freelist[d])>> ELSE <<c, i>>

Old(d, c, i) == freelist[Origin(d, c, i)[1]][Origin(d, c, i)[2]].addr
OldSize(d, c, i) == ClassMaxSize(Origin(d, c, i)[1])

\* Every buffer lies within the one it comes from.
LEMMA Within ==
  ASSUME Basics, Lists, NEW d \in Classes, d - 1 \in Classes, Len(freelist[d]) >= 1, Halved(d),
         ClassMaxSize(d - 1) \in Nat \ {0}, ClassMaxSize(d) = 2 * ClassMaxSize(d - 1),
         NEW c \in Classes, NEW i \in 1 .. Len(freelist'[c])
  PROVE  /\ Origin(d, c, i)[1] \in Classes
         /\ Origin(d, c, i)[2] \in 1 .. Len(freelist[Origin(d, c, i)[1]])
         /\ Old(d, c, i) \in 0 .. MemRegionSize - OldSize(d, c, i)
         /\ freelist'[c][i].addr \in Nat
         /\ freelist'[c][i].class_size = ClassMaxSize(c)
         /\ Old(d, c, i) <= freelist'[c][i].addr
         /\ freelist'[c][i].addr + ClassMaxSize(c) <= Old(d, c, i) + OldSize(d, c, i)
<1>1. Len(freelist[d]) \in Nat /\ freelist[d] \in Seq(Buffers) /\ d \in Nat
  BY ClassAssumption DEF Basics, Classes
<1>2. CASE c = d - 1
  <2> DEFINE last == freelist[d][Len(freelist[d])]
  <2>1. Len(freelist[d]) \in 1 .. Len(freelist[d])
    BY <1>1
  <2>2. Origin(d, c, i) = <<d, Len(freelist[d])>>
    BY <1>2 DEF Origin
  <2>3. Old(d, c, i) = last.addr /\ OldSize(d, c, i) = ClassMaxSize(d)
    BY <2>2 DEF Old, OldSize
  <2>4. last.addr \in 0 .. MemRegionSize - ClassMaxSize(d) /\ last \in Buffers
    BY <1>1, <2>1 DEF Lists
  <2>5. last.addr \in Nat
    BY <2>4 DEF Buffers
  <2>6. i \in {1, 2}
    <3>1. Len(freelist'[d - 1]) = 2
      BY DEF Halved
    <3> QED
      BY <1>2, <3>1
  <2>7. /\ freelist'[c][i].class_size = ClassMaxSize(d - 1)
        /\ freelist'[c][i].addr = last.addr \/ freelist'[c][i].addr = last.addr + ClassMaxSize(d - 1)
    BY <1>2, <2>6 DEF Halved
  <2> HIDE DEF last
  <2> QED
    BY <1>2, <2>1, <2>2, <2>3, <2>4, <2>5, <2>7
<1>3. CASE c # d - 1
  <2>1. i \in 1 .. Len(freelist[c]) /\ freelist'[c][i] = freelist[c][i]
    <3>1. CASE c = d
      <4>1. /\ Len(freelist'[d]) = Len(freelist[d]) - 1
            /\ \A k \in 1 .. Len(freelist[d]) - 1 : freelist'[d][k] = freelist[d][k]
        BY DEF Halved
      <4> QED
        BY <1>1, <3>1, <4>1
    <3>2. CASE c # d
      <4>1. freelist'[c] = freelist[c]
        BY <1>3, <3>2 DEF Halved
      <4> QED
        BY <4>1
    <3> QED
      BY <3>1, <3>2
  <2>2. Origin(d, c, i) = <<c, i>>
    BY <1>3 DEF Origin
  <2>3. Old(d, c, i) = freelist[c][i].addr /\ OldSize(d, c, i) = ClassMaxSize(c)
    BY <2>2 DEF Old, OldSize
  <2>4. freelist[c][i] \in Buffers
    BY <2>1 DEF Basics
  <2>5. freelist[c][i].addr \in Nat
    BY <2>4 DEF Buffers
  <2>6. /\ freelist[c][i].class_size = ClassMaxSize(c)
        /\ freelist[c][i].addr \in 0 .. MemRegionSize - ClassMaxSize(c)
    BY <2>1 DEF Lists
  <2>7. ClassMaxSize(c) \in Nat
    <3>1. c \in Nat
      BY ClassAssumption DEF Classes
    <3> QED
      BY <3>1, ClassSizes
  <2> QED
    BY <2>1, <2>2, <2>3, <2>5, <2>6, <2>7
<1> QED
  BY <1>2, <1>3

\* What lies within disjoint stretches is disjoint.
LEMMA Shrunk ==
  ASSUME NEW a \in Int, NEW m \in Int, NEW b \in Int, NEW n \in Int,
         NEW x \in Int, NEW k \in Int, NEW y \in Int, NEW l \in Int,
         Disjoint(a, m, b, n), a <= x, x + k <= a + m, b <= y, y + l <= b + n
  PROVE  Disjoint(x, k, y, l)
BY DEF Disjoint

\* A class and its limit are natural numbers.
LEMMA ClassTyped ==
  ASSUME NEW c \in Classes
  PROVE  c \in Nat /\ c <= Top /\ ClassMaxSize(c) \in Nat \ {0}
<1>1. c \in Nat /\ c <= Top
  BY ClassAssumption DEF Classes, Top
<1> QED
  BY <1>1, ClassSizes

\* The buffers of the lists after a split are disjoint.
LEMMA SplitApart ==
  ASSUME Basics, Lists, FreeApart, NEW d \in Classes, d - 1 \in Classes,
         Len(freelist[d]) >= 1, Halved(d), freelist[d - 1] = <<>>,
         ClassMaxSize(d - 1) \in Nat \ {0}, ClassMaxSize(d) = 2 * ClassMaxSize(d - 1)
  PROVE  FreeApart'
<1> SUFFICES ASSUME NEW c \in Classes, NEW e \in Classes,
                    NEW i \in 1 .. Len(freelist'[c]), NEW j \in 1 .. Len(freelist'[e]),
                    c # e \/ i # j
             PROVE  Disjoint(freelist'[c][i].addr, ClassMaxSize(c),
                             freelist'[e][j].addr, ClassMaxSize(e))
  BY DEF FreeApart
<1> DEFINE x == freelist'[c][i].addr
           y == freelist'[e][j].addr
           a == Old(d, c, i)
           b == Old(d, e, j)
           m == OldSize(d, c, i)
           n == OldSize(d, e, j)
           p == Origin(d, c, i)
           q == Origin(d, e, j)
<1>1. /\ p[1] \in Classes /\ p[2] \in 1 .. Len(freelist[p[1]])
      /\ a \in 0 .. MemRegionSize - m /\ x \in Nat
      /\ a <= x /\ x + ClassMaxSize(c) <= a + m
  BY Within
<1>2. /\ q[1] \in Classes /\ q[2] \in 1 .. Len(freelist[q[1]])
      /\ b \in 0 .. MemRegionSize - n /\ y \in Nat
      /\ b <= y /\ y + ClassMaxSize(e) <= b + n
  BY Within
<1>3. m \in Int /\ n \in Int /\ ClassMaxSize(c) \in Int /\ ClassMaxSize(e) \in Int
  <2>1. ClassMaxSize(p[1]) \in Nat /\ ClassMaxSize(q[1]) \in Nat
    <3> HIDE DEF p, q
    <3> QED
      BY <1>1, <1>2, ClassTyped
  <2>2. ClassMaxSize(c) \in Nat /\ ClassMaxSize(e) \in Nat
    BY ClassTyped
  <2> QED
    BY <2>1, <2>2 DEF OldSize
<1>4. CASE c = d - 1 /\ e = d - 1
  <2>1. i \in {1, 2} /\ j \in {1, 2} /\ i # j
    <3>1. Len(freelist'[d - 1]) = 2
      BY DEF Halved
    <3> QED
      BY <1>4, <3>1
  <2>2. /\ x = IF i = 1 THEN a ELSE a + ClassMaxSize(d - 1)
        /\ y = IF j = 1 THEN a ELSE a + ClassMaxSize(d - 1)
    BY <1>4, <2>1 DEF Halved, Old, Origin
  <2>3. a \in Int
    BY <1>1
  <2> HIDE DEF x, y, a
  <2>4. Disjoint(x, ClassMaxSize(d - 1), y, ClassMaxSize(d - 1))
    BY <2>1, <2>2, <2>3 DEF Disjoint
  <2> QED
    BY <1>4, <2>4 DEF x, y
<1>5. CASE ~(c = d - 1 /\ e = d - 1)
  <2>1. p[1] # q[1] \/ p[2] # q[2]
    <3>1. CASE c # d - 1 /\ e # d - 1
      BY <3>1 DEF Origin
    <3>2. CASE c = d - 1 /\ e # d - 1
      <4>1. e = d => j # Len(freelist[d])
        <5>1. Len(freelist'[d]) = Len(freelist[d]) - 1 /\ Len(freelist[d]) \in Nat
          BY DEF Halved, Basics
        <5> QED
          BY <5>1
      <4> QED
        BY <3>2, <4>1 DEF Origin
    <3>3. CASE c # d - 1 /\ e = d - 1
      <4>1. c = d => i # Len(freelist[d])
        <5>1. Len(freelist'[d]) = Len(freelist[d]) - 1 /\ Len(freelist[d]) \in Nat
          BY DEF Halved, Basics
        <5> QED
          BY <5>1
      <4> QED
        BY <3>3, <4>1 DEF Origin
    <3> QED
      BY <1>5, <3>1, <3>2, <3>3
  <2>2. Disjoint(a, m, b, n)
    <3> HIDE DEF p, q
    <3>1. Disjoint(freelist[p[1]][p[2]].addr, ClassMaxSize(p[1]),
                   freelist[q[1]][q[2]].addr, ClassMaxSize(q[1]))
      BY <1>1, <1>2, <2>1 DEF FreeApart
    <3> QED
      BY <3>1 DEF Old, OldSize, p, q
  <2>3. a \in Int /\ b \in Int /\ x \in Int /\ y \in Int
    BY <1>1, <1>2
  <2> HIDE DEF x, y, a, b, m, n
  <2>4. Disjoint(x, ClassMaxSize(c), y, ClassMaxSize(e))
    BY <1>1, <1>2, <1>3, <2>2, <2>3, Shrunk
  <2> QED
    BY <2>4 DEF x, y
<1> QED
  BY <1>4, <1>5

\* A split: one buffer of the first class found becomes two of the class below.
LEMMA ChannelSplit ==
  ASSUME ChannelInv, SplitClass
  PROVE  /\ ChannelInv' /\ Halved(next_class) /\ next_class - 1 \in Classes
         /\ next_class \in Classes /\ Len(freelist[next_class]) >= 1
         /\ freelist[next_class - 1] = <<>>
         /\ ClassMaxSize(next_class) = 2 * ClassMaxSize(next_class - 1)
<1> DEFINE d == next_class
<1>1. /\ pc = "split" /\ d # RingClass /\ freelist' = AfterSplit(d) /\ next_class' = d - 1
      /\ UNCHANGED <<sizing, pc, side, verbs, mr, rx_ring, send_wr, shm, user_alloc>>
  BY DEF SplitClass, Split, RingClass
<1>2. Basics /\ Phases /\ Rings /\ Lists /\ Shape /\ FreeApart /\ RingsFree /\ RingsApart
  BY DEF ChannelInv
<1>3. /\ RingExtentSize' = RingExtentSize /\ MemRegionSize' = MemRegionSize
      /\ RingClass' = RingClass /\ Wholes' = Wholes
  BY <1>1, SizesStay
<1>4. /\ sizing \in Sizings /\ side \in {1, 2} /\ freelist \in [Classes -> Seq(Buffers)]
      /\ d \in Classes
  BY <1>2 DEF Basics
<1>5. RingClass \in Nat /\ d \in Nat /\ d <= Top /\ Top \in Nat
  BY <1>4, RingSize, ClassTyped
<1>6. /\ side = 1 /\ RingClass <= d /\ Len(freelist[d]) >= 1
      /\ \A c \in Classes : c < d => freelist[c] = <<>>
  BY <1>1, <1>2, <1>4 DEF Shape
<1>7. d # 0 /\ RingClass <= d - 1 /\ d - 1 < d /\ d - 1 # Top /\ d - 1 \in Nat
  BY <1>1, <1>5, <1>6
<1>8. d - 1 \in Classes
  <2>1. NumClasses \in Nat /\ Top = NumClasses - 1
    BY ClassAssumption DEF Top
  <2>2. d - 1 \in 0 .. NumClasses - 1
    BY <1>5, <1>7, <2>1
  <2> QED
    BY <2>2 DEF Classes
<1>9. freelist[d - 1] = <<>>
  BY <1>6, <1>7, <1>8
<1>10. /\ Halved(d)
       /\ ClassMaxSize(d - 1) \in Nat \ {0} /\ ClassMaxSize(d) = 2 * ClassMaxSize(d - 1)
  BY <1>1, <1>2, <1>4, <1>6, <1>7, <1>9, SplitHalves
<1> HIDE DEF d
<1>11. Cut = 0 /\ Cut' = 0
  BY <1>1, <1>6 DEF Cut
<1>12. Basics'
  BY <1>1, <1>2, <1>8, <1>10 DEF Basics, Halved
<1>13. Phases'
  BY <1>1, <1>2, <1>3, <1>11 DEF Phases
<1>14. Rings'
  BY <1>1, <1>2, <1>3, <1>11 DEF Rings
<1>15. Lists'
  <2> SUFFICES ASSUME NEW c \in Classes, NEW i \in 1 .. Len(freelist'[c])
               PROVE  /\ freelist'[c][i].class_size = ClassMaxSize(c)
                      /\ freelist'[c][i].addr \in 0 .. MemRegionSize - ClassMaxSize(c)
    BY <1>3 DEF Lists
  <2> DEFINE a == Old(d, c, i)
             m == OldSize(d, c, i)
             x == freelist'[c][i].addr
  <2>1. /\ Origin(d, c, i)[1] \in Classes
        /\ a \in 0 .. MemRegionSize - m /\ x \in Nat
        /\ freelist'[c][i].class_size = ClassMaxSize(c)
        /\ a <= x /\ x + ClassMaxSize(c) <= a + m
    BY <1>2, <1>4, <1>6, <1>8, <1>10, Within
  <2>2. m \in Int /\ ClassMaxSize(c) \in Int /\ MemRegionSize \in Int
    <3>1. ClassMaxSize(Origin(d, c, i)[1]) \in Nat
      BY <2>1, ClassTyped
    <3>2. ClassMaxSize(c) \in Nat /\ MemRegionSize \in Nat
      BY <1>4, ClassTyped, RegionSize
    <3> QED
      BY <3>1, <3>2 DEF OldSize
  <2> HIDE DEF a, m, x
  <2>3. x \in 0 .. MemRegionSize - ClassMaxSize(c)
    BY <2>1, <2>2
  <2> QED
    BY <2>1, <2>3 DEF x
<1>16. FreeApart'
  BY <1>2, <1>4, <1>6, <1>8, <1>9, <1>10, SplitApart
<1>17. RingsFree' /\ RingsApart'
  BY <1>11 DEF RingsFree, RingsApart
<1>18. Shape'
  <2>1. Len(freelist'[d - 1]) = 2
    BY <1>10 DEF Halved
  <2>2. \A c \in Classes : c < d - 1 => freelist'[c] = <<>>
    <3> SUFFICES ASSUME NEW c \in Classes, c < d - 1
                 PROVE  freelist'[c] = <<>>
      OBVIOUS
    <3>1. c \in Nat
      BY ClassTyped
    <3>2. c # d /\ c # d - 1 /\ c < d
      BY <1>5, <1>7, <3>1
    <3>3. freelist'[c] = freelist[c]
      BY <1>10, <3>2 DEF Halved
    <3> QED
      BY <1>6, <3>2, <3>3
  <2> QED
    BY <1>1, <1>3, <1>6, <1>7, <2>1, <2>2 DEF Shape, Early
<1> QED
  BY <1>4, <1>6, <1>8, <1>9, <1>10, <1>12, <1>13, <1>14, <1>15, <1>16, <1>17, <1>18
     DEF ChannelInv, d

\* What alloc_from_class does to the lists.
Taken(d) ==
  /\ freelist' \in [Classes -> Seq(Buffers)]
  /\ \A c \in Classes \ {d} : freelist'[c] = freelist[c]
  /\ Len(freelist'[d]) = Len(freelist[d]) - 1
  /\ \A c \in Classes : \A i \in 1 .. Len(freelist'[c]) :
       /\ freelist'[c][i] = freelist[c][i] /\ i \in 1 .. Len(freelist[c])
       /\ c = d => i # Len(freelist[d])

\* The last buffer is taken from its list.
LEMMA TakesLast ==
  ASSUME Basics, NEW d \in Classes, Len(freelist[d]) >= 1,
         freelist' = [freelist EXCEPT ![d] = Front(@)]
  PROVE  /\ Taken(d) /\ Last(freelist[d]) = freelist[d][Len(freelist[d])]
         /\ Len(freelist[d]) \in 1 .. Len(freelist[d])
<1> DEFINE s == freelist[d]
<1>1. s \in Seq(Buffers) /\ freelist \in [Classes -> Seq(Buffers)]
  BY DEF Basics
<1>2. /\ Front(s) \in Seq(Buffers) /\ Len(Front(s)) = Len(s) - 1
      /\ \A i \in 1 .. Len(s) - 1 : Front(s)[i] = s[i] /\ i \in 1 .. Len(s) /\ i # Len(s)
      /\ Last(s) = s[Len(s)] /\ Len(s) \in 1 .. Len(s)
  BY <1>1, WithoutLast
<1>3. /\ freelist' \in [Classes -> Seq(Buffers)] /\ freelist'[d] = Front(s)
      /\ \A c \in Classes \ {d} : freelist'[c] = freelist[c]
  BY <1>1, <1>2
<1>4. ASSUME NEW c \in Classes, NEW i \in 1 .. Len(freelist'[c])
      PROVE  /\ freelist'[c][i] = freelist[c][i] /\ i \in 1 .. Len(freelist[c])
             /\ c = d => i # Len(freelist[d])
  <2>1. CASE c = d
    <3>1. i \in 1 .. Len(s) - 1
      BY <1>2, <1>3, <2>1
    <3> QED
      BY <1>2, <1>3, <2>1, <3>1
  <2>2. CASE c # d
    BY <1>3, <2>2
  <2> QED
    BY <2>1, <2>2
<1>5. Taken(d)
  BY <1>2, <1>3, <1>4 DEF Taken
<1> QED
  BY <1>2, <1>5

\* A ring is cut from a buffer of its class.
LEMMA ChannelRecvs ==
  ASSUME ChannelInv, InitRecvs
  PROVE  /\ ChannelInv' /\ Taken(RingClass) /\ RingClass \in Classes
         /\ Len(freelist[RingClass]) >= 1
         /\ user_alloc' = user_alloc + ClassMaxSize(RingClass)
<1> DEFINE d == RingClass
           last == freelist[d][Len(freelist[d])]
<1>1. /\ pc = "split" /\ next_class = d /\ pc' = "sends"
      /\ freelist' = [freelist EXCEPT ![d] = Front(@)]
      /\ user_alloc' = user_alloc + Last(freelist[d]).class_size
      /\ rx_ring' = [rx_ring EXCEPT ![side] = Entries(Last(freelist[d]))]
      /\ UNCHANGED <<sizing, side, verbs, mr, send_wr, shm, next_class>>
  BY DEF InitRecvs, AllocFromClass, RingClass
<1>2. Basics /\ Phases /\ Rings /\ Lists /\ Shape /\ FreeApart /\ RingsFree /\ RingsApart
  BY DEF ChannelInv
<1>3. /\ RingExtentSize' = RingExtentSize /\ MemRegionSize' = MemRegionSize
      /\ RingClass' = RingClass /\ Wholes' = Wholes
  BY <1>1, SizesStay
<1>4. sizing \in Sizings /\ side \in {1, 2} /\ freelist \in [Classes -> Seq(Buffers)]
  BY <1>2 DEF Basics
<1>5. /\ d \in Classes /\ d \in Nat /\ d <= Top /\ Top \in Nat
      /\ RingExtentSize <= ClassMaxSize(d) /\ ClassMaxSize(d) \in Nat
      /\ d = Top => Wholes >= 2
  BY <1>4, RingSize
<1>6. Len(freelist[d]) >= 1 /\ Len(freelist[d]) \in Nat
  BY <1>1, <1>2, <1>4, <1>5 DEF Shape
<1>7. /\ Taken(d) /\ Last(freelist[d]) = last
      /\ Len(freelist[d]) \in 1 .. Len(freelist[d])
  BY <1>1, <1>2, <1>5, <1>6, TakesLast
<1>8. /\ last.class_size = ClassMaxSize(d)
      /\ last.addr \in 0 .. MemRegionSize - ClassMaxSize(d)
  BY <1>2, <1>5, <1>7 DEF Lists
<1>9. /\ RingExtentSize \in Nat \ {0} /\ MemRegionSize \in Nat
      /\ sizing.rq \in Nat \ {0} /\ sizing.mbuf \in Nat \ {0}
  BY <1>4, RegionSize
<1>10. /\ Cut = side - 1 /\ Cut' = side /\ Cut \in Nat
  BY <1>1, <1>4 DEF Cut
<1>11. /\ rx_ring'[side] = [i \in 1 .. sizing.rq |-> last.addr + (i - 1) * sizing.mbuf]
       /\ \A q \in {1, 2} \ {side} : rx_ring'[q] = rx_ring[q]
       /\ rx_ring' = [q \in {1, 2} |-> rx_ring'[q]]
  BY <1>1, <1>2, <1>4, <1>7 DEF Rings, Entries
<1>12. rx_ring'[side][1] = last.addr /\ last.addr \in Nat
  <2>1. last.addr \in Nat
    BY <1>5, <1>8, <1>9
  <2>2. rx_ring'[side][1] = last.addr + (1 - 1) * sizing.mbuf
    BY <1>9, <1>11
  <2>3. last.addr + (1 - 1) * sizing.mbuf = last.addr
    BY <1>9, <2>1
  <2> QED
    BY <2>1, <2>2, <2>3
<1> HIDE DEF d, last
<1>13. Basics'
  BY <1>1, <1>2, <1>7 DEF Basics, Taken
<1>14. user_alloc' = user_alloc + ClassMaxSize(d)
  BY <1>1, <1>7, <1>8
<1>15. Phases'
  <2>1. user_alloc' = Cut' * ClassMaxSize(RingClass')
    <3>1. user_alloc = Cut * ClassMaxSize(d)
      BY <1>2 DEF Phases, d
    <3>2. (side - 1) * ClassMaxSize(d) + ClassMaxSize(d) = side * ClassMaxSize(d)
      BY <1>4, <1>5
    <3> QED
      BY <1>3, <1>10, <1>14, <3>1, <3>2 DEF d
  <2> QED
    BY <1>1, <1>2, <1>3, <2>1 DEF Phases, Early, Placed
<1>16. Rings'
  <2> SUFFICES ASSUME NEW q \in {1, 2}
               PROVE  /\ q > Cut' => rx_ring'[q] = <<>>
                      /\ q <= Cut' => /\ Base(q)' \in 0 .. MemRegionSize - RingExtentSize
                                      /\ rx_ring'[q] = [i \in 1 .. sizing.rq |-> Base(q)' + (i - 1) * sizing.mbuf]
    BY <1>1, <1>3, <1>11 DEF Rings
  <2>1. CASE q = side
    <3>1. last.addr \in 0 .. MemRegionSize - RingExtentSize
      BY <1>5, <1>8, <1>9
    <3> QED
      <4>1. Base(q)' = last.addr
        BY <1>12, <2>1 DEF Base
      <4>2. rx_ring'[q] = [i \in 1 .. sizing.rq |-> Base(q)' + (i - 1) * sizing.mbuf]
        BY <1>11, <2>1, <4>1
      <4>3. ~(q > Cut')
        BY <1>4, <1>10, <2>1
      <4> QED
        BY <3>1, <4>1, <4>2, <4>3
  <2>2. CASE q # side
    <3>1. rx_ring'[q] = rx_ring[q] /\ Base(q)' = Base(q)
      BY <1>11, <2>2 DEF Base
    <3>2. (q > Cut <=> q > Cut') /\ (q <= Cut <=> q <= Cut')
      BY <1>4, <1>10, <2>2
    <3> QED
      BY <1>2, <3>1, <3>2 DEF Rings
  <2> QED
    BY <2>1, <2>2
<1>17. Lists'
  BY <1>2, <1>3, <1>7 DEF Lists, Taken
<1>18. FreeApart'
  <2> SUFFICES ASSUME NEW c \in Classes, NEW e \in Classes,
                      NEW i \in 1 .. Len(freelist'[c]), NEW j \in 1 .. Len(freelist'[e]),
                      c # e \/ i # j
               PROVE  Disjoint(freelist'[c][i].addr, ClassMaxSize(c),
                               freelist'[e][j].addr, ClassMaxSize(e))
    BY DEF FreeApart
  <2>1. /\ freelist'[c][i] = freelist[c][i] /\ i \in 1 .. Len(freelist[c])
        /\ freelist'[e][j] = freelist[e][j] /\ j \in 1 .. Len(freelist[e])
    BY <1>7 DEF Taken
  <2> QED
    BY <1>2, <2>1 DEF FreeApart
<1>19. RingsFree'
  <2> SUFFICES ASSUME NEW q \in 1 .. side, NEW c \in Classes, NEW i \in 1 .. Len(freelist'[c])
               PROVE  Disjoint(Base(q)', RingExtentSize, freelist'[c][i].addr, ClassMaxSize(c))
    BY <1>3, <1>10 DEF RingsFree
  <2>1. /\ freelist'[c][i] = freelist[c][i] /\ i \in 1 .. Len(freelist[c])
        /\ c = d => i # Len(freelist[d])
    BY <1>7 DEF Taken
  <2>2. CASE q = side
    <3> DEFINE y == freelist[c][i].addr
    <3>1. Disjoint(last.addr, ClassMaxSize(d), y, ClassMaxSize(c))
      BY <1>2, <1>5, <1>7, <2>1 DEF FreeApart, last
    <3>2. y \in 0 .. MemRegionSize - ClassMaxSize(c) /\ ClassMaxSize(c) \in Nat
      BY <1>2, <2>1, ClassTyped DEF Lists
    <3> HIDE DEF y
    <3>3. Disjoint(last.addr, RingExtentSize, y, ClassMaxSize(c))
      BY <1>5, <1>9, <1>12, <3>1, <3>2 DEF Disjoint
    <3> QED
      BY <1>12, <2>1, <2>2, <3>3 DEF y, Base
  <2>3. CASE q # side
    <3>1. q \in 1 .. Cut /\ q \in {1, 2}
      BY <1>4, <1>10, <2>3
    <3>2. Base(q)' = Base(q)
      BY <1>11, <2>3, <3>1 DEF Base
    <3>3. Disjoint(Base(q), RingExtentSize, freelist[c][i].addr, ClassMaxSize(c))
      BY <1>2, <2>1, <3>1 DEF RingsFree
    <3> QED
      BY <2>1, <3>2, <3>3
  <2> QED
    BY <2>2, <2>3
<1>20. RingsApart'
  <2> SUFFICES ASSUME side = 2
               PROVE  Disjoint(Base(1)', RingExtentSize, Base(2)', RingExtentSize)
    BY <1>3, <1>10 DEF RingsApart
  <2>1. 1 \in 1 .. Cut /\ 1 <= Cut
    BY <1>10
  <2>2. Disjoint(Base(1), RingExtentSize, last.addr, ClassMaxSize(d))
    BY <1>2, <1>5, <1>7, <2>1 DEF RingsFree, last
  <2>3. Base(1)' = Base(1) /\ Base(2)' = last.addr
    BY <1>11, <1>12 DEF Base
  <2>4. Base(1) \in Int
    BY <1>2, <1>9, <2>1 DEF Rings
  <2>5. Disjoint(Base(1), RingExtentSize, last.addr, RingExtentSize)
    BY <1>5, <1>9, <1>12, <2>2, <2>4 DEF Disjoint
  <2> QED
    BY <2>3, <2>5
<1>21. Shape'
  <2>1. side = 1 => Len(freelist'[d]) >= 1
    <3> SUFFICES ASSUME side = 1
                 PROVE  Len(freelist'[d]) >= 1
      OBVIOUS
    <3>1. Len(freelist[d]) >= IF d = Top THEN Wholes ELSE 2
      BY <1>1, <1>2 DEF Shape
    <3>2. Len(freelist[d]) >= 2
      <4>1. Wholes \in Nat
        BY <1>4, RegionSize
      <4> QED
        BY <1>5, <1>6, <3>1, <4>1
    <3>3. Len(freelist'[d]) = Len(freelist[d]) - 1
      BY <1>7 DEF Taken
    <3> QED
      BY <1>6, <3>2, <3>3
  <2> QED
    BY <1>1, <1>3, <2>1 DEF Shape, Early, d
<1> QED
  BY <1>5, <1>6, <1>7, <1>13, <1>14, <1>15, <1>16, <1>17, <1>18, <1>19, <1>20, <1>21
     DEF ChannelInv, d

\* The work requests for sending are linked; on to the next ring.
LEMMA ChannelSends ==
  ASSUME ChannelInv, InitSends
  PROVE  ChannelInv'
<1>1. /\ pc = "sends" /\ send_wr' = send_wr \cup {side}
      /\ \/ side = 1 /\ side' = 2 /\ pc' = "alloc"
         \/ side # 1 /\ pc' = "allocated" /\ side' = side
      /\ UNCHANGED <<sizing, verbs, mr, rx_ring, shm, freelist, user_alloc, next_class>>
  BY DEF InitSends, alloc_vars
<1>2. Basics /\ Phases /\ Rings /\ Lists /\ Shape /\ FreeApart /\ RingsFree /\ RingsApart
  BY DEF ChannelInv
<1>3. /\ RingExtentSize' = RingExtentSize /\ MemRegionSize' = MemRegionSize
      /\ RingClass' = RingClass /\ Wholes' = Wholes
  BY <1>1, SizesStay
<1>4. side \in {1, 2} /\ Cut = side /\ Cut' = Cut
  BY <1>1, <1>2 DEF Basics, Cut
<1>5. \A q \in {1, 2} : Base(q)' = Base(q)
  BY <1>1 DEF Base
<1>6. Basics'
  BY <1>1, <1>2, <1>4 DEF Basics
<1>7. Phases'
  <2>1. send_wr = 1 .. side - 1
    BY <1>1, <1>2 DEF Phases, Placed
  <2>2. send_wr' = IF pc' = "allocated" THEN {1, 2} ELSE 1 .. side' - 1
    BY <1>1, <1>4, <2>1
  <2> QED
    BY <1>1, <1>2, <1>3, <1>4, <2>2 DEF Phases, Early, Placed
<1>8. Rings'
  BY <1>1, <1>2, <1>3, <1>4, <1>5 DEF Rings
<1>9. Lists' /\ FreeApart'
  BY <1>1, <1>2, <1>3 DEF Lists, FreeApart
<1>10. RingsFree' /\ RingsApart'
  BY <1>1, <1>2, <1>3, <1>4 DEF RingsFree, RingsApart, Base
<1>11. Shape'
  BY <1>1, <1>2, <1>3, <1>4 DEF Shape, Early
<1> QED
  BY <1>6, <1>7, <1>8, <1>9, <1>10, <1>11 DEF ChannelInv

\* Every step keeps the invariant.
LEMMA ChannelNext ==
  ASSUME ChannelInv, [Next]_vars
  PROVE  ChannelInv'
<1>1. CASE ResolvePhyPort \/ RoceResolvePhyPort \/ AllocPd \/ CreateQp \/ QpCreated \/ AllocRegion
  BY <1>1, ChannelEarly
<1>2. CASE RegisterRegion
  <2>1. CASE pc' = "alloc"
    BY <1>2, <2>1, ChannelRegister
  <2>2. CASE pc' # "alloc"
    <3>1. /\ UNCHANGED <<sizing, side, verbs, mr, rx_ring, send_wr, shm, freelist, user_alloc, next_class>>
          /\ pc = "register" /\ pc' = "aborted"
      BY <1>2, <2>2 DEF RegisterRegion
    <3>2. side \in {1, 2} /\ verbs \subseteq {1, 2} \X VerbsParts /\ shm \in Seq(Nat)
      BY DEF ChannelInv, Basics
    <3> QED
      BY <3>1, <3>2, ChannelQuiet DEF Early
  <2> QED
    BY <2>1, <2>2
<1>3. CASE Alloc
  BY <1>3, ChannelAlloc
<1>4. CASE SplitClass
  BY <1>4, ChannelSplit
<1>5. CASE InitRecvs
  BY <1>5, ChannelRecvs
<1>6. CASE InitSends
  BY <1>6, ChannelSends
<1>7. CASE UNCHANGED vars
  BY <1>7 DEF vars, alloc_vars, ChannelInv, Basics, Phases, Rings, Lists, Shape, FreeApart,
              RingsFree, RingsApart, Cut, Base, RingExtentSize, MemRegionSize, RingClass, Wholes,
              GetClass, MsbIndex
<1> QED
  BY <1>1, <1>2, <1>3, <1>4, <1>5, <1>6, <1>7 DEF Next

\* The invariant holds throughout.
LEMMA ChannelInvariant == Spec => []ChannelInv
<1>1. ChannelInv /\ [Next]_vars => ChannelInv'
  BY ChannelNext
<1> QED
  BY ChannelInit, <1>1, PTL DEF Spec

----------------------------------------------------------------------------
(* What follows from it.                                                   *)

\* The entries of a ring lie in a row in its extent.
LEMMA EntriesFollow ==
  ASSUME sizing \in Sizings, NEW i \in 1 .. sizing.rq
  PROVE  /\ (i - 1) * sizing.mbuf \in Nat
         /\ (i - 1) * sizing.mbuf + sizing.mbuf <= RingExtentSize
         /\ \A j \in 1 .. sizing.rq :
              i < j => (i - 1) * sizing.mbuf + sizing.mbuf <= (j - 1) * sizing.mbuf
<1> DEFINE rq == sizing.rq
           n == sizing.mbuf
<1>1. rq \in Nat /\ n \in Nat /\ RingExtentSize = rq * n
  BY RegionSize DEF RingExtentSize
<1> HIDE DEF rq, n
<1>2. i \in 1 .. rq
  BY DEF rq
<1>3. (i - 1) * n \in Nat /\ (i - 1) * n + n = n * i /\ rq * n = n * rq
  BY <1>1, <1>2
<1>4. n * i <= n * rq
  BY <1>1, <1>2, ProductGrows
<1>5. ASSUME NEW j \in 1 .. rq, i < j
      PROVE  (i - 1) * n + n <= (j - 1) * n
  <2>1. i \in Int /\ j - 1 \in Int /\ i <= j - 1
    BY <1>1, <1>2, <1>5
  <2>2. n * i <= n * (j - 1)
    BY <1>1, <2>1, ProductGrows
  <2>3. (j - 1) * n = n * (j - 1)
    BY <1>1, <2>1
  <2> QED
    BY <1>3, <2>2, <2>3
<1> QED
  BY <1>1, <1>3, <1>4, <1>5 DEF rq, n

\* A ring that was cut, entry by entry.
LEMMA RingIs ==
  ASSUME ChannelInv, NEW q \in {1, 2}
  PROVE  /\ q > Cut => rx_ring[q] = <<>> /\ Len(rx_ring[q]) = 0
         /\ q <= Cut => /\ Base(q) \in Nat
                        /\ Base(q) + RingExtentSize <= MemRegionSize
                        /\ Len(rx_ring[q]) = sizing.rq
                        /\ \A i \in 1 .. sizing.rq :
                             rx_ring[q][i] = Base(q) + (i - 1) * sizing.mbuf
                        /\ rx_ring[q] \in Seq(0 .. MemRegionSize - sizing.mbuf)
<1>1. sizing \in Sizings
  BY DEF ChannelInv, Basics
<1>2. /\ sizing.rq \in Nat \ {0} /\ sizing.mbuf \in Nat \ {0} /\ RingExtentSize \in Nat
      /\ MemRegionSize \in Nat
  BY <1>1, RegionSize
<1>3. q > Cut => rx_ring[q] = <<>> /\ Len(rx_ring[q]) = 0
  BY DEF ChannelInv, Rings
<1>4. ASSUME q <= Cut
      PROVE  /\ Base(q) \in Nat
             /\ Base(q) + RingExtentSize <= MemRegionSize
             /\ Len(rx_ring[q]) = sizing.rq
             /\ \A i \in 1 .. sizing.rq : rx_ring[q][i] = Base(q) + (i - 1) * sizing.mbuf
             /\ rx_ring[q] \in Seq(0 .. MemRegionSize - sizing.mbuf)
  <2>1. /\ Base(q) \in 0 .. MemRegionSize - RingExtentSize
        /\ rx_ring[q] = [i \in 1 .. sizing.rq |-> Base(q) + (i - 1) * sizing.mbuf]
    BY <1>4 DEF ChannelInv, Rings
  <2> DEFINE b == Base(q)
             r == rx_ring[q]
  <2> HIDE DEF b, r
  <2>2. b \in Nat /\ b + RingExtentSize <= MemRegionSize
    BY <1>2, <2>1 DEF b
  <2>3. r = [i \in 1 .. sizing.rq |-> b + (i - 1) * sizing.mbuf]
    BY <2>1 DEF b, r
  <2>4. ASSUME NEW i \in 1 .. sizing.rq
        PROVE  b + (i - 1) * sizing.mbuf \in 0 .. MemRegionSize - sizing.mbuf
    <3> DEFINE x == (i - 1) * sizing.mbuf
    <3>1. x \in Nat /\ x + sizing.mbuf <= RingExtentSize
      BY <1>1, EntriesFollow
    <3> HIDE DEF x
    <3>2. b + x \in 0 .. MemRegionSize - sizing.mbuf
      BY <1>2, <2>2, <3>1
    <3> QED
      BY <3>2 DEF x
  <2>5. r \in [1 .. sizing.rq -> 0 .. MemRegionSize - sizing.mbuf]
    BY <2>3, <2>4
  <2>6. r \in Seq(0 .. MemRegionSize - sizing.mbuf) /\ Len(r) = sizing.rq
    BY <1>2, <2>5
  <2> QED
    BY <2>2, <2>3, <2>6 DEF b, r
<1> QED
  BY <1>3, <1>4

\* Every variable of allocate_channel and of the allocator keeps its type: in
\* particular a free buffer has the size of the class it is kept in, and it,
\* every ring entry and all that was handed out fit the region.
THEOREM SocChannelTypeCorrect == Spec => []TypeOK
<1>1. ChannelInv => TypeOK
  <2> SUFFICES ASSUME ChannelInv
               PROVE  TypeOK
    OBVIOUS
  <2>1. Basics /\ Phases /\ Rings /\ Lists
    BY DEF ChannelInv
  <2>2. sizing \in Sizings /\ side \in {1, 2}
    BY <2>1 DEF Basics
  <2>3. /\ MemRegionSize \in Nat /\ ClassMaxSize(RingClass) \in Nat
        /\ 2 * ClassMaxSize(RingClass) <= MemRegionSize
    BY <2>2, RegionSize, RingSize
  <2>4. Cut \in {0, 1, 2}
    BY <2>2 DEF Cut
  <2>5. /\ pc \in {"resolve", "roce", "pd", "verbs", "raw", "register", "alloc", "split",
                   "sends", "allocated", "failed", "aborted", "null"}
        /\ mr \in Nat /\ send_wr \subseteq {1, 2}
    BY <2>1, <2>2, <2>3 DEF Phases, Early, Placed
  <2>6. user_alloc \in 0 .. MemRegionSize
    <3>1. user_alloc = Cut * ClassMaxSize(RingClass)
      BY <2>1 DEF Phases
    <3> QED
      BY <2>3, <2>4, <3>1
  <2>7. rx_ring \in [{1, 2} -> Seq(0 .. MemRegionSize - sizing.mbuf)]
    <3>1. ASSUME NEW q \in {1, 2}
          PROVE  rx_ring[q] \in Seq(0 .. MemRegionSize - sizing.mbuf)
      <4>1. q <= Cut \/ q > Cut
        BY <2>4
      <4>2. <<>> \in Seq(0 .. MemRegionSize - sizing.mbuf)
        OBVIOUS
      <4> QED
        BY <4>1, <4>2, RingIs
    <3>2. rx_ring = [q \in {1, 2} |-> rx_ring[q]]
      BY <2>1 DEF Rings
    <3> QED
      BY <3>1, <3>2
  <2>8. ASSUME NEW c \in Classes, NEW b \in ToSet(freelist[c])
        PROVE  b.class_size = ClassMaxSize(c) /\ b.addr \in 0 .. MemRegionSize - b.class_size
    <3>1. freelist[c] \in Seq(Buffers)
      BY <2>1 DEF Basics
    <3>2. PICK i \in 1 .. Len(freelist[c]) : b = freelist[c][i]
      BY <3>1 DEF ToSet
    <3> QED
      BY <2>1, <3>2 DEF Lists
  <2> QED
    BY <2>1, <2>2, <2>5, <2>6, <2>7, <2>8 DEF TypeOK, Basics, Buffers
<1> QED
  BY <1>1, ChannelInvariant, PTL

\* Disjoint stretches have no byte in common.
LEMMA BytesApart ==
  ASSUME NEW a \in Int, NEW m \in Int, NEW b \in Int, NEW n \in Int, Disjoint(a, m, b, n)
  PROVE  Bytes(a, m) \cap Bytes(b, n) = {}
BY DEF Disjoint, Bytes

\* The entries that were handed out are those of the rings that were cut.
LEMMA FilledIs ==
  ASSUME ChannelInv, NEW e \in Filled
  PROVE  \E q \in {1, 2}, i \in 1 .. sizing.rq :
           /\ e = <<q, i>> /\ q <= Cut
           /\ At(e) = Bytes(Base(q) + (i - 1) * sizing.mbuf, sizing.mbuf)
<1>1. PICK q \in {1, 2}, i \in 1 .. sizing.rq : e = <<q, i>>
  BY DEF Filled, RingEntries
<1>2. i <= Len(rx_ring[q])
  BY <1>1 DEF Filled
<1>3. sizing.rq \in Nat /\ Cut \in {0, 1, 2}
  BY RegionSize DEF ChannelInv, Basics, Cut
<1>4. q <= Cut
  <2> SUFFICES ASSUME q > Cut
               PROVE  FALSE
    BY <1>3
  <2>1. Len(rx_ring[q]) = 0
    BY RingIs
  <2> QED
    BY <1>2, <1>3, <2>1
<1>5. rx_ring[q][i] = Base(q) + (i - 1) * sizing.mbuf
  BY <1>4, RingIs
<1>6. At(e) = Bytes(Base(q) + (i - 1) * sizing.mbuf, sizing.mbuf)
  BY <1>1, <1>5 DEF At
<1> QED
  BY <1>1, <1>4, <1>6

\* A free buffer has a place in a list.
LEMMA FreeIs ==
  ASSUME ChannelInv, NEW b \in Free
  PROVE  \E c \in Classes : \E i \in 1 .. Len(freelist[c]) :
           /\ b = freelist[c][i] /\ b.class_size = ClassMaxSize(c)
           /\ b.addr \in Nat /\ ClassMaxSize(c) \in Nat
<1>1. PICK c \in Classes : b \in ToSet(freelist[c])
  BY DEF Free
<1>2. freelist[c] \in Seq(Buffers)
  BY DEF ChannelInv, Basics
<1>3. PICK i \in 1 .. Len(freelist[c]) : b = freelist[c][i]
  BY <1>1, <1>2 DEF ToSet
<1>4. b \in Buffers
  BY <1>2, <1>3
<1>5. b.class_size = ClassMaxSize(c)
  BY <1>3 DEF ChannelInv, Lists
<1>6. b.addr \in Nat /\ b.class_size \in Nat
  BY <1>4 DEF Buffers
<1> QED
  BY <1>3, <1>5, <1>6

\* The entries of both rings and the free buffers are disjoint and inside the
\* registered region, whatever had to be split (add_raw_buffer, split,
\* alloc_from_class, __init_recvs).
THEOREM BuffersStayApart == Spec => []BuffersAreApart
<1>1. ChannelInv => BuffersAreApart
  <2> SUFFICES ASSUME ChannelInv
               PROVE  BuffersAreApart
    OBVIOUS
  <2> DEFINE n == sizing.mbuf
             Pos(q, i) == Base(q) + (i - 1) * sizing.mbuf
  <2>1. sizing \in Sizings /\ Cut \in {0, 1, 2}
    BY DEF ChannelInv, Basics, Cut
  <2>2. n \in Nat \ {0} /\ RingExtentSize \in Nat /\ MemRegionSize \in Nat
    BY <2>1, RegionSize
  <2>3. ASSUME NEW q \in {1, 2}, q <= Cut, NEW i \in 1 .. sizing.rq
        PROVE  /\ Base(q) \in Nat /\ Pos(q, i) \in Nat
               /\ Base(q) <= Pos(q, i) /\ Pos(q, i) + n <= Base(q) + RingExtentSize
               /\ Base(q) + RingExtentSize <= MemRegionSize
    <3> DEFINE x == (i - 1) * sizing.mbuf
    <3>1. Base(q) \in Nat /\ Base(q) + RingExtentSize <= MemRegionSize
      BY <2>3, RingIs
    <3>2. x \in Nat /\ x + n <= RingExtentSize
      BY <2>1, EntriesFollow
    <3>3. Pos(q, i) = Base(q) + x
      OBVIOUS
    <3> HIDE DEF x, Pos, n
    <3> QED
      BY <2>2, <3>1, <3>2, <3>3
  <2>4. ASSUME NEW e \in Filled, NEW f \in Filled, e # f
        PROVE  At(e) \cap At(f) = {}
    <3>1. PICK q \in {1, 2}, i \in 1 .. sizing.rq :
            e = <<q, i>> /\ q <= Cut /\ At(e) = Bytes(Pos(q, i), n)
      BY FilledIs
    <3>2. PICK r \in {1, 2}, j \in 1 .. sizing.rq :
            f = <<r, j>> /\ r <= Cut /\ At(f) = Bytes(Pos(r, j), n)
      BY FilledIs
    <3>3. /\ Pos(q, i) \in Nat /\ Pos(r, j) \in Nat /\ Base(q) \in Nat /\ Base(r) \in Nat
          /\ Base(q) <= Pos(q, i) /\ Pos(q, i) + n <= Base(q) + RingExtentSize
          /\ Base(r) <= Pos(r, j) /\ Pos(r, j) + n <= Base(r) + RingExtentSize
      BY <2>3, <3>1, <3>2
    <3>4. Disjoint(Pos(q, i), n, Pos(r, j), n)
      <4>1. CASE q = r
        <5>1. i # j
          BY <2>4, <3>1, <3>2, <4>1
        <5>2. i < j \/ j < i
          BY <5>1
        <5> DEFINE x == (i - 1) * sizing.mbuf
                   y == (j - 1) * sizing.mbuf
        <5>3. /\ x \in Nat /\ y \in Nat
              /\ i < j => x + n <= y
              /\ j < i => y + n <= x
          BY <2>1, EntriesFollow
        <5>4. Pos(q, i) = Base(q) + x /\ Pos(r, j) = Base(q) + y
          BY <4>1
        <5> HIDE DEF x, y, Pos, n
        <5> QED
          BY <2>2, <3>3, <5>2, <5>3, <5>4 DEF Disjoint
      <4>2. CASE q # r
        <5>1. (q = 1 /\ r = 2) \/ (q = 2 /\ r = 1)
          BY <4>2
        <5>2. q <= Cut /\ r <= Cut
          BY <3>1, <3>2
        <5>3. Cut = 2
          BY <2>1, <5>1, <5>2
        <5>4. Disjoint(Base(1), RingExtentSize, Base(2), RingExtentSize)
          BY <5>3 DEF ChannelInv, RingsApart
        <5>5. Disjoint(Base(q), RingExtentSize, Base(r), RingExtentSize)
          BY <5>1, <5>4 DEF Disjoint
        <5> HIDE DEF Pos, n
        <5> QED
          BY <2>2, <3>3, <5>5, Shrunk
      <4> QED
        BY <4>1, <4>2
    <3> HIDE DEF Pos, n
    <3>5. Bytes(Pos(q, i), n) \cap Bytes(Pos(r, j), n) = {}
      BY <2>2, <3>3, <3>4, BytesApart
    <3> QED
      BY <3>1, <3>2, <3>5
  <2>5. ASSUME NEW e \in Filled, NEW b \in Free
        PROVE  At(e) \cap Bytes(b.addr, b.class_size) = {}
    <3>1. PICK q \in {1, 2}, i \in 1 .. sizing.rq :
            e = <<q, i>> /\ q <= Cut /\ At(e) = Bytes(Pos(q, i), n)
      BY FilledIs
    <3>2. PICK c \in Classes : \E j \in 1 .. Len(freelist[c]) :
            /\ b = freelist[c][j] /\ b.class_size = ClassMaxSize(c)
            /\ b.addr \in Nat /\ ClassMaxSize(c) \in Nat
      BY FreeIs
    <3>3. PICK j \in 1 .. Len(freelist[c]) :
            /\ b = freelist[c][j] /\ b.class_size = ClassMaxSize(c)
            /\ b.addr \in Nat /\ ClassMaxSize(c) \in Nat
      BY <3>2
    <3>4. q \in 1 .. Cut
      BY <2>1, <3>1
    <3>5. Disjoint(Base(q), RingExtentSize, b.addr, ClassMaxSize(c))
      BY <3>3, <3>4 DEF ChannelInv, RingsFree
    <3>6. /\ Pos(q, i) \in Nat /\ Base(q) \in Nat
          /\ Base(q) <= Pos(q, i) /\ Pos(q, i) + n <= Base(q) + RingExtentSize
      BY <2>3, <3>1
    <3> HIDE DEF Pos, n
    <3>7. Disjoint(Pos(q, i), n, b.addr, ClassMaxSize(c))
      BY <2>2, <3>3, <3>5, <3>6 DEF Disjoint
    <3>8. Bytes(Pos(q, i), n) \cap Bytes(b.addr, ClassMaxSize(c)) = {}
      <4>1. n \in Nat /\ Pos(q, i) \in Nat /\ b.addr \in Nat /\ ClassMaxSize(c) \in Nat
        BY <2>2, <3>3, <3>6
      <4> QED
        BY <3>7, <4>1, BytesApart
    <3> QED
      BY <3>1, <3>3, <3>8
  <2>6. ASSUME NEW a \in Free, NEW b \in Free, a # b
        PROVE  Bytes(a.addr, a.class_size) \cap Bytes(b.addr, b.class_size) = {}
    <3>1. PICK c \in Classes : \E i \in 1 .. Len(freelist[c]) :
            /\ a = freelist[c][i] /\ a.class_size = ClassMaxSize(c)
            /\ a.addr \in Nat /\ ClassMaxSize(c) \in Nat
      BY FreeIs
    <3>2. PICK i \in 1 .. Len(freelist[c]) :
            /\ a = freelist[c][i] /\ a.class_size = ClassMaxSize(c)
            /\ a.addr \in Nat /\ ClassMaxSize(c) \in Nat
      BY <3>1
    <3>3. PICK d \in Classes : \E j \in 1 .. Len(freelist[d]) :
            /\ b = freelist[d][j] /\ b.class_size = ClassMaxSize(d)
            /\ b.addr \in Nat /\ ClassMaxSize(d) \in Nat
      BY FreeIs
    <3>4. PICK j \in 1 .. Len(freelist[d]) :
            /\ b = freelist[d][j] /\ b.class_size = ClassMaxSize(d)
            /\ b.addr \in Nat /\ ClassMaxSize(d) \in Nat
      BY <3>3
    <3>5. c # d \/ i # j
      BY <2>6, <3>2, <3>4
    <3>6. Disjoint(a.addr, ClassMaxSize(c), b.addr, ClassMaxSize(d))
      BY <3>2, <3>4, <3>5 DEF ChannelInv, FreeApart
    <3>7. Bytes(a.addr, ClassMaxSize(c)) \cap Bytes(b.addr, ClassMaxSize(d)) = {}
      BY <3>2, <3>4, <3>6, BytesApart
    <3> QED
      BY <3>2, <3>4, <3>7
  <2>7. ASSUME NEW e \in Filled
        PROVE  At(e) \subseteq 0 .. mr - 1
    <3>1. PICK q \in {1, 2}, i \in 1 .. sizing.rq :
            e = <<q, i>> /\ q <= Cut /\ At(e) = Bytes(Pos(q, i), n)
      BY FilledIs
    <3>2. /\ Pos(q, i) \in Nat /\ Base(q) \in Nat /\ Pos(q, i) + n <= Base(q) + RingExtentSize
          /\ Base(q) + RingExtentSize <= MemRegionSize
      BY <2>3, <3>1
    <3>3. pc \in Placed
      BY <2>1, <3>1 DEF Cut, Placed
    <3>4. mr = MemRegionSize
      BY <3>3 DEF ChannelInv, Phases
    <3> HIDE DEF Pos, n
    <3>5. Bytes(Pos(q, i), n) \subseteq 0 .. mr - 1
      BY <2>2, <3>2, <3>4 DEF Bytes
    <3> QED
      BY <3>1, <3>5
  <2> QED
    BY <2>4, <2>5, <2>6, <2>7 DEF BuffersAreApart
<1> QED
  BY <1>1, ChannelInvariant, PTL

\* The region is enough for both rings: alloc never returns the null pointer
\* that __init_recvs would follow, get_class agrees with get_class_slow on the
\* class a ring is served from, and split finds the class below empty.
THEOREM AllocatorNeverShort == Spec => []NeverShort
<1>1. ChannelInv => NeverShort
  <2> SUFFICES ASSUME ChannelInv
               PROVE  NeverShort
    OBVIOUS
  <2>1. Basics /\ Phases /\ Shape
    BY DEF ChannelInv
  <2>2. sizing \in Sizings /\ side \in {1, 2} /\ next_class \in Classes
    BY <2>1 DEF Basics
  <2>3. pc # "null"
    BY <2>1 DEF Phases, Early, Placed
  <2>4. pc = "sends" => next_class = GetClassSlow(RingExtentSize)
    BY <2>1, <2>2, RingSize DEF Shape
  <2>5. ASSUME pc = "split", next_class # RingClass
        PROVE  freelist[next_class - 1] = <<>>
    <3>1. side = 1 /\ RingClass <= next_class
      BY <2>1, <2>2, <2>5 DEF Shape
    <3>2. next_class \in Nat /\ next_class <= Top /\ RingClass \in Nat
      BY <2>2, ClassTyped, RingSize
    <3>3. next_class - 1 < next_class /\ next_class - 1 \in 0 .. NumClasses - 1
      BY <2>5, <3>1, <3>2, ClassAssumption DEF Top
    <3> QED
      BY <2>1, <2>5, <3>1, <3>3 DEF Shape, Classes
  <2>6. ASSUME pc = "allocated"
        PROVE  Filled = RingEntries /\ send_wr = {1, 2}
    <3>1. Cut = 2
      BY <2>1, <2>6 DEF Phases, Cut
    <3>2. \A q \in {1, 2} : Len(rx_ring[q]) = sizing.rq
      BY <3>1, RingIs
    <3>3. sizing.rq \in Nat
      BY <2>2, RegionSize
    <3>4. ASSUME NEW e \in RingEntries
          PROVE  e[2] <= Len(rx_ring[e[1]])
      <4>1. PICK q \in {1, 2}, i \in 1 .. sizing.rq : e = <<q, i>>
        BY DEF RingEntries
      <4> QED
        BY <3>2, <3>3, <4>1
    <3>5. Filled = RingEntries
      BY <3>4 DEF Filled
    <3> QED
      BY <2>1, <2>6, <3>5 DEF Phases
  <2> QED
    BY <2>3, <2>4, <2>5, <2>6 DEF NeverShort, RingClass
<1> QED
  BY <1>1, ChannelInvariant, PTL

----------------------------------------------------------------------------
(* The sum over the free lists.                                            *)

BytesOf(lists) == [i \in 1 .. NumClasses |-> Len(lists[i - 1]) * ClassMaxSize(i - 1)]
Total(lists) == SumTo(BytesOf(lists), NumClasses)

\* What the lists of the classes make together.
LEMMA BytesTyped ==
  ASSUME NEW lists \in [Classes -> Seq(Buffers)]
  PROVE  /\ NumClasses \in Nat
         /\ BytesOf(lists) \in [1 .. NumClasses -> Nat]
         /\ \A c \in Classes : /\ c + 1 \in 1 .. NumClasses
                               /\ BytesOf(lists)[c + 1] = Len(lists[c]) * ClassMaxSize(c)
         /\ \A i \in 1 .. NumClasses : i - 1 \in Classes
<1>1. NumClasses \in Nat
  BY ClassAssumption
<1>2. \A i \in 1 .. NumClasses : i - 1 \in Classes
  BY <1>1 DEF Classes
<1>3. ASSUME NEW c \in Classes
      PROVE  c + 1 \in 1 .. NumClasses /\ (c + 1) - 1 = c
  BY <1>1 DEF Classes
<1>4. ASSUME NEW i \in 1 .. NumClasses
      PROVE  Len(lists[i - 1]) * ClassMaxSize(i - 1) \in Nat
  <2>1. i - 1 \in Classes
    BY <1>2
  <2>2. lists[i - 1] \in Seq(Buffers)
    BY <2>1
  <2>3. Len(lists[i - 1]) \in Nat /\ ClassMaxSize(i - 1) \in Nat
    BY <2>1, <2>2, ClassTyped
  <2> QED
    BY <2>3
<1>5. BytesOf(lists) \in [1 .. NumClasses -> Nat]
  BY <1>4 DEF BytesOf
<1>6. \A c \in Classes : BytesOf(lists)[c + 1] = Len(lists[c]) * ClassMaxSize(c)
  BY <1>3 DEF BytesOf
<1> QED
  BY <1>1, <1>2, <1>3, <1>5, <1>6

\* One list changes its length.
LEMMA TotalChanged ==
  ASSUME NEW a \in [Classes -> Seq(Buffers)], NEW b \in [Classes -> Seq(Buffers)],
         NEW d \in Classes, \A c \in Classes \ {d} : Len(b[c]) = Len(a[c])
  PROVE  /\ Total(a) \in Nat /\ Total(b) \in Nat
         /\ Total(b) = Total(a) + Len(b[d]) * ClassMaxSize(d) - Len(a[d]) * ClassMaxSize(d)
<1> DEFINE g == BytesOf(a)
           e == BytesOf(b)
           n == NumClasses
<1>1. /\ n \in Nat /\ g \in [1 .. n -> Nat] /\ e \in [1 .. n -> Nat]
      /\ \A c \in Classes : /\ c + 1 \in 1 .. n
                            /\ g[c + 1] = Len(a[c]) * ClassMaxSize(c)
                            /\ e[c + 1] = Len(b[c]) * ClassMaxSize(c)
      /\ \A i \in 1 .. n : i - 1 \in Classes
  BY BytesTyped
<1>2. d + 1 \in 1 .. n
  BY <1>1
<1>3. ASSUME NEW i \in 1 .. n \ {d + 1}
      PROVE  e[i] = g[i]
  <2>1. i - 1 \in Classes /\ i - 1 # d
    BY <1>1, ClassAssumption DEF Classes
  <2>2. Len(b[i - 1]) = Len(a[i - 1])
    BY <2>1
  <2> QED
    BY <2>2 DEF BytesOf
<1> HIDE DEF g, e, n
<1>4. SumTo(g, n) \in Nat /\ SumTo(e, n) \in Nat /\ SumTo(e, n) = SumTo(g, n) + e[d + 1] - g[d + 1]
  BY <1>1, <1>2, <1>3, SumChanged
<1>5. Total(a) = SumTo(g, n) /\ Total(b) = SumTo(e, n)
  BY DEF Total, g, e, n
<1> QED
  BY <1>1, <1>4, <1>5

\* Nothing is free where all lists are empty.
LEMMA TotalOfNothing ==
  ASSUME NEW a \in [Classes -> Seq(Buffers)], \A c \in Classes : Len(a[c]) = 0
  PROVE  Total(a) = 0
<1>1. /\ NumClasses \in Nat /\ BytesOf(a) \in [1 .. NumClasses -> Nat]
      /\ \A i \in 1 .. NumClasses : i - 1 \in Classes
  BY BytesTyped
<1>2. ASSUME NEW i \in 1 .. NumClasses
      PROVE  BytesOf(a)[i] = 0
  <2>1. Len(a[i - 1]) = 0 /\ ClassMaxSize(i - 1) \in Nat
    BY <1>1, ClassTyped
  <2>2. 0 * ClassMaxSize(i - 1) = 0
    BY <2>1
  <2> QED
    BY <2>1, <2>2 DEF BytesOf
<1> QED
  BY <1>1, <1>2, SumOfNothing DEF Total

\* Two halves are one whole.
LEMMA SplitKeepsTotal ==
  ASSUME ChannelInv, SplitClass
  PROVE  Total(freelist') = Total(freelist)
<1> DEFINE d == next_class
           m == [freelist EXCEPT ![d] = freelist'[d]]
           size == ClassMaxSize(d - 1)
           n == Len(freelist[d])
<1>1. /\ Halved(d) /\ d - 1 \in Classes /\ d \in Classes /\ Len(freelist[d]) >= 1
      /\ freelist[d - 1] = <<>> /\ ClassMaxSize(d) = 2 * size
  BY ChannelSplit
<1>2. freelist \in [Classes -> Seq(Buffers)] /\ freelist' \in [Classes -> Seq(Buffers)]
  BY <1>1 DEF ChannelInv, Basics, Halved
<1>3. /\ m \in [Classes -> Seq(Buffers)] /\ m[d] = freelist'[d]
      /\ \A c \in Classes \ {d} : m[c] = freelist[c]
  BY <1>1, <1>2
<1>4. d - 1 # d
  BY <1>1 DEF Classes
<1>5. /\ Len(freelist'[d]) = n - 1 /\ Len(freelist'[d - 1]) = 2
      /\ \A c \in Classes \ {d, d - 1} : freelist'[c] = freelist[c]
  BY <1>1 DEF Halved
<1>6. n \in Nat /\ size \in Nat /\ Len(freelist[d - 1]) = 0
  BY <1>1, <1>2, ClassTyped
<1>7. m[d - 1] = freelist[d - 1] /\ Len(m[d]) = n - 1 /\ Len(m[d - 1]) = 0
  BY <1>1, <1>3, <1>4, <1>5, <1>6
<1>8. \A c \in Classes \ {d} : Len(m[c]) = Len(freelist[c])
  BY <1>3
<1>9. \A c \in Classes \ {d - 1} : Len(freelist'[c]) = Len(m[c])
  BY <1>3, <1>5
<1> HIDE DEF d, m, size, n
<1>10. /\ Total(freelist) \in Nat /\ Total(m) \in Nat
       /\ Total(m) = Total(freelist) + (n - 1) * ClassMaxSize(d) - n * ClassMaxSize(d)
  <2>1. /\ Total(freelist) \in Nat /\ Total(m) \in Nat
        /\ Total(m) = Total(freelist) + Len(m[d]) * ClassMaxSize(d)
                                      - Len(freelist[d]) * ClassMaxSize(d)
    BY <1>1, <1>2, <1>3, <1>8, TotalChanged
  <2>2. Len(m[d]) = n - 1 /\ Len(freelist[d]) = n
    BY <1>7 DEF n
  <2> QED
    BY <2>1, <2>2
<1>11. /\ Total(freelist') \in Nat
       /\ Total(freelist') = Total(m) + 2 * size - 0 * size
  <2>1. /\ Total(freelist') \in Nat
        /\ Total(freelist') = Total(m) + Len(freelist'[d - 1]) * ClassMaxSize(d - 1)
                                       - Len(m[d - 1]) * ClassMaxSize(d - 1)
    BY <1>1, <1>2, <1>3, <1>9, TotalChanged
  <2> QED
    BY <1>5, <1>7, <2>1 DEF size
<1>12. (n - 1) * ClassMaxSize(d) = n * ClassMaxSize(d) - 2 * size /\ n * ClassMaxSize(d) \in Nat
  BY <1>1, <1>6
<1> QED
  BY <1>6, <1>10, <1>11, <1>12

\* Splitting loses nothing: what is free and what was handed out make up the
\* registered region at any time (stats_, split, alloc_from_class).
THEOREM NoMemoryLost == Spec => []NothingLost
<1> DEFINE Kept == Total(freelist) + user_alloc = mr
<1>1. Kept <=> NothingLost
  BY DEF NothingLost, Total, BytesOf, ClassBytes
<1>2. Init => Kept
  <2> SUFFICES ASSUME Init
               PROVE  Kept
    OBVIOUS
  <2>1. freelist = [c \in Classes |-> <<>>] /\ user_alloc = 0 /\ mr = 0
    BY DEF Init, AllocInit
  <2>2. freelist \in [Classes -> Seq(Buffers)] /\ \A c \in Classes : Len(freelist[c]) = 0
    <3>1. <<>> \in Seq(Buffers) /\ Len(<<>>) = 0
      OBVIOUS
    <3> QED
      BY <2>1, <3>1
  <2>3. Total(freelist) = 0
    BY <2>2, TotalOfNothing
  <2> QED
    BY <2>1, <2>3
<1>3. ASSUME ChannelInv, Kept, [Next]_vars
      PROVE  Kept'
  <2>1. freelist \in [Classes -> Seq(Buffers)] /\ sizing \in Sizings
    BY <1>3 DEF ChannelInv, Basics
  <2>2. CASE UNCHANGED <<freelist, user_alloc, mr>>
    BY <1>3, <2>2
  <2>3. CASE RegisterRegion /\ pc' = "alloc"
    <3>1. mr' = MemRegionSize /\ user_alloc' = user_alloc /\ pc = "register"
      BY <2>3 DEF RegisterRegion
    <3>2. /\ \A c \in Classes : Len(freelist'[c]) = IF c = Top THEN Wholes ELSE 0
          /\ freelist' \in [Classes -> Seq(Buffers)]
      BY <1>3, <2>3, ChannelRegister DEF ChannelInv, Basics
    <3>3. \A c \in Classes : freelist[c] = <<>> /\ Len(freelist[c]) = 0
      BY <1>3, <3>1 DEF ChannelInv, Shape, Early
    <3>4. Total(freelist) = 0
      BY <2>1, <3>3, TotalOfNothing
    <3>5. /\ MaxClassSize \in Nat /\ Wholes \in Nat /\ MemRegionSize = MaxClassSize * Wholes
          /\ Top \in Classes /\ ClassMaxSize(Top) = MaxClassSize
      BY <2>1, RegionSize, RingSize
    <3>6. \A c \in Classes \ {Top} : Len(freelist'[c]) = Len(freelist[c])
      BY <3>2, <3>3
    <3>7. Total(freelist') = 0 + Wholes * MaxClassSize - 0 * MaxClassSize
      BY <2>1, <3>2, <3>3, <3>4, <3>5, <3>6, TotalChanged
    <3>8. user_alloc = 0
      <4>1. Cut = 0 /\ user_alloc = Cut * ClassMaxSize(RingClass)
        BY <1>3, <3>1 DEF ChannelInv, Phases, Cut
      <4>2. ClassMaxSize(RingClass) \in Nat
        BY <2>1, RingSize
      <4> QED
        BY <4>1, <4>2
    <3> QED
      BY <3>1, <3>5, <3>7, <3>8
  <2>4. CASE SplitClass
    <3>1. Total(freelist') = Total(freelist)
      BY <1>3, <2>4, SplitKeepsTotal
    <3>2. UNCHANGED <<user_alloc, mr>>
      BY <2>4 DEF SplitClass
    <3> QED
      BY <1>3, <3>1, <3>2
  <2>5. CASE InitRecvs
    <3> DEFINE d == RingClass
               n == Len(freelist[d])
    <3>1. /\ Taken(d) /\ d \in Classes /\ user_alloc' = user_alloc + ClassMaxSize(d)
      BY <1>3, <2>5, ChannelRecvs
    <3>2. /\ freelist' \in [Classes -> Seq(Buffers)] /\ Len(freelist'[d]) = n - 1
          /\ \A c \in Classes \ {d} : Len(freelist'[c]) = Len(freelist[c])
      BY <3>1 DEF Taken
    <3>3. n \in Nat /\ ClassMaxSize(d) \in Nat /\ user_alloc \in Nat
      <4>1. n \in Nat /\ ClassMaxSize(d) \in Nat
        BY <2>1, <3>1, ClassTyped
      <4>2. user_alloc = Cut * ClassMaxSize(d) /\ Cut \in {0, 1, 2}
        BY <1>3 DEF ChannelInv, Phases, Basics, Cut
      <4> HIDE DEF d, n
      <4> QED
        BY <4>1, <4>2
    <3>4. mr' = mr
      BY <2>5 DEF InitRecvs
    <3> HIDE DEF d, n
    <3>5. /\ Total(freelist) \in Nat
          /\ Total(freelist') = Total(freelist) + (n - 1) * ClassMaxSize(d) - n * ClassMaxSize(d)
      BY <2>1, <3>1, <3>2, TotalChanged DEF n
    <3>6. (n - 1) * ClassMaxSize(d) = n * ClassMaxSize(d) - ClassMaxSize(d)
          /\ n * ClassMaxSize(d) \in Nat
      BY <3>3
    <3> QED
      BY <1>3, <3>1, <3>3, <3>4, <3>5, <3>6
  <2>6. \/ UNCHANGED <<freelist, user_alloc, mr>> \/ (RegisterRegion /\ pc' = "alloc")
        \/ SplitClass \/ InitRecvs
    BY <1>3 DEF Next, vars, alloc_vars, ResolvePhyPort, RoceResolvePhyPort, AllocPd, CreateQp,
                QpCreated, AllocRegion, RegisterRegion, Alloc, InitSends
  <2> QED
    BY <2>2, <2>3, <2>4, <2>5, <2>6
<1>4. Spec => []Kept
  BY <1>2, <1>3, ChannelInvariant, PTL DEF Spec
<1> QED
  BY <1>1, <1>4, PTL

=============================================================================

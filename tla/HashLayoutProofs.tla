------------------------- MODULE HashLayoutProofs -------------------------
(***************************************************************************)
(* Proofs about gcd and the sizes of CHashFile::Create, for sectors and    *)
(* digests of any size and any number of hashes.                           *)
(***************************************************************************)
EXTENDS HashLayout, TLAPS

-----------------------------------------------------------------------------
(***************************************************************************)
(* The inductive invariant.                                                *)
(***************************************************************************)
\* g is the greatest common divisor of a and b.
IsGcd(g, a, b) == /\ g \in CommonDivisors(a, b)
                  /\ \A d \in CommonDivisors(a, b) : d <= g

\* The recursion is at most 31 deep, since what it doubles is not larger than a sector.
ShiftInv == shift \in 0 .. 31 /\ m * 2^shift <= SectorSize

\* Whatever is found for m and n is right for the sector and the digest when the
\* callers have doubled it.
GcdInv == \A g \in CommonDivisors(m, n) :
            IsGcd(g, m, n) => IsGcd(g * 2^shift, SectorSize, cbHash)

IInv == TypeOK /\ ShiftInv /\ GcdInv /\ (pc = "done" => Over)

-----------------------------------------------------------------------------
(***************************************************************************)
(* Arithmetic.                                                             *)
(***************************************************************************)
\* Powers of 2 are doubled one after the other (computed for each of them).
LEMMA Powers ==
  ASSUME NEW k \in 0 .. 32
  PROVE  2^k \in Nat \ {0} /\ 2^(k + 1) = 2 * 2^k /\ 2^k <= 2^32
<1>1. CASE k = 0
  BY <1>1
<1>2. CASE k = 1
  BY <1>2
<1>3. CASE k = 2
  BY <1>3
<1>4. CASE k = 3
  BY <1>4
<1>5. CASE k = 4
  BY <1>5
<1>6. CASE k = 5
  BY <1>6
<1>7. CASE k = 6
  BY <1>7
<1>8. CASE k = 7
  BY <1>8
<1>9. CASE k = 8
  BY <1>9
<1>10. CASE k = 9
  BY <1>10
<1>11. CASE k = 10
  BY <1>11
<1>12. CASE k = 11
  BY <1>12
<1>13. CASE k = 12
  BY <1>13
<1>14. CASE k = 13
  BY <1>14
<1>15. CASE k = 14
  BY <1>15
<1>16. CASE k = 15
  BY <1>16
<1>17. CASE k = 16
  BY <1>17
<1>18. CASE k = 17
  BY <1>18
<1>19. CASE k = 18
  BY <1>19
<1>20. CASE k = 19
  BY <1>20
<1>21. CASE k = 20
  BY <1>21
<1>22. CASE k = 21
  BY <1>22
<1>23. CASE k = 22
  BY <1>23
<1>24. CASE k = 23
  BY <1>24
<1>25. CASE k = 24
  BY <1>25
<1>26. CASE k = 25
  BY <1>26
<1>27. CASE k = 26
  BY <1>27
<1>28. CASE k = 27
  BY <1>28
<1>29. CASE k = 28
  BY <1>29
<1>30. CASE k = 29
  BY <1>30
<1>31. CASE k = 30
  BY <1>31
<1>32. CASE k = 31
  BY <1>32
<1>33. CASE k = 32
  BY <1>33
<1>34. QED
  BY <1>1, <1>2, <1>3, <1>4, <1>5, <1>6, <1>7, <1>8, <1>9, <1>10, <1>11, <1>12, <1>13,
     <1>14, <1>15, <1>16, <1>17, <1>18, <1>19, <1>20, <1>21, <1>22, <1>23, <1>24,
     <1>25, <1>26, <1>27, <1>28, <1>29, <1>30, <1>31, <1>32, <1>33

\* A division rounded down.
LEMMA Divided ==
  ASSUME NEW k \in Nat, NEW d \in Nat \ {0}
  PROVE  /\ k \div d \in Nat /\ k % d \in 0 .. d - 1 /\ (k \div d) * d \in Nat
         /\ k = (k \div d) * d + (k % d)
<1>1. k = (k \div d) * d + (k % d) /\ k \div d \in Nat /\ k % d \in 0 .. d - 1
  OBVIOUS
<1>2. PICK j \in Nat : j = k \div d
  BY <1>1
<1>3. j * d \in Nat
  OBVIOUS
<1>4. QED
  BY <1>1, <1>2, <1>3

\* A number that divides leaves no remainder, and the other way round.
LEMMA DividesMultiple ==
  ASSUME NEW k \in Nat, NEW d \in Nat \ {0}
  PROVE  Divides(d, k) <=> \E q \in Nat : k = q * d
<1>1. ASSUME Divides(d, k) PROVE \E q \in Nat : k = q * d
  <2>1. PICK q \in Nat : q = k \div d
    BY Divided
  <2>2. k = q * d + 0
    BY <1>1, <2>1, Divided DEF Divides
  <2>3. q * d \in Nat
    OBVIOUS
  <2>4. k = q * d
    BY <2>2, <2>3
  <2>5. QED
    BY <2>4
<1>2. ASSUME NEW q \in Nat, k = q * d PROVE k % d = 0
  <2>1. PICK j \in Nat, r \in Nat : /\ j = k \div d /\ r = k % d
                                    /\ r < d /\ k = j * d + r /\ j * d \in Nat
    BY Divided
  <2>2. ~(j < q)
    <3>1. SUFFICES ASSUME j < q PROVE FALSE
      OBVIOUS
    <3>2. /\ q - j - 1 \in Nat
          /\ (q - j - 1) * d \in Nat
          /\ q * d = j * d + d + (q - j - 1) * d
      BY <3>1
    <3>3. QED
      BY <1>2, <2>1, <3>2
  <2>3. ~(q < j)
    <3>1. SUFFICES ASSUME q < j PROVE FALSE
      OBVIOUS
    <3>2. /\ j - q - 1 \in Nat
          /\ (j - q - 1) * d \in Nat
          /\ j * d = q * d + d + (j - q - 1) * d
      BY <3>1
    <3>3. q * d \in Nat
      OBVIOUS
    <3>4. QED
      BY <1>2, <2>1, <3>2, <3>3
  <2>4. q = j
    BY <2>2, <2>3
  <2>5. QED
    BY <1>2, <2>1, <2>4
<1>3. QED
  BY <1>1, <1>2 DEF Divides

\* A number is odd or twice another.
LEMMA Halves ==
  ASSUME NEW k \in Nat
  PROVE  /\ k \div 2 \in Nat
         /\ Odd(k) => k = 2 * (k \div 2) + 1
         /\ ~Odd(k) => k = 2 * (k \div 2)
BY DEF Odd

\* A divisor is not larger than what it divides.
LEMMA DivisorSmaller ==
  ASSUME NEW k \in Nat \ {0}, NEW d \in Nat \ {0}, NEW q \in Nat, k = q * d
  PROVE  d <= k /\ q # 0
<1>1. q # 0
  <2>1. 0 * d = 0
    OBVIOUS
  <2>2. QED
    BY <2>1
<1>2. q - 1 \in Nat /\ (q - 1) * d \in Nat /\ q * d = (q - 1) * d + d
  BY <1>1
<1>3. QED
  BY <1>1, <1>2

\* A smaller factor makes a smaller product.
LEMMA SmallerProduct ==
  ASSUME NEW k \in Nat, NEW i \in Nat, NEW p \in Nat, NEW y \in Nat, i <= k, k * p <= y
  PROVE  i * p <= y
<1>1. PICK d \in Nat : k = i + d
  OBVIOUS
<1>2. k * p = i * p + d * p /\ i * p \in Nat /\ d * p \in Nat
  BY <1>1
<1>3. QED
  BY <1>2

\* The common divisors are the numbers both are multiples of.
LEMMA CommonMultiples ==
  ASSUME NEW a \in Nat \ {0}, NEW b \in Nat \ {0}, NEW d
  PROVE  d \in CommonDivisors(a, b) <=>
           d \in Nat \ {0} /\ (\E i \in Nat : a = i * d) /\ (\E j \in Nat : b = j * d)
<1>1. ASSUME d \in CommonDivisors(a, b)
      PROVE  d \in Nat \ {0} /\ (\E i \in Nat : a = i * d) /\ (\E j \in Nat : b = j * d)
  <2>1. d \in Nat \ {0} /\ Divides(d, a) /\ Divides(d, b)
    BY <1>1 DEF CommonDivisors
  <2>2. QED
    BY <2>1, DividesMultiple
<1>2. ASSUME d \in Nat \ {0}, NEW i \in Nat, a = i * d, NEW j \in Nat, b = j * d
      PROVE  d \in CommonDivisors(a, b)
  <2>1. d <= a
    BY <1>2, DivisorSmaller
  <2>2. Divides(d, a) /\ Divides(d, b)
    BY <1>2, DividesMultiple
  <2>3. QED
    BY <1>2, <2>1, <2>2 DEF CommonDivisors
<1>3. QED
  BY <1>1, <1>2

\* The order does not matter.
LEMMA CommonSymmetric ==
  ASSUME NEW a \in Nat \ {0}, NEW b \in Nat \ {0}
  PROVE  CommonDivisors(a, b) = CommonDivisors(b, a)
<1>1. \A d : d \in CommonDivisors(a, b) <=> d \in CommonDivisors(b, a)
  BY CommonMultiples
<1>2. QED
  BY <1>1

\* What divides an odd number is odd,
LEMMA OddDivisor ==
  ASSUME NEW d \in Nat \ {0}, NEW q \in Nat, NEW b \in Nat, b = q * d, Odd(b)
  PROVE  Odd(d)
<1>1. SUFFICES ASSUME ~Odd(d) PROVE FALSE
  OBVIOUS
<1>2. PICK e \in Nat : d = 2 * e
  BY <1>1, Halves
<1>3. q * d = 2 * (q * e) /\ q * e \in Nat
  BY <1>2
<1>4. PICK y \in Nat : b = 2 * y
  BY <1>3
<1>5. QED
  BY <1>4 DEF Odd

\* and an odd number that divides twice another divides that.
LEMMA OddDividesHalf ==
  ASSUME NEW d \in Nat \ {0}, Odd(d), NEW k \in Nat, NEW q \in Nat, 2 * k = q * d
  PROVE  \E r \in Nat : k = r * d
<1>1. PICK e \in Nat : d = 2 * e + 1
  BY Halves
<1>2. ~Odd(q)
  <2>1. SUFFICES ASSUME Odd(q) PROVE FALSE
    OBVIOUS
  <2>2. PICK t \in Nat : q = 2 * t + 1
    BY <2>1, Halves
  <2>3. q * d = 2 * (2 * (t * e) + t + e) + 1 /\ t * e \in Nat
    BY <1>1, <2>2
  <2>4. PICK y \in Nat : q * d = 2 * y + 1
    BY <2>3
  <2>5. QED
    BY <2>4
<1>3. PICK t \in Nat : q = 2 * t
  BY <1>2, Halves
<1>4. q * d = 2 * (t * d) /\ t * d \in Nat
  BY <1>3
<1>5. k = t * d
  BY <1>4
<1>6. QED
  BY <1>5

\* Halving one of two numbers of which the other is odd leaves the common divisors,
LEMMA HalvingKeeps ==
  ASSUME NEW k \in Nat \ {0}, NEW b \in Nat \ {0}, Odd(b)
  PROVE  CommonDivisors(2 * k, b) = CommonDivisors(k, b)
<1>1. ASSUME NEW d \in CommonDivisors(2 * k, b) PROVE d \in CommonDivisors(k, b)
  <2>1. PICK i \in Nat, j \in Nat : d \in Nat \ {0} /\ 2 * k = i * d /\ b = j * d
    BY CommonMultiples
  <2>2. Odd(d)
    BY <2>1, OddDivisor
  <2>3. \E r \in Nat : k = r * d
    BY <2>1, <2>2, OddDividesHalf
  <2>4. QED
    BY <2>1, <2>3, CommonMultiples
<1>2. ASSUME NEW d \in CommonDivisors(k, b) PROVE d \in CommonDivisors(2 * k, b)
  <2>1. PICK i \in Nat, j \in Nat : d \in Nat \ {0} /\ k = i * d /\ b = j * d
    BY CommonMultiples
  <2>2. 2 * k = (2 * i) * d /\ 2 * i \in Nat /\ 2 * k \in Nat \ {0}
    BY <2>1
  <2>3. QED
    BY <2>1, <2>2, CommonMultiples
<1>3. QED
  BY <1>1, <1>2

\* as does subtracting the smaller.
LEMMA SubtractingKeeps ==
  ASSUME NEW a \in Nat \ {0}, NEW b \in Nat \ {0}, b < a
  PROVE  CommonDivisors(a - b, b) = CommonDivisors(a, b)
<1>0. a - b \in Nat \ {0}
  OBVIOUS
<1>1. ASSUME NEW d \in CommonDivisors(a - b, b) PROVE d \in CommonDivisors(a, b)
  <2>1. PICK i \in Nat, j \in Nat : d \in Nat \ {0} /\ a - b = i * d /\ b = j * d
    BY <1>0, CommonMultiples
  <2>2. (i + j) * d = i * d + j * d /\ i * d \in Nat /\ j * d \in Nat /\ i + j \in Nat
    BY <2>1
  <2>3. a = (i + j) * d
    BY <2>1, <2>2
  <2>4. QED
    BY <2>1, <2>2, <2>3, CommonMultiples
<1>2. ASSUME NEW d \in CommonDivisors(a, b) PROVE d \in CommonDivisors(a - b, b)
  <2>1. PICK i \in Nat, j \in Nat : d \in Nat \ {0} /\ a = i * d /\ b = j * d
    BY CommonMultiples
  <2>2. j < i
    <3>1. SUFFICES ASSUME ~(j < i) PROVE FALSE
      OBVIOUS
    <3>2. j - i \in Nat /\ (j - i) * d \in Nat /\ j * d = i * d + (j - i) * d
      BY <2>1, <3>1
    <3>3. QED
      BY <2>1, <3>2
  <2>3. i - j \in Nat /\ (i - j) * d = i * d - j * d /\ i * d \in Nat /\ j * d \in Nat
    BY <2>1, <2>2
  <2>4. a - b = (i - j) * d
    BY <2>1, <2>3
  <2>5. QED
    BY <1>0, <2>1, <2>3, <2>4, CommonMultiples
<1>3. QED
  BY <1>1, <1>2

\* When both are doubled the greatest common divisor is.
LEMMA DoublingDoubles ==
  ASSUME NEW a \in Nat \ {0}, NEW b \in Nat \ {0}, NEW g, IsGcd(g, a, b)
  PROVE  IsGcd(2 * g, 2 * a, 2 * b)
<1>0. 2 * a \in Nat \ {0} /\ 2 * b \in Nat \ {0}
  OBVIOUS
<1>1. PICK i \in Nat, j \in Nat : g \in Nat \ {0} /\ a = i * g /\ b = j * g
  BY CommonMultiples DEF IsGcd
<1>2. 2 * g \in CommonDivisors(2 * a, 2 * b)
  <2>1. 2 * a = i * (2 * g) /\ 2 * b = j * (2 * g) /\ 2 * g \in Nat \ {0}
    BY <1>1
  <2>2. QED
    BY <1>0, <2>1, CommonMultiples
<1>3. ASSUME NEW d \in CommonDivisors(2 * a, 2 * b) PROVE d <= 2 * g
  <2>1. PICK p \in Nat, q \in Nat : d \in Nat \ {0} /\ 2 * a = p * d /\ 2 * b = q * d
    BY <1>0, CommonMultiples
  <2>2. CASE Odd(d)
    <3>1. (\E r \in Nat : a = r * d) /\ (\E r \in Nat : b = r * d)
      BY <2>1, <2>2, OddDividesHalf
    <3>2. d <= g
      BY <2>1, <3>1, CommonMultiples DEF IsGcd
    <3>3. QED
      BY <1>1, <2>1, <3>2
  <2>3. CASE ~Odd(d)
    <3>1. PICK e \in Nat \ {0} : d = 2 * e
      BY <2>1, <2>3, Halves
    <3>2. p * d = 2 * (p * e) /\ q * d = 2 * (q * e) /\ p * e \in Nat /\ q * e \in Nat
      BY <3>1
    <3>3. a = p * e /\ b = q * e
      BY <2>1, <3>2
    <3>4. e <= g
      BY <3>3, CommonMultiples DEF IsGcd
    <3>5. QED
      BY <1>1, <3>1, <3>4
  <2>4. QED
    BY <2>2, <2>3
<1>4. QED
  BY <1>2, <1>3 DEF IsGcd

-----------------------------------------------------------------------------
(***************************************************************************)
(* gcd.                                                                    *)
(***************************************************************************)
\* Steps that leave the common divisors of m and n keep the invariant.
LEMMA KeepsDivisors ==
  ASSUME IInv, pc = "gcd", m' \in Nat \ {0}, n' \in Nat \ {0}, m' <= m,
         UNCHANGED <<SectorSize, cbHash, nBlocks, shift, pc>>,
         CommonDivisors(m, n) = CommonDivisors(m', n')
  PROVE  IInv'
<1>1. TypeOK'
  BY DEF IInv, TypeOK
<1>2. ShiftInv'
  <2>1. PICK p \in Nat \ {0} : p = 2^shift /\ shift \in 0 .. 31
    <3>1. shift \in 0 .. 32
      BY DEF IInv, ShiftInv
    <3>2. QED
      BY <3>1, Powers DEF IInv, ShiftInv
  <2>2. PICK k \in Nat, i \in Nat : k = m /\ i = m' /\ i <= k
    BY DEF IInv, TypeOK
  <2>3. PICK y \in Nat : y = SectorSize
    BY LayoutAssumption DEF IInv, TypeOK
  <2>4. k * p <= y
    BY <2>1, <2>2, <2>3 DEF IInv, ShiftInv
  <2>5. i * p <= y
    BY <2>2, <2>4, SmallerProduct
  <2>6. shift' = shift /\ SectorSize' = SectorSize
    OBVIOUS
  <2>7. QED
    BY <2>1, <2>2, <2>3, <2>5, <2>6 DEF ShiftInv
<1>3. GcdInv'
  <2>1. \A g : IsGcd(g, m', n') <=> IsGcd(g, m, n)
    BY DEF IsGcd
  <2>2. QED
    BY <2>1 DEF IInv, GcdInv, IsGcd
<1>4. QED
  BY <1>1, <1>2, <1>3 DEF IInv

\* One turn of the loop with two odd arguments,
LEMMA BothOddInv ==
  ASSUME IInv, BothOdd
  PROVE  IInv'
<1>1. /\ m \in Nat \ {0} /\ n \in Nat \ {0} /\ m # n /\ Odd(m) /\ Odd(n)
      /\ pc = "gcd" /\ UNCHANGED <<SectorSize, cbHash, nBlocks, shift, pc>>
  BY DEF IInv, TypeOK, BothOdd, Turn, Over
<1>2. PICK i \in Nat, j \in Nat : m = 2 * i + 1 /\ n = 2 * j + 1
  BY <1>1, Halves
<1>3. CASE m < n
  <2>1. PICK k \in Nat \ {0} : n - m = 2 * k /\ k = (n - m) \div 2
    BY <1>2, <1>3
  <2>2. m' = m /\ n' = k
    BY <1>3, <2>1 DEF BothOdd
  <2>3. CommonDivisors(n - m, m) = CommonDivisors(n, m)
    BY <1>1, <1>3, SubtractingKeeps
  <2>4. CommonDivisors(2 * k, m) = CommonDivisors(k, m)
    BY <1>1, HalvingKeeps
  <2>5. CommonDivisors(m, n) = CommonDivisors(n, m)
    BY <1>1, CommonSymmetric
  <2>6. CommonDivisors(m, k) = CommonDivisors(k, m)
    BY <1>1, CommonSymmetric
  <2>7. CommonDivisors(m, n) = CommonDivisors(m', n')
    BY <2>1, <2>2, <2>3, <2>4, <2>5, <2>6
  <2>8. QED
    BY <1>1, <2>2, <2>7, KeepsDivisors
<1>4. CASE ~(m < n)
  <2>1. PICK k \in Nat \ {0} : m - n = 2 * k /\ k = (m - n) \div 2 /\ k <= m /\ n < m
    BY <1>1, <1>2, <1>4
  <2>2. m' = k /\ n' = n
    BY <1>4, <2>1 DEF BothOdd
  <2>3. CommonDivisors(m - n, n) = CommonDivisors(m, n)
    BY <1>1, <2>1, SubtractingKeeps
  <2>4. CommonDivisors(2 * k, n) = CommonDivisors(k, n)
    BY <1>1, HalvingKeeps
  <2>5. CommonDivisors(m, n) = CommonDivisors(m', n')
    BY <2>1, <2>2, <2>3, <2>4
  <2>6. QED
    BY <1>1, <2>1, <2>2, <2>5, KeepsDivisors
<1>5. QED
  BY <1>3, <1>4

\* with one,
LEMMA OneOddInv ==
  ASSUME IInv, OneOdd
  PROVE  IInv'
<1>1. /\ m \in Nat \ {0} /\ n \in Nat \ {0}
      /\ pc = "gcd" /\ UNCHANGED <<SectorSize, cbHash, nBlocks, shift, pc>>
  BY DEF IInv, TypeOK, OneOdd, Turn
<1>2. CASE Odd(m)
  <2>0. ~Odd(n)
    BY <1>2 DEF OneOdd, Odd
  <2>1. PICK k \in Nat \ {0} : n = 2 * k /\ k = n \div 2
    BY <1>1, <2>0, Halves
  <2>2. m' = m /\ n' = k
    BY <1>2, <2>1 DEF OneOdd
  <2>3. CommonDivisors(2 * k, m) = CommonDivisors(k, m)
    BY <1>1, <1>2, HalvingKeeps
  <2>4. CommonDivisors(m, n) = CommonDivisors(n, m)
    BY <1>1, CommonSymmetric
  <2>5. CommonDivisors(m, k) = CommonDivisors(k, m)
    BY <1>1, CommonSymmetric
  <2>6. CommonDivisors(m, n) = CommonDivisors(m', n')
    BY <2>1, <2>2, <2>3, <2>4, <2>5
  <2>7. QED
    BY <1>1, <2>2, <2>6, KeepsDivisors
<1>3. CASE ~Odd(m)
  <2>1. Odd(n)
    BY <1>3 DEF OneOdd, Odd
  <2>2. PICK k \in Nat \ {0} : m = 2 * k /\ k = m \div 2 /\ k <= m
    BY <1>1, <1>3, Halves
  <2>3. m' = k /\ n' = n
    BY <1>3, <2>2 DEF OneOdd
  <2>4. CommonDivisors(2 * k, n) = CommonDivisors(k, n)
    BY <1>1, <2>1, HalvingKeeps
  <2>5. CommonDivisors(m, n) = CommonDivisors(m', n')
    BY <2>2, <2>3, <2>4
  <2>6. QED
    BY <1>1, <2>2, <2>3, <2>5, KeepsDivisors
<1>4. QED
  BY <1>2, <1>3

\* A sector is smaller than what a ULONG can count.
LEMMA SectorFits ==
  ASSUME NEW s \in SectorSizes, NEW h \in HashSizes
  PROVE  s < 2^32
<1>1. PICK i \in Nat \ {0}, j \in Nat \ {0}, u \in Nat, o \in Nat :
        i = s /\ j = h /\ u = ULONGs /\ o = OneMB /\ i * j + i + o <= u
  BY LayoutAssumption
<1>2. (j - 1) * i \in Nat /\ i * j = (j - 1) * i + i
  BY <1>1
<1>3. i < u
  BY <1>1, <1>2
<1>4. PICK bits \in 0 .. 32 : u = 2^bits
  BY <1>1, LayoutAssumption
<1>5. 2^bits <= 2^32
  BY Powers
<1>6. PICK y \in Nat : y = 2^32
  OBVIOUS
<1>7. QED
  BY <1>1, <1>3, <1>4, <1>5, <1>6

\* and, one level deeper, with none.
LEMMA BothEvenInv ==
  ASSUME IInv, BothEven
  PROVE  IInv'
<1>1. /\ m \in Nat \ {0} /\ n \in Nat \ {0} /\ ~Odd(m) /\ ~Odd(n)
      /\ pc = "gcd" /\ UNCHANGED <<SectorSize, cbHash, nBlocks, pc>>
      /\ shift' = shift + 1 /\ shift \in 0 .. 31 /\ shift \in 0 .. 32
      /\ m * 2^shift <= SectorSize
  BY DEF IInv, TypeOK, ShiftInv, BothEven, Turn, Doubled
<1>2. PICK i \in Nat \ {0}, j \in Nat \ {0} : /\ m = 2 * i /\ i = m \div 2
                                              /\ n = 2 * j /\ j = n \div 2
  BY <1>1, Halves
<1>3. m' = i /\ n' = j
  BY <1>2 DEF BothEven
<1>4. PICK p \in Nat \ {0} : p = 2^shift /\ 2^(shift + 1) = 2 * p
  BY <1>1, Powers
<1>5. SectorSize \in Nat /\ SectorSize < 2^32
  BY LayoutAssumption, SectorFits DEF IInv, TypeOK
<1>6. i * (2 * p) <= SectorSize
  <2>1. i * (2 * p) = m * p
    BY <1>2
  <2>2. QED
    BY <1>1, <1>4, <2>1
<1>7. shift # 31
  <2>1. SUFFICES ASSUME shift = 31 PROVE FALSE
    OBVIOUS
  <2>2. 2 * p = 2^32
    BY <1>4, <2>1
  <2>3. PICK y \in Nat : y = 2^32
    BY <1>4, <2>2
  <2>4. (i - 1) * y \in Nat /\ i * y = (i - 1) * y + y
    BY <1>2
  <2>5. QED
    BY <1>5, <1>6, <2>2, <2>3, <2>4
<1>8. TypeOK'
  BY <1>1, <1>2, <1>3 DEF IInv, TypeOK
<1>9. ShiftInv'
  BY <1>1, <1>3, <1>4, <1>6, <1>7 DEF ShiftInv
<1>10. GcdInv'
  <2>1. SUFFICES ASSUME NEW g \in CommonDivisors(i, j), IsGcd(g, i, j)
                 PROVE  IsGcd(g * (2 * p), SectorSize, cbHash)
    BY <1>1, <1>3, <1>4 DEF GcdInv
  <2>2. IsGcd(2 * g, m, n) /\ g \in Nat
    BY <1>2, <2>1, DoublingDoubles, CommonMultiples
  <2>3. IsGcd((2 * g) * p, SectorSize, cbHash)
    BY <1>4, <2>2 DEF IInv, GcdInv, IsGcd
  <2>4. (2 * g) * p = g * (2 * p)
    BY <2>2
  <2>5. QED
    BY <2>3, <2>4
<1>11. QED
  BY <1>1, <1>8, <1>9, <1>10 DEF IInv

\* gcd begins with the sector and the digest themselves,
LEMMA InvInit ==
  ASSUME Init
  PROVE  IInv
<1>1. SectorSize \in Nat \ {0} /\ cbHash \in Nat \ {0}
  BY LayoutAssumption DEF Init
<1>2. TypeOK /\ pc # "done"
  BY <1>1 DEF Init, TypeOK
<1>3. 2^shift = 1
  BY DEF Init
<1>4. ShiftInv
  BY <1>1, <1>3 DEF Init, ShiftInv
<1>5. GcdInv
  <2>1. SUFFICES ASSUME NEW g \in CommonDivisors(m, n), IsGcd(g, m, n)
                 PROVE  IsGcd(g * 2^shift, SectorSize, cbHash)
    BY DEF GcdInv
  <2>2. g \in Nat
    BY DEF CommonDivisors
  <2>3. g * 2^shift = g
    BY <1>3, <2>2
  <2>4. QED
    BY <2>1, <2>3 DEF Init
<1>6. QED
  BY <1>2, <1>4, <1>5 DEF IInv

\* and every turn keeps the invariant.
LEMMA InvNext ==
  ASSUME IInv, [Next]_vars
  PROVE  IInv'
<1>1. CASE Finish
  BY <1>1 DEF Finish, IInv, TypeOK, ShiftInv, GcdInv, Over
<1>2. CASE UNCHANGED vars
  BY <1>2 DEF vars, IInv, TypeOK, ShiftInv, GcdInv, Over
<1>3. QED
  BY <1>1, <1>2, BothOddInv, OneOddInv, BothEvenInv DEF Next

\* For sectors and digests of any size, gcd's loop keeps the invariant above.
THEOREM LayoutInvariant == SafeSpec => []IInv
<1>1. Init => IInv
  BY InvInit
<1>2. IInv /\ [Next]_vars => IInv'
  BY InvNext
<1>3. QED
  BY <1>1, <1>2, PTL DEF SafeSpec

\* What gcd returns is the greatest common divisor of its arguments.
LEMMA GcdFound ==
  ASSUME IInv, pc = "done"
  PROVE  IsGcd(gcd, SectorSize, cbHash)
<1>1. m \in Nat \ {0} /\ n \in Nat \ {0} /\ Over
  BY DEF IInv, TypeOK
<1>2. IsGcd(IF m = n THEN m ELSE 1, m, n)
  <2>1. \A d \in CommonDivisors(m, n) : d \in Nat \ {0} /\ d <= m /\ d <= n
    <3>1. TAKE d \in CommonDivisors(m, n)
    <3>2. d \in 1 .. m
      BY DEF CommonDivisors
    <3>3. d \in 1 .. n
      BY <1>1, CommonSymmetric DEF CommonDivisors
    <3>4. QED
      BY <1>1, <3>2, <3>3
  <2>2. CASE m = n
    <3>1. Divides(m, m)
      <4>1. m = 1 * m
        BY <1>1
      <4>2. QED
        BY <1>1, <4>1, DividesMultiple
    <3>2. m \in CommonDivisors(m, n)
      BY <1>1, <2>2, <3>1 DEF CommonDivisors
    <3>3. QED
      BY <2>1, <2>2, <3>2 DEF IsGcd
  <2>3. CASE m # n
    <3>1. 1 \in CommonDivisors(m, n)
      <4>1. m = m * 1 /\ n = n * 1
        BY <1>1
      <4>2. QED
        BY <1>1, <4>1, CommonMultiples
    <3>2. m = 1 \/ n = 1
      BY <1>1, <2>3 DEF Over
    <3>3. \A d \in CommonDivisors(m, n) : d <= 1
      BY <2>1, <3>2
    <3>4. QED
      BY <2>3, <3>1, <3>3 DEF IsGcd
  <2>4. QED
    BY <2>2, <2>3
<1>3. QED
  BY <1>2 DEF IInv, GcdInv, IsGcd, gcd

\* For all sizes of a sector and a digest: gcd, if it returns, is right.
THEOREM LayoutGcdRight == SafeSpec => []GcdRight
<1>1. ASSUME IInv, pc = "done" PROVE gcd = Max(CommonDivisors(SectorSize, cbHash))
  <2>1. IsGcd(gcd, SectorSize, cbHash)
    BY <1>1, GcdFound
  <2> DEFINE CD == CommonDivisors(SectorSize, cbHash)
  <2>2. gcd \in CD /\ \A d \in CD : gcd >= d
    <3>1. \A d \in CD : d \in Nat
      BY DEF CommonDivisors
    <3>2. QED
      BY <2>1, <3>1 DEF IsGcd
  <2>3. \A d \in CD : d \in Nat
    BY DEF CommonDivisors
  <2> HIDE DEF CD
  <2>4. Max(CD) = gcd
    BY <2>2, <2>3 DEF Max
  <2>5. QED
    BY <2>4 DEF CD
<1>2. IInv => GcdRight
  BY <1>1 DEF IInv, GcdRight
<1>3. QED
  BY <1>2, LayoutInvariant, PTL

\* Every turn of gcd's loop makes the arguments smaller, and none makes one 0, so that it
\* returns after less turns than their sum.
GcdShrinks == (pc' = "done" \/ m' + n' < m + n) /\ m' > 0 /\ n' > 0

\* For sectors and digests of any size: gcd cannot go on for ever.
THEOREM LayoutGcdShrinks == SafeSpec => [][GcdShrinks]_vars
<1>1. ASSUME IInv, IInv', Next PROVE GcdShrinks
  <2>1. PICK a \in Nat \ {0}, b \in Nat \ {0}, c \in Nat \ {0}, d \in Nat \ {0} :
          a = m /\ b = n /\ c = m' /\ d = n'
    BY <1>1 DEF IInv, TypeOK
  <2>0. c > 0 /\ d > 0
    OBVIOUS
  <2>8. m' > 0 /\ n' > 0
    BY <2>0, <2>1, Zenon
  <2>9. c + d < a + b => m' + n' < m + n
    BY <2>1, Zenon
  <2>2. CASE BothOdd
    <3>1. a # b
      BY <2>1, <2>2 DEF BothOdd, Turn, Over
    <3>2. IF a < b THEN d = (b - a) \div 2 /\ c = a ELSE c = (a - b) \div 2 /\ d = b
      BY <2>1, <2>2 DEF BothOdd
    <3>3. c + d < a + b
      BY <3>1, <3>2
    <3>4. QED
      BY <2>8, <2>9, <3>3, Zenon DEF GcdShrinks
  <2>3. CASE OneOdd
    <3>1. (d = b \div 2 /\ c = a) \/ (c = a \div 2 /\ d = b)
      BY <2>1, <2>3 DEF OneOdd
    <3>2. c + d < a + b
      BY <3>1
    <3>3. QED
      BY <2>8, <2>9, <3>2, Zenon DEF GcdShrinks
  <2>4. CASE BothEven
    <3>1. d = b \div 2 /\ c = a \div 2
      BY <2>1, <2>4 DEF BothEven
    <3>2. c + d < a + b
      BY <3>1
    <3>3. QED
      BY <2>8, <2>9, <3>2, Zenon DEF GcdShrinks
  <2>5. CASE Finish
    BY <2>5, <2>8, Zenon DEF Finish, GcdShrinks
  <2>6. QED
    BY <1>1, <2>2, <2>3, <2>4, <2>5 DEF Next
<1>2. IInv /\ IInv' /\ [Next]_vars => [GcdShrinks]_vars
  BY <1>1
<1>3. QED
  BY <1>2, LayoutInvariant, PTL DEF SafeSpec

-----------------------------------------------------------------------------
(***************************************************************************)
(* CHashFile::Create.                                                      *)
(***************************************************************************)
\* A division without remainder.
LEMMA Exact ==
  ASSUME NEW q \in Nat, NEW d \in Nat \ {0}
  PROVE  q * d \in Nat /\ (q * d) \div d = q /\ (q * d) % d = 0
<1>1. PICK y \in Nat : y = q * d
  OBVIOUS
<1>2. y % d = 0
  BY <1>1, DividesMultiple DEF Divides
<1>3. PICK j \in Nat : j = y \div d /\ y = j * d + 0
  BY <1>2, Divided
<1>4. j * d \in Nat
  OBVIOUS
<1>5. ~(j < q)
  <2>1. SUFFICES ASSUME j < q PROVE FALSE
    OBVIOUS
  <2>2. q - j - 1 \in Nat /\ (q - j - 1) * d \in Nat /\ q * d = j * d + d + (q - j - 1) * d
    BY <2>1
  <2>3. QED
    BY <1>1, <1>3, <1>4, <2>2
<1>6. ~(q < j)
  <2>1. SUFFICES ASSUME q < j PROVE FALSE
    OBVIOUS
  <2>2. j - q - 1 \in Nat /\ (j - q - 1) * d \in Nat /\ j * d = q * d + d + (j - q - 1) * d
    BY <2>1
  <2>3. QED
    BY <1>1, <1>3, <1>4, <2>2
<1>7. QED
  BY <1>1, <1>2, <1>3, <1>5, <1>6

\* A size rounded up to sectors: the next multiple.
LEMMA RoundedUp ==
  ASSUME NEW k \in Nat, NEW d \in Nat \ {0}, NEW r \in Nat, r = ((k + d - 1) \div d) * d
  PROVE  /\ Divides(d, r) /\ k <= r /\ r <= k + d - 1
         /\ \A z \in Nat : Divides(d, z) /\ k <= z => r <= z
         /\ Divides(d, k) => r = k
<1>1. PICK y \in Nat : y = k + d - 1
  OBVIOUS
<1>2. PICK j \in Nat, m0 \in Nat : /\ j = y \div d /\ m0 = y % d /\ m0 < d
                                   /\ j * d \in Nat /\ y = j * d + m0
  BY Divided
<1>3. r = j * d
  BY <1>1, <1>2
<1>4. k <= r /\ r <= k + d - 1
  BY <1>1, <1>2, <1>3
<1>5. Divides(d, r)
  BY <1>3, <1>4, DividesMultiple
<1>6. ASSUME NEW z \in Nat, Divides(d, z), k <= z PROVE r <= z
  <2>1. PICK i \in Nat : z = i * d
    BY <1>6, DividesMultiple
  <2>2. ~(i < j)
    <3>1. SUFFICES ASSUME i < j PROVE FALSE
      OBVIOUS
    <3>2. /\ j - i - 1 \in Nat
          /\ (j - i - 1) * d \in Nat
          /\ j * d = i * d + d + (j - i - 1) * d
      BY <3>1
    <3>3. QED
      BY <1>1, <1>2, <1>6, <2>1, <3>2
  <2>3. j <= i
    BY <2>2
  <2>4. z \in Nat /\ i * d <= z
    BY <2>1
  <2>5. QED
    BY <1>3, <2>1, <2>3, <2>4, SmallerProduct
<1>7. Divides(d, k) => r = k
  BY <1>4, <1>6
<1>8. QED
  BY <1>4, <1>5, <1>6, <1>7

\* The least common multiple and, in a CHashBlock of about a megabyte, whole sectors
\* and whole hashes.
LEMMA WholeSectors ==
  ASSUME IInv, pc = "done"
  PROVE  /\ Capped \in Nat \ {0} /\ Capped <= OneMB
         /\ MinBlockSize \in Nat \ {0} /\ MinBlockSize <= SectorSize * cbHash
         /\ nHashesInBlock \in Nat \ {0} /\ nHashesInBlock * cbHash \in Nat
         /\ Divides(SectorSize, nHashesInBlock * cbHash)
         /\ nHashesInBlock * cbHash <= Capped + MinBlockSize - 1
<1>1. PICK s \in Nat \ {0}, h \in Nat \ {0}, nb \in Nat \ {0}, mb \in Nat \ {0} :
        s = SectorSize /\ h = cbHash /\ nb = nBlocks /\ mb = OneMB
  BY LayoutAssumption DEF IInv, TypeOK
<1>2. PICK g \in Nat \ {0}, a \in Nat, b \in Nat : g = gcd /\ s = a * g /\ h = b * g
  <2>1. gcd \in CommonDivisors(s, h)
    BY <1>1, GcdFound DEF IsGcd
  <2>2. PICK g : g = gcd
    OBVIOUS
  <2>3. g \in Nat \ {0} /\ (\E i \in Nat : s = i * g) /\ (\E j \in Nat : h = j * g)
    BY <2>1, <2>2, CommonMultiples
  <2>4. QED
    BY <2>2, <2>3
<1>3. a # 0 /\ b # 0
  BY <1>2, DivisorSmaller
<1>4. PICK l \in Nat \ {0} : l = a * h
  <2>1. (a - 1) * h \in Nat /\ a * h = (a - 1) * h + h
    BY <1>3
  <2>2. QED
    BY <2>1
<1>5. s * h = l * g /\ l = b * s
  <2>1. s * h = (a * g) * h
    BY <1>2
  <2>2. (a * g) * h = (a * h) * g
    OBVIOUS
  <2>3. a * (b * g) = b * (a * g)
    OBVIOUS
  <2>4. QED
    BY <1>2, <1>4, <2>1, <2>2, <2>3
<1>6. MinBlockSize = l
  <2>1. (l * g) \div g = l
    BY Exact
  <2>2. QED
    BY <1>1, <1>2, <1>5, <2>1 DEF MinBlockSize, lcm
<1>7. minHashCount = a
  <2>1. (a * h) \div h = a
    BY Exact
  <2>2. QED
    BY <1>1, <1>4, <1>6, <2>1 DEF minHashCount
<1>8. l <= s * h
  <2>1. (g - 1) * l \in Nat /\ l * g = (g - 1) * l + l
    OBVIOUS
  <2>2. QED
    BY <1>5, <2>1
<1>9. PICK c \in Nat \ {0} : c = Capped /\ c <= mb
  <2>1. PICK e \in Nat \ {0} : e = nb * h
    <3>1. (nb - 1) * h \in Nat /\ nb * h = (nb - 1) * h + h
      OBVIOUS
    <3>2. QED
      BY <3>1
  <2>2. eof = e
    BY <1>1, <2>1 DEF eof
  <2>3. QED
    BY <1>1, <2>2 DEF Capped
<1>10. PICK y \in Nat, q \in Nat : y = c + l - 1 /\ q = y \div l
  <2>1. PICK y \in Nat : y = c + l - 1
    OBVIOUS
  <2>2. QED
    BY <2>1, Divided
<1>11. q * l \in Nat /\ q * l <= y /\ c <= q * l
  <2>1. PICK t \in Nat : t = q * l
    OBVIOUS
  <2>2. t = ((c + l - 1) \div l) * l
    BY <1>10, <2>1
  <2>3. t <= y /\ c <= t
    BY <1>10, <2>2, RoundedUp
  <2>4. QED
    BY <2>1, <2>3
<1>12. q # 0
  BY <1>11
<1>13. nHashesInBlock = q * a
  BY <1>6, <1>7, <1>9, <1>10 DEF nHashesInBlock
<1>14. PICK w \in Nat \ {0} : w = q * a
  <2>1. (q - 1) * a \in Nat /\ q * a = (q - 1) * a + a
    BY <1>12
  <2>2. QED
    BY <1>3, <2>1
<1>15. w * h = q * l /\ w * h = (q * b) * s
  <2>1. (q * a) * h = q * (a * h) /\ q * (b * s) = (q * b) * s
    OBVIOUS
  <2>2. QED
    BY <1>4, <1>5, <1>14, <2>1
<1>16. PICK z \in Nat : z = w * h /\ z <= y /\ Divides(s, z)
  <2>1. q * b \in Nat
    OBVIOUS
  <2>2. QED
    BY <1>11, <1>15, <2>1, DividesMultiple
<1>17. nHashesInBlock * cbHash = z
  BY <1>1, <1>13, <1>14, <1>16
<1>18. QED
  BY <1>1, <1>6, <1>8, <1>9, <1>10, <1>13, <1>14, <1>16, <1>17

\* What is left for the last CHashBlock, rounded up, and all that is written.
LEMMA LastSectors ==
  ASSUME IInv, pc = "done"
  PROVE  /\ iLastBlock \in Nat /\ LastBlockSize \in Nat
         /\ LastBlockSize + cbHash <= nHashesInBlock * cbHash
         /\ iLastBlock * nHashesInBlock * cbHash \in Nat
         /\ eof = iLastBlock * nHashesInBlock * cbHash + LastBlockSize
         /\ dwLastWrite \in Nat /\ Divides(SectorSize, dwLastWrite)
         /\ LastBlockSize <= dwLastWrite /\ dwLastWrite <= nHashesInBlock * cbHash
         /\ Divides(SectorSize, LastBlockSize) => dwLastWrite = LastBlockSize
<1>1. PICK s \in Nat \ {0}, h \in Nat \ {0}, nb \in Nat \ {0} :
        s = SectorSize /\ h = cbHash /\ nb = nBlocks
  BY LayoutAssumption DEF IInv, TypeOK
<1>2. PICK w \in Nat \ {0}, z \in Nat : /\ w = nHashesInBlock /\ z = w * h
                                        /\ Divides(s, z)
  BY <1>1, WholeSectors
<1>3. PICK i \in Nat, r \in Nat : /\ i = nb \div w /\ r = nb % w /\ r < w
                                  /\ nb = i * w + r /\ i * w \in Nat
  BY Divided
<1>4. iLastBlock = i /\ nHashesInLastBlock = r
  BY <1>1, <1>2, <1>3 DEF iLastBlock, nHashesInLastBlock
<1>5. PICK k \in Nat : k = h * r /\ k = LastBlockSize
  BY <1>1, <1>4 DEF LastBlockSize
<1>6. k + h <= z
  <2>1. (w - r - 1) * h \in Nat /\ w * h = h * r + h + (w - r - 1) * h
    BY <1>3
  <2>2. QED
    BY <1>2, <1>5, <2>1
<1>7. (i * w) * h \in Nat /\ nb * h = (i * w) * h + k
  <2>1. PICK x \in Nat : x = i * w
    BY <1>3
  <2>2. (x + r) * h = x * h + h * r /\ x * h \in Nat
    OBVIOUS
  <2>3. QED
    BY <1>3, <1>5, <2>1, <2>2
<1>8. PICK d \in Nat : d = ((k + s - 1) \div s) * s
  <2>1. PICK y \in Nat : y = k + s - 1
    OBVIOUS
  <2>2. (y \div s) * s \in Nat
    BY Divided
  <2>3. QED
    BY <2>1, <2>2
<1>9. dwLastWrite = d
  BY <1>1, <1>5, <1>8 DEF dwLastWrite
<1>10. /\ d \in Nat /\ Divides(s, d) /\ k <= d /\ d <= z
       /\ Divides(s, k) => d = k
  <2>1. k <= z
    BY <1>6
  <2>2. Divides(s, d) /\ k <= d
    BY <1>8, RoundedUp
  <2>3. d <= z
    BY <1>2, <1>8, <2>1, RoundedUp
  <2>4. Divides(s, k) => d = k
    BY <1>8, RoundedUp
  <2>5. QED
    BY <2>2, <2>3, <2>4
<1>11. QED
  BY <1>1, <1>2, <1>4, <1>5, <1>6, <1>7, <1>9, <1>10 DEF eof

\* A CHashBlock is at most a megabyte rounded up, and that fits.
LEMMA SizesInRange ==
  ASSUME IInv
  PROVE  SizesFit
<1>1. ASSUME pc = "done"
      PROVE  {Capped + MinBlockSize - 1, nHashesInBlock * cbHash,
              LastBlockSize + SectorSize - 1, dwLastWrite} \subseteq 0 .. ULONGs - 1
  <2>1. PICK s \in Nat \ {0}, h \in Nat \ {0}, p \in Nat, u \in Nat, mb \in Nat :
          /\ s = SectorSize /\ h = cbHash /\ p = s * h /\ u = ULONGs /\ mb = OneMB
          /\ p + s + mb <= u
    <3>1. SectorSize \in SectorSizes /\ cbHash \in HashSizes
      BY <1>1 DEF IInv, TypeOK
    <3>2. PICK s \in Nat \ {0}, h \in Nat \ {0}, u \in Nat, mb \in Nat :
            /\ s = SectorSize /\ h = cbHash /\ u = ULONGs /\ mb = OneMB
            /\ s * h + s + mb <= u
      BY <3>1, LayoutAssumption
    <3>3. PICK p \in Nat : p = s * h
      OBVIOUS
    <3>4. QED
      BY <3>2, <3>3
  <2>2. PICK c \in Nat \ {0}, l \in Nat \ {0}, z \in Nat :
          /\ c = Capped /\ c <= mb /\ l = MinBlockSize /\ l <= p
          /\ z = nHashesInBlock * cbHash /\ z <= c + l - 1
    BY <1>1, <2>1, WholeSectors
  <2>3. PICK k \in Nat, d \in Nat :
          k = LastBlockSize /\ d = dwLastWrite /\ k + h <= z /\ d <= z
    BY <1>1, <2>1, <2>2, LastSectors
  <2>4. {c + l - 1, z, k + s - 1, d} \subseteq 0 .. u - 1
    BY <2>1, <2>2, <2>3
  <2>5. QED
    BY <2>1, <2>2, <2>3, <2>4
<1>2. QED
  BY <1>1 DEF SizesFit

\* For sectors and digests whose product leaves room for a megabyte, and any number of
\* hashes: nothing computed in a ULONG wraps around.
THEOREM LayoutSizesFit == SafeSpec => []SizesFit
<1>1. IInv => SizesFit
  BY SizesInRange
<1>2. QED
  BY <1>1, LayoutInvariant, PTL

\* For sectors and digests of any size and any number of hashes: whole sectors are
\* written from sector to sector, from inside the buffers, and leave all hashes.
THEOREM LayoutWritesMakeTheFile == SafeSpec => []WritesMakeTheFile
<1>1. ASSUME IInv, pc = "done", NEW i \in 0 .. iLastBlock
      PROVE  /\ Divides(SectorSize, i * nHashesInBlock * cbHash)
             /\ Divides(SectorSize, cbWrite(i))
             /\ cbWrite(i) <= nHashesInBlock * cbHash
  <2>1. PICK s \in Nat \ {0}, h \in Nat \ {0}, w \in Nat \ {0}, z \in Nat :
          /\ s = SectorSize /\ h = cbHash /\ w = nHashesInBlock /\ z = w * h
          /\ Divides(s, z)
    BY <1>1, WholeSectors, LayoutAssumption DEF IInv, TypeOK
  <2>2. PICK j \in Nat : j = i
    BY <1>1, LastSectors
  <2>3. Divides(s, (j * w) * h)
    <3>1. PICK x \in Nat : w * h = x * s
      BY <2>1, DividesMultiple
    <3>2. (j * w) * h = j * (w * h) /\ j * (x * s) = (j * x) * s /\ j * x \in Nat
      OBVIOUS
    <3>3. PICK y \in Nat, t \in Nat : y = (j * w) * h /\ t = j * x /\ y = t * s
      BY <3>1, <3>2
    <3>4. Divides(s, y)
      BY <3>3, DividesMultiple
    <3>5. QED
      BY <3>3, <3>4
  <2>4. /\ Divides(SectorSize, cbWrite(i))
        /\ cbWrite(i) <= nHashesInBlock * cbHash
    <3>1. CASE i = iLastBlock
      BY <1>1, <3>1, LastSectors DEF cbWrite
    <3>2. CASE i # iLastBlock
      <4>1. cbWrite(i) = z
        BY <2>1, <3>2 DEF cbWrite
      <4>2. QED
        BY <2>1, <4>1
    <3>3. QED
      BY <3>1, <3>2
  <2>5. QED
    BY <2>1, <2>2, <2>3, <2>4
<1>2. ASSUME IInv, pc = "done"
      PROVE  Written >= eof /\ (TruncatesTo = 0 => Written = eof)
  <2>1. PICK f \in Nat, k \in Nat, d \in Nat :
          /\ f = iLastBlock * nHashesInBlock * cbHash /\ k = LastBlockSize /\ d = dwLastWrite
          /\ eof = f + k /\ k <= d /\ (Divides(SectorSize, k) => d = k)
    BY <1>2, LastSectors
  <2>2. Written = f + d
    BY <2>1 DEF Written
  <2>3. eof # 0
    <3>1. PICK nb \in Nat \ {0}, h \in Nat \ {0} : nb = nBlocks /\ h = cbHash
      BY <1>2, LayoutAssumption DEF IInv, TypeOK
    <3>2. (nb - 1) * h \in Nat /\ nb * h = (nb - 1) * h + h
      OBVIOUS
    <3>3. QED
      BY <3>1, <3>2 DEF eof
  <2>4. TruncatesTo = 0 => d = k
    BY <2>1, <2>3 DEF TruncatesTo, Divides
  <2>5. QED
    BY <2>1, <2>2, <2>4
<1>3. IInv => WritesMakeTheFile
  BY <1>1, <1>2, SizesInRange DEF WritesMakeTheFile
<1>4. QED
  BY <1>3, LayoutInvariant, PTL
===========================================================================

--------------------------- MODULE FragmentProofs ---------------------------
(***************************************************************************)
(* Proofs about CFragment::Start, Read and ProcessData for files, blocks,  *)
(* sectors, reads and fragments of any size.                               *)
(***************************************************************************)
EXTENDS Fragment, FiniteSetTheorems, TLAPS

-----------------------------------------------------------------------------
(***************************************************************************)
(* Multiples and rounding.                                                 *)
(***************************************************************************)
\* The end of one multiple is the beginning of the next.
LEMMA Multiples ==
  ASSUME NEW c \in Nat, NEW j \in Nat, NEW k \in Nat
  PROVE  /\ k * c \in Nat /\ (k + 1) * c = k * c + c
         /\ j <= k => j * c <= k * c
         /\ j < k => j * c + c <= k * c
<1>1. k * c \in Nat /\ (k + 1) * c = k * c + c
  OBVIOUS
<1>2. j <= k => j * c <= k * c
  <2>1. ASSUME j <= k PROVE j * c <= k * c
    <3>1. k - j \in Nat /\ (k - j) * c \in Nat /\ k * c = j * c + (k - j) * c
      BY <2>1
    <3>2. QED
      BY <3>1
  <2>2. QED
    BY <2>1
<1>3. j < k => j * c + c <= k * c
  <2>1. ASSUME j < k PROVE j * c + c <= k * c
    <3>1. /\ k - j - 1 \in Nat
          /\ (k - j - 1) * c \in Nat
          /\ k * c = j * c + c + (k - j - 1) * c
      BY <2>1
    <3>2. QED
      BY <3>1
  <2>2. QED
    BY <2>1
<1>4. QED
  BY <1>1, <1>2, <1>3

\* Division.
LEMMA Division ==
  ASSUME NEW k \in Nat, NEW m \in Nat \ {0}
  PROVE  /\ k \div m \in Nat /\ k % m \in 0 .. m - 1
         /\ k = (k \div m) * m + (k % m)
OBVIOUS

\* Which multiple of m comes before k.
LEMMA Quotients ==
  ASSUME NEW k \in Nat, NEW m \in Nat \ {0}, NEW i \in Nat, i * m <= k, k < i * m + m
  PROVE  k \div m = i /\ k % m = k - i * m
<1>1. /\ k \div m \in Nat /\ k % m \in 0 .. m - 1
      /\ k = (k \div m) * m + (k % m)
  BY Division
<1>2. ~(k \div m < i)
  BY <1>1, Multiples
<1>3. ~(i < k \div m)
  BY <1>1, Multiples
<1>4. QED
  BY <1>1, <1>2, <1>3

\* What is divided without a remainder is a multiple.
LEMMA Remainders ==
  ASSUME NEW m \in Nat \ {0}, NEW k \in Nat
  PROVE  /\ (k * m) % m = 0 /\ (k * m) \div m = k
         /\ \A z \in Nat : z % m = 0 => z = (z \div m) * m
<1>1. (k * m) % m = 0 /\ (k * m) \div m = k
  BY Quotients, Multiples
<1>2. QED
  BY <1>1, Division

\* Sums and differences of multiples are multiples.
LEMMA SumOfMultiples ==
  ASSUME NEW m \in Nat \ {0}, NEW y \in Nat, NEW z \in Nat, y % m = 0
  PROVE  /\ z % m = 0 => (y + z) % m = 0
         /\ z <= y /\ z % m = 0 => (y - z) % m = 0
<1>1. PICK i \in Nat : y = i * m
  BY Remainders, Division
<1>2. ASSUME z % m = 0 PROVE (y + z) % m = 0
  <2>1. PICK j \in Nat : z = j * m
    BY <1>2, Remainders, Division
  <2>2. i + j \in Nat /\ y + z = (i + j) * m
    BY <1>1, <2>1
  <2>3. PICK s \in Nat : y + z = s * m
    BY <2>2
  <2>4. PICK w \in Nat : w = y + z
    OBVIOUS
  <2>5. w % m = 0
    <3>1. w = s * m
      BY <2>3, <2>4
    <3>2. QED
      BY <3>1, Remainders
  <2>6. QED
    BY <2>4, <2>5
<1>3. ASSUME z <= y, z % m = 0 PROVE (y - z) % m = 0
  <2>1. PICK j \in Nat : z = j * m
    BY <1>3, Remainders, Division
  <2>2. ~(i < j)
    BY <1>1, <1>3, <2>1, Multiples
  <2>3. i - j \in Nat /\ y - z = (i - j) * m
    BY <1>1, <2>1, <2>2
  <2>4. QED
    BY <2>3, Remainders
<1>4. QED
  BY <1>2, <1>3

\* roundDown and roundUp of util.h: the multiples of m next to k.
LEMMA Rounding ==
  ASSUME NEW m \in Nat \ {0}, NEW k \in Nat
  PROVE  /\ roundDown(k, m) \in Nat /\ roundDown(k, m) % m = 0
         /\ roundDown(k, m) <= k /\ k < roundDown(k, m) + m
         /\ roundUp(k, m) \in Nat /\ roundUp(k, m) % m = 0
         /\ k <= roundUp(k, m)
         /\ roundUp(k, m) = roundDown(k, m) + (IF k % m = 0 THEN 0 ELSE m)
         /\ \A z \in Nat : z % m = 0 /\ k <= z => roundUp(k, m) <= z
<1> DEFINE d == k \div m
<1>1. d \in Nat /\ k % m \in 0 .. m - 1 /\ k = d * m + (k % m) /\ d * m \in Nat
  BY Division, Multiples
<1>2. roundDown(k, m) = d * m
  BY <1>1 DEF roundDown
<1>3. roundUp(k, m) = (IF k % m = 0 THEN d ELSE d + 1) * m
  BY <1>1 DEF roundUp
<1>4. ASSUME NEW z \in Nat, z % m = 0, k <= z PROVE roundUp(k, m) <= z
  <2>1. PICK j \in Nat : z = j * m
    BY <1>4, Remainders, Division
  <2>2. CASE k % m = 0
    BY <1>1, <1>3, <1>4, <2>2
  <2>3. CASE k % m # 0
    <3>1. d * m < j * m
      BY <1>1, <1>4, <2>1, <2>3
    <3>2. ~(j <= d)
      BY <1>1, <3>1, Multiples
    <3>3. d * m + m <= j * m
      BY <1>1, <3>2, Multiples
    <3>4. QED
      BY <1>1, <1>3, <2>1, <2>3, <3>3
  <2>4. QED
    BY <2>2, <2>3
<1>5. (d * m) % m = 0 /\ ((d + 1) * m) % m = 0
  BY <1>1, Remainders
<1>6. (d + 1) * m = d * m + m
  BY <1>1
<1> HIDE DEF d
<1>7. QED
  BY <1>1, <1>2, <1>3, <1>4, <1>5, <1>6

-----------------------------------------------------------------------------
(***************************************************************************)
(* The geometry of CTask::Create.                                          *)
(***************************************************************************)
\* A fragment is made of whole blocks.
LEMMA WholeBlocks ==
  ASSUME NEW f \in Files
  PROVE  /\ f.eof \in Nat \ {0} /\ f.cbBlock \in Nat \ {0} /\ f.sector \in Nat \ {0}
         /\ f.hashMayFail \in BOOLEAN
         /\ cbFragment(f) \in Nat \ {0}
         /\ cbFragment(f) \div f.cbBlock \in Nat \ {0}
         /\ cbFragment(f) = (cbFragment(f) \div f.cbBlock) * f.cbBlock
<1>1. /\ f.eof \in Nat \ {0} /\ f.cbBlock \in Nat \ {0} /\ f.sector \in Nat \ {0}
      /\ f.hashMayFail \in BOOLEAN /\ cbFragMin \in Nat \ {0}
  BY FragmentAssumption
<1>2. cbFragment(f) \in Nat \ {0} /\ cbFragment(f) % f.cbBlock = 0
  <2>1. CASE f.cbBlock < cbFragMin
    <3>1. cbFragment(f) = roundUp(cbFragMin, f.cbBlock)
      BY <2>1 DEF cbFragment
    <3>2. /\ roundUp(cbFragMin, f.cbBlock) \in Nat
          /\ roundUp(cbFragMin, f.cbBlock) % f.cbBlock = 0
          /\ cbFragMin <= roundUp(cbFragMin, f.cbBlock)
      BY <1>1, Rounding
    <3>3. QED
      BY <1>1, <3>1, <3>2
  <2>2. CASE ~(f.cbBlock < cbFragMin)
    <3>1. cbFragment(f) = f.cbBlock
      BY <2>2 DEF cbFragment
    <3>2. QED
      BY <1>1, <3>1, Remainders
  <2>3. QED
    BY <2>1, <2>2
<1>3. /\ cbFragment(f) \div f.cbBlock \in Nat
      /\ cbFragment(f) = (cbFragment(f) \div f.cbBlock) * f.cbBlock
  BY <1>1, <1>2, Remainders, Division
<1>4. cbFragment(f) \div f.cbBlock # 0
  BY <1>1, <1>2, <1>3
<1>5. QED
  BY <1>1, <1>2, <1>3, <1>4

\* Reads are of whole sectors.
LEMMA WholeSectors ==
  ASSUME NEW f \in Files
  PROVE  cbIo(f) \in Nat \ {0} /\ cbIo(f) % f.sector = 0
<1>1. f.sector \in Nat \ {0} /\ cbIoMin \in Nat \ {0}
  BY FragmentAssumption
<1>2. CASE f.sector < cbIoMin
  <2>1. cbIo(f) = roundUp(cbIoMin, f.sector)
    BY <1>2 DEF cbIo
  <2>2. /\ roundUp(cbIoMin, f.sector) \in Nat
        /\ roundUp(cbIoMin, f.sector) % f.sector = 0
        /\ cbIoMin <= roundUp(cbIoMin, f.sector)
    BY <1>1, Rounding
  <2>3. QED
    BY <1>1, <2>1, <2>2
<1>3. CASE ~(f.sector < cbIoMin)
  BY <1>1, <1>3, Remainders DEF cbIo
<1>4. QED
  BY <1>2, <1>3

\* There are as many pieces of c bytes as a file of e bytes needs.
LEMMA Pieces ==
  ASSUME NEW e \in Nat \ {0}, NEW c \in Nat \ {0}
  PROVE  /\ (e + c - 1) \div c \in Nat \ {0}
         /\ \A i \in Nat : i < (e + c - 1) \div c <=> i * c < e
<1> DEFINE d == (e + c - 1) \div c
<1>0. e + c - 1 \in Nat
  OBVIOUS
<1>1. /\ d \in Nat /\ (e + c - 1) % c \in 0 .. c - 1
      /\ e + c - 1 = d * c + ((e + c - 1) % c)
  BY <1>0, Division
<1>2. d * c < e + c /\ e <= d * c /\ d * c \in Nat
  BY <1>1, Multiples
<1> HIDE DEF d
<1>3. d # 0
  BY <1>1, <1>2
<1>4. ASSUME NEW i \in Nat PROVE i < d <=> i * c < e
  <2>1. i < d => i * c + c <= d * c
    BY <1>1, Multiples
  <2>2. ~(i < d) => d * c <= i * c
    BY <1>1, Multiples
  <2>3. i * c \in Nat
    OBVIOUS
  <2>4. QED
    BY <1>2, <2>1, <2>2, <2>3
<1>5. QED
  BY <1>1, <1>3, <1>4 DEF d

-----------------------------------------------------------------------------
(***************************************************************************)
(* Where fragments and blocks begin: the byte at which fragment k and block*)
(* i of a file begin, and the first block of a fragment.                   *)
(***************************************************************************)
Hashes(f) == cbFragment(f) \div f.cbBlock
Begin(f, k) == k * cbFragment(f)
At(f, i) == i * f.cbBlock
First(f, k) == k * Hashes(f)
EndOf(f, k) == SmallerOf(Begin(f, k + 1), f.eof)
BlockOf(f, i) == <<At(f, i), SmallerOf(At(f, i + 1), f.eof)>>

\* Fragments follow one another, and those the task counts are those that begin in
\* the file.
LEMMA FragmentsBegin ==
  ASSUME NEW f \in Files, NEW k \in Nat
  PROVE  /\ Begin(f, k) \in Nat /\ Begin(f, k + 1) = Begin(f, k) + cbFragment(f)
         /\ k < Fragments(f) <=> Begin(f, k) < f.eof
         /\ Fragments(f) \in Nat \ {0}
<1>1. cbFragment(f) \in Nat \ {0} /\ f.eof \in Nat \ {0}
  BY WholeBlocks
<1>2. Begin(f, k) \in Nat /\ Begin(f, k + 1) = Begin(f, k) + cbFragment(f)
  BY <1>1, Multiples DEF Begin
<1>3. QED
  BY <1>1, <1>2, Pieces DEF Begin, Fragments

\* So do blocks.
LEMMA BlocksBegin ==
  ASSUME NEW f \in Files, NEW i \in Nat, NEW j \in Nat
  PROVE  /\ At(f, i) \in Nat /\ At(f, i + 1) = At(f, i) + f.cbBlock
         /\ i < j => At(f, i) + f.cbBlock <= At(f, j)
         /\ i < Blocks(f) <=> At(f, i) < f.eof
         /\ Blocks(f) \in Nat \ {0}
<1>1. f.cbBlock \in Nat \ {0} /\ f.eof \in Nat \ {0}
  BY WholeBlocks
<1>2. /\ At(f, i) \in Nat /\ At(f, i + 1) = At(f, i) + f.cbBlock
      /\ i < j => At(f, i) + f.cbBlock <= At(f, j)
  BY <1>1, Multiples DEF At
<1>3. QED
  BY <1>1, <1>2, Pieces DEF At, Blocks

\* A fragment begins with a block.
LEMMA FirstBlocks ==
  ASSUME NEW f \in Files, NEW k \in Nat
  PROVE  /\ Hashes(f) \in Nat \ {0}
         /\ First(f, k) \in Nat /\ First(f, k + 1) = First(f, k) + Hashes(f)
         /\ At(f, First(f, k)) = Begin(f, k)
<1> DEFINE h == Hashes(f)  b == f.cbBlock
<1>1. h \in Nat \ {0} /\ b \in Nat /\ cbFragment(f) = h * b
  BY WholeBlocks DEF Hashes
<1>2. k * h \in Nat /\ (k + 1) * h = k * h + h
  BY <1>1, Multiples
<1>3. (k * h) * b = k * (h * b)
  BY <1>1
<1> HIDE DEF h, b
<1>4. At(f, First(f, k)) = Begin(f, k)
  BY <1>1, <1>3 DEF At, First, Begin, h, b
<1>5. QED
  BY <1>1, <1>2, <1>4 DEF First, h

-----------------------------------------------------------------------------
(***************************************************************************)
(* The inductive invariant.                                                *)
(***************************************************************************)
Working == pc \in {"read", "arrived", "hash", "finish", "end", "return"}

\* The block that is to be hashed next, or is in hand.
BlockInHand == First(file, nFragments + 1) - nHashes
Ended == EndOf(file, nFragments)

\* A fragment is worked on, and what is still to read of it ends with the sector
\* of its last byte.
ReadInv ==
  /\ DOMAIN digests = 0 .. Blocks(file) - 1
  /\ pc = "reuse" => hash = NoHash
  /\ Working =>
       /\ nFragments < Fragments(file)
       /\ Length = 0 \/ ByteOffset + Length = roundUp(Ended, file.sector)
       /\ ByteOffset % file.sector = 0 \/ ByteOffset >= file.eof
       /\ nHashes <= Hashes(file)
  /\ pc \in {"read", "arrived"} => Length > 0

\* What was read and is not yet hashed ends at the next read; a short read ends at
\* the end of the file or leaves nothing to read.
DataInv ==
  /\ pc = "arrived" => ~Refused /\ got = SmallerOf(Wanted, file.eof - ByteOffset)
  /\ pc \in {"hash", "finish", "end"} =>
       /\ got < cbIo(file) => Length = 0 \/ ByteOffset = file.eof
       /\ Length = 0 => ByteOffset >= Ended
       /\ pb = x /\ x + n = ByteOffset /\ ByteOffset <= file.eof
       /\ iBlock = BlockInHand /\ nHashes > 0
  /\ pc = "hash" => n > 0

\* The hash in hand covers its block up to the position.
InBlock ==
  /\ nHashes > 0 /\ dwBlock > 0 /\ dwBlock <= file.cbBlock
  /\ x + dwBlock = At(file, BlockInHand) + file.cbBlock
  /\ hash = IF x = At(file, BlockInHand) THEN NoHash ELSE <<At(file, BlockInHand), x>>

\* It does, and a hash to be completed is that of its block, unless BCryptHashData
\* failed: then what is left of a read is dropped, and a later read either begins
\* behind the position or is not begun.
HashInv ==
  /\ pc = "read" => \/ ByteOffset >= file.eof
                    \/ file.hashMayFail /\ x < ByteOffset
                    \/ InBlock /\ x >= ByteOffset
  /\ pc = "arrived" => \/ file.hashMayFail /\ x < ByteOffset
                       \/ InBlock /\ x >= ByteOffset
  /\ pc = "hash" => InBlock \/ (file.hashMayFail /\ Length = 0)
  /\ pc = "finish" =>
       \/ file.hashMayFail /\ Length = 0
       \/ /\ hash = BlockOf(file, BlockInHand)
          /\ At(file, BlockInHand) < file.eof
          /\ \/ dwBlock = 0 /\ x = At(file, BlockInHand + 1)
             \/ n = 0 /\ Length = 0 /\ x = file.eof /\ x <= At(file, BlockInHand + 1)
  /\ pc = "end" => \/ InBlock /\ n = 0
                   \/ Length = 0 /\ hash = NoHash
                   \/ file.hashMayFail /\ (n > 0 \/ Length = 0)
  /\ pc = "return" => \/ Length = 0 /\ hash = NoHash
                      \/ Length # 0 /\ ByteOffset >= file.eof
                      \/ Length # 0 /\ file.hashMayFail /\ x < ByteOffset
                      \/ Length # 0 /\ InBlock /\ x = ByteOffset
  /\ pc = "debugbreak" => file.hashMayFail

\* Only blocks behind the one in hand have a digest, those of later fragments and
\* those this fragment is done with.
DigestInv ==
  \A i \in DOMAIN digests :
    /\ digests[i] # NoHash =>
         /\ First(file, nFragments) <= i
         /\ Working => i < BlockInHand \/ First(file, nFragments + 1) <= i
    /\ ~file.hashMayFail => digests[i] \in {NoHash, BlockOf(file, i)}

\* The bytes the reads of fragments 0 .. k - 1 may deliver.
Rest(f, k) ==
  (IF k = Fragments(f) THEN f.eof ELSE roundUp(Begin(f, k), f.sector))
    + Cardinality({i \in Straddling(f) : i < k}) * f.sector

\* What this fragment's reads may still deliver.
ToRead == IF ByteOffset >= file.eof THEN 0
          ELSE SmallerOf(Length, file.eof - ByteOffset)

\* The count of bytes left covers all that is still to be read.
BytesInv ==
  /\ pc = "reuse" => bytes >= Rest(file, nFragments)
  /\ pc \in {"read", "arrived"} => bytes >= Rest(file, nFragments) + ToRead
  /\ pc \in {"hash", "finish", "end", "return"} =>
       bytes >= Rest(file, nFragments) + ToRead + got

IInv == TypeOK /\ ReadInv /\ DataInv /\ HashInv /\ DigestInv /\ BytesInv

-----------------------------------------------------------------------------
(***************************************************************************)
(* What the actions and the invariant say, in terms of the geometry.       *)
(***************************************************************************)
\* The block in hand is one of the fragment's.
LEMMA InHand ==
  ASSUME TypeOK, nHashes <= Hashes(file)
  PROVE  /\ BlockInHand \in Nat /\ First(file, nFragments) <= BlockInHand
         /\ Begin(file, nFragments) \in Nat /\ First(file, nFragments) \in Nat
         /\ First(file, nFragments + 1) \in Nat /\ Begin(file, nFragments + 1) \in Nat
         /\ At(file, BlockInHand) \in Nat
         /\ At(file, BlockInHand + 1) = At(file, BlockInHand) + file.cbBlock
         /\ Begin(file, nFragments) <= At(file, BlockInHand)
         /\ BlockInHand + nHashes = First(file, nFragments + 1)
         /\ nHashes > 0 =>
              At(file, BlockInHand) + file.cbBlock <= Begin(file, nFragments + 1)
         /\ nHashes = 1 =>
              At(file, BlockInHand) + file.cbBlock = Begin(file, nFragments + 1)
<1> PICK f \in Files, k \in Nat, h \in Nat : f = file /\ k = nFragments /\ h = nHashes
  <2>1. Fragments(file) \in Nat
    BY FragmentsBegin DEF TypeOK
  <2>2. QED
    BY <2>1 DEF TypeOK
<1> DEFINE i == First(f, k + 1) - h
<1>1. h <= Hashes(f) /\ i = BlockInHand
  BY DEF BlockInHand
<1>2. /\ First(f, k) \in Nat /\ First(f, k + 1) = First(f, k) + Hashes(f)
      /\ Hashes(f) \in Nat /\ At(f, First(f, k)) = Begin(f, k)
  BY FirstBlocks
<1>3. At(f, First(f, k + 1)) = Begin(f, k + 1)
  <2>1. k + 1 \in Nat
    OBVIOUS
  <2>2. QED
    BY <2>1, FirstBlocks
<1>4. i \in Nat /\ First(f, k) <= i /\ i + h = First(f, k + 1)
  BY <1>1, <1>2
<1>5. Begin(f, k) \in Nat /\ Begin(f, k + 1) \in Nat
  BY FragmentsBegin
<1>6. f.cbBlock \in Nat
  BY WholeBlocks
<1> HIDE DEF i
<1>7. At(f, i) \in Nat /\ At(f, i + 1) = At(f, i) + f.cbBlock
  BY <1>4, BlocksBegin
<1>8. Begin(f, k) <= At(f, i)
  <2>1. First(f, k) < i => At(f, First(f, k)) + f.cbBlock <= At(f, i)
    BY <1>2, <1>4, BlocksBegin
  <2>2. QED
    BY <1>2, <1>4, <1>5, <1>6, <1>7, <2>1
<1>9. h > 0 => At(f, i) + f.cbBlock <= Begin(f, k + 1)
  <2>1. i < First(f, k + 1) => At(f, i) + f.cbBlock <= At(f, First(f, k + 1))
    BY <1>2, <1>4, BlocksBegin
  <2>2. QED
    BY <1>3, <1>4, <2>1
<1>10. h = 1 => At(f, i) + f.cbBlock = Begin(f, k + 1)
  BY <1>3, <1>4, <1>7
<1>11. QED
  BY <1>1, <1>2, <1>4, <1>5, <1>7, <1>8, <1>9, <1>10

\* Start takes the fragment before the last one taken, from its first block on.
LEMMA Starts ==
  ASSUME TypeOK, Start, NEW f \in Files, f = file, NEW k \in Nat, k + 1 = nFragments
  PROVE  /\ nFragments' = k /\ k < Fragments(f) /\ file' = f
         /\ x' = Begin(f, k) /\ Begin(f, k) \in Nat /\ Begin(f, k) < f.eof
         /\ ByteOffset' = roundDown(Begin(f, k), f.sector)
         /\ Length' = roundUp(EndOf(f, k), f.sector) - ByteOffset'
         /\ EndOf(f, k) \in Nat /\ Begin(f, k) < EndOf(f, k) /\ EndOf(f, k) <= f.eof
         /\ ByteOffset' \in Nat /\ ByteOffset' <= Begin(f, k)
         /\ ByteOffset' % f.sector = 0
         /\ Length' \in Nat /\ Length' > 0
         /\ nHashes' = Hashes(f) /\ Hashes(f) \in Nat \ {0}
         /\ First(f, k + 1) - nHashes' = First(f, k)
         /\ At(f, First(f, k)) = Begin(f, k)
<1>1. Fragments(f) \in Nat /\ nFragments \in 0 .. Fragments(f)
  BY FragmentsBegin DEF TypeOK
<1>2. /\ Begin(f, k) \in Nat /\ Begin(f, k + 1) = Begin(f, k) + cbFragment(f)
      /\ Begin(f, k) < f.eof
  BY <1>1, FragmentsBegin
<1>3. nFragments' = k /\ k < Fragments(f) /\ file' = f /\ nHashes' = Hashes(f)
  BY <1>1 DEF Start, HashesInFragment, Hashes
<1>4. k * cbFragment(f) = Begin(f, k)
  BY DEF Begin
<1>5. /\ x' = Begin(f, k)
      /\ ByteOffset' = roundDown(Begin(f, k), f.sector)
      /\ Length' = roundUp(EndOf(f, k), f.sector) - ByteOffset'
  <2>1. nFragments - 1 = k
    OBVIOUS
  <2>2. QED
    BY <1>2, <1>4, <2>1 DEF Start, FirstByte, EndOf
<1>6. f.eof \in Nat /\ f.sector \in Nat \ {0} /\ cbFragment(f) \in Nat \ {0}
  BY WholeBlocks
<1>7. EndOf(f, k) \in Nat /\ Begin(f, k) < EndOf(f, k) /\ EndOf(f, k) <= f.eof
  BY <1>2, <1>6 DEF EndOf, SmallerOf
<1>8. /\ roundDown(Begin(f, k), f.sector) \in Nat
      /\ roundDown(Begin(f, k), f.sector) <= Begin(f, k)
      /\ roundDown(Begin(f, k), f.sector) % f.sector = 0
  BY <1>2, <1>6, Rounding
<1>9. /\ roundUp(EndOf(f, k), f.sector) \in Nat
      /\ EndOf(f, k) <= roundUp(EndOf(f, k), f.sector)
  BY <1>6, <1>7, Rounding
<1>10. /\ First(f, k) \in Nat /\ First(f, k + 1) = First(f, k) + Hashes(f)
       /\ Hashes(f) \in Nat \ {0} /\ At(f, First(f, k)) = Begin(f, k)
  BY FirstBlocks
<1>11. ByteOffset' \in Nat /\ ByteOffset' <= Begin(f, k) /\ ByteOffset' % f.sector = 0
  BY <1>5, <1>8
<1>12. Length' \in Nat /\ Length' > 0
  BY <1>2, <1>5, <1>7, <1>9, <1>11
<1>13. First(f, k + 1) - nHashes' = First(f, k)
  BY <1>3, <1>10
<1>14. QED
  BY <1>2, <1>3, <1>5, <1>7, <1>10, <1>11, <1>12, <1>13

\* What a read delivers.
LEMMA Delivered ==
  ASSUME TypeOK, ReadInv, DataInv, pc = "arrived"
  PROVE  /\ got > 0 /\ got <= Length /\ got <= cbIo(file) /\ cbIo(file) \in Nat
         /\ ByteOffset < file.eof /\ ByteOffset + got <= file.eof /\ file.eof \in Nat
         /\ got < cbIo(file) => got = Length \/ ByteOffset + got = file.eof
         /\ (ByteOffset + got) % file.sector = 0 \/ ByteOffset + got = file.eof
         /\ Ended \in Nat /\ Ended <= file.eof
         /\ roundUp(Ended, file.sector) \in Nat /\ Ended <= roundUp(Ended, file.sector)
         /\ ByteOffset + Length = roundUp(Ended, file.sector)
<1>1. file \in Files /\ nFragments \in Nat
  <2>1. Fragments(file) \in Nat
    BY FragmentsBegin DEF TypeOK
  <2>2. QED
    BY <2>1 DEF TypeOK
<1>2. cbIo(file) \in Nat \ {0} /\ file.eof \in Nat /\ file.sector \in Nat \ {0}
  BY <1>1, WholeBlocks, WholeSectors
<1>3. {ByteOffset, Length, got} \subseteq Nat /\ Length > 0
  BY DEF TypeOK, ReadInv
<1>4. /\ Wanted \in Nat \ {0}
      /\ Wanted = Length \/ (Wanted = cbIo(file) /\ Wanted <= Length)
      /\ Wanted <= cbIo(file)
  BY <1>2, <1>3 DEF Wanted, SmallerOf
<1>5. /\ ByteOffset % file.sector = 0 /\ Wanted % file.sector = 0 /\ ByteOffset < file.eof
      /\ got = SmallerOf(Wanted, file.eof - ByteOffset)
  BY <1>2, <1>3 DEF DataInv, Refused
<1>6. got = Wanted \/ ByteOffset + got = file.eof
  BY <1>2, <1>3, <1>4, <1>5 DEF SmallerOf
<1>7. got <= Wanted /\ got > 0 /\ ByteOffset + got <= file.eof
  BY <1>2, <1>3, <1>4, <1>5 DEF SmallerOf
<1>8. (ByteOffset + Wanted) % file.sector = 0
  BY <1>2, <1>3, <1>4, <1>5, SumOfMultiples
<1>9. Begin(file, nFragments + 1) \in Nat
  BY <1>1, FragmentsBegin
<1>10. Ended \in Nat /\ Ended <= file.eof
  BY <1>2, <1>9 DEF Ended, EndOf, SmallerOf
<1>11. roundUp(Ended, file.sector) \in Nat /\ Ended <= roundUp(Ended, file.sector)
  BY <1>2, <1>10, Rounding
<1>12. ByteOffset + Length = roundUp(Ended, file.sector)
  BY <1>3 DEF ReadInv, Working
<1>13. got < cbIo(file) => got = Length \/ ByteOffset + got = file.eof
  BY <1>2, <1>3, <1>4, <1>6
<1>14. (ByteOffset + got) % file.sector = 0 \/ ByteOffset + got = file.eof
  BY <1>6, <1>8
<1>15. QED
  BY <1>2, <1>3, <1>4, <1>5, <1>7, <1>10, <1>11, <1>12, <1>13, <1>14


\* The fragments before fragment k that begin inside a sector.
Before(f, k) == {i \in Straddling(f) : i < k}

\* What the reads of fragment k may deliver, and the sector it shares with the
\* fragment before it, is what Rest(f, k + 1) has and Rest(f, k) has not.
LEMMA Rests ==
  ASSUME NEW f \in Files, NEW k \in Nat, k < Fragments(f)
  PROVE  /\ Rest(f, k) \in Nat /\ Rest(f, k + 1) \in Nat
         /\ Rest(f, k + 1) >= Rest(f, k)
              + SmallerOf(roundUp(EndOf(f, k), f.sector), f.eof)
              - roundDown(Begin(f, k), f.sector)
         /\ k = 0 => Rest(f, k) = 0
         /\ Rest(f, Fragments(f)) = BytesToProcess(f) /\ Rest(f, Fragments(f)) \in Nat
<1> DEFINE s == f.sector
<1>1. /\ s \in Nat \ {0} /\ f.eof \in Nat \ {0} /\ Fragments(f) \in Nat /\ k + 1 \in Nat
      /\ Begin(f, k) \in Nat /\ Begin(f, k + 1) \in Nat /\ Begin(f, k) < f.eof
      /\ k + 1 < Fragments(f) <=> Begin(f, k + 1) < f.eof
  <2>1. k + 1 \in Nat
    OBVIOUS
  <2>2. QED
    BY <2>1, WholeBlocks, FragmentsBegin
<1>2. IsFiniteSet(Straddling(f)) /\ \A j : IsFiniteSet(Before(f, j))
  <2>1. IsFiniteSet(0 .. Fragments(f) - 1)
    BY <1>1, FS_Interval
  <2>2. QED
    BY <2>1, FS_Subset DEF Straddling, Before
<1>3. \A j : Cardinality(Before(f, j)) \in Nat
  BY <1>2, FS_CardinalityType
<1>4. Cardinality(Before(f, k + 1)) = Cardinality(Before(f, k))
                                       + (IF Begin(f, k) % s = 0 THEN 0 ELSE 1)
  <2>1. k \in 0 .. Fragments(f) - 1 /\ (k \in Straddling(f) <=> Begin(f, k) % s # 0)
    BY <1>1 DEF Straddling, Begin
  <2>2. CASE Begin(f, k) % s = 0
    <3>1. Before(f, k + 1) = Before(f, k)
      BY <1>1, <2>1, <2>2 DEF Before, Straddling
    <3>2. QED
      BY <1>3, <2>2, <3>1
  <2>3. CASE Begin(f, k) % s # 0
    <3>1. Before(f, k + 1) = Before(f, k) \cup {k} /\ k \notin Before(f, k)
      BY <1>1, <2>1, <2>3 DEF Before, Straddling
    <3>2. QED
      BY <1>2, <2>3, <3>1, FS_AddElement
  <2>4. QED
    BY <2>2, <2>3
<1>5. PICK c \in Nat : c = Cardinality(Before(f, k))
  BY <1>3
<1>6. PICK d \in Nat : d = Cardinality(Before(f, k + 1))
  BY <1>3
<1>7. /\ c * s \in Nat /\ d * s \in Nat
      /\ d * s = c * s + (IF Begin(f, k) % s = 0 THEN 0 ELSE s)
  <2>1. d = c + (IF Begin(f, k) % s = 0 THEN 0 ELSE 1)
    BY <1>4, <1>5, <1>6
  <2>2. QED
    BY <1>1, <2>1, Multiples
<1>8. /\ roundDown(Begin(f, k), s) \in Nat
      /\ roundUp(Begin(f, k), s) = roundDown(Begin(f, k), s)
                                    + (IF Begin(f, k) % s = 0 THEN 0 ELSE s)
      /\ roundUp(Begin(f, k), s) \in Nat /\ roundUp(Begin(f, k + 1), s) \in Nat
      /\ Begin(f, k + 1) <= roundUp(Begin(f, k + 1), s)
  BY <1>1, Rounding
<1>9. Rest(f, k) = roundUp(Begin(f, k), s) + c * s
  BY <1>1, <1>5 DEF Rest, Before
<1>10. Rest(f, k + 1) =
         (IF k + 1 = Fragments(f) THEN f.eof ELSE roundUp(Begin(f, k + 1), s)) + d * s
  BY <1>6 DEF Rest, Before
<1>11. Rest(f, k) \in Nat /\ Rest(f, k + 1) \in Nat
  BY <1>1, <1>7, <1>8, <1>9, <1>10
<1>12. Rest(f, k + 1) >= Rest(f, k)
         + SmallerOf(roundUp(EndOf(f, k), s), f.eof) - roundDown(Begin(f, k), s)
  <2>1. CASE k + 1 = Fragments(f)
    <3>1. EndOf(f, k) = f.eof
      BY <1>1, <2>1 DEF EndOf, SmallerOf
    <3>2. f.eof <= roundUp(f.eof, s) /\ roundUp(f.eof, s) \in Nat
      BY <1>1, Rounding
    <3>3. SmallerOf(roundUp(EndOf(f, k), s), f.eof) = f.eof
      BY <1>1, <3>1, <3>2 DEF SmallerOf
    <3>4. QED
      BY <1>1, <1>7, <1>8, <1>9, <1>10, <2>1, <3>3
  <2>2. CASE k + 1 # Fragments(f)
    <3>1. EndOf(f, k) = Begin(f, k + 1)
      BY <1>1, <2>2 DEF EndOf, SmallerOf
    <3>2. SmallerOf(roundUp(EndOf(f, k), s), f.eof) <= roundUp(Begin(f, k + 1), s)
      BY <1>1, <1>8, <3>1 DEF SmallerOf
    <3>3. SmallerOf(roundUp(EndOf(f, k), s), f.eof) \in Int
      BY <1>1, <1>8, <3>1 DEF SmallerOf
    <3>4. QED
      BY <1>1, <1>7, <1>8, <1>9, <1>10, <2>2, <3>2, <3>3
  <2>3. QED
    BY <2>1, <2>2
<1>13. k = 0 => Rest(f, k) = 0
  <2>1. SUFFICES ASSUME k = 0 PROVE Rest(f, k) = 0
    OBVIOUS
  <2>2. Before(f, k) = {} /\ Begin(f, k) = 0
    <3>1. 0 * cbFragment(f) = 0
      BY WholeBlocks
    <3>2. QED
      BY <2>1, <3>1 DEF Before, Straddling, Begin
  <2>3. c = 0
    BY <1>5, <2>2, FS_EmptySet
  <2>4. roundUp(Begin(f, k), s) = 0
    BY <1>1, <2>2 DEF roundUp
  <2>5. QED
    BY <1>1, <1>9, <2>3, <2>4
<1>14. Rest(f, Fragments(f)) = BytesToProcess(f) /\ Rest(f, Fragments(f)) \in Nat
  <2>1. Before(f, Fragments(f)) = Straddling(f)
    BY <1>1 DEF Before, Straddling
  <2>2. PICK e \in Nat : e = Cardinality(Straddling(f))
    BY <1>2, FS_CardinalityType
  <2>3. Rest(f, Fragments(f)) = f.eof + e * s
    BY <2>1, <2>2 DEF Rest, Before
  <2>4. BytesToProcess(f) = f.eof + e * s
    BY <2>2 DEF BytesToProcess
  <2>5. e * s \in Nat
    BY <1>1, Multiples
  <2>6. QED
    BY <1>1, <2>3, <2>4, <2>5
<1>15. QED
  BY <1>11, <1>12, <1>13, <1>14

-----------------------------------------------------------------------------
(***************************************************************************)
(* Every step keeps the invariant.                                         *)
(***************************************************************************)
\* The counters stay natural numbers: nothing is subtracted below zero.
LEMMA TypeNext ==
  ASSUME IInv, Next
  PROVE  TypeOK'
<1> USE DEF TypeOK
<1>0. /\ file \in Files /\ Fragments(file) \in Nat /\ nFragments \in 0 .. Fragments(file)
      /\ bytes \in Nat
      /\ {ByteOffset, Length, x, dwBlock, nHashes, got, n, pb, iBlock} \subseteq Nat
      /\ pc \in {"reuse", "read", "arrived", "hash", "finish", "end", "return",
                 "done", "debugbreak"}
      /\ status \in {"success", "failed"}
  BY FragmentsBegin DEF IInv
<1>1. CASE Start
  <2>1. PICK f \in Files, k \in Nat : f = file /\ k + 1 = nFragments
    <3>1. nFragments - 1 \in Nat /\ (nFragments - 1) + 1 = nFragments
      BY <1>0, <1>1 DEF Start
    <3>2. QED
      BY <1>0, <3>1
  <2>2. /\ nFragments' = k /\ k < Fragments(f) /\ file' = f
        /\ {x', ByteOffset', Length', nHashes'} \subseteq Nat
    BY <1>1, <2>1, Starts DEF IInv
  <2>3. f.cbBlock \in Nat
    BY WholeBlocks
  <2>4. QED
    BY <1>0, <1>1, <2>1, <2>2, <2>3 DEF Start
<1>2. CASE Finish
  BY <1>0, <1>2 DEF Finish, taskVars, readVars, dataVars
<1>3. CASE Read
  <2>1. cbIo(file) \in Nat /\ file.eof \in Nat
    BY <1>0, WholeBlocks, WholeSectors
  <2>2. got' \in Nat
    BY <1>0, <1>3, <2>1 DEF Read, Wanted, SmallerOf, Refused
  <2>3. QED
    BY <1>0, <1>3, <2>2 DEF Read, taskVars, readVars
<1>4. CASE ReadRefused
  BY <1>0, <1>4 DEF ReadRefused, Fail, taskVars, readVars
<1>5. CASE Arrive
  <2>1. got <= Length
    BY <1>5, Delivered DEF Arrive, IInv
  <2>2. file.cbBlock \in Nat \ {0}
    BY <1>0, WholeBlocks
  <2>3. CurrentBlock \in Nat
    BY <1>0, <2>2, Division DEF CurrentBlock
  <2>4. ByteOffset' \in Nat /\ Length' \in Nat
    BY <1>0, <1>5, <2>1 DEF Arrive
  <2>5. /\ n' \in Nat /\ pb' \in Nat /\ iBlock' \in Nat
        /\ status' \in {"success", "failed"}
        /\ pc' \in {"debugbreak", "reuse", "hash"}
    BY <1>0, <1>5, <2>3 DEF Arrive, Fail
  <2>6. QED
    BY <1>0, <1>5, <2>4, <2>5 DEF Arrive, taskVars
<1>6. CASE ArriveBad
  BY <1>0, <1>6 DEF ArriveBad, Fail, taskVars, readVars
<1>7. CASE HashData
  <2> DEFINE c == SmallerOf(n, dwBlock)
  <2>1. c \in Nat /\ c <= n /\ c <= dwBlock
    BY <1>0 DEF SmallerOf
  <2>2. {x', pb', n', dwBlock'} \subseteq Nat
    BY <1>0, <1>7, <2>1 DEF HashData
  <2>3. pc' \in {"finish", "end", "hash"}
    BY <1>7 DEF HashData
  <2>4. QED
    BY <1>0, <1>7, <2>2, <2>3 DEF HashData, taskVars, readVars
<1>8. CASE HashDataFails
  BY <1>0, <1>8 DEF HashDataFails, taskVars, readVars
<1>9. CASE FinishHash
  <2>1. nHashes > 0
    BY <1>9 DEF FinishHash, IInv, DataInv
  <2>2. file.cbBlock \in Nat
    BY <1>0, WholeBlocks
  <2>3. nHashes' \in Nat /\ iBlock' \in Nat /\ dwBlock' \in Nat
    BY <1>0, <1>9, <2>1, <2>2 DEF FinishHash
  <2>4. pc' \in {"return", "end", "hash"}
    BY <1>9 DEF FinishHash
  <2>5. QED
    BY <1>0, <1>9, <2>3, <2>4 DEF FinishHash, taskVars, readVars
<1>10. CASE EndOfData
  BY <1>0, <1>10 DEF EndOfData, taskVars, dataVars
<1>11. CASE Return
  <2>0. nFragments < Fragments(file) /\ file.eof \in Nat
    BY <1>0, <1>11, WholeBlocks DEF Return, IInv, ReadInv, Working
  <2>1. Rest(file, nFragments) \in Nat /\ ToRead \in Nat
    BY <1>0, <2>0, Rests DEF ToRead, SmallerOf
  <2>2. bytes >= Rest(file, nFragments) + ToRead + got
    BY <1>11 DEF Return, IInv, BytesInv
  <2>3. bytes' \in Nat
    BY <1>0, <1>11, <2>1, <2>2 DEF Return
  <2>4. QED
    BY <1>0, <1>11, <2>3 DEF Return, readVars, dataVars
<1>12. QED
  BY <1>1, <1>2, <1>3, <1>4, <1>5, <1>6, <1>7, <1>8, <1>9, <1>10, <1>11 DEF Next

\* What is left to read of a fragment ends with the sector of its last byte.
LEMMA ReadNext ==
  ASSUME IInv, Next, TypeOK'
  PROVE  ReadInv'
<1>0. /\ file \in Files /\ Fragments(file) \in Nat /\ nFragments \in 0 .. Fragments(file)
      /\ {ByteOffset, Length, x, dwBlock, nHashes, got, n, pb, iBlock} \subseteq Nat
  BY FragmentsBegin DEF IInv, TypeOK
<1>1. /\ DOMAIN digests = 0 .. Blocks(file) - 1
      /\ pc = "reuse" => hash = NoHash
      /\ Working =>
           /\ nFragments < Fragments(file)
           /\ \/ Length = 0
              \/ ByteOffset + Length = roundUp(EndOf(file, nFragments), file.sector)
           /\ ByteOffset % file.sector = 0 \/ ByteOffset >= file.eof
           /\ nHashes <= Hashes(file)
      /\ pc \in {"read", "arrived"} => Length > 0
  BY DEF IInv, ReadInv, Ended
<1>2. CASE Start
  <2>1. PICK f \in Files, k \in Nat : f = file /\ k + 1 = nFragments
    <3>1. nFragments - 1 \in Nat /\ (nFragments - 1) + 1 = nFragments
      BY <1>0, <1>2 DEF Start
    <3>2. QED
      BY <1>0, <3>1
  <2>2. /\ nFragments' = k /\ k < Fragments(f) /\ file' = f
        /\ Length' = roundUp(EndOf(f, k), f.sector) - ByteOffset'
        /\ EndOf(f, k) \in Nat /\ ByteOffset' \in Nat /\ ByteOffset' % f.sector = 0
        /\ Length' > 0 /\ nHashes' = Hashes(f) /\ Hashes(f) \in Nat
    BY <1>2, <2>1, Starts DEF IInv
  <2>3. roundUp(EndOf(f, k), f.sector) \in Nat
    BY <2>2, WholeBlocks, Rounding
  <2>4. ByteOffset' + Length' = roundUp(EndOf(f, k), f.sector)
    BY <2>2, <2>3
  <2>5. /\ DOMAIN digests' = 0 .. Blocks(f) - 1 /\ pc' = "read"
    BY <1>1, <1>2, <2>1 DEF Start
  <2>6. QED
    BY <2>2, <2>4, <2>5 DEF ReadInv, Ended
<1>3. CASE Finish
  BY <1>1, <1>3 DEF Finish, ReadInv, Working, Ended, taskVars, readVars, dataVars
<1>4. CASE Read
  BY <1>1, <1>4 DEF Read, ReadInv, Working, Ended, taskVars, readVars
<1>5. CASE ReadRefused
  BY <1>1, <1>5 DEF ReadRefused, Fail, ReadInv, Working, Ended, taskVars, readVars
<1>6. CASE Arrive
  <2>1. /\ got <= Length
        /\ (ByteOffset + got) % file.sector = 0 \/ ByteOffset + got = file.eof
        /\ ByteOffset + Length = roundUp(Ended, file.sector) /\ file.eof \in Nat
    BY <1>6, Delivered DEF Arrive, IInv
  <2>2. /\ ByteOffset' = ByteOffset + got
        /\ ByteOffset' + Length' = roundUp(EndOf(file, nFragments), file.sector)
        /\ pc' \in {"debugbreak", "reuse", "hash"} /\ pc = "arrived"
        /\ pc' = "reuse" => hash' = NoHash
        /\ UNCHANGED <<file, nFragments, nHashes, digests>>
    BY <1>0, <1>6, <2>1 DEF Arrive, Fail, taskVars, Ended
  <2>3. ByteOffset' % file.sector = 0 \/ ByteOffset' >= file.eof
    BY <1>0, <2>1, <2>2
  <2>4. QED
    BY <1>1, <2>2, <2>3 DEF ReadInv, Working, Ended
<1>7. CASE ArriveBad
  BY <1>1, <1>7 DEF ArriveBad, Fail, ReadInv, Working, Ended, taskVars, readVars
<1>8. CASE HashData
  <2>1. pc = "hash" /\ pc' \in {"finish", "end", "hash"}
    BY <1>8 DEF HashData
  <2>2. UNCHANGED <<file, nFragments, ByteOffset, Length, nHashes, digests>>
    BY <1>8 DEF HashData, taskVars, readVars
  <2>3. QED
    BY <1>1, <2>1, <2>2 DEF ReadInv, Working, Ended
<1>9. CASE HashDataFails
  BY <1>1, <1>9 DEF HashDataFails, ReadInv, Working, Ended, taskVars, readVars
<1>10. CASE FinishHash
  <2>1. /\ pc = "finish"
        /\ pc' \in {"return", "end", "hash"}
        /\ DOMAIN digests' = DOMAIN digests
    BY <1>10 DEF FinishHash
  <2>2. nHashes' = nHashes - 1 /\ UNCHANGED <<file, nFragments, ByteOffset, Length>>
    BY <1>10 DEF FinishHash, taskVars, readVars
  <2>3. Hashes(file) \in Nat /\ nHashes <= Hashes(file)
    BY <1>0, <1>1, <2>1, FirstBlocks DEF Working
  <2>4. nHashes' <= Hashes(file)
    BY <1>0, <2>2, <2>3
  <2>5. QED
    BY <1>1, <2>1, <2>2, <2>4 DEF ReadInv, Working, Ended
<1>11. CASE EndOfData
  <2>1. pc = "end" /\ pc' \in {"finish", "return"} /\ (Length' = 0 \/ Length' = Length)
    BY <1>11 DEF EndOfData
  <2>2. UNCHANGED <<file, nFragments, ByteOffset, nHashes, digests>>
    BY <1>11 DEF EndOfData, taskVars, dataVars
  <2>3. QED
    BY <1>1, <2>1, <2>2 DEF ReadInv, Working, Ended
<1>12. CASE Return
  <2>1. pc = "return" /\ pc' = IF Length # 0 THEN "read" ELSE "reuse"
    BY <1>12 DEF Return
  <2>2. UNCHANGED <<file, nFragments, ByteOffset, Length, nHashes, digests, hash>>
    BY <1>12 DEF Return, readVars, dataVars
  <2>3. Length = 0 => hash = NoHash
    BY <2>1 DEF IInv, HashInv
  <2>4. QED
    BY <1>0, <1>1, <2>1, <2>2, <2>3 DEF ReadInv, Working, Ended
<1>13. QED
  BY <1>2, <1>3, <1>4, <1>5, <1>6, <1>7, <1>8, <1>9, <1>10, <1>11, <1>12 DEF Next

\* The position, the data in hand and the next read fit together, and the block
\* ProcessData goes on with is the block in hand.
LEMMA DataNext ==
  ASSUME IInv, Next, TypeOK'
  PROVE  DataInv'
<1>0. /\ file \in Files /\ Fragments(file) \in Nat /\ nFragments \in 0 .. Fragments(file)
      /\ {ByteOffset, Length, x, dwBlock, nHashes, got, n, pb, iBlock} \subseteq Nat
      /\ First(file, nFragments + 1) \in Nat /\ file.eof \in Nat
      /\ Ended \in Nat /\ Ended <= file.eof
  <2>1. file \in Files /\ nFragments \in Nat /\ Fragments(file) \in Nat
    BY FragmentsBegin DEF IInv, TypeOK
  <2>2. nFragments + 1 \in Nat /\ Begin(file, nFragments + 1) \in Nat
    BY <2>1, FragmentsBegin
  <2>3. First(file, nFragments + 1) \in Nat /\ file.eof \in Nat
    BY <2>1, <2>2, FirstBlocks, WholeBlocks
  <2>4. QED
    BY <2>1, <2>2, <2>3 DEF IInv, TypeOK, Ended, EndOf, SmallerOf
<1>1. /\ pc = "arrived" => ~Refused /\ got = SmallerOf(Wanted, file.eof - ByteOffset)
      /\ pc \in {"hash", "finish", "end"} =>
           /\ got < cbIo(file) => Length = 0 \/ ByteOffset = file.eof
           /\ Length = 0 => ByteOffset >= Ended
           /\ pb = x /\ x + n = ByteOffset /\ ByteOffset <= file.eof
           /\ iBlock = BlockInHand /\ nHashes > 0
      /\ pc = "hash" => n > 0
  BY DEF IInv, DataInv
<1>2. CASE Start
  BY <1>2 DEF Start, DataInv
<1>3. CASE Finish
  BY <1>3 DEF Finish, DataInv
<1>4. CASE Read
  <2>1. pc' = "arrived" /\ UNCHANGED <<file, ByteOffset, Length>>
    BY <1>4 DEF Read, taskVars, readVars
  <2>2. ~Refused /\ got' = SmallerOf(Wanted, file.eof - ByteOffset)
    BY <1>4 DEF Read
  <2>3. Refused' = Refused /\ Wanted' = Wanted
    BY <2>1 DEF Refused, Wanted
  <2>4. QED
    BY <2>1, <2>2, <2>3 DEF DataInv
<1>5. CASE ReadRefused
  BY <1>5 DEF ReadRefused, Fail, DataInv
<1>6. CASE Arrive
  <2>0. CASE pc' # "hash"
    BY <1>6, <2>0 DEF Arrive, Fail, DataInv
  <2>1. CASE pc' = "hash"
    <3>1. /\ got <= Length /\ ByteOffset + got <= file.eof
          /\ got < cbIo(file) => got = Length \/ ByteOffset + got = file.eof
          /\ roundUp(Ended, file.sector) \in Nat /\ Ended <= roundUp(Ended, file.sector)
          /\ ByteOffset + Length = roundUp(Ended, file.sector)
      BY <1>6, Delivered DEF Arrive, IInv
    <3>2. /\ ByteOffset' = ByteOffset + got /\ Length' = Length - got
          /\ ~(x < ByteOffset) /\ ~(got <= x - ByteOffset)
          /\ n' = got - (x - ByteOffset) /\ pb' = x /\ iBlock' = CurrentBlock
          /\ pc = "arrived"
          /\ UNCHANGED <<file, nFragments, x, nHashes, got, dwBlock>>
      BY <1>6, <2>1 DEF Arrive, Fail, taskVars
    <3>3. /\ nHashes > 0 /\ dwBlock > 0 /\ dwBlock <= file.cbBlock
          /\ x + dwBlock = At(file, BlockInHand) + file.cbBlock
      BY <1>0, <3>2 DEF IInv, HashInv, InBlock
    <3>4. BlockInHand \in Nat /\ At(file, BlockInHand) \in Nat
      BY <3>2, InHand DEF IInv, ReadInv, Working
    <3>5. file.cbBlock \in Nat \ {0}
      BY <1>0, WholeBlocks
    <3>6. At(file, BlockInHand) <= x /\ x < At(file, BlockInHand) + file.cbBlock
      BY <1>0, <3>3, <3>4, <3>5
    <3>7. CurrentBlock = BlockInHand
      BY <1>0, <3>4, <3>5, <3>6, Quotients DEF At, CurrentBlock
    <3>8. iBlock' = BlockInHand' /\ nHashes' > 0
      BY <3>2, <3>3, <3>7 DEF BlockInHand
    <3>9. n' > 0 /\ pb' = x' /\ x' + n' = ByteOffset' /\ ByteOffset' <= file'.eof
      BY <1>0, <3>1, <3>2
    <3>10. got' < cbIo(file') => Length' = 0 \/ ByteOffset' = file'.eof
      BY <1>0, <3>1, <3>2
    <3>11. Length' = 0 => ByteOffset' >= Ended
      BY <1>0, <3>1, <3>2
    <3>12. Ended' = Ended
      BY <3>2 DEF Ended
    <3>13. QED
      BY <2>1, <3>8, <3>9, <3>10, <3>11, <3>12 DEF DataInv
  <2>2. QED
    BY <2>0, <2>1
<1>7. CASE ArriveBad
  BY <1>7 DEF ArriveBad, Fail, DataInv
<1>8. CASE HashData
  <2> DEFINE c == SmallerOf(n, dwBlock)
  <2>1. c \in Nat /\ c <= n /\ c <= dwBlock
    BY <1>0 DEF SmallerOf
  <2>2. /\ pb' = pb + c /\ x' = x + c /\ n' = n - c
        /\ pc = "hash"
        /\ pc' = IF dwBlock = c THEN "finish" ELSE IF n = c THEN "end" ELSE "hash"
        /\ UNCHANGED <<file, nFragments, ByteOffset, Length, nHashes, got, iBlock>>
    BY <1>8 DEF HashData, taskVars, readVars
  <2> HIDE DEF c
  <2>3. pb' = x' /\ x' + n' = ByteOffset' /\ (pc' = "hash" => n' > 0)
    BY <1>0, <1>1, <2>1, <2>2
  <2>4. BlockInHand' = BlockInHand /\ Ended' = Ended
    BY <2>2 DEF BlockInHand, Ended
  <2>5. QED
    BY <1>1, <2>2, <2>3, <2>4 DEF DataInv
<1>9. CASE HashDataFails
  BY <1>1, <1>9 DEF HashDataFails, DataInv, BlockInHand, Ended, taskVars, readVars
<1>10. CASE FinishHash
  <2>1. CASE LastHash
    BY <1>10, <2>1 DEF FinishHash, DataInv
  <2>2. CASE ~LastHash
    <3>1. /\ nHashes' = nHashes - 1 /\ iBlock' = iBlock + 1 /\ pc = "finish"
          /\ pc' = IF n = 0 THEN "end" ELSE "hash"
          /\ UNCHANGED <<file, nFragments, ByteOffset, Length, x, got, n, pb>>
      BY <1>10, <2>2 DEF FinishHash, taskVars, readVars
    <3>2. nHashes' > 0 /\ (pc' = "hash" => n' > 0)
      BY <1>0, <1>1, <2>2, <3>1 DEF LastHash
    <3>3. iBlock' = BlockInHand' /\ Ended' = Ended
      BY <1>0, <1>1, <3>1 DEF BlockInHand, Ended
    <3>4. QED
      BY <1>1, <3>1, <3>2, <3>3 DEF DataInv
  <2>3. QED
    BY <2>1, <2>2
<1>11. CASE EndOfData
  <2>1. /\ pc = "end" /\ pc' \in {"finish", "return"}
        /\ Length' = IF got < cbIo(file) THEN 0 ELSE Length
        /\ UNCHANGED <<file, nFragments, ByteOffset, x, nHashes, got, n, pb, iBlock>>
    BY <1>11 DEF EndOfData, bLastBlock, taskVars, dataVars
  <2>2. BlockInHand' = BlockInHand /\ Ended' = Ended
    BY <2>1 DEF BlockInHand, Ended
  <2>3. Length' = 0 => ByteOffset >= Ended
    BY <1>0, <1>1, <2>1
  <2>4. got < cbIo(file) => Length' = 0
    BY <2>1
  <2>5. QED
    BY <1>1, <2>1, <2>2, <2>3, <2>4 DEF DataInv
<1>12. CASE Return
  BY <1>12 DEF Return, DataInv
<1>13. QED
  BY <1>2, <1>3, <1>4, <1>5, <1>6, <1>7, <1>8, <1>9, <1>10, <1>11, <1>12 DEF Next

\* The hash in hand covers its block up to the position.
LEMMA HashNext ==
  ASSUME IInv, Next, TypeOK'
  PROVE  HashInv'
<1>0. /\ file \in Files /\ Fragments(file) \in Nat /\ nFragments \in 0 .. Fragments(file)
      /\ {ByteOffset, Length, x, dwBlock, nHashes, got, n, pb, iBlock} \subseteq Nat
      /\ file.eof \in Nat /\ file.cbBlock \in Nat \ {0} /\ file.sector \in Nat \ {0}
  BY FragmentsBegin, WholeBlocks DEF IInv, TypeOK
\* The parts of HashInv, by name.
<1> DEFINE Behind == file.hashMayFail /\ x < ByteOffset
           Dropped == file.hashMayFail /\ Length = 0
           Complete == /\ hash = BlockOf(file, BlockInHand)
                       /\ At(file, BlockInHand) < file.eof
                       /\ \/ dwBlock = 0 /\ x = At(file, BlockInHand + 1)
                          \/ /\ n = 0 /\ Length = 0
                             /\ x = file.eof /\ x <= At(file, BlockInHand + 1)
<1>1. /\ pc = "read" => ByteOffset >= file.eof \/ Behind \/ (InBlock /\ x >= ByteOffset)
      /\ pc = "arrived" => Behind \/ (InBlock /\ x >= ByteOffset)
      /\ pc = "hash" => InBlock \/ Dropped
      /\ pc = "finish" => Dropped \/ Complete
      /\ pc = "end" => \/ InBlock /\ n = 0
                       \/ Length = 0 /\ hash = NoHash
                       \/ file.hashMayFail /\ (n > 0 \/ Length = 0)
      /\ pc = "return" => \/ Length = 0 /\ hash = NoHash
                          \/ Length # 0 /\ ByteOffset >= file.eof
                          \/ Length # 0 /\ Behind
                          \/ Length # 0 /\ InBlock /\ x = ByteOffset
  BY DEF IInv, HashInv
<1>2. /\ pc \in {"hash", "finish", "end"} =>
           /\ got < cbIo(file) => Length = 0 \/ ByteOffset = file.eof
           /\ Length = 0 => ByteOffset >= Ended
           /\ pb = x /\ x + n = ByteOffset /\ ByteOffset <= file.eof
           /\ iBlock = BlockInHand /\ nHashes > 0
      /\ pc = "hash" => n > 0
  BY DEF IInv, DataInv
<1>3. Working =>
      /\ BlockInHand \in Nat /\ At(file, BlockInHand) \in Nat
      /\ At(file, BlockInHand + 1) = At(file, BlockInHand) + file.cbBlock
      /\ Begin(file, nFragments + 1) \in Nat
      /\ nHashes > 0 =>
           At(file, BlockInHand) + file.cbBlock <= Begin(file, nFragments + 1)
      /\ nHashes = 1 =>
           At(file, BlockInHand) + file.cbBlock = Begin(file, nFragments + 1)
  BY InHand DEF IInv, ReadInv
<1>4. CASE Start
  <2>1. PICK f \in Files, k \in Nat : f = file /\ k + 1 = nFragments
    <3>1. nFragments - 1 \in Nat /\ (nFragments - 1) + 1 = nFragments
      BY <1>0, <1>4 DEF Start
    <3>2. QED
      BY <1>0, <3>1
  <2>2. /\ nFragments' = k /\ file' = f /\ x' = Begin(f, k) /\ Begin(f, k) \in Nat
        /\ ByteOffset' \in Nat /\ ByteOffset' <= Begin(f, k)
        /\ nHashes' = Hashes(f) /\ Hashes(f) \in Nat \ {0}
        /\ First(f, k + 1) - nHashes' = First(f, k)
        /\ At(f, First(f, k)) = Begin(f, k)
    BY <1>4, <2>1, Starts DEF IInv
  <2>3. pc' = "read" /\ dwBlock' = f.cbBlock /\ hash' = NoHash
    BY <1>4, <2>1 DEF Start, IInv, ReadInv
  <2>4. BlockInHand' = First(f, k)
    BY <2>2 DEF BlockInHand
  <2>5. At(file', BlockInHand') = x'
    BY <2>2, <2>4
  <2>6. InBlock'
    BY <1>0, <2>1, <2>2, <2>3, <2>5 DEF InBlock
  <2>7. x' >= ByteOffset'
    BY <2>2
  <2>8. QED
    BY <2>3, <2>6, <2>7 DEF HashInv
<1>5. CASE Finish
  BY <1>5 DEF Finish, HashInv
<1>6. CASE Read
  <2>1. pc = "read" /\ pc' = "arrived" /\ ByteOffset < file.eof
    BY <1>0, <1>6 DEF Read, Refused
  <2>2. UNCHANGED <<file, nFragments, ByteOffset, Length, x, dwBlock, nHashes, hash>>
    BY <1>6 DEF Read, taskVars, readVars
  <2>3. Behind \/ (InBlock /\ x >= ByteOffset)
    BY <1>0, <1>1, <2>1
  <2>4. InBlock' = InBlock
    BY <2>2 DEF InBlock, BlockInHand
  <2>5. QED
    BY <2>1, <2>2, <2>3, <2>4 DEF HashInv
<1>7. CASE ReadRefused
  BY <1>7 DEF ReadRefused, Fail, HashInv
<1>8. CASE Arrive
  <2>0. CASE pc' # "hash"
    <3>1. pc = "arrived" /\ pc' \in {"debugbreak", "reuse"} /\ file' = file
      BY <1>8, <2>0 DEF Arrive, Fail, taskVars
    <3>2. pc' = "debugbreak" => x < ByteOffset
      BY <1>8, <2>0 DEF Arrive, Fail
    <3>3. pc' = "debugbreak" => file.hashMayFail
      BY <1>0, <1>1, <3>1, <3>2
    <3>4. QED
      BY <3>1, <3>3 DEF HashInv
  <2>1. CASE pc' = "hash"
    <3>1. /\ pc = "arrived" /\ ~(x < ByteOffset)
          /\ UNCHANGED <<file, nFragments, x, dwBlock, nHashes, hash>>
      BY <1>8, <2>1 DEF Arrive, Fail, taskVars
    <3>2. InBlock
      BY <1>0, <1>1, <3>1
    <3>3. InBlock' = InBlock
      BY <3>1 DEF InBlock, BlockInHand
    <3>4. QED
      BY <2>1, <3>2, <3>3 DEF HashInv
  <2>2. QED
    BY <2>0, <2>1
<1>9. CASE ArriveBad
  BY <1>9 DEF ArriveBad, Fail, HashInv
<1>10. CASE HashData
  <2> DEFINE c == SmallerOf(n, dwBlock)
  <2>1. c \in Nat /\ c <= n /\ c <= dwBlock /\ (c = n \/ c = dwBlock)
    BY <1>0 DEF SmallerOf
  <2>2. /\ hash' = IF hash = NoHash THEN <<pb, pb + c>> ELSE <<hash[1], pb + c>>
        /\ pb' = pb + c /\ x' = x + c /\ n' = n - c /\ dwBlock' = dwBlock - c
        /\ pc = "hash"
        /\ pc' = IF dwBlock = c THEN "finish" ELSE IF n = c THEN "end" ELSE "hash"
        /\ UNCHANGED <<file, nFragments, ByteOffset, Length, nHashes, got, iBlock>>
    BY <1>10 DEF HashData, taskVars, readVars
  <2> HIDE DEF c
  <2>3. BlockInHand' = BlockInHand
    BY <2>2 DEF BlockInHand
  <2>4. CASE Dropped
    BY <2>2, <2>4 DEF HashInv
  <2>5. CASE InBlock
    <3> DEFINE a == At(file, BlockInHand)
    <3>1. /\ nHashes > 0 /\ dwBlock > 0 /\ dwBlock <= file.cbBlock
          /\ x + dwBlock = a + file.cbBlock
          /\ hash = IF x = a THEN NoHash ELSE <<a, x>>
      BY <2>5 DEF InBlock
    <3>2. a \in Nat /\ At(file, BlockInHand + 1) = a + file.cbBlock
      BY <1>3, <2>2 DEF Working
    <3>3. a' = a
      BY <2>2, <2>3
    <3> HIDE DEF a
    <3>4. c > 0 /\ x' > a /\ x' \in Nat /\ x' <= file.eof
      BY <1>0, <1>2, <2>1, <2>2, <3>1, <3>2
    <3>5. hash' = <<a, x'>>
      <4>1. pb + c = x'
        BY <1>2, <2>2
      <4>2. CASE x = a
        BY <1>2, <2>2, <3>1, <4>1, <4>2
      <4>3. CASE x # a
        <5>1. hash = <<a, x>> /\ hash # NoHash
          BY <3>1, <4>3 DEF NoHash
        <5>2. QED
          BY <2>2, <4>1, <5>1
      <4>4. QED
        BY <4>2, <4>3
    <3>6. CASE dwBlock = c
      <4>1. pc' = "finish" /\ dwBlock' = 0 /\ x' = a + file.cbBlock
        BY <1>0, <2>1, <2>2, <3>1, <3>2, <3>6
      <4>2. x' = SmallerOf(a + file.cbBlock, file.eof)
        BY <1>0, <3>2, <3>4, <4>1 DEF SmallerOf
      <4>3. At(file', BlockInHand') = a /\ At(file', BlockInHand' + 1) = a + file.cbBlock
        BY <2>2, <2>3, <3>2 DEF a
      <4>4. hash' = BlockOf(file', BlockInHand')
        BY <2>2, <3>5, <4>2, <4>3 DEF BlockOf
      <4>5. a < file'.eof
        BY <1>0, <2>2, <3>2, <3>4
      <4>6. QED
        BY <4>1, <4>3, <4>4, <4>5 DEF HashInv
    <3>7. CASE dwBlock # c
      <4>1. dwBlock' > 0 /\ dwBlock' <= file.cbBlock /\ x' + dwBlock' = a + file.cbBlock
        BY <1>0, <2>1, <2>2, <3>1, <3>2, <3>7
      <4>2. hash' = IF x' = a THEN NoHash ELSE <<a, x'>>
        BY <3>2, <3>4, <3>5
      <4>3. InBlock'
        BY <2>2, <3>1, <3>3, <4>1, <4>2 DEF InBlock, a
      <4>4. pc' \in {"end", "hash"} /\ (pc' = "end" => n' = 0)
        BY <1>0, <2>1, <2>2, <3>7
      <4>5. QED
        BY <4>3, <4>4 DEF HashInv
    <3>8. QED
      BY <3>6, <3>7
  <2>6. QED
    BY <1>1, <2>2, <2>4, <2>5
<1>11. CASE HashDataFails
  <2>1. pc = "hash" /\ pc' = "end" /\ file.hashMayFail /\ n' = n /\ file' = file
    BY <1>11 DEF HashDataFails, taskVars
  <2>2. QED
    BY <1>2, <2>1 DEF HashInv
<1>12. CASE FinishHash
  <2>1. /\ nHashes' = nHashes - 1 /\ pc = "finish" /\ hash' = NoHash
        /\ UNCHANGED <<file, nFragments, ByteOffset, Length, x, got, n, pb>>
    BY <1>12 DEF FinishHash, taskVars, readVars
  <2>2. CASE LastHash
    <3>1. pc' = "return" /\ nHashes = 1
      BY <1>12, <2>2 DEF FinishHash, LastHash
    <3>2. CASE Length = 0
      BY <2>1, <3>1, <3>2 DEF HashInv
    <3>3. CASE Length # 0
      <4>1. x = Begin(file, nFragments + 1)
        BY <1>1, <1>3, <2>1, <3>1, <3>3 DEF Working
      <4>2. x <= ByteOffset /\ ByteOffset <= file.eof
        BY <1>0, <1>2, <2>1
      <4>3. Ended = x
        BY <1>0, <4>1, <4>2 DEF Ended, EndOf, SmallerOf
      <4>4. /\ ByteOffset + Length = roundUp(Ended, file.sector)
            /\ ByteOffset % file.sector = 0 \/ ByteOffset >= file.eof
        BY <2>1, <3>3 DEF IInv, ReadInv, Working
      <4>5. ByteOffset % file.sector = 0 => roundUp(Ended, file.sector) <= ByteOffset
        BY <1>0, <4>2, <4>3, Rounding
      <4>6. ByteOffset >= file.eof
        BY <1>0, <3>3, <4>4, <4>5
      <4>7. QED
        BY <2>1, <3>1, <3>3, <4>6 DEF HashInv
    <3>4. QED
      BY <3>2, <3>3
  <2>3. CASE ~LastHash
    <3>1. /\ pc' = (IF n = 0 THEN "end" ELSE "hash") /\ dwBlock' = file.cbBlock
          /\ nHashes' > 0
      BY <1>0, <1>2, <1>12, <2>1, <2>3 DEF FinishHash, LastHash
    <3>2. CASE Length = 0 /\ (n = 0 \/ file.hashMayFail)
      BY <2>1, <3>1, <3>2 DEF HashInv
    <3>3. CASE dwBlock = 0 /\ x = At(file, BlockInHand + 1)
      <4>1. BlockInHand' = BlockInHand + 1
        <5>1. First(file, nFragments + 1) \in Int
          BY <1>3, <2>1, InHand DEF IInv, ReadInv, Working
        <5>2. QED
          BY <1>0, <2>1, <5>1 DEF BlockInHand
      <4>2. At(file', BlockInHand') = x'
        BY <2>1, <3>3, <4>1
      <4>3. InBlock'
        BY <1>0, <2>1, <3>1, <4>2 DEF InBlock
      <4>4. pc' = "end" => n' = 0
        BY <2>1, <3>1
      <4>5. QED
        BY <3>1, <4>3, <4>4 DEF HashInv
    <3>4. QED
      BY <1>1, <2>1, <3>2, <3>3
  <2>4. QED
    BY <2>2, <2>3
<1>13. CASE EndOfData
  <2>1. /\ pc = "end" /\ Length' = (IF got < cbIo(file) THEN 0 ELSE Length)
        /\ pc' = IF Length' = 0 /\ hash # NoHash THEN "finish" ELSE "return"
        /\ UNCHANGED <<file, nFragments, ByteOffset, x, dwBlock, nHashes, got, n, pb,
                       iBlock, hash>>
    BY <1>13 DEF EndOfData, bLastBlock, taskVars, dataVars
  <2>2. BlockInHand' = BlockInHand /\ InBlock' = InBlock
    BY <2>1 DEF InBlock, BlockInHand
  <2>3. CASE InBlock /\ n = 0
    <3> DEFINE a == At(file, BlockInHand)
    <3>1. /\ nHashes > 0 /\ dwBlock > 0 /\ dwBlock <= file.cbBlock
          /\ x + dwBlock = a + file.cbBlock
          /\ hash = IF x = a THEN NoHash ELSE <<a, x>>
      BY <2>3 DEF InBlock
    <3>2. /\ a \in Nat /\ At(file, BlockInHand + 1) = a + file.cbBlock
          /\ Begin(file, nFragments + 1) \in Nat
          /\ a + file.cbBlock <= Begin(file, nFragments + 1)
      BY <1>3, <2>1, <3>1 DEF Working
    <3>3. x = ByteOffset
      BY <1>0, <1>2, <2>1, <2>3
    <3>4. CASE pc' = "finish"
      <4>1. Length' = 0 /\ hash # NoHash /\ hash = <<a, x>> /\ x # a
        BY <2>1, <3>1, <3>4
      <4>2. ByteOffset >= Ended \/ ByteOffset = file.eof
        BY <1>2, <2>1, <4>1
      <4>3. x = file.eof
        <5>1. x <= file.eof
          BY <1>2, <2>1, <3>3
        <5>2. ~(x < file.eof)
          <6>1. SUFFICES ASSUME x < file.eof PROVE FALSE
            OBVIOUS
          <6>2. x >= EndOf(file, nFragments)
            BY <1>0, <3>3, <4>2, <6>1 DEF Ended
          <6>3. x < Begin(file, nFragments + 1)
            BY <1>0, <3>1, <3>2
          <6>4. QED
            BY <1>0, <3>2, <6>1, <6>2, <6>3 DEF EndOf, SmallerOf
        <5>3. QED
          BY <1>0, <5>1, <5>2
      <4>4. a < file.eof /\ file.eof < a + file.cbBlock
        BY <1>0, <3>1, <3>2, <4>1, <4>3
      <4>5. hash = BlockOf(file, BlockInHand)
        BY <1>0, <3>2, <4>1, <4>3, <4>4 DEF BlockOf, SmallerOf
      <4>6. n' = 0 /\ x' = file'.eof /\ x' <= At(file', BlockInHand' + 1)
        BY <1>0, <2>1, <2>2, <2>3, <3>2, <4>3, <4>4
      <4>7. QED
        BY <2>1, <2>2, <3>4, <4>1, <4>4, <4>5, <4>6 DEF HashInv
    <3>5. CASE pc' = "return"
      <4>1. Length' = 0 => hash' = NoHash
        BY <2>1, <3>5
      <4>2. InBlock' /\ x' = ByteOffset'
        BY <2>1, <2>2, <2>3, <3>3
      <4>3. QED
        BY <3>5, <4>1, <4>2 DEF HashInv
    <3>6. QED
      BY <2>1, <3>4, <3>5
  <2>4. CASE Length = 0 /\ hash = NoHash
    BY <2>1, <2>4 DEF HashInv
  <2>5. CASE file.hashMayFail /\ (n > 0 \/ Length = 0)
    <3>1. n > 0 => x < ByteOffset
      BY <1>0, <1>2, <2>1
    <3>2. QED
      BY <1>0, <2>1, <2>5, <3>1 DEF HashInv
  <2>6. QED
    BY <1>1, <2>1, <2>3, <2>4, <2>5
<1>14. CASE Return
  <2>1. pc = "return" /\ pc' = IF Length # 0 THEN "read" ELSE "reuse"
    BY <1>14 DEF Return
  <2>2. UNCHANGED <<file, nFragments, ByteOffset, Length, x, dwBlock, nHashes, hash>>
    BY <1>14 DEF Return, readVars, dataVars
  <2>3. InBlock' = InBlock
    BY <2>2 DEF InBlock, BlockInHand
  <2>4. Length # 0 => ByteOffset >= file.eof \/ Behind \/ (InBlock /\ x >= ByteOffset)
    BY <1>0, <1>1, <2>1
  <2>5. QED
    BY <2>1, <2>2, <2>3, <2>4 DEF HashInv
<1>15. QED
  BY <1>4, <1>5, <1>6, <1>7, <1>8, <1>9, <1>10, <1>11, <1>12, <1>13, <1>14 DEF Next

\* Digests are stored behind the block in hand only, each that of its block.
LEMMA DigestNext ==
  ASSUME IInv, Next, TypeOK'
  PROVE  DigestInv'
<1>0. /\ file \in Files /\ Fragments(file) \in Nat /\ nFragments \in 0 .. Fragments(file)
      /\ {ByteOffset, Length, x, dwBlock, nHashes, got, n, pb, iBlock} \subseteq Nat
      /\ DOMAIN digests = 0 .. Blocks(file) - 1 /\ Blocks(file) \in Nat
  BY FragmentsBegin, BlocksBegin DEF IInv, TypeOK, ReadInv
<1>1. \A i \in DOMAIN digests :
        /\ digests[i] # NoHash =>
             /\ First(file, nFragments) <= i
             /\ Working => i < BlockInHand \/ First(file, nFragments + 1) <= i
        /\ ~file.hashMayFail => digests[i] \in {NoHash, BlockOf(file, i)}
  BY DEF IInv, DigestInv
\* Most steps complete no hash and stay with the fragment.
<1>2. ASSUME UNCHANGED <<file, nFragments, nHashes, digests>>, Working' => Working
      PROVE  DigestInv'
  BY <1>1, <1>2 DEF DigestInv, BlockInHand
<1>3. CASE Start
  <2>1. PICK f \in Files, k \in Nat : f = file /\ k + 1 = nFragments
    <3>1. nFragments - 1 \in Nat /\ (nFragments - 1) + 1 = nFragments
      BY <1>0, <1>3 DEF Start
    <3>2. QED
      BY <1>0, <3>1
  <2>2. nFragments' = k /\ file' = f /\ First(f, k + 1) - nHashes' = First(f, k)
    BY <1>3, <2>1, Starts DEF IInv
  <2>3. digests' = digests
    BY <1>3 DEF Start
  <2>4. First(f, k) \in Nat /\ First(f, k) <= First(f, k + 1) /\ First(f, k + 1) \in Nat
    BY FirstBlocks
  <2>5. ASSUME NEW i \in DOMAIN digests, digests[i] # NoHash
        PROVE  First(f, k) <= i /\ First(f, k + 1) <= i
    <3>1. First(f, k + 1) <= i
      BY <1>1, <2>1, <2>5
    <3>2. i \in Nat
      BY <1>0, <2>5
    <3>3. QED
      BY <2>4, <3>1, <3>2
  <2>6. QED
    BY <1>1, <2>1, <2>2, <2>3, <2>5 DEF DigestInv
<1>4. CASE Finish
  BY <1>2, <1>4 DEF Finish, Working, taskVars, readVars, dataVars
<1>5. CASE Read
  BY <1>2, <1>5 DEF Read, Working, taskVars, readVars
<1>6. CASE ReadRefused
  BY <1>2, <1>6 DEF ReadRefused, Fail, Working, taskVars, readVars
<1>7. CASE Arrive
  BY <1>2, <1>7 DEF Arrive, Working, taskVars
<1>8. CASE ArriveBad
  BY <1>2, <1>8 DEF ArriveBad, Fail, Working, taskVars, readVars
<1>9. CASE HashData
  BY <1>2, <1>9 DEF HashData, Working, taskVars, readVars
<1>10. CASE HashDataFails
  BY <1>2, <1>10 DEF HashDataFails, Working, taskVars, readVars
<1>11. CASE FinishHash
  <2>1. /\ pc = "finish" /\ digests' = [digests EXCEPT ![iBlock] = hash]
        /\ nHashes' = nHashes - 1 /\ UNCHANGED <<file, nFragments>>
    BY <1>11 DEF FinishHash, taskVars
  <2>2. iBlock = BlockInHand /\ nHashes > 0
    BY <2>1 DEF IInv, DataInv
  <2>3. /\ BlockInHand \in Nat /\ First(file, nFragments) <= BlockInHand
        /\ First(file, nFragments) \in Nat /\ First(file, nFragments + 1) \in Nat
    BY <2>1, InHand DEF IInv, ReadInv, Working
  <2>4. BlockInHand' = BlockInHand + 1
    <3>1. nHashes \in Nat
      BY <1>0
    <3>2. BlockInHand' = First(file, nFragments + 1) - (nHashes - 1)
      BY <2>1 DEF BlockInHand
    <3>3. QED
      BY <2>3, <3>1, <3>2 DEF BlockInHand
  <2>5. ~file.hashMayFail => hash = BlockOf(file, BlockInHand)
    BY <2>1 DEF IInv, HashInv
  <2>6. DOMAIN digests' = DOMAIN digests
    BY <2>1
  <2>7. ASSUME NEW i \in DOMAIN digests
        PROVE  /\ digests'[i] # NoHash =>
                    /\ First(file, nFragments) <= i
                    /\ i < BlockInHand' \/ First(file, nFragments + 1) <= i
               /\ ~file.hashMayFail => digests'[i] \in {NoHash, BlockOf(file, i)}
    <3>1. i \in Nat
      BY <1>0
    <3>2. CASE i = iBlock
      <4>1. digests'[i] = hash
        BY <2>1, <3>2
      <4>2. First(file, nFragments) <= i /\ i < BlockInHand'
        BY <2>2, <2>3, <2>4, <3>2
      <4>3. QED
        BY <2>2, <2>5, <3>2, <4>1, <4>2
    <3>3. CASE i # iBlock
      <4>1. digests'[i] = digests[i]
        BY <2>1, <3>3
      <4>2. digests[i] # NoHash => /\ First(file, nFragments) <= i
                                   /\ i < BlockInHand \/ First(file, nFragments + 1) <= i
        BY <1>1, <2>1 DEF Working
      <4>3. i < BlockInHand => i < BlockInHand'
        BY <2>3, <2>4, <3>1
      <4>4. QED
        BY <1>1, <4>1, <4>2, <4>3
    <3>4. QED
      BY <3>2, <3>3
  <2>8. QED
    BY <2>1, <2>6, <2>7 DEF DigestInv
<1>12. CASE EndOfData
  BY <1>2, <1>12 DEF EndOfData, Working, taskVars, dataVars
<1>13. CASE Return
  BY <1>2, <1>13 DEF Return, Working, readVars, dataVars
<1>14. QED
  BY <1>3, <1>4, <1>5, <1>6, <1>7, <1>8, <1>9, <1>10, <1>11, <1>12, <1>13 DEF Next

\* The count of bytes left covers what is still to be read.
LEMMA BytesNext ==
  ASSUME IInv, Next, TypeOK'
  PROVE  BytesInv'
<1>0. /\ file \in Files /\ Fragments(file) \in Nat /\ nFragments \in 0 .. Fragments(file)
      /\ {ByteOffset, Length, x, dwBlock, nHashes, got, n, pb, iBlock, bytes} \subseteq Nat
      /\ file.eof \in Nat
  BY FragmentsBegin, WholeBlocks DEF IInv, TypeOK
<1>1. /\ pc = "reuse" => bytes >= Rest(file, nFragments)
      /\ pc \in {"read", "arrived"} => bytes >= Rest(file, nFragments) + ToRead
      /\ pc \in {"hash", "finish", "end", "return"} =>
           bytes >= Rest(file, nFragments) + ToRead + got
  BY DEF IInv, BytesInv
<1>2. Working => nFragments < Fragments(file) /\ Rest(file, nFragments) \in Nat
  BY <1>0, Rests DEF IInv, ReadInv
<1>3. ToRead \in Nat
  BY <1>0 DEF ToRead, SmallerOf
\* Most steps count and read nothing.
<1>4. ASSUME UNCHANGED <<file, nFragments, bytes, ByteOffset, Length, got>>,
             \/ pc \in {"read", "arrived"} /\ pc' \in {"read", "arrived", "reuse"}
             \/ /\ pc \in {"hash", "finish", "end", "return"}
                /\ pc' \in {"hash", "finish", "end", "return"}
      PROVE  BytesInv'
  <2>1. ToRead' = ToRead
    BY <1>4 DEF ToRead
  <2>2. Working
    BY <1>4 DEF Working
  <2>3. bytes >= Rest(file, nFragments) + ToRead => bytes >= Rest(file, nFragments)
    BY <1>0, <1>2, <1>3, <2>2
  <2>4. QED
    BY <1>1, <1>4, <2>1, <2>3 DEF BytesInv
<1>5. CASE Start
  <2>1. PICK f \in Files, k \in Nat : f = file /\ k + 1 = nFragments
    <3>1. nFragments - 1 \in Nat /\ (nFragments - 1) + 1 = nFragments
      BY <1>0, <1>5 DEF Start
    <3>2. QED
      BY <1>0, <3>1
  <2>2. /\ nFragments' = k /\ k < Fragments(f) /\ file' = f
        /\ Begin(f, k) < f.eof /\ Begin(f, k) \in Nat
        /\ ByteOffset' = roundDown(Begin(f, k), f.sector)
        /\ Length' = roundUp(EndOf(f, k), f.sector) - ByteOffset'
        /\ EndOf(f, k) \in Nat
        /\ ByteOffset' \in Nat /\ ByteOffset' <= Begin(f, k)
    BY <1>5, <2>1, Starts DEF IInv
  <2>3. roundUp(EndOf(f, k), f.sector) \in Nat
    BY <2>2, WholeBlocks, Rounding
  <2>4. /\ Rest(f, k) \in Nat /\ Rest(f, k + 1) \in Nat
        /\ Rest(f, k + 1) >= Rest(f, k)
             + SmallerOf(roundUp(EndOf(f, k), f.sector), f.eof) - ByteOffset'
    BY <2>2, Rests
  <2>5. ToRead' = SmallerOf(roundUp(EndOf(f, k), f.sector), f.eof) - ByteOffset'
    BY <1>0, <2>1, <2>2, <2>3 DEF ToRead, SmallerOf
  <2>6. SmallerOf(roundUp(EndOf(f, k), f.sector), f.eof) \in Nat
    BY <1>0, <2>1, <2>3 DEF SmallerOf
  <2>7. bytes' >= Rest(f, k + 1) /\ pc' = "read"
    BY <1>1, <1>5, <2>1 DEF Start
  <2>8. bytes' >= Rest(f, k) + ToRead'
    BY <1>0, <1>5, <2>2, <2>4, <2>5, <2>6, <2>7 DEF Start
  <2>9. QED
    BY <2>2, <2>7, <2>8 DEF BytesInv
<1>6. CASE Finish
  BY <1>6 DEF Finish, BytesInv
<1>7. CASE Read
  <2>1. /\ pc = "read"
        /\ pc' = "arrived"
        /\ UNCHANGED <<file, nFragments, bytes, ByteOffset, Length>>
    BY <1>7 DEF Read, taskVars, readVars
  <2>2. ToRead' = ToRead
    BY <2>1 DEF ToRead
  <2>3. QED
    BY <1>1, <2>1, <2>2 DEF BytesInv
<1>8. CASE ReadRefused
  BY <1>4, <1>8 DEF ReadRefused, Fail, taskVars, readVars
<1>9. CASE Arrive
  <2>1. /\ got > 0 /\ got <= Length
        /\ ByteOffset < file.eof /\ ByteOffset + got <= file.eof
    BY <1>9, Delivered DEF Arrive, IInv
  <2>2. /\ pc = "arrived" /\ pc' \in {"debugbreak", "reuse", "hash"}
        /\ ByteOffset' = ByteOffset + got /\ Length' = Length - got
        /\ UNCHANGED <<file, nFragments, bytes, got>>
    BY <1>9 DEF Arrive, Fail, taskVars
  <2>3. ToRead' + got = ToRead
    BY <1>0, <2>1, <2>2 DEF ToRead, SmallerOf
  <2>4. ToRead' \in Nat
    BY <1>0, <2>1, <2>2 DEF ToRead, SmallerOf
  <2>5. bytes >= Rest(file, nFragments) + ToRead /\ Rest(file, nFragments) \in Nat
    BY <1>1, <1>2, <2>2 DEF Working
  <2>6. /\ bytes' >= Rest(file', nFragments') + ToRead' + got'
        /\ bytes' >= Rest(file', nFragments')
    BY <1>0, <2>2, <2>3, <2>4, <2>5
  <2>7. QED
    BY <2>2, <2>6 DEF BytesInv
<1>10. CASE ArriveBad
  BY <1>4, <1>10 DEF ArriveBad, Fail, taskVars, readVars
<1>11. CASE HashData
  BY <1>4, <1>11 DEF HashData, taskVars, readVars
<1>12. CASE HashDataFails
  BY <1>4, <1>12 DEF HashDataFails, taskVars, readVars
<1>13. CASE FinishHash
  BY <1>4, <1>13 DEF FinishHash, taskVars, readVars
<1>14. CASE EndOfData
  <2>1. /\ pc = "end" /\ pc' \in {"finish", "return"} /\ Length' \in {0, Length}
        /\ UNCHANGED <<file, nFragments, bytes, ByteOffset, got>>
    BY <1>14 DEF EndOfData, taskVars, dataVars
  <2>2. ToRead' \in Nat /\ ToRead' <= ToRead
    BY <1>0, <2>1 DEF ToRead, SmallerOf
  <2>3. bytes >= Rest(file, nFragments) + ToRead + got /\ Rest(file, nFragments) \in Nat
    BY <1>1, <1>2, <2>1 DEF Working
  <2>4. bytes' >= Rest(file', nFragments') + ToRead' + got'
    BY <1>0, <1>3, <2>1, <2>2, <2>3
  <2>5. QED
    BY <2>1, <2>4 DEF BytesInv
<1>15. CASE Return
  <2>1. /\ pc = "return" /\ pc' = (IF Length # 0 THEN "read" ELSE "reuse")
        /\ bytes' = bytes - got
        /\ UNCHANGED <<file, nFragments, ByteOffset, Length>>
    BY <1>15 DEF Return, readVars
  <2>2. bytes >= Rest(file, nFragments) + ToRead + got /\ Rest(file, nFragments) \in Nat
    BY <1>1, <1>2, <2>1 DEF Working
  <2>3. ToRead' = ToRead
    BY <2>1 DEF ToRead
  <2>4. bytes' >= Rest(file, nFragments) + ToRead /\ bytes' >= Rest(file, nFragments)
    BY <1>0, <1>3, <2>1, <2>2
  <2>5. QED
    BY <2>1, <2>3, <2>4 DEF BytesInv
<1>16. QED
  BY <1>5, <1>6, <1>7, <1>8, <1>9, <1>10, <1>11, <1>12, <1>13, <1>14, <1>15 DEF Next

\* The invariant holds when the task has been created.
LEMMA InvInit ==
  ASSUME Init
  PROVE  IInv
<1>1. /\ file \in Files /\ Fragments(file) \in Nat \ {0} /\ Blocks(file) \in Nat
      /\ file.eof \in Nat
  BY FragmentsBegin, BlocksBegin, WholeBlocks DEF Init
<1>2. PICK k \in Nat : k + 1 = Fragments(file)
  <2>1. Fragments(file) - 1 \in Nat /\ (Fragments(file) - 1) + 1 = Fragments(file)
    BY <1>1
  <2>2. QED
    BY <2>1
<1>3. k < Fragments(file)
  BY <1>1, <1>2
<1>4. Rest(file, nFragments) = bytes /\ bytes \in Nat
  <2>1. nFragments = Fragments(file) /\ bytes = BytesToProcess(file)
    BY DEF Init
  <2>2. QED
    BY <1>1, <1>3, <2>1, Rests
<1>5. TypeOK
  BY <1>1, <1>4 DEF Init, TypeOK
<1>6. ReadInv /\ DataInv /\ HashInv
  BY DEF Init, ReadInv, DataInv, HashInv, Working
<1>7. DigestInv
  BY DEF Init, DigestInv
<1>8. BytesInv
  <2>1. bytes >= Rest(file, nFragments)
    BY <1>4
  <2>2. QED
    BY <2>1 DEF Init, BytesInv
<1>9. QED
  BY <1>5, <1>6, <1>7, <1>8 DEF IInv

\* Every step keeps it.
LEMMA InvNext ==
  ASSUME IInv, [Next]_vars
  PROVE  IInv'
<1>1. CASE Next
  <2>1. TypeOK'
    BY <1>1, TypeNext
  <2>2. QED
    BY <1>1, <2>1, ReadNext, DataNext, HashNext, DigestNext, BytesNext DEF IInv
<1>2. CASE UNCHANGED vars
  <2> USE <1>2 DEF vars, taskVars, readVars, dataVars
  <2>1. UNCHANGED <<file, nFragments, bytes, ByteOffset, Length, x, dwBlock, nHashes,
                    got, n, pb, hash, iBlock, digests, status, pc>>
    OBVIOUS
  <2>2. TypeOK'
    BY <2>1 DEF IInv, TypeOK
  <2>3. ReadInv'
    BY <2>1 DEF IInv, ReadInv, Working, Ended
  <2>4. DataInv'
    BY <2>1 DEF IInv, DataInv, BlockInHand, Ended, Refused, Wanted
  <2>5. HashInv'
    BY <2>1 DEF IInv, HashInv, InBlock, BlockInHand
  <2>6. DigestInv'
    BY <2>1 DEF IInv, DigestInv, BlockInHand, Working
  <2>7. BytesInv'
    BY <2>1 DEF IInv, BytesInv, ToRead
  <2>8. QED
    BY <2>2, <2>3, <2>4, <2>5, <2>6, <2>7 DEF IInv
<1>3. QED
  BY <1>1, <1>2

\* For files, blocks, sectors and reads of any size, the reads and the hashing of a
\* fragment keep the invariant above.
THEOREM FragmentInvariant == SafeSpec => []IInv
<1>1. Init => IInv
  BY InvInit
<1>2. IInv /\ [Next]_vars => IInv'
  BY InvNext
<1>3. QED
  BY <1>1, <1>2, PTL DEF SafeSpec

\* Unless BCryptHashData fails, every hash ProcessData completes is that of exactly
\* its block, for files, blocks, sectors and reads of any size.
THEOREM FragmentDigestsExact == SafeSpec => []DigestsExact
<1>1. IInv => DigestsExact
  BY DEF IInv, DigestInv, DigestsExact, Block, BlockOf, At
<1>2. QED
  BY <1>1, FragmentInvariant, PTL

\* The counters of CFragment never go below zero, and the buffer pointer, the
\* position, the bytes left in the block and the block number agree whenever
\* ProcessData hashes, for any sizes; its assertion holds unless BCryptHashData fails.
THEOREM FragmentPositionsAgree == SafeSpec => []PositionsAgree
<1>1. ASSUME IInv, ~file.hashMayFail
      PROVE  /\ pc # "debugbreak"
             /\ pc = "hash" => /\ pb = x
                               /\ iBlock \in DOMAIN digests
                               /\ x + dwBlock = (iBlock + 1) * file.cbBlock
                               /\ x < file.eof
                               /\ nHashes > 0
                               /\ hash # NoHash => hash = <<iBlock * file.cbBlock, x>>
  <2>1. /\ file \in Files /\ nFragments \in Nat
        /\ {ByteOffset, x, dwBlock, nHashes, n} \subseteq Nat
        /\ file.eof \in Nat /\ file.cbBlock \in Nat
    BY <1>1, FragmentsBegin, WholeBlocks DEF IInv, TypeOK
  <2>2. pc # "debugbreak"
    BY <1>1 DEF IInv, HashInv
  <2>3. ASSUME pc = "hash"
        PROVE  /\ pb = x /\ iBlock \in DOMAIN digests
               /\ x + dwBlock = (iBlock + 1) * file.cbBlock
               /\ x < file.eof /\ nHashes > 0
               /\ hash # NoHash => hash = <<iBlock * file.cbBlock, x>>
    <3>1. /\ pb = x /\ x + n = ByteOffset /\ ByteOffset <= file.eof
          /\ iBlock = BlockInHand /\ n > 0
      BY <1>1, <2>3 DEF IInv, DataInv
    <3>2. /\ nHashes > 0 /\ dwBlock > 0 /\ dwBlock <= file.cbBlock
          /\ x + dwBlock = At(file, BlockInHand) + file.cbBlock
          /\ hash = IF x = At(file, BlockInHand) THEN NoHash
                                                 ELSE <<At(file, BlockInHand), x>>
      BY <1>1, <2>3 DEF IInv, HashInv, InBlock
    <3>3. /\ BlockInHand \in Nat /\ At(file, BlockInHand) \in Nat
          /\ At(file, BlockInHand + 1) = At(file, BlockInHand) + file.cbBlock
      BY <1>1, <2>3, InHand DEF IInv, ReadInv, Working
    <3>4. x < file.eof
      BY <2>1, <3>1
    <3>5. BlockInHand < Blocks(file) /\ Blocks(file) \in Nat
      BY <2>1, <3>2, <3>3, <3>4, BlocksBegin
    <3>6. iBlock \in DOMAIN digests
      BY <1>1, <3>1, <3>3, <3>5 DEF IInv, ReadInv
    <3>7. /\ At(file, iBlock + 1) = (iBlock + 1) * file.cbBlock
          /\ At(file, iBlock) = iBlock * file.cbBlock
      BY DEF At
    <3>8. x + dwBlock = (iBlock + 1) * file.cbBlock
      BY <3>1, <3>2, <3>3, <3>7
    <3>9. hash # NoHash => hash = <<iBlock * file.cbBlock, x>>
      BY <3>1, <3>2, <3>7
    <3>10. QED
      BY <3>1, <3>2, <3>4, <3>6, <3>8, <3>9
  <2>4. QED
    BY <2>2, <2>3
<1>2. IInv => PositionsAgree
  BY <1>1 DEF IInv, PositionsAgree
<1>3. QED
  BY <1>2, FragmentInvariant, PTL

\* No hash is completed twice, even if BCryptHashData fails, for any sizes.
THEOREM FragmentHashedOnce == SafeSpec => HashedOnce
<1>1. ASSUME IInv, [Next]_vars
      PROVE  [\A i \in DOMAIN digests :
                digests[i] # NoHash => digests'[i] = digests[i]]_vars
  <2>1. CASE UNCHANGED vars
    BY <2>1
  <2>2. CASE Next
    <3>1. CASE FinishHash
      <4>1. pc = "finish" /\ digests' = [digests EXCEPT ![iBlock] = hash]
        BY <3>1 DEF FinishHash
      <4>2. iBlock = BlockInHand /\ nHashes > 0
        BY <1>1, <4>1 DEF IInv, DataInv
      <4>3. /\ BlockInHand \in Nat /\ nHashes \in Nat
            /\ BlockInHand + nHashes = First(file, nFragments + 1)
        BY <1>1, <4>1, InHand DEF IInv, ReadInv, Working, TypeOK
      <4>4. digests[iBlock] = NoHash \/ iBlock \notin DOMAIN digests
        BY <1>1, <4>1, <4>2, <4>3 DEF IInv, DigestInv, Working
      <4>5. QED
        BY <4>1, <4>4
    <3>2. CASE ~FinishHash
      <4>1. UNCHANGED digests
        BY <2>2, <3>2
           DEF Next, Start, Finish, Read, ReadRefused, Arrive, ArriveBad, HashData,
           HashDataFails, EndOfData, Return, taskVars, readVars, dataVars
      <4>2. QED
        BY <4>1
    <3>3. QED
      BY <3>1, <3>2
  <2>3. QED
    BY <1>1, <2>1, <2>2
<1>2. QED
  BY <1>1, FragmentInvariant, PTL DEF SafeSpec, HashedOnce

-----------------------------------------------------------------------------
(***************************************************************************)
(* Files whose fragments begin at sectors, when BCryptHashData does not    *)
(* fail: the second invariant.                                             *)
(***************************************************************************)
Whole == Aligned(file) /\ ~file.hashMayFail

\* Reads follow one another from the beginning of the fragment to its end, none
\* fails, and the count of bytes left is that of the bytes in front of the fragment
\* and of those of the fragment not yet read or not yet counted.
AlignInv ==
  /\ status = "success"
  /\ pc = "reuse" => bytes = SmallerOf(Begin(file, nFragments), file.eof)
  /\ pc = "done" => bytes = 0
  /\ Working => /\ Begin(file, nFragments) <= ByteOffset /\ ByteOffset <= Ended
  /\ pc \in {"read", "arrived"} =>
       /\ x = ByteOffset /\ ByteOffset < Ended
       /\ (ByteOffset - Begin(file, nFragments)) % cbIo(file) = 0
       /\ bytes = Begin(file, nFragments) + (Ended - ByteOffset)
  /\ pc \in {"hash", "finish", "end", "return"} =>
       /\ bytes = Begin(file, nFragments) + (Ended - ByteOffset) + got
       /\ got <= cbIo(file)
       /\ got = cbIo(file) => (ByteOffset - Begin(file, nFragments)) % cbIo(file) = 0
  /\ pc = "return" => /\ Length = 0 => ByteOffset = Ended
                      /\ Length # 0 => got = cbIo(file)

\* Every block behind the one in hand, and every block of a fragment with nothing
\* left to read, has its digest.
HashedInv ==
  /\ \A i \in DOMAIN digests :
       /\ First(file, nFragments) <= i
       /\ Working => i < BlockInHand \/ First(file, nFragments + 1) <= i
       => digests[i] # NoHash
  /\ pc = "end" /\ Length = 0 /\ hash = NoHash => Ended <= At(file, BlockInHand)
  /\ pc = "return" /\ Length = 0 =>
       \A i \in DOMAIN digests : First(file, nFragments) <= i => digests[i] # NoHash
  /\ pc = "done" => nFragments = 0

WholeInv == Whole => AlignInv /\ HashedInv

\* Multiples of a multiple are multiples.
LEMMA MultiplesOfMultiples ==
  ASSUME NEW m \in Nat \ {0}, NEW c \in Nat \ {0}, c % m = 0
  PROVE  /\ \A j \in Nat : (j * c) % m = 0
         /\ \A z \in Nat : z % c = 0 => z % m = 0
<1>1. ASSUME NEW j \in Nat PROVE (j * c) % m = 0
  <2>1. PICK i \in Nat : c = i * m
    BY Remainders, Division
  <2>2. PICK w \in Nat : w = j * c
    OBVIOUS
  <2>3. PICK e \in Nat : e = j * i
    BY <2>1
  <2>4. w = e * m
    BY <2>1, <2>2, <2>3
  <2>5. w % m = 0
    BY <2>4, Remainders
  <2>6. QED
    BY <2>2, <2>5
<1>2. ASSUME NEW z \in Nat, z % c = 0 PROVE z % m = 0
  <2>1. z \div c \in Nat /\ z = (z \div c) * c
    BY <1>2, Remainders, Division
  <2>2. PICK j \in Nat : z = j * c
    BY <2>1
  <2>3. QED
    BY <1>1, <2>2
<1>3. QED
  BY <1>1, <1>2

\* Where an aligned fragment and its reads begin and end.
LEMMA AlignedFragment ==
  ASSUME NEW f \in Files, Aligned(f), NEW k \in Nat, k < Fragments(f)
  PROVE  /\ f.eof \in Nat /\ Begin(f, k) \in Nat /\ Begin(f, k + 1) \in Nat
         /\ EndOf(f, k) \in Nat /\ Begin(f, k) < EndOf(f, k) /\ EndOf(f, k) <= f.eof
         /\ Begin(f, k) % f.sector = 0
         /\ EndOf(f, k) = SmallerOf(Begin(f, k + 1), f.eof)
         /\ roundUp(EndOf(f, k), f.sector) \in Nat
         /\ EndOf(f, k) <= roundUp(EndOf(f, k), f.sector)
         /\ EndOf(f, k) < f.eof => roundUp(EndOf(f, k), f.sector) = EndOf(f, k)
         /\ Begin(f, k + 1) <= f.eof =>
              /\ EndOf(f, k) = Begin(f, k + 1)
              /\ roundUp(EndOf(f, k), f.sector) = EndOf(f, k)
         /\ \A z \in Nat : z % f.sector = 0 /\ EndOf(f, k) <= z =>
              roundUp(EndOf(f, k), f.sector) <= z
         /\ \A z \in Nat : Begin(f, k) <= z /\ (z - Begin(f, k)) % cbIo(f) = 0 =>
              z % f.sector = 0
<1> DEFINE s == f.sector  c == cbFragment(f)  b == Begin(f, k)  d == Begin(f, k + 1)
           e == EndOf(f, k)
<1>1. /\ s \in Nat \ {0}
      /\ c \in Nat \ {0}
      /\ f.eof \in Nat \ {0}
      /\ c % s = 0
      /\ k + 1 \in Nat
  BY WholeBlocks DEF Aligned
<1>2. b \in Nat /\ d = b + c /\ b < f.eof
  BY FragmentsBegin
<1>3. b % s = 0 /\ d % s = 0
  BY <1>1, MultiplesOfMultiples DEF Begin
<1>4. e \in Nat /\ b < e /\ e <= f.eof /\ e = SmallerOf(d, f.eof)
  BY <1>1, <1>2 DEF EndOf, SmallerOf
<1>5. /\ roundUp(e, s) \in Nat /\ e <= roundUp(e, s)
      /\ \A z \in Nat : z % s = 0 /\ e <= z => roundUp(e, s) <= z
  BY <1>1, <1>4, Rounding
<1>6. d <= f.eof => e = d
  BY <1>1, <1>2 DEF EndOf, SmallerOf
<1>7. e = d => roundUp(e, s) = e
  BY <1>3 DEF roundUp
<1>8. e < f.eof => e = d
  BY <1>1, <1>2 DEF EndOf, SmallerOf
<1>9. ASSUME NEW z \in Nat, b <= z, (z - b) % cbIo(f) = 0 PROVE z % s = 0
  <2>1. cbIo(f) \in Nat \ {0} /\ cbIo(f) % s = 0
    BY WholeSectors
  <2>2. PICK y \in Nat : y = z - b
    BY <1>2, <1>9
  <2>3. y % s = 0
    BY <1>1, <1>9, <2>1, <2>2, MultiplesOfMultiples
  <2>4. (b + y) % s = 0
    BY <1>1, <1>2, <1>3, <2>2, <2>3, SumOfMultiples
  <2>5. b + y = z
    BY <1>2, <2>2
  <2>6. QED
    BY <2>4, <2>5
<1> HIDE DEF s, c, b, d, e
<1>10. QED
  BY <1>1, <1>2, <1>3, <1>4, <1>5, <1>6, <1>7, <1>8, <1>9 DEF s, c, b, d, e

\* A short read of an aligned file is the last of its fragment, and the program
\* expects its length.
LEMMA ShortReads ==
  ASSUME IInv, Whole, AlignInv, pc = "arrived", got < cbIo(file), got # Length
  PROVE  got = dwBytesInLastRead(file)
<1> DEFINE b == Begin(file, nFragments)  c == cbFragment(file)
<1>1. /\ file \in Files /\ Fragments(file) \in Nat /\ nFragments \in Nat
      /\ nFragments < Fragments(file) /\ Aligned(file)
      /\ {ByteOffset, Length, got} \subseteq Nat
  BY FragmentsBegin DEF IInv, TypeOK, ReadInv, Working, Whole
<1>2. /\ got > 0 /\ got <= Length /\ cbIo(file) \in Nat /\ cbIo(file) # 0
      /\ ByteOffset + got = file.eof
      /\ ByteOffset + Length = roundUp(Ended, file.sector)
  BY <1>1, Delivered, WholeSectors DEF IInv
<1>3. /\ b <= ByteOffset /\ (ByteOffset - b) % cbIo(file) = 0
  BY DEF AlignInv, Working
<1>4. /\ file.eof \in Nat /\ b \in Nat /\ Begin(file, nFragments + 1) \in Nat
      /\ b < file.eof
      /\ Begin(file, nFragments + 1) <= file.eof =>
           /\ Ended = Begin(file, nFragments + 1)
           /\ roundUp(Ended, file.sector) = Ended
      /\ b % file.sector = 0
  BY <1>1, AlignedFragment, FragmentsBegin DEF Ended
<1>5. file.eof < Begin(file, nFragments + 1)
  BY <1>1, <1>2, <1>4
<1>6. c \in Nat \ {0} /\ Begin(file, nFragments + 1) = b + c /\ b = nFragments * c
  BY <1>1, WholeBlocks, FragmentsBegin DEF Begin
<1>7. file.eof % c = file.eof - b
  <2>1. nFragments * c <= file.eof /\ file.eof < nFragments * c + c
    BY <1>4, <1>5, <1>6
  <2>2. file.eof % c = file.eof - nFragments * c
    BY <1>1, <1>4, <1>6, <2>1, Quotients
  <2>3. QED
    BY <1>6, <2>2
<1>8. roundDown(file.eof, c) = b
  BY <1>4, <1>7 DEF roundDown
<1>9. roundDown(b, file.sector) = b
  BY <1>4 DEF roundDown
<1>10. dwBytesInLastRead(file) = (file.eof - b) % cbIo(file)
  BY <1>8, <1>9 DEF dwBytesInLastRead
<1>11. PICK y \in Nat : y = ByteOffset - b
  BY <1>1, <1>3, <1>4
<1>12. y = (y \div cbIo(file)) * cbIo(file) /\ y \div cbIo(file) \in Nat
  BY <1>2, <1>3, <1>11, Remainders, Division
<1>13. PICK i \in Nat : y = i * cbIo(file)
  BY <1>12
<1>14. PICK w \in Nat : w = file.eof - b
  BY <1>4
<1>15. w = y + got
  BY <1>1, <1>2, <1>4, <1>11, <1>14
<1>16. w % cbIo(file) = w - i * cbIo(file)
  BY <1>1, <1>2, <1>13, <1>15, Quotients
<1>17. QED
  BY <1>1, <1>10, <1>13, <1>14, <1>15, <1>16

\* No read of an aligned file fails, and its bytes are counted exactly.
LEMMA AlignNext ==
  ASSUME IInv, Next, Whole, AlignInv
  PROVE  AlignInv'
<1> DEFINE b == Begin(file, nFragments)
<1>0. /\ file \in Files /\ Fragments(file) \in Nat /\ nFragments \in 0 .. Fragments(file)
      /\ {ByteOffset, Length, x, dwBlock, nHashes, got, n, pb, iBlock, bytes} \subseteq Nat
      /\ file.eof \in Nat /\ file.sector \in Nat \ {0} /\ cbIo(file) \in Nat \ {0}
      /\ Aligned(file) /\ ~file.hashMayFail
  BY FragmentsBegin, WholeBlocks, WholeSectors DEF IInv, TypeOK, Whole
<1>1. /\ status = "success"
      /\ pc = "reuse" => bytes = SmallerOf(b, file.eof)
      /\ Working => b <= ByteOffset /\ ByteOffset <= Ended
      /\ pc \in {"read", "arrived"} =>
           /\ x = ByteOffset /\ ByteOffset < Ended
           /\ (ByteOffset - b) % cbIo(file) = 0
           /\ bytes = b + (Ended - ByteOffset)
      /\ pc \in {"hash", "finish", "end", "return"} =>
           /\ bytes = b + (Ended - ByteOffset) + got
           /\ got <= cbIo(file)
           /\ got = cbIo(file) => (ByteOffset - b) % cbIo(file) = 0
      /\ pc = "return" => /\ Length = 0 => ByteOffset = Ended
                          /\ Length # 0 => got = cbIo(file)
  BY DEF AlignInv
<1>2. Working =>
      /\ b \in Nat /\ Begin(file, nFragments + 1) \in Nat
      /\ Ended \in Nat /\ b < Ended /\ Ended <= file.eof
      /\ roundUp(Ended, file.sector) \in Nat /\ Ended <= roundUp(Ended, file.sector)
      /\ Ended < file.eof => roundUp(Ended, file.sector) = Ended
      /\ Begin(file, nFragments + 1) <= file.eof =>
           /\ Ended = Begin(file, nFragments + 1)
           /\ roundUp(Ended, file.sector) = Ended
      /\ Length = 0 \/ ByteOffset + Length = roundUp(Ended, file.sector)
      /\ ByteOffset % file.sector = 0 \/ ByteOffset >= file.eof
  <2>1. Working => nFragments \in Nat /\ nFragments < Fragments(file)
    BY <1>0 DEF IInv, ReadInv
  <2>2. Working => Length = 0 \/ ByteOffset + Length = roundUp(Ended, file.sector)
    BY DEF IInv, ReadInv
  <2>3. Working => ByteOffset % file.sector = 0 \/ ByteOffset >= file.eof
    BY DEF IInv, ReadInv
  <2>4. Working =>
        /\ b \in Nat /\ Begin(file, nFragments + 1) \in Nat
        /\ Ended \in Nat /\ b < Ended /\ Ended <= file.eof
        /\ roundUp(Ended, file.sector) \in Nat /\ Ended <= roundUp(Ended, file.sector)
        /\ Ended < file.eof => roundUp(Ended, file.sector) = Ended
        /\ Begin(file, nFragments + 1) <= file.eof =>
             /\ Ended = Begin(file, nFragments + 1)
             /\ roundUp(Ended, file.sector) = Ended
    BY <1>0, <2>1, AlignedFragment DEF Ended
  <2>5. QED
    BY <2>2, <2>3, <2>4
<1>2a. ASSUME Working, ByteOffset % file.sector = 0, Ended <= ByteOffset
       PROVE  roundUp(Ended, file.sector) <= ByteOffset
  <2>1. nFragments \in Nat /\ nFragments < Fragments(file) /\ ByteOffset \in Nat
    BY <1>0, <1>2a DEF IInv, ReadInv
  <2>2. QED
    BY <1>0, <1>2a, <2>1, AlignedFragment DEF Ended
<1>2b. ASSUME Working, b <= ByteOffset, (ByteOffset - b) % cbIo(file) = 0
       PROVE  ByteOffset % file.sector = 0
  <2>1. nFragments \in Nat /\ nFragments < Fragments(file) /\ ByteOffset \in Nat
    BY <1>0, <1>2b DEF IInv, ReadInv
  <2>2. QED
    BY <1>0, <1>2b, <2>1, AlignedFragment
<1>3. /\ pc \in {"hash", "finish", "end"} =>
           /\ got < cbIo(file) => Length = 0 \/ ByteOffset = file.eof
           /\ Length = 0 => ByteOffset >= Ended
           /\ x + n = ByteOffset /\ ByteOffset <= file.eof
  BY DEF IInv, DataInv
<1>4. CASE Start
  <2>1. PICK f \in Files, k \in Nat : f = file /\ k + 1 = nFragments
    <3>1. nFragments - 1 \in Nat /\ (nFragments - 1) + 1 = nFragments
      BY <1>0, <1>4 DEF Start
    <3>2. QED
      BY <1>0, <3>1
  <2>2. /\ nFragments' = k /\ k < Fragments(f) /\ file' = f /\ x' = Begin(f, k)
        /\ ByteOffset' = roundDown(Begin(f, k), f.sector)
    BY <1>4, <2>1, Starts DEF IInv
  <2>3. /\ Begin(f, k) \in Nat /\ Begin(f, k) % f.sector = 0
        /\ EndOf(f, k) \in Nat /\ Begin(f, k) < EndOf(f, k)
        /\ EndOf(f, k) = SmallerOf(Begin(f, k + 1), f.eof)
    BY <1>0, <2>1, <2>2, AlignedFragment
  <2>4. ByteOffset' = Begin(f, k)
    BY <2>2, <2>3 DEF roundDown
  <2>5. pc' = "read" /\ status' = "success" /\ bytes' = EndOf(f, k)
    BY <1>1, <1>4, <2>1, <2>3 DEF Start
  <2>6. 0 % cbIo(f) = 0
    <3>1. cbIo(f) \in Nat \ {0}
      BY <1>0, <2>1
    <3>2. QED
      BY <3>1
  <2>7. (ByteOffset' - Begin(f, k)) % cbIo(f) = 0
    <3>1. ByteOffset' - Begin(f, k) = 0
      BY <2>3, <2>4
    <3>2. QED
      BY <2>6, <3>1
  <2>8. Ended' = EndOf(f, k)
    BY <2>2 DEF Ended
  <2>9. bytes' = Begin(f, k) + (EndOf(f, k) - ByteOffset')
    BY <2>3, <2>4, <2>5
  <2>10. QED
    BY <2>2, <2>3, <2>4, <2>5, <2>7, <2>8, <2>9 DEF AlignInv, Working
<1>5. CASE Finish
  <2>1. /\ nFragments = 0 /\ pc = "reuse" /\ pc' = "done" /\ bytes' = bytes
        /\ status' = status
    BY <1>5 DEF Finish, taskVars
  <2>2. Begin(file, 0) = 0
    <3>1. cbFragment(file) \in Nat
      BY <1>0, WholeBlocks
    <3>2. QED
      BY <3>1 DEF Begin
  <2>3. bytes = 0
    BY <1>0, <1>1, <2>1, <2>2 DEF SmallerOf
  <2>4. QED
    BY <1>1, <2>1, <2>3 DEF AlignInv, Working
<1>6. CASE Read
  <2>1. /\ pc = "read" /\ pc' = "arrived"
        /\ UNCHANGED <<file, nFragments, bytes, ByteOffset, x, status>>
    BY <1>6 DEF Read, taskVars, readVars
  <2>2. Ended' = Ended
    BY <2>1 DEF Ended
  <2>3. QED
    BY <1>1, <2>1, <2>2 DEF AlignInv, Working
<1>7. CASE ReadRefused
  <2>1. pc = "read" /\ Refused
    BY <1>7 DEF ReadRefused
  <2>2. /\ ByteOffset < file.eof /\ ByteOffset % file.sector = 0
        /\ ByteOffset + Length = roundUp(Ended, file.sector) /\ Length > 0
        /\ Ended \in Nat
    <3>1. Working /\ Length > 0
      BY <2>1 DEF Working, IInv, ReadInv
    <3>2. ByteOffset < Ended /\ Ended <= file.eof /\ Ended \in Nat
      BY <1>1, <1>2, <2>1, <3>1
    <3>3. ByteOffset < file.eof
      BY <1>0, <3>2
    <3>4. ByteOffset % file.sector = 0
      BY <1>0, <1>2, <3>1, <3>3
    <3>5. ByteOffset + Length = roundUp(Ended, file.sector)
      BY <1>0, <1>2, <3>1
    <3>6. QED
      BY <3>1, <3>2, <3>3, <3>4, <3>5
  <2>3. Length % file.sector = 0
    <3>0. /\ roundUp(Ended, file.sector) \in Nat
          /\ roundUp(Ended, file.sector) % file.sector = 0
      BY <1>0, <2>2, Rounding
    <3>1. PICK u \in Nat : u = roundUp(Ended, file.sector) /\ u % file.sector = 0
      BY <3>0
    <3>2. ByteOffset <= u /\ Length = u - ByteOffset
      BY <1>0, <2>2, <3>1
    <3>3. (u - ByteOffset) % file.sector = 0
      BY <1>0, <2>2, <3>1, <3>2, SumOfMultiples
    <3>4. QED
      BY <3>2, <3>3
  <2>4. Wanted % file.sector = 0
    BY <1>0, <2>3, WholeSectors DEF Wanted, SmallerOf
  <2>5. QED
    BY <1>0, <2>1, <2>2, <2>4 DEF Refused
<1>8. CASE Arrive
  <2>1. /\ got > 0 /\ got <= Length /\ got <= cbIo(file) /\ ByteOffset + got <= file.eof
        /\ ByteOffset + Length = roundUp(Ended, file.sector)
    BY <1>8, Delivered DEF Arrive, IInv
  <2>2. pc = "arrived" /\ x = ByteOffset
    BY <1>1, <1>8 DEF Arrive
  <2>3. ~(x < ByteOffset) /\ ~(got <= x - ByteOffset)
    BY <1>0, <2>1, <2>2
  <2>4. /\ pc' = "hash" /\ ByteOffset' = ByteOffset + got
        /\ UNCHANGED <<file, nFragments, bytes, got, status>>
    BY <1>8, <2>3 DEF Arrive, taskVars
  <2>5. ByteOffset' <= Ended
    BY <1>0, <1>2, <2>1, <2>2, <2>4 DEF Working
  <2>6. b <= ByteOffset /\ bytes = b + (Ended - ByteOffset) /\ b \in Nat /\ Ended \in Nat
    BY <1>1, <1>2, <2>2 DEF Working
  <2>7. bytes' = b + (Ended - ByteOffset') + got' /\ b <= ByteOffset'
    BY <1>0, <2>4, <2>6
  <2>8. ASSUME got = cbIo(file) PROVE (ByteOffset' - b) % cbIo(file) = 0
    <3>1. PICK y \in Nat : y = ByteOffset - b
      BY <1>0, <2>6
    <3>2. y % cbIo(file) = 0
      BY <1>1, <2>2, <3>1
    <3>3. PICK c \in Nat \ {0} : c = cbIo(file)
      BY <1>0
    <3>4. (y + c) % c = 0
      BY <3>2, <3>3, SumOfMultiples
    <3>5. ByteOffset' - b = y + c
      BY <1>0, <2>4, <2>6, <2>8, <3>1, <3>3
    <3>6. QED
      BY <3>3, <3>4, <3>5
  <2>9. Ended' = Ended /\ b' = b
    BY <2>4 DEF Ended
  <2>10. QED
    BY <1>1, <2>1, <2>4, <2>5, <2>7, <2>8, <2>9 DEF AlignInv, Working
<1>9. CASE ArriveBad
  <2>1. pc = "arrived" /\ got < cbIo(file) /\ got # Length /\ got # dwBytesInLastRead(file)
    BY <1>9 DEF ArriveBad, BadLength, bLastBlock
  <2>2. QED
    BY <2>1, ShortReads
<1>10. CASE HashData
  <2>1. /\ pc = "hash" /\ pc' \in {"finish", "end", "hash"}
        /\ UNCHANGED <<file, nFragments, bytes, ByteOffset, got, status>>
    BY <1>10 DEF HashData, taskVars, readVars
  <2>2. Ended' = Ended
    BY <2>1 DEF Ended
  <2>3. QED
    BY <1>1, <2>1, <2>2 DEF AlignInv, Working
<1>11. CASE HashDataFails
  BY <1>0, <1>11 DEF HashDataFails
<1>12. CASE FinishHash
  <2>1. /\ pc = "finish" /\ pc' \in {"return", "end", "hash"}
        /\ UNCHANGED <<file, nFragments, bytes, ByteOffset, Length, got, status>>
    BY <1>12 DEF FinishHash, taskVars, readVars
  <2>2. Ended' = Ended
    BY <2>1 DEF Ended
  <2>3. Length = 0 => ByteOffset = Ended
    <3>1. Ended \in Nat /\ ByteOffset <= Ended
      BY <1>1, <1>2, <2>1 DEF Working
    <3>2. Length = 0 => ByteOffset >= Ended
      BY <1>3, <2>1
    <3>3. QED
      BY <1>0, <3>1, <3>2
  <2>4. ASSUME pc' = "return", Length # 0 PROVE FALSE
    <3>1. nHashes = 1
      BY <1>12, <2>4 DEF FinishHash, LastHash
    <3>2. x = At(file, BlockInHand + 1)
      BY <1>0, <2>1, <2>4 DEF IInv, HashInv
    <3>3. x = Begin(file, nFragments + 1)
      BY <2>1, <3>1, <3>2, InHand DEF IInv, ReadInv, Working
    <3>4. x <= ByteOffset /\ ByteOffset <= file.eof
      BY <1>0, <1>3, <2>1
    <3>5. Ended = x /\ roundUp(Ended, file.sector) = Ended
      BY <1>0, <1>2, <2>1, <3>3, <3>4 DEF Working
    <3>6. QED
      BY <1>0, <1>2, <2>1, <2>4, <3>4, <3>5 DEF Working
  <2>5. QED
    BY <1>1, <2>1, <2>2, <2>3, <2>4 DEF AlignInv, Working
<1>13. CASE EndOfData
  <2>1. /\ pc = "end" /\ pc' \in {"finish", "return"}
        /\ Length' = (IF got < cbIo(file) THEN 0 ELSE Length)
        /\ UNCHANGED <<file, nFragments, bytes, ByteOffset, got, status>>
    BY <1>13 DEF EndOfData, bLastBlock, taskVars, dataVars
  <2>2. Ended' = Ended
    BY <2>1 DEF Ended
  <2>3. Length' = 0 => ByteOffset = Ended
    <3>1. Ended \in Nat /\ ByteOffset <= Ended /\ Ended <= file.eof
      BY <1>1, <1>2, <2>1 DEF Working
    <3>2. Length' = 0 => ByteOffset >= Ended
      BY <1>0, <1>3, <2>1, <3>1
    <3>3. QED
      BY <1>0, <3>1, <3>2
  <2>4. Length' # 0 => got = cbIo(file)
    BY <1>0, <1>1, <2>1
  <2>5. QED
    BY <1>1, <2>1, <2>2, <2>3, <2>4 DEF AlignInv, Working
<1>14. CASE Return
  <2>1. /\ pc = "return" /\ pc' = (IF Length # 0 THEN "read" ELSE "reuse")
        /\ bytes' = bytes - got
        /\ UNCHANGED <<file, nFragments, ByteOffset, Length, x, got, status>>
    BY <1>14 DEF Return, readVars, dataVars
  <2>2. Ended' = Ended /\ b' = b
    BY <2>1 DEF Ended
  <2>3. b \in Nat /\ Ended \in Nat /\ b < Ended /\ Ended <= file.eof
    BY <1>2, <2>1 DEF Working
  <2>4. bytes' = b + (Ended - ByteOffset)
    BY <1>0, <1>1, <2>1, <2>3
  <2>5. CASE Length = 0
    <3>1. bytes' = b /\ b = SmallerOf(b, file.eof)
      BY <1>0, <1>1, <2>1, <2>3, <2>4, <2>5 DEF SmallerOf
    <3>2. QED
      BY <1>1, <2>1, <2>2, <2>5, <3>1 DEF AlignInv, Working
  <2>6. CASE Length # 0
    <3>1. (ByteOffset - b) % cbIo(file) = 0 /\ b <= ByteOffset /\ ByteOffset <= Ended
      BY <1>1, <2>1, <2>6 DEF Working
    <3>2. ByteOffset % file.sector = 0
      BY <1>2b, <2>1, <3>1 DEF Working
    <3>3. ByteOffset < Ended
      <4>1. ByteOffset + Length = roundUp(Ended, file.sector)
        BY <1>2, <2>1, <2>6 DEF Working
      <4>2. Ended <= ByteOffset => roundUp(Ended, file.sector) <= ByteOffset
        BY <1>2a, <2>1, <3>2 DEF Working
      <4>3. QED
        BY <1>0, <2>3, <2>6, <4>1, <4>2
    <3>4. x = ByteOffset
      BY <1>0, <2>1, <2>3, <2>6, <3>3 DEF IInv, HashInv
    <3>5. QED
      BY <1>1, <2>1, <2>2, <2>4, <2>6, <3>1, <3>3, <3>4 DEF AlignInv, Working
  <2>7. QED
    BY <2>5, <2>6
<1>15. QED
  BY <1>4, <1>5, <1>6, <1>7, <1>8, <1>9, <1>10, <1>11, <1>12, <1>13, <1>14 DEF Next

\* No block of an aligned file is left out.
LEMMA HashedNext ==
  ASSUME IInv, Next, Whole, AlignInv, HashedInv, AlignInv'
  PROVE  HashedInv'
<1>0. /\ file \in Files /\ Fragments(file) \in Nat /\ nFragments \in 0 .. Fragments(file)
      /\ {ByteOffset, Length, x, dwBlock, nHashes, got, n, pb, iBlock} \subseteq Nat
      /\ DOMAIN digests = 0 .. Blocks(file) - 1 /\ Blocks(file) \in Nat
      /\ file.eof \in Nat /\ Aligned(file) /\ ~file.hashMayFail
  BY FragmentsBegin, BlocksBegin, WholeBlocks DEF IInv, TypeOK, ReadInv, Whole
<1>1. /\ \A i \in DOMAIN digests :
           /\ First(file, nFragments) <= i
           /\ Working => i < BlockInHand \/ First(file, nFragments + 1) <= i
           => digests[i] # NoHash
      /\ pc = "end" /\ Length = 0 /\ hash = NoHash => Ended <= At(file, BlockInHand)
      /\ pc = "return" /\ Length = 0 =>
           \A i \in DOMAIN digests : First(file, nFragments) <= i => digests[i] # NoHash
  BY DEF HashedInv
\* Most steps complete no hash, stay with the fragment and are not its last.
<1>2. ASSUME UNCHANGED <<file, nFragments, nHashes, digests>>, Working' = Working,
             pc' \notin {"end", "return", "done"}
      PROVE  HashedInv'
  BY <1>1, <1>2 DEF HashedInv, BlockInHand
<1>3. CASE Start
  <2>1. PICK f \in Files, k \in Nat : f = file /\ k + 1 = nFragments
    <3>1. nFragments - 1 \in Nat /\ (nFragments - 1) + 1 = nFragments
      BY <1>0, <1>3 DEF Start
    <3>2. QED
      BY <1>0, <3>1
  <2>2. nFragments' = k /\ file' = f /\ First(f, k + 1) - nHashes' = First(f, k)
    BY <1>3, <2>1, Starts DEF IInv
  <2>3. digests' = digests /\ pc = "reuse" /\ pc' = "read"
    BY <1>3 DEF Start
  <2>4. BlockInHand' = First(f, k)
    BY <2>2 DEF BlockInHand
  <2>5. First(f, k) \in Nat
    BY FirstBlocks
  <2>6. ASSUME NEW i \in DOMAIN digests, First(f, k) <= i,
               i < First(f, k) \/ First(f, k + 1) <= i
        PROVE  digests[i] # NoHash
    <3>1. First(f, k + 1) <= i
      BY <1>0, <2>5, <2>6
    <3>2. QED
      BY <1>1, <2>1, <2>3, <3>1 DEF Working
  <2>7. QED
    BY <2>2, <2>3, <2>4, <2>6 DEF HashedInv, Working
<1>4. CASE Finish
  <2>1. /\ pc = "reuse" /\ pc' = "done" /\ nFragments = 0
        /\ UNCHANGED <<file, nFragments, digests>>
    BY <1>4 DEF Finish, taskVars, dataVars
  <2>2. QED
    BY <1>1, <2>1 DEF HashedInv, Working
<1>5. CASE Read
  BY <1>2, <1>5 DEF Read, Working, taskVars, readVars
<1>6. CASE ReadRefused
  BY <1>6 DEF ReadRefused, Fail, AlignInv
<1>7. CASE Arrive
  <2>1. pc = "arrived" /\ pc' = "hash" /\ UNCHANGED <<file, nFragments, nHashes, digests>>
    <3>1. pc = "arrived" /\ UNCHANGED <<file, nFragments, nHashes, digests>>
      BY <1>7 DEF Arrive, taskVars
    <3>2. got > 0
      BY <1>7, Delivered DEF Arrive, IInv
    <3>3. x = ByteOffset
      BY <3>1 DEF AlignInv
    <3>4. ~(x < ByteOffset) /\ ~(got <= x - ByteOffset)
      BY <1>0, <3>2, <3>3
    <3>5. QED
      BY <1>7, <3>1, <3>4 DEF Arrive
  <2>2. QED
    BY <1>2, <2>1 DEF Working
<1>8. CASE ArriveBad
  BY <1>8 DEF ArriveBad, Fail, AlignInv
<1>9. CASE HashData
  <2> DEFINE c == SmallerOf(n, dwBlock)
  <2>1. /\ pc = "hash" /\ pc' \in {"finish", "end", "hash"} /\ hash' # NoHash
        /\ UNCHANGED <<file, nFragments, nHashes, digests>>
    <3>1. hash' = IF hash = NoHash THEN <<pb, pb + c>> ELSE <<hash[1], pb + c>>
      BY <1>9 DEF HashData
    <3>2. hash' # NoHash
      BY <3>1 DEF NoHash
    <3>3. QED
      BY <1>9, <3>2 DEF HashData, taskVars
  <2>2. QED
    BY <1>1, <2>1 DEF HashedInv, BlockInHand, Working
<1>10. CASE HashDataFails
  BY <1>0, <1>10 DEF HashDataFails
<1>11. CASE FinishHash
  <2>1. /\ pc = "finish" /\ digests' = [digests EXCEPT ![iBlock] = hash]
        /\ nHashes' = nHashes - 1
        /\ UNCHANGED <<file, nFragments, x, Length, ByteOffset, n>>
    BY <1>11 DEF FinishHash, taskVars, readVars
  <2>2. iBlock = BlockInHand /\ nHashes > 0 /\ x + n = ByteOffset
    BY <2>1 DEF IInv, DataInv
  <2>3. /\ BlockInHand \in Nat /\ First(file, nFragments) <= BlockInHand
        /\ First(file, nFragments) \in Nat /\ First(file, nFragments + 1) \in Nat
        /\ BlockInHand + nHashes = First(file, nFragments + 1)
        /\ At(file, BlockInHand + 1) \in Nat
    <3>1. /\ BlockInHand \in Nat /\ First(file, nFragments) <= BlockInHand
          /\ First(file, nFragments) \in Nat /\ First(file, nFragments + 1) \in Nat
          /\ BlockInHand + nHashes = First(file, nFragments + 1)
      BY <2>1, InHand DEF IInv, ReadInv, Working
    <3>2. At(file, BlockInHand + 1) \in Nat
      <4>1. BlockInHand + 1 \in Nat
        BY <3>1
      <4>2. QED
        BY <1>0, <4>1, BlocksBegin
    <3>3. QED
      BY <3>1, <3>2
  <2>4. BlockInHand' = BlockInHand + 1
    <3>1. nHashes \in Nat
      BY <1>0
    <3>2. BlockInHand' = First(file, nFragments + 1) - (nHashes - 1)
      BY <2>1 DEF BlockInHand
    <3>3. QED
      BY <2>3, <3>1, <3>2 DEF BlockInHand
  <2>5. /\ hash = BlockOf(file, BlockInHand)
        /\ \/ x = At(file, BlockInHand + 1)
           \/ /\ n = 0 /\ Length = 0
              /\ x = file.eof /\ x <= At(file, BlockInHand + 1)
    BY <1>0, <2>1 DEF IInv, HashInv
  <2>6. hash # NoHash
    BY <2>5 DEF BlockOf, NoHash
  <2>7. ASSUME NEW i \in DOMAIN digests', First(file, nFragments) <= i,
               i < BlockInHand + 1 \/ First(file, nFragments + 1) <= i
        PROVE  digests'[i] # NoHash
    <3>1. i \in DOMAIN digests /\ i \in Nat
      BY <1>0, <2>1
    <3>2. CASE i = iBlock
      BY <2>1, <2>6, <3>1, <3>2
    <3>3. CASE i # iBlock
      <4>1. digests'[i] = digests[i]
        BY <2>1, <3>1, <3>3
      <4>2. i < BlockInHand \/ First(file, nFragments + 1) <= i
        BY <2>2, <2>3, <2>7, <3>1, <3>3
      <4>3. QED
        BY <1>1, <2>7, <3>1, <4>1, <4>2
    <3>4. QED
      BY <3>2, <3>3
  <2>8. CASE LastHash
    <3>1. pc' = "return" /\ nHashes = 1
      BY <1>11, <2>8 DEF FinishHash, LastHash
    <3>2. ASSUME NEW i \in DOMAIN digests', First(file, nFragments) <= i
          PROVE  digests'[i] # NoHash
      <4>1. i \in Nat
        BY <1>0, <2>1
      <4>2. i < BlockInHand + 1 \/ First(file, nFragments + 1) <= i
        BY <2>3, <3>1, <4>1
      <4>3. QED
        BY <2>7, <3>2, <4>2
    <3>3. QED
      BY <2>1, <3>1, <3>2 DEF HashedInv
  <2>9. CASE ~LastHash
    <3>1. pc' = IF n = 0 THEN "end" ELSE "hash"
      BY <1>11, <2>9 DEF FinishHash
    <3>2. ASSUME n = 0, Length = 0 PROVE Ended <= At(file, BlockInHand + 1)
      <4>1. /\ ByteOffset >= Ended /\ x = ByteOffset
        BY <1>0, <2>1, <2>2, <3>2 DEF IInv, DataInv
      <4>2. x <= At(file, BlockInHand + 1)
        BY <1>0, <2>3, <2>5
      <4>3. Ended \in Nat
        <5>1. nFragments \in Nat /\ nFragments < Fragments(file)
          BY <1>0, <2>1 DEF IInv, ReadInv, Working
        <5>2. QED
          BY <1>0, <5>1, AlignedFragment DEF Ended
      <4>4. QED
        BY <1>0, <2>3, <4>1, <4>2, <4>3
    <3>3. pc' = "end" /\ Length' = 0 /\ hash' = NoHash => Ended' <= At(file', BlockInHand')
      <4>1. Ended' = Ended
        BY <2>1 DEF Ended
      <4>2. pc' = "end" => n = 0
        BY <3>1
      <4>3. QED
        BY <2>1, <2>4, <3>2, <4>1, <4>2
    <3>4. \A i \in DOMAIN digests' :
            /\ First(file', nFragments') <= i
            /\ Working' => i < BlockInHand' \/ First(file', nFragments' + 1) <= i
            => digests'[i] # NoHash
      BY <2>1, <2>4, <2>7, <3>1 DEF Working
    <3>5. QED
      BY <3>1, <3>3, <3>4 DEF HashedInv
  <2>10. QED
    BY <2>8, <2>9
<1>12. CASE EndOfData
  <2>1. /\ pc = "end" /\ Length' = (IF got < cbIo(file) THEN 0 ELSE Length)
        /\ pc' = IF Length' = 0 /\ hash # NoHash THEN "finish" ELSE "return"
        /\ UNCHANGED <<file, nFragments, ByteOffset, x, nHashes, digests, hash>>
    BY <1>12 DEF EndOfData, bLastBlock, taskVars, dataVars
  <2>2. CASE pc' = "finish"
    BY <1>2, <2>1, <2>2 DEF Working
  <2>3. CASE pc' = "return" /\ Length' # 0
    BY <1>1, <2>1, <2>3 DEF HashedInv, BlockInHand, Working
  <2>4. CASE pc' = "return" /\ Length' = 0
    <3>1. /\ BlockInHand \in Nat /\ At(file, BlockInHand) \in Nat
          /\ First(file, nFragments + 1) \in Nat
          /\ nFragments \in Nat /\ nFragments < Fragments(file)
          /\ nHashes > 0 /\ x + n = ByteOffset /\ hash = NoHash
      <4>1. /\ BlockInHand \in Nat /\ At(file, BlockInHand) \in Nat
            /\ First(file, nFragments + 1) \in Nat
        BY <2>1, InHand DEF IInv, ReadInv, Working
      <4>2. nFragments \in Nat /\ nFragments < Fragments(file)
        BY <1>0, <2>1 DEF IInv, ReadInv, Working
      <4>3. QED
        BY <2>1, <2>4, <4>1, <4>2 DEF IInv, DataInv
    <3>2. /\ Ended \in Nat /\ Begin(file, nFragments + 1) \in Nat
          /\ Ended = SmallerOf(Begin(file, nFragments + 1), file.eof)
      BY <1>0, <3>1, AlignedFragment DEF Ended
    <3>3. Ended <= At(file, BlockInHand)
      <4>1. CASE InBlock /\ n = 0
        <5>1. x = At(file, BlockInHand)
          <6>1. hash = IF x = At(file, BlockInHand) THEN NoHash
                                                   ELSE <<At(file, BlockInHand), x>>
            BY <4>1 DEF InBlock
          <6>2. <<At(file, BlockInHand), x>> # NoHash
            BY DEF NoHash
          <6>3. QED
            BY <3>1, <6>1, <6>2
        <5>2. ByteOffset' = Ended'
          BY <2>4 DEF AlignInv
        <5>3. ByteOffset = Ended
          BY <2>1, <5>2 DEF Ended
        <5>4. QED
          BY <1>0, <3>1, <3>2, <4>1, <5>1, <5>3
      <4>2. CASE Length = 0 /\ hash = NoHash
        BY <1>1, <2>1, <4>2
      <4>3. QED
        BY <1>0, <2>1, <4>1, <4>2 DEF IInv, HashInv
    <3>4. ASSUME NEW i \in DOMAIN digests, First(file, nFragments) <= i
          PROVE  digests[i] # NoHash
      <4>1. i \in Nat /\ i < Blocks(file)
        BY <1>0
      <4>2. At(file, i) < file.eof /\ At(file, i) \in Nat
        BY <1>0, <4>1, BlocksBegin
      <4>3. ASSUME BlockInHand <= i, i < First(file, nFragments + 1) PROVE FALSE
        <5>1. At(file, i) < Begin(file, nFragments + 1)
          <6>1. nFragments + 1 \in Nat
            BY <3>1
          <6>2. At(file, First(file, nFragments + 1)) = Begin(file, nFragments + 1)
            BY <1>0, <6>1, FirstBlocks
          <6>3. At(file, i) + file.cbBlock <= Begin(file, nFragments + 1)
            <7>1. PICK j \in Nat : j = First(file, nFragments + 1)
              BY <3>1
            <7>2. i < j /\ i \in Nat
              BY <4>1, <4>3, <7>1
            <7>3. At(file, i) + file.cbBlock <= At(file, j)
              BY <1>0, <7>2, BlocksBegin
            <7>4. QED
              BY <6>2, <7>1, <7>3
          <6>4. file.cbBlock \in Nat \ {0}
            BY <1>0, WholeBlocks
          <6>5. QED
            BY <3>2, <4>2, <6>3, <6>4
        <5>2. At(file, i) < Ended
          BY <1>0, <3>2, <4>2, <5>1 DEF SmallerOf
        <5>3. At(file, BlockInHand) <= At(file, i)
          <6>1. CASE BlockInHand = i
            BY <3>1, <6>1
          <6>2. CASE BlockInHand < i
            <7>1. At(file, BlockInHand) + file.cbBlock <= At(file, i)
              BY <1>0, <3>1, <4>1, <6>2, BlocksBegin
            <7>2. file.cbBlock \in Nat
              BY <1>0, WholeBlocks
            <7>3. QED
              BY <3>1, <4>2, <7>1, <7>2
          <6>3. QED
            BY <3>1, <4>1, <4>3, <6>1, <6>2
        <5>4. QED
          BY <3>1, <3>2, <3>3, <4>2, <5>2, <5>3
      <4>4. i < BlockInHand \/ First(file, nFragments + 1) <= i
        BY <3>1, <4>1, <4>3
      <4>5. QED
        BY <1>1, <3>4, <4>4
    <3>5. QED
      BY <2>1, <2>4, <3>4 DEF HashedInv
  <2>5. QED
    BY <2>1, <2>2, <2>3, <2>4
<1>13. CASE Return
  <2>1. /\ pc = "return" /\ pc' = (IF Length # 0 THEN "read" ELSE "reuse")
        /\ UNCHANGED <<file, nFragments, nHashes, digests>>
    BY <1>13 DEF Return, dataVars
  <2>2. CASE Length # 0
    BY <1>2, <2>1, <2>2 DEF Working
  <2>3. CASE Length = 0
    BY <1>1, <2>1, <2>3 DEF HashedInv
  <2>4. QED
    BY <2>2, <2>3
<1>14. QED
  BY <1>3, <1>4, <1>5, <1>6, <1>7, <1>8, <1>9, <1>10, <1>11, <1>12, <1>13 DEF Next

\* Every step keeps the second invariant,
LEMMA WholeNext ==
  ASSUME IInv, [Next]_vars, WholeInv
  PROVE  WholeInv'
<1>1. file' = file
  BY DEF vars, taskVars, Next, Start, Finish, Read, ReadRefused, Arrive, ArriveBad,
     HashData,
     HashDataFails, FinishHash, EndOfData, Return
<1>2. Whole' = Whole
  BY <1>1 DEF Whole
<1>3. CASE Next
  BY <1>2, <1>3, AlignNext, HashedNext DEF WholeInv
<1>4. CASE UNCHANGED vars
  <2>1. UNCHANGED <<file, nFragments, bytes, ByteOffset, Length, x, dwBlock, nHashes,
                    got, n, pb, hash, iBlock, digests, status, pc>>
    BY <1>4 DEF vars, taskVars, readVars, dataVars
  <2>2. AlignInv => AlignInv'
    BY <2>1 DEF AlignInv, Working, Ended
  <2>3. HashedInv => HashedInv'
    BY <2>1 DEF HashedInv, Working, Ended, BlockInHand
  <2>4. QED
    BY <1>2, <2>2, <2>3 DEF WholeInv
<1>5. QED
  BY <1>3, <1>4

\* which holds when the task has been created.
LEMMA WholeInit ==
  ASSUME Init
  PROVE  WholeInv
<1>1. SUFFICES ASSUME Whole PROVE AlignInv /\ HashedInv
  BY DEF WholeInv
<1>2. /\ file \in Files /\ Fragments(file) \in Nat \ {0} /\ Blocks(file) \in Nat \ {0}
      /\ file.eof \in Nat /\ Aligned(file) /\ file.sector \in Nat
  BY <1>1, FragmentsBegin, BlocksBegin, WholeBlocks DEF Init, Whole
<1>3. bytes = file.eof
  <2>1. Straddling(file) = {}
    <3>1. ASSUME NEW i \in 0 .. Fragments(file) - 1
          PROVE  (i * cbFragment(file)) % file.sector = 0
      <4>1. i \in Nat
        BY <1>2
      <4>2. QED
        BY <1>2, <4>1, WholeBlocks, MultiplesOfMultiples DEF Aligned
    <3>2. QED
      BY <3>1 DEF Straddling
  <2>2. Cardinality(Straddling(file)) = 0
    BY <2>1, FS_EmptySet
  <2>3. QED
    BY <1>2, <2>2 DEF Init, BytesToProcess
<1>4. SmallerOf(Begin(file, nFragments), file.eof) = file.eof
  <2>1. nFragments = Fragments(file)
    BY DEF Init
  <2>2. Begin(file, nFragments) \in Nat /\ ~(Begin(file, nFragments) < file.eof)
    BY <1>2, <2>1, FragmentsBegin
  <2>3. QED
    BY <1>2, <2>2 DEF SmallerOf
<1>5. AlignInv
  BY <1>3, <1>4 DEF Init, AlignInv, Working
<1>6. HashedInv
  <2>1. ASSUME NEW i \in DOMAIN digests, First(file, nFragments) <= i PROVE FALSE
    <3>1. i \in Nat /\ i < Blocks(file) /\ nFragments = Fragments(file)
      BY <1>2 DEF Init
    <3>2. At(file, i) < file.eof /\ At(file, i) \in Nat
      BY <1>2, <3>1, BlocksBegin
    <3>3. /\ Begin(file, nFragments) \in Nat /\ ~(Begin(file, nFragments) < file.eof)
      BY <1>2, <3>1, FragmentsBegin
    <3>4. /\ At(file, First(file, nFragments)) = Begin(file, nFragments)
          /\ First(file, nFragments) \in Nat
      BY <1>2, <3>1, FirstBlocks
    <3>5. First(file, nFragments) < i =>
            At(file, First(file, nFragments)) + file.cbBlock <= At(file, i)
      BY <1>2, <3>1, <3>4, BlocksBegin
    <3>6. file.cbBlock \in Nat
      BY <1>2, WholeBlocks
    <3>7. Begin(file, nFragments) <= At(file, i)
      BY <2>1, <3>1, <3>2, <3>3, <3>4, <3>5, <3>6
    <3>8. QED
      BY <1>2, <3>2, <3>3, <3>7
  <2>2. QED
    BY <2>1 DEF Init, HashedInv
<1>7. QED
  BY <1>5, <1>6

\* A file of any size whose fragments begin at sectors is read without an error,
\* every block of it is hashed, and the count of bytes left ends at zero.
THEOREM FragmentAlignedFileIsHashed == SafeSpec => []AlignedFileIsHashed
<1>1. Init => WholeInv
  BY WholeInit
<1>2. IInv /\ [Next]_vars /\ WholeInv => WholeInv'
  BY WholeNext
<1>3. ASSUME IInv, WholeInv PROVE AlignedFileIsHashed
  <2>1. SUFFICES ASSUME Whole
                 PROVE  /\ status = "success"
                        /\ pc = "done" =>
                             bytes = 0 /\ \A i \in DOMAIN digests : digests[i] # NoHash
    BY DEF AlignedFileIsHashed, Whole
  <2>2. AlignInv /\ HashedInv
    BY <1>3, <2>1 DEF WholeInv
  <2>3. ASSUME pc = "done", NEW i \in DOMAIN digests PROVE digests[i] # NoHash
    <3>1. file \in Files /\ nFragments = 0
      BY <1>3, <2>2, <2>3 DEF IInv, TypeOK, HashedInv
    <3>2. Hashes(file) \in Nat
      BY <3>1, FirstBlocks
    <3>3. First(file, nFragments) = 0
      BY <3>1, <3>2 DEF First
    <3>4. Blocks(file) \in Nat /\ DOMAIN digests = 0 .. Blocks(file) - 1
      BY <1>3, <3>1, BlocksBegin DEF IInv, ReadInv
    <3>5. First(file, nFragments) <= i
      BY <2>3, <3>3, <3>4
    <3>6. QED
      BY <2>2, <2>3, <3>5 DEF HashedInv, Working
  <2>4. QED
    BY <2>2, <2>3 DEF AlignInv
<1>4. QED
  BY <1>1, <1>2, <1>3, FragmentInvariant, PTL DEF SafeSpec
=============================================================================

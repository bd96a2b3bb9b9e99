----------------------------- MODULE HashLayout -----------------------------
(***************************************************************************)
(* util.cpp gcd and lcm, and the arithmetic of CHashFile::Create: how many *)
(* hashes a CHashBlock gathers so that every write to the hash file, which *)
(* is open without intermediate buffering, is made of whole sectors.       *)
(***************************************************************************)
EXTENDS Integers, FiniteSetsExt

CONSTANTS SectorSizes,  \* sector sizes of the volume of the hash file
          HashSizes,    \* digest sizes in bytes (cbHash)
          BlockCounts,  \* numbers of hashes (nBlocks)
          OneMB,        \* 0x100000: what a CHashBlock holds, about
          ULONGs        \* how many values a ULONG has

\* lcm multiplies in a ULONG: that a sector times a digest and another megabyte fit into
\* one holds of all sectors up to 2^25 bytes and digests up to 64.
ASSUME LayoutAssumption ==
  /\ SectorSizes \subseteq Nat \ {0} /\ HashSizes \subseteq Nat \ {0}
  /\ BlockCounts \subseteq Nat \ {0} /\ {OneMB, ULONGs} \subseteq Nat \ {0}
  /\ \E bits \in 0 .. 32 : ULONGs = 2^bits
  /\ \A s \in SectorSizes, h \in HashSizes : s * h + s + OneMB <= ULONGs

VARIABLES SectorSize, cbHash, nBlocks,
          m, n, shift,  \* gcd's arguments and the doublings its callers owe
          pc

vars == <<SectorSize, cbHash, nBlocks, m, n, shift, pc>>

Init == /\ SectorSize \in SectorSizes
        /\ cbHash \in HashSizes
        /\ nBlocks \in BlockCounts
        /\ m = SectorSize /\ n = cbHash
        /\ shift = 0
        /\ pc = "gcd"

Odd(k) == k % 2 = 1
\* (The mutant: equal arguments not looked for.)
OverAtOne == m = 1 \/ n = 1
Over == m = n \/ m = 1 \/ n = 1

(***************************************************************************)
(* gcd: binary Euclid.  A step is one turn of the loop; two even arguments *)
(* recurse, and the caller doubles the result.                             *)
(***************************************************************************)
Turn == /\ pc = "gcd"
        /\ ~Over
        /\ UNCHANGED <<SectorSize, cbHash, nBlocks, pc>>

BothOdd == /\ Turn
           /\ Odd(m) /\ Odd(n)
           /\ IF m < n THEN n' = (n - m) \div 2 /\ UNCHANGED m
                       ELSE m' = (m - n) \div 2 /\ UNCHANGED n
           /\ UNCHANGED shift

OneOdd == /\ Turn
          /\ Odd(m) # Odd(n)
          /\ IF Odd(m) THEN n' = n \div 2 /\ UNCHANGED m
                       ELSE m' = m \div 2 /\ UNCHANGED n
          /\ UNCHANGED shift

\* (The mutant: the result not doubled.)
Undoubled == shift
Doubled == shift + 1

BothEven == /\ Turn
            /\ ~Odd(m) /\ ~Odd(n)
            /\ m' = m \div 2 /\ n' = n \div 2
            /\ shift' = Doubled

Finish == /\ pc = "gcd"
          /\ Over
          /\ pc' = "done"
          /\ UNCHANGED <<SectorSize, cbHash, nBlocks, m, n, shift>>

Next == BothOdd \/ OneOdd \/ BothEven \/ Finish

SafeSpec == Init /\ [][Next]_vars
Spec == SafeSpec /\ WF_vars(Next)

gcd == (IF m = n THEN m ELSE 1) * 2^shift
lcm == (SectorSize * cbHash) \div gcd

(***************************************************************************)
(* CHashFile::Create.                                                      *)
(***************************************************************************)
eof == nBlocks * cbHash
MinBlockSize == lcm
minHashCount == MinBlockSize \div cbHash
Capped == IF eof < OneMB THEN eof ELSE OneMB
nHashesInBlock == ((Capped + MinBlockSize - 1) \div MinBlockSize) * minHashCount
iLastBlock == nBlocks \div nHashesInBlock
nHashesInLastBlock == nBlocks % nHashesInBlock
LastBlockSize == cbHash * nHashesInLastBlock
dwLastWrite == ((LastBlockSize + SectorSize - 1) \div SectorSize) * SectorSize
\* _eof: set when the last write is longer than the hashes (the mutant: tested
\* by the wrong size).
TruncatesByHash == IF LastBlockSize % cbHash # 0 THEN eof ELSE 0
TruncatesTo == IF LastBlockSize % SectorSize # 0 THEN eof ELSE 0
-----------------------------------------------------------------------------
TypeOK == /\ SectorSize \in SectorSizes /\ cbHash \in HashSizes
          /\ nBlocks \in BlockCounts
          /\ m \in Nat \ {0} /\ n \in Nat \ {0} /\ shift \in Nat
          /\ pc \in {"gcd", "done"}

Divides(d, k) == k % d = 0
CommonDivisors(a, b) == {d \in 1 .. a : Divides(d, a) /\ Divides(d, b)}

\* Its arguments stay positive and gcd returns the greatest common divisor.
GcdRight == TypeOK /\ (pc = "done" => gcd = Max(CommonDivisors(SectorSize, cbHash)))

\* gcd's loop never brings an argument to 0, from where it would not return.
GcdReturns == <>(pc = "done")

\* However many hashes there are, no size that Create computes in a ULONG wraps around
\* (lcm's product does not by assumption).
SizesFit ==
  pc = "done" =>
    {Capped + MinBlockSize - 1, nHashesInBlock * cbHash, LastBlockSize + SectorSize - 1,
     dwLastWrite} \subseteq 0 .. ULONGs - 1

\* Every write begins at a sector and is made of whole sectors, what is written
\* of the last CHashBlock lies inside its buffer, and the writes, with the
\* truncation ~CHashFile makes, leave a file of exactly nBlocks hashes; and the sizes
\* are right in the width they have in the code.
cbWrite(i) == IF i = iLastBlock THEN dwLastWrite ELSE nHashesInBlock * cbHash
Written == iLastBlock * nHashesInBlock * cbHash + dwLastWrite
WritesMakeTheFile ==
  pc = "done" =>
    /\ SizesFit
    /\ \A i \in 0 .. iLastBlock :
         /\ Divides(SectorSize, i * nHashesInBlock * cbHash)
         /\ Divides(SectorSize, cbWrite(i))
         /\ cbWrite(i) <= nHashesInBlock * cbHash
    /\ Written >= eof
    /\ TruncatesTo = 0 => Written = eof
=============================================================================

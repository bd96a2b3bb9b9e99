------------------------------ MODULE Fragment ------------------------------
(***************************************************************************)
(* task.cpp: how a file is cut into fragments, reads and hashed blocks.    *)
(*                                                                         *)
(* CTask::Create derives the geometry from the file size, the block size   *)
(* and the sector size; CFragment::Start, Read and ProcessData walk over   *)
(* a fragment with sector-aligned reads that may begin before it and end   *)
(* behind it.  Fragments do not interact, so one after another is enough;  *)
(* Task models their concurrency.  A digest is represented by the interval *)
(* of file positions that was fed to BCryptHashData.                       *)
(***************************************************************************)
EXTENDS Integers, FiniteSets

CONSTANTS Files,      \* the files and settings: [eof, cbBlock, sector,
                      \* hashMayFail: BCryptHashData may return an error]
          cbIoMin,    \* _64kb
          cbFragMin   \* _1Mb

ASSUME FragmentAssumption ==
  /\ \A f \in Files : /\ {f.eof, f.cbBlock, f.sector} \subseteq Nat \ {0}
                      /\ f.hashMayFail \in BOOLEAN
  /\ cbIoMin \in Nat \ {0}
  /\ cbFragMin \in Nat \ {0}

VARIABLES file,      \* the element of Files being hashed; sector is 1 for cached I/O
          nFragments, bytes,           \* CTask: _nFragments, _dwBytesToProcess
          ByteOffset, Length,          \* CFragment: what is still to read
          x, dwBlock, nHashes,         \* position, bytes left in block, hashes left
          got, n, pb,                  \* bytes of this read, not yet hashed, their position
          hash,      \* the interval hashed so far of the current block, or NoHash
          iBlock,    \* ProcessData's current block
          digests,   \* the intervals completed, by block
          status,    \* the first error, if any
          pc

taskVars == <<file, nFragments, bytes>>
readVars == <<ByteOffset, Length>>
dataVars == <<x, dwBlock, nHashes, got, n, pb, hash, iBlock, digests>>
vars == <<taskVars, readVars, dataVars, status, pc>>

NoHash == <<>>
SmallerOf(a, b) == IF a < b THEN a ELSE b
roundDown(k, m) == k - (k % m)
roundUp(k, m) == IF k % m = 0 THEN k ELSE k - (k % m) + m

\* CTask::Create.
cbIo(f) == IF f.sector < cbIoMin THEN roundUp(cbIoMin, f.sector) ELSE f.sector
cbFragment(f) == IF f.cbBlock < cbFragMin THEN roundUp(cbFragMin, f.cbBlock)
                                          ELSE f.cbBlock
Fragments(f) == (f.eof + cbFragment(f) - 1) \div cbFragment(f)
Blocks(f) == (f.eof + f.cbBlock - 1) \div f.cbBlock
dwBytesInLastRead(f) ==
  (f.eof - roundDown(roundDown(f.eof, cbFragment(f)), f.sector)) % cbIo(f)

\* SetBytesToProcess: one more sector for each fragment that begins inside one.
Straddling(f) == {i \in 0 .. Fragments(f) - 1 : (i * cbFragment(f)) % f.sector # 0}
BytesToProcess(f) == f.eof + Cardinality(Straddling(f)) * f.sector

Init == /\ file \in Files
        /\ nFragments = Fragments(file)
        /\ bytes = BytesToProcess(file)
        /\ ByteOffset = 0 /\ Length = 0
        /\ x = 0 /\ dwBlock = 0 /\ nHashes = 0
        /\ got = 0 /\ n = 0 /\ pb = 0
        /\ hash = NoHash
        /\ iBlock = 0
        /\ digests = [i \in 0 .. Blocks(file) - 1 |-> NoHash]
        /\ status = "success"
        /\ pc = "reuse"

\* A CFragment that fails reports it and is destroyed, with the hash it holds;
\* another one takes the next fragment.
Fail == /\ status' = "failed"
        /\ hash' = NoHash
        /\ pc' = "reuse"

(***************************************************************************)
(* ReUseBlock and CFragment::Start.                                        *)
(***************************************************************************)
\* Reads begin at the sector that holds the first byte, and end with the sector
\* that holds the last.
FirstByte(a) == roundDown(a, file.sector)

\* Hashes of a full fragment (the mutant: one too many).
HashesInFragmentPlus == (cbFragment(file) \div file.cbBlock) + 1
HashesInFragment == cbFragment(file) \div file.cbBlock

Start ==
  /\ pc = "reuse"
  /\ nFragments > 0
  /\ nFragments' = nFragments - 1
  /\ LET a == (nFragments - 1) * cbFragment(file)
         b == SmallerOf(a + cbFragment(file), file.eof)
     IN /\ x' = a
        /\ ByteOffset' = FirstByte(a)
        /\ Length' = roundUp(b, file.sector) - FirstByte(a)
  /\ dwBlock' = file.cbBlock
  /\ nHashes' = HashesInFragment
  /\ pc' = "read"
  /\ UNCHANGED <<file, bytes, got, n, pb, hash, iBlock, digests, status>>

Finish ==
  /\ pc = "reuse"
  /\ nFragments = 0
  /\ pc' = "done"
  /\ UNCHANGED <<taskVars, readVars, dataVars, status>>

(***************************************************************************)
(* CFragment::Read.  The device delivers what the file has; it refuses a   *)
(* read that is not aligned or that begins at the end of the file.         *)
(***************************************************************************)
Wanted == SmallerOf(Length, cbIo(file))
Refused == \/ ByteOffset % file.sector # 0
           \/ Wanted % file.sector # 0
           \/ ByteOffset >= file.eof

Read ==
  /\ pc = "read"
  /\ ~Refused
  /\ got' = SmallerOf(Wanted, file.eof - ByteOffset)
  /\ pc' = "arrived"
  /\ UNCHANGED <<taskVars, readVars, x, dwBlock, nHashes, n, pb, hash, iBlock,
                 digests, status>>

ReadRefused ==
  /\ pc = "read"
  /\ Refused
  /\ Fail
  /\ UNCHANGED <<taskVars, readVars, x, dwBlock, nHashes, got, n, pb, iBlock, digests>>

(***************************************************************************)
(* CFragment::ProcessData.                                                 *)
(***************************************************************************)
bLastBlock == got < cbIo(file)
BadLength == bLastBlock /\ got # Length /\ got # dwBytesInLastRead(file)

\* The block to go on with (the mutant: the one the read began in).
CurrentBlockOfRead == ByteOffset \div file.cbBlock
CurrentBlock == x \div file.cbBlock

\* The part before the loop; "debugbreak" is the assertion that the data does
\* not begin behind the position to go on from.
Arrive ==
  /\ pc = "arrived"
  /\ ~BadLength
  /\ ByteOffset' = ByteOffset + got
  /\ Length' = Length - got
  /\ IF x < ByteOffset
       THEN pc' = "debugbreak" /\ UNCHANGED <<n, pb, iBlock, hash, status>>
       ELSE IF got <= x - ByteOffset
       THEN Fail /\ UNCHANGED <<n, pb, iBlock>>
       ELSE /\ n' = got - (x - ByteOffset)
            /\ pb' = x
            /\ iBlock' = CurrentBlock
            /\ pc' = "hash"
            /\ UNCHANGED <<hash, status>>
  /\ UNCHANGED <<taskVars, x, dwBlock, nHashes, got, digests>>

ArriveBad ==
  /\ pc = "arrived"
  /\ BadLength
  /\ Fail
  /\ UNCHANGED <<taskVars, readVars, x, dwBlock, nHashes, got, n, pb, iBlock, digests>>

\* One turn of the loop: the bytes up to the end of the block or of the data.
HashData ==
  /\ pc = "hash"
  /\ LET cb == SmallerOf(n, dwBlock) IN
       /\ hash' = IF hash = NoHash THEN <<pb, pb + cb>> ELSE <<hash[1], pb + cb>>
       /\ pb' = pb + cb
       /\ x' = x + cb
       /\ n' = n - cb
       /\ dwBlock' = dwBlock - cb
       /\ pc' = IF dwBlock = cb THEN "finish" ELSE IF n = cb THEN "end" ELSE "hash"
  /\ UNCHANGED <<taskVars, readVars, nHashes, got, iBlock, digests, status>>

\* BCryptHashData fails: break, with a hash in hand that lacks these bytes.
HashDataFails ==
  /\ file.hashMayFail
  /\ pc = "hash"
  /\ hash' = IF hash = NoHash THEN <<pb, pb>> ELSE hash
  /\ pc' = "end"
  /\ UNCHANGED <<taskVars, readVars, x, dwBlock, nHashes, got, n, pb, iBlock,
                 digests, status>>

\* The hash in hand is the last of the fragment (the mutant: never).
NeverLastHash == nHashes < 0
LastHash == nHashes = 1

\* __lastBlock: the hash of a block is completed; after the last hash of the
\* fragment ProcessData returns at once.
FinishHash ==
  /\ pc = "finish"
  /\ digests' = [digests EXCEPT ![iBlock] = hash]
  /\ hash' = NoHash
  /\ nHashes' = nHashes - 1
  /\ IF LastHash
       THEN pc' = "return" /\ UNCHANGED <<iBlock, dwBlock>>
       ELSE /\ iBlock' = iBlock + 1
            /\ dwBlock' = file.cbBlock
            /\ pc' = IF n = 0 THEN "end" ELSE "hash"
  /\ UNCHANGED <<taskVars, readVars, x, got, n, pb, status>>

\* A short read not taken for the last.
EndOfDataShort ==
  /\ pc = "end"
  /\ pc' = IF Length = 0 /\ hash # NoHash THEN "finish" ELSE "return"
  /\ UNCHANGED <<taskVars, readVars, dataVars, status>>

\* Behind the loop: a short read was the last, and the last read completes a
\* block the file does not fill.
EndOfData ==
  /\ pc = "end"
  /\ Length' = IF bLastBlock THEN 0 ELSE Length
  /\ pc' = IF Length' = 0 /\ hash # NoHash THEN "finish" ELSE "return"
  /\ UNCHANGED <<taskVars, ByteOffset, dataVars, status>>

\* The rest of IOCompletionRoutine.
Return ==
  /\ pc = "return"
  /\ bytes' = bytes - got
  /\ pc' = IF Length # 0 THEN "read" ELSE "reuse"
  /\ UNCHANGED <<file, nFragments, readVars, dataVars, status>>

Next == \/ Start \/ Finish \/ Read \/ ReadRefused \/ Arrive \/ ArriveBad
        \/ HashData \/ HashDataFails \/ FinishHash \/ EndOfData \/ Return

SafeSpec == Init /\ [][Next]_vars
-----------------------------------------------------------------------------
TypeOK == /\ file \in Files
          /\ nFragments \in 0 .. Fragments(file)
          /\ bytes \in Nat
          /\ {ByteOffset, Length, x, dwBlock, nHashes, got, n, pb, iBlock} \subseteq Nat
          /\ pc \in {"reuse", "read", "arrived", "hash", "finish", "end", "return",
                     "done", "debugbreak"}
          /\ status \in {"success", "failed"}

\* The interval a digest of block i has to cover.
Block(i) == <<i * file.cbBlock, SmallerOf((i + 1) * file.cbBlock, file.eof)>>

\* Unless BCryptHashData fails, a completed hash is the hash of exactly its
\* block, whatever reads the block came in: none lacks a byte or has one of a
\* neighbour.
DigestsExact ==
  ~file.hashMayFail => \A i \in DOMAIN digests : digests[i] \in {NoHash, Block(i)}

\* Even if it does fail, and its status is dropped, no hash is completed twice,
\* although fragments read the sectors they share twice.
HashedOnce ==
  [][\A i \in DOMAIN digests : digests[i] # NoHash => digests'[i] = digests[i]]_vars

\* The counters never go below zero; the pointer into the I/O buffer, the
\* position, the bytes left in the block and the block number, kept apart by the
\* code, agree whenever data is hashed, no block behind the last is begun, and
\* the assertion holds (again unless BCryptHashData fails).
PositionsAgree ==
  /\ TypeOK
  /\ ~file.hashMayFail =>
       /\ pc # "debugbreak"
       /\ pc = "hash" => /\ pb = x
                         /\ iBlock \in DOMAIN digests
                         /\ x + dwBlock = (iBlock + 1) * file.cbBlock
                         /\ x < file.eof
                         /\ nHashes > 0
                         /\ hash # NoHash => hash = <<iBlock * file.cbBlock, x>>

\* The reads of a fragment begin and end at sectors.
Aligned(f) == cbFragment(f) % f.sector = 0

\* Cached files, and files whose fragments begin at sectors, are read without
\* an error of the program's own, hashed completely, and the count of bytes
\* left ends at zero.
AlignedFileIsHashed ==
  Aligned(file) /\ ~file.hashMayFail =>
    /\ status = "success"
    /\ pc = "done" => bytes = 0 /\ \A i \in DOMAIN digests : digests[i] # NoHash

\* What test.cpp asserts of every run.
NoBytesLeft == pc = "done" => bytes = 0
=============================================================================

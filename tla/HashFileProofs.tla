--------------------------- MODULE HashFileProofs ---------------------------
(***************************************************************************)
(* Proofs about hash.h / hash.cpp for any number of CFragments, addresses  *)
(* and hashes, and any size of a CHashBlock.                               *)
(***************************************************************************)
EXTENDS HashFile, FiniteSetTheorems, TLAPS

\* Clients with a hash that has not been counted down in its CHashBlock, those
\* between the two decrements, and the hashes the first decrement has been made for.
Active == {c \in Clients : pc[c] \in {"lock", "hashing", "complete", "counted"}}
Counting == {c \in Clients : pc[c] = "counted"}
Accounted == counted \cup {hash[c] : c \in Counting}

EndInv ==
  /\ alive <=> posted = "none"
  /\ alive => ~kept
  /\ task # "running" => \A c \in Clients : pc[c] = "gone"

\* A hash is asked for once, and belongs to one client until it is counted.
HashInv ==
  /\ counted \subseteq requested
  /\ \A c \in Active : hash[c] \in requested \ counted
  /\ \A c, d \in Active : hash[c] = hash[d] => c = d

\* A part of the file has one CHashBlock, free or not, and a free one has nothing
\* left to complete; who fills a CHashBlock has it occupied for the right part.
PartInv ==
  /\ \A b \in list : idx[b] \in Nat
  /\ \A b1, b2 \in list : idx[b1] = idx[b2] => b1 = b2
  /\ task = "running" => \A b \in list : used[b] \/ todo[b] = 0
  /\ \A c \in Filling : blk[c] \in Occupied /\ idx[blk[c]] = Part(hash[c])

\* A CHashBlock that is full is in one place: with the client that writes it, in
\* flight, or in its completion routine.
FullInv ==
  /\ \A c \in Writing : /\ blk[c] \in Occupied /\ idx[blk[c]] = Part(hash[c])
                        /\ hash[c] \in counted
                        /\ todo[blk[c]] = 0
                        /\ pending[blk[c]] = None /\ blk[c] \notin finishing
  /\ \A c, d \in Writing : blk[c] = blk[d] => c = d
  /\ \A b \in Pool : pending[b] # None =>
       b \in Occupied /\ pending[b] = idx[b] /\ todo[b] = 0 /\ b \notin finishing
  /\ \A b \in finishing : b \in Occupied /\ todo[b] = 0

\* A part of the file some of whose hashes have been counted has its CHashBlock
\* until all of them have.
CounterInv ==
  /\ nBlocks = NBlocks - Cardinality(Accounted)
  /\ Cardinality(Accounted) = Cardinality(counted) + Cardinality(Counting)
  /\ \A b \in list : todo[b] = Cardinality(HashesOf(idx[b]) \ counted)
  /\ alive => \A h \in counted : HashesOf(Part(h)) \subseteq counted \/ Holding(Part(h)) # {}

IInv == /\ RefCountExact /\ NoUseAfterFree
        /\ EndInv /\ HashInv /\ PartInv /\ FullInv /\ CounterInv

-----------------------------------------------------------------------------
(***************************************************************************)
(* Parts of the file and slots of a CHashBlock.                            *)
(***************************************************************************)
\* Division as Part and Slot use it.
LEMMA DivMod ==
  ASSUME NEW h \in Nat, NEW n \in Nat \ {0}
  PROVE  /\ h \div n \in Nat
         /\ h % n \in 0 .. n - 1
         /\ h = n * (h \div n) + (h % n)
         /\ \A i \in Nat : h \div n = i <=> i * n <= h /\ h < i * n + n
<1>1. /\ h \div n \in Nat
      /\ h % n \in 0 .. n - 1
      /\ h = n * (h \div n) + (h % n)
  OBVIOUS
<1>2. ASSUME NEW i \in Nat
      PROVE  h \div n = i <=> i * n <= h /\ h < i * n + n
  BY <1>1
<1>3. QED
  BY <1>1, <1>2

\* A hash has one place in the file.
LEMMA PlaceOfHash ==
  /\ \A h \in Hashes : Part(h) \in Nat /\ Slot(h) \in Slots
  /\ \A g, h \in Hashes : Part(g) = Part(h) /\ Slot(g) = Slot(h) => g = h
<1>1. ASSUME NEW h \in Hashes
      PROVE  /\ Part(h) \in Nat /\ Slot(h) \in Slots
             /\ h = nHashesInBlock * Part(h) + Slot(h)
  <2>1. h \in Nat
    BY HashFileAssumption DEF Hashes
  <2>2. QED
    BY <2>1, HashFileAssumption, DivMod DEF Part, Slot, Slots
<1>2. ASSUME NEW g \in Hashes, NEW h \in Hashes, Part(g) = Part(h), Slot(g) = Slot(h)
      PROVE  g = h
  <2>1. g = nHashesInBlock * Part(g) + Slot(g) /\ h = nHashesInBlock * Part(h) + Slot(h)
    BY <1>1
  <2>2. QED
    BY <1>2, <2>1
<1>3. QED
  BY <1>1, <1>2

\* As many hashes fill a CHashBlock as its part of the file has.
LEMMA HashesOfPart ==
  ASSUME NEW h \in Hashes
  PROVE  /\ HashesToComplete(Part(h)) \in Nat
         /\ Cardinality(HashesOf(Part(h))) = HashesToComplete(Part(h))
<1> DEFINE i == Part(h)
           n == nHashesInBlock
<1>0. NBlocks \in Nat \ {0} /\ n \in Nat \ {0} /\ h \in Nat /\ h < NBlocks /\ i \in Nat
  BY HashFileAssumption, PlaceOfHash DEF Hashes
<1>1. HashesOf(i) = {g \in Hashes : i * n <= g /\ g < i * n + n}
  <2>1. ASSUME NEW g \in Hashes
        PROVE  Part(g) = i <=> i * n <= g /\ g < i * n + n
    <3>1. g \in Nat
      BY HashFileAssumption DEF Hashes
    <3>2. QED
      BY <1>0, <3>1, DivMod DEF Part
  <2>2. QED
    BY <2>1 DEF HashesOf
<1>2. i * n <= h /\ h < i * n + n /\ i * n \in Nat
  BY <1>0, DivMod DEF Part
<1>3. /\ iLastBlock \in Nat /\ nHashesInLastBlock \in 0 .. n - 1
      /\ NBlocks = n * iLastBlock + nHashesInLastBlock
      /\ iLastBlock * n <= NBlocks /\ NBlocks < iLastBlock * n + n
  BY <1>0, DivMod DEF iLastBlock, nHashesInLastBlock
<1>4. CASE i = iLastBlock
  <2>1. HashesOf(i) = i * n .. NBlocks - 1
    BY <1>0, <1>1, <1>2, <1>3, <1>4 DEF Hashes
  <2>2. Cardinality(HashesOf(i)) = nHashesInLastBlock
    BY <1>0, <1>2, <1>3, <1>4, <2>1, FS_Interval
  <2>3. QED
    BY <1>3, <1>4, <2>2 DEF HashesToComplete
<1>5. CASE i # iLastBlock
  <2>1. i < iLastBlock
    BY <1>0, <1>2, <1>3, <1>5
  <2>2. i * n + n <= NBlocks
    BY <1>0, <1>3, <2>1
  <2>3. HashesOf(i) = i * n .. i * n + n - 1
    BY <1>0, <1>1, <1>2, <2>2 DEF Hashes
  <2>4. Cardinality(HashesOf(i)) = n
    BY <1>0, <1>2, <2>3, FS_Interval
  <2>5. QED
    BY <1>0, <1>5, <2>4 DEF HashesToComplete
<1>6. QED
  BY <1>4, <1>5

\* A finite set's cardinality.
LEMMA FiniteCount ==
  ASSUME NEW S, IsFiniteSet(S), NEW T \in SUBSET S
  PROVE  /\ IsFiniteSet(T)
         /\ Cardinality(T) \in Nat
         /\ Cardinality(T) = 0 <=> T = {}
BY FS_Subset, FS_CardinalityType, FS_EmptySet

\* The sets the counters count are finite.
LEMMA CountsFinite ==
  ASSUME TypeOK
  PROVE  /\ IsFiniteSet(Occupied) /\ Cardinality(Occupied) \in Nat
         /\ Cardinality(Occupied) = 0 <=> Occupied = {}
         /\ IsFiniteSet(Releasing) /\ Cardinality(Releasing) \in Nat
         /\ Cardinality(Releasing) = 0 <=> Releasing = {}
         /\ IsFiniteSet(Counting) /\ Cardinality(Counting) \in Nat
         /\ IsFiniteSet(counted) /\ Cardinality(counted) \in Nat
<1>1. Occupied \in SUBSET Pool /\ Releasing \in SUBSET Clients
      /\ Counting \in SUBSET Clients /\ counted \in SUBSET Hashes
  BY DEF TypeOK, Occupied, Releasing, Counting
<1>2. IsFiniteSet(Hashes)
  BY HashFileAssumption, FS_Interval DEF Hashes
<1>3. QED
  BY <1>1, <1>2, HashFileAssumption, FiniteCount

\* Who drops the last reference: nobody can be left who touches the CHashFile.
LEMMA LastReference ==
  ASSUME IInv, refs = 1, releasing > 0 \/ task = "release"
  PROVE  /\ Occupied = {} /\ finishing = {} /\ \A b \in Pool : pending[b] = None
         /\ \A c \in Clients : pc[c] = "gone"
         /\ IF task = "release" THEN releasing = 0 ELSE releasing = 1 /\ task = "done"
<1> USE DEF IInv, RefCountExact
<1>1. alive /\ task \in {"running", "release", "done"} /\ releasing \in Nat
  BY DEF NoUseAfterFree, TypeOK
<1>2. Cardinality(Occupied) = 0
  BY <1>1, CountsFinite
<1>3. Occupied = {}
  BY <1>2, CountsFinite
<1>4. IF task = "release" THEN releasing = 0 ELSE releasing = 1 /\ task = "done"
  BY <1>1, CountsFinite
<1>5. QED
  BY <1>3, <1>4 DEF EndInv, FullInv, TypeOK

\* A client that runs the completion routine itself never drops the last one.
LEMMA NotLastReference ==
  ASSUME IInv, NEW c \in Releasing
  PROVE  alive /\ refs > 1
<1>1. c \in Clients /\ pc[c] = "release" /\ alive /\ task = "running" /\ releasing \in Nat
  BY DEF Releasing, IInv, NoUseAfterFree, EndInv, RefCountExact, TypeOK
<1>2. Cardinality(Releasing) # 0
  BY CountsFinite DEF IInv, RefCountExact
<1>3. QED
  BY <1>1, <1>2, CountsFinite DEF IInv, RefCountExact

\* Any set of hashes can be counted.
LEMMA HashesFinite == \A S \in SUBSET Hashes : IsFiniteSet(S)
<1>1. IsFiniteSet(Hashes)
  BY HashFileAssumption, FS_Interval DEF Hashes
<1>2. QED
  BY <1>1, FS_Subset

\* A CHashBlock that lacks a hash of its part is neither free nor full.
LEMMA LacksHash ==
  ASSUME IInv, NEW b \in list, NEW h \in HashesOf(idx[b]) \ counted
  PROVE  /\ todo[b] > 0
         /\ task = "running" => b \in Occupied
<1>1. IsFiniteSet(HashesOf(idx[b]) \ counted)
  BY HashesFinite DEF HashesOf
<1>2. Cardinality(HashesOf(idx[b]) \ counted) \in Nat \ {0}
  BY <1>1, FiniteCount
<1>3. QED
  BY <1>2 DEF IInv, CounterInv, PartInv, Occupied

\* Who fills a CHashBlock has a hash it lacks.
LEMMA FillingLacks ==
  ASSUME IInv, NEW c \in Filling
  PROVE  /\ c \in Clients /\ task = "running"
         /\ blk[c] \in list /\ blk[c] \in Pool
         /\ hash[c] \in HashesOf(idx[blk[c]]) \ counted
         /\ todo[blk[c]] > 0
<1>1. /\ c \in Clients /\ task = "running" /\ blk[c] \in list
      /\ hash[c] \in HashesOf(idx[blk[c]]) \ counted
  BY DEF IInv, RefCountExact, TypeOK, EndInv, HashInv, PartInv, Filling, Active,
     Occupied, HashesOf
<1>2. blk[c] \in Pool
  BY <1>1 DEF IInv, RefCountExact, TypeOK
<1>3. QED
  BY <1>1, <1>2, LacksHash

\* What CompleteHash counts has not been counted before, so that _nBlocks does
\* not get below zero.
LEMMA HashToCount ==
  ASSUME IInv, NEW c \in Clients, pc[c] = "complete"
  PROVE  /\ hash[c] \notin Accounted
         /\ IsFiniteSet(Accounted)
         /\ nBlocks > 0
<1> USE DEF IInv
<1>1. hash[c] \in Hashes \ counted /\ \A d \in Counting : hash[d] \in Hashes /\ hash[d] # hash[c]
  BY DEF HashInv, Active, Counting, RefCountExact, TypeOK
<1>2. hash[c] \notin Accounted /\ Accounted \subseteq Hashes
  BY <1>1 DEF Accounted, RefCountExact, TypeOK
<1>3. Accounted \in SUBSET (Hashes \ {hash[c]})
  BY <1>2
<1>4. IsFiniteSet(Hashes) /\ Cardinality(Hashes) = NBlocks
  BY HashFileAssumption, FS_Interval DEF Hashes
<1>5. IsFiniteSet(Hashes \ {hash[c]}) /\ Cardinality(Hashes \ {hash[c]}) = NBlocks - 1
  BY <1>1, <1>4, FS_RemoveElement
<1>6. /\ IsFiniteSet(Accounted)
      /\ Cardinality(Accounted) <= NBlocks - 1
      /\ Cardinality(Accounted) \in Nat
  BY <1>3, <1>5, FS_Subset, FS_CardinalityType
<1>7. QED
  BY <1>2, <1>6, HashFileAssumption DEF CounterInv

\* The destructor leaves values of the right types.
LEMMA ReleaseTypes ==
  ASSUME TypeOK, Release, refs > 0
  PROVE  /\ refs' \in Nat /\ list' \subseteq Pool /\ alive' \in BOOLEAN
         /\ kept' \in BOOLEAN /\ ignored' \subseteq {"mark", "truncate", "keep"}
         /\ posted' \in {"none", "success", "fragment", "write"}
<1>1. refs' \in Nat
  BY DEF TypeOK, Release
<1>2. CASE refs = 1
  <2>1. /\ kept' = ("mark" \in ignored' \/ (nBlocks = 0 /\ "keep" \notin ignored'))
        /\ ignored' \subseteq Calls
        /\ list' = {} /\ alive' = FALSE /\ posted' = error
    BY <1>2 DEF Release, Destructor
  <2>2. kept' \in BOOLEAN /\ ignored' \subseteq {"mark", "truncate", "keep"}
    BY <2>1 DEF Calls
  <2>3. QED
    BY <1>1, <2>1, <2>2 DEF TypeOK
<1>3. CASE refs # 1
  BY <1>1, <1>3 DEF TypeOK, Release, endVars
<1>4. QED
  BY <1>2, <1>3

\* Steps that leave the hashes and the counters of CompleteHash alone.
LEMMA CounterFrame ==
  ASSUME CounterInv, UNCHANGED <<nBlocks, counted, idx, todo>>,
         (list' = list /\ alive' = alive) \/ (list' = {} /\ ~alive'),
         Counting' = Counting, \A c \in Counting : hash'[c] = hash[c]
  PROVE  CounterInv'
<1>1. Accounted' = Accounted
  BY DEF Accounted
<1>2. CASE list' = list /\ alive' = alive
  BY <1>1, <1>2 DEF CounterInv, Holding
<1>3. CASE list' = {} /\ ~alive'
  BY <1>1, <1>3 DEF CounterInv
<1>4. QED
  BY <1>2, <1>3

\* A part without a CHashBlock, of which a hash is still to come, lacks them all.
LEMMA NewPart ==
  ASSUME IInv, alive, NEW h \in Hashes \ counted, Holding(Part(h)) = {}
  PROVE  HashesToComplete(Part(h)) = Cardinality(HashesOf(Part(h)) \ counted)
<1>1. h \in HashesOf(Part(h)) /\ \A g \in HashesOf(Part(h)) : Part(g) = Part(h)
  BY DEF HashesOf
<1>2. HashesOf(Part(h)) \cap counted = {}
  BY <1>1 DEF IInv, CounterInv
<1>3. HashesOf(Part(h)) \ counted = HashesOf(Part(h))
  BY <1>2
<1>4. QED
  BY <1>3, HashesOfPart

\* Steps that leave the references alone.
LEMMA RefFrame ==
  ASSUME RefCountExact, TypeOK', UNCHANGED <<refs, releasing, alive, task>>,
         Occupied' = Occupied, Releasing' = Releasing
  PROVE  RefCountExact'
BY DEF RefCountExact

\* Steps in which no client gets a hash and none is counted.
LEMMA HashFrame ==
  ASSUME HashInv, UNCHANGED <<requested, counted>>,
         Active' \subseteq Active, \A c \in Active' : hash'[c] = hash[c]
  PROVE  HashInv'
BY DEF HashInv
-----------------------------------------------------------------------------
(***************************************************************************)
(* The steps, conjunct by conjunct of the invariant.                       *)
(***************************************************************************)
\* The destructor runs once, and after the task is through with the CHashFile.
LEMMA EndStep == IInv /\ [Next]_vars => EndInv'
<1> SUFFICES ASSUME IInv, [Next]_vars PROVE EndInv'
  OBVIOUS
<1> USE HashFileAssumption DEF IInv, RefCountExact, TypeOK, EndInv, NoUseAfterFree,
                              blockVars, ioVars, endVars, jobVars, workVars,
                              fileVars
<1>1. ASSUME NEW c \in Clients,
             (\E h \in Hashes \ requested : GetHashBuffer(c, h)) \/ FindBlock(c) \/ ReuseBlock(c)
             \/ AllocBlock(c) \/ AllocFails(c) \/ FinishHash(c) \/ FragmentFails(c)
             \/ Retire(c) \/ CompleteHash(c) \/ CountDown(c) \/ WriteBlock(c)
             \/ WriteRefused(c) \/ UnlinkInline(c) \/ ReleaseInline(c)
      PROVE  EndInv'
  BY <1>1 DEF GetHashBuffer, FindBlock, ReuseBlock, AllocBlock, AllocFails,
             FinishHash, FragmentFails, Retire, CompleteHash, CountDown, WriteBlock,
             WriteRefused, UnlinkInline, ReleaseInline, Goto, Holding, Free, Occupy,
             AddRef, SetError, After, WriteError, Release, Destructor
<1>2. ASSUME NEW b \in Pool, WriteCompletes(b) PROVE EndInv'
  BY <1>2 DEF WriteCompletes, WriteError, SetError
<1>3. ASSUME NEW b \in Pool, Unlink(b) PROVE EndInv'
  BY <1>3 DEF Unlink
<1>4. CASE ReleaseBlock
  BY <1>4 DEF ReleaseBlock, Release, Destructor
<1>5. CASE Complete
  BY <1>5 DEF Complete, Unfinished
<1>6. CASE TaskRelease
  BY <1>6 DEF TaskRelease, Release, Destructor
<1>7. CASE UNCHANGED vars
  BY <1>7 DEF vars
<1>8. QED
  BY <1>1, <1>2, <1>3, <1>4, <1>5, <1>6, <1>7 DEF Next, ClientStep

\* The destructor runs when nobody is left.
LEMMA UseStep == IInv /\ [Next]_vars => NoUseAfterFree'
<1> SUFFICES ASSUME IInv, [Next]_vars PROVE NoUseAfterFree'
  OBVIOUS
<1> USE HashFileAssumption DEF IInv, RefCountExact, TypeOK, NoUseAfterFree, EndInv,
                              blockVars, ioVars, endVars, jobVars, workVars,
                              fileVars
<1>1. ASSUME NEW c \in Clients,
             (\E h \in Hashes \ requested : GetHashBuffer(c, h)) \/ FindBlock(c) \/ ReuseBlock(c)
             \/ AllocBlock(c) \/ AllocFails(c) \/ FinishHash(c) \/ FragmentFails(c)
             \/ Retire(c) \/ CompleteHash(c) \/ CountDown(c) \/ WriteBlock(c)
             \/ WriteRefused(c) \/ UnlinkInline(c)
      PROVE  NoUseAfterFree'
  BY <1>1 DEF GetHashBuffer, FindBlock, ReuseBlock, AllocBlock, AllocFails,
             FinishHash, FragmentFails, Retire, CompleteHash, CountDown, WriteBlock,
             WriteRefused, UnlinkInline, Goto, Holding, Free, Occupy, AddRef,
             SetError, After, WriteError
<1>2. ASSUME NEW c \in Clients, ReleaseInline(c) PROVE NoUseAfterFree'
  <2>1. refs # 1
    BY <1>2, NotLastReference DEF ReleaseInline, Releasing
  <2>2. QED
    BY <1>2, <2>1 DEF ReleaseInline, Goto, After, Release, Destructor
<1>3. ASSUME NEW b \in Pool, WriteCompletes(b) PROVE NoUseAfterFree'
  BY <1>3 DEF WriteCompletes, WriteError, SetError
<1>4. ASSUME NEW b \in Pool, Unlink(b) PROVE NoUseAfterFree'
  BY <1>4 DEF Unlink
<1>5. CASE ReleaseBlock
  BY <1>5, LastReference DEF ReleaseBlock, Release, Destructor
<1>6. CASE Complete
  BY <1>6 DEF Complete, Unfinished
<1>7. CASE TaskRelease
  BY <1>7, LastReference DEF TaskRelease, Release, Destructor
<1>8. CASE UNCHANGED vars
  BY <1>8 DEF vars
<1>9. QED
  BY <1>1, <1>2, <1>3, <1>4, <1>5, <1>6, <1>7, <1>8 DEF Next, ClientStep

\* No hash is asked for or counted twice.
LEMMA HashStep == IInv /\ [Next]_vars => HashInv'
<1> SUFFICES ASSUME IInv, [Next]_vars PROVE HashInv'
  OBVIOUS
<1> USE HashFileAssumption DEF IInv, RefCountExact, TypeOK, HashInv, Active, None,
                              Hashes, blockVars, ioVars, endVars, jobVars, workVars,
                              fileVars
<1>1. ASSUME NEW c \in Clients,
             FindBlock(c) \/ ReuseBlock(c) \/ AllocBlock(c) \/ AllocFails(c)
             \/ FinishHash(c) \/ FragmentFails(c) \/ Retire(c) \/ CompleteHash(c)
             \/ WriteBlock(c) \/ WriteRefused(c) \/ UnlinkInline(c)
             \/ ReleaseInline(c)
      PROVE  HashInv'
  <2>1. Active' \subseteq Active /\ \A d \in Active' : hash'[d] = hash[d]
    BY <1>1 DEF FindBlock, ReuseBlock, AllocBlock, AllocFails, FinishHash,
             FragmentFails, Retire, CompleteHash, WriteBlock, WriteRefused,
             UnlinkInline, ReleaseInline, Goto, Holding, After
  <2>2. QED
    BY <1>1, <2>1, HashFrame DEF FindBlock, ReuseBlock, AllocBlock, AllocFails,
                              FinishHash, FragmentFails, Retire, CompleteHash,
                              WriteBlock, WriteRefused, UnlinkInline, ReleaseInline,
                              Goto, Holding, Free, Occupy, AddRef, SetError, After,
                              WriteError, Release, Destructor
<1>2. ASSUME NEW c \in Clients, NEW h \in Hashes \ requested, GetHashBuffer(c, h) PROVE HashInv'
  BY <1>2 DEF GetHashBuffer, Goto
<1>3. ASSUME NEW c \in Clients, CountDown(c) PROVE HashInv'
  <2>1. /\ Active' = Active \ {c} /\ c \in Active
        /\ \A d \in Active' : hash'[d] = hash[d]
        /\ counted' = counted \cup {hash[c]} /\ requested' = requested
    <3>1. CASE todo[blk[c]] = 1
      BY <1>3, <3>1 DEF CountDown, Goto
    <3>2. CASE todo[blk[c]] # 1
      BY <1>3, <3>2 DEF CountDown, Goto, After
    <3>3. QED
      BY <3>1, <3>2
  <2>2. QED
    BY <2>1
<1>4. ASSUME NEW b \in Pool, WriteCompletes(b) PROVE HashInv'
  <2>1. Active' \subseteq Active /\ \A d \in Active' : hash'[d] = hash[d]
    BY <1>4 DEF WriteCompletes
  <2>2. QED
    BY <1>4, <2>1, HashFrame DEF WriteCompletes, WriteError, SetError
<1>5. ASSUME NEW b \in Pool, Unlink(b) PROVE HashInv'
  <2>1. Active' \subseteq Active /\ \A d \in Active' : hash'[d] = hash[d]
    BY <1>5 DEF Unlink
  <2>2. QED
    BY <1>5, <2>1, HashFrame DEF Unlink
<1>6. CASE ReleaseBlock
  <2>1. Active' \subseteq Active /\ \A d \in Active' : hash'[d] = hash[d]
    BY <1>6 DEF ReleaseBlock
  <2>2. QED
    BY <1>6, <2>1, HashFrame DEF ReleaseBlock, Release, Destructor
<1>7. CASE Complete
  <2>1. Active' \subseteq Active /\ \A d \in Active' : hash'[d] = hash[d]
    BY <1>7 DEF Complete
  <2>2. QED
    BY <1>7, <2>1, HashFrame DEF Complete, Unfinished
<1>8. CASE TaskRelease
  <2>1. Active' \subseteq Active /\ \A d \in Active' : hash'[d] = hash[d]
    BY <1>8 DEF TaskRelease
  <2>2. QED
    BY <1>8, <2>1, HashFrame DEF TaskRelease, Release, Destructor
<1>9. CASE UNCHANGED vars
  <2>1. Active' \subseteq Active /\ \A d \in Active' : hash'[d] = hash[d]
    BY <1>9 DEF vars
  <2>2. QED
    BY <1>9, <2>1, HashFrame DEF vars
<1>10. QED
  BY <1>1, <1>2, <1>3, <1>4, <1>5, <1>6, <1>7, <1>8, <1>9 DEF Next, ClientStep

\* A CHashBlock keeps its part while it is filled.
LEMMA PartStep == IInv /\ [Next]_vars => PartInv'
<1> SUFFICES ASSUME IInv, [Next]_vars PROVE PartInv'
  OBVIOUS
<1> USE HashFileAssumption DEF IInv, RefCountExact, TypeOK, EndInv, HashInv,
                              PartInv, FullInv, Active, Filling, Writing, Occupied,
                              blockVars, ioVars, endVars, jobVars, workVars,
                              fileVars
<1>1. ASSUME NEW c \in Clients,
             (\E h \in Hashes \ requested : GetHashBuffer(c, h)) \/ AllocFails(c) \/ FinishHash(c)
             \/ FragmentFails(c) \/ Retire(c) \/ CompleteHash(c) \/ CountDown(c)
             \/ WriteBlock(c) \/ WriteRefused(c)
      PROVE  PartInv'
  BY <1>1 DEF GetHashBuffer, AllocFails, FinishHash, FragmentFails, Retire,
             CompleteHash, CountDown, WriteBlock, WriteRefused, Goto, SetError,
             After, WriteError
<1>2. ASSUME NEW c \in Clients, FindBlock(c) PROVE PartInv'
  <2>1. PICK b \in list : idx[b] = Part(hash[c]) /\ blk' = [blk EXCEPT ![c] = b]
    BY <1>2 DEF FindBlock, Holding
  <2>2. hash[c] \in HashesOf(idx[b]) \ counted /\ task = "running"
    BY <1>2, <2>1 DEF FindBlock, HashesOf
  <2>3. b \in Occupied
    BY <2>1, <2>2, LacksHash
  <2>4. QED
    BY <1>2, <2>1, <2>3 DEF FindBlock, Goto
<1>3. ASSUME NEW c \in Clients, ReuseBlock(c) PROVE PartInv'
  <2>1. PICK b \in Free : Occupy(b, Part(hash[c])) /\ blk' = [blk EXCEPT ![c] = b]
    BY <1>3 DEF ReuseBlock
  <2>2. b \in list /\ \A d \in Filling : blk[d] # b
    BY <2>1 DEF Free
  <2>3. Part(hash[c]) \in Nat /\ \A d \in list : idx[d] # Part(hash[c])
    BY <1>3, PlaceOfHash DEF ReuseBlock, Holding
  <2>4. QED
    BY <1>3, <2>1, <2>2, <2>3 DEF ReuseBlock, Occupy, Goto
<1>4. ASSUME NEW c \in Clients, AllocBlock(c) PROVE PartInv'
  <2>1. PICK b \in Pool \ list : /\ Occupy(b, Part(hash[c])) /\ blk' = [blk EXCEPT ![c] = b]
                                 /\ list' = list \cup {b}
    BY <1>4 DEF AllocBlock
  <2>2. \A d \in Filling : blk[d] # b
    BY <2>1
  <2>3. Part(hash[c]) \in Nat /\ \A d \in list : idx[d] # Part(hash[c])
    BY <1>4, PlaceOfHash DEF AllocBlock, Holding
  <2>4. QED
    BY <1>4, <2>1, <2>2, <2>3 DEF AllocBlock, Occupy, Goto
<1>5. ASSUME NEW c \in Clients, UnlinkInline(c) PROVE PartInv'
  <2>1. \A d \in Filling : blk[d] # blk[c]
    BY <1>5, FillingLacks DEF UnlinkInline
  <2>2. QED
    BY <1>5, <2>1 DEF UnlinkInline, Goto
<1>6. ASSUME NEW c \in Clients, ReleaseInline(c) PROVE PartInv'
  <2>1. refs # 1
    BY <1>6, NotLastReference DEF ReleaseInline, Releasing
  <2>2. QED
    BY <1>6, <2>1 DEF ReleaseInline, Goto, After, Release, Destructor
<1>7. ASSUME NEW b \in Pool, WriteCompletes(b) PROVE PartInv'
  BY <1>7 DEF WriteCompletes, WriteError, SetError
<1>8. ASSUME NEW b \in Pool, Unlink(b) PROVE PartInv'
  <2>1. \A d \in Filling : blk[d] # b
    BY <1>8, FillingLacks DEF Unlink
  <2>2. QED
    BY <1>8, <2>1 DEF Unlink
<1>9. CASE ReleaseBlock
  BY <1>9, LastReference DEF ReleaseBlock, Release, Destructor
<1>10. CASE Complete
  BY <1>10 DEF Complete, Unfinished
<1>11. CASE TaskRelease
  BY <1>11, LastReference DEF TaskRelease, Release, Destructor
<1>12. CASE UNCHANGED vars
  BY <1>12 DEF vars
<1>13. QED
  BY <1>1, <1>2, <1>3, <1>4, <1>5, <1>6, <1>7, <1>8, <1>9, <1>10, <1>11, <1>12
     DEF Next, ClientStep

\* A full CHashBlock goes from one owner to the next.
LEMMA FullStep == IInv /\ [Next]_vars => FullInv'
<1> SUFFICES ASSUME IInv, [Next]_vars PROVE FullInv'
  OBVIOUS
<1> USE HashFileAssumption DEF IInv, RefCountExact, TypeOK, EndInv, HashInv,
                              PartInv, FullInv, Active, Filling, Writing, Occupied,
                              blockVars, ioVars, endVars, jobVars, workVars,
                              fileVars
<1>1. ASSUME NEW c \in Clients,
             (\E h \in Hashes \ requested : GetHashBuffer(c, h)) \/ AllocFails(c) \/ FinishHash(c)
             \/ FragmentFails(c) \/ Retire(c) \/ CompleteHash(c)
      PROVE  FullInv'
  BY <1>1 DEF GetHashBuffer, AllocFails, FinishHash, FragmentFails, Retire,
             CompleteHash, Goto, SetError
<1>2. ASSUME NEW c \in Clients, FindBlock(c) PROVE FullInv'
  BY <1>2 DEF FindBlock, Goto, Holding
<1>3. ASSUME NEW c \in Clients, ReuseBlock(c) PROVE FullInv'
  BY <1>3 DEF ReuseBlock, Goto, Holding, Free, Occupy, AddRef
<1>4. ASSUME NEW c \in Clients, AllocBlock(c) PROVE FullInv'
  BY <1>4 DEF AllocBlock, Goto, Holding, Free, Occupy, AddRef
<1>5. ASSUME NEW c \in Clients, CountDown(c) PROVE FullInv'
  <2>1. c \in Filling /\ blk[c] \in Pool /\ todo[blk[c]] > 0
    BY <1>5, FillingLacks DEF CountDown
  <2>2. CASE todo[blk[c]] = 1
    BY <1>5, <2>1, <2>2 DEF CountDown, Goto
  <2>3. CASE todo[blk[c]] # 1
    <3>1. Writing' = Writing /\ \A d \in Writing : hash'[d] = hash[d] /\ blk'[d] = blk[d]
      BY <1>5, <2>3 DEF CountDown, Goto, After
    <3>2. \A b \in Pool : todo[b] = 0 => todo'[b] = 0
      BY <1>5, <2>1 DEF CountDown
    <3>3. QED
      BY <1>5, <3>1, <3>2 DEF CountDown
  <2>4. QED
    BY <2>2, <2>3
<1>6. ASSUME NEW c \in Clients, WriteBlock(c) PROVE FullInv'
  BY <1>6 DEF WriteBlock, Goto, After
<1>7. ASSUME NEW c \in Clients, WriteRefused(c) PROVE FullInv'
  BY <1>7 DEF WriteRefused, Goto, WriteError, SetError
<1>8. ASSUME NEW c \in Clients, UnlinkInline(c) PROVE FullInv'
  BY <1>8 DEF UnlinkInline, Goto
<1>9. ASSUME NEW c \in Clients, ReleaseInline(c) PROVE FullInv'
  <2>1. refs # 1
    BY <1>9, NotLastReference DEF ReleaseInline, Releasing
  <2>2. QED
    BY <1>9, <2>1 DEF ReleaseInline, Goto, After, Release, Destructor
<1>10. ASSUME NEW b \in Pool, WriteCompletes(b) PROVE FullInv'
  BY <1>10 DEF WriteCompletes, WriteError, SetError
<1>11. ASSUME NEW b \in Pool, Unlink(b) PROVE FullInv'
  BY <1>11 DEF Unlink
<1>12. CASE ReleaseBlock
  BY <1>12, LastReference DEF ReleaseBlock, Release, Destructor
<1>13. CASE Complete
  BY <1>13 DEF Complete, Unfinished
<1>14. CASE TaskRelease
  BY <1>14, LastReference DEF TaskRelease, Release, Destructor
<1>15. CASE UNCHANGED vars
  BY <1>15 DEF vars
<1>16. QED
  BY <1>1, <1>2, <1>3, <1>4, <1>5, <1>6, <1>7, <1>8, <1>9, <1>10, <1>11, <1>12,
    <1>13, <1>14, <1>15 DEF Next, ClientStep

\* No counter gets below zero, and no index out of range.
LEMMA TypeStep == IInv /\ [Next]_vars => TypeOK'
<1> SUFFICES ASSUME IInv, [Next]_vars PROVE TypeOK'
  OBVIOUS
<1> USE HashFileAssumption DEF IInv, RefCountExact, TypeOK, blockVars, ioVars,
                              endVars, jobVars, workVars, fileVars
<1>1. ASSUME NEW c \in Clients,
             FragmentFails(c) \/ Retire(c) \/ WriteRefused(c)
      PROVE  TypeOK'
  BY <1>1 DEF FragmentFails, Retire, WriteRefused, Goto, SetError, WriteError
<1>18. ASSUME NEW c \in Clients, AllocFails(c) PROVE TypeOK'
  BY <1>18 DEF AllocFails, Goto
<1>2. ASSUME NEW c \in Clients, NEW h \in Hashes \ requested, GetHashBuffer(c, h) PROVE TypeOK'
  BY <1>2 DEF GetHashBuffer, Goto
<1>3. ASSUME NEW c \in Clients, FindBlock(c) PROVE TypeOK'
  BY <1>3 DEF FindBlock, Goto, Holding
<1>4. ASSUME NEW c \in Clients, ReuseBlock(c) PROVE TypeOK'
  <2>1. Part(hash[c]) \in Nat /\ HashesToComplete(Part(hash[c])) \in Nat
    BY <1>4, PlaceOfHash, HashesOfPart DEF ReuseBlock, HashInv, Active
  <2>2. QED
    BY <1>4, <2>1 DEF ReuseBlock, Free, Occupy, AddRef, Goto
<1>5. ASSUME NEW c \in Clients, AllocBlock(c) PROVE TypeOK'
  <2>1. Part(hash[c]) \in Nat /\ HashesToComplete(Part(hash[c])) \in Nat
    BY <1>5, PlaceOfHash, HashesOfPart DEF AllocBlock, HashInv, Active
  <2>2. QED
    BY <1>5, <2>1 DEF AllocBlock, Occupy, AddRef, Goto
<1>6. ASSUME NEW c \in Clients, FinishHash(c) PROVE TypeOK'
  <2>1. hash[c] \in Hashes
    BY <1>6 DEF FinishHash, HashInv, Active
  <2>2. QED
    BY <1>6, <2>1, PlaceOfHash DEF FinishHash, Goto
<1>7. ASSUME NEW c \in Clients, CompleteHash(c) PROVE TypeOK'
  <2>1. nBlocks > 0
    BY <1>7, HashToCount DEF CompleteHash
  <2>2. QED
    BY <1>7, <2>1 DEF CompleteHash, Goto
<1>8. ASSUME NEW c \in Clients, CountDown(c) PROVE TypeOK'
  <2>1. c \in Filling /\ c \in Active
    BY <1>8 DEF CountDown, Filling, Active
  <2>2. blk[c] \in Pool /\ todo[blk[c]] > 0
    BY <2>1, FillingLacks
  <2>3. hash[c] \in Hashes
    BY <2>1 DEF HashInv
  <2>4. CASE todo[blk[c]] = 1
    BY <1>8, <2>2, <2>3, <2>4 DEF CountDown, Goto
  <2>5. CASE todo[blk[c]] # 1
    <3>1. /\ hash' \in [Clients -> Hashes \cup {None}]
          /\ blk' \in [Clients -> Pool \cup {None}]
          /\ pc' \in [Clients -> {"idle", "lock", "nobuffer", "hashing", "complete",
                                  "counted", "write", "unlink", "release", "gone"}]
      BY <1>8, <2>5 DEF CountDown, Goto, After
    <3>2. todo' \in [Pool -> Nat] /\ counted' \subseteq Hashes
      BY <1>8, <2>2, <2>3 DEF CountDown
    <3>3. QED
      BY <1>8, <3>1, <3>2 DEF CountDown
  <2>6. QED
    BY <2>4, <2>5
<1>9. ASSUME NEW c \in Clients, WriteBlock(c) PROVE TypeOK'
  <2>1. blk[c] \in Occupied
    BY <1>9 DEF WriteBlock, FullInv, Writing
  <2>2. blk[c] \in Pool /\ idx[blk[c]] \in Nat
    BY <2>1 DEF PartInv, Occupied
  <2>3. QED
    BY <1>9, <2>2 DEF WriteBlock, Goto, After
<1>10. ASSUME NEW c \in Clients, UnlinkInline(c) PROVE TypeOK'
  BY <1>10 DEF UnlinkInline, Goto
<1>11. ASSUME NEW c \in Clients, ReleaseInline(c) PROVE TypeOK'
  <2>1. refs # 1 /\ refs > 1
    BY <1>11, NotLastReference DEF ReleaseInline, Releasing
  <2>2. QED
    <3>1. UNCHANGED <<list, alive, kept, ignored, posted>> /\ refs' \in Nat
      BY <1>11, <2>1 DEF ReleaseInline, Release
    <3>2. /\ pc' \in [Clients -> {"idle", "lock", "nobuffer", "hashing", "complete",
                                  "counted", "write", "unlink", "release", "gone"}]
          /\ hash' \in [Clients -> Hashes \cup {None}]
          /\ blk' \in [Clients -> Pool \cup {None}]
      BY <1>11 DEF ReleaseInline, Goto, After
    <3>3. QED
      BY <1>11, <3>1, <3>2 DEF ReleaseInline
<1>12. ASSUME NEW b \in Pool, WriteCompletes(b) PROVE TypeOK'
  <2>1. \A h \in Hashes : buf[b][Slot(h)] \in Hashes \cup {Junk}
    BY PlaceOfHash
  <2>2. disk' \in [Hashes -> Hashes \cup {Junk}]
    BY <1>12, <2>1 DEF WriteCompletes
  <2>3. QED
    BY <1>12, <2>2 DEF WriteCompletes, WriteError, SetError
<1>13. ASSUME NEW b \in Pool, Unlink(b) PROVE TypeOK'
  BY <1>13 DEF Unlink
<1>14. CASE ReleaseBlock
  <2>1. alive
    BY <1>14 DEF ReleaseBlock, NoUseAfterFree
  <2>2. refs > 0
    BY <1>14, <2>1, CountsFinite DEF ReleaseBlock
  <2>3. list' \subseteq Pool /\ kept' \in BOOLEAN /\ alive' \in BOOLEAN
        /\ ignored' \subseteq {"mark", "truncate", "keep"}
        /\ posted' \in {"none", "success", "fragment", "write"} /\ refs' \in Nat
    BY <1>14, <2>2, ReleaseTypes DEF ReleaseBlock
  <2>4. QED
    BY <1>14, <2>3 DEF ReleaseBlock
<1>15. CASE Complete
  <2>1. alive
    BY <1>15 DEF Complete, NoUseAfterFree
  <2>2. Unfinished \in SUBSET Occupied
    BY <1>15 DEF Complete, PartInv, Unfinished, Occupied
  <2>3. Cardinality(Unfinished) \in Nat /\ Cardinality(Unfinished) <= Cardinality(Occupied)
    BY <2>2, CountsFinite, FiniteCount, FS_Subset
  <2>4. refs' \in Nat
    BY <1>15, <2>1, <2>3, CountsFinite DEF Complete
  <2>5. QED
    BY <1>15, <2>4 DEF Complete
<1>16. CASE TaskRelease
  <2>1. alive
    BY <1>16 DEF TaskRelease, NoUseAfterFree
  <2>2. refs > 0
    BY <1>16, <2>1, CountsFinite DEF TaskRelease
  <2>3. list' \subseteq Pool /\ kept' \in BOOLEAN /\ alive' \in BOOLEAN
        /\ ignored' \subseteq {"mark", "truncate", "keep"}
        /\ posted' \in {"none", "success", "fragment", "write"} /\ refs' \in Nat
    BY <1>16, <2>2, ReleaseTypes DEF TaskRelease
  <2>4. QED
    BY <1>16, <2>3 DEF TaskRelease
<1>17. CASE UNCHANGED vars
  BY <1>17 DEF vars
<1>19. QED
  BY <1>1, <1>2, <1>3, <1>4, <1>5, <1>6, <1>7, <1>8, <1>9, <1>10, <1>11, <1>12,
    <1>13, <1>14, <1>15, <1>16, <1>17, <1>18 DEF Next, ClientStep

\* The two counters of CompleteHash.
LEMMA CounterStep == IInv /\ [Next]_vars => CounterInv'
<1> SUFFICES ASSUME IInv, [Next]_vars PROVE CounterInv'
  OBVIOUS
<1> USE DEF IInv, RefCountExact, blockVars, ioVars, endVars, jobVars, workVars,
           fileVars
<1>1. ASSUME NEW c \in Clients,
             (\E h \in Hashes \ requested : GetHashBuffer(c, h)) \/ FindBlock(c) \/ AllocFails(c)
             \/ FinishHash(c) \/ FragmentFails(c) \/ Retire(c) \/ WriteBlock(c)
             \/ WriteRefused(c) \/ UnlinkInline(c) \/ ReleaseInline(c)
      PROVE  CounterInv'
  <2>1. Counting' = Counting /\ \A d \in Counting : hash'[d] = hash[d]
    BY <1>1 DEF TypeOK, Counting, GetHashBuffer, FindBlock, AllocFails, FinishHash,
             FragmentFails, Retire, WriteBlock, WriteRefused, UnlinkInline,
             ReleaseInline, Goto, Holding, After
  <2>2. QED
    BY <1>1, <2>1, CounterFrame DEF GetHashBuffer, FindBlock, AllocFails, FinishHash,
                                 FragmentFails, Retire, WriteBlock, WriteRefused,
                                 UnlinkInline, ReleaseInline, Goto, Holding, SetError,
                                 After, WriteError, Release, Destructor
<1>2. ASSUME NEW c \in Clients, ReuseBlock(c) PROVE CounterInv'
  <2> DEFINE i == Part(hash[c])
  <2>1. PICK b \in Free : Occupy(b, i)
    BY <1>2 DEF ReuseBlock
  <2>2. hash[c] \in Hashes \ counted /\ Holding(i) = {} /\ alive /\ task = "running"
    BY <1>2 DEF ReuseBlock, HashInv, Active, EndInv, NoUseAfterFree, TypeOK
  <2>3. HashesToComplete(i) = Cardinality(HashesOf(i) \ counted)
    BY <2>2, NewPart
  <2>4. b \in list /\ b \in Pool /\ HashesOf(idx[b]) \subseteq counted
    BY <2>1, <2>2, LacksHash DEF Free, PartInv, TypeOK
  <2>5. Counting' = Counting /\ Accounted' = Accounted
    BY <1>2 DEF ReuseBlock, Goto, TypeOK, Counting, Accounted
  <2>6. /\ \A d \in list : idx'[d] = IF d = b THEN i ELSE idx[d]
        /\ \A d \in list : todo'[d] = IF d = b THEN HashesToComplete(i) ELSE todo[d]
    BY <2>1, <2>4 DEF Occupy, TypeOK
  <2>7. \A d \in list : todo'[d] = Cardinality(HashesOf(idx'[d]) \ counted)
    BY <2>3, <2>6 DEF CounterInv
  <2>8. \A h \in counted : HashesOf(Part(h)) \subseteq counted \/ Holding(Part(h))' # {}
    <3>1. SUFFICES ASSUME NEW h \in counted, ~(HashesOf(Part(h)) \subseteq counted)
                   PROVE  Holding(Part(h))' # {}
      OBVIOUS
    <3>2. PICK d \in list : idx[d] = Part(h)
      BY <2>2, <3>1 DEF CounterInv, Holding
    <3>3. d # b
      BY <2>4, <3>1, <3>2
    <3>4. QED
      BY <1>2, <2>6, <3>2, <3>3 DEF Holding, ReuseBlock
  <2>9. QED
    BY <1>2, <2>5, <2>7, <2>8 DEF ReuseBlock, CounterInv
<1>3. ASSUME NEW c \in Clients, AllocBlock(c) PROVE CounterInv'
  <2> DEFINE i == Part(hash[c])
  <2>1. PICK b \in Pool \ list : Occupy(b, i) /\ list' = list \cup {b}
    BY <1>3 DEF AllocBlock
  <2>2. hash[c] \in Hashes \ counted /\ Holding(i) = {} /\ alive
    BY <1>3 DEF AllocBlock, HashInv, Active, NoUseAfterFree, TypeOK
  <2>3. HashesToComplete(i) = Cardinality(HashesOf(i) \ counted)
    BY <2>2, NewPart
  <2>4. Counting' = Counting /\ Accounted' = Accounted
    BY <1>3 DEF AllocBlock, Goto, TypeOK, Counting, Accounted
  <2>5. /\ \A d \in list' : idx'[d] = IF d = b THEN i ELSE idx[d]
        /\ \A d \in list' : todo'[d] = IF d = b THEN HashesToComplete(i) ELSE todo[d]
    BY <2>1 DEF Occupy, TypeOK
  <2>6. \A d \in list' : todo'[d] = Cardinality(HashesOf(idx'[d]) \ counted)
    BY <2>1, <2>3, <2>5 DEF CounterInv
  <2>7. \A h \in counted : HashesOf(Part(h)) \subseteq counted \/ Holding(Part(h))' # {}
    BY <2>1, <2>2, <2>5 DEF CounterInv, Holding
  <2>8. QED
    BY <1>3, <2>4, <2>6, <2>7 DEF AllocBlock, CounterInv
<1>4. ASSUME NEW c \in Clients, CompleteHash(c) PROVE CounterInv'
  <2>1. /\ Counting' = Counting \cup {c} /\ c \notin Counting
        /\ Accounted' = Accounted \cup {hash[c]}
    BY <1>4 DEF CompleteHash, Goto, TypeOK, Counting, Accounted
  <2>2. hash[c] \notin Accounted /\ IsFiniteSet(Accounted)
    BY <1>4, HashToCount DEF CompleteHash
  <2>3. /\ Cardinality(Counting') = Cardinality(Counting) + 1
        /\ Cardinality(Accounted') = Cardinality(Accounted) + 1
    BY <2>1, <2>2, CountsFinite, FS_AddElement
  <2>4. /\ Cardinality(Accounted) \in Nat
        /\ Cardinality(Counting) \in Nat
        /\ Cardinality(counted) \in Nat
    BY <2>2, CountsFinite, FS_CardinalityType
  <2>5. QED
    <3>1. nBlocks' = NBlocks - Cardinality(Accounted')
      BY <1>4, <2>3, <2>4, HashFileAssumption DEF CompleteHash, CounterInv
    <3>2. Cardinality(Accounted') = Cardinality(counted) + Cardinality(Counting')
      BY <2>3, <2>4 DEF CounterInv
    <3>3. QED
      BY <1>4, <3>1, <3>2 DEF CompleteHash, CounterInv, Holding
<1>5. ASSUME NEW c \in Clients, CountDown(c) PROVE CounterInv'
  <2> DEFINE h == hash[c]
             p == blk[c]
  <2>1. c \in Filling /\ c \in Active
    BY <1>5 DEF CountDown, Filling, Active
  <2>2. p \in list /\ p \in Pool /\ todo[p] > 0 /\ h \in HashesOf(idx[p]) \ counted
    BY <2>1, FillingLacks
  <2>3. /\ Counting' = Counting \ {c} /\ c \in Counting
        /\ \A d \in Counting' : hash'[d] = hash[d]
    <3>1. CASE todo[p] = 1
      BY <1>5, <3>1 DEF CountDown, Goto, TypeOK, Counting
    <3>2. CASE todo[p] # 1
      BY <1>5, <3>2 DEF CountDown, Goto, After, TypeOK, Counting
    <3>3. QED
      BY <3>1, <3>2
  <2>4. /\ counted' = counted \cup {h} /\ todo' = [todo EXCEPT ![p] = @ - 1]
        /\ list' = list /\ idx' = idx /\ nBlocks' = nBlocks /\ alive' = alive
    BY <1>5 DEF CountDown
  <2>5. Accounted' = Accounted
    BY <2>3, <2>4 DEF Accounted
  <2>6. /\ Cardinality(Counting') = Cardinality(Counting) - 1
        /\ Cardinality(counted') = Cardinality(counted) + 1
    BY <2>2, <2>3, <2>4, CountsFinite, FS_AddElement, FS_RemoveElement
  <2>7. Cardinality(Counting) \in Nat /\ Cardinality(counted) \in Nat
    BY CountsFinite
  <2>8. todo'[p] = Cardinality(HashesOf(idx[p]) \ counted')
    <3> DEFINE S == HashesOf(idx[p]) \ counted
    <3>1. HashesOf(idx[p]) \ counted' = S \ {h}
      BY <2>4
    <3>2. IsFiniteSet(S) /\ h \in S
      BY <2>2, HashesFinite DEF HashesOf
    <3>3. todo[p] = Cardinality(S)
      BY <2>2 DEF CounterInv
    <3> HIDE DEF S
    <3>4. Cardinality(S \ {h}) = Cardinality(S) - 1
      BY <3>2, FS_RemoveElement
    <3>5. QED
      BY <2>2, <2>4, <3>1, <3>3, <3>4 DEF TypeOK
  <2>9. ASSUME NEW b \in list, b # p
        PROVE  todo'[b] = Cardinality(HashesOf(idx[b]) \ counted')
    <3>1. h \notin HashesOf(idx[b])
      BY <2>2, <2>9 DEF HashesOf, PartInv
    <3>2. HashesOf(idx[b]) \ counted' = HashesOf(idx[b]) \ counted
      BY <2>4, <3>1
    <3>3. todo'[b] = todo[b]
      BY <2>4, <2>9 DEF TypeOK
    <3>4. QED
      BY <3>2, <3>3 DEF CounterInv
  <2>10. p \in Holding(Part(h))
    BY <2>2 DEF HashesOf, Holding
  <2>11. \A g \in counted' : HashesOf(Part(g)) \subseteq counted' \/ Holding(Part(g)) # {} \/ ~alive
    BY <2>4, <2>10 DEF CounterInv
  <2>12. QED
    <3>1. nBlocks' = NBlocks - Cardinality(Accounted')
      BY <2>4, <2>5 DEF CounterInv
    <3>2. Cardinality(Accounted') = Cardinality(counted') + Cardinality(Counting')
      BY <2>5, <2>6, <2>7 DEF CounterInv
    <3>3. \A b \in list' : todo'[b] = Cardinality(HashesOf(idx'[b]) \ counted')
      BY <2>4, <2>8, <2>9
    <3>4. QED
      BY <2>4, <2>11, <3>1, <3>2, <3>3 DEF CounterInv, Holding
<1>6. ASSUME NEW b \in Pool, WriteCompletes(b) PROVE CounterInv'
  <2>1. Counting' = Counting /\ \A d \in Counting : hash'[d] = hash[d]
    BY <1>6 DEF TypeOK, Counting, WriteCompletes
  <2>2. QED
    BY <1>6, <2>1, CounterFrame DEF WriteCompletes, WriteError, SetError
<1>7. ASSUME NEW b \in Pool, Unlink(b) PROVE CounterInv'
  <2>1. Counting' = Counting /\ \A d \in Counting : hash'[d] = hash[d]
    BY <1>7 DEF TypeOK, Counting, Unlink
  <2>2. QED
    BY <1>7, <2>1, CounterFrame DEF Unlink
<1>8. CASE ReleaseBlock
  <2>1. Counting' = Counting /\ \A d \in Counting : hash'[d] = hash[d]
    BY <1>8 DEF TypeOK, Counting, ReleaseBlock
  <2>2. QED
    BY <1>8, <2>1, CounterFrame DEF ReleaseBlock, Release, Destructor
<1>9. CASE Complete
  <2>1. Counting' = Counting /\ \A d \in Counting : hash'[d] = hash[d]
    BY <1>9 DEF TypeOK, Counting, Complete
  <2>2. QED
    BY <1>9, <2>1, CounterFrame DEF Complete, Unfinished
<1>10. CASE TaskRelease
  <2>1. Counting' = Counting /\ \A d \in Counting : hash'[d] = hash[d]
    BY <1>10 DEF TypeOK, Counting, TaskRelease
  <2>2. QED
    BY <1>10, <2>1, CounterFrame DEF TaskRelease, Release, Destructor
<1>11. CASE UNCHANGED vars
  <2>1. Counting' = Counting /\ \A d \in Counting : hash'[d] = hash[d]
    BY <1>11 DEF TypeOK, Counting, vars
  <2>2. QED
    BY <1>11, <2>1, CounterFrame DEF vars
<1>12. QED
  BY <1>1, <1>2, <1>3, <1>4, <1>5, <1>6, <1>7, <1>8, <1>9, <1>10, <1>11
     DEF Next, ClientStep

\* _dwRef.
LEMMA RefCountStep == IInv /\ [Next]_vars => RefCountExact'
<1> SUFFICES ASSUME IInv, [Next]_vars PROVE RefCountExact'
  OBVIOUS
<1> USE DEF IInv, RefCountExact, blockVars, ioVars, endVars, jobVars, workVars,
           fileVars
<1>0. TypeOK' /\ refs \in Nat /\ releasing \in Nat
  BY TypeStep DEF TypeOK
<1>1. ASSUME NEW c \in Clients,
             (\E h \in Hashes \ requested : GetHashBuffer(c, h)) \/ FindBlock(c) \/ AllocFails(c)
             \/ FinishHash(c) \/ FragmentFails(c) \/ Retire(c) \/ CompleteHash(c)
             \/ WriteBlock(c) \/ WriteRefused(c)
      PROVE  RefCountExact'
  <2>1. Occupied' = Occupied /\ Releasing' = Releasing
    BY <1>1 DEF TypeOK, Occupied, Releasing, GetHashBuffer, FindBlock, AllocFails,
             FinishHash, FragmentFails, Retire, CompleteHash, WriteBlock,
             WriteRefused, Goto, Holding, After
  <2>2. QED
    BY <1>1, <1>0, <2>1, RefFrame DEF GetHashBuffer, FindBlock, AllocFails, FinishHash,
                                   FragmentFails, Retire, CompleteHash, WriteBlock,
                                   WriteRefused, Goto, Holding, SetError, After,
                                   WriteError
<1>2. ASSUME NEW c \in Clients, ReuseBlock(c) PROVE RefCountExact'
  <2>1. PICK b \in Free : Occupy(b, Part(hash[c])) /\ list' = list
    BY <1>2 DEF ReuseBlock
  <2>2. Occupied' = Occupied \cup {b} /\ b \notin Occupied
    BY <2>1 DEF TypeOK, Occupied, Free, Occupy
  <2>3. Releasing' = Releasing
    BY <1>2 DEF TypeOK, Releasing, ReuseBlock, Goto
  <2>4. Cardinality(Occupied') = Cardinality(Occupied) + 1
    BY <2>2, CountsFinite, FS_AddElement
  <2>5. refs' = refs + 1 /\ UNCHANGED <<releasing, alive, task>>
    BY <1>2, <2>1 DEF ReuseBlock, Occupy, AddRef
  <2>6. QED
    BY <1>0, <2>3, <2>4, <2>5, CountsFinite
<1>3. ASSUME NEW c \in Clients, AllocBlock(c) PROVE RefCountExact'
  <2>1. PICK b \in Pool \ list : Occupy(b, Part(hash[c])) /\ list' = list \cup {b}
    BY <1>3 DEF AllocBlock
  <2>2. Occupied' = Occupied \cup {b} /\ b \notin Occupied
    BY <2>1 DEF TypeOK, Occupied, Occupy
  <2>3. Releasing' = Releasing
    BY <1>3 DEF TypeOK, Releasing, AllocBlock, Goto
  <2>4. Cardinality(Occupied') = Cardinality(Occupied) + 1
    BY <2>2, CountsFinite, FS_AddElement
  <2>5. refs' = refs + 1 /\ UNCHANGED <<releasing, alive, task>>
    BY <1>3, <2>1 DEF AllocBlock, Occupy, AddRef
  <2>6. QED
    BY <1>0, <2>3, <2>4, <2>5, CountsFinite
<1>4. ASSUME NEW c \in Clients, CountDown(c) PROVE RefCountExact'
  <2>1. Occupied' = Occupied
    BY <1>4 DEF CountDown, Occupied
  <2>2. Releasing' = Releasing
    BY <1>4 DEF TypeOK, Releasing, CountDown, Goto, After
  <2>3. QED
    BY <1>4, <1>0, <2>1, <2>2, RefFrame DEF CountDown
<1>5. ASSUME NEW c \in Clients, UnlinkInline(c) PROVE RefCountExact'
  <2>1. c \in Writing /\ blk[c] \in Occupied
    BY <1>5 DEF UnlinkInline, Writing, FullInv
  <2>2. Occupied' = Occupied \ {blk[c]}
    BY <1>5, <2>1 DEF UnlinkInline, TypeOK, Occupied
  <2>3. Releasing' = Releasing \cup {c} /\ c \notin Releasing
    BY <1>5 DEF UnlinkInline, Goto, TypeOK, Releasing
  <2>4. /\ Cardinality(Occupied') = Cardinality(Occupied) - 1
        /\ Cardinality(Releasing') = Cardinality(Releasing) + 1
    BY <2>1, <2>2, <2>3, CountsFinite, FS_AddElement, FS_RemoveElement
  <2>5. UNCHANGED <<refs, releasing, alive, task>>
    BY <1>5 DEF UnlinkInline
  <2>6. QED
    BY <1>0, <2>4, <2>5, CountsFinite
<1>6. ASSUME NEW c \in Clients, ReleaseInline(c) PROVE RefCountExact'
  <2>1. c \in Releasing /\ refs > 1
    BY <1>6, NotLastReference DEF ReleaseInline, Releasing
  <2>2. refs' = refs - 1 /\ UNCHANGED <<alive, list, used, releasing, task>>
    BY <1>6, <2>1 DEF ReleaseInline, Release
  <2>3. Occupied' = Occupied
    BY <2>2 DEF Occupied
  <2>4. Releasing' = Releasing \ {c}
    BY <1>6 DEF ReleaseInline, After, Goto, TypeOK, Releasing
  <2>5. Cardinality(Releasing') = Cardinality(Releasing) - 1
    BY <2>1, <2>4, CountsFinite, FS_RemoveElement
  <2>6. QED
    BY <1>0, <2>2, <2>3, <2>5, CountsFinite
<1>7. ASSUME NEW b \in Pool, WriteCompletes(b) PROVE RefCountExact'
  <2>1. Occupied' = Occupied /\ Releasing' = Releasing
    BY <1>7 DEF TypeOK, Occupied, Releasing, WriteCompletes
  <2>2. QED
    BY <1>7, <1>0, <2>1, RefFrame DEF WriteCompletes, WriteError, SetError
<1>8. ASSUME NEW b \in Pool, Unlink(b) PROVE RefCountExact'
  <2>1. b \in Occupied
    BY <1>8 DEF Unlink, FullInv
  <2>2. Occupied' = Occupied \ {b}
    BY <1>8 DEF Unlink, TypeOK, Occupied
  <2>3. Cardinality(Occupied') = Cardinality(Occupied) - 1
    BY <2>1, <2>2, CountsFinite, FS_RemoveElement
  <2>4. /\ Releasing' = Releasing
        /\ releasing' = releasing + 1
        /\ UNCHANGED <<refs, alive, task>>
    BY <1>8 DEF Unlink, Releasing
  <2>5. QED
    BY <1>0, <2>3, <2>4, CountsFinite
<1>9. CASE ReleaseBlock
  <2>1. CASE refs = 1
    BY <1>9, <1>0, <2>1 DEF ReleaseBlock, Release, Destructor
  <2>2. CASE refs # 1
    <3>1. Occupied' = Occupied /\ Releasing' = Releasing
      BY <1>9, <2>2 DEF ReleaseBlock, Release, Occupied, Releasing
    <3>2. refs' = refs - 1 /\ releasing' = releasing - 1 /\ UNCHANGED <<alive, task>>
      BY <1>9, <2>2 DEF ReleaseBlock, Release
    <3>3. QED
      BY <1>0, <3>1, <3>2, CountsFinite
  <2>3. QED
    BY <2>1, <2>2
<1>10. CASE Complete
  <2>1. Unfinished \in SUBSET Occupied
    BY <1>10 DEF Complete, PartInv, Unfinished, Occupied
  <2>2. Occupied' = Occupied \ Unfinished
    BY <1>10 DEF Complete, Unfinished, Occupied, TypeOK
  <2>3. Occupied \cap Unfinished = Unfinished
    BY <2>1
  <2>4. Cardinality(Occupied') = Cardinality(Occupied) - Cardinality(Unfinished)
    <3>1. IsFiniteSet(Occupied)
      BY CountsFinite
    <3>2. Cardinality(Occupied \ Unfinished) = Cardinality(Occupied) - Cardinality(Occupied \cap Unfinished)
      BY <3>1, FS_Difference
    <3>3. QED
      BY <2>2, <2>3, <3>2
  <2>5. Cardinality(Unfinished) \in Nat
    BY <2>1, CountsFinite, FiniteCount
  <2>6. /\ Releasing' = Releasing /\ refs' = refs - Cardinality(Unfinished)
        /\ task = "running" /\ task' = "release" /\ UNCHANGED <<alive, releasing>>
    BY <1>10 DEF Complete, Releasing
  <2>7. QED
    BY <1>0, <2>4, <2>5, <2>6, CountsFinite
<1>11. CASE TaskRelease
  <2>1. CASE refs = 1
    BY <1>11, <1>0, <2>1 DEF TaskRelease, Release, Destructor
  <2>2. CASE refs # 1
    <3>1. Occupied' = Occupied /\ Releasing' = Releasing
      BY <1>11, <2>2 DEF TaskRelease, Release, Occupied, Releasing
    <3>2. /\ refs' = refs - 1 /\ task = "release" /\ task' = "done"
          /\ UNCHANGED <<alive, releasing>>
      BY <1>11, <2>2 DEF TaskRelease, Release
    <3>3. QED
      BY <1>0, <3>1, <3>2, CountsFinite
  <2>3. QED
    BY <2>1, <2>2
<1>12. CASE UNCHANGED vars
  <2>1. Occupied' = Occupied /\ Releasing' = Releasing
    BY <1>12 DEF TypeOK, Occupied, Releasing, vars
  <2>2. QED
    BY <1>12, <1>0, <2>1, RefFrame DEF vars
<1>13. QED
  BY <1>1, <1>2, <1>3, <1>4, <1>5, <1>6, <1>7, <1>8, <1>9, <1>10, <1>11, <1>12
     DEF Next, ClientStep

\* The inductive invariant holds when CHashFile::Create has returned,
LEMMA InitIInv == Init => IInv
<1> SUFFICES ASSUME Init PROVE IInv
  OBVIOUS
<1>1. /\ Occupied = {} /\ Releasing = {} /\ Filling = {} /\ Writing = {}
      /\ Active = {} /\ Counting = {} /\ Accounted = {}
  BY DEF Init, Occupied, Releasing, Filling, Writing, Active, Counting, Accounted
<1>2. TypeOK
  BY HashFileAssumption DEF Init, TypeOK, None
<1>3. RefCountExact
  BY <1>1, <1>2, FS_EmptySet DEF Init, RefCountExact
<1>4. NoUseAfterFree /\ EndInv /\ HashInv /\ PartInv /\ FullInv
  BY <1>1 DEF Init, NoUseAfterFree, EndInv, HashInv, PartInv, FullInv
<1>5. CounterInv
  BY <1>1, FS_EmptySet, HashFileAssumption DEF Init, CounterInv
<1>6. QED
  BY <1>3, <1>4, <1>5 DEF IInv

\* and every step of a CFragment or of a completed write keeps it.
LEMMA StepIInv == IInv /\ [Next]_vars => IInv'
BY EndStep, UseStep, HashStep, PartStep, FullStep, CounterStep, RefCountStep DEF IInv

-----------------------------------------------------------------------------
\* Every reachable state of a CHashFile satisfies the inductive invariant.
THEOREM HashFileInvariant == SafeSpec => []IInv
BY InitIInv, StepIInv, PTL DEF SafeSpec

\* _dwRef of the CHashFile is exact for any number of CFragments and CHashBlocks.
THEOREM HashFileRefCountExact == SafeSpec => []RefCountExact
<1>1. IInv => RefCountExact
  BY DEF IInv
<1>2. QED
  BY <1>1, HashFileInvariant, PTL

\* The destructor frees nothing that is still used.
THEOREM HashFileNoUseAfterFree == SafeSpec => []NoUseAfterFree
<1>1. IInv => NoUseAfterFree
  BY DEF IInv
<1>2. QED
  BY <1>1, HashFileInvariant, PTL

\* A CHashBlock stays what GetHashBuffer has promised until the hash is
\* complete, and is the only one of its part.
THEOREM HashFileBlockHoldsPart == SafeSpec => []BlockHoldsPart
<1>1. IInv => BlockHoldsPart
  BY DEF IInv, PartInv, FullInv, BlockHoldsPart, Occupied
<1>2. QED
  BY <1>1, HashFileInvariant, PTL

\* _nBlocks and _nHashesToComplete are exact, in any order of the hashes and for
\* any size of the last part.
THEOREM HashFileCountersExact == SafeSpec => []CountersExact
<1>1. IInv => CountersExact
  <2> SUFFICES ASSUME IInv PROVE CountersExact
    OBVIOUS
  <2>1. Cardinality(counted) \in Nat /\ Cardinality(Counting) \in Nat
    BY CountsFinite DEF IInv, RefCountExact
  <2>2. nBlocks = NBlocks - Cardinality(counted) - Cardinality(Counting)
    BY <2>1, HashFileAssumption DEF IInv, CounterInv
  <2>3. QED
    BY <2>2 DEF IInv, CounterInv, CountersExact, Counting
<1>2. QED
  BY <1>1, HashFileInvariant, PTL

\* No buffer changes while it is written: the client that stores a digest has a
\* CHashBlock that lacks it, and one that is in flight lacks none.
THEOREM HashFileWrittenBufferStable == SafeSpec => WrittenBufferStable
<1> DEFINE Stable == \A b \in Pool : pending[b] # None /\ pending'[b] = pending[b]
                                       => buf'[b] = buf[b]
<1>1. IInv /\ [Next]_vars => [Stable]_vars
  <2> SUFFICES ASSUME IInv, Next, NEW b \in Pool, pending[b] # None
               PROVE  buf'[b] = buf[b]
    BY DEF vars
  <2> USE DEF blockVars, ioVars, fileVars
  <2>1. /\ b \in Occupied
        /\ b \in list
        /\ todo[b] = 0
        /\ buf \in [Pool -> [Slots -> Hashes \cup {Junk}]]
    BY DEF IInv, FullInv, RefCountExact, TypeOK, Occupied
  <2>2. ASSUME NEW c \in Clients, FinishHash(c) PROVE buf'[b] = buf[b]
    <3>1. blk[c] # b
      BY <2>1, <2>2, FillingLacks DEF FinishHash, Filling
    <3>2. QED
      BY <2>1, <2>2, <3>1 DEF FinishHash
  <2>3. ASSUME NEW c \in Clients, AllocBlock(c) PROVE buf'[b] = buf[b]
    BY <2>1, <2>3 DEF AllocBlock
  <2>4. QED
    BY <2>2, <2>3
    DEF Next, ClientStep, GetHashBuffer, FindBlock, ReuseBlock, AllocFails,
        FragmentFails, Retire, CompleteHash, CountDown, WriteBlock, WriteRefused,
        UnlinkInline, ReleaseInline, WriteCompletes, Unlink, ReleaseBlock, Complete,
        TaskRelease
<1>2. QED
  BY <1>1, HashFileInvariant, PTL DEF SafeSpec, WrittenBufferStable

-----------------------------------------------------------------------------
(***************************************************************************)
(* That HashFile implements HashStore: the argument above about counters   *)
(* and references, and on top of it where the hashes themselves are.       *)
(***************************************************************************)
\* A hash that is in the file is not written again.
DiskInv ==
  \A h \in Hashes : disk[h] = h =>
    /\ HashesOf(Part(h)) \subseteq counted
    /\ \A b \in Pool : pending[b] # Part(h)
    /\ \A c \in Clients : pc[c] = "write" => Part(hash[c]) # Part(h)

\* While there is no error, whoever has asked for a hash is on the way to complete
\* it, or about to report that there is no buffer for it; and once somebody has asked,
\* who may still ask is there as long as there are hashes to ask for.
Asking == Active \cup {c \in Clients : pc[c] = "nobuffer"}
PathInv ==
  error = "success" =>
    /\ dying = {}
    /\ \A c \in Clients : pc[c] \notin {"unlink", "release"}
    /\ requested \in {{}, Hashes} \/ \E c \in Clients : pc[c] # "gone"
    /\ \A h \in requested \ counted : \E c \in Asking : hash[c] = h

\* And every digest that is ready is at its place in a CHashBlock or in the file.
PlaceInv ==
  error = "success" =>
    /\ \A c \in Clients : pc[c] \in {"complete", "counted"} =>
                            buf[blk[c]][Slot(hash[c])] = hash[c]
    /\ \A b \in list, h \in counted : idx[b] = Part(h) => buf[b][Slot(h)] = h
    /\ \A h \in counted : \/ disk[h] = h
                          \/ \E b \in Occupied \ finishing : idx[b] = Part(h)

StoreInv == IInv /\ DiskInv /\ PathInv /\ PlaceInv

\* The hashes of a CHashBlock that lacks none are counted.
LEMMA LacksNone ==
  ASSUME IInv, NEW b \in list, todo[b] = 0
  PROVE  HashesOf(idx[b]) \subseteq counted
BY LacksHash

\* Nothing is counted yet of a part without a CHashBlock that still lacks a hash.
LEMMA NothingCounted ==
  ASSUME IInv, NEW c \in Clients, pc[c] = "lock", Holding(Part(hash[c])) = {}
  PROVE  \A h \in counted : Part(h) # Part(hash[c])
<1>1. alive /\ hash[c] \in Hashes \ counted
  BY DEF IInv, NoUseAfterFree, HashInv, Active, RefCountExact, TypeOK
<1>2. \A h \in counted : Part(h) = Part(hash[c]) => hash[c] \in HashesOf(Part(h))
  BY <1>1 DEF HashesOf
<1>3. QED
  BY <1>1, <1>2 DEF IInv, CounterInv
-----------------------------------------------------------------------------

\* A part is written once: by then all its hashes are counted, and there is no
\* other CHashBlock of it, in flight or about to be.
LEMMA DiskStep == StoreInv /\ [Next]_vars => DiskInv'
<1> SUFFICES ASSUME StoreInv, [Next]_vars PROVE DiskInv'
  OBVIOUS
<1> USE HashFileAssumption DEF StoreInv, IInv, RefCountExact, TypeOK, DiskInv,
                              blockVars, ioVars, endVars, jobVars, workVars,
                              fileVars
<1>1. ASSUME NEW c \in Clients,
             (\E h \in Hashes \ requested : GetHashBuffer(c, h)) \/ FindBlock(c) \/ ReuseBlock(c)
             \/ AllocBlock(c) \/ AllocFails(c) \/ FinishHash(c) \/ FragmentFails(c)
             \/ Retire(c) \/ CompleteHash(c) \/ WriteRefused(c) \/ UnlinkInline(c)
             \/ ReleaseInline(c)
      PROVE  DiskInv'
  BY <1>1 DEF GetHashBuffer, FindBlock, ReuseBlock, AllocBlock, AllocFails,
             FinishHash, FragmentFails, Retire, CompleteHash, WriteRefused,
             UnlinkInline, ReleaseInline, Goto, Holding, Free, Occupy, AddRef,
             SetError, WriteError, After, Release, Destructor
<1>2. ASSUME NEW c \in Clients, CountDown(c) PROVE DiskInv'
  <2>1. hash[c] \in Hashes \ counted
    BY <1>2 DEF CountDown, HashInv, Active
  <2>2. \A h \in Hashes : disk[h] = h => Part(hash[c]) # Part(h)
    BY <2>1 DEF HashesOf
  <2>3. /\ \A d \in Clients : pc'[d] = "write" => (d = c \/ pc[d] = "write") /\ hash'[d] = hash[d]
        /\ counted \subseteq counted' /\ UNCHANGED <<disk, pending>>
    BY <1>2 DEF CountDown, Goto, After
  <2>4. QED
    BY <2>2, <2>3
<1>3. ASSUME NEW c \in Clients, WriteBlock(c) PROVE DiskInv'
  <2>1. blk[c] \in Pool /\ idx[blk[c]] = Part(hash[c])
    BY <1>3 DEF WriteBlock, FullInv, Writing, Occupied
  <2>2. \A h \in Hashes : disk[h] = h => Part(hash[c]) # Part(h)
    BY <1>3 DEF WriteBlock
  <2>3. /\ \A d \in Clients : pc'[d] = "write" => pc[d] = "write" /\ hash'[d] = hash[d]
        /\ \A b \in Pool : pending'[b] = IF b = blk[c] THEN Part(hash[c]) ELSE pending[b]
        /\ UNCHANGED <<disk, counted>>
    BY <1>3, <2>1 DEF WriteBlock, Goto, After
  <2>4. QED
    BY <2>2, <2>3
<1>4. ASSUME NEW b \in Pool, WriteCompletes(b) PROVE DiskInv'
  <2>1. b \in list /\ pending[b] = idx[b] /\ todo[b] = 0 /\ pending[b] # None
    BY <1>4 DEF WriteCompletes, FullInv, Occupied
  <2>2. HashesOf(pending[b]) \subseteq counted
    BY <2>1, LacksNone
  <2>3. /\ \A b2 \in Pool : pending'[b2] = IF b2 = b THEN None ELSE pending[b2]
        /\ UNCHANGED <<pc, hash, counted>>
    BY <1>4 DEF WriteCompletes
  <2>4. \A h \in Hashes : disk'[h] = h => disk[h] = h \/ Part(h) = pending[b]
    BY <1>4 DEF WriteCompletes
  <2>5. \A b2 \in Pool : b2 # b => pending[b2] # pending[b]
    BY <2>1 DEF FullInv, PartInv, Occupied, None
  <2>6. \A c \in Clients : pc[c] = "write" => Part(hash[c]) # pending[b]
    BY <2>1 DEF FullInv, PartInv, Occupied, Writing
  <2>7. \A h \in Hashes : Part(h) # None
    BY PlaceOfHash DEF None
  <2>8. QED
    BY <2>2, <2>3, <2>4, <2>5, <2>6, <2>7
<1>5. ASSUME NEW b \in Pool, Unlink(b) PROVE DiskInv'
  BY <1>5 DEF Unlink
<1>6. CASE ReleaseBlock
  BY <1>6 DEF ReleaseBlock, Release, Destructor
<1>7. CASE Complete
  BY <1>7 DEF Complete, Unfinished
<1>8. CASE TaskRelease
  BY <1>8 DEF TaskRelease, Release, Destructor
<1>9. CASE UNCHANGED vars
  BY <1>9 DEF vars
<1>10. QED
  BY <1>1, <1>2, <1>3, <1>4, <1>5, <1>6, <1>7, <1>8, <1>9 DEF Next, ClientStep

\* Without an error nobody leaves a hash unfinished.
LEMMA PathStep == StoreInv /\ [Next]_vars => PathInv'
<1> SUFFICES ASSUME StoreInv, [Next]_vars PROVE PathInv'
  OBVIOUS
<1> USE HashFileAssumption DEF StoreInv, IInv, RefCountExact, TypeOK, PathInv,
                              HashInv, Active, Asking, None, blockVars, ioVars,
                              endVars, jobVars, workVars, fileVars
<1>1. ASSUME NEW c \in Clients,
             (\E h \in Hashes \ requested : GetHashBuffer(c, h)) \/ FindBlock(c) \/ ReuseBlock(c)
             \/ AllocBlock(c) \/ AllocFails(c) \/ FinishHash(c) \/ FragmentFails(c)
             \/ Retire(c) \/ CompleteHash(c) \/ WriteBlock(c) \/ WriteRefused(c)
             \/ UnlinkInline(c) \/ ReleaseInline(c)
      PROVE  PathInv'
  BY <1>1 DEF GetHashBuffer, FindBlock, ReuseBlock, AllocBlock, AllocFails,
             FinishHash, FragmentFails, Retire, CompleteHash, WriteBlock,
             WriteRefused, UnlinkInline, ReleaseInline, Goto, Holding, Free, Occupy,
             AddRef, SetError, After, WriteError, Release, Destructor
<1>2. ASSUME NEW c \in Clients, CountDown(c) PROVE PathInv'
  <2>1. /\ \A d \in Clients : d # c => pc'[d] = pc[d] /\ hash'[d] = hash[d]
        /\ pc'[c] \in {"write", "idle", "gone"} /\ (dying = {} => pc'[c] # "gone")
        /\ counted' = counted \cup {hash[c]}
        /\ UNCHANGED <<error, dying, requested>>
    BY <1>2 DEF CountDown, Goto, After
  <2>2. QED
    BY <2>1
<1>3. ASSUME NEW b \in Pool, WriteCompletes(b) PROVE PathInv'
  BY <1>3 DEF WriteCompletes, WriteError, SetError
<1>4. ASSUME NEW b \in Pool, Unlink(b) PROVE PathInv'
  BY <1>4 DEF Unlink
<1>5. CASE ReleaseBlock
  BY <1>5 DEF ReleaseBlock, Release, Destructor
<1>6. CASE Complete
  BY <1>6 DEF Complete, Unfinished
<1>7. CASE TaskRelease
  BY <1>7 DEF TaskRelease, Release, Destructor
<1>8. CASE UNCHANGED vars
  BY <1>8 DEF vars
<1>9. QED
  BY <1>1, <1>2, <1>3, <1>4, <1>5, <1>6, <1>7, <1>8 DEF Next, ClientStep

\* Digests are stored before they are counted, and stay where they are.
LEMMA PlaceStep == StoreInv /\ [Next]_vars => PlaceInv'
<1> SUFFICES ASSUME StoreInv, [Next]_vars PROVE PlaceInv'
  OBVIOUS
<1> USE HashFileAssumption DEF StoreInv, IInv, RefCountExact, TypeOK, PlaceInv, PartInv,
                              FullInv, HashInv, Active, Filling,
                              Writing, Occupied, None, blockVars, ioVars, endVars,
                              jobVars, workVars, fileVars
<1>1. ASSUME NEW c \in Clients,
             (\E h \in Hashes \ requested : GetHashBuffer(c, h)) \/ FindBlock(c) \/ AllocFails(c)
             \/ FragmentFails(c) \/ Retire(c) \/ WriteRefused(c)
      PROVE  PlaceInv'
  BY <1>1 DEF GetHashBuffer, FindBlock, AllocFails, FragmentFails, Retire,
             WriteRefused, Goto, Holding, SetError, WriteError
<1>14. ASSUME NEW c \in Clients, CompleteHash(c) \/ WriteBlock(c) \/ UnlinkInline(c)
      PROVE  PlaceInv'
  BY <1>14, PlaceOfHash DEF CompleteHash, WriteBlock, UnlinkInline, Goto, After, PathInv
<1>2. ASSUME NEW c \in Clients, ReuseBlock(c) PROVE PlaceInv'
  <2>0. PICK b \in Free : Occupy(b, Part(hash[c]))
    BY <1>2 DEF ReuseBlock
  <2>1. /\ b \in list /\ b \in Pool /\ ~used[b]
        /\ \A b2 \in Pool : b2 # b => idx'[b2] = idx[b2] /\ used'[b2] = used[b2]
        /\ idx'[b] = Part(hash[c])
    BY <2>0 DEF Free, Occupy
  <2>2. \A h \in counted : Part(h) # Part(hash[c])
    BY <1>2, NothingCounted DEF ReuseBlock
  <2>3. /\ \A d \in Clients : pc'[d] \in {"complete", "counted"} =>
                               pc'[d] = pc[d] /\ hash'[d] = hash[d] /\ blk'[d] = blk[d]
        /\ UNCHANGED <<list, buf, counted, finishing, disk, error>>
    BY <1>2 DEF ReuseBlock, Goto
  <2>4. QED
    BY <2>1, <2>2, <2>3
<1>3. ASSUME NEW c \in Clients, AllocBlock(c) PROVE PlaceInv'
  <2>0. PICK b \in Pool \ list : /\ Occupy(b, Part(hash[c])) /\ list' = list \cup {b}
                                 /\ buf' = [buf EXCEPT ![b] = [s \in Slots |-> Junk]]
    BY <1>3 DEF AllocBlock
  <2>1. /\ \A b2 \in list : /\ b2 # b /\ idx'[b2] = idx[b2]
                              /\ used'[b2] = used[b2] /\ buf'[b2] = buf[b2]
        /\ idx'[b] = Part(hash[c]) /\ list' = list \cup {b}
    <3>1. \A b2 \in list : b2 \in Pool /\ b2 # b
      BY <2>0
    <3>2. \A b2 \in Pool : b2 # b => /\ idx'[b2] = idx[b2] /\ used'[b2] = used[b2]
                                    /\ buf'[b2] = buf[b2]
      BY <2>0 DEF Occupy
    <3>3. b \in Pool /\ idx'[b] = Part(hash[c])
      BY <2>0 DEF Occupy
    <3>4. QED
      BY <2>0, <3>1, <3>2, <3>3
  <2>2. \A h \in counted : Part(h) # Part(hash[c])
    BY <1>3, NothingCounted DEF AllocBlock
  <2>3. /\ \A d \in Clients : pc'[d] \in {"complete", "counted"} =>
                               pc'[d] = pc[d] /\ hash'[d] = hash[d] /\ blk'[d] = blk[d]
        /\ UNCHANGED <<counted, finishing, disk, error>>
    BY <1>3 DEF AllocBlock, Goto
  <2>4. QED
    BY <2>1, <2>2, <2>3
<1>4. ASSUME NEW c \in Clients, FinishHash(c) PROVE PlaceInv'
  <2>1. /\ blk[c] \in list /\ blk[c] \in Pool /\ idx[blk[c]] = Part(hash[c])
        /\ hash[c] \in Hashes \ counted
    BY <1>4 DEF FinishHash
  <2>2. \A b \in Pool, s \in Slots :
          buf'[b][s] = IF b = blk[c] /\ s = Slot(hash[c]) THEN hash[c] ELSE buf[b][s]
    BY <1>4 DEF FinishHash
  <2>3. /\ \A d \in Clients : pc'[d] = IF d = c THEN "complete" ELSE pc[d]
        /\ UNCHANGED <<list, idx, used, hash, blk, counted, finishing, disk, error>>
    BY <1>4 DEF FinishHash, Goto
  <2>4. ASSUME NEW d \in Clients, d # c, pc[d] \in {"complete", "counted"}
        PROVE  /\ blk[d] \in Pool /\ hash[d] \in Hashes
               /\ blk[d] = blk[c] => Slot(hash[d]) # Slot(hash[c])
    <3>1. /\ blk[d] \in Pool
          /\ idx[blk[d]] = Part(hash[d])
          /\ hash[d] \in Hashes
          /\ hash[d] # hash[c]
      BY <1>4, <2>4 DEF FinishHash
    <3>2. QED
      BY <2>1, <3>1, PlaceOfHash
  <2>5. ASSUME NEW h \in counted, idx[blk[c]] = Part(h) PROVE Slot(h) # Slot(hash[c])
    <3>1. h \in Hashes /\ h # hash[c]
      BY <2>1
    <3>2. Part(h) = Part(hash[c])
      BY <2>1, <2>5
    <3>3. QED
      BY <2>1, <3>1, <3>2, PlaceOfHash
  <2>6. /\ \A d \in Clients : pc'[d] \in {"complete", "counted"} =>
                               Slot(hash[d]) \in Slots /\ blk[d] \in Pool
        /\ \A h \in counted : Slot(h) \in Slots
    BY <2>1, <2>3, <2>4, PlaceOfHash
  <2>7. ASSUME error = "success"
        PROVE  /\ \A d \in Clients : pc'[d] \in {"complete", "counted"} =>
                                      buf'[blk[d]][Slot(hash[d])] = hash[d]
               /\ \A b \in list, h \in counted : idx[b] = Part(h) => buf'[b][Slot(h)] = h
    <3>1. \A d \in Clients : pc'[d] \in {"complete", "counted"} =>
                             buf'[blk[d]][Slot(hash[d])] = hash[d]
      BY <2>2, <2>3, <2>4, <2>6, <2>7
    <3>2. \A b \in list, h \in counted : idx[b] = Part(h) => buf'[b][Slot(h)] = h
      BY <2>2, <2>5, <2>6, <2>7
    <3>3. QED
      BY <3>1, <3>2
  <2>8. QED
    BY <2>3, <2>7
<1>5. ASSUME NEW c \in Clients, CountDown(c) PROVE PlaceInv'
  <2>1. /\ blk[c] \in Occupied \ finishing /\ idx[blk[c]] = Part(hash[c])
    BY <1>5, FillingLacks DEF CountDown
  <2>2. \A b \in list : idx[b] = Part(hash[c]) => b = blk[c]
    BY <2>1
  <2>3. error = "success" => buf[blk[c]][Slot(hash[c])] = hash[c]
    BY <1>5 DEF CountDown
  <2>4. /\ \A d \in Clients : pc'[d] \in {"complete", "counted"} =>
                               pc'[d] = pc[d] /\ hash'[d] = hash[d] /\ blk'[d] = blk[d]
        /\ counted' = counted \cup {hash[c]}
        /\ UNCHANGED <<list, idx, used, buf, finishing, disk, error>>
    BY <1>5 DEF CountDown, Goto, After
  <2>5. QED
    BY <2>1, <2>2, <2>3, <2>4
<1>6. ASSUME NEW c \in Clients, ReleaseInline(c) PROVE PlaceInv'
  <2>1. refs # 1
    BY <1>6, NotLastReference DEF ReleaseInline, Releasing
  <2>2. /\ \A d \in Clients : pc'[d] \in {"complete", "counted"} =>
                               pc'[d] = pc[d] /\ hash'[d] = hash[d] /\ blk'[d] = blk[d]
        /\ UNCHANGED <<list, idx, used, buf, counted, finishing, disk, error>>
    BY <1>6, <2>1 DEF ReleaseInline, Goto, After, Release
  <2>3. QED
    BY <2>2
<1>7. ASSUME NEW b \in Pool, WriteCompletes(b) PROVE PlaceInv'
  BY <1>7 DEF WriteCompletes, WriteError, SetError
<1>8. ASSUME NEW b \in Pool, Unlink(b) PROVE PlaceInv'
  BY <1>8 DEF Unlink
<1>9. CASE ReleaseBlock
  BY <1>9, LastReference DEF ReleaseBlock, Release, Destructor
<1>10. CASE Complete
  <2>1. ASSUME error = "success", requested # {} PROVE Unfinished = {}
    <3>1. \A h \in Hashes : h \in counted
      <4>1. Asking = {} /\ requested = Hashes
        BY <1>10, <2>1 DEF Complete, Asking, PathInv
      <4>2. QED
        BY <2>1, <4>1 DEF PathInv
    <3>2. \A b \in list : HashesOf(idx[b]) \ counted = {}
      BY <3>1 DEF HashesOf
    <3>3. QED
      BY <3>2, FS_EmptySet DEF CounterInv, Unfinished
  <2>2. error = "success" /\ requested # {} => Occupied' = Occupied
    BY <1>10, <2>1 DEF Complete
  <2>3. UNCHANGED <<list, idx, buf, pc, hash, blk, counted, finishing, disk, error>>
    BY <1>10 DEF Complete
  <2>4. requested = {} => counted = {}
    OBVIOUS
  <2>5. \A c \in Clients : pc[c] = "gone"
    BY <1>10 DEF Complete
  <2>6. QED
    BY <2>2, <2>3, <2>4, <2>5
<1>11. CASE TaskRelease
  BY <1>11, LastReference DEF TaskRelease, Release, Destructor
<1>12. CASE UNCHANGED vars
  BY <1>12 DEF vars
<1>15. QED
  BY <1>1, <1>2, <1>3, <1>4, <1>5, <1>6, <1>7, <1>8, <1>9, <1>10, <1>11, <1>12,
    <1>14
     DEF Next, ClientStep

\* What ties the lists to the store holds at first,
LEMMA InitStoreInv == Init => StoreInv
<1> SUFFICES ASSUME Init PROVE StoreInv
  OBVIOUS
<1>1. \A h \in Hashes : disk[h] # h
  BY HashFileAssumption DEF Init, Hashes
<1>2. DiskInv
  BY <1>1 DEF DiskInv
<1>3. PathInv
  BY DEF Init, PathInv
<1>4. PlaceInv
  BY DEF Init, PlaceInv
<1>5. QED
  BY <1>2, <1>3, <1>4, InitIInv DEF StoreInv

\* and every step keeps it.
LEMMA StepStoreInv == StoreInv /\ [Next]_vars => StoreInv'
BY StepIInv, DiskStep, PathStep, PlaceStep DEF StoreInv

-----------------------------------------------------------------------------
(***************************************************************************)
(* The steps of HashStore.                                                 *)
(***************************************************************************)
Stored == {h \in Hashes : disk[h] = h}

\* When the destructor runs without an error, the file is complete, or nobody has
\* asked for a hash; and it finds _nBlocks at zero exactly if all hashes were given.
LEMMA AllStored ==
  ASSUME StoreInv, refs = 1, releasing > 0 \/ task = "release"
  PROVE  /\ error = "success" => (Stored = Hashes /\ counted = Hashes) \/ requested = {}
         /\ nBlocks = 0 <=> counted = Hashes
<1>1. Occupied = {} /\ \A c \in Clients : pc[c] = "gone"
  BY LastReference DEF StoreInv
<1>2. Asking = {} /\ Counting = {}
  BY <1>1 DEF Asking, Active, Counting
<1>3. ASSUME error = "success", requested # {} PROVE Stored = Hashes /\ counted = Hashes
  <2>1. requested = Hashes
    BY <1>1, <1>3 DEF StoreInv, PathInv
  <2>2. \A h \in Hashes : h \in counted
    BY <1>2, <1>3, <2>1 DEF StoreInv, PathInv
  <2>3. \A h \in Hashes : disk[h] = h
    BY <1>1, <1>3, <2>2 DEF StoreInv, PlaceInv
  <2>4. QED
    BY <2>2, <2>3 DEF Stored, StoreInv, IInv, RefCountExact, TypeOK
<1>4. Accounted = counted /\ counted \subseteq Hashes
  BY <1>2 DEF Accounted, StoreInv, IInv, RefCountExact, TypeOK
<1>5. IsFiniteSet(Hashes) /\ Cardinality(Hashes) = NBlocks
  BY HashFileAssumption, FS_Interval DEF Hashes
<1>6. nBlocks = NBlocks - Cardinality(counted)
  BY <1>4 DEF StoreInv, IInv, CounterInv
<1>7. Cardinality(counted) \in Nat /\ (Cardinality(counted) = NBlocks => counted = Hashes)
  BY <1>4, <1>5, FS_Subset, FS_CardinalityType
<1>8. nBlocks = 0 <=> counted = Hashes
  BY <1>5, <1>6, <1>7, HashFileAssumption
<1>9. QED
  BY <1>3, <1>8

\* The destructor posts the verdict the abstract store allows, and keeps the file
\* when the store does.
LEMMA DestructorStep ==
  ASSUME StoreInv, releasing > 0 \/ task = "release", Release,
         UNCHANGED <<disk, error, counted>>
  PROVE  [Store!Next]_(Store!vars)
<1> USE DEF endVars
<1>1. CASE refs = 1
  <2>1. /\ posted = "none" /\ posted' = error /\ UNCHANGED <<disk, counted>>
        /\ ignored' \subseteq Calls
        /\ kept' = ("mark" \in ignored' \/ (nBlocks = 0 /\ "keep" \notin ignored'))
        /\ error \in {"success", "fragment", "write"}
    BY <1>1 DEF Release, Destructor, StoreInv, IInv, NoUseAfterFree, EndInv,
                RefCountExact, TypeOK
  <2>2. nBlocks = 0 <=> counted = Hashes
    BY <1>1, AllStored
  <2>3. /\ ignored' \subseteq IF counted = Hashes THEN {"mark", "truncate", "keep"}
                                                 ELSE {"mark"}
        /\ kept' = ("mark" \in ignored' \/ (counted = Hashes /\ "keep" \notin ignored'))
    BY <2>1, <2>2 DEF Calls
  <2>4. Stored' = Stored
    BY <2>1 DEF Stored
  <2>5. CASE error = "success"
    <3>1. Store!Post("good")
      BY <2>1, <2>3, <2>4, <2>5 DEF Store!Post, Stored
    <3>2. Stored = Hashes \/ counted = {}
      BY <1>1, <2>5, AllStored DEF StoreInv, IInv, HashInv
    <3>3. QED
      BY <3>1, <3>2 DEF Store!Next, Store!Succeed, Store!SucceedWithNothing, Stored
  <2>6. CASE error # "success"
    <3>1. Store!Post("bad")
      BY <2>1, <2>3, <2>4, <2>6 DEF Store!Post, Stored
    <3>2. QED
      BY <3>1 DEF Store!Next, Store!Fail
  <2>7. QED
    BY <2>5, <2>6
<1>2. CASE refs # 1
  BY <1>2 DEF Release, Store!vars
<1>3. QED
  BY <1>1, <1>2

\* Whatever only adds to what is stored and counted is a step of the store,
LEMMA StoreGrows ==
  ASSUME StoreInv, StoreInv', posted = "none", UNCHANGED <<posted, kept, ignored>>,
         Stored \subseteq Stored', counted \subseteq counted'
  PROVE  [Store!Next]_(Store!vars)
<1>2. counted' \subseteq Hashes
  BY DEF StoreInv, IInv, RefCountExact, TypeOK
<1>3. Stored' \subseteq counted'
  BY DEF StoreInv, DiskInv, Stored, HashesOf
<1>4. Store!Store
  BY <1>2, <1>3 DEF Store!Store, Stored
<1>5. QED
  BY <1>4 DEF Store!Next

\* a write, which loses no hash that is in the file,
LEMMA WriteStep ==
  ASSUME StoreInv, StoreInv', NEW b \in Pool, WriteCompletes(b)
  PROVE  [Store!Next]_(Store!vars)
<1>1. posted = "none" /\ UNCHANGED <<posted, kept, ignored, counted>>
  BY DEF WriteCompletes, StoreInv, IInv, NoUseAfterFree, EndInv, endVars, workVars,
         jobVars
<1>2. ASSUME NEW h \in Stored PROVE h \in Stored'
  <2>1. h \in Hashes /\ disk[h] = h /\ Part(h) # pending[b]
    BY DEF Stored, StoreInv, DiskInv
  <2>2. disk'[h] = disk[h]
    BY <2>1 DEF WriteCompletes
  <2>3. QED
    BY <2>1, <2>2 DEF Stored
<1>3. QED
  BY <1>1, <1>2, StoreGrows

\* as well as the second decrement of CompleteHash.
LEMMA CountStep ==
  ASSUME StoreInv, StoreInv', NEW c \in Clients, CountDown(c)
  PROVE  [Store!Next]_(Store!vars)
<1>1. posted = "none" /\ UNCHANGED <<posted, kept, ignored, disk>>
  BY DEF CountDown, StoreInv, IInv, NoUseAfterFree, EndInv, endVars, ioVars
<1>2. Stored' = Stored /\ counted \subseteq counted'
  BY <1>1 DEF CountDown, Stored
<1>3. QED
  BY <1>1, <1>2, StoreGrows

\* Each step is one of the store's or changes nothing the store sees.
LEMMA StoreStep == StoreInv /\ StoreInv' /\ [Next]_vars => [Store!Next]_(Store!vars)
<1> SUFFICES ASSUME StoreInv, StoreInv', [Next]_vars PROVE [Store!Next]_(Store!vars)
  OBVIOUS
<1>1. ASSUME NEW c \in Clients, ReleaseInline(c) PROVE UNCHANGED <<disk, counted, posted, kept, ignored>>
  BY <1>1, NotLastReference
     DEF ReleaseInline, Release, Releasing, StoreInv, endVars, ioVars, workVars, jobVars
<1>2. ASSUME NEW c \in Clients,
             (\E h \in Hashes \ requested : GetHashBuffer(c, h)) \/ FindBlock(c) \/ ReuseBlock(c)
             \/ AllocBlock(c) \/ AllocFails(c) \/ FinishHash(c) \/ FragmentFails(c)
             \/ Retire(c) \/ CompleteHash(c) \/ WriteBlock(c)
             \/ WriteRefused(c) \/ UnlinkInline(c)
      PROVE  UNCHANGED <<disk, counted, posted, kept, ignored>>
  BY <1>2 DEF GetHashBuffer, FindBlock, ReuseBlock, AllocBlock, AllocFails, FinishHash,
              FragmentFails, Retire, CompleteHash, WriteBlock, WriteRefused,
              UnlinkInline, endVars, ioVars, workVars, jobVars
<1>11. ASSUME NEW c \in Clients, CountDown(c) PROVE [Store!Next]_(Store!vars)
  BY <1>11, CountStep
<1>3. ASSUME NEW b \in Pool, WriteCompletes(b) PROVE [Store!Next]_(Store!vars)
  BY <1>3, WriteStep
<1>4. ASSUME NEW b \in Pool, Unlink(b) PROVE UNCHANGED <<disk, counted, posted, kept, ignored>>
  BY <1>4 DEF Unlink, endVars, workVars, jobVars
<1>5. CASE ReleaseBlock
  BY <1>5, DestructorStep DEF ReleaseBlock, workVars, jobVars
<1>6. CASE Complete
  BY <1>6 DEF Complete, endVars, ioVars, workVars, jobVars, Store!vars
<1>7. CASE TaskRelease
  BY <1>7, DestructorStep DEF TaskRelease, ioVars, workVars, jobVars
<1>8. CASE UNCHANGED vars
  BY <1>8 DEF vars, endVars, ioVars, workVars, jobVars, Store!vars
<1>9. ASSUME UNCHANGED <<disk, counted, posted, kept, ignored>> PROVE UNCHANGED Store!vars
  BY <1>9 DEF Store!vars
<1>10. QED
  BY <1>1, <1>2, <1>3, <1>4, <1>5, <1>6, <1>7, <1>8, <1>9, <1>11 DEF Next, ClientStep

\* A CHashFile implements the abstract store for any number of clients, addresses
\* and hashes, whatever the order of the hashes and the outcome of the writes and of
\* the calls that keep the file: what is in the file stays there, nothing happens
\* after WM_DONE, a WM_DONE of success means a file that has every hash or was never
\* given one, and the file outlives its handle exactly if all hashes were given,
\* unless a call that decides this is refused.
THEOREM HashFileImplementsHashStore == SafeSpec => ImplementsHashStore
<1>1. Init => Store!Init
  <2> SUFFICES ASSUME Init PROVE Store!Init
    OBVIOUS
  <2>1. \A h \in Hashes : disk[h] # h
    BY HashFileAssumption DEF Init, Hashes
  <2>2. QED
    BY <2>1 DEF Init, Store!Init
<1>2. StoreInv /\ [Next]_vars => StoreInv' /\ [Store!Next]_(Store!vars)
  BY StepStoreInv, StoreStep
<1>3. QED
  BY <1>1, <1>2, InitStoreInv, PTL
     DEF SafeSpec, ImplementsHashStore, Store!SafeSpec
=============================================================================

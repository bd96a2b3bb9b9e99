------------------------------ MODULE HashFile ------------------------------
(***************************************************************************)
(* hash.h / hash.cpp: CHashFile, the output side of the program.           *)
(*                                                                         *)
(* Hashes of the file's blocks arrive in any order from several fragments  *)
(* (the clients).  They are gathered in CHashBlock buffers of              *)
(* nHashesInBlock hashes; a buffer is written asynchronously when its last *)
(* hash has been completed, and is reused after its write.  The object is  *)
(* reference counted: its destructor decides whether the file is kept and  *)
(* posts WM_DONE.                                                          *)
(*                                                                         *)
(* A hash value is represented by the number of the file block it is the   *)
(* digest of, so "hash h is right" is buf[...] = h; Junk is anything else. *)
(* A step is one interlocked instruction, one critical section of _lock,   *)
(* or one system call.                                                     *)
(***************************************************************************)
EXTENDS Integers, FiniteSets

CONSTANTS Clients,         \* CFragment objects
          Pool,            \* addresses LocalAlloc may return
          NBlocks,         \* blocks of the hashed file, one hash each
          nHashesInBlock,  \* hashes gathered in one CHashBlock
          Junk             \* a buffer or file content that is no hash

ASSUME HashFileAssumption == /\ IsFiniteSet(Clients)
                             /\ IsFiniteSet(Pool)
                             /\ NBlocks \in Nat \ {0}
                             /\ nHashesInBlock \in Nat \ {0}
                             /\ Junk \notin Nat

Hashes == 0 .. NBlocks - 1
Slots == 0 .. nHashesInBlock - 1
None == -1

VARIABLES
  list,      \* the CHashBlocks linked in the CHashFile
  idx,       \* _i: which part of the hash file a CHashBlock holds
  used,      \* _pHashFile # 0
  todo,      \* _nHashesToComplete
  buf,       \* _hashes
  pending,   \* the part of the file an asynchronous write is in flight for
  finishing, \* CHashBlocks whose IOCompletionRoutine is about to clear _pHashFile
  releasing, \* IOCompletionRoutines that are about to call Release
  nBlocks,   \* _nBlocks
  refs,      \* _dwRef
  error,     \* _errorStatus
  disk,      \* the content of the hash file
  alive,     \* the destructor has not run
  kept,      \* the file outlives its handle
  ignored,   \* calls that were to decide this, refused without anybody looking
  posted,    \* the status carried by WM_DONE
  pc,        \* the step each client is at
  hash,      \* the hash a client works on
  blk,       \* its _pHashBlock
  dying,     \* clients that have reported an error and are being destroyed
  requested, \* hashes some client has asked a buffer for
  counted,   \* history: hashes whose second decrement has been made
  task       \* CTask::EndIo: "running", "release" or "done"

blockVars == <<list, idx, used, todo, buf>>
ioVars    == <<pending, finishing, releasing, disk>>
endVars   == <<alive, kept, ignored, posted>>
jobVars   == <<dying, requested, counted>>
workVars  == <<hash, blk, jobVars>>
fileVars  == <<nBlocks, refs, error, task>>
vars == <<blockVars, ioVars, endVars, workVars, fileVars, pc>>

Init ==
  /\ list = {}
  /\ idx = [b \in Pool |-> None]
  /\ used = [b \in Pool |-> FALSE]
  /\ todo = [b \in Pool |-> 0]
  /\ buf = [b \in Pool |-> [s \in Slots |-> Junk]]
  /\ pending = [b \in Pool |-> None]
  /\ finishing = {}
  /\ releasing = 0
  /\ nBlocks = NBlocks
  /\ refs = 1
  /\ error = "success"
  /\ disk = [h \in Hashes |-> Junk]
  /\ alive = TRUE
  /\ kept = FALSE
  /\ ignored = {}
  /\ posted = "none"
  /\ pc = [c \in Clients |-> "idle"]
  /\ hash = [c \in Clients |-> None]
  /\ blk = [c \in Clients |-> None]
  /\ dying = {}
  /\ requested = {}
  /\ counted = {}
  /\ task = "running"

Goto(c, label) == pc' = [pc EXCEPT ![c] = label]

\* Which part of the hash file a hash belongs to, and where in that part.
Part(h) == h \div nHashesInBlock
Slot(h) == h % nHashesInBlock
HashesOf(i) == {h \in Hashes : Part(h) = i}

iLastBlock == NBlocks \div nHashesInBlock
nHashesInLastBlock == NBlocks % nHashesInBlock

(***************************************************************************)
(* Reference counting.  The last Release runs the destructor: if every     *)
(* hash has been completed the file is cut to its size and taken off the   *)
(* deletion Create has marked it for; the buffers are freed and the status *)
(* is posted to the window.                                                *)
(***************************************************************************)
SetError(status) == error' = IF error = "success" THEN status ELSE error

\* Create's call that marks the file and the destructor's two: the result of none
\* of them is looked at, so a refused one shows only when the handle is closed.
\* Nothing is cut off a file whose last part is full.
Calls == {"mark"} \cup (IF nBlocks = 0 THEN {"keep"} ELSE {})
                  \cup (IF nBlocks = 0 /\ nHashesInLastBlock # 0 THEN {"truncate"} ELSE {})

Destructor == /\ alive' = FALSE
              /\ ignored' \in SUBSET Calls
              /\ kept' = ("mark" \in ignored' \/ (nBlocks = 0 /\ "keep" \notin ignored'))
              /\ list' = {}
              /\ posted' = error

Release == /\ refs' = refs - 1
           /\ IF refs = 1 THEN Destructor ELSE UNCHANGED <<endVars, list>>

(***************************************************************************)
(* CHashFile::GetHashBuffer, as CFragment::ProcessData calls it for the    *)
(* next hash.  The error status is read before the lock is taken.          *)
(***************************************************************************)
GetHashBuffer(c, h) ==
  /\ pc[c] = "idle"
  /\ requested' = requested \cup {h}
  /\ hash' = [hash EXCEPT ![c] = h]
  /\ IF error # "success"
       THEN Goto(c, "gone") /\ dying' = dying \cup {c}
       ELSE Goto(c, "lock") /\ UNCHANGED dying
  /\ UNCHANGED <<blockVars, ioVars, endVars, blk, counted, fileVars>>

\* The hashes that will fill part i (the mutant: the last part taken for full).
HashesToFill(i) == nHashesInBlock
HashesToComplete(i) == IF i = iLastBlock THEN nHashesInLastBlock ELSE nHashesInBlock

\* (The mutant: the reference not taken.)
NoAddRef == refs' = refs
AddRef == refs' = refs + 1

\* Taking a CHashBlock, new or free, for part i of the hash file.
Occupy(b, i) ==
  /\ idx' = [idx EXCEPT ![b] = i]
  /\ used' = [used EXCEPT ![b] = TRUE]
  /\ todo' = [todo EXCEPT ![b] = HashesToComplete(i)]
  /\ AddRef

\* (The mutant: free as soon as the last hash is completed.)
FreeByCount == {b \in list : todo[b] = 0}
Free == {b \in list : ~used[b]}

\* (The mutant: the search stops at the first free CHashBlock.)
HoldingIfNoneFree(i) == {b \in list : idx[b] = i /\ Free = {}}
Holding(i) == {b \in list : idx[b] = i}

\* GetHashBlock under _lock: a CHashBlock that already holds the part wins,
\* then a free one, then a new one.
FindBlock(c) ==
  /\ pc[c] = "lock"
  /\ \E b \in Holding(Part(hash[c])) : blk' = [blk EXCEPT ![c] = b]
  /\ Goto(c, "hashing")
  /\ UNCHANGED <<blockVars, ioVars, endVars, hash, jobVars, fileVars>>

ReuseBlock(c) ==
  /\ pc[c] = "lock"
  /\ Holding(Part(hash[c])) = {}
  /\ \E b \in Free : Occupy(b, Part(hash[c])) /\ blk' = [blk EXCEPT ![c] = b]
  /\ Goto(c, "hashing")
  /\ UNCHANGED <<list, buf, ioVars, endVars, hash, jobVars, nBlocks, error, task>>

AllocBlock(c) ==
  /\ pc[c] = "lock"
  /\ Holding(Part(hash[c])) = {}
  /\ Free = {}
  /\ \E b \in Pool \ list :
       /\ Occupy(b, Part(hash[c]))
       /\ list' = list \cup {b}
       /\ buf' = [buf EXCEPT ![b] = [s \in Slots |-> Junk]]
       /\ blk' = [blk EXCEPT ![c] = b]
  /\ Goto(c, "hashing")
  /\ UNCHANGED <<ioVars, endVars, hash, jobVars, nBlocks, error, task>>

\* LocalAlloc returns 0: GetHashBuffer has no buffer to return.
AllocFails(c) ==
  /\ pc[c] = "lock"
  /\ Holding(Part(hash[c])) = {}
  /\ Free = {}
  /\ Goto(c, "nobuffer")
  /\ UNCHANGED <<blockVars, ioVars, endVars, workVars, fileVars>>

(***************************************************************************)
(* The fragment between GetHashBuffer and CompleteHash.                    *)
(***************************************************************************)
\* BCryptFinishHash stores the digest in the slot of the hash.
FinishHash(c) ==
  /\ pc[c] = "hashing"
  /\ buf' = [buf EXCEPT ![blk[c]][Slot(hash[c])] = hash[c]]
  /\ Goto(c, "complete")
  /\ UNCHANGED <<list, idx, used, todo, ioVars, endVars, workVars, fileVars>>

\* A read error, a cancelled read, no buffer or a failed BCrypt call: the fragment
\* reports it and is destroyed.  Its destructor completes a hash it has begun.
FragmentFails(c) ==
  /\ pc[c] \in {"idle", "nobuffer", "hashing"}
  /\ SetError("fragment")
  /\ dying' = dying \cup {c}
  /\ Goto(c, IF pc[c] = "hashing" THEN "complete" ELSE "gone")
  /\ UNCHANGED <<blockVars, ioVars, endVars, hash, blk, requested, counted, nBlocks, refs, task>>

\* A fragment that finds nothing more to do is destroyed.  As CTask::ReUseBlock
\* hands out every fragment of the file, the last one to go in good order does
\* so only when every hash has been asked for, or none has because no CFragment
\* could be made at all.
Retire(c) ==
  /\ pc[c] = "idle"
  /\ \/ requested \in {{}, Hashes}
     \/ error # "success"
     \/ \E d \in Clients \ {c} : pc[d] # "gone" /\ d \notin dying
  /\ Goto(c, "gone")
  /\ UNCHANGED <<blockVars, ioVars, endVars, workVars, fileVars>>

(***************************************************************************)
(* CHashFile::CompleteHash: two decrements, then the write.                *)
(***************************************************************************)
\* _pHashBlock = 0, and on with the next hash or with the destruction.
After(c) == /\ Goto(c, IF c \in dying THEN "gone" ELSE "idle")
            /\ blk' = [blk EXCEPT ![c] = None]
            /\ hash' = [hash EXCEPT ![c] = None]

CompleteHash(c) ==
  /\ pc[c] = "complete"
  /\ nBlocks' = nBlocks - 1
  /\ Goto(c, "counted")
  /\ UNCHANGED <<blockVars, ioVars, endVars, workVars, refs, error, task>>

CountDown(c) ==
  /\ pc[c] = "counted"
  /\ todo' = [todo EXCEPT ![blk[c]] = @ - 1]
  /\ counted' = counted \cup {hash[c]}
  /\ IF todo[blk[c]] = 1 THEN Goto(c, "write") /\ UNCHANGED <<hash, blk>>
                         ELSE After(c)
  /\ UNCHANGED <<list, idx, used, buf, ioVars, endVars, dying, requested, fileVars>>

WriteBlock(c) ==
  /\ pc[c] = "write"
  /\ pending' = [pending EXCEPT ![blk[c]] = idx[blk[c]]]
  /\ After(c)
  /\ UNCHANGED <<blockVars, finishing, releasing, disk, endVars, jobVars, fileVars>>

\* (The mutant: the status of a write not looked at.)
WriteErrorIgnored == error' = error
WriteError == SetError("write")

\* NtWriteFile fails at once: the client itself runs the completion routine.
WriteRefused(c) ==
  /\ pc[c] = "write"
  /\ WriteError
  /\ Goto(c, "unlink")
  /\ UNCHANGED <<blockVars, ioVars, endVars, workVars, nBlocks, refs, task>>

UnlinkInline(c) ==
  /\ pc[c] = "unlink"
  /\ used' = [used EXCEPT ![blk[c]] = FALSE]
  /\ Goto(c, "release")
  /\ UNCHANGED <<list, idx, todo, buf, ioVars, endVars, workVars, fileVars>>

ReleaseInline(c) ==
  /\ pc[c] = "release"
  /\ Release
  /\ After(c)
  /\ UNCHANGED <<idx, used, todo, buf, ioVars, jobVars, nBlocks, error, task>>

(***************************************************************************)
(* CHashBlock::IOCompletionRoutine on a worker thread.  The device reads   *)
(* the buffer up to the moment the write completes.                        *)
(***************************************************************************)
WriteCompletes(b) ==
  /\ pending[b] # None
  /\ \/ /\ disk' = [h \in Hashes |-> IF Part(h) = pending[b] THEN buf[b][Slot(h)]
                                                            ELSE disk[h]]
        /\ UNCHANGED error
     \/ /\ WriteError
        /\ UNCHANGED disk
  /\ pending' = [pending EXCEPT ![b] = None]
  /\ finishing' = finishing \cup {b}
  /\ UNCHANGED <<blockVars, releasing, endVars, workVars, pc, nBlocks, refs, task>>

Unlink(b) ==
  /\ b \in finishing
  /\ used' = [used EXCEPT ![b] = FALSE]
  /\ finishing' = finishing \ {b}
  /\ releasing' = releasing + 1
  /\ UNCHANGED <<list, idx, todo, buf, pending, disk, endVars, workVars, pc, fileVars>>

ReleaseBlock ==
  /\ releasing > 0
  /\ releasing' = releasing - 1
  /\ Release
  /\ UNCHANGED <<idx, used, todo, buf, pending, finishing, disk, workVars, pc, nBlocks, error, task>>

(***************************************************************************)
(* CTask::EndIo after the last fragment: Complete drops the references of  *)
(* the CHashBlocks that will never be written, then the task drops its own.*)
(***************************************************************************)
\* The CHashBlocks that wait for hashes nobody will deliver (the mutant: those
\* in flight too).
UnfinishedOrInFlight == {b \in list : used[b]}
Unfinished == {b \in list : todo[b] # 0}

Complete ==
  /\ task = "running"
  /\ \A c \in Clients : pc[c] = "gone"
  /\ used' = [b \in Pool |-> used[b] /\ b \notin Unfinished]
  /\ refs' = refs - Cardinality(Unfinished)
  /\ task' = "release"
  /\ UNCHANGED <<list, idx, todo, buf, ioVars, endVars, workVars, pc, nBlocks, error>>

TaskRelease ==
  /\ task = "release"
  /\ Release
  /\ task' = "done"
  /\ UNCHANGED <<idx, used, todo, buf, ioVars, workVars, pc, nBlocks, error>>

-----------------------------------------------------------------------------
ClientStep(c) ==
  \/ \E h \in Hashes \ requested : GetHashBuffer(c, h)
  \/ FindBlock(c) \/ ReuseBlock(c) \/ AllocBlock(c) \/ AllocFails(c)
  \/ FinishHash(c) \/ FragmentFails(c) \/ Retire(c)
  \/ CompleteHash(c) \/ CountDown(c)
  \/ WriteBlock(c) \/ WriteRefused(c) \/ UnlinkInline(c) \/ ReleaseInline(c)

Next == \/ \E c \in Clients : ClientStep(c)
        \/ \E b \in Pool : WriteCompletes(b) \/ Unlink(b)
        \/ ReleaseBlock \/ Complete \/ TaskRelease

SafeSpec == Init /\ [][Next]_vars
-----------------------------------------------------------------------------
\* Clients inside GetHashBuffer .. CompleteHash, and those completing a write.
Filling == {c \in Clients : pc[c] \in {"hashing", "complete", "counted"}}
Writing == {c \in Clients : pc[c] \in {"write", "unlink"}}
Releasing == {c \in Clients : pc[c] = "release"}
Occupied == {b \in list : used[b]}

TypeOK ==
  /\ list \subseteq Pool
  /\ idx \in [Pool -> Nat \cup {None}]
  /\ used \in [Pool -> BOOLEAN]
  /\ todo \in [Pool -> Nat]
  /\ buf \in [Pool -> [Slots -> Hashes \cup {Junk}]]
  /\ pending \in [Pool -> Nat \cup {None}]
  /\ finishing \subseteq Pool
  /\ releasing \in Nat
  /\ nBlocks \in Nat
  /\ refs \in Nat
  /\ error \in {"success", "fragment", "write"}
  /\ disk \in [Hashes -> Hashes \cup {Junk}]
  /\ alive \in BOOLEAN
  /\ kept \in BOOLEAN
  /\ ignored \subseteq {"mark", "truncate", "keep"}
  /\ posted \in {"none", "success", "fragment", "write"}
  /\ pc \in [Clients -> {"idle", "lock", "nobuffer", "hashing", "complete",
                         "counted", "write", "unlink", "release", "gone"}]
  /\ hash \in [Clients -> Hashes \cup {None}]
  /\ blk \in [Clients -> Pool \cup {None}]
  /\ dying \subseteq Clients
  /\ requested \subseteq Hashes
  /\ counted \subseteq Hashes
  /\ task \in {"running", "release", "done"}

\* _dwRef is exact in every interleaving: one reference of the task, one of
\* each occupied CHashBlock and one of each routine that has cleared
\* _pHashFile and not yet called Release.
RefCountExact ==
  /\ TypeOK
  /\ alive => refs = (IF task = "done" THEN 0 ELSE 1) + Cardinality(Occupied)
                     + releasing + Cardinality(Releasing)

\* The destructor frees the CHashBlocks, closes the file and posts WM_DONE
\* only when nobody can touch them any more: no fragment is left, no write is
\* in flight and no completion routine is between its two statements.
NoUseAfterFree ==
  ~alive => /\ task = "done"
            /\ \A c \in Clients : pc[c] = "gone"
            /\ \A b \in Pool : pending[b] = None
            /\ finishing = {}
            /\ releasing = 0

\* The CHashBlock a fragment got from GetHashBuffer stays linked, occupied and
\* assigned to the same part of the file until the fragment has completed its
\* hash, although the lock is held only while it is looked up and completion
\* routines free blocks without taking the lock; and a part of the file never
\* has two CHashBlocks.
BlockHoldsPart ==
  /\ \A c \in Filling \cup Writing :
       blk[c] \in Occupied /\ idx[blk[c]] = Part(hash[c])
  /\ \A b1, b2 \in Occupied : idx[b1] = idx[b2] => b1 = b2

\* The two counters CompleteHash decrements are exact for any order in which
\* hashes arrive, for a partial last part and for hashes that are abandoned.
CountersExact ==
  /\ nBlocks = NBlocks - Cardinality(counted)
               - Cardinality({c \in Clients : pc[c] = "counted"})
  /\ \A b \in list : todo[b] = Cardinality(HashesOf(idx[b]) \ counted)

\* Whatever outlives the program's handle holds the hash of every block, if none of
\* the calls that decide this was refused.
KeptMeansAllHashes == kept /\ ignored = {} => \A h \in Hashes : disk[h] = h

\* No fragment stores into a buffer a write is in flight for.
WrittenBufferStable ==
  [][\A b \in Pool : pending[b] # None /\ pending'[b] = pending[b]
                        => buf'[b] = buf[b]]_vars

\* The buffers, counters and references implement the abstract store: a hash that
\* is in the file stays there, nothing is written once WM_DONE is posted, a WM_DONE
\* of success means a file that has every hash at its place, and the file outlives
\* its handle exactly if all hashes were given, unless a call that decides this was
\* refused.
Store == INSTANCE HashStore WITH
           stored <- {h \in Hashes : disk[h] = h},
           given <- counted,
           verdict <- IF posted = "none" THEN "none"
                      ELSE IF posted = "success" THEN "good" ELSE "bad"
ImplementsHashStore == Store!SafeSpec
=============================================================================

------------------------------ MODULE Program ------------------------------
(***************************************************************************)
(* CTask, its CFragments and its CHashFile together: Task and HashFile     *)
(* composed.  A client of the CHashFile is a CFragment; the thread that    *)
(* runs ProcessData or ~CFragment of it takes the client's steps, and a    *)
(* failure is one step of both.  What each module assumes of the other     *)
(* (Task: how the CHashFile fails and ends; HashFile: which hashes are     *)
(* asked for, when a CFragment may leave, when Complete is called) is here *)
(* done by the other, and shown to be what was assumed.                    *)
(***************************************************************************)
EXTENDS Integers, FiniteSets

CONSTANTS UI, Workers, Fragments, NFragments, NReads,  \* see Task
          Pool, nHashesInBlock, Junk,                  \* see HashFile
          HashesInFragment,  \* blocks, and so hashes, of a full fragment
          Begun, Ended       \* by fragment and read: how many hashes of the fragment
                             \* have been begun, and ended, after so many reads of it

\* Start makes no more CFragments than there are fragments (T!InitialIoCount).
ASSUME ProgramAssumption ==
  /\ UI \notin Workers
  /\ IsFiniteSet(Workers) /\ IsFiniteSet(Fragments) /\ IsFiniteSet(Pool)
  /\ Fragments # {} /\ -1 \notin Fragments /\ Cardinality(Fragments) <= NFragments
  /\ {NFragments, NReads, HashesInFragment, nHashesInBlock} \subseteq Nat \ {0}
  /\ Junk \notin Nat

\* A block may take several reads and a read bring several blocks, with no regard to
\* each other's boundaries; between two reads at most one hash is unfinished, and the
\* last read of a fragment leaves none.  The last fragment may have fewer.
ASSUME BoundariesAssumption ==
  \A i \in 0 .. NFragments - 1 :
    LET n == IF i = NFragments - 1 THEN 1 ELSE NReads IN
    /\ Begun[i][0] = 0 /\ Ended[i][0] = 0
    /\ \A r \in 0 .. n : /\ Begun[i][r] \in Nat /\ Ended[i][r] \in Nat
                         /\ Begun[i][r] - Ended[i][r] \in {0, 1}
                         /\ \A q \in 0 .. r : /\ Begun[i][q] <= Begun[i][r]
                                              /\ Ended[i][q] <= Ended[i][r]
    /\ Begun[i][n] = Ended[i][n]
    /\ Begun[i][n] \in 1 .. HashesInFragment
    /\ i # NFragments - 1 => Begun[i][n] = HashesInFragment

VARIABLES
  nFragments, nIoCount, toStart, taskRefs, fragRefs, part, left, reading, bytes,
  hashed, open, users, completed, pc, this, refused,            \* of Task
  error,                                                        \* of both
  list, idx, used, todo, buf, pending, finishing, releasing, nBlocks, refs, disk,
  alive, kept, ignored, posted, hash, blk, dying, requested, counted, task,
                                                                \* of HashFile
  step,                                                         \* pc of HashFile
  asked       \* the hashes of its fragment a CFragment has asked a buffer for

tVars == <<nFragments, nIoCount, toStart, taskRefs, fragRefs, part, left, reading,
           bytes, hashed, open, users, completed, pc, this, refused>>
hVarsButStep == <<list, idx, used, todo, buf, pending, finishing, releasing, nBlocks,
                  refs, disk, alive, kept, ignored, posted, hash, blk, dying,
                  requested, counted, task>>
hVars == <<hVarsButStep, step>>
vars == <<tVars, error, hVars, asked>>

T == INSTANCE Task WITH
       nIO <- Cardinality(Fragments),
       pHF <- IF posted # "none" THEN "posted"
              ELSE IF task # "running" THEN "closing" ELSE "open"

H == INSTANCE HashFile WITH
       Clients <- Fragments,
       NBlocks <- (NFragments - 1) * HashesInFragment + Begun[NFragments - 1][1],
       pc <- step,
       error <- IF error \in {"success", "write"} THEN error ELSE "fragment"

Init == /\ error = "success" /\ H!Init /\ T!Init
        /\ asked = [f \in Fragments |-> 0]

(***************************************************************************)
(* Which hash comes next (iBlock), and how many ProcessData will have      *)
(* begun and ended when it is through with the data of this read.          *)
(***************************************************************************)
Done(f) == T!ReadsOf(part[f]) - left[f]
BegunBy(f) == Begun[part[f]][Done(f) + 1]
EndedBy(f) == Ended[part[f]][Done(f) + 1]
HashNo(f) == part[f] * HashesInFragment + asked[f]

Processing(t, f) == pc[t] = "process" /\ this[t] = f
Destroying(t, f) == pc[t] = "endio" /\ this[t] = f

(***************************************************************************)
(* Steps that concern one side only.                                       *)
(***************************************************************************)
\* CFragments of which the CHashFile has not seen the end: ~CFragment calls
\* EndIo after CompleteHash (the mutant: before).
NoneBusy == {}
Busy == {f \in Fragments : step[f] # "gone"}

TaskStep(t) ==
  /\ UNCHANGED <<hVars, asked>>
  /\ \/ T!Read(t) \/ T!IssueRead(t)
     \/ T!ReleaseRP(t) \/ T!RundownCompleted(t)
     \/ this[t] \notin Busy /\ T!EndIo(t)
     \/ task = "done" /\ T!TaskRelease(t)

\* With a fragment of the file its CFragment begins with the first hash of it.
ReUseBlock(t) ==
  /\ UNCHANGED hVars
  /\ T!ReUseBlock(t)
  /\ asked' = IF T!AnyLeft THEN [asked EXCEPT ![this[t]] = 0] ELSE asked

Cancel == UNCHANGED <<hVars, asked>> /\ T!Rundown

Dialog == UNCHANGED <<hVars, asked>> /\ (T!Rundown_l \/ T!Done)

Writes == /\ UNCHANGED <<tVars, asked>>
          /\ error' \in {error, IF error = "success" THEN "write" ELSE error}
          /\ \/ \E b \in Pool : H!WriteCompletes(b) \/ H!Unlink(b)
             \/ H!ReleaseBlock

(***************************************************************************)
(* CTask::Start.                                                           *)
(***************************************************************************)
NewFragment(f) == step[f] = "idle" /\ UNCHANGED <<hVars, asked>> /\ T!NewFragment(f)

NewFails ==
  /\ \E f \in Fragments \ T!Live :
       step[f] = "idle" /\ step' = [step EXCEPT ![f] = "gone"]
  /\ UNCHANGED <<hVarsButStep, asked>>
  /\ T!NewFails

CreateBuffer == UNCHANGED <<hVars, asked>> /\ T!CreateBuffer

StartStep == (\E f \in Fragments : NewFragment(f)) \/ NewFails \/ CreateBuffer

(***************************************************************************)
(* CFragment::IOCompletionRoutine, ProcessData and the destructor.         *)
(***************************************************************************)
ReadArrives(w, f) == UNCHANGED <<hVars, asked>> /\ T!ReadArrives(w, f)

CheckRundown(w) == open /\ UNCHANGED <<hVars, asked>> /\ T!CheckRundown(w)

\* A thread that fails reports it for its CFragment.
Fails(t, f) ==
  /\ UNCHANGED <<posted, task, asked>>
  /\ \/ T!FailInline(t) \/ T!ReadFails(t, f) \/ T!ProcessFails(t)
     \/ ~open /\ T!CheckRundown(t)
  /\ this'[t] = f
  /\ H!FragmentFails(f)

\* GetHashBuffer for the next block of which there is data, refused or not.
BeginHash(w, f) ==
  /\ Processing(w, f)
  /\ asked[f] < BegunBy(f)
  /\ asked' = [asked EXCEPT ![f] = @ + 1]
  /\ UNCHANGED <<posted, task>>
  /\ IF error = "success" THEN UNCHANGED <<tVars, error>> ELSE T!ProcessFails(w)
  /\ H!GetHashBuffer(f, HashNo(f))

\* Under the lock, and BCryptFinishHash when the end of the block has arrived.
HashStep(w, f) ==
  /\ Processing(w, f)
  /\ UNCHANGED <<tVars, error, asked>>
  /\ \/ H!FindBlock(f) \/ H!ReuseBlock(f) \/ H!AllocBlock(f) \/ H!AllocFails(f)
     \/ asked[f] <= EndedBy(f) /\ H!FinishHash(f)

\* CompleteHash, in ProcessData or, for a hash that is abandoned, in ~CFragment.
CompleteStep(t, f) ==
  /\ Processing(t, f) \/ Destroying(t, f)
  /\ UNCHANGED <<tVars, asked>>
  /\ error' \in {error, IF error = "success" THEN "write" ELSE error}
  /\ \/ H!CompleteHash(f) \/ H!CountDown(f) \/ H!WriteBlock(f)
     \/ H!WriteRefused(f) \/ H!UnlinkInline(f) \/ H!ReleaseInline(f)

\* All data of the read is hashed: a block whose end is still to be read keeps its hash.
ProcessData(w, f) ==
  /\ Processing(w, f)
  /\ asked[f] = BegunBy(f)
  /\ step[f] = IF asked[f] > EndedBy(f) THEN "hashing" ELSE "idle"
  /\ UNCHANGED <<hVars, asked>>
  /\ T!ProcessData(w)

\* The last Release of a CFragment without a hash ends it for the CHashFile too.
Release(t) ==
  /\ step' = [f \in Fragments |->
                IF f = this[t] /\ fragRefs[f] = 1 /\ step[f] = "idle" THEN "gone"
                                                                     ELSE step[f]]
  /\ UNCHANGED <<hVarsButStep, asked>>
  /\ T!Release(t)

(***************************************************************************)
(* CTask::EndIo by the last thread: _pHF->Complete(), _pHF->Release().     *)
(***************************************************************************)
Complete(t) == UNCHANGED <<error, asked>> /\ H!Complete /\ T!Complete(t)

ReleaseHashFile(t) ==
  /\ pc[t] = "free"
  /\ UNCHANGED <<tVars, error, asked>>
  /\ H!TaskRelease

-----------------------------------------------------------------------------
Thread(t) ==
  \/ TaskStep(t) \/ ReUseBlock(t)
  \/ Release(t) \/ Complete(t) \/ ReleaseHashFile(t)
  \/ \E f \in Fragments :
       \/ pc[t] # "idle" /\ Fails(t, f)
       \/ BeginHash(t, f) \/ HashStep(t, f)
       \/ CompleteStep(t, f) \/ ProcessData(t, f)
  \/ CheckRundown(t)

Completion == \E w \in Workers, f \in Fragments :
                 \/ ReadArrives(w, f)
                 \/ pc[w] = "idle" /\ Fails(w, f)

GoOn == \/ \E t \in T!Threads : Thread(t)
        \/ Completion \/ StartStep \/ Dialog \/ Writes

Next == GoOn \/ Cancel

\* As long as a thread, a read or write in flight or the message loop can go on,
\* one of them does; which one, is left open.
Fairness == WF_vars(GoOn)

SafeSpec == Init /\ [][Next]_vars
Spec == SafeSpec /\ Fairness
-----------------------------------------------------------------------------
\* "Done !" is shown only for a hash file that holds the hash of every block of the
\* file, with nothing left to read, and that is kept unless the call that takes it off
\* its deletion was refused, which ~CHashFile does not notice: the status has to survive
\* the way to WM_DONE from any thread, read, write or allocation that fails.  The one
\* exception is a task that got no CFragment with a buffer and so never started on the
\* file (see NoBytesLeft of Task).
DoneMeansWholeFile ==
  posted = "success" /\ nFragments < NFragments =>
    /\ kept \/ "keep" \in ignored
    /\ \A h \in H!Hashes : disk[h] = h
    /\ bytes = 0 /\ hashed = 0 .. NFragments - 1

\* The CHashFile does to the task what Task says of it: its writes fail only
\* after data has been hashed, and it ends only after EndIo has let it go.
ImplementsTask == T!SafeSpec

\* The CFragments do to the CHashFile what HashFile says of its clients: none
\* asks twice for a hash, the last one to leave without an error leaves only
\* when every hash has been asked for, and then Complete is called once.
ImplementsHashFile == H!SafeSpec

\* Neither side waits for the other for ever.
EventuallyDone == T!EventuallyDone
=============================================================================

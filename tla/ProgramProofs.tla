---------------------------- MODULE ProgramProofs ----------------------------
(***************************************************************************)
(* That the program does to each of its two parts what the part takes for  *)
(* granted, for any number of threads, CFragments, fragments of the file,  *)
(* reads, hashes and CHashBlocks.  What has been proved of Task and of     *)
(* HashFile is used here of the instances T and H of Program: each step of *)
(* the program is one of theirs and so keeps their invariants.             *)
(***************************************************************************)
EXTENDS Program, FiniteSetTheorems, TLAPS

\* T and H of Program with what is proved of them.
TP == INSTANCE TaskProofs WITH
        nIO <- Cardinality(Fragments),
        pHF <- IF posted # "none" THEN "posted"
               ELSE IF task # "running" THEN "closing" ELSE "open"

HP == INSTANCE HashFileProofs WITH
        Clients <- Fragments,
        NBlocks <- (NFragments - 1) * HashesInFragment + Begun[NFragments - 1][1],
        pc <- step,
        error <- IF error \in {"success", "write"} THEN error ELSE "fragment"

\* They are the same modules.
LEMMA SameTask == (T!Init <=> TP!Init) /\ ([T!Next]_(T!vars) <=> [TP!Next]_(TP!vars))
BY DEF T!Threads, TP!Threads, T!None, TP!None, T!gateVars, TP!gateVars,
          T!refVars, TP!refVars, T!workVars, TP!workVars, T!hfVars, TP!hfVars,
          T!ctlVars, TP!ctlVars, T!vars, TP!vars, T!ReadsOf, TP!ReadsOf,
          T!BytesToProcess, TP!BytesToProcess, T!InitialIoCount, TP!InitialIoCount,
          T!OwnCount, TP!OwnCount, T!StartRef, TP!StartRef, T!Live, TP!Live,
          T!Goto, TP!Goto, T!Return, TP!Return, T!SetError, TP!SetError,
          T!StartIo, TP!StartIo, T!NewFragment, TP!NewFragment, T!NewFails, TP!NewFails,
          T!CreateBuffer, TP!CreateBuffer, T!TakeFragment, TP!TakeFragment,
          T!AnyLeft, TP!AnyLeft, T!ReUseBlock, TP!ReUseBlock, T!AddRef, TP!AddRef,
          T!AcquireRP, TP!AcquireRP, T!Read, TP!Read, T!ReadRefused, TP!ReadRefused,
          T!IssueRead, TP!IssueRead, T!AfterLeave, TP!AfterLeave, T!LastOut, TP!LastOut,
          T!ReleaseRP, TP!ReleaseRP, T!RundownCompleted, TP!RundownCompleted,
          T!ReleaseInline, TP!ReleaseInline, T!FailInline, TP!FailInline,
          T!ReadFails, TP!ReadFails, T!ReadArrives, TP!ReadArrives,
          T!CheckRundown, TP!CheckRundown, T!DataError, TP!DataError,
          T!ProcessFails, TP!ProcessFails, T!ProcessData, TP!ProcessData,
          T!Release, TP!Release, T!AfterEndIo, TP!AfterEndIo, T!EndIo, TP!EndIo,
          T!Complete, TP!Complete, T!WriteFails, TP!WriteFails, T!PostDone, TP!PostDone,
          T!TaskRelease, TP!TaskRelease, T!Rundown, TP!Rundown, T!Rundown_l, TP!Rundown_l,
          T!Done, TP!Done, T!Step, TP!Step, T!StartStep, TP!StartStep,
          T!Completion, TP!Completion, T!Process, TP!Process, T!Next, TP!Next,
          T!Init, TP!Init, T!Gate!Init, TP!Gate!Init, T!Gate!Enter, TP!Gate!Enter,
          T!Gate!Leave, TP!Gate!Leave, T!Gate!Close, TP!Gate!Close,
          T!Gate!Complete, TP!Gate!Complete

\* ... and the same for HashFile.
LEMMA SameHashFile == (H!Init <=> HP!Init) /\ ([H!Next]_(H!vars) <=> [HP!Next]_(HP!vars))
BY DEF H!Hashes, HP!Hashes, H!Slots, HP!Slots, H!None, HP!None, H!blockVars, HP!blockVars,
          H!ioVars, HP!ioVars, H!endVars, HP!endVars, H!jobVars, HP!jobVars,
          H!workVars, HP!workVars, H!fileVars, HP!fileVars, H!vars, HP!vars,
          H!Init, HP!Init, H!Goto, HP!Goto, H!Part, HP!Part, H!Slot, HP!Slot,
          H!iLastBlock, HP!iLastBlock, H!nHashesInLastBlock, HP!nHashesInLastBlock,
          H!SetError, HP!SetError, H!Calls, HP!Calls, H!Destructor, HP!Destructor, H!Release, HP!Release,
          H!GetHashBuffer, HP!GetHashBuffer, H!HashesToComplete, HP!HashesToComplete,
          H!AddRef, HP!AddRef, H!Occupy, HP!Occupy, H!Free, HP!Free, H!Holding, HP!Holding,
          H!FindBlock, HP!FindBlock, H!ReuseBlock, HP!ReuseBlock,
          H!AllocBlock, HP!AllocBlock, H!AllocFails, HP!AllocFails,
          H!FinishHash, HP!FinishHash, H!FragmentFails, HP!FragmentFails,
          H!Retire, HP!Retire, H!After, HP!After, H!CompleteHash, HP!CompleteHash,
          H!CountDown, HP!CountDown, H!WriteBlock, HP!WriteBlock,
          H!WriteError, HP!WriteError, H!WriteRefused, HP!WriteRefused,
          H!UnlinkInline, HP!UnlinkInline, H!ReleaseInline, HP!ReleaseInline,
          H!WriteCompletes, HP!WriteCompletes, H!Unlink, HP!Unlink,
          H!ReleaseBlock, HP!ReleaseBlock, H!Unfinished, HP!Unfinished,
          H!Complete, HP!Complete, H!TaskRelease, HP!TaskRelease,
          H!ClientStep, HP!ClientStep, H!Next, HP!Next, H!Cardinality, HP!Cardinality

\* Sets are counted alike in all three.
LEMMA SameCounting ==
  /\ \A S : IsFiniteSet(S) <=> TP!IsFiniteSet(S)
  /\ \A S : IsFiniteSet(S) <=> HP!IsFiniteSet(S)
  /\ \A S : Cardinality(S) = TP!Cardinality(S)
BY DEF IsFiniteSet, TP!IsFiniteSet, HP!IsFiniteSet, Cardinality, TP!Cardinality

\* The sizes the two modules need follow from those of the program.
LEMMA Sizes == TP!TaskAssumption /\ TP!FragmentsAssumption /\ HP!HashFileAssumption
<1>1. Cardinality(Fragments) \in Nat \ {0}
  BY ProgramAssumption, FS_CardinalityType, FS_EmptySet
<1>2. TP!TaskAssumption /\ TP!FragmentsAssumption
  BY <1>1, ProgramAssumption, SameCounting
     DEF TP!TaskAssumption, TP!FragmentsAssumption, TP!None
<1>3. NFragments - 1 \in Nat /\ Begun[NFragments - 1][1] \in Nat \ {0}
  BY ProgramAssumption, BoundariesAssumption
<1>4. (NFragments - 1) * HashesInFragment \in Nat
  BY <1>3, ProgramAssumption
<1>5. (NFragments - 1) * HashesInFragment + Begun[NFragments - 1][1] \in Nat \ {0}
  BY <1>3, <1>4
<1>6. HP!HashFileAssumption
  BY <1>5, ProgramAssumption, SameCounting DEF HP!HashFileAssumption
<1>7. QED
  BY <1>2, <1>6

\* The hashes begun and ended with the reads of a fragment.
LEMMA Boundaries ==
  ASSUME NEW i \in 0 .. NFragments - 1
  PROVE  /\ T!ReadsOf(i) \in Nat \ {0}
         /\ Begun[i][T!ReadsOf(i)] = Ended[i][T!ReadsOf(i)]
         /\ Begun[i][T!ReadsOf(i)] \in 1 .. HashesInFragment
         /\ \A r \in 1 .. T!ReadsOf(i) :
              Begun[i][r] \in Nat /\ Begun[i][r] <= Begun[i][T!ReadsOf(i)]
         /\ i = NFragments - 1 => T!ReadsOf(i) = 1
         /\ i # NFragments - 1 => Begun[i][T!ReadsOf(i)] = HashesInFragment
BY ProgramAssumption, BoundariesAssumption DEF T!ReadsOf

\* Steps of the two modules keep their invariants.
LEMMA TaskKeeps ==
  ASSUME TP!IInv, [T!Next]_(T!vars)
  PROVE  TP!IInv'
<1>1. [TP!Next]_(TP!vars)
  BY SameTask
<1>2. QED
  BY <1>1, Sizes, TP!StepIInv DEF TP!TaskAssumption, TP!FragmentsAssumption

\* ... and the same for HashFile.
LEMMA HashFileKeeps ==
  ASSUME HP!StoreInv, [H!Next]_(H!vars)
  PROVE  HP!StoreInv'
<1>1. [HP!Next]_(HP!vars)
  BY SameHashFile
<1>2. QED
  BY <1>1, Sizes, HP!StepStoreInv DEF HP!HashFileAssumption

-----------------------------------------------------------------------------
(***************************************************************************)
(* What is used of the two invariants, in the variables of the program.    *)
(***************************************************************************)
\* Where the threads are, and which of them have a CFragment.
LEMMA ThreadFacts ==
  ASSUME TP!IInv
  PROVE  /\ UI \in T!Threads /\ Workers \subseteq T!Threads
         /\ pc \in [T!Threads -> T!Labels]
         /\ this \in [T!Threads -> Fragments \cup {T!None}]
         /\ reading \subseteq Fragments /\ fragRefs \in [Fragments -> Nat]
         /\ T!Live \subseteq Fragments
         /\ \A t \in T!Threads : pc[t] \in {"idle", "arrived", "process"} => t \in Workers
         /\ \A w \in Workers : /\ pc[w] \notin {"new", "create", "pump", "clear", "over"}
                               /\ this[w] = T!None <=> pc[w] = "idle"
         /\ pc[UI] \in {"new", "pump", "clear", "over"} => this[UI] = T!None
         /\ pc[UI] \in {"create", "reuse", "read", "issue", "fail", "release"} =>
              this[UI] # T!None
         /\ \A t \in refused : this[t] # T!None
<1> USE ProgramAssumption DEF TP!IInv, TP!TypeOK, TP!CtlInv, TP!Labels, T!Labels,
                              TP!Threads, T!Threads, TP!None, T!None, T!Live
<1>1. T!None \notin Fragments
  BY ProgramAssumption
<1>2. QED
  BY <1>1

\* Whoever runs a method of a CFragment that is not being destroyed keeps it alive.
LEMMA CtlFacts ==
  ASSUME TP!IInv, NEW t \in T!Threads
  PROVE  /\ pc[t] \in {"reuse", "read", "issue", "fail", "arrived", "process", "release"} =>
              this[t] \in Fragments
         /\ this[t] # T!None /\ pc[t] \notin {"endio", "complete", "free"} =>
              this[t] \in T!Live
<1>1. t \in TP!Threads /\ T!None = TP!None
  BY DEF T!Threads, TP!Threads, T!None, TP!None
<1>2. TP!TypeOK /\ TP!FragmentRefsExact /\ TP!TypeOK
  BY DEF TP!IInv
<1>3. ASSUME this[t] # T!None, pc[t] \notin {"endio", "complete", "free"}
      PROVE  this[t] \in T!Live
  <2>1. this[t] \in Fragments
    BY <1>1, <1>2, <1>3 DEF TP!TypeOK
  <2>2. t \in TP!Holders(this[t])
    BY <1>1, <1>3 DEF TP!Holders, TP!Dying
  <2>3. fragRefs[this[t]] > 0
    BY <1>2, <2>1, <2>2, Sizes, TP!HolderHasReference
       DEF TP!TaskAssumption, TP!FragmentsAssumption
  <2>4. QED
    BY <2>1, <2>3 DEF T!Live
<1>4. pc[t] \in {"reuse", "read", "issue", "fail", "arrived", "process", "release"} =>
        this[t] # T!None
  BY <1>1, ThreadFacts DEF T!Threads
<1>5. QED
  BY <1>3, <1>4, ThreadFacts

\* So does a read in flight.
LEMMA ReadingIsLive ==
  ASSUME TP!IInv
  PROVE  reading \subseteq T!Live
<1>1. ASSUME NEW f \in reading PROVE f \in T!Live
  <2>1. f \in Fragments /\ TP!TypeOK /\ TP!FragmentRefsExact
    BY DEF TP!IInv, TP!TypeOK
  <2>2. fragRefs[f] > 0
    BY <2>1, Sizes, TP!HolderHasReference DEF TP!TaskAssumption, TP!FragmentsAssumption
  <2>3. QED
    BY <2>1, <2>2 DEF T!Live
<1>2. QED
  BY <1>1

\* The types of what is known of the fragments of the file.
LEMMA FragmentFacts ==
  ASSUME TP!IInv
  PROVE  /\ nFragments \in Int /\ nFragments <= NFragments /\ toStart \in Nat /\ bytes \in Nat
         /\ part \in [Fragments -> (0 .. NFragments - 1) \cup {T!None}]
         /\ left \in [Fragments -> Nat] /\ hashed \subseteq 0 .. NFragments - 1
         /\ error \in {"success", "io", "data", "cancelled", "write"}
BY FS_CardinalityType, ProgramAssumption
   DEF TP!IInv, TP!TypeOK, TP!PartInv, TP!None, T!None

\* Who hashes has something to hash.
LEMMA ProcessFacts ==
  ASSUME TP!IInv, NEW t \in T!Threads, pc[t] = "process"
  PROVE  part[this[t]] # T!None /\ left[this[t]] > 0
<1>1. this[t] \in Fragments
  BY CtlFacts
<1>2. t \in TP!Strand(this[t])
  BY DEF TP!Strand, TP!Holders, TP!Working, TP!Dying, T!Threads, TP!Threads
<1>3. TP!Reads(this[t])
  BY <1>2 DEF TP!Reads
<1>4. QED
  BY <1>1, <1>3 DEF TP!IInv, TP!PartInv, TP!None, T!None

\* Without an error somebody goes on until all has been handed out and read.
LEMMA SomebodyReads ==
  ASSUME TP!IInv, error = "success"
  PROVE  /\ \A i \in 0 .. NFragments - 1 :
              i >= nFragments =>
                i \in hashed \/ \E f \in Fragments : part[f] = i /\ left[f] > 0
         /\ nFragments <= 0 \/ nFragments = NFragments \/ \E f \in Fragments : TP!Going(f)
         /\ \A f \in Fragments : left[f] > 0 => TP!Going(f)
BY DEF TP!IInv, TP!GoingInv, TP!BytesInv, TP!Reads, TP!Going

\* Who goes on is alive, and keeps others from ending the CFragment.
LEMMA GoingIsLive ==
  ASSUME TP!IInv, NEW f \in Fragments, TP!Going(f)
  PROVE  /\ f \in T!Live
         /\ \A t \in T!Threads : pc[t] = "release" /\ this[t] = f => fragRefs[f] # 1
<1>1. TP!TypeOK /\ TP!FragmentRefsExact /\ TP!CtlInv
  BY DEF TP!IInv
<1>2. f # T!None
  BY ProgramAssumption DEF T!None
<1>3. f \in T!Live
  <2>1. CASE f \in reading
    BY <2>1, ReadingIsLive
  <2>2. CASE \E t \in TP!Strand(f) : TRUE
    <3>1. PICK t \in T!Threads : this[t] = f /\ pc[t] \notin {"endio", "complete", "free"}
      BY <2>2 DEF TP!Strand, TP!Holders, TP!Dying, T!Threads, TP!Threads
    <3>2. QED
      BY <1>2, <3>1, CtlFacts
  <2>3. QED
    BY <2>1, <2>2 DEF TP!Going
<1>4. ASSUME NEW t \in T!Threads, pc[t] = "release", this[t] = f, fragRefs[f] = 1
      PROVE  FALSE
  <2>1. t \in TP!Holders(f)
    BY <1>4 DEF TP!Holders, TP!Dying, T!Threads, TP!Threads
  <2>2. f \notin reading /\ \A u \in TP!Holders(f) : u = t
    BY <1>1, <1>4, <2>1, Sizes, TP!LastHolder
       DEF TP!TaskAssumption, TP!FragmentsAssumption
  <2>3. PICK u \in TP!Strand(f) : TRUE
    BY <2>2 DEF TP!Going
  <2>4. u = t /\ (pc[u] \in TP!Working \/ u \in refused)
    BY <2>2, <2>3 DEF TP!Strand
  <2>5. QED
    BY <1>1, <1>4, <2>4 DEF TP!Working, TP!CtlInv
<1>5. QED
  BY <1>3, <1>4

\* A thread that ends a CFragment is alone with it.
LEMMA LastIsAlone ==
  ASSUME TP!IInv, NEW t \in T!Threads, pc[t] = "release", fragRefs[this[t]] = 1
  PROVE  \A u \in T!Threads :
           this[u] = this[t] /\ pc[u] \notin {"endio", "complete", "free"} => u = t
<1>1. TP!TypeOK /\ TP!FragmentRefsExact /\ this[t] \in Fragments
  BY CtlFacts DEF TP!IInv
<1>2. \A u \in T!Threads :
        this[u] = this[t] /\ pc[u] \notin {"endio", "complete", "free"} =>
          u \in TP!Holders(this[t])
  BY DEF TP!Holders, TP!Dying, T!Threads, TP!Threads
<1>3. t \in TP!Holders(this[t])
  BY <1>2
<1>4. QED
  BY <1>1, <1>2, <1>3, Sizes, TP!LastHolder DEF TP!TaskAssumption, TP!FragmentsAssumption

\* When WM_DONE is posted after a file has been read, all of it has been.
LEMMA PostedFacts ==
  ASSUME TP!IInv, posted # "none"
  PROVE  error = "success" /\ nFragments < NFragments =>
           hashed = 0 .. NFragments - 1 /\ bytes = 0
BY Sizes, TP!AllHashed DEF TP!TaskAssumption, TP!FragmentsAssumption

\* The status as the CHashFile sees it.
HashError == IF error \in {"success", "write"} THEN error ELSE "fragment"

\* The types of what is known of the clients of the CHashFile.
LEMMA HashTypes ==
  ASSUME HP!StoreInv
  PROVE  /\ step \in [Fragments -> {"idle", "lock", "nobuffer", "hashing", "complete",
                                    "counted", "write", "unlink", "release", "gone"}]
         /\ requested \subseteq H!Hashes /\ counted \subseteq H!Hashes
         /\ dying \subseteq Fragments /\ task \in {"running", "release", "done"}
         /\ posted \in {"none", "success", "fragment", "write"}
BY DEF HP!StoreInv, HP!IInv, HP!RefCountExact, HP!TypeOK, HP!Hashes, H!Hashes

\* Without an error nobody is being destroyed; once the CHashFile is nobody is left that
\* uses it; and a hash is written after it has been counted.
LEMMA HashFacts ==
  ASSUME HP!StoreInv
  PROVE  /\ error = "success" => /\ dying = {}
                                 /\ \A f \in Fragments : step[f] \notin {"unlink", "release"}
         /\ alive <=> posted = "none"
         /\ ~alive => /\ task = "done" /\ finishing = {} /\ releasing = 0
                      /\ \A b \in Pool : pending[b] = H!None
         /\ task # "running" => \A f \in Fragments : step[f] = "gone"
         /\ \A f \in Fragments : step[f] \in {"write", "unlink"} => hash[f] \in counted
         /\ \A f \in Fragments : step[f] = "counted" => hash[f] \in H!Hashes
BY DEF HP!StoreInv, HP!PathInv, HP!IInv, HP!NoUseAfterFree, HP!EndInv, HP!FullInv,
   HP!Writing,
       HP!HashInv, HP!Active, HP!RefCountExact, HP!TypeOK, HP!None, H!None, HP!Hashes, H!Hashes

\* The client that completes a refused write is not the last to let go.
LEMMA InlineIsNotLast ==
  ASSUME HP!StoreInv, NEW f \in Fragments, step[f] = "release"
  PROVE  alive /\ refs # 1
<1>1. f \in HP!Releasing /\ HP!IInv
  BY DEF HP!Releasing, HP!StoreInv
<1>2. alive /\ refs > 1
  BY <1>1, Sizes, HP!NotLastReference DEF HP!HashFileAssumption
<1>3. refs \in Nat
  BY <1>1 DEF HP!IInv, HP!RefCountExact, HP!TypeOK
<1>4. QED
  BY <1>2, <1>3

\* The last to let go does so after CTask::EndIo has, and has all hashes on disk
\* unless there was an error or nobody has ever asked for a hash.
LEMMA LastLetsGo ==
  ASSUME HP!StoreInv, refs = 1, releasing > 0 \/ task = "release"
  PROVE  /\ task # "running"
         /\ error = "success" =>
              requested = {} \/ (nBlocks = 0 /\ \A h \in H!Hashes : disk[h] = h)
<1>1. HP!IInv
  BY DEF HP!StoreInv
<1>2. task # "running"
  BY <1>1, Sizes, HP!LastReference DEF HP!HashFileAssumption
<1>3. ASSUME error = "success", requested # {}
      PROVE  nBlocks = 0 /\ \A h \in H!Hashes : disk[h] = h
  <2>1. HP!Stored = HP!Hashes /\ nBlocks = 0
    BY <1>3, Sizes, HP!AllStored DEF HP!HashFileAssumption
  <2>2. QED
    BY <2>1 DEF HP!Stored, HP!Hashes, H!Hashes
<1>4. QED
  BY <1>2, <1>3

-----------------------------------------------------------------------------
(***************************************************************************)
(* What ties the two parts to each other.                                  *)
(***************************************************************************)
\* What is needed of Task beside its invariant.  An address is not given to a new
\* CFragment before the thread that destroys the old one is through; nothing is read
\* twice.
TurnInv ==
  /\ \A t \in T!Threads : pc[t] = "endio" /\ this[t] # T!None => fragRefs[this[t]] = 0
  /\ \A f \in Fragments : part[f] # T!None => left[f] <= T!ReadsOf(part[f])
  /\ bytes <= T!BytesToProcess

\* Without an error a CFragment that lives is a client of the CHashFile, and it
\* has a hash in hand only while it has something to read.
LiveInv ==
  error = "success" =>
    /\ \A f \in T!Live : step[f] # "gone"
    /\ \A f \in Fragments : step[f] \notin {"idle", "gone"} => left[f] > 0

\* What has been asked for: all hashes of the fragments of the file that have been
\* hashed, of a fragment in work exactly the first ones, and none of a fragment that
\* has not been handed out.
InFragment(h, i) == i * HashesInFragment <= h /\ h < i * HashesInFragment + HashesInFragment
RequestInv ==
  /\ asked \in [Fragments -> Nat]
  /\ \A i \in hashed, h \in H!Hashes : InFragment(h, i) => h \in requested
  /\ \A f \in T!Live, h \in H!Hashes :
       part[f] # T!None /\ left[f] > 0 /\ InFragment(h, part[f]) =>
         (h \in requested <=> h < HashNo(f))
  /\ \A i \in 0 .. NFragments - 1, h \in requested : InFragment(h, i) => i >= nFragments

\* Nothing is written before something has been hashed.
WriteInv ==
  /\ \A b \in Pool : pending[b] # H!None => counted # {}
  /\ error = "success" /\ counted # {} =>
       bytes < T!BytesToProcess \/ \E w \in Workers : pc[w] = "process"

\* Nothing fails any more once WM_DONE is posted.
PostInv ==
  /\ posted # "none" => posted = HashError
  /\ posted = "success" => \/ requested = {}
                           \/ /\ kept \/ "keep" \in ignored
                              /\ \A h \in H!Hashes : disk[h] = h

PInv == /\ TP!IInv /\ HP!StoreInv
        /\ TurnInv /\ LiveInv /\ RequestInv /\ WriteInv /\ PostInv

-----------------------------------------------------------------------------
(***************************************************************************)
(* Each step is one of Task.                                               *)
(***************************************************************************)
\* The steps of Task that are neither of CTask::Start nor of ProcessData's success.
TaskOther == \/ \E t \in T!Threads : T!Step(t)
             \/ \E w \in Workers : T!Completion(w) \/ T!CheckRundown(w) \/ T!ProcessFails(w)
             \/ T!Rundown \/ T!Rundown_l \/ T!Done \/ T!WriteFails \/ T!PostDone

\* A write can only fail after something has been hashed ...
LEMMA WriteMayFail ==
  ASSUME PInv, counted # {}, posted = "none",
         UNCHANGED <<tVars, posted, task>>,
         error' = IF error = "success" THEN "write" ELSE error
  PROVE  [TaskOther]_(T!vars)
<1>1. CASE error = "success"
  <2>1. bytes < T!BytesToProcess \/ \E w \in Workers : pc[w] = "process"
    BY <1>1 DEF PInv, WriteInv
  <2>2. T!WriteFails
    BY <2>1
       DEF T!WriteFails, T!SetError, T!gateVars, T!refVars, T!workVars, T!ctlVars,
           tVars
  <2>3. QED
    BY <2>2 DEF TaskOther
<1>2. CASE error # "success"
  BY <1>2 DEF T!vars, T!gateVars, T!refVars, T!workVars, T!ctlVars, T!hfVars, tVars
<1>3. QED
  BY <1>1, <1>2

\* ... and WM_DONE be posted after Complete has been called.
LEMMA PostsWhenClosing ==
  ASSUME PInv, releasing > 0 \/ task = "release", H!Release,
         task' = "running" <=> task = "running",
         UNCHANGED <<tVars, error>>
  PROVE  [TaskOther]_(T!vars)
<1>1. posted = "none"
  <2>1. alive
    BY HashFacts DEF PInv
  <2>2. QED
    BY <2>1, HashFacts DEF PInv
<1>2. CASE refs = 1
  <2>1. posted' = HashError /\ task # "running"
    BY <1>2, LastLetsGo DEF PInv, H!Release, H!Destructor, HashError
  <2>2. posted' # "none"
    BY <2>1, FragmentFacts DEF PInv, HashError
  <2>3. T!PostDone
    BY <1>1, <2>1, <2>2
       DEF T!PostDone, T!gateVars, T!refVars, T!workVars, T!ctlVars, tVars
  <2>4. QED
    BY <2>3 DEF TaskOther
<1>3. CASE refs # 1
  <2>1. posted' = posted
    BY <1>3 DEF H!Release, H!endVars
  <2>2. QED
    BY <1>1, <1>3, <2>1
       DEF T!vars, T!gateVars, T!refVars, T!workVars, T!ctlVars, T!hfVars, tVars
<1>4. QED
  BY <1>2, <1>3

\* The sets of variables a step of one side leaves alone.
TaskUnchanged == UNCHANGED <<tVars, error, posted, task>>
\* Such a step is none of Task's.
LEMMA TaskStutters == TaskUnchanged => UNCHANGED T!vars
BY DEF TaskUnchanged, tVars, T!vars, T!gateVars, T!refVars, T!workVars, T!ctlVars,
   T!hfVars

\* What threads do.
LEMMA ThreadIsTask ==
  ASSUME PInv, NEW t \in T!Threads, Thread(t)
  PROVE  \/ [TaskOther]_(T!vars)
         \/ t \in Workers /\ \E f \in Fragments : ProcessData(t, f)
<1>1. CASE TaskStep(t) \/ ReUseBlock(t)
  BY <1>1 DEF TaskStep, ReUseBlock, TaskOther, T!Step
<1>2. CASE Release(t) \/ Complete(t)
  BY <1>2 DEF Release, Complete, TaskOther, T!Step
<1>3. CASE ReleaseHashFile(t)
  <2>1. UNCHANGED <<tVars, error>> /\ task = "release" /\ task' = "done" /\ H!Release
    BY <1>3 DEF ReleaseHashFile, H!TaskRelease
  <2>2. QED
    BY <2>1, PostsWhenClosing
<1>4. ASSUME NEW f \in Fragments, pc[t] # "idle", Fails(t, f) PROVE TaskOther
  <2>1. CASE T!FailInline(t)
    BY <2>1 DEF TaskOther, T!Step
  <2>2. CASE T!ReadFails(t, f)
    BY <1>4, <2>2 DEF T!ReadFails
  <2>3. CASE T!ProcessFails(t) \/ T!CheckRundown(t)
    <3>1. t \in Workers
      BY <2>3, ThreadFacts DEF PInv, T!ProcessFails, T!CheckRundown
    <3>2. QED
      BY <2>3, <3>1 DEF TaskOther
  <2>4. QED
    BY <1>4, <2>1, <2>2, <2>3 DEF Fails
<1>5. ASSUME NEW f \in Fragments, BeginHash(t, f) PROVE [TaskOther]_(T!vars)
  <2>1. t \in Workers /\ UNCHANGED <<posted, task>>
    BY <1>5, ThreadFacts DEF PInv, BeginHash, Processing
  <2>2. CASE T!ProcessFails(t)
    BY <2>1, <2>2 DEF TaskOther
  <2>3. CASE UNCHANGED <<tVars, error>>
    BY <2>1, <2>3, TaskStutters DEF TaskUnchanged
  <2>4. QED
    BY <1>5, <2>2, <2>3 DEF BeginHash
<1>6. ASSUME NEW f \in Fragments, HashStep(t, f) PROVE [TaskOther]_(T!vars)
  <2>1. UNCHANGED <<posted, task>>
    BY <1>6
       DEF HashStep, H!FindBlock, H!ReuseBlock, H!AllocBlock, H!AllocFails, H!FinishHash,
           H!endVars, H!fileVars
  <2>2. QED
    BY <1>6, <2>1, TaskStutters DEF HashStep, TaskUnchanged
<1>7. ASSUME NEW f \in Fragments, CompleteStep(t, f) PROVE [TaskOther]_(T!vars)
  <2>1. UNCHANGED tVars /\ error' \in {error, IF error = "success" THEN "write" ELSE error}
    BY <1>7 DEF CompleteStep
  <2>2. step[f] \notin {"gone"} /\ UNCHANGED <<posted, task>>
    <3>1. CASE H!ReleaseInline(f)
      <4>1. step[f] = "release" /\ H!Release /\ UNCHANGED task
        BY <3>1 DEF H!ReleaseInline
      <4>2. refs # 1
        BY <4>1, InlineIsNotLast DEF PInv
      <4>3. QED
        BY <4>1, <4>2 DEF H!Release, H!endVars
    <3>2. CASE H!CompleteHash(f) \/ H!CountDown(f) \/ H!WriteBlock(f) \/ H!WriteRefused(f)
               \/ H!UnlinkInline(f)
      BY <3>2
         DEF H!CompleteHash, H!CountDown, H!WriteBlock, H!WriteRefused,
             H!UnlinkInline,
                  H!endVars, H!fileVars
    <3>3. QED
      BY <1>7, <3>1, <3>2 DEF CompleteStep
  <2>3. CASE error' = error
    BY <2>1, <2>2, <2>3, TaskStutters DEF TaskUnchanged
  <2>4. CASE error' # error
    <3>1. H!WriteRefused(f)
      BY <1>7, <2>1, <2>4, FragmentFacts
         DEF CompleteStep, PInv, H!CompleteHash, H!CountDown, H!WriteBlock, H!UnlinkInline,
             H!ReleaseInline, H!fileVars
    <3>2. hash[f] \in counted /\ posted = "none"
      BY <2>2, <3>1, HashFacts DEF PInv, H!WriteRefused
    <3>3. QED
      BY <2>1, <2>2, <2>4, <3>2, WriteMayFail
  <2>5. QED
    BY <2>3, <2>4
<1>8. ASSUME NEW f \in Fragments, ProcessData(t, f) PROVE t \in Workers
  BY <1>8, ThreadFacts DEF PInv, ProcessData, Processing
<1>9. CASE CheckRundown(t)
  <2>1. t \in Workers
    BY <1>9, ThreadFacts DEF PInv, CheckRundown, T!CheckRundown
  <2>2. QED
    BY <1>9, <2>1 DEF CheckRundown, TaskOther
<1>10. QED
  BY <1>1, <1>2, <1>3, <1>4, <1>5, <1>6, <1>7, <1>8, <1>9 DEF Thread

\* What completed writes do.
LEMMA WritesAreTask ==
  ASSUME PInv, Writes
  PROVE  [TaskOther]_(T!vars)
<1>1. UNCHANGED tVars /\ error' \in {error, IF error = "success" THEN "write" ELSE error}
  BY DEF Writes
<1>2. ASSUME NEW b \in Pool, H!WriteCompletes(b) PROVE [TaskOther]_(T!vars)
  <2>1. UNCHANGED <<posted, task>> /\ pending[b] # H!None
    BY <1>2 DEF H!WriteCompletes, H!endVars
  <2>2. CASE error' = error
    BY <1>1, <2>1, <2>2, TaskStutters DEF TaskUnchanged
  <2>3. CASE error' # error
    <3>1. counted # {}
      BY <2>1 DEF PInv, WriteInv
    <3>2. posted = "none"
      BY <2>1, HashFacts DEF PInv
    <3>3. QED
      BY <1>1, <2>1, <2>3, <3>1, <3>2, WriteMayFail
  <2>4. QED
    BY <2>2, <2>3
<1>3. ASSUME NEW b \in Pool, H!Unlink(b) PROVE [TaskOther]_(T!vars)
  <2>1. UNCHANGED <<error, posted, task>>
    BY <1>1, <1>3, FragmentFacts DEF PInv, H!Unlink, H!endVars, H!fileVars
  <2>2. QED
    BY <1>1, <2>1, TaskStutters DEF TaskUnchanged
<1>4. CASE H!ReleaseBlock
  <2>1. releasing > 0 /\ H!Release /\ UNCHANGED <<error, task>>
    BY <1>1, <1>4, FragmentFacts DEF PInv, H!ReleaseBlock
  <2>2. QED
    BY <1>1, <2>1, PostsWhenClosing
<1>5. QED
  BY <1>2, <1>3, <1>4 DEF Writes

\* The steps in the order of what they mean to the task.
LEMMA StepKinds ==
  ASSUME PInv, [Next]_vars
  PROVE  \/ [TaskOther]_(T!vars)
         \/ StartStep
         \/ \E w \in Workers, f \in Fragments : ProcessData(w, f)
<1>1. ASSUME NEW t \in T!Threads, Thread(t)
      PROVE  \/ [TaskOther]_(T!vars)
             \/ \E w \in Workers, f \in Fragments : ProcessData(w, f)
  BY <1>1, ThreadIsTask
<1>2. CASE Completion
  <2>1. PICK w \in Workers, f \in Fragments : ReadArrives(w, f) \/ (pc[w] = "idle" /\ Fails(w, f))
    BY <1>2 DEF Completion
  <2>2. CASE ReadArrives(w, f)
    BY <2>2 DEF ReadArrives, TaskOther, T!Completion
  <2>3. CASE pc[w] = "idle" /\ Fails(w, f)
    <3>1. T!ReadFails(w, f)
      BY <2>3 DEF Fails, T!FailInline, T!ProcessFails, T!CheckRundown
    <3>2. QED
      BY <3>1 DEF TaskOther, T!Completion
  <2>4. QED
    BY <2>1, <2>2, <2>3
<1>3. CASE Dialog \/ Cancel
  BY <1>3 DEF Dialog, Cancel, TaskOther
<1>4. CASE Writes
  BY <1>4, WritesAreTask
<1>5. CASE UNCHANGED vars
  <2>1. TaskUnchanged
    BY <1>5 DEF vars, hVars, hVarsButStep, TaskUnchanged
  <2>2. QED
    BY <2>1, TaskStutters
<1>6. QED
  BY <1>1, <1>2, <1>3, <1>4, <1>5 DEF Next, GoOn

\* Each step of the program is one of Task, or none of its variables changes.
LEMMA StepIsTask ==
  ASSUME PInv, [Next]_vars
  PROVE  [T!Next]_(T!vars)
<1>1. TaskOther => T!Next
  BY DEF TaskOther, T!Next, T!Process
<1>2. StartStep => T!Next
  BY DEF StartStep, NewFragment, NewFails, CreateBuffer, T!Next, T!StartStep
<1>3. ASSUME NEW w \in Workers, NEW f \in Fragments, ProcessData(w, f) PROVE T!Next
  BY <1>3 DEF ProcessData, T!Next, T!Process
<1>4. QED
  BY <1>1, <1>2, <1>3, StepKinds

-----------------------------------------------------------------------------
(***************************************************************************)
(* Each step is one of HashFile.                                           *)
(***************************************************************************)
\* How many hashes there are.
LEMMA HashRange ==
  /\ (NFragments - 1) * HashesInFragment \in Nat /\ Begun[NFragments - 1][1] \in Nat \ {0}
  /\ H!Hashes \subseteq Nat /\ 0 \in H!Hashes
  /\ \A h \in Nat : h \in H!Hashes <=>
       h < (NFragments - 1) * HashesInFragment + Begun[NFragments - 1][1]
<1>1. NFragments - 1 \in Nat /\ HashesInFragment \in Nat
  BY ProgramAssumption
<1>2. PICK n \in Nat : n = (NFragments - 1) * HashesInFragment
  BY <1>1
<1>3. Begun[NFragments - 1][1] \in Nat \ {0}
  BY ProgramAssumption, BoundariesAssumption
<1>4. PICK m \in Nat \ {0} :
        m = (NFragments - 1) * HashesInFragment + Begun[NFragments - 1][1]
  BY <1>2, <1>3
<1>5. H!Hashes = 0 .. m - 1
  BY <1>4, Zenon DEF H!Hashes
<1>6. QED
  BY <1>2, <1>3, <1>4, <1>5

\* Fragments of the file that follow each other.
LEMMA FragmentsInOrder ==
  ASSUME NEW i \in Nat, NEW j \in Nat, i < j
  PROVE  i * HashesInFragment + HashesInFragment <= j * HashesInFragment
<1>1. HashesInFragment \in Nat
  BY ProgramAssumption
<1>2. PICK k \in Nat : j = i + 1 + k
  OBVIOUS
<1>3. /\ j * HashesInFragment = i * HashesInFragment + HashesInFragment + k * HashesInFragment
      /\ k * HashesInFragment \in Nat /\ i * HashesInFragment \in Nat
  BY <1>1, <1>2
<1>4. QED
  BY <1>1, <1>3

\* Each hash belongs to one fragment of the file,
LEMMA FragmentOfHash ==
  ASSUME NEW h \in H!Hashes
  PROVE  /\ \E i \in 0 .. NFragments - 1 : InFragment(h, i)
         /\ \A i, j \in Nat : InFragment(h, i) /\ InFragment(h, j) => i = j
<1> DEFINE K == HashesInFragment
<1>1. h \in Nat /\ K \in Nat \ {0} /\ NFragments \in Nat \ {0}
  BY HashRange, ProgramAssumption
<1>2. h \div K \in Nat /\ (h \div K) * K <= h /\ h < (h \div K) * K + K
  BY <1>1
<1>3. PICK i \in Nat : i * K <= h /\ h < i * K + K
  BY <1>2
<1>4. i <= NFragments - 1
  <2>1. SUFFICES ASSUME NFragments - 1 < i PROVE FALSE
    BY <1>1
  <2>2. (NFragments - 1) * K + K <= i * K
    BY <1>1, <2>1, FragmentsInOrder
  <2>3. Begun[NFragments - 1][1] <= K
    BY <1>1, Boundaries
  <2>4. h < (NFragments - 1) * K + Begun[NFragments - 1][1]
    BY <1>1, HashRange
  <2>5. i * K \in Nat /\ (NFragments - 1) * K \in Nat /\ Begun[NFragments - 1][1] \in Nat
    BY <1>1, HashRange
  <2>6. QED
    BY <1>1, <1>3, <2>2, <2>3, <2>4, <2>5
<1>5. InFragment(h, i) /\ i \in 0 .. NFragments - 1
  BY <1>1, <1>3, <1>4 DEF InFragment
<1>6. ASSUME NEW p \in Nat, NEW q \in Nat, InFragment(h, p), InFragment(h, q), p < q
      PROVE  FALSE
  <2>1. p * K + K <= q * K /\ p * K \in Nat /\ q * K \in Nat
    BY <1>1, <1>6, FragmentsInOrder
  <2>2. QED
    BY <1>1, <1>6, <2>1 DEF InFragment
<1>7. \A p, q \in Nat : InFragment(h, p) /\ InFragment(h, q) => p = q
  BY <1>6
<1>8. QED
  BY <1>5, <1>7

\* and the hashes that are begun by the reads of a fragment are its own.
LEMMA HashesBegun ==
  ASSUME NEW i \in 0 .. NFragments - 1, NEW a \in Nat, a < Begun[i][T!ReadsOf(i)]
  PROVE  /\ i * HashesInFragment + a \in H!Hashes
         /\ InFragment(i * HashesInFragment + a, i)
<1> DEFINE K == HashesInFragment
<1>1. K \in Nat /\ NFragments - 1 \in Nat /\ i \in Nat
  BY ProgramAssumption
<1>2. /\ a < K /\ i * K \in Nat /\ (NFragments - 1) * K \in Nat
      /\ Begun[NFragments - 1][1] \in Nat \ {0}
  BY <1>1, Boundaries, HashRange
<1>3. i * K + a < (NFragments - 1) * K + Begun[NFragments - 1][1]
  <2>1. CASE i = NFragments - 1
    BY <1>2, <2>1, Boundaries
  <2>2. CASE i # NFragments - 1
    <3>1. i * K + K <= (NFragments - 1) * K
      BY <1>1, <2>2, FragmentsInOrder
    <3>2. QED
      BY <1>1, <1>2, <3>1
  <2>3. QED
    BY <2>1, <2>2
<1>4. i * K + a \in Nat
  BY <1>2
<1>5. QED
  BY <1>1, <1>2, <1>3, <1>4, HashRange DEF InFragment

\* The hashes begun by all reads of a fragment are all it has.
LEMMA LastHash ==
  ASSUME NEW i \in 0 .. NFragments - 1, NEW h \in H!Hashes, InFragment(h, i)
  PROVE  h < i * HashesInFragment + Begun[i][T!ReadsOf(i)]
<1>1. CASE i = NFragments - 1
  BY <1>1, HashRange, Boundaries
<1>2. CASE i # NFragments - 1
  BY <1>2, Boundaries DEF InFragment
<1>3. QED
  BY <1>1, <1>2

\* So when all fragments have been hashed all hashes have been asked for.
LEMMA AllRequested ==
  ASSUME PInv, \A i \in 0 .. NFragments - 1 : i \in hashed
  PROVE  requested = H!Hashes
<1>1. \A h \in H!Hashes : h \in requested
  BY FragmentOfHash DEF PInv, RequestInv
<1>2. QED
  BY <1>1, HashTypes DEF PInv

\* The condition on which a CFragment may leave.
LEMMA MayRetire ==
  ASSUME PInv, NEW f \in Fragments, error = "success" => ~TP!Going(f)
  PROVE  \/ requested \in {{}, H!Hashes}
         \/ HashError # "success"
         \/ \E d \in Fragments \ {f} : step[d] # "gone" /\ d \notin dying
<1> SUFFICES ASSUME error = "success"
             PROVE  \/ requested \in {{}, H!Hashes}
                    \/ \E d \in Fragments \ {f} : step[d] # "gone" /\ d \notin dying
  BY DEF HashError
<1>1. dying = {}
  BY HashFacts DEF PInv
<1>2. ASSUME NEW g \in Fragments, TP!Going(g)
      PROVE  g \in Fragments \ {f} /\ step[g] # "gone"
  BY <1>2, GoingIsLive DEF PInv, LiveInv
<1>3. CASE nFragments <= 0
  <2>1. nFragments \in Int
    BY FragmentFacts DEF PInv
  <2>2. CASE \A i \in 0 .. NFragments - 1 : i \in hashed
    BY <2>2, AllRequested
  <2>3. CASE \E i \in 0 .. NFragments - 1 : i \notin hashed
    <3>1. PICK i \in 0 .. NFragments - 1 : i \notin hashed
      BY <2>3
    <3>2. i >= nFragments
      BY <1>3, <2>1
    <3>3. PICK g \in Fragments : left[g] > 0
      BY <3>1, <3>2, SomebodyReads DEF PInv
    <3>4. TP!Going(g)
      BY <3>3, SomebodyReads DEF PInv
    <3>5. QED
      BY <1>1, <1>2, <3>4
  <2>4. QED
    BY <2>2, <2>3
<1>4. CASE \E g \in Fragments : TP!Going(g)
  BY <1>1, <1>2, <1>4
<1>5. CASE nFragments = NFragments
  <2>1. ASSUME NEW h \in requested PROVE FALSE
    <3>1. h \in H!Hashes
      BY HashTypes DEF PInv
    <3>2. PICK i \in 0 .. NFragments - 1 : InFragment(h, i)
      BY <3>1, FragmentOfHash
    <3>3. i >= NFragments
      BY <1>5, <3>2 DEF PInv, RequestInv
    <3>4. QED
      BY <3>3, ProgramAssumption
  <2>2. QED
    BY <2>1
<1>6. QED
  BY <1>3, <1>4, <1>5, SomebodyReads DEF PInv

\* new has failed for a CFragment.
LEMMA NewFailsRetires ==
  ASSUME PInv, NewFails
  PROVE  [H!Next]_(H!vars)
<1>1. PICK f \in Fragments \ T!Live :
        step[f] = "idle" /\ step' = [step EXCEPT ![f] = "gone"]
  BY DEF NewFails
<1>2. UNCHANGED <<hVarsButStep, error>>
  BY DEF NewFails, T!NewFails, T!hfVars
<1>3. ~TP!Going(f)
  BY <1>1, GoingIsLive DEF PInv
<1>4. H!Retire(f)
  <2>1. \/ requested \in {{}, H!Hashes}
        \/ HashError # "success"
        \/ \E d \in Fragments \ {f} : step[d] # "gone" /\ d \notin dying
    BY <1>1, <1>3, MayRetire
  <2>2. QED
    BY <1>1, <1>2, <2>1
       DEF H!Retire, H!Goto, hVarsButStep, HashError, H!blockVars, H!ioVars, H!endVars,
           H!workVars, H!jobVars, H!fileVars
<1>5. QED
  BY <1>1, <1>4 DEF H!Next, H!ClientStep

\* A CFragment that has come to its end.
LEMMA ReleaseRetires ==
  ASSUME PInv, NEW t \in T!Threads, Release(t)
  PROVE  [H!Next]_(H!vars)
<1> DEFINE f == this[t]
<1>1. pc[t] = "release" /\ UNCHANGED <<hVarsButStep, error>>
  BY DEF Release, T!Release, T!hfVars
<1>2. f \in Fragments /\ f \in T!Live
  <2>1. TP!IInv /\ f \in Fragments
    BY <1>1, CtlFacts DEF PInv
  <2>2. f # T!None
    BY <2>1, ProgramAssumption DEF T!None
  <2>3. QED
    BY <1>1, <2>1, <2>2, CtlFacts
<1>3. CASE fragRefs[f] = 1 /\ step[f] = "idle"
  <2>1. ~TP!Going(f)
    BY <1>1, <1>2, <1>3, GoingIsLive DEF PInv
  <2>2. \/ requested \in {{}, H!Hashes}
        \/ HashError # "success"
        \/ \E d \in Fragments \ {f} : step[d] # "gone" /\ d \notin dying
    BY <1>2, <2>1, MayRetire
  <2>3. step' = [step EXCEPT ![f] = "gone"]
    BY <1>2, <1>3, HashTypes DEF Release, PInv
  <2>4. H!Retire(f)
    BY <1>1, <1>2, <1>3, <2>2, <2>3
       DEF H!Retire, H!Goto, hVarsButStep, HashError, H!blockVars, H!ioVars, H!endVars,
           H!workVars, H!jobVars, H!fileVars
  <2>5. QED
    BY <1>2, <2>4 DEF H!Next, H!ClientStep
<1>4. CASE ~(fragRefs[f] = 1 /\ step[f] = "idle")
  <2>1. step' = step
    BY <1>4, HashTypes DEF Release, PInv
  <2>2. QED
    BY <1>1, <2>1 DEF hVarsButStep, H!vars, H!blockVars, H!ioVars, H!endVars,
                      H!workVars, H!jobVars, H!fileVars
<1>5. QED
  BY <1>3, <1>4

\* What the CHashFile does not see is none of its steps.
LEMMA HashStutters == UNCHANGED <<hVars, error>> => UNCHANGED H!vars
BY DEF hVars, hVarsButStep, H!vars, H!blockVars, H!ioVars, H!endVars, H!workVars,
       H!jobVars, H!fileVars

\* The steps of Task the CHashFile does not see.
LEMMA QuietSteps ==
  /\ \A t \in T!Threads : TaskStep(t) \/ ReUseBlock(t) => UNCHANGED <<hVars, error>>
  /\ \A t \in T!Threads : CheckRundown(t) => UNCHANGED <<hVars, error>>
  /\ \A t \in T!Threads, f \in Fragments : ProcessData(t, f) => UNCHANGED <<hVars, error>>
  /\ \A t \in T!Threads, f \in Fragments : ReadArrives(t, f) => UNCHANGED <<hVars, error>>
  /\ \A f \in Fragments : NewFragment(f) => UNCHANGED <<hVars, error>>
  /\ CreateBuffer \/ Dialog \/ Cancel => UNCHANGED <<hVars, error>>
<1>1. ASSUME NEW t \in T!Threads
      PROVE  /\ TaskStep(t) \/ ReUseBlock(t) => UNCHANGED <<hVars, error>>
             /\ CheckRundown(t) => UNCHANGED <<hVars, error>>
  BY DEF TaskStep, ReUseBlock, CheckRundown, T!ReUseBlock, T!Read, T!IssueRead,
     T!ReleaseRP,
         T!RundownCompleted, T!EndIo, T!TaskRelease, T!CheckRundown, T!hfVars
<1>2. ASSUME NEW t \in T!Threads, NEW f \in Fragments
      PROVE  /\ ProcessData(t, f) => UNCHANGED <<hVars, error>>
             /\ ReadArrives(t, f) => UNCHANGED <<hVars, error>>
             /\ NewFragment(f) => UNCHANGED <<hVars, error>>
  BY DEF ProcessData, ReadArrives, NewFragment, T!ProcessData, T!ReadArrives,
         T!NewFragment, T!hfVars
<1>3. CreateBuffer \/ Dialog \/ Cancel => UNCHANGED <<hVars, error>>
  BY DEF CreateBuffer, Dialog, Cancel, T!CreateBuffer, T!Rundown_l, T!Done, T!Rundown,
     T!hfVars
<1>4. UI \in T!Threads
  BY DEF T!Threads
<1>5. QED
  BY <1>1, <1>2, <1>3, <1>4

\* ProcessData asks for the first hash of its fragment that nobody has asked for.
LEMMA NextHash ==
  ASSUME PInv, NEW t \in T!Threads, NEW f \in Fragments, BeginHash(t, f)
  PROVE  /\ HashNo(f) \in H!Hashes \ requested
         /\ part[f] \in 0 .. NFragments - 1 /\ InFragment(HashNo(f), part[f])
         /\ f \in T!Live /\ left[f] > 0 /\ part[f] # T!None
<1>1. pc[t] = "process" /\ this[t] = f /\ asked[f] < BegunBy(f)
  BY DEF BeginHash, Processing
<1>2. part[f] # T!None /\ left[f] > 0 /\ f \in T!Live
  BY <1>1, ProcessFacts, CtlFacts, ProgramAssumption DEF PInv, T!None
<1>3. part[f] \in 0 .. NFragments - 1 /\ left[f] \in Nat /\ asked[f] \in Nat
  BY <1>2, FragmentFacts DEF PInv, RequestInv
<1>4. left[f] <= T!ReadsOf(part[f])
  BY <1>2 DEF PInv, TurnInv
<1>5. Done(f) + 1 \in 1 .. T!ReadsOf(part[f])
  BY <1>2, <1>3, <1>4, Boundaries DEF Done
<1>6. asked[f] < Begun[part[f]][T!ReadsOf(part[f])]
  <2>1. /\ BegunBy(f) \in Nat /\ Begun[part[f]][T!ReadsOf(part[f])] \in Nat
        /\ BegunBy(f) <= Begun[part[f]][T!ReadsOf(part[f])]
    BY <1>3, <1>5, Boundaries DEF BegunBy
  <2>2. QED
    BY <1>1, <1>3, <2>1
<1>7. HashNo(f) \in H!Hashes /\ InFragment(HashNo(f), part[f])
  BY <1>3, <1>6, HashesBegun DEF HashNo
<1>8. HashNo(f) \notin requested
  <2>1. HashNo(f) \in requested <=> HashNo(f) < HashNo(f)
    BY <1>2, <1>7 DEF PInv, RequestInv
  <2>2. QED
    <3>1. HashNo(f) \in Nat
      BY <1>7, HashRange
    <3>2. ~(HashNo(f) < HashNo(f))
      BY <3>1
    <3>3. QED
      BY <2>1, <3>2
<1>9. QED
  BY <1>2, <1>3, <1>7, <1>8

\* Each step of the program is one of HashFile, or none of its variables changes.
LEMMA StepIsHashFile ==
  ASSUME PInv, [Next]_vars
  PROVE  [H!Next]_(H!vars)
<1>1. ASSUME NEW t \in T!Threads, TaskStep(t) \/ ReUseBlock(t) \/ CheckRundown(t)
      PROVE  UNCHANGED H!vars
  BY <1>1, QuietSteps, HashStutters
<1>2. ASSUME NEW t \in T!Threads, Complete(t) \/ ReleaseHashFile(t) PROVE H!Next
  BY <1>2 DEF Complete, ReleaseHashFile, H!Next
<1>3. ASSUME NEW t \in T!Threads, NEW f \in Fragments,
             Fails(t, f) \/ BeginHash(t, f) \/ HashStep(t, f) \/ CompleteStep(t, f)
      PROVE  H!Next
  <2>1. \/ \E h \in H!Hashes \ requested : H!GetHashBuffer(f, h)
        \/ H!FragmentFails(f) \/ H!AllocFails(f) \/ H!FindBlock(f) \/ H!ReuseBlock(f)
        \/ H!AllocBlock(f) \/ H!FinishHash(f) \/ H!CompleteHash(f) \/ H!CountDown(f)
        \/ H!WriteBlock(f) \/ H!WriteRefused(f) \/ H!UnlinkInline(f) \/ H!ReleaseInline(f)
    <3>1. CASE BeginHash(t, f)
      <4>1. H!GetHashBuffer(f, HashNo(f))
        BY <3>1 DEF BeginHash
      <4>2. HashNo(f) \in H!Hashes \ requested
        BY <3>1, NextHash
      <4>3. QED
        BY <4>1, <4>2
    <3>2. CASE ~BeginHash(t, f)
      BY <1>3, <3>2 DEF Fails, HashStep, CompleteStep
    <3>3. QED
      BY <3>1, <3>2
  <2>2. QED
    BY <2>1 DEF H!Next, H!ClientStep
<1>4. ASSUME NEW t \in T!Threads, Thread(t) PROVE [H!Next]_(H!vars)
  BY <1>1, <1>2, <1>3, <1>4, ReleaseRetires, QuietSteps, HashStutters DEF Thread
<1>5. CASE Completion
  <2>1. PICK w \in Workers, f \in Fragments : ReadArrives(w, f) \/ Fails(w, f)
    BY <1>5 DEF Completion
  <2>2. w \in T!Threads
    BY DEF T!Threads
  <2>3. QED
    BY <1>3, <2>1, <2>2, QuietSteps, HashStutters
<1>6. CASE StartStep
  BY <1>6, NewFailsRetires, QuietSteps, HashStutters DEF StartStep
<1>7. CASE Dialog \/ Cancel
  BY <1>7, QuietSteps, HashStutters
<1>8. CASE Writes
  BY <1>8 DEF Writes, H!Next
<1>9. CASE UNCHANGED vars
  BY <1>9, HashStutters DEF vars
<1>10. QED
  BY <1>4, <1>5, <1>6, <1>7, <1>8, <1>9 DEF Next, GoOn

-----------------------------------------------------------------------------
(***************************************************************************)
(* What the steps of Task leave alone.                                     *)
(***************************************************************************)
\* The CFragments that exist and what has been handed out and hashed.
Quiet == /\ T!Live' \subseteq T!Live
         /\ nFragments' \in Int /\ nFragments' <= nFragments
         /\ bytes' = bytes /\ hashed' = hashed
         /\ \A f \in Fragments :
              \/ part'[f] = part[f] /\ left'[f] = left[f]
              \/ part'[f] # T!None /\ left'[f] = T!ReadsOf(part'[f]) /\ left'[f] > 0
         /\ error # "success" => error' # "success"
         /\ \A w \in Workers : pc[w] = "process" => pc'[w] = "process" \/ error' # "success"
         /\ \A t \in T!Threads :
              pc'[t] = "endio" /\ this'[t] # T!None => fragRefs'[this'[t]] = 0

\* The steps that are neither of CTask::Start nor of ProcessData's success are quiet.
LEMMA OtherSteps ==
  ASSUME TP!IInv, TurnInv, [TaskOther]_(T!vars)
  PROVE  Quiet
<1> USE ProgramAssumption DEF TP!IInv, TP!TypeOK, TP!CtlInv, TP!Labels, TP!Threads, TP!None,
        T!Threads, T!None, T!Live, TurnInv, Quiet, T!gateVars, T!refVars, T!workVars,
        T!hfVars, T!ctlVars, T!Goto
<1>1. T!None \notin Fragments /\ UI \in T!Threads /\ UI \notin Workers
  BY DEF T!None
<1>2. ASSUME NEW t \in T!Threads,
             T!IssueRead(t) \/ T!ReleaseRP(t) \/ T!RundownCompleted(t) \/ T!EndIo(t)
             \/ T!Complete(t) \/ T!TaskRelease(t)
      PROVE  Quiet
  BY <1>1, <1>2 DEF T!IssueRead, T!ReleaseRP, T!RundownCompleted, T!EndIo, T!Complete,
         T!TaskRelease, T!ReadRefused, T!LastOut, T!AfterLeave, T!Return, T!AfterEndIo
<1>3. ASSUME NEW t \in T!Threads, T!Read(t) \/ T!FailInline(t) \/ T!Release(t)
      PROVE  Quiet
  <2>1. this[t] \in Fragments /\ fragRefs[this[t]] > 0
    BY <1>3, CtlFacts DEF T!Read, T!FailInline, T!Release
  <2>2. QED
    BY <1>1, <1>3, <2>1 DEF T!Read, T!FailInline, T!Release, T!AddRef, T!ReleaseInline,
       T!SetError, T!Return
<1>4. ASSUME NEW t \in T!Threads, T!ReUseBlock(t) PROVE Quiet
  <2>1. this[t] \in Fragments
    BY <1>4, CtlFacts DEF T!ReUseBlock
  <2>2. nFragments > 0 => T!ReadsOf(nFragments - 1) > 0 /\ nFragments - 1 # T!None
    BY DEF T!ReadsOf
  <2>3. QED
    BY <1>1, <1>4, <2>1, <2>2 DEF T!ReUseBlock, T!TakeFragment, T!AnyLeft
<1>5. ASSUME NEW w \in Workers,
             T!Completion(w) \/ T!CheckRundown(w) \/ T!ProcessFails(w)
      PROVE  Quiet
  BY <1>1, <1>5
     DEF T!Completion, T!ReadFails, T!ReadArrives, T!CheckRundown, T!ProcessFails,
                    T!DataError, T!SetError
<1>6. CASE T!Rundown \/ T!Rundown_l \/ T!Done \/ T!WriteFails \/ T!PostDone
  BY <1>1, <1>6 DEF T!Rundown, T!Rundown_l, T!Done, T!WriteFails, T!PostDone, T!SetError
<1>7. CASE UNCHANGED T!vars
  BY <1>1, <1>7 DEF T!vars
<1>8. QED
  BY <1>2, <1>3, <1>4, <1>5, <1>6, <1>7 DEF TaskOther, T!Step

\* What the steps of CTask::Start leave alone.
LEMMA StartSteps ==
  ASSUME TP!IInv, StartStep
  PROVE  /\ UNCHANGED <<nFragments, left, bytes, hashed, error, hVarsButStep, asked>>
         /\ \/ \E f \in Fragments :
                  /\ NewFragment(f) /\ part' = [part EXCEPT ![f] = T!None]
                  /\ fragRefs' = [fragRefs EXCEPT ![f] = 1] /\ step' = step
            \/ NewFails /\ UNCHANGED <<part, fragRefs>>
            \/ CreateBuffer /\ UNCHANGED <<part, fragRefs, step>>
         /\ \A w \in Workers : pc'[w] = pc[w]
<1> USE DEF T!Goto, T!workVars, T!hfVars, T!refVars, hVars
<1>1. /\ UNCHANGED <<nFragments, left, bytes, hashed, error, hVarsButStep, asked>>
      /\ \/ \E f \in Fragments :
               /\ NewFragment(f) /\ part' = [part EXCEPT ![f] = T!None]
               /\ fragRefs' = [fragRefs EXCEPT ![f] = 1] /\ step' = step
         \/ NewFails /\ UNCHANGED <<part, fragRefs>>
         \/ CreateBuffer /\ UNCHANGED <<part, fragRefs, step>>
  BY DEF StartStep, NewFragment, NewFails, CreateBuffer, T!NewFragment, T!NewFails,
     T!CreateBuffer
<1>2. \A w \in Workers : pc'[w] = pc[w]
  <2>1. \A w \in Workers : w # UI /\ w \in T!Threads /\ pc \in [T!Threads -> T!Labels]
    BY ThreadFacts, ProgramAssumption
  <2>2. \E l \in {"create", "new", "endio", "reuse", "release"} : pc' = [pc EXCEPT ![UI] = l]
    BY DEF StartStep, NewFragment, NewFails, CreateBuffer, T!NewFragment, T!NewFails,
       T!CreateBuffer
  <2>3. QED
    BY <2>1, <2>2
<1>3. QED
  BY <1>1, <1>2

\* What ProcessData changes.
LEMMA ProcessSteps ==
  ASSUME TP!IInv, NEW w \in Workers, NEW f \in Fragments, ProcessData(w, f)
  PROVE  /\ UNCHANGED <<nFragments, part, fragRefs, error, hVars, asked>>
         /\ left[f] > 0 /\ part[f] # T!None
         /\ bytes' = bytes - 1 /\ left' = [left EXCEPT ![f] = @ - 1]
         /\ hashed' = IF left[f] > 1 THEN hashed ELSE hashed \cup {part[f]}
         /\ \A t \in T!Threads : t # w => pc'[t] = pc[t]
         /\ pc[w] = "process" /\ pc'[w] \in {"read", "reuse"} /\ this' = this /\ w # UI
         /\ f \in T!Live
<1> USE DEF T!Goto, T!workVars, T!hfVars, T!refVars
<1>1. w \in T!Threads /\ pc[w] = "process" /\ this[w] = f /\ w # UI
  BY ProgramAssumption, ThreadFacts DEF ProcessData, Processing
<1>2. left[f] > 0 /\ part[f] # T!None /\ left[f] \in Nat
  BY <1>1, ProcessFacts, FragmentFacts
<1>3. f \in T!Live
  BY <1>1, CtlFacts, ProgramAssumption DEF T!None
<1>4. /\ UNCHANGED <<nFragments, part, fragRefs, error, hVars, asked, this>>
      /\ bytes' = bytes - 1 /\ left' = [left EXCEPT ![f] = @ - 1]
      /\ hashed' = IF left[f] > 1 THEN hashed ELSE hashed \cup {part[f]}
      /\ \E l \in {"read", "reuse"} : pc' = [pc EXCEPT ![w] = l]
  BY <1>1 DEF ProcessData, T!ProcessData
<1>5. QED
  BY <1>1, <1>2, <1>3, <1>4, ThreadFacts

\* What is needed of Task beside its invariant is kept.
LEMMA TurnKept ==
  ASSUME PInv, [Next]_vars
  PROVE  TurnInv'
<1> USE DEF PInv
<1>1. CASE [TaskOther]_(T!vars)
  <2>1. Quiet
    BY <1>1, OtherSteps
  <2>2. \A f \in Fragments : part'[f] # T!None => left'[f] <= T!ReadsOf(part'[f])
    <3>1. \A f \in Fragments :
            part'[f] # T!None /\ left'[f] = T!ReadsOf(part'[f]) =>
              left'[f] <= T!ReadsOf(part'[f])
      BY <2>1, ProgramAssumption DEF T!ReadsOf
    <3>2. QED
      BY <2>1, <3>1 DEF Quiet, TurnInv
  <2>3. QED
    BY <2>1, <2>2 DEF Quiet, TurnInv, T!Threads, T!None, T!BytesToProcess, T!ReadsOf
<1>2. ASSUME NEW w \in Workers, NEW f \in Fragments, ProcessData(w, f) PROVE TurnInv'
  <2>1. \A t \in T!Threads : pc'[t] = "endio" => pc[t] = "endio"
    BY <1>2, ProcessSteps
  <2>3. \A g \in Fragments : part'[g] # T!None => left'[g] <= T!ReadsOf(part'[g])
    <3>1. part' = part /\ left' = [left EXCEPT ![f] = @ - 1] /\ left \in [Fragments -> Nat]
      BY <1>2, ProcessSteps, FragmentFacts
    <3>2. \A g \in Fragments : left'[g] <= left[g]
      BY <3>1
    <3>3. \A g \in Fragments : T!ReadsOf(part[g]) \in Nat
      BY ProgramAssumption DEF T!ReadsOf
    <3>4. QED
      BY <3>1, <3>2, <3>3 DEF TurnInv, T!ReadsOf
  <2>4. bytes' <= T!BytesToProcess
    BY <1>2, ProcessSteps, FragmentFacts, ProgramAssumption DEF TurnInv, T!BytesToProcess
  <2>5. QED
    BY <1>2, <2>1, <2>3, <2>4, ProcessSteps
       DEF TurnInv, T!Threads, T!None, T!BytesToProcess
<1>3. CASE StartStep
  <2>1. bytes' = bytes /\ left' = left
    BY <1>3, StartSteps
  <2>2. \A f \in Fragments : part'[f] # T!None => part'[f] = part[f]
    BY <1>3, StartSteps, FragmentFacts
  <2>4. \A t \in T!Threads :
          pc'[t] = "endio" /\ this'[t] # T!None => fragRefs'[this'[t]] = 0
    BY <1>3, ThreadFacts, ProgramAssumption
       DEF StartStep, NewFragment, NewFails, CreateBuffer, T!NewFragment, T!NewFails, T!CreateBuffer,
           T!Goto, T!None, TurnInv, T!refVars
  <2>5. QED
    BY <2>1, <2>2, <2>4 DEF TurnInv, T!Threads, T!None, T!BytesToProcess, T!ReadsOf
<1>4. QED
  BY <1>1, <1>2, <1>3, StepKinds

\* Who moves a client of the CHashFile, and where to.
ClientMove(f) ==
  \/ NewFails
  \/ /\ step[f] \notin {"idle", "gone"}
     /\ error' = "success" => step'[f] # "gone"
  \/ /\ step[f] = "idle" /\ f \in T!Live
     /\ error' = "success" /\ f \in T!Live' => step'[f] # "gone"
     /\ step'[f] # "gone" => left[f] > 0

\* A step of one client moves no other.
LEMMA OneClient ==
  ASSUME HP!StoreInv, NEW g \in Fragments,
         \/ \E h \in H!Hashes \ requested : H!GetHashBuffer(g, h)
         \/ H!FragmentFails(g) \/ H!AllocFails(g) \/ H!FindBlock(g) \/ H!ReuseBlock(g)
         \/ H!AllocBlock(g) \/ H!FinishHash(g) \/ H!CompleteHash(g) \/ H!CountDown(g)
         \/ H!WriteBlock(g) \/ H!WriteRefused(g) \/ H!UnlinkInline(g) \/ H!ReleaseInline(g)
  PROVE  \A f \in Fragments \ {g} : step'[f] = step[f]
BY HashTypes
   DEF H!GetHashBuffer, H!FragmentFails, H!AllocFails, H!FindBlock, H!ReuseBlock,
   H!AllocBlock, H!FinishHash, H!CompleteHash, H!CountDown, H!WriteBlock, H!WriteRefused,
   H!UnlinkInline, H!ReleaseInline, H!After, H!Goto

\* Only the thread or read that has a CFragment moves it: a client that leaves without an
\* error is let go by its last reference.
LEMMA ClientMoves ==
  ASSUME PInv, [Next]_vars, NEW f \in Fragments, step'[f] # step[f]
  PROVE  ClientMove(f)
<1> USE DEF PInv
<1>1. ASSUME NEW t \in T!Threads, NEW g \in Fragments, Fails(t, g) PROVE ClientMove(f)
  <2>1. g = f
    BY <1>1, OneClient DEF Fails
  <2>2. error' # "success"
    BY <1>1
       DEF Fails, T!FailInline, T!ReadFails, T!ProcessFails, T!CheckRundown,
           T!SetError, T!DataError
  <2>3. f \in T!Live
    <3>1. CASE T!ReadFails(t, g)
      <4>1. g \in reading
        BY <1>1, <3>1, ThreadFacts DEF Fails, T!ReadFails
      <4>2. QED
        BY <2>1, <4>1, ReadingIsLive
    <3>2. CASE T!FailInline(t) \/ T!ProcessFails(t) \/ T!CheckRundown(t)
      <4>1. this[t] = f /\ pc[t] \in {"fail", "process", "arrived"}
        BY <1>1, <2>1, <3>2 DEF Fails, T!FailInline, T!ProcessFails, T!CheckRundown
      <4>2. QED
        BY <4>1, CtlFacts, ProgramAssumption DEF T!None
    <3>3. QED
      BY <1>1, <3>1, <3>2 DEF Fails
  <2>4. /\ step[f] \in {"idle", "nobuffer", "hashing"}
        /\ step' = [step EXCEPT ![f] = IF step[f] = "hashing" THEN "complete" ELSE "gone"]
    BY <1>1, <2>1 DEF Fails, H!FragmentFails, H!Goto
  <2>5. QED
    BY <2>2, <2>3, <2>4, HashTypes DEF ClientMove
<1>2. ASSUME NEW t \in T!Threads, NEW g \in Fragments, BeginHash(t, g) PROVE ClientMove(f)
  <2>1. g = f
    <3>1. \E h \in H!Hashes \ requested : H!GetHashBuffer(g, h)
      BY <1>2, NextHash DEF BeginHash
    <3>2. QED
      BY <3>1, OneClient
  <2>2. f \in T!Live /\ left[f] > 0
    BY <1>2, <2>1, CtlFacts, ProcessFacts, ProgramAssumption
       DEF BeginHash, Processing, T!None
  <2>3. step[f] = "idle"
    BY <1>2, <2>1 DEF BeginHash, H!GetHashBuffer
  <2>4. CASE error = "success"
    <3>1. step' = [step EXCEPT ![f] = "lock"]
      BY <1>2, <2>1, <2>4 DEF BeginHash, H!GetHashBuffer, H!Goto
    <3>2. QED
      BY <2>2, <2>3, <3>1, HashTypes DEF ClientMove
  <2>5. CASE error # "success"
    <3>1. error' # "success"
      BY <1>2, <2>5 DEF BeginHash, T!ProcessFails, T!DataError, T!SetError
    <3>2. QED
      BY <2>2, <2>3, <3>1 DEF ClientMove
  <2>6. QED
    BY <2>4, <2>5
<1>4. ASSUME NEW t \in T!Threads, NEW g \in Fragments, HashStep(t, g) PROVE ClientMove(f)
  <2>1. g = f
    BY <1>4, OneClient DEF HashStep
  <2>2. /\ step[f] \in {"lock", "hashing"}
        /\ \E l \in {"hashing", "nobuffer", "complete"} : step' = [step EXCEPT ![f] = l]
    BY <1>4, <2>1
       DEF HashStep, H!FindBlock, H!ReuseBlock, H!AllocBlock, H!AllocFails, H!FinishHash,
           H!Goto
  <2>3. QED
    BY <2>2, HashTypes DEF ClientMove
<1>5. ASSUME NEW t \in T!Threads, NEW g \in Fragments, CompleteStep(t, g) PROVE ClientMove(f)
  <2>1. g = f
    BY <1>5, OneClient DEF CompleteStep
  <2>2. step[f] \notin {"idle", "gone"}
    BY <1>5, <2>1
       DEF CompleteStep, H!CompleteHash, H!CountDown, H!WriteBlock, H!WriteRefused,
                      H!UnlinkInline, H!ReleaseInline
  <2>3. ASSUME error' = "success" PROVE step'[f] # "gone"
    <3>1. error = "success"
      BY <1>5, <2>3 DEF CompleteStep
    <3>2. f \notin dying
      BY <3>1, HashFacts
    <3>3. \E l \in {"counted", "write", "unlink", "release", "idle"} :
            step' = [step EXCEPT ![f] = l]
      BY <1>5, <2>1, <3>2
         DEF CompleteStep, H!CompleteHash, H!CountDown, H!WriteBlock, H!WriteRefused,
                      H!UnlinkInline, H!ReleaseInline, H!After, H!Goto
    <3>4. QED
      BY <3>3, HashTypes
  <2>4. QED
    BY <2>2, <2>3 DEF ClientMove
<1>6. ASSUME NEW t \in T!Threads, Release(t) PROVE ClientMove(f)
  <2>1. /\ f = this[t] /\ fragRefs[f] = 1 /\ pc[t] = "release"
        /\ step[f] = "idle" /\ step'[f] = "gone"
    BY <1>6 DEF Release, T!Release
  <2>2. f \in T!Live
    BY <2>1 DEF T!Live
  <2>3. f \notin T!Live'
    BY <1>6, <2>1, ThreadFacts DEF Release, T!Release, T!Live
  <2>4. QED
    BY <2>1, <2>2, <2>3 DEF ClientMove
<1>7. \/ step' = step
      \/ \E t \in T!Threads :
           \/ Release(t)
           \/ \E g \in Fragments : \/ Fails(t, g) \/ BeginHash(t, g)
                                   \/ HashStep(t, g) \/ CompleteStep(t, g)
      \/ NewFails
  <2>1. ASSUME NEW t \in T!Threads,
               \/ TaskStep(t) \/ ReUseBlock(t) \/ CheckRundown(t)
               \/ Complete(t) \/ ReleaseHashFile(t)
        PROVE  step' = step
    BY <2>1, QuietSteps DEF hVars, Complete, ReleaseHashFile, H!Complete, H!TaskRelease
  <2>2. ASSUME NEW w \in T!Threads, NEW g \in Fragments, ProcessData(w, g) \/ ReadArrives(w, g)
        PROVE  step' = step
    BY <2>2, QuietSteps DEF hVars
  <2>3. CASE Completion
    <3>1. PICK w \in Workers, g \in Fragments : ReadArrives(w, g) \/ Fails(w, g)
      BY <2>3 DEF Completion
    <3>2. w \in T!Threads
      BY DEF T!Threads
    <3>3. QED
      BY <2>2, <3>1, <3>2
  <2>4. CASE StartStep
    BY <2>4, QuietSteps DEF hVars, StartStep
  <2>5. CASE Dialog \/ Cancel
    BY <2>5, QuietSteps DEF hVars
  <2>6. CASE Writes
    BY <2>6 DEF Writes, H!WriteCompletes, H!Unlink, H!ReleaseBlock
  <2>7. CASE UNCHANGED vars
    BY <2>7 DEF vars, hVars
  <2>8. QED
    BY <2>1, <2>2, <2>3, <2>4, <2>5, <2>6, <2>7 DEF Next, GoOn, Thread
<1>8. QED
  BY <1>1, <1>2, <1>4, <1>5, <1>6, <1>7 DEF ClientMove

\* The last read of a fragment leaves no hash unfinished.
LEMMA LastRead ==
  ASSUME PInv, NEW w \in Workers, NEW f \in Fragments, ProcessData(w, f), left[f] = 1
  PROVE  /\ part[f] \in 0 .. NFragments - 1
         /\ BegunBy(f) = Begun[part[f]][T!ReadsOf(part[f])]
         /\ BegunBy(f) = EndedBy(f) /\ BegunBy(f) \in Nat
<1>1. part[f] \in 0 .. NFragments - 1
  BY ProcessSteps, FragmentFacts DEF PInv
<1>2. Done(f) + 1 = T!ReadsOf(part[f])
  BY <1>1, Boundaries DEF Done
<1>3. QED
  BY <1>1, <1>2, Boundaries DEF BegunBy, EndedBy

\* A CFragment stays a client of the CHashFile as long as it lives.
LEMMA LiveKept ==
  ASSUME PInv, [Next]_vars
  PROVE  LiveInv'
<1> USE DEF PInv
<1> SUFFICES ASSUME error' = "success"
             PROVE  /\ \A f \in T!Live' : step'[f] # "gone"
                    /\ \A f \in Fragments : step'[f] \notin {"idle", "gone"} => left'[f] > 0
  BY DEF LiveInv
<1>1. error = "success"
  BY StepKinds, OtherSteps, ProcessSteps, StartSteps DEF Quiet
<1>2. \A f \in T!Live : step[f] # "gone"
  BY <1>1 DEF LiveInv
<1>3. ASSUME NEW f \in T!Live', step'[f] = "gone" PROVE FALSE
  <2>1. f \in Fragments
    BY DEF T!Live
  <2>2. step[f] # "gone"
    <3>1. CASE f \in T!Live
      BY <1>2, <3>1
    <3>2. CASE f \notin T!Live
      <4>1. CASE Quiet
        BY <3>2, <4>1 DEF Quiet
      <4>2. CASE UNCHANGED fragRefs
        BY <3>2, <4>2 DEF T!Live
      <4>3. ASSUME NEW g \in Fragments, NewFragment(g), fragRefs' = [fragRefs EXCEPT ![g] = 1]
            PROVE  step[f] # "gone"
        <5>1. f = g
          BY <2>1, <3>2, <4>3, ThreadFacts DEF T!Live
        <5>2. QED
          BY <4>3, <5>1 DEF NewFragment
      <4>4. QED
        BY <4>1, <4>2, <4>3, StepKinds, OtherSteps, ProcessSteps, StartSteps
    <3>3. QED
      BY <3>1, <3>2
  <2>3. ClientMove(f)
    BY <1>3, <2>1, <2>2, ClientMoves
  <2>4. NewFails
    BY <1>3, <2>2, <2>3 DEF ClientMove
  <2>5. PICK g \in Fragments \ T!Live : step' = [step EXCEPT ![g] = "gone"]
    BY <2>4 DEF NewFails
  <2>6. f = g
    BY <1>3, <2>1, <2>2, <2>5, HashTypes
  <2>7. fragRefs' = fragRefs
    BY <2>4 DEF NewFails, T!NewFails, T!refVars
  <2>8. QED
    BY <2>5, <2>6, <2>7 DEF T!Live
<1>4. ASSUME NEW f \in Fragments, step'[f] \notin {"idle", "gone"} PROVE left'[f] > 0
  <2>1. left[f] > 0
    <3>1. CASE step'[f] = step[f]
      BY <1>1, <1>4, <3>1 DEF LiveInv
    <3>2. CASE step'[f] # step[f]
      <4>1. ClientMove(f)
        BY <3>2, ClientMoves
      <4>2. ~NewFails
        BY <1>4, <3>2, HashTypes DEF NewFails
      <4>3. QED
        BY <1>1, <1>4, <4>1, <4>2 DEF ClientMove, LiveInv
    <3>3. QED
      BY <3>1, <3>2
  <2>2. CASE [TaskOther]_(T!vars)
    BY <2>1, <2>2, OtherSteps DEF Quiet
  <2>3. CASE StartStep
    BY <2>1, <2>3, StartSteps
  <2>4. ASSUME NEW w \in Workers, NEW g \in Fragments, ProcessData(w, g) PROVE left'[f] > 0
    <3>1. left' = [left EXCEPT ![g] = @ - 1] /\ step' = step
      BY <2>4, ProcessSteps DEF hVars
    <3>2. f = g => left[f] # 1
      <4>1. SUFFICES ASSUME f = g, left[f] = 1 PROVE FALSE
        OBVIOUS
      <4>2. step[f] \notin {"idle", "gone"}
        BY <1>4, <3>1
      <4>3. asked[f] = BegunBy(f) /\ asked[f] > EndedBy(f)
        BY <2>4, <4>1, <4>2 DEF ProcessData
      <4>4. BegunBy(f) = EndedBy(f) /\ BegunBy(f) \in Nat
        BY <2>4, <4>1, LastRead
      <4>5. QED
        BY <4>3, <4>4
    <3>3. QED
      BY <2>1, <3>1, <3>2, FragmentFacts
  <2>5. QED
    BY <2>2, <2>3, <2>4, StepKinds
<1>5. QED
  BY <1>3, <1>4

\* What has been asked for or counted stays so.
LEMMA HistoriesGrow ==
  ASSUME [H!Next]_(H!vars)
  PROVE  requested \subseteq requested' /\ counted \subseteq counted'
BY DEF H!Next, H!ClientStep, H!GetHashBuffer, H!FindBlock, H!ReuseBlock, H!AllocBlock,
       H!AllocFails, H!FinishHash, H!FragmentFails, H!Retire, H!CompleteHash, H!CountDown,
       H!WriteBlock, H!WriteRefused, H!UnlinkInline, H!ReleaseInline, H!After,
       H!WriteCompletes, H!Unlink, H!ReleaseBlock, H!Complete, H!TaskRelease, H!vars,
       H!workVars, H!jobVars

\* Only two steps change what is asked for and what a CFragment begins with.
LEMMA AskingSteps ==
  ASSUME PInv, [Next]_vars
  PROVE  \/ \E t \in T!Threads, f \in Fragments : BeginHash(t, f)
         \/ \E t \in T!Threads : ReUseBlock(t)
         \/ \E w \in Workers, f \in Fragments : ProcessData(w, f)
         \/ StartStep
         \/ /\ UNCHANGED <<requested, asked, nFragments, part, left, hashed>>
            /\ T!Live' \subseteq T!Live
<1> DEFINE Same == UNCHANGED <<requested, asked, nFragments, part, left, hashed>>
<1> USE DEF T!workVars, tVars, hVars, hVarsButStep, H!workVars, H!jobVars
<1>1. ASSUME NEW t \in T!Threads, TaskStep(t) \/ CheckRundown(t) PROVE Same
  BY <1>1
     DEF TaskStep, CheckRundown, T!Read, T!IssueRead, T!ReleaseRP, T!RundownCompleted,
              T!EndIo, T!TaskRelease, T!CheckRundown
<1>2. ASSUME NEW t \in T!Threads, Release(t) \/ Complete(t) \/ ReleaseHashFile(t) PROVE Same
  BY <1>2 DEF Release, Complete, ReleaseHashFile, T!Release, T!Complete, H!Complete,
              H!TaskRelease
<1>3. ASSUME NEW t \in T!Threads, NEW f \in Fragments, Fails(t, f) PROVE Same
  BY <1>3 DEF Fails, T!FailInline, T!ReadFails, T!ProcessFails, T!CheckRundown,
              H!FragmentFails
<1>4. ASSUME NEW t \in T!Threads, NEW f \in Fragments, HashStep(t, f) PROVE Same
  BY <1>4
     DEF HashStep, H!FindBlock, H!ReuseBlock, H!AllocBlock, H!AllocFails, H!FinishHash
<1>5. ASSUME NEW t \in T!Threads, NEW f \in Fragments, CompleteStep(t, f) PROVE Same
  BY <1>5 DEF CompleteStep, H!CompleteHash, H!CountDown, H!WriteBlock, H!WriteRefused,
              H!UnlinkInline, H!ReleaseInline
<1>6. ASSUME NEW w \in Workers, NEW f \in Fragments, ReadArrives(w, f) PROVE Same
  BY <1>6 DEF ReadArrives, T!ReadArrives
<1>7. CASE Dialog \/ Cancel
  <2>1. Same
    BY <1>7 DEF Dialog, Cancel, T!Rundown, T!Rundown_l, T!Done
  <2>2. T!Live' = T!Live
    BY <1>7 DEF Dialog, Cancel, T!Rundown, T!Rundown_l, T!Done, T!refVars, T!Live
  <2>3. QED
    BY <2>1, <2>2
<1>8. CASE Writes
  <2>1. Same
    BY <1>8 DEF Writes, H!WriteCompletes, H!Unlink, H!ReleaseBlock
  <2>2. T!Live' = T!Live
    BY <1>8 DEF Writes, T!Live
  <2>3. QED
    BY <2>1, <2>2
<1>9. CASE UNCHANGED vars
  BY <1>9 DEF vars, T!Live
<1>10. (\E w \in Workers, f \in Fragments : ProcessData(w, f)) \/ StartStep
       \/ T!Live' \subseteq T!Live
  BY StepKinds, OtherSteps DEF Quiet, PInv
<1>11. Workers \subseteq T!Threads
  BY DEF T!Threads
<1>12. ASSUME NEW t \in T!Threads, NEW f \in Fragments, ProcessData(t, f) PROVE t \in Workers
  BY <1>12, ThreadFacts DEF PInv, ProcessData, Processing
<1> HIDE DEF Same
<1>13. \/ \E t \in T!Threads, f \in Fragments : BeginHash(t, f)
       \/ \E t \in T!Threads : ReUseBlock(t)
       \/ \E w \in Workers, f \in Fragments : ProcessData(w, f)
       \/ StartStep \/ Dialog \/ Cancel \/ Writes \/ UNCHANGED vars
       \/ Same
  BY <1>1, <1>2, <1>3, <1>4, <1>5, <1>6, <1>11, <1>12 DEF Next, GoOn, Thread, Completion
<1>14. QED
  BY <1>7, <1>8, <1>9, <1>10, <1>13 DEF Same

\* ProcessData asks for the hashes of its fragment one after the other, for all of them
\* before it goes on to the next, and nobody else asks for them.
LEMMA RequestKept ==
  ASSUME PInv, [Next]_vars
  PROVE  RequestInv'
<1> USE DEF PInv
<1>1. H!Hashes' = H!Hashes /\ T!None' = T!None /\ H!Hashes \subseteq Nat
  BY HashRange DEF H!Hashes
<1>2. requested \subseteq H!Hashes /\ T!Live \subseteq Fragments
  BY HashTypes, ThreadFacts
<1>3. ASSUME UNCHANGED <<requested, asked, nFragments, part, left, hashed>>,
             T!Live' \subseteq T!Live
      PROVE  RequestInv'
  BY <1>1, <1>3 DEF RequestInv, InFragment, HashNo
<1>4. CASE StartStep
  <2>1. UNCHANGED <<nFragments, left, hashed, asked, requested>>
    BY <1>4, StartSteps DEF hVarsButStep
  <2>2. \A f \in T!Live' : part'[f] # T!None => f \in T!Live /\ part'[f] = part[f]
    BY <1>4, StartSteps, FragmentFacts, ThreadFacts DEF T!Live
  <2>3. QED
    BY <1>1, <2>1, <2>2 DEF RequestInv, InFragment, HashNo
<1>5. ASSUME NEW w \in Workers, NEW f \in Fragments, ProcessData(w, f) PROVE RequestInv'
  <2>1. /\ UNCHANGED <<nFragments, part, asked, requested>> /\ T!Live' = T!Live
        /\ left' = [left EXCEPT ![f] = @ - 1] /\ left \in [Fragments -> Nat]
        /\ hashed' = IF left[f] > 1 THEN hashed ELSE hashed \cup {part[f]}
        /\ left[f] > 0 /\ part[f] # T!None /\ f \in T!Live
    BY <1>5, ProcessSteps, FragmentFacts DEF hVars, hVarsButStep, T!Live
  <2>2. \A g \in Fragments : left'[g] > 0 => left[g] > 0
    BY <2>1
  <2>3. ASSUME NEW i \in hashed', NEW h \in H!Hashes, InFragment(h, i)
        PROVE  h \in requested'
    <3>1. CASE i \in hashed
      BY <2>1, <2>3, <3>1 DEF RequestInv
    <3>2. CASE i \notin hashed
      <4>1. i = part[f] /\ left[f] = 1
        BY <2>1, <3>2
      <4>2. /\ part[f] \in 0 .. NFragments - 1 /\ asked[f] \in Nat
            /\ asked[f] = Begun[part[f]][T!ReadsOf(part[f])]
        BY <1>5, <4>1, LastRead DEF ProcessData
      <4>3. h < HashNo(f)
        BY <2>3, <4>1, <4>2, LastHash DEF HashNo
      <4>4. QED
        BY <2>1, <2>3, <4>1, <4>3 DEF RequestInv
    <3>3. QED
      BY <3>1, <3>2
  <2>4. QED
    BY <1>1, <2>1, <2>2, <2>3 DEF RequestInv, InFragment, HashNo
<1>6. ASSUME NEW t \in T!Threads, NEW f \in Fragments, BeginHash(t, f) PROVE RequestInv'
  <2>1. /\ requested' = requested \cup {HashNo(f)} /\ asked' = [asked EXCEPT ![f] = @ + 1]
        /\ UNCHANGED <<nFragments, part, left, hashed, fragRefs>>
    BY <1>6 DEF BeginHash, H!GetHashBuffer, T!ProcessFails, T!workVars, T!refVars, tVars
  <2>2. /\ HashNo(f) \in H!Hashes \ requested
        /\ part[f] \in 0 .. NFragments - 1 /\ InFragment(HashNo(f), part[f])
        /\ f \in T!Live /\ left[f] > 0 /\ part[f] # T!None
    BY <1>6, NextHash
  <2>3. /\ T!Live' = T!Live
        /\ f \in Fragments
        /\ asked[f] \in Nat
        /\ asked \in [Fragments -> Nat]
    BY <2>1 DEF T!Live, RequestInv
  <2>4. HashNo(f)' = HashNo(f) + 1 /\ \A g \in Fragments \ {f} : HashNo(g)' = HashNo(g)
    <3>1. \A g \in Fragments \ {f} : HashNo(g)' = HashNo(g)
      BY <2>1, <2>3 DEF HashNo
    <3>2. asked'[f] = asked[f] + 1 /\ part' = part
      BY <2>1, <2>3
    <3>3. part[f] * HashesInFragment \in Nat
      BY <2>2, ProgramAssumption
    <3>4. QED
      BY <2>3, <3>1, <3>2, <3>3 DEF HashNo
  <2>5. ASSUME NEW g \in T!Live, NEW h \in H!Hashes,
               part[g] # T!None, left[g] > 0, InFragment(h, part[g])
        PROVE  h \in requested' <=> h < HashNo(g)'
    <3>1. h \in requested <=> h < HashNo(g)
      BY <2>5 DEF RequestInv
    <3>2. CASE g = f
      <4>1. h \in Nat /\ HashNo(f) \in Nat
        BY <1>1, <2>2
      <4>2. h < HashNo(f) + 1 <=> h < HashNo(f) \/ h = HashNo(f)
        BY <4>1
      <4>3. QED
        BY <2>1, <2>4, <3>1, <3>2, <4>2
    <3>3. CASE g # f
      <4>1. part[g] # part[f] /\ part[g] \in Nat /\ part[f] \in Nat
        <5>1. part[g] \in 0 .. NFragments - 1
          BY <1>2, <2>5, FragmentFacts
        <5>2. f \in TP!Assigned /\ g \in TP!Assigned
          BY <2>2, <2>5 DEF TP!Assigned, TP!Live, T!Live, TP!None, T!None
        <5>3. QED
          BY <2>2, <3>3, <5>1, <5>2 DEF TP!IInv, TP!PartInv, TP!HandedOutOnce
      <4>2. h # HashNo(f)
        BY <2>2, <2>5, <4>1, FragmentOfHash
      <4>3. QED
        BY <1>2, <2>1, <2>4, <3>1, <3>3, <4>2
    <3>4. QED
      BY <3>2, <3>3
  <2>6. ASSUME NEW i \in 0 .. NFragments - 1, InFragment(HashNo(f), i)
        PROVE  i >= nFragments
    <3>1. i = part[f]
      BY <2>2, <2>6, FragmentOfHash
    <3>2. QED
      BY <2>2, <3>1 DEF TP!IInv, TP!PartInv, TP!Live, T!Live, TP!None, T!None
  <2>7. asked' \in [Fragments -> Nat]
    BY <2>1, <2>3
  <2>8. \A i \in 0 .. NFragments - 1, h \in requested' : InFragment(h, i) => i >= nFragments
    BY <2>1, <2>6 DEF RequestInv
  <2>9. \A i \in hashed', h \in H!Hashes : InFragment(h, i) => h \in requested'
    BY <2>1 DEF RequestInv
  <2>10. QED
    BY <1>1, <2>1, <2>3, <2>5, <2>7, <2>8, <2>9 DEF RequestInv, InFragment
<1>7. ASSUME NEW t \in T!Threads, ReUseBlock(t) PROVE RequestInv'
  <2>1. /\ UNCHANGED <<requested, hashed, fragRefs>> /\ nFragments' = nFragments - 1
        /\ pc[t] = "reuse" /\ nFragments \in Int /\ nFragments <= NFragments
        /\ NFragments \in Nat
    BY <1>7, FragmentFacts, ProgramAssumption
       DEF ReUseBlock, T!ReUseBlock, T!TakeFragment, T!refVars, hVars, hVarsButStep
  <2>2. T!Live' = T!Live
    BY <2>1 DEF T!Live
  <2> PICK f \in Fragments : f = this[t]
    BY <2>1, CtlFacts
  <2>3. CASE nFragments > 0
    <3>1. /\ part' = [part EXCEPT ![f] = nFragments - 1]
          /\ asked' = [asked EXCEPT ![f] = 0]
          /\ \A g \in Fragments \ {f} : left'[g] = left[g]
      BY <1>7, <2>2, <2>3, FragmentFacts DEF ReUseBlock, T!ReUseBlock, T!AnyLeft
    <3>2. /\ asked' \in [Fragments -> Nat] /\ part'[f] = nFragments - 1 /\ asked'[f] = 0
          /\ \A g \in Fragments \ {f} : part'[g] = part[g] /\ asked'[g] = asked[g]
      BY <2>2, <3>1, FragmentFacts DEF RequestInv
    <3>3. nFragments - 1 \in 0 .. NFragments - 1 /\ ~(nFragments - 1 >= nFragments)
      BY <2>1, <2>3
    <3>4. ASSUME NEW h \in H!Hashes, InFragment(h, nFragments - 1)
          PROVE  h \in requested' <=> h < HashNo(f)'
      <4>1. h \notin requested
        BY <3>3, <3>4 DEF RequestInv
      <4>2. (nFragments - 1) * HashesInFragment \in Nat
        BY <3>3, ProgramAssumption
      <4>3. HashNo(f)' = (nFragments - 1) * HashesInFragment
        BY <3>2, <4>2 DEF HashNo
      <4>4. ~(h < HashNo(f)')
        BY <1>1, <3>4, <4>2, <4>3 DEF InFragment
      <4>5. QED
        BY <2>1, <4>1, <4>4
    <3>5. ASSUME NEW g \in T!Live, NEW h \in H!Hashes,
                 part'[g] # T!None, left'[g] > 0, InFragment(h, part'[g])
          PROVE  h \in requested' <=> h < HashNo(g)'
      <4>1. CASE g = f
        BY <3>2, <3>4, <3>5, <4>1
      <4>2. CASE g # f
        BY <1>2, <2>1, <3>1, <3>2, <3>5, <4>2 DEF RequestInv, HashNo
      <4>3. QED
        BY <4>1, <4>2
    <3>6. \A i \in 0 .. NFragments - 1, h \in requested' : InFragment(h, i) => i >= nFragments'
      BY <2>1 DEF RequestInv
    <3>7. QED
      BY <1>1, <2>1, <2>2, <3>2, <3>5, <3>6 DEF RequestInv, InFragment
  <2>4. CASE ~(nFragments > 0)
    <3>1. UNCHANGED <<part, left, asked>>
      BY <1>7, <2>4 DEF ReUseBlock, T!ReUseBlock, T!AnyLeft
    <3>2. \A i \in 0 .. NFragments - 1 : i >= nFragments'
      BY <2>1, <2>4
    <3>3. QED
      BY <1>1, <2>1, <2>2, <3>1, <3>2 DEF RequestInv, InFragment, HashNo
  <2>5. QED
    BY <2>3, <2>4
<1>8. QED
  BY <1>3, <1>4, <1>5, <1>6, <1>7, AskingSteps

\* The first hash is counted by a thread in ProcessData: without an error a destructor
\* has none to complete.
LEMMA CountedWhileReading ==
  ASSUME PInv, [Next]_vars, error = "success", counted' # counted
  PROVE  bytes' = bytes /\ \E w \in Workers : pc'[w] = "process"
<1> USE DEF PInv
<1>1. PICK t \in T!Threads, f \in Fragments : CompleteStep(t, f) /\ H!CountDown(f)
  <2>1. ASSUME NEW t \in T!Threads, NEW f \in Fragments,
               Fails(t, f) \/ BeginHash(t, f) \/ HashStep(t, f)
        PROVE  counted' = counted
    BY <2>1 DEF Fails, BeginHash, HashStep, H!FragmentFails, H!GetHashBuffer,
                H!AllocFails, H!FindBlock, H!ReuseBlock, H!AllocBlock, H!FinishHash, H!workVars,
                H!jobVars
  <2>2. ASSUME NEW t \in T!Threads, NEW f \in Fragments, CompleteStep(t, f), ~H!CountDown(f)
        PROVE  counted' = counted
    BY <2>2
       DEF CompleteStep, H!CompleteHash, H!WriteBlock, H!WriteRefused, H!UnlinkInline,
                H!ReleaseInline, H!workVars, H!jobVars
  <2>3. ASSUME NEW t \in T!Threads, NEW f \in Fragments, ProcessData(t, f) \/ ReadArrives(t, f)
        PROVE  counted' = counted
    BY <2>3, QuietSteps DEF hVars, hVarsButStep
  <2>4. ASSUME NEW t \in T!Threads,
               \/ TaskStep(t) \/ ReUseBlock(t) \/ CheckRundown(t)
               \/ Release(t) \/ Complete(t) \/ ReleaseHashFile(t)
        PROVE  counted' = counted
    BY <2>4, QuietSteps DEF Release, Complete, ReleaseHashFile, H!Complete, H!TaskRelease,
                            H!workVars, H!jobVars, hVars, hVarsButStep
  <2>5. CASE StartStep \/ Dialog \/ Cancel
    BY <2>5, QuietSteps DEF StartStep, NewFails, hVars, hVarsButStep
  <2>6. CASE Writes
    BY <2>6 DEF Writes, H!WriteCompletes, H!Unlink, H!ReleaseBlock, H!workVars, H!jobVars
  <2>7. CASE UNCHANGED vars
    BY <2>7 DEF vars, hVars, hVarsButStep
  <2>8. CASE Completion
    <3>1. PICK w \in Workers, g \in Fragments : ReadArrives(w, g) \/ Fails(w, g)
      BY <2>8 DEF Completion
    <3>2. w \in T!Threads
      BY DEF T!Threads
    <3>3. QED
      BY <2>1, <2>3, <3>1, <3>2
  <2>9. QED
    BY <2>1, <2>2, <2>3, <2>4, <2>5, <2>6, <2>7, <2>8 DEF Next, GoOn, Thread
<1>2. step[f] = "counted" /\ UNCHANGED tVars /\ (Processing(t, f) \/ Destroying(t, f))
  BY <1>1 DEF CompleteStep, H!CountDown
<1>3. CASE Processing(t, f)
  <2>1. t \in Workers /\ pc[t] = "process"
    BY <1>3, ThreadFacts DEF Processing
  <2>2. QED
    BY <1>2, <2>1 DEF tVars
<1>4. CASE Destroying(t, f)
  <2>1. fragRefs[f] = 0
    BY <1>4, ProgramAssumption DEF Destroying, TurnInv, T!None
  <2>2. left[f] > 0
    BY <1>2 DEF LiveInv
  <2>3. f \in T!Live
    BY <2>2, SomebodyReads, GoingIsLive
  <2>4. QED
    BY <2>1, <2>3 DEF T!Live
<1>5. QED
  BY <1>2, <1>3, <1>4

\* Nothing is written before something has been hashed, in any order of the writes.
LEMMA WriteKept ==
  ASSUME PInv, [Next]_vars
  PROVE  WriteInv'
<1> USE DEF PInv
<1>1. counted \subseteq counted'
  BY StepIsHashFile, HistoriesGrow
<1>2. \A b \in Pool : pending'[b] # H!None => counted' # {}
  <2>1. (\E f \in Fragments : H!WriteBlock(f)) \/ (\E b \in Pool : H!WriteCompletes(b))
        \/ pending' = pending
    BY StepIsHashFile
       DEF H!Next, H!ClientStep, H!GetHashBuffer, H!FindBlock, H!ReuseBlock, H!AllocBlock,
           H!AllocFails, H!FinishHash, H!FragmentFails, H!Retire, H!CompleteHash, H!CountDown,
           H!WriteRefused, H!UnlinkInline, H!ReleaseInline, H!Unlink, H!ReleaseBlock, H!Complete,
           H!TaskRelease, H!vars, H!ioVars
  <2>2. ASSUME NEW f \in Fragments, H!WriteBlock(f) PROVE counted # {}
    BY <2>2, HashFacts DEF H!WriteBlock
  <2>3. ASSUME NEW c \in Pool, H!WriteCompletes(c) PROVE counted # {}
    BY <2>3 DEF H!WriteCompletes, WriteInv
  <2>4. QED
    BY <1>1, <2>1, <2>2, <2>3 DEF WriteInv
<1>3. ASSUME error' = "success", counted' # {}
      PROVE  bytes' < T!BytesToProcess \/ \E w \in Workers : pc'[w] = "process"
  <2>1. error = "success"
    BY <1>3, StepKinds, OtherSteps, ProcessSteps, StartSteps DEF Quiet
  <2>2. CASE counted' # counted
    BY <2>1, <2>2, CountedWhileReading
  <2>3. CASE counted' = counted
    <3>1. bytes < T!BytesToProcess \/ \E w \in Workers : pc[w] = "process"
      BY <1>3, <2>1, <2>3 DEF WriteInv
    <3>2. CASE [TaskOther]_(T!vars)
      BY <1>3, <3>1, <3>2, OtherSteps DEF Quiet
    <3>3. CASE StartStep
      BY <3>1, <3>3, StartSteps
    <3>4. ASSUME NEW w \in Workers, NEW f \in Fragments, ProcessData(w, f)
          PROVE  bytes' < T!BytesToProcess
      <4>1. bytes <= T!BytesToProcess /\ bytes \in Nat /\ T!BytesToProcess \in Int
        BY FragmentFacts, ProgramAssumption DEF TurnInv, T!BytesToProcess
      <4>2. QED
        BY <3>4, <4>1, ProcessSteps
    <3>5. QED
      BY <3>2, <3>3, <3>4, StepKinds
  <2>4. QED
    BY <2>2, <2>3
<1>4. QED
  BY <1>2, <1>3 DEF WriteInv, H!None, T!BytesToProcess

\* What is in the file when the last reference goes is what WM_DONE reports; after that
\* nobody is left to change either.
LEMMA PostKept ==
  ASSUME PInv, [Next]_vars
  PROVE  PostInv'
<1> USE DEF PInv
<1>1. [H!Next]_(H!vars)
  BY StepIsHashFile
<1>2. H!Hashes' = H!Hashes /\ HashError \in {"success", "write", "fragment"}
  BY DEF H!Hashes, HashError
<1>3. CASE posted # "none"
  <2>1. /\ ~alive /\ task = "done" /\ finishing = {} /\ releasing = 0
        /\ \A b \in Pool : pending[b] = H!None
        /\ \A f \in Fragments : step[f] = "gone"
    <3>1. ~alive
      BY <1>3, HashFacts
    <3>2. task = "done"
      BY <3>1, HashFacts
    <3>3. \A f \in Fragments : step[f] = "gone"
      BY <3>2, HashFacts
    <3>4. QED
      BY <3>1, <3>3, HashFacts
  <2>2. UNCHANGED H!vars
    <3>1. \A f \in Fragments : ~H!ClientStep(f)
      BY <2>1 DEF H!ClientStep, H!GetHashBuffer, H!FindBlock, H!ReuseBlock, H!AllocBlock,
                  H!AllocFails, H!FinishHash, H!FragmentFails, H!Retire, H!CompleteHash,
                  H!CountDown, H!WriteBlock, H!WriteRefused, H!UnlinkInline, H!ReleaseInline
    <3>2. \A b \in Pool : ~H!WriteCompletes(b) /\ ~H!Unlink(b)
      BY <2>1 DEF H!WriteCompletes, H!Unlink
    <3>3. ~H!ReleaseBlock /\ ~H!Complete /\ ~H!TaskRelease
      BY <2>1 DEF H!ReleaseBlock, H!Complete, H!TaskRelease
    <3>4. QED
      BY <1>1, <3>1, <3>2, <3>3 DEF H!Next
  <2>3. UNCHANGED <<posted, kept, ignored, disk, requested>> /\ HashError' = HashError
    BY <2>2 DEF H!vars, H!endVars, H!ioVars, H!fileVars, H!workVars, H!jobVars, HashError
  <2>4. QED
    BY <1>2, <2>3 DEF PostInv
<1>4. CASE posted = "none"
  <2>1. CASE posted' = posted
    BY <1>4, <2>1 DEF PostInv
  <2>2. CASE posted' # posted
    <3>1. \/ H!Release /\ (H!ReleaseBlock \/ H!TaskRelease)
          \/ \E f \in Fragments : H!ReleaseInline(f) /\ H!Release
      BY <1>1, <2>2
         DEF H!Next, H!ClientStep, H!GetHashBuffer, H!FindBlock, H!ReuseBlock,
             H!AllocBlock,
           H!AllocFails, H!FinishHash, H!FragmentFails, H!Retire, H!CompleteHash, H!CountDown,
           H!WriteBlock, H!WriteCompletes,
           H!WriteRefused, H!UnlinkInline, H!ReleaseInline, H!Unlink, H!ReleaseBlock, H!Complete,
           H!TaskRelease, H!vars, H!endVars
    <3>2. /\ refs = 1 /\ posted' = HashError /\ H!Release
          /\ nBlocks = 0 => kept' \/ "keep" \in ignored'
      BY <2>2, <3>1 DEF H!Release, H!Destructor, H!endVars, HashError
    <3>3. \A f \in Fragments : ~H!ReleaseInline(f)
      BY <3>2, InlineIsNotLast DEF H!ReleaseInline
    <3>4. releasing > 0 \/ task = "release"
      BY <3>1, <3>3 DEF H!ReleaseBlock, H!TaskRelease
    <3>5. HashError' = HashError /\ disk' = disk /\ requested' = requested
      BY <3>1, <3>3 DEF H!ReleaseBlock, H!TaskRelease, H!ioVars, H!workVars, H!jobVars,
                        HashError
    <3>6. posted' = "success" => error = "success"
      BY <3>2 DEF HashError
    <3>7. QED
      BY <1>2, <3>2, <3>4, <3>5, <3>6, LastLetsGo DEF PostInv
  <2>3. QED
    BY <2>1, <2>2
<1>5. QED
  BY <1>3, <1>4

-----------------------------------------------------------------------------
\* The program at the start of CTask::Start.
LEMMA InitPInv == Init => PInv
<1> SUFFICES ASSUME Init PROVE PInv
  OBVIOUS
<1>1. T!Init /\ H!Init /\ error = "success"
  BY DEF Init
<1>2. TP!IInv
  BY <1>1, SameTask, Sizes, TP!InitIInv DEF TP!TaskAssumption, TP!FragmentsAssumption
<1>3. HP!StoreInv
  BY <1>1, SameHashFile, Sizes, HP!InitStoreInv
     DEF HP!HashFileAssumption
<1>4. T!Live = {} /\ bytes = T!BytesToProcess
  BY <1>1 DEF T!Init, T!Live
<1>5. TurnInv /\ LiveInv
  BY <1>1, <1>4, ProgramAssumption
     DEF T!Init, H!Init, TurnInv, LiveInv, T!BytesToProcess, T!Threads
<1>6. RequestInv /\ WriteInv /\ PostInv
  BY <1>1, <1>4 DEF Init, T!Init, H!Init, RequestInv, WriteInv, PostInv
<1>7. QED
  BY <1>2, <1>3, <1>5, <1>6 DEF PInv

\* Every step of every thread, read and write keeps the two parts together.
LEMMA StepPInv == PInv /\ [Next]_vars => PInv'
<1> SUFFICES ASSUME PInv, [Next]_vars PROVE PInv'
  OBVIOUS
<1>1. TP!IInv'
  BY StepIsTask, TaskKeeps DEF PInv
<1>2. HP!StoreInv'
  BY StepIsHashFile, HashFileKeeps DEF PInv
<1>3. QED
  BY <1>1, <1>2, TurnKept, LiveKept, RequestKept, WriteKept, PostKept DEF PInv

\* CTask, its CFragments and the CHashFile keep their invariants and what ties them to
\* each other, however threads, reads and writes interleave.
THEOREM ProgramInvariant == SafeSpec => []PInv
BY InitPInv, StepPInv, PTL DEF SafeSpec

\* The CHashFile does to the task what Task takes for granted: a write fails only after
\* data has been hashed, and WM_DONE is posted only after EndIo has let the CHashFile go.
THEOREM ProgramImplementsTask == SafeSpec => ImplementsTask
<1>1. Init => T!Init
  BY DEF Init
<1>2. PInv /\ [Next]_vars => [T!Next]_(T!vars)
  BY StepIsTask
<1>3. QED
  BY <1>1, <1>2, ProgramInvariant, PTL DEF SafeSpec, ImplementsTask, T!SafeSpec

\* The CFragments do to the CHashFile what HashFile takes for granted: none asks twice for
\* a hash, the last one to leave without an error leaves when all hashes have been asked
\* for, and Complete is called once, when all have left.
THEOREM ProgramImplementsHashFile == SafeSpec => ImplementsHashFile
<1>1. Init => H!Init
  BY DEF Init
<1>2. PInv /\ [Next]_vars => [H!Next]_(H!vars)
  BY StepIsHashFile
<1>3. QED
  BY <1>1, <1>2, ProgramInvariant, PTL DEF SafeSpec, ImplementsHashFile, H!SafeSpec

\* "Done !" is shown for a file of which anything was started only if the hash file holds
\* the hash of every block, with nothing left to read, and is kept unless the call that
\* is to keep it was refused.
THEOREM ProgramDoneMeansWholeFile == SafeSpec => []DoneMeansWholeFile
<1>1. PInv => DoneMeansWholeFile
  <2> SUFFICES ASSUME PInv, posted = "success", nFragments < NFragments
               PROVE  /\ kept \/ "keep" \in ignored
                      /\ \A h \in H!Hashes : disk[h] = h
                      /\ bytes = 0 /\ hashed = 0 .. NFragments - 1
    BY DEF DoneMeansWholeFile
  <2>1. error = "success"
    BY DEF PInv, PostInv, HashError
  <2>2. bytes = 0 /\ hashed = 0 .. NFragments - 1
    BY <2>1, PostedFacts DEF PInv
  <2>3. requested # {}
    BY <2>2, AllRequested, HashRange
  <2>4. QED
    BY <2>2, <2>3 DEF PInv, PostInv
<1>2. QED
  BY <1>1, ProgramInvariant, PTL
=============================================================================

----------------------------- MODULE TaskProofs -----------------------------
(***************************************************************************)
(* Proofs about task.h / task.cpp for any number of threads, CFragments,   *)
(* fragments of the file and reads of a fragment.                          *)
(***************************************************************************)
EXTENDS Task, FiniteSetTheorems, TLAPS

\* The threads, at most one, that may touch the plain fields of a CFragment.
Strand(f) == {t \in Holders(f) : pc[t] \in Working \/ t \in refused}

\* Where the threads may be: a worker runs a method of a CFragment or is idle.
CtlInv ==
  /\ \A w \in Workers : /\ pc[w] \notin {"new", "create", "pump", "clear", "over"}
                        /\ this[w] = None <=> pc[w] = "idle"
  /\ pc[UI] \notin {"idle", "arrived", "process"}
  /\ pc[UI] \in {"new", "pump", "clear", "over"} => this[UI] = None
  /\ pc[UI] \in {"create", "reuse", "read", "issue", "fail", "release"} => this[UI] # None
  /\ pc[UI] = "new" => toStart > 0
  /\ \A t \in refused : this[t] # None /\ pc[t] \in {"leave", "cancel", "fail"}

\* As long as anybody is counted in _nIoCount, nobody ends the task.
EndInv == nIoCount > 0 => Finishing = {} /\ pHF = "open"

\* A CFragment is with one thread, or with the device.
StrandInv ==
  \A f \in Fragments : /\ \A t, u \in Strand(f) : t = u
                       /\ Strand(f) # {} => f \notin reading

\* A CFragment that is being read or hashed.
Reads(f) == f \in reading \/ \E t \in Strand(f) : pc[t] \notin {"create", "reuse"}

\* Who reads has a fragment of the file and something left of it; fragments are
\* handed out from the last to the first.
PartInv ==
  /\ nFragments <= NFragments
  /\ \A f \in Fragments : left[f] <= NReads
  /\ \A f \in Fragments : Reads(f) => part[f] # None /\ left[f] > 0
  /\ \A f \in Live : part[f] # None => part[f] >= nFragments
  /\ \A i \in hashed : i >= nFragments
  /\ HandedOutOnce

\* Bytes are subtracted for what has been read, and without an error nothing is
\* given up: what a CFragment has left it goes on reading.
BytesInv ==
  /\ bytes >= Cardinality(Unread) + Cardinality(ToRead)
  /\ ProgressExact
  /\ error = "success" => \A f \in Fragments : left[f] > 0 => Reads(f)

\* Without an error each fragment that has been handed out is hashed or being
\* read, and somebody works until all of them have been handed out.
Going(f) == f \in reading \/ \E t \in Strand(f) : pc[t] # "create"
GoingInv ==
  error = "success" =>
    /\ \A i \in 0 .. NFragments - 1 :
         i >= nFragments => i \in hashed \/ \E f \in Fragments : part[f] = i /\ left[f] > 0
    /\ nFragments <= 0 \/ nFragments = NFragments \/ \E f \in Fragments : Going(f)

IInv == /\ TypeOK /\ CtlInv /\ FragmentRefsExact /\ IoCountExact /\ TaskRefsExact
        /\ EndInv /\ StrandInv /\ PartInv /\ BytesInv /\ GoingInv

-----------------------------------------------------------------------------
(***************************************************************************)
(* The sets that are counted.                                              *)
(***************************************************************************)
\* A finite set's cardinality.
LEMMA FiniteCount ==
  ASSUME NEW S, IsFiniteSet(S), NEW T \in SUBSET S
  PROVE  /\ IsFiniteSet(T)
         /\ Cardinality(T) \in Nat
         /\ Cardinality(T) = 0 <=> T = {}
BY FS_Subset, FS_CardinalityType, FS_EmptySet

\* The threads, and any set of them, can be counted.
LEMMA ThreadsFinite ==
  /\ IsFiniteSet(Threads)
  /\ \A T \in SUBSET Threads : /\ IsFiniteSet(T) /\ Cardinality(T) \in Nat
                               /\ Cardinality(T) = 0 <=> T = {}
<1>1. IsFiniteSet(Threads)
  BY TaskAssumption, FS_AddElement DEF Threads
<1>2. QED
  BY <1>1, FiniteCount

\* The CFragments, and any set of them, can be counted.
LEMMA FragmentsFinite ==
  \A T \in SUBSET Fragments : /\ IsFiniteSet(T) /\ Cardinality(T) \in Nat
                              /\ Cardinality(T) = 0 <=> T = {}
BY TaskAssumption, FiniteCount

\* One more and one less.
LEMMA CountOneMore ==
  ASSUME NEW S, IsFiniteSet(S), NEW x
  PROVE  /\ x \notin S => Cardinality(S \cup {x}) = Cardinality(S) + 1
         /\ x \in S => Cardinality(S \ {x}) = Cardinality(S) - 1
BY FS_AddElement, FS_RemoveElement

\* A CFragment is in flight or not.
LEMMA CountInFlight ==
  ASSUME NEW R, NEW f
  PROVE  Cardinality({f} \cap R) = IF f \in R THEN 1 ELSE 0
<1>1. CASE f \in R
  <2>1. {f} \cap R = {f}
    BY <1>1
  <2>2. QED
    BY <1>1, <2>1, FS_Singleton
<1>2. CASE f \notin R
  <2>1. {f} \cap R = {}
    BY <1>2
  <2>2. QED
    BY <1>2, <2>1, FS_EmptySet
<1>3. QED
  BY <1>1, <1>2

\* The references of one CFragment.
LEMMA ReferencesOf ==
  ASSUME TypeOK, FragmentRefsExact, NEW f \in Fragments
  PROVE  /\ IsFiniteSet(Holders(f)) /\ Cardinality(Holders(f)) \in Nat
         /\ Cardinality(Holders(f)) = 0 <=> Holders(f) = {}
         /\ IsFiniteSet(Handing(f)) /\ Cardinality(Handing(f)) \in Nat
         /\ Cardinality(Handing(f)) = 0 <=> Handing(f) = {}
         /\ fragRefs[f] = Cardinality(Holders(f)) + Cardinality(Handing(f))
                          + (IF f \in reading THEN 1 ELSE 0)
<1>1. Holders(f) \in SUBSET Threads /\ Handing(f) \in SUBSET Threads
  BY DEF Holders, Handing
<1>2. QED
  BY <1>1, ThreadsFinite, CountInFlight DEF FragmentRefsExact

\* Whoever works on a CFragment has a reference to it, and a second one between
\* Read's AddRef and the hand-over to the device.
LEMMA HolderHasReference ==
  ASSUME TypeOK, FragmentRefsExact, NEW f \in Fragments
  PROVE  /\ f \in reading => fragRefs[f] > 0
         /\ \A t \in Holders(f) : fragRefs[f] > 0
         /\ \A t \in Handing(f) : fragRefs[f] > 1
<1>1. \A t \in Handing(f) : t \in Holders(f)
  BY DEF Handing
<1>2. QED
  BY <1>1, ReferencesOf

\* Whoever has the only reference of a CFragment is alone with it.
LEMMA LastHolder ==
  ASSUME TypeOK, FragmentRefsExact, NEW f \in Fragments, NEW t \in Holders(f),
         fragRefs[f] = 1
  PROVE  f \notin reading /\ Handing(f) = {} /\ \A u \in Holders(f) : u = t
<1>1. Cardinality(Holders(f)) = 1 /\ f \notin reading /\ Handing(f) = {}
  BY ReferencesOf
<1>2. PICK u : Holders(f) = {u}
  BY <1>1, ReferencesOf, FS_Singleton
<1>3. QED
  BY <1>1, <1>2

\* A CFragment without references is with nobody.
LEMMA DeadIsUnused ==
  ASSUME TypeOK, FragmentRefsExact, NEW f \in Fragments \ Live
  PROVE  f \notin reading /\ Holders(f) = {} /\ Strand(f) = {}
<1>1. fragRefs[f] \in Nat /\ ~(fragRefs[f] > 0)
  BY DEF TypeOK, Live
<1>2. f \notin reading /\ Holders(f) = {}
  BY <1>1, HolderHasReference
<1>3. QED
  BY <1>2 DEF Strand

\* Whoever has a CFragment, or is in Start, is counted in _nIoCount.
LEMMA UserIsCounted ==
  ASSUME TypeOK, IoCountExact, Live # {} \/ Destroying # {} \/ InStart
  PROVE  nIoCount > 0
<1>1. Live \in SUBSET Fragments /\ Destroying \in SUBSET Threads
  BY DEF Live, Destroying
<1>2. /\ Cardinality(Live) \in Nat /\ Cardinality(Destroying) \in Nat
      /\ Live # {} => Cardinality(Live) # 0
      /\ Destroying # {} => Cardinality(Destroying) # 0
  BY <1>1, ThreadsFinite, FragmentsFinite
<1>3. QED
  BY <1>2 DEF IoCountExact

\* The threads that are not through with the task.
LEMMA ThreadIsCounted ==
  ASSUME IInv, NEW t \in Threads, this[t] # None \/ pc[t] = "endio" \/ pc[t] = "new"
  PROVE  nIoCount > 0 \/ t \in Finishing
<1> USE DEF IInv
<1>1. CASE this[t] # None /\ pc[t] \notin Dying
  <2>1. this[t] \in Fragments /\ t \in Holders(this[t])
    BY <1>1 DEF TypeOK, Holders
  <2>2. this[t] \in Live
    BY <2>1, HolderHasReference DEF Live
  <2>3. QED
    BY <2>2, UserIsCounted
<1>2. CASE this[t] # None /\ pc[t] = "endio"
  BY <1>2, UserIsCounted DEF Destroying
<1>3. CASE this[t] = None
  BY <1>3, UserIsCounted DEF InStart, CtlInv, Threads
<1>4. QED
  BY <1>1, <1>2, <1>3 DEF Dying, Finishing

\* Who ends the task is counted in its references.
LEMMA FinishingRefs ==
  ASSUME TypeOK, TaskRefsExact, EndInv, NEW t \in Finishing
  PROVE  nIoCount = 0 /\ taskRefs > 0
<1>1. nIoCount = 0
  BY DEF EndInv, TypeOK
<1>2. Finishing \in SUBSET Threads
  BY DEF Finishing
<1>3. Cardinality(Finishing) \in Nat \ {0}
  BY <1>2, ThreadsFinite
<1>4. QED
  BY <1>1, <1>3 DEF TaskRefsExact

\* A thread that runs a method of a CFragment has a reference to it.
LEMMA ThreadHasFragment ==
  ASSUME IInv, NEW t \in Threads,
         pc[t] \in {"reuse", "read", "issue", "fail", "arrived", "process", "release"}
  PROVE  /\ this[t] \in Fragments /\ t \in Holders(this[t]) /\ this[t] \in Live
<1> USE DEF IInv
<1>1. this[t] # None /\ this[t] \in Fragments
  BY DEF TypeOK, CtlInv, Threads
<1>2. t \in Holders(this[t])
  BY DEF Holders, Dying
<1>3. QED
  BY <1>1, <1>2, HolderHasReference DEF Live

\* The reads that are still to be made are finitely many, and counted in bytes.
LEMMA ReadsCounted ==
  ASSUME IInv
  PROVE  /\ IsFiniteSet(Unread) /\ Cardinality(Unread) \in Nat
         /\ IsFiniteSet(ToRead) /\ Cardinality(ToRead) \in Nat
         /\ ToRead # {} => bytes > 0
<1>1. nFragments \in Int /\ NReads \in Nat /\ bytes \in Nat
  BY TaskAssumption DEF IInv, TypeOK
<1>2. IsFiniteSet(0 .. nFragments - 1) /\ IsFiniteSet(1 .. NReads)
  BY <1>1, FS_Interval
<1>3. /\ IsFiniteSet((0 .. nFragments - 1) \X (1 .. NReads))
      /\ IsFiniteSet(Fragments \X (1 .. NReads))
  BY <1>2, TaskAssumption, FS_Product
<1>4. /\ Unread \in SUBSET ((0 .. nFragments - 1) \X (1 .. NReads))
      /\ ToRead \in SUBSET (Fragments \X (1 .. NReads))
  BY DEF Unread, ToRead
<1>5. /\ IsFiniteSet(Unread) /\ Cardinality(Unread) \in Nat
      /\ IsFiniteSet(ToRead) /\ Cardinality(ToRead) \in Nat
      /\ ToRead # {} => Cardinality(ToRead) # 0
  BY <1>3, <1>4, FiniteCount
<1>6. bytes >= Cardinality(Unread) + Cardinality(ToRead)
  BY DEF IInv, BytesInv
<1>7. ToRead # {} => bytes > 0
  <2>1. ToRead # {} => Cardinality(ToRead) > 0
    BY <1>5
  <2>2. QED
    BY <1>1, <1>5, <1>6, <2>1
<1>8. QED
  BY <1>5, <1>7

-----------------------------------------------------------------------------
(***************************************************************************)
(* Where the threads are, and who may touch a CFragment.                   *)
(***************************************************************************)
\* Every label a thread goes to suits the thread and the CFragment it has: a worker
\* never runs the code of the dialog, a refused thread goes on to the inline completion.
LEMMA CtlStep == IInv /\ [Next]_vars => CtlInv'
<1> SUFFICES ASSUME IInv, [Next]_vars PROVE CtlInv'
  OBVIOUS
<1> USE TaskAssumption DEF IInv, TypeOK, Labels, CtlInv, Threads, None, gateVars,
                          refVars, workVars, hfVars, ctlVars
<1>1. ASSUME NEW t \in Threads,
             ReUseBlock(t) \/ Read(t) \/ IssueRead(t) \/ ReleaseRP(t)
             \/ RundownCompleted(t) \/ FailInline(t) \/ Release(t) \/ EndIo(t)
             \/ Complete(t) \/ TaskRelease(t)
      PROVE  CtlInv'
  BY <1>1 DEF ReUseBlock, Read, IssueRead, ReleaseRP, RundownCompleted, FailInline,
             Release, EndIo, Complete, TaskRelease, TakeFragment, AnyLeft, Goto,
             AddRef, AcquireRP, Gate!Enter, ReadRefused, Gate!Leave, LastOut,
             AfterLeave, Gate!Complete, SetError, ReleaseInline, Return, AfterEndIo
<1>2. ASSUME NEW w \in Workers, NEW f \in Fragments, ReadFails(w, f) PROVE CtlInv'
  BY <1>2, FragmentsAssumption DEF ReadFails, SetError, Goto
<1>3. ASSUME NEW w \in Workers, NEW f \in Fragments, ReadArrives(w, f) PROVE CtlInv'
  BY <1>3, FragmentsAssumption DEF ReadArrives, Goto
<1>4. ASSUME NEW w \in Workers,
             CheckRundown(w) \/ ProcessFails(w) \/ ProcessData(w)
      PROVE  CtlInv'
  BY <1>4 DEF CheckRundown, ProcessFails, ProcessData, SetError, Goto, DataError
<1>5. ASSUME NEW f \in Fragments, NewFragment(f) PROVE CtlInv'
  BY <1>5, FragmentsAssumption DEF NewFragment, StartIo, Goto
<1>6. CASE NewFails \/ CreateBuffer \/ Rundown \/ Rundown_l \/ Done \/ WriteFails
           \/ PostDone
  BY <1>6 DEF NewFails, CreateBuffer, Rundown, Rundown_l, Done, WriteFails,
             PostDone, Goto, Gate!Enter, Gate!Close, SetError
<1>7. CASE UNCHANGED vars
  BY <1>7 DEF vars
<1>8. QED
  BY <1>1, <1>2, <1>3, <1>4, <1>5, <1>6, <1>7
     DEF Next, Step, StartStep, Completion, Process

\* A CFragment stays with one thread or the device: IssueRead hands it to the device,
\* a completion takes it from there, and the thread that issued the read only has
\* its reference left.
LEMMA StrandStep == IInv /\ [Next]_vars => StrandInv'
<1> SUFFICES ASSUME IInv, [Next]_vars PROVE StrandInv'
  OBVIOUS
<1> USE TaskAssumption DEF IInv, TypeOK, CtlInv, StrandInv, Strand, Holders, Dying,
                          Working, Threads, gateVars, refVars, workVars, hfVars,
                          ctlVars
<1>1. ASSUME NEW t \in Threads,
             ReUseBlock(t) \/ Read(t) \/ IssueRead(t) \/ ReleaseRP(t)
             \/ RundownCompleted(t) \/ FailInline(t) \/ Release(t) \/ EndIo(t)
             \/ Complete(t) \/ TaskRelease(t)
      PROVE  StrandInv'
  BY <1>1 DEF ReUseBlock, Read, IssueRead, ReleaseRP, RundownCompleted, FailInline,
             Release, EndIo, Complete, TaskRelease, TakeFragment, AnyLeft, Goto,
             AddRef, AcquireRP, Gate!Enter, ReadRefused, Gate!Leave, LastOut,
             AfterLeave, Gate!Complete, SetError, ReleaseInline, Return, AfterEndIo
<1>2. ASSUME NEW w \in Workers, NEW f \in Fragments,
             ReadFails(w, f) \/ ReadArrives(w, f)
      PROVE  StrandInv'
  BY <1>2 DEF ReadFails, ReadArrives, SetError, Goto
<1>3. ASSUME NEW w \in Workers,
             CheckRundown(w) \/ ProcessFails(w) \/ ProcessData(w)
      PROVE  StrandInv'
  BY <1>3 DEF CheckRundown, ProcessFails, ProcessData, SetError, Goto, DataError
<1>4. ASSUME NEW f \in Fragments, NewFragment(f) PROVE StrandInv'
  <2>1. f \in Fragments \ Live
    BY <1>4 DEF NewFragment
  <2>2. f \notin reading /\ Strand(f) = {}
    BY <2>1, DeadIsUnused
  <2>3. QED
    BY <1>4, <2>2 DEF NewFragment, StartIo, Goto
<1>5. CASE NewFails \/ CreateBuffer \/ Rundown \/ Rundown_l \/ Done \/ WriteFails
           \/ PostDone
  BY <1>5 DEF NewFails, CreateBuffer, Rundown, Rundown_l, Done, WriteFails,
             PostDone, Goto, Gate!Enter, Gate!Close, SetError
<1>6. CASE UNCHANGED vars
  BY <1>6 DEF vars
<1>7. QED
  BY <1>1, <1>2, <1>3, <1>4, <1>5, <1>6 DEF Next, Step, StartStep, Completion, Process

\* Only the EndIo that takes _nIoCount to zero lets a thread end the task, and nobody
\* calls StartIo after that: whoever could is counted.
LEMMA EndStep == IInv /\ [Next]_vars => EndInv'
<1> SUFFICES ASSUME IInv, [Next]_vars PROVE EndInv'
  OBVIOUS
<1> USE TaskAssumption DEF IInv, TypeOK, EndInv, Finishing, gateVars, refVars,
                          workVars, hfVars, ctlVars
<1>1. ASSUME NEW t \in Threads,
             ReUseBlock(t) \/ Read(t) \/ IssueRead(t) \/ ReleaseRP(t)
             \/ RundownCompleted(t) \/ FailInline(t) \/ Release(t) \/ TaskRelease(t)
      PROVE  EndInv'
  BY <1>1 DEF ReUseBlock, Read, IssueRead, ReleaseRP, RundownCompleted, FailInline,
             Release, TaskRelease, TakeFragment, AnyLeft, Goto, AddRef, AcquireRP,
             Gate!Enter, ReadRefused, Gate!Leave, LastOut, AfterLeave,
             Gate!Complete, SetError, ReleaseInline, Return, AfterEndIo
<1>2. ASSUME NEW t \in Threads, EndIo(t) PROVE EndInv'
  BY <1>2, ThreadIsCounted DEF EndIo, AfterEndIo, Return, Goto
<1>3. ASSUME NEW t \in Threads, Complete(t) PROVE EndInv'
  BY <1>3, FinishingRefs DEF Complete, Goto
<1>4. ASSUME NEW w \in Workers, NEW f \in Fragments,
             ReadFails(w, f) \/ ReadArrives(w, f)
      PROVE  EndInv'
  BY <1>4 DEF ReadFails, ReadArrives, SetError, Goto
<1>5. ASSUME NEW w \in Workers,
             CheckRundown(w) \/ ProcessFails(w) \/ ProcessData(w)
      PROVE  EndInv'
  BY <1>5 DEF CheckRundown, ProcessFails, ProcessData, SetError, Goto, DataError
<1>6. ASSUME NEW f \in Fragments, NewFragment(f) PROVE EndInv'
  <2>1. nIoCount > 0 /\ nIoCount \in Nat /\ Finishing' = Finishing
    BY <1>6, ThreadIsCounted DEF NewFragment, StartIo, Goto, Threads, TypeOK
  <2>2. QED
    BY <1>6, <2>1 DEF NewFragment, StartIo, Goto
<1>7. CASE NewFails \/ CreateBuffer \/ Rundown \/ Rundown_l \/ Done \/ WriteFails
           \/ PostDone
  BY <1>7 DEF NewFails, CreateBuffer, Rundown, Rundown_l, Done, WriteFails,
             PostDone, Goto, Gate!Enter, Gate!Close, SetError
<1>8. CASE UNCHANGED vars
  BY <1>8 DEF vars
<1>9. QED
  BY <1>1, <1>2, <1>3, <1>4, <1>5, <1>6, <1>7, <1>8
     DEF Next, Step, StartStep, Completion, Process

\* Types: what is decremented was positive, and a CFragment's part is a fragment of
\* the file.
LEMMA TypeStep == IInv /\ [Next]_vars => TypeOK'
<1> SUFFICES ASSUME IInv, [Next]_vars PROVE TypeOK'
  OBVIOUS
<1> USE TaskAssumption DEF IInv, TypeOK, Labels, CtlInv, PartInv, Threads, gateVars,
                          refVars, workVars, hfVars, ctlVars
<1>1. ASSUME NEW t \in Threads, ReUseBlock(t) PROVE TypeOK'
  <2>1. pc' \in [Threads -> Labels]
    BY <1>1 DEF ReUseBlock, TakeFragment, AnyLeft, Goto
  <2>2. this[t] \in Fragments
    BY <1>1 DEF ReUseBlock, TakeFragment, AnyLeft, Goto
  <2>3. AnyLeft => nFragments - 1 \in 0 .. NFragments - 1 /\ ReadsOf(nFragments - 1) \in Nat
    BY TaskAssumption DEF AnyLeft, ReadsOf
  <2>4. /\ part' \in [Fragments -> (0 .. NFragments - 1) \cup {None}]
        /\ left' \in [Fragments -> Nat]
    BY <1>1, <2>2, <2>3 DEF ReUseBlock, TakeFragment, AnyLeft, Goto
  <2>9. QED
    BY <1>1, <2>1, <2>2, <2>3, <2>4 DEF ReUseBlock, TakeFragment, AnyLeft, Goto
<1>2. ASSUME NEW t \in Threads, Read(t) PROVE TypeOK'
  <2>1. pc' \in [Threads -> Labels]
    BY <1>2 DEF Read, AddRef, AcquireRP, Gate!Enter, Goto
  <2>2. this[t] \in Fragments
    BY <1>2 DEF Read, AddRef, AcquireRP, Gate!Enter, Goto
  <2>4. fragRefs' \in [Fragments -> Nat]
    BY <1>2, <2>2 DEF Read, AddRef, AcquireRP, Gate!Enter, Goto
  <2>9. QED
    BY <1>2, <2>1, <2>2, <2>4 DEF Read, AddRef, AcquireRP, Gate!Enter, Goto
<1>3. ASSUME NEW t \in Threads, IssueRead(t) PROVE TypeOK'
  <2>1. pc' \in [Threads -> Labels]
    BY <1>3 DEF IssueRead, ReadRefused, Goto
  <2>2. this[t] \in Fragments
    BY <1>3 DEF IssueRead, ReadRefused, Goto
  <2>9. QED
    BY <1>3, <2>1, <2>2 DEF IssueRead, ReadRefused, Goto
<1>4. ASSUME NEW t \in Threads, ReleaseRP(t) PROVE TypeOK'
  BY <1>4 DEF ReleaseRP, Gate!Leave, LastOut, AfterLeave, Goto
<1>5. ASSUME NEW t \in Threads, RundownCompleted(t) PROVE TypeOK'
  BY <1>5 DEF RundownCompleted, Gate!Complete, AfterLeave, Goto
<1>6. ASSUME NEW t \in Threads, FailInline(t) PROVE TypeOK'
  <2>1. pc' \in [Threads -> Labels]
    BY <1>6 DEF FailInline, SetError, ReleaseInline, Goto
  <2>2. this[t] \in Fragments /\ t \in Threads
    BY <1>6 DEF FailInline, SetError, ReleaseInline, Goto
  <2>3. fragRefs[this[t]] > 0
    BY <1>6, <2>2, HolderHasReference
       DEF FailInline, SetError, ReleaseInline, Goto, Holders, Dying
  <2>4. fragRefs' \in [Fragments -> Nat]
    BY <1>6, <2>2, <2>3 DEF FailInline, SetError, ReleaseInline, Goto
  <2>9. QED
    BY <1>6, <2>1, <2>2, <2>4 DEF FailInline, SetError, ReleaseInline, Goto
<1>7. ASSUME NEW t \in Threads, Release(t) PROVE TypeOK'
  <2>1. pc' \in [Threads -> Labels]
    BY <1>7 DEF Release, Return, Goto
  <2>2. this[t] \in Fragments /\ t \in Threads
    BY <1>7 DEF Release, Return, Goto
  <2>3. fragRefs[this[t]] > 0
    BY <1>7, <2>2, HolderHasReference DEF Release, Return, Goto, Holders, Dying
  <2>4. fragRefs' \in [Fragments -> Nat]
    BY <1>7, <2>2, <2>3 DEF Release, Return, Goto
  <2>9. QED
    BY <1>7, <2>1, <2>2, <2>4 DEF Release, Return, Goto
<1>8. ASSUME NEW t \in Threads, EndIo(t) PROVE TypeOK'
  <2>1. pc' \in [Threads -> Labels]
    BY <1>8 DEF EndIo, AfterEndIo, Return, Goto
  <2>2. nIoCount - 1 \in Nat
    BY <1>8, ThreadIsCounted DEF EndIo, AfterEndIo, Return, Goto, Finishing
  <2>9. QED
    BY <1>8, <2>1, <2>2 DEF EndIo, AfterEndIo, Return, Goto
<1>9. ASSUME NEW t \in Threads, Complete(t) PROVE TypeOK'
  BY <1>9 DEF Complete, Goto
<1>10. ASSUME NEW t \in Threads, TaskRelease(t) PROVE TypeOK'
  <2>1. pc' \in [Threads -> Labels]
    BY <1>10 DEF TaskRelease, AfterEndIo, Return, Goto
  <2>2. taskRefs - 1 \in Nat
    BY <1>10, FinishingRefs DEF TaskRelease, AfterEndIo, Return, Goto, Finishing
  <2>9. QED
    BY <1>10, <2>1, <2>2 DEF TaskRelease, AfterEndIo, Return, Goto
<1>11. ASSUME NEW w \in Workers, NEW f \in Fragments, ReadFails(w, f) PROVE TypeOK'
  BY <1>11 DEF ReadFails, SetError, Goto
<1>12. ASSUME NEW w \in Workers, NEW f \in Fragments, ReadArrives(w, f) PROVE TypeOK'
  BY <1>12 DEF ReadArrives, Goto
<1>13. ASSUME NEW w \in Workers, CheckRundown(w) PROVE TypeOK'
  BY <1>13 DEF CheckRundown, SetError, Goto
<1>14. ASSUME NEW w \in Workers, ProcessFails(w) PROVE TypeOK'
  BY <1>14 DEF ProcessFails, DataError, SetError, Goto
<1>15. ASSUME NEW w \in Workers, ProcessData(w) PROVE TypeOK'
  <2>1. pc' \in [Threads -> Labels]
    BY <1>15 DEF ProcessData, Goto
  <2>2. this[w] \in Fragments /\ w \in Threads
    BY <1>15 DEF ProcessData, Goto
  <2>3. Reads(this[w])
    BY <1>15, <2>2 DEF ProcessData, Goto, Reads, Strand, Holders, Dying, Working
  <2>4. part[this[w]] \in 0 .. NFragments - 1 /\ left[this[w]] \in 1 .. NReads
    BY <2>2, <2>3, TaskAssumption
  <2>5. left' \in [Fragments -> Nat] /\ hashed' \subseteq 0 .. NFragments - 1
    <3>1. left[this[w]] - 1 \in Nat
      BY <2>4
    <3>2. /\ left' = [left EXCEPT ![this[w]] = @ - 1]
          /\ hashed' \subseteq hashed \cup {part[this[w]]}
      BY <1>15 DEF ProcessData, Goto
    <3>3. QED
      BY <2>2, <2>4, <3>1, <3>2
  <2>6. bytes - 1 \in Nat
    <3>1. <<this[w], left[this[w]]>> \in ToRead
      BY <2>2, <2>4 DEF ToRead
    <3>2. bytes # 0
      BY <3>1, ReadsCounted
    <3>3. QED
      BY <3>2
  <2>9. QED
    BY <1>15, <2>1, <2>2, <2>5, <2>6 DEF ProcessData, Goto
<1>16. ASSUME NEW f \in Fragments, NewFragment(f) PROVE TypeOK'
  <2>1. pc' \in [Threads -> Labels]
    BY <1>16 DEF NewFragment, StartIo, Goto
  <2>2. /\ fragRefs' \in [Fragments -> Nat]
        /\ part' \in [Fragments -> (0 .. NFragments - 1) \cup {None}]
    BY <1>16 DEF NewFragment, StartIo, Goto
  <2>3. toStart' \in 0 .. nIO
    BY <1>16 DEF NewFragment, StartIo, Goto
  <2>4. this' \in [Threads -> Fragments \cup {None}]
    BY <1>16 DEF NewFragment, StartIo, Goto
  <2>9. QED
    BY <1>16, <2>1, <2>2, <2>3, <2>4 DEF NewFragment, StartIo, Goto
<1>17. CASE NewFails
  <2>1. pc' \in [Threads -> Labels]
    BY <1>17 DEF NewFails, Goto
  <2>3. toStart' \in 0 .. nIO
    BY <1>17 DEF NewFails, Goto
  <2>9. QED
    BY <1>17, <2>1, <2>3 DEF NewFails, Goto
<1>18. CASE CreateBuffer
  BY <1>18 DEF CreateBuffer, Goto
<1>19. CASE Rundown
  <2>1. pc' \in [Threads -> Labels]
    BY <1>19 DEF Rundown, Gate!Enter, Goto
  <2>9. QED
    BY <1>19, <2>1 DEF Rundown, Gate!Enter, Goto
<1>20. CASE Rundown_l
  BY <1>20 DEF Rundown_l, Gate!Close, Goto
<1>21. CASE Done
  <2>1. pc' \in [Threads -> Labels]
    BY <1>21 DEF Done, Goto
  <2>2. taskRefs - 1 \in Nat
    <3>1. Cardinality(Finishing) \in Nat
      BY ThreadsFinite DEF Finishing
    <3>2. QED
      BY <1>21, <3>1 DEF Done, Goto, TaskRefsExact
  <2>9. QED
    BY <1>21, <2>1, <2>2 DEF Done, Goto
<1>22. CASE WriteFails
  BY <1>22 DEF WriteFails, SetError
<1>23. CASE PostDone
  BY <1>23 DEF PostDone
<1>24. CASE UNCHANGED vars
  BY <1>24 DEF vars
<1>25. QED
  BY <1>1, <1>2, <1>3, <1>4, <1>5, <1>6, <1>7, <1>8, <1>9, <1>10, <1>11, <1>12,
    <1>13, <1>14, <1>15, <1>16, <1>17, <1>18, <1>19, <1>20, <1>21, <1>22, <1>23,
    <1>24 DEF Next, Step, StartStep, Completion, Process

-----------------------------------------------------------------------------
(***************************************************************************)
(* What the CFragments work on.                                            *)
(***************************************************************************)
\* ReUseBlock hands out a fragment of the file nobody has had; who gets to its end
\* hashes it and has nothing left.
LEMMA PartStep == IInv /\ [Next]_vars => PartInv'
<1> SUFFICES ASSUME IInv, [Next]_vars PROVE PartInv'
  OBVIOUS
<1> USE TaskAssumption DEF IInv, TypeOK, CtlInv, StrandInv, PartInv, Reads, Strand,
                          Holders, Dying, Working, HandedOutOnce, Assigned, Live,
                          gateVars, refVars, workVars, hfVars, ctlVars
<1>1. ASSUME NEW t \in Threads, ReUseBlock(t) PROVE PartInv'
  <2>1. this[t] \in Fragments /\ t \in Holders(this[t]) /\ this[t] \in Live
    BY <1>1, ThreadHasFragment DEF ReUseBlock, TakeFragment, AnyLeft, Goto
  <2>3. /\ nFragments' = nFragments - 1 /\ this' = this
        /\ \A u \in Threads : u # t => pc'[u] = pc[u]
        /\ pc'[t] = IF nFragments > 0 THEN "read" ELSE "release"
        /\ UNCHANGED <<hashed, reading, refused, fragRefs>>
    BY <1>1 DEF ReUseBlock, TakeFragment, AnyLeft, Goto
  <2>4. \A f \in Fragments : f # this[t] => part'[f] = part[f] /\ left'[f] = left[f]
    <3>1. CASE AnyLeft
      BY <1>1, <3>1 DEF ReUseBlock
    <3>2. CASE ~AnyLeft
      BY <1>1, <3>2 DEF ReUseBlock
    <3>3. QED
      BY <3>1, <3>2
  <2>5. \A f \in Fragments : Reads(f)' => f = this[t] \/ Reads(f)
    BY <2>1, <2>3
  <2>6. CASE nFragments > 0
    <3>1. part'[this[t]] = nFragments - 1 /\ left'[this[t]] = ReadsOf(nFragments - 1)
      BY <1>1, <2>1, <2>6 DEF ReUseBlock, TakeFragment, AnyLeft, Goto
    <3>2. ReadsOf(nFragments - 1) \in 1 .. NReads /\ nFragments - 1 # None
      BY <2>6, TaskAssumption DEF ReadsOf, None
    <3>3. HandedOutOnce'
      BY <2>1, <2>3, <2>4, <3>1, <3>2
    <3>4. QED
      BY <2>1, <2>3, <2>4, <2>5, <3>1, <3>2, <3>3
  <2>7. CASE ~(nFragments > 0)
    <3>1. UNCHANGED <<part, left>> /\ ~Reads(this[t])'
      BY <1>1, <2>1, <2>3, <2>7 DEF ReUseBlock, TakeFragment, AnyLeft, Goto
    <3>2. QED
      BY <2>3, <2>5, <3>1
  <2>8. QED
    BY <2>6, <2>7
<1>2. ASSUME NEW t \in Threads, Read(t) PROVE PartInv'
  <2>1. this[t] \in Fragments /\ t \in Holders(this[t]) /\ this[t] \in Live
    BY <1>2, ThreadHasFragment DEF Read, AddRef, AcquireRP, Gate!Enter, Goto
  <2>2. \A f \in Fragments : fragRefs'[f] > 0 <=> fragRefs[f] > 0
    BY <1>2, <2>1 DEF Read, AddRef, AcquireRP, Gate!Enter, Goto
  <2>3. Live' = Live
    BY <2>2
  <2>4. \A f \in Fragments : Reads(f)' => Reads(f)
    BY <1>2, <2>1 DEF Read, AddRef, AcquireRP, Gate!Enter, Goto
  <2>5. QED
    BY <1>2, <2>3, <2>4 DEF Read
<1>3. ASSUME NEW t \in Threads, IssueRead(t) PROVE PartInv'
  BY <1>3 DEF IssueRead, ReadRefused, Goto
<1>4. ASSUME NEW t \in Threads, ReleaseRP(t) PROVE PartInv'
  BY <1>4 DEF ReleaseRP, Gate!Leave, LastOut, AfterLeave, Goto
<1>5. ASSUME NEW t \in Threads, RundownCompleted(t) PROVE PartInv'
  BY <1>5 DEF RundownCompleted, Gate!Complete, AfterLeave, Goto
<1>6. ASSUME NEW t \in Threads, FailInline(t) PROVE PartInv'
  BY <1>6 DEF FailInline, SetError, ReleaseInline, Goto
<1>7. ASSUME NEW t \in Threads, Release(t) PROVE PartInv'
  BY <1>7 DEF Release, Return, Goto
<1>8. ASSUME NEW t \in Threads, EndIo(t) PROVE PartInv'
  BY <1>8 DEF EndIo, AfterEndIo, Return, Goto
<1>9. ASSUME NEW t \in Threads, Complete(t) PROVE PartInv'
  BY <1>9 DEF Complete, Goto
<1>10. ASSUME NEW t \in Threads, TaskRelease(t) PROVE PartInv'
  BY <1>10 DEF TaskRelease, AfterEndIo, Return, Goto
<1>11. ASSUME NEW w \in Workers, NEW f \in Fragments, ReadFails(w, f) PROVE PartInv'
  BY <1>11 DEF ReadFails, SetError, Goto
<1>12. ASSUME NEW w \in Workers, NEW f \in Fragments, ReadArrives(w, f) PROVE PartInv'
  BY <1>12 DEF ReadArrives, Goto
<1>13. ASSUME NEW w \in Workers, CheckRundown(w) PROVE PartInv'
  BY <1>13 DEF CheckRundown, SetError, Goto
<1>14. ASSUME NEW w \in Workers, ProcessFails(w) PROVE PartInv'
  BY <1>14 DEF ProcessFails, DataError, SetError, Goto
<1>15. ASSUME NEW w \in Workers, ProcessData(w) PROVE PartInv'
  <2>1. this[w] \in Fragments /\ w \in Holders(this[w]) /\ this[w] \in Live
    BY <1>15, ThreadHasFragment DEF ProcessData, Goto, Threads
  <2>3. /\ this' = this /\ \A u \in Threads : u # w => pc'[u] = pc[u]
        /\ pc'[w] = IF left[this[w]] > 1 THEN "read" ELSE "reuse"
        /\ hashed' = IF left[this[w]] > 1 THEN hashed ELSE hashed \cup {part[this[w]]}
        /\ UNCHANGED <<nFragments, part, reading, refused, fragRefs>>
    BY <1>15 DEF ProcessData, Goto, Threads
  <2>2. \A f \in Fragments : left'[f] = IF f = this[w] THEN left[f] - 1 ELSE left[f]
    BY <1>15 DEF ProcessData
  <2>4. part[this[w]] # None /\ left[this[w]] > 0 /\ left[this[w]] \in Nat
    BY <1>15, <2>1 DEF ProcessData, Goto
  <2>5. \A f \in Fragments : Reads(f)' => Reads(f) /\ (f = this[w] => left[this[w]] > 1)
    BY <1>15, <2>1, <2>3 DEF ProcessData, Threads
  <2>6. HandedOutOnce'
    BY <2>1, <2>2, <2>3, <2>4
  <2>7. QED
    BY <2>1, <2>2, <2>3, <2>4, <2>5, <2>6
<1>16. ASSUME NEW f \in Fragments, NewFragment(f) PROVE PartInv'
  <2>1. f \in Fragments \ Live
    BY <1>16 DEF NewFragment, StartIo, Goto
  <2>2. f \notin reading /\ Strand(f) = {}
    BY <2>1, DeadIsUnused
  <2>3. /\ Live' = Live \cup {f} /\ part'[f] = None
        /\ \A g \in Fragments : g # f => part'[g] = part[g]
        /\ UNCHANGED <<nFragments, left, hashed>>
    BY <1>16 DEF NewFragment, StartIo, Goto
  <2>4. \A g \in Fragments : Reads(g)' => Reads(g) /\ g # f
    BY <1>16, <2>2 DEF NewFragment, StartIo, Goto
  <2>5. QED
    BY <2>3, <2>4
<1>17. CASE NewFails
  BY <1>17 DEF NewFails, Goto
<1>18. CASE CreateBuffer
  BY <1>18 DEF CreateBuffer, Goto
<1>19. CASE Rundown
  BY <1>19 DEF Rundown, Gate!Enter, Goto
<1>20. CASE Rundown_l
  BY <1>20 DEF Rundown_l, Gate!Close, Goto
<1>21. CASE Done
  BY <1>21 DEF Done, Goto
<1>22. CASE WriteFails
  BY <1>22 DEF WriteFails, SetError
<1>23. CASE PostDone
  BY <1>23 DEF PostDone
<1>24. CASE UNCHANGED vars
  BY <1>24 DEF vars
<1>25. QED
  BY <1>1, <1>2, <1>3, <1>4, <1>5, <1>6, <1>7, <1>8, <1>9, <1>10, <1>11, <1>12,
    <1>13, <1>14, <1>15, <1>16, <1>17, <1>18, <1>19, <1>20, <1>21, <1>22, <1>23,
    <1>24 DEF Next, Step, StartStep, Completion, Process

\* The first r reads of x.
LEMMA CountReads ==
  ASSUME NEW x, NEW r \in Nat
  PROVE  IsFiniteSet({x} \X (1 .. r)) /\ Cardinality({x} \X (1 .. r)) = r
<1>1. IsFiniteSet({x}) /\ Cardinality({x}) = 1
  BY FS_Singleton
<1>2. IsFiniteSet(1 .. r) /\ Cardinality(1 .. r) = r
  BY FS_Interval
<1>3. /\ IsFiniteSet({x} \X (1 .. r))
      /\ Cardinality({x} \X (1 .. r)) = Cardinality({x}) * Cardinality(1 .. r)
  BY <1>1, <1>2, FS_Product
<1>4. QED
  BY <1>1, <1>2, <1>3

\* Taking a fragment of the file moves its reads from the one set to the other,
\* and what the CFragment had left of another one is lost.
LEMMA TakeReads ==
  ASSUME IInv, NEW f \in Fragments, nFragments > 0, nFragments' = nFragments - 1,
         left' = [left EXCEPT ![f] = ReadsOf(nFragments - 1)]
  PROVE  /\ Cardinality(Unread') = Cardinality(Unread) - ReadsOf(nFragments - 1)
         /\ Cardinality(ToRead') <= Cardinality(ToRead) + ReadsOf(nFragments - 1)
         /\ Cardinality(ToRead') \in Nat
         /\ left[f] = 0 =>
              Cardinality(ToRead') = Cardinality(ToRead) + ReadsOf(nFragments - 1)
<1> DEFINE i == nFragments - 1
           r == ReadsOf(i)
           A == {i} \X (1 .. r)
           B == {f} \X (1 .. r)
<1>1. i \in 0 .. NFragments - 1 /\ r \in 1 .. NReads /\ NReads \in Nat
  BY TaskAssumption DEF IInv, TypeOK, PartInv, ReadsOf
<1>2. /\ IsFiniteSet(A) /\ Cardinality(A) = r /\ IsFiniteSet(B) /\ Cardinality(B) = r
      /\ IsFiniteSet(Unread) /\ Cardinality(Unread) \in Nat
      /\ IsFiniteSet(ToRead) /\ Cardinality(ToRead) \in Nat
  <2>1. r \in Nat
    BY <1>1
  <2>2. IsFiniteSet(A) /\ Cardinality(A) = r
    BY <2>1, CountReads
  <2>3. IsFiniteSet(B) /\ Cardinality(B) = r
    BY <2>1, CountReads
  <2>4. QED
    BY <2>2, <2>3, ReadsCounted
<1>3. /\ Unread = Unread' \cup A /\ Unread' \cap A = {} /\ Unread' \subseteq Unread
  BY <1>1 DEF Unread
<1>4. ToRead' \subseteq ToRead \cup B
  BY <1>1 DEF ToRead, IInv, TypeOK
<1>5. left[f] = 0 => ToRead' = ToRead \cup B /\ ToRead \cap B = {}
  BY <1>1 DEF ToRead, IInv, TypeOK
<1> HIDE DEF i, r, A, B
<1>6. Cardinality({}) = 0
  BY FS_EmptySet
<1>7. Cardinality(Unread') = Cardinality(Unread) - r
  <2>1. IsFiniteSet(Unread') /\ Cardinality(Unread') \in Nat
    BY <1>2, <1>3, FiniteCount
  <2>2. Cardinality(Unread) = Cardinality(Unread') + Cardinality(A) - Cardinality({})
    BY <1>2, <1>3, <2>1, FS_Union
  <2>3. QED
    BY <1>1, <1>2, <1>6, <2>1, <2>2
<1>8. /\ IsFiniteSet(ToRead \cup B)
      /\ Cardinality(ToRead \cup B) = Cardinality(ToRead) + r - Cardinality(ToRead \cap B)
      /\ Cardinality(ToRead \cap B) \in Nat
  BY <1>2, FS_Union, FiniteCount
<1>9. Cardinality(ToRead') <= Cardinality(ToRead \cup B) /\ Cardinality(ToRead') \in Nat
  BY <1>4, <1>8, FS_Subset, FiniteCount
<1>10. Cardinality(ToRead') <= Cardinality(ToRead) + r
  BY <1>1, <1>2, <1>8, <1>9
<1>11. left[f] = 0 => Cardinality(ToRead') = Cardinality(ToRead) + r
  <2>1. left[f] = 0 => Cardinality(ToRead') = Cardinality(ToRead \cup B) /\ Cardinality(ToRead \cap B) = 0
    BY <1>5, <1>6
  <2>2. QED
    BY <1>1, <1>2, <1>8, <2>1
<1>12. QED
  BY <1>7, <1>9, <1>10, <1>11 DEF r, i

\* A CFragment whose thread is about to ask for a fragment of the file has nothing
\* left to read, as long as nothing has failed.
LEMMA NothingLeft ==
  ASSUME IInv, NEW t \in Threads, pc[t] = "reuse", error = "success"
  PROVE  left[this[t]] = 0
<1>1. this[t] \in Fragments /\ t \in Holders(this[t])
  BY ThreadHasFragment
<1>2. t \in Strand(this[t])
  BY <1>1 DEF Strand, Working
<1>3. ~Reads(this[t])
  BY <1>1, <1>2 DEF Reads, IInv, StrandInv
<1>4. QED
  BY <1>1, <1>3 DEF IInv, BytesInv, TypeOK

\* What the steps leave alone of the reads that are still to be made.
LEMMA BytesFrame ==
  ASSUME BytesInv, UNCHANGED <<bytes, nFragments, left>>,
         error' = "success" => error = "success" /\ \A f \in Fragments : Reads(f) => Reads(f)'
  PROVE  BytesInv'
<1>1. Unread' = Unread /\ ToRead' = ToRead
  BY DEF Unread, ToRead
<1>2. QED
  BY <1>1 DEF BytesInv, ProgressExact

\* _dwBytesToProcess and the reads still to be made go down together in ProcessData;
\* ReUseBlock only moves reads from those not handed out to those of a CFragment.
LEMMA BytesStep == IInv /\ [Next]_vars => BytesInv'
<1> SUFFICES ASSUME IInv, [Next]_vars PROVE BytesInv'
  OBVIOUS
<1> USE TaskAssumption DEF IInv, gateVars, refVars, workVars, hfVars, ctlVars
<1>1. ASSUME NEW t \in Threads,
             Read(t) \/ IssueRead(t) \/ ReleaseRP(t) \/ RundownCompleted(t)
             \/ FailInline(t) \/ Release(t) \/ EndIo(t) \/ Complete(t)
             \/ TaskRelease(t)
      PROVE  BytesInv'
  <2>1. /\ UNCHANGED <<bytes, nFragments, left>>
        /\ error' = "success" => /\ error = "success"
                                 /\ \A g \in Fragments : Reads(g) => Reads(g)'
    BY <1>1, FragmentsAssumption
       DEF Read, IssueRead, ReleaseRP, RundownCompleted, FailInline, Release, EndIo,
           Complete, TaskRelease, AddRef, AcquireRP, Gate!Enter, Goto, ReadRefused,
           Gate!Leave, LastOut, AfterLeave, Gate!Complete, SetError, ReleaseInline,
           Return, AfterEndIo, TypeOK, CtlInv, Threads, Reads, Strand, Holders, Dying,
           Working
  <2>2. QED
    BY <2>1, BytesFrame
<1>2. ASSUME NEW t \in Threads, ReUseBlock(t) PROVE BytesInv'
  <2>1. PICK f \in Fragments : f = this[t]
    BY <1>2, ThreadHasFragment DEF ReUseBlock
  <2>2. /\ UNCHANGED <<bytes, error>> /\ nFragments' = nFragments - 1
        /\ \A g \in Fragments : g # f /\ Reads(g) => Reads(g)'
    BY <1>2, <2>1
       DEF ReUseBlock, TakeFragment, AnyLeft, Goto, TypeOK, CtlInv, Threads, Reads,
           Strand, Holders, Dying, Working
  <2>3. CASE nFragments > 0
    <3>1. left' = [left EXCEPT ![f] = ReadsOf(nFragments - 1)] /\ Reads(f)'
      BY <1>2, <2>1, <2>3
         DEF ReUseBlock, TakeFragment, AnyLeft, Goto, TypeOK, CtlInv, Threads, Reads,
             Strand, Holders, Dying, Working
    <3>3. /\ Cardinality(Unread') = Cardinality(Unread) - ReadsOf(nFragments - 1)
          /\ Cardinality(ToRead') <= Cardinality(ToRead) + ReadsOf(nFragments - 1)
          /\ Cardinality(ToRead') \in Nat
          /\ error = "success" =>
               Cardinality(ToRead') = Cardinality(ToRead) + ReadsOf(nFragments - 1)
      BY <1>2, <2>2, <2>1, <2>3, <3>1, TakeReads, NothingLeft DEF ReUseBlock
    <3>4. /\ ReadsOf(nFragments - 1) \in Nat
          /\ Cardinality(Unread) \in Nat /\ Cardinality(ToRead) \in Nat /\ bytes \in Nat
      BY ReadsCounted, TaskAssumption DEF ReadsOf, TypeOK
    <3>5. \A g \in Fragments : left'[g] > 0 => g = f \/ left[g] > 0
      BY <3>1 DEF TypeOK
    <3>6. bytes' >= Cardinality(Unread') + Cardinality(ToRead')
      BY <2>2, <3>3, <3>4 DEF BytesInv
    <3>7. ProgressExact'
      BY <2>2, <3>3, <3>4 DEF BytesInv, ProgressExact
    <3>8. error = "success" => \A g \in Fragments : left'[g] > 0 => Reads(g)'
      BY <2>1, <2>2, <3>1, <3>5 DEF BytesInv
    <3>9. QED
      BY <2>2, <3>6, <3>7, <3>8 DEF BytesInv
  <2>4. CASE ~(nFragments > 0)
    <3>1. UNCHANGED left /\ nFragments \in Int
      BY <1>2, <2>4 DEF ReUseBlock, TakeFragment, AnyLeft, Goto, TypeOK
    <3>2. Unread' = Unread /\ ToRead' = ToRead
      BY <2>2, <2>4, <3>1 DEF Unread, ToRead
    <3>3. error = "success" => left[f] = 0
      BY <1>2, <2>1, NothingLeft DEF ReUseBlock
    <3>4. QED
      BY <2>1, <2>2, <3>1, <3>2, <3>3 DEF BytesInv, ProgressExact
  <2>5. QED
    BY <2>3, <2>4
<1>3. ASSUME NEW w \in Workers, NEW f \in Fragments,
             ReadFails(w, f) \/ ReadArrives(w, f)
      PROVE  BytesInv'
  <2>1. /\ UNCHANGED <<bytes, nFragments, left>>
        /\ error' = "success" => /\ error = "success"
                                 /\ \A g \in Fragments : Reads(g) => Reads(g)'
    BY <1>3, FragmentsAssumption
       DEF ReadFails, ReadArrives, SetError, Goto, TypeOK, CtlInv, Threads, Reads,
           Strand, Holders, Dying, Working
  <2>2. QED
    BY <2>1, BytesFrame
<1>4. ASSUME NEW w \in Workers,
             CheckRundown(w) \/ ProcessFails(w)
      PROVE  BytesInv'
  <2>1. /\ UNCHANGED <<bytes, nFragments, left>>
        /\ error' = "success" => /\ error = "success"
                                 /\ \A g \in Fragments : Reads(g) => Reads(g)'
    BY <1>4, FragmentsAssumption
       DEF CheckRundown, ProcessFails, SetError, Goto, DataError, TypeOK, CtlInv,
           Threads, Reads, Strand, Holders, Dying, Working
  <2>2. QED
    BY <2>1, BytesFrame
<1>5. ASSUME NEW w \in Workers, ProcessData(w) PROVE BytesInv'
  <2>1. PICK f \in Fragments : f = this[w] /\ w \in Holders(f)
    BY <1>5, ThreadHasFragment DEF ProcessData, Threads
  <2>2. Reads(f) /\ left[f] \in 1 .. NReads
    <3>1. Reads(f)
      BY <1>5, <2>1 DEF ProcessData, Reads, Strand, Working
    <3>2. QED
      BY <3>1, TaskAssumption DEF PartInv, TypeOK
  <2>3. /\ bytes' = bytes - 1 /\ UNCHANGED <<nFragments, error>>
        /\ \A g \in Fragments : left'[g] = IF g = f THEN left[f] - 1 ELSE left[g]
    BY <1>5, <2>1 DEF ProcessData, TypeOK
  <2>4. Unread' = Unread /\ ToRead' = ToRead \ {<<f, left[f]>>} /\ <<f, left[f]>> \in ToRead
    BY <2>2, <2>3, TaskAssumption DEF Unread, ToRead, TypeOK
  <2>5. Cardinality(ToRead') = Cardinality(ToRead) - 1
    BY <2>4, ReadsCounted, CountOneMore
  <2>6. \A g \in Fragments : left'[g] > 0 /\ Reads(g) => Reads(g)'
    BY <1>5, <2>1, <2>3
       DEF ProcessData, Goto, TypeOK, CtlInv, Threads, Reads, Strand, Holders, Dying,
           Working
  <2>7. \A g \in Fragments : left'[g] > 0 => left[g] > 0
    BY <2>2, <2>3 DEF TypeOK
  <2>8. QED
    BY <2>3, <2>4, <2>5, <2>6, <2>7, ReadsCounted DEF BytesInv, ProgressExact, TypeOK
<1>6. ASSUME NEW f \in Fragments, NewFragment(f) PROVE BytesInv'
  <2>1. UNCHANGED <<bytes, nFragments, left, error>>
    BY <1>6 DEF NewFragment
  <2>2. this[UI] = None /\ UI \in Threads
    BY <1>6 DEF NewFragment, CtlInv, Threads
  <2>3. \A g \in Fragments : Reads(g) => Reads(g)'
    BY <1>6, <2>2, FragmentsAssumption
       DEF NewFragment, Goto, TypeOK, CtlInv, Threads, Reads, Strand, Holders, Dying,
           Working
  <2>4. QED
    BY <2>1, <2>3, BytesFrame
<1>7. CASE NewFails \/ CreateBuffer \/ Rundown \/ Rundown_l \/ Done \/ WriteFails
           \/ PostDone
  <2>1. /\ UNCHANGED <<bytes, nFragments, left>>
        /\ error' = "success" => /\ error = "success"
                                 /\ \A g \in Fragments : Reads(g) => Reads(g)'
    BY <1>7, FragmentsAssumption
       DEF NewFails, CreateBuffer, Rundown, Rundown_l, Done, WriteFails, PostDone,
           Goto, Gate!Enter, Gate!Close, SetError, TypeOK, CtlInv, Threads, Reads,
           Strand, Holders, Dying, Working
  <2>2. QED
    BY <2>1, BytesFrame
<1>8. CASE UNCHANGED vars
  <2>1. /\ UNCHANGED <<bytes, nFragments, left>>
        /\ error' = "success" => /\ error = "success"
                                 /\ \A g \in Fragments : Reads(g) => Reads(g)'
    BY <1>8, FragmentsAssumption
       DEF vars, TypeOK, CtlInv, Threads, Reads, Strand, Holders, Dying, Working
  <2>2. QED
    BY <2>1, BytesFrame
<1>9. QED
  BY <1>1, <1>2, <1>3, <1>4, <1>5, <1>6, <1>7, <1>8
     DEF Next, Step, StartStep, Completion, Process

\* Without an error a CFragment goes on, and one that finds no fragment left leaves
\* none behind.
LEMMA GoingStep == IInv /\ [Next]_vars => GoingInv'
<1> SUFFICES ASSUME IInv, [Next]_vars PROVE GoingInv'
  OBVIOUS
<1> USE TaskAssumption DEF IInv, gateVars, refVars, workVars, hfVars, ctlVars
<1>1. ASSUME NEW t \in Threads,
             Read(t) \/ IssueRead(t) \/ ReleaseRP(t) \/ RundownCompleted(t)
             \/ FailInline(t) \/ Release(t) \/ EndIo(t) \/ Complete(t)
             \/ TaskRelease(t)
      PROVE  GoingInv'
  <2>1. /\ UNCHANGED <<nFragments, hashed, part, left>>
        /\ error' = "success" => /\ error = "success"
                                 /\ \A g \in Fragments : Going(g) => Going(g)'
    BY <1>1, FragmentsAssumption
       DEF Read, IssueRead, ReleaseRP, RundownCompleted, FailInline, Release, EndIo,
           Complete, TaskRelease, AddRef, AcquireRP, Gate!Enter, Goto, ReadRefused,
           Gate!Leave, LastOut, AfterLeave, Gate!Complete, SetError, ReleaseInline,
           Return, AfterEndIo, Going, TypeOK, CtlInv, Threads, Strand, Holders, Dying,
           Working
  <2>2. QED
    BY <2>1 DEF GoingInv
<1>2. ASSUME NEW t \in Threads, ReUseBlock(t) PROVE GoingInv'
  <2>1. PICK f \in Fragments : f = this[t] /\ t \in Holders(f)
    BY <1>2, ThreadHasFragment DEF ReUseBlock
  <2>2. UNCHANGED <<hashed, error>> /\ nFragments' = nFragments - 1
    BY <1>2 DEF ReUseBlock, TakeFragment
  <2>3. error = "success" => left[f] = 0
    BY <1>2, <2>1, NothingLeft DEF ReUseBlock
  <2>4. CASE nFragments > 0
    <3>1. \A g \in Fragments :
            /\ part'[g] = IF g = f THEN nFragments - 1 ELSE part[g]
            /\ left'[g] = IF g = f THEN ReadsOf(nFragments - 1) ELSE left[g]
      BY <1>2, <2>1, <2>4 DEF ReUseBlock, AnyLeft, TypeOK
    <3>2. Going(f)'
      BY <1>2, <2>1, <2>4
         DEF ReUseBlock, TakeFragment, AnyLeft, Goto, Going, TypeOK, CtlInv, Threads,
             Strand, Holders, Dying, Working
    <3>3. ReadsOf(nFragments - 1) > 0 /\ nFragments \in Int
      BY TaskAssumption DEF ReadsOf, TypeOK
    <3>4. ASSUME error = "success", NEW i \in 0 .. NFragments - 1, i >= nFragments - 1
          PROVE  i \in hashed \/ \E g \in Fragments : part'[g] = i /\ left'[g] > 0
      <4>1. CASE i = nFragments - 1
        BY <2>1, <3>1, <3>3, <4>1
      <4>2. CASE i # nFragments - 1
        <5>1. i \in hashed \/ \E g \in Fragments : part[g] = i /\ left[g] > 0
          BY <3>3, <3>4, <4>2 DEF GoingInv
        <5>2. QED
          BY <2>3, <3>1, <3>4, <5>1
      <4>3. QED
        BY <4>1, <4>2
    <3>5. QED
      BY <2>1, <2>2, <3>2, <3>4 DEF GoingInv
  <2>5. CASE ~(nFragments > 0)
    <3>1. UNCHANGED <<part, left>> /\ nFragments \in Int
      BY <1>2, <2>5 DEF ReUseBlock, AnyLeft, TypeOK
    <3>2. QED
      BY <2>2, <2>5, <3>1 DEF GoingInv
  <2>6. QED
    BY <2>4, <2>5
<1>3. ASSUME NEW w \in Workers, NEW f \in Fragments,
             ReadFails(w, f) \/ ReadArrives(w, f)
      PROVE  GoingInv'
  <2>1. /\ UNCHANGED <<nFragments, hashed, part, left>>
        /\ error' = "success" => /\ error = "success"
                                 /\ \A g \in Fragments : Going(g) => Going(g)'
    BY <1>3, FragmentsAssumption
       DEF ReadFails, ReadArrives, SetError, Goto, Going, TypeOK, CtlInv, Threads,
           Strand, Holders, Dying, Working
  <2>2. QED
    BY <2>1 DEF GoingInv
<1>4. ASSUME NEW w \in Workers,
             CheckRundown(w) \/ ProcessFails(w)
      PROVE  GoingInv'
  <2>1. /\ UNCHANGED <<nFragments, hashed, part, left>>
        /\ error' = "success" => /\ error = "success"
                                 /\ \A g \in Fragments : Going(g) => Going(g)'
    BY <1>4, FragmentsAssumption
       DEF CheckRundown, ProcessFails, SetError, Goto, DataError, Going, TypeOK,
           CtlInv, Threads, Strand, Holders, Dying, Working
  <2>2. QED
    BY <2>1 DEF GoingInv
<1>5. ASSUME NEW w \in Workers, ProcessData(w) PROVE GoingInv'
  <2>1. PICK f \in Fragments : f = this[w] /\ w \in Holders(f)
    BY <1>5, ThreadHasFragment DEF ProcessData, Threads
  <2>2. /\ UNCHANGED <<nFragments, part, error>>
        /\ \A g \in Fragments : left'[g] = IF g = f THEN left[f] - 1 ELSE left[g]
        /\ hashed' = IF left[f] > 1 THEN hashed ELSE hashed \cup {part[f]}
    BY <1>5, <2>1 DEF ProcessData, TypeOK
  <2>3. \A g \in Fragments : Going(g) => Going(g)'
    BY <1>5
       DEF ProcessData, Goto, Going, TypeOK, CtlInv, Threads, Strand, Holders, Dying,
           Working
  <2>4. \A g \in Fragments : left[g] \in Nat
    BY DEF TypeOK
  <2>5. QED
    BY <2>2, <2>3, <2>4 DEF GoingInv
<1>6. ASSUME NEW f \in Fragments, NewFragment(f) PROVE GoingInv'
  <2>1. UNCHANGED <<nFragments, hashed, left, error>> /\ f \notin Live
        /\ \A g \in Fragments : g # f => part'[g] = part[g]
    BY <1>6 DEF NewFragment
  <2>2. f \notin reading /\ Strand(f) = {}
    BY <2>1, DeadIsUnused
  <2>3. error = "success" => ~(left[f] > 0)
    BY <2>2 DEF BytesInv, Reads
  <2>4. this[UI] = None /\ UI \in Threads
    BY <1>6 DEF NewFragment, CtlInv, Threads
  <2>5. \A g \in Fragments : Going(g) => Going(g)'
    BY <1>6, <2>4, FragmentsAssumption
       DEF NewFragment, Goto, Going, TypeOK, CtlInv, Threads, Strand, Holders, Dying,
           Working
  <2>6. QED
    BY <2>1, <2>3, <2>5 DEF GoingInv
<1>7. CASE NewFails \/ CreateBuffer \/ Rundown \/ Rundown_l \/ Done \/ WriteFails
           \/ PostDone
  <2>1. /\ UNCHANGED <<nFragments, hashed, part, left>>
        /\ error' = "success" => /\ error = "success"
                                 /\ \A g \in Fragments : Going(g) => Going(g)'
    BY <1>7, FragmentsAssumption
       DEF NewFails, CreateBuffer, Rundown, Rundown_l, Done, WriteFails, PostDone,
           Goto, Gate!Enter, Gate!Close, SetError, Going, TypeOK, CtlInv, Threads,
           Strand, Holders, Dying, Working
  <2>2. QED
    BY <2>1 DEF GoingInv
<1>8. CASE UNCHANGED vars
  <2>1. /\ UNCHANGED <<nFragments, hashed, part, left>>
        /\ error' = "success" => /\ error = "success"
                                 /\ \A g \in Fragments : Going(g) => Going(g)'
    BY <1>8, FragmentsAssumption
       DEF vars, Going, TypeOK, CtlInv, Threads, Strand, Holders, Dying, Working
  <2>2. QED
    BY <2>1 DEF GoingInv
<1>9. QED
  BY <1>1, <1>2, <1>3, <1>4, <1>5, <1>6, <1>7, <1>8
     DEF Next, Step, StartStep, Completion, Process

-----------------------------------------------------------------------------
(***************************************************************************)
(* The references of the CFragments.                                       *)
(***************************************************************************)
\* Steps that leave the references of the CFragments alone.
LEMMA FragmentFrame ==
  ASSUME FragmentRefsExact, UNCHANGED <<fragRefs, reading>>,
         \A f \in Fragments : Holders(f)' = Holders(f) /\ Handing(f)' = Handing(f)
  PROVE  FragmentRefsExact'
BY DEF FragmentRefsExact

\* Steps that concern the references of one CFragment.
LEMMA OneFragment ==
  ASSUME FragmentRefsExact, NEW f \in Fragments,
         \A g \in Fragments \ {f} : /\ Holders(g)' = Holders(g) /\ Handing(g)' = Handing(g)
                                    /\ g \in reading' <=> g \in reading
                                    /\ fragRefs'[g] = fragRefs[g],
         fragRefs'[f] = Cardinality(Holders(f)') + Cardinality(Handing(f)')
                        + (IF f \in reading' THEN 1 ELSE 0)
  PROVE  FragmentRefsExact'
<1>1. \A g \in Fragments \ {f} : {g} \cap reading' = {g} \cap reading
  OBVIOUS
<1>2. QED
  BY <1>1, CountInFlight DEF FragmentRefsExact

\* The references of a CFragment nobody but its creator has seen.
LEMMA FirstReference ==
  ASSUME NEW f \in Fragments, Holders(f)' = {UI}, Handing(f)' = {}, f \notin reading'
  PROVE  Cardinality(Holders(f)') + Cardinality(Handing(f)')
         + (IF f \in reading' THEN 1 ELSE 0) = 1
<1>1. Cardinality(Holders(f)') = 1
  BY FS_Singleton
<1>2. Cardinality(Handing(f)') = 0
  BY FS_EmptySet
<1>3. QED
  BY <1>1, <1>2

\* _dwRef of a CFragment is exact: the AddRef of Read goes with the read to the device
\* and from there to the completion, or is released inline.
LEMMA FragmentStep == IInv /\ [Next]_vars => FragmentRefsExact'
<1> SUFFICES ASSUME IInv, [Next]_vars PROVE FragmentRefsExact'
  OBVIOUS
<1> USE TaskAssumption DEF IInv, gateVars, refVars, workVars, hfVars, ctlVars
<1>1. ASSUME NEW t \in Threads,
             ReUseBlock(t) \/ ReleaseRP(t) \/ RundownCompleted(t) \/ EndIo(t)
             \/ Complete(t) \/ TaskRelease(t)
      PROVE  FragmentRefsExact'
  <2>1. /\ \A f \in Fragments : Holders(f)' = Holders(f) /\ Handing(f)' = Handing(f)
        /\ UNCHANGED <<fragRefs, reading>>
    BY <1>1, FragmentsAssumption
       DEF ReUseBlock, ReleaseRP, RundownCompleted, EndIo, Complete, TaskRelease,
           TakeFragment, AnyLeft, Goto, Gate!Leave, LastOut, AfterLeave, Gate!Complete,
           AfterEndIo, Return, Holders, Handing, Dying, Threads, TypeOK, CtlInv
  <2>2. QED
    BY <2>1, FragmentFrame
<1>2. ASSUME NEW t \in Threads, Read(t) PROVE FragmentRefsExact'
  <2>1. PICK f \in Fragments : f = this[t] /\ t \in Holders(f)
    BY <1>2, ThreadHasFragment DEF Read, AddRef, AcquireRP, Gate!Enter, Goto, Threads
  <2>2. \A g \in Fragments \ {f} :
          /\ Holders(g)' = Holders(g) /\ Handing(g)' = Handing(g)
          /\ g \in reading' <=> g \in reading
          /\ fragRefs'[g] = fragRefs[g]
    BY <1>2, <2>1, FragmentsAssumption
       DEF Read, AddRef, AcquireRP, Gate!Enter, Goto, Holders, Handing, Dying, Threads,
           TypeOK, CtlInv
  <2>3. /\ Holders(f)' = Holders(f)
        /\ Handing(f)' = Handing(f) \cup {t}
    BY <1>2, <2>1, FragmentsAssumption
       DEF Read, AddRef, AcquireRP, Gate!Enter, Goto, Holders, Handing, Dying, Threads,
           TypeOK, CtlInv
  <2>4. /\ t \notin Handing(f) /\ reading' = reading
        /\ fragRefs'[f] = fragRefs[f] + 1
    BY <1>2, <2>1
       DEF Read, AddRef, AcquireRP, Gate!Enter, Goto, Holders, Handing, Dying, Threads,
           TypeOK, CtlInv
  <2>5. fragRefs'[f] = Cardinality(Holders(f)') + Cardinality(Handing(f)')
                             + (IF f \in reading' THEN 1 ELSE 0)
    BY <2>1, <2>3, <2>4, ReferencesOf, CountOneMore
  <2>6. QED
    BY <2>1, <2>2, <2>5, OneFragment
<1>3. ASSUME NEW t \in Threads, IssueRead(t) PROVE FragmentRefsExact'
  <2>1. PICK f \in Fragments : f = this[t] /\ t \in Holders(f)
    BY <1>3, ThreadHasFragment DEF IssueRead, ReadRefused, Goto, Threads
  <2>2. CASE ReadRefused(t)
    <3>1. \A g \in Fragments : Holders(g)' = Holders(g) /\ Handing(g)' = Handing(g)
      BY <1>3, <2>2
         DEF IssueRead, ReadRefused, Goto, Holders, Handing, Dying, Threads, TypeOK,
             CtlInv
    <3>2. QED
      BY <1>3, <2>2, <3>1, FragmentFrame DEF IssueRead, ReadRefused, Goto
  <2>3. CASE reading' = reading \cup {this[t]} /\ UNCHANGED refused
    <3>1. \A g \in Fragments \ {f} : Holders(g)' = Holders(g) /\ Handing(g)' = Handing(g)
      BY <1>3, <2>1, <2>3
         DEF IssueRead, ReadRefused, Goto, Holders, Handing, Dying, Threads, TypeOK,
             CtlInv
    <3>2. Holders(f)' = Holders(f) /\ Handing(f)' = Handing(f) \ {t}
      BY <1>3, <2>1, <2>3
         DEF IssueRead, ReadRefused, Goto, Holders, Handing, Dying, Threads, TypeOK,
             CtlInv
    <3>3. t \in Handing(f) /\ f \notin reading /\ UNCHANGED fragRefs
      BY <1>3, <2>1
         DEF IssueRead, ReadRefused, Goto, Holders, Handing, Dying, Threads, TypeOK,
             CtlInv, StrandInv, Strand, Working
    <3>4. fragRefs'[f] = Cardinality(Holders(f)') + Cardinality(Handing(f)')
                               + (IF f \in reading' THEN 1 ELSE 0)
      BY <2>1, <2>3, <3>2, <3>3, ReferencesOf, CountOneMore
    <3>5. \A g \in Fragments \ {f} : (g \in reading' <=> g \in reading) /\ fragRefs'[g] = fragRefs[g]
      BY <2>1, <2>3, <3>3
    <3>6. QED
      BY <2>1, <3>1, <3>4, <3>5, OneFragment
  <2>4. QED
    BY <1>3, <2>2, <2>3 DEF IssueRead
<1>4. ASSUME NEW t \in Threads, FailInline(t) PROVE FragmentRefsExact'
  <2>1. PICK f \in Fragments : f = this[t] /\ t \in Holders(f)
    BY <1>4, ThreadHasFragment DEF FailInline, SetError, ReleaseInline, Goto, Threads
  <2>2. \A g \in Fragments \ {f} :
          /\ Holders(g)' = Holders(g) /\ Handing(g)' = Handing(g)
          /\ g \in reading' <=> g \in reading
          /\ fragRefs'[g] = fragRefs[g]
    BY <1>4, <2>1, FragmentsAssumption
       DEF FailInline, SetError, ReleaseInline, Goto, Holders, Handing, Dying, Threads,
           TypeOK, CtlInv
  <2>3. /\ Holders(f)' = Holders(f)
        /\ Handing(f)' = Handing(f) \ {t}
    BY <1>4, <2>1, FragmentsAssumption
       DEF FailInline, SetError, ReleaseInline, Goto, Holders, Handing, Dying, Threads,
           TypeOK, CtlInv
  <2>4. /\ t \in Handing(f) /\ reading' = reading
        /\ fragRefs'[f] = fragRefs[f] - 1
    BY <1>4, <2>1
       DEF FailInline, SetError, ReleaseInline, Goto, Holders, Handing, Dying, Threads,
           TypeOK, CtlInv
  <2>5. fragRefs'[f] = Cardinality(Holders(f)') + Cardinality(Handing(f)')
                             + (IF f \in reading' THEN 1 ELSE 0)
    BY <2>1, <2>3, <2>4, ReferencesOf, CountOneMore
  <2>6. QED
    BY <2>1, <2>2, <2>5, OneFragment
<1>5. ASSUME NEW t \in Threads, Release(t) PROVE FragmentRefsExact'
  <2>1. PICK f \in Fragments : f = this[t] /\ t \in Holders(f)
    BY <1>5, ThreadHasFragment DEF Release, Return, Goto, Threads
  <2>2. \A g \in Fragments \ {f} :
          /\ Holders(g)' = Holders(g) /\ Handing(g)' = Handing(g)
          /\ g \in reading' <=> g \in reading
          /\ fragRefs'[g] = fragRefs[g]
    BY <1>5, <2>1, FragmentsAssumption
       DEF Release, Return, Goto, Holders, Handing, Dying, Threads, TypeOK, CtlInv
  <2>3. /\ Holders(f)' = Holders(f) \ {t}
        /\ Handing(f)' = Handing(f)
    BY <1>5, <2>1, FragmentsAssumption
       DEF Release, Return, Goto, Holders, Handing, Dying, Threads, TypeOK, CtlInv
  <2>4. /\ t \in Holders(f) /\ reading' = reading
        /\ fragRefs'[f] = fragRefs[f] - 1
    BY <1>5, <2>1
       DEF Release, Return, Goto, Holders, Handing, Dying, Threads, TypeOK, CtlInv
  <2>5. fragRefs'[f] = Cardinality(Holders(f)') + Cardinality(Handing(f)')
                             + (IF f \in reading' THEN 1 ELSE 0)
    BY <2>1, <2>3, <2>4, ReferencesOf, CountOneMore
  <2>6. QED
    BY <2>1, <2>2, <2>5, OneFragment
<1>6. ASSUME NEW w \in Workers, NEW f \in Fragments, ReadFails(w, f)
      PROVE  FragmentRefsExact'
  <2>1. w \in Threads /\ w \notin Holders(f) /\ this[w] = None
    BY <1>6, FragmentsAssumption
       DEF ReadFails, SetError, Goto, Holders, Handing, Dying, Threads, TypeOK, CtlInv
  <2>2. \A g \in Fragments \ {f} :
          /\ Holders(g)' = Holders(g) /\ Handing(g)' = Handing(g)
          /\ g \in reading' <=> g \in reading
          /\ fragRefs'[g] = fragRefs[g]
    BY <1>6, <2>1, FragmentsAssumption
       DEF ReadFails, SetError, Goto, Holders, Handing, Dying, Threads, TypeOK, CtlInv
  <2>3. Holders(f)' = Holders(f) \cup {w} /\ Handing(f)' = Handing(f)
    BY <1>6, <2>1
       DEF ReadFails, SetError, Goto, Holders, Handing, Dying, Threads, TypeOK, CtlInv
  <2>4. f \in reading /\ f \notin reading' /\ UNCHANGED fragRefs
    BY <1>6
       DEF ReadFails, SetError, Goto, Holders, Handing, Dying, Threads, TypeOK, CtlInv
  <2>5. fragRefs'[f] = Cardinality(Holders(f)') + Cardinality(Handing(f)')
                       + (IF f \in reading' THEN 1 ELSE 0)
    BY <2>1, <2>3, <2>4, ReferencesOf, CountOneMore
  <2>6. QED
    BY <2>2, <2>5, OneFragment
<1>7. ASSUME NEW w \in Workers, NEW f \in Fragments, ReadArrives(w, f)
      PROVE  FragmentRefsExact'
  <2>1. w \in Threads /\ w \notin Holders(f) /\ this[w] = None
    BY <1>7, FragmentsAssumption
       DEF ReadArrives, Goto, Holders, Handing, Dying, Threads, TypeOK, CtlInv
  <2>2. \A g \in Fragments \ {f} :
          /\ Holders(g)' = Holders(g) /\ Handing(g)' = Handing(g)
          /\ g \in reading' <=> g \in reading
          /\ fragRefs'[g] = fragRefs[g]
    BY <1>7, <2>1, FragmentsAssumption
       DEF ReadArrives, Goto, Holders, Handing, Dying, Threads, TypeOK, CtlInv
  <2>3. Holders(f)' = Holders(f) \cup {w} /\ Handing(f)' = Handing(f)
    BY <1>7, <2>1
       DEF ReadArrives, Goto, Holders, Handing, Dying, Threads, TypeOK, CtlInv
  <2>4. f \in reading /\ f \notin reading' /\ UNCHANGED fragRefs
    BY <1>7 DEF ReadArrives, Goto, Holders, Handing, Dying, Threads, TypeOK, CtlInv
  <2>5. fragRefs'[f] = Cardinality(Holders(f)') + Cardinality(Handing(f)')
                       + (IF f \in reading' THEN 1 ELSE 0)
    BY <2>1, <2>3, <2>4, ReferencesOf, CountOneMore
  <2>6. QED
    BY <2>2, <2>5, OneFragment
<1>8. ASSUME NEW w \in Workers,
             CheckRundown(w) \/ ProcessFails(w) \/ ProcessData(w)
      PROVE  FragmentRefsExact'
  <2>1. /\ \A f \in Fragments : Holders(f)' = Holders(f) /\ Handing(f)' = Handing(f)
        /\ UNCHANGED <<fragRefs, reading>>
    BY <1>8, FragmentsAssumption
       DEF CheckRundown, ProcessFails, ProcessData, SetError, Goto, DataError, Holders,
           Handing, Dying, Threads, TypeOK, CtlInv
  <2>2. QED
    BY <2>1, FragmentFrame
<1>9. ASSUME NEW f \in Fragments, NewFragment(f) PROVE FragmentRefsExact'
  <2>1. f \in Fragments \ Live
    BY <1>9 DEF NewFragment, TypeOK, CtlInv, Threads
  <2>2. f \notin reading /\ Holders(f) = {} /\ Handing(f) = {}
    BY <2>1, DeadIsUnused DEF Holders, Handing, Dying, Threads, TypeOK, CtlInv
  <2>3. UI \in Threads /\ this[UI] = None
    BY <1>9 DEF NewFragment, TypeOK, CtlInv, Threads
  <2>4. \A g \in Fragments \ {f} :
          /\ Holders(g)' = Holders(g) /\ Handing(g)' = Handing(g)
          /\ g \in reading' <=> g \in reading
          /\ fragRefs'[g] = fragRefs[g]
    BY <1>9, <2>3, FragmentsAssumption
       DEF NewFragment, StartIo, Goto, Holders, Handing, Dying, Threads, TypeOK, CtlInv
  <2>5. Holders(f)' = {UI} /\ Handing(f)' = {}
    BY <1>9, <2>2, <2>3
       DEF NewFragment, StartIo, Goto, Holders, Handing, Dying, Threads, TypeOK, CtlInv
  <2>6. fragRefs'[f] = 1 /\ f \notin reading'
    BY <1>9, <2>2
       DEF NewFragment, StartIo, Goto, Holders, Handing, Dying, Threads, TypeOK, CtlInv
  <2>7. fragRefs'[f] = Cardinality(Holders(f)') + Cardinality(Handing(f)')
                       + (IF f \in reading' THEN 1 ELSE 0)
    BY <2>5, <2>6, FirstReference
  <2>8. QED
    BY <2>4, <2>7, OneFragment
<1>10. CASE NewFails \/ CreateBuffer \/ Rundown \/ Rundown_l \/ Done \/ WriteFails
           \/ PostDone
  <2>1. /\ \A f \in Fragments : Holders(f)' = Holders(f) /\ Handing(f)' = Handing(f)
        /\ UNCHANGED <<fragRefs, reading>>
    BY <1>10, FragmentsAssumption
       DEF NewFails, CreateBuffer, Rundown, Rundown_l, Done, WriteFails, PostDone,
           Goto, Gate!Enter, Gate!Close, SetError, Holders, Handing, Dying, Threads,
           TypeOK, CtlInv
  <2>2. QED
    BY <2>1, FragmentFrame
<1>11. CASE UNCHANGED vars
  <2>1. /\ \A f \in Fragments : Holders(f)' = Holders(f) /\ Handing(f)' = Handing(f)
        /\ UNCHANGED <<fragRefs, reading>>
    BY <1>11, FragmentsAssumption
       DEF vars, Holders, Handing, Dying, Threads, TypeOK, CtlInv
  <2>2. QED
    BY <2>1, FragmentFrame
<1>12. QED
  BY <1>1, <1>2, <1>3, <1>4, <1>5, <1>6, <1>7, <1>8, <1>9, <1>10, <1>11
     DEF Next, Step, StartStep, Completion, Process

-----------------------------------------------------------------------------
(***************************************************************************)
(* _nIoCount and the references of the CTask.                              *)
(***************************************************************************)
\* Steps that leave _nIoCount alone.
LEMMA IoFrame ==
  ASSUME IoCountExact, nIoCount' = nIoCount, Live' = Live, Destroying' = Destroying,
         InStart' <=> InStart
  PROVE  IoCountExact'
BY DEF IoCountExact

\* The sets that _nIoCount counts.
LEMMA IoSetsFinite ==
  /\ IsFiniteSet(Live) /\ Cardinality(Live) \in Nat
  /\ IsFiniteSet(Destroying) /\ Cardinality(Destroying) \in Nat
<1>1. Live \in SUBSET Fragments /\ Destroying \in SUBSET Threads
  BY DEF Live, Destroying
<1>2. QED
  BY <1>1, FragmentsFinite, ThreadsFinite

\* Steps that leave the references of the task alone.
LEMMA TaskFrame ==
  ASSUME TaskRefsExact, UNCHANGED <<taskRefs, nIoCount>>, Finishing' = Finishing,
         pc'[UI] = "over" <=> pc[UI] = "over"
  PROVE  TaskRefsExact'
BY DEF TaskRefsExact

\* _nIoCount is exact: the constructor counts a CFragment, the last Release moves it to
\* those being destroyed, and EndIo, its own or Start's, counts it off.
LEMMA IoStep == IInv /\ [Next]_vars => IoCountExact'
<1> SUFFICES ASSUME IInv, [Next]_vars PROVE IoCountExact'
  OBVIOUS
<1> USE TaskAssumption DEF IInv, gateVars, refVars, workVars, hfVars, ctlVars
<1>1. ASSUME NEW t \in Threads,
             ReUseBlock(t) \/ IssueRead(t) \/ ReleaseRP(t) \/ RundownCompleted(t)
             \/ Complete(t) \/ TaskRelease(t)
      PROVE  IoCountExact'
  <2>1. Live' = Live /\ Destroying' = Destroying /\ (InStart' <=> InStart) /\ nIoCount' = nIoCount
    BY <1>1
       DEF ReUseBlock, IssueRead, ReleaseRP, RundownCompleted, Complete, TaskRelease,
           TakeFragment, AnyLeft, Goto, ReadRefused, Gate!Leave, LastOut, AfterLeave,
           Gate!Complete, AfterEndIo, Return, Live, Destroying, InStart, TypeOK, CtlInv,
           Threads
  <2>2. QED
    BY <2>1, IoFrame
<1>2. ASSUME NEW t \in Threads, Read(t) PROVE IoCountExact'
  <2>1. this[t] \in Fragments /\ fragRefs[this[t]] > 0
    BY <1>2, ThreadHasFragment
       DEF Read, AddRef, AcquireRP, Gate!Enter, Goto, Live, TypeOK, CtlInv, Threads
  <2>2. \A f \in Fragments : fragRefs'[f] > 0 <=> fragRefs[f] > 0
    BY <1>2, <2>1 DEF Read, AddRef, AcquireRP, Gate!Enter, Goto, TypeOK
  <2>3. Live' = Live
    BY <2>2 DEF Live
  <2>4. Destroying' = Destroying /\ (InStart' <=> InStart) /\ nIoCount' = nIoCount
    BY <1>2
       DEF Read, AddRef, AcquireRP, Gate!Enter, Goto, Destroying, InStart, TypeOK,
           CtlInv, Threads
  <2>5. QED
    BY <2>3, <2>4, IoFrame
<1>3. ASSUME NEW t \in Threads, FailInline(t) PROVE IoCountExact'
  <2>1. PICK f \in Fragments : f = this[t] /\ t \in Handing(f)
    BY <1>3, ThreadHasFragment DEF FailInline, Handing
  <2>2. fragRefs[f] > 1
    BY <2>1, HolderHasReference
  <2>3. \A g \in Fragments : fragRefs'[g] > 0 <=> fragRefs[g] > 0
    BY <1>3, <2>1, <2>2 DEF FailInline, SetError, ReleaseInline, Goto, TypeOK
  <2>4. Live' = Live
    BY <2>3 DEF Live
  <2>5. Destroying' = Destroying /\ (InStart' <=> InStart) /\ nIoCount' = nIoCount
    BY <1>3
       DEF FailInline, SetError, ReleaseInline, Goto, Destroying, InStart, TypeOK,
           CtlInv, Threads
  <2>6. QED
    BY <2>4, <2>5, IoFrame
<1>4. ASSUME NEW t \in Threads, Release(t) PROVE IoCountExact'
  <2>1. PICK f \in Fragments : f = this[t] /\ f \in Live
    BY <1>4, ThreadHasFragment DEF Release
  <2>2. CASE fragRefs[f] = 1
    <3>1. /\ Live' = Live \ {f} /\ nIoCount' = nIoCount
          /\ \A g \in Live : g \in Fragments
      BY <1>4, <2>1, <2>2 DEF Release, Live, TypeOK
    <3>2. Destroying' = Destroying \cup {t} /\ t \notin Destroying /\ (InStart' <=> InStart)
      BY <1>4, <2>1, <2>2, FragmentsAssumption
         DEF Release, Goto, Destroying, InStart, TypeOK, CtlInv, Threads
    <3>3. /\ Cardinality(Live') = Cardinality(Live) - 1
          /\ Cardinality(Destroying') = Cardinality(Destroying) + 1
      BY <2>1, <3>1, <3>2, IoSetsFinite, CountOneMore
    <3>4. QED
      BY <3>1, <3>2, <3>3, IoSetsFinite DEF IoCountExact
  <2>3. CASE fragRefs[f] # 1
    <3>1. Live' = Live /\ nIoCount' = nIoCount
      BY <1>4, <2>1, <2>3 DEF Release, Live, TypeOK
    <3>2. Destroying' = Destroying /\ (InStart' <=> InStart)
      BY <1>4, <2>1, <2>3, FragmentsAssumption
         DEF Release, Return, Goto, Destroying, InStart, TypeOK, CtlInv, Threads
    <3>3. QED
      BY <3>1, <3>2, IoFrame
  <2>4. QED
    BY <2>2, <2>3
<1>5. ASSUME NEW t \in Threads, EndIo(t) PROVE IoCountExact'
  <2>1. Live' = Live /\ nIoCount' = nIoCount - 1
    BY <1>5 DEF EndIo, Live
  <2>2. CASE this[t] # None
    <3>1. Destroying' = Destroying \ {t} /\ t \in Destroying /\ (InStart' <=> InStart)
      BY <1>5, <2>2
         DEF EndIo, AfterEndIo, Return, Goto, Destroying, InStart, TypeOK, CtlInv,
             Threads
    <3>2. QED
      BY <2>1, <3>1, IoSetsFinite, CountOneMore DEF IoCountExact, TypeOK
  <2>3. CASE this[t] = None
    <3>1. Destroying' = Destroying /\ InStart /\ ~InStart'
      BY <1>5, <2>3
         DEF EndIo, AfterEndIo, Goto, Destroying, InStart, TypeOK, CtlInv, Threads
    <3>2. QED
      BY <2>1, <3>1, IoSetsFinite DEF IoCountExact, TypeOK
  <2>4. QED
    BY <2>2, <2>3
<1>6. ASSUME NEW w \in Workers, NEW f \in Fragments, ReadFails(w, f)
      PROVE  IoCountExact'
  <2>1. Live' = Live /\ Destroying' = Destroying /\ (InStart' <=> InStart) /\ nIoCount' = nIoCount
    BY <1>6, FragmentsAssumption
       DEF ReadFails, SetError, Goto, Live, Destroying, InStart, TypeOK, CtlInv,
           Threads
  <2>2. QED
    BY <2>1, IoFrame
<1>7. ASSUME NEW w \in Workers, NEW f \in Fragments, ReadArrives(w, f)
      PROVE  IoCountExact'
  <2>1. Live' = Live /\ Destroying' = Destroying /\ (InStart' <=> InStart) /\ nIoCount' = nIoCount
    BY <1>7, FragmentsAssumption
       DEF ReadArrives, Goto, Live, Destroying, InStart, TypeOK, CtlInv, Threads
  <2>2. QED
    BY <2>1, IoFrame
<1>8. ASSUME NEW w \in Workers,
             CheckRundown(w) \/ ProcessFails(w) \/ ProcessData(w)
      PROVE  IoCountExact'
  <2>1. Live' = Live /\ Destroying' = Destroying /\ (InStart' <=> InStart) /\ nIoCount' = nIoCount
    BY <1>8
       DEF CheckRundown, ProcessFails, ProcessData, SetError, Goto, DataError, Live,
           Destroying, InStart, TypeOK, CtlInv, Threads
  <2>2. QED
    BY <2>1, IoFrame
<1>9. ASSUME NEW f \in Fragments, NewFragment(f) PROVE IoCountExact'
  <2>1. Live' = Live \cup {f} /\ f \notin Live /\ nIoCount' = nIoCount + 1
    BY <1>9 DEF NewFragment, StartIo, Live, TypeOK
  <2>2. Destroying' = Destroying /\ (InStart' <=> InStart)
    BY <1>9, FragmentsAssumption
       DEF NewFragment, Goto, Destroying, InStart, TypeOK, CtlInv, Threads
  <2>3. QED
    BY <2>1, <2>2, IoSetsFinite, CountOneMore DEF IoCountExact, TypeOK
<1>10. CASE NewFails \/ CreateBuffer \/ Rundown \/ Rundown_l \/ Done \/ WriteFails
           \/ PostDone
  <2>1. Live' = Live /\ Destroying' = Destroying /\ (InStart' <=> InStart) /\ nIoCount' = nIoCount
    BY <1>10
       DEF NewFails, CreateBuffer, Rundown, Rundown_l, Done, WriteFails, PostDone,
           Goto, Gate!Enter, Gate!Close, SetError, Live, Destroying, InStart, TypeOK,
           CtlInv, Threads
  <2>2. QED
    BY <2>1, IoFrame
<1>11. CASE UNCHANGED vars
  <2>1. Live' = Live /\ Destroying' = Destroying /\ (InStart' <=> InStart) /\ nIoCount' = nIoCount
    BY <1>11 DEF vars, Live, Destroying, InStart, TypeOK, CtlInv, Threads
  <2>2. QED
    BY <2>1, IoFrame
<1>12. QED
  BY <1>1, <1>2, <1>3, <1>4, <1>5, <1>6, <1>7, <1>8, <1>9, <1>10, <1>11
     DEF Next, Step, StartStep, Completion, Process

\* _dwRef of the CTask is exact: it loses the dialog's reference in WM_DONE and Start's
\* at the one thread that has ended the task.
LEMMA TaskStep == IInv /\ [Next]_vars => TaskRefsExact'
<1> SUFFICES ASSUME IInv, [Next]_vars PROVE TaskRefsExact'
  OBVIOUS
<1> USE TaskAssumption DEF IInv, gateVars, refVars, workVars, hfVars, ctlVars
<1>1. ASSUME NEW t \in Threads,
             ReUseBlock(t) \/ Read(t) \/ IssueRead(t) \/ ReleaseRP(t)
             \/ RundownCompleted(t) \/ FailInline(t) \/ Release(t) \/ Complete(t)
      PROVE  TaskRefsExact'
  <2>1. Finishing' = Finishing /\ (pc'[UI] = "over" <=> pc[UI] = "over") /\ UNCHANGED <<taskRefs, nIoCount>>
    BY <1>1
       DEF ReUseBlock, Read, IssueRead, ReleaseRP, RundownCompleted, FailInline,
           Release, Complete, TakeFragment, AnyLeft, Goto, AddRef, AcquireRP,
           Gate!Enter, ReadRefused, Gate!Leave, LastOut, AfterLeave, Gate!Complete,
           SetError, ReleaseInline, Return, Finishing, TypeOK, CtlInv, Threads
  <2>2. QED
    BY <2>1, TaskFrame
<1>2. ASSUME NEW t \in Threads, EndIo(t) PROVE TaskRefsExact'
  <2>1. /\ nIoCount \in Nat \ {0} /\ nIoCount' = nIoCount - 1 /\ taskRefs' = taskRefs
        /\ pc'[UI] = "over" <=> pc[UI] = "over"
    BY <1>2, ThreadIsCounted
       DEF EndIo, AfterEndIo, Return, Goto, Finishing, TypeOK, Threads
  <2>2. CASE nIoCount = 1
    <3>1. Finishing' = {t}
      BY <1>2, <2>2 DEF EndIo, Goto, Finishing, EndInv, TypeOK
    <3>2. QED
      BY <2>1, <2>2, <3>1, FS_Singleton DEF TaskRefsExact
  <2>3. CASE nIoCount # 1
    BY <2>1, <2>3 DEF TaskRefsExact
  <2>4. QED
    BY <2>2, <2>3
<1>3. ASSUME NEW t \in Threads, TaskRelease(t) PROVE TaskRefsExact'
  <2>1. /\ Finishing' = Finishing \ {t} /\ t \in Finishing
        /\ nIoCount' = nIoCount /\ taskRefs' = taskRefs - 1
        /\ pc'[UI] = "over" <=> pc[UI] = "over"
    BY <1>3
       DEF TaskRelease, AfterEndIo, Return, Goto, Finishing, TypeOK, CtlInv, Threads
  <2>2. nIoCount = 0
    BY <2>1, FinishingRefs
  <2>3. Finishing \in SUBSET Threads
    BY DEF Finishing
  <2>4. IsFiniteSet(Finishing) /\ Cardinality(Finishing) \in Nat
    BY <2>3, ThreadsFinite
  <2>5. Cardinality(Finishing') = Cardinality(Finishing) - 1
    BY <2>1, <2>4, CountOneMore
  <2>6. QED
    BY <2>1, <2>2, <2>4, <2>5 DEF TaskRefsExact, TypeOK
<1>4. ASSUME NEW w \in Workers, NEW f \in Fragments,
             ReadFails(w, f) \/ ReadArrives(w, f)
      PROVE  TaskRefsExact'
  <2>1. Finishing' = Finishing /\ (pc'[UI] = "over" <=> pc[UI] = "over") /\ UNCHANGED <<taskRefs, nIoCount>>
    BY <1>4
       DEF ReadFails, ReadArrives, SetError, Goto, Finishing, TypeOK, CtlInv, Threads
  <2>2. QED
    BY <2>1, TaskFrame
<1>5. ASSUME NEW w \in Workers,
             CheckRundown(w) \/ ProcessFails(w) \/ ProcessData(w)
      PROVE  TaskRefsExact'
  <2>1. Finishing' = Finishing /\ (pc'[UI] = "over" <=> pc[UI] = "over") /\ UNCHANGED <<taskRefs, nIoCount>>
    BY <1>5
       DEF CheckRundown, ProcessFails, ProcessData, SetError, Goto, DataError,
           Finishing, TypeOK, CtlInv, Threads
  <2>2. QED
    BY <2>1, TaskFrame
<1>6. ASSUME NEW f \in Fragments, NewFragment(f) PROVE TaskRefsExact'
  <2>1. /\ nIoCount > 0 /\ nIoCount' > 0 /\ taskRefs' = taskRefs
        /\ pc[UI] # "over" /\ pc'[UI] # "over"
    BY <1>6, ThreadIsCounted DEF NewFragment, StartIo, Goto, Finishing, TypeOK, Threads
  <2>2. QED
    BY <2>1 DEF TaskRefsExact
<1>7. CASE NewFails \/ CreateBuffer \/ Rundown \/ Rundown_l \/ WriteFails \/ PostDone
  <2>1. Finishing' = Finishing /\ (pc'[UI] = "over" <=> pc[UI] = "over") /\ UNCHANGED <<taskRefs, nIoCount>>
    BY <1>7
       DEF NewFails, CreateBuffer, Rundown, Rundown_l, WriteFails, PostDone, Goto,
           Gate!Enter, Gate!Close, SetError, Finishing, TypeOK, CtlInv, Threads
  <2>2. QED
    BY <2>1, TaskFrame
<1>8. CASE Done
  <2>1. /\ Finishing' = Finishing /\ nIoCount' = nIoCount /\ taskRefs' = taskRefs - 1
        /\ pc'[UI] = "over" /\ pc[UI] # "over"
    BY <1>8 DEF Done, Goto, Finishing, TypeOK, Threads
  <2>2. Finishing \in SUBSET Threads
    BY DEF Finishing
  <2>3. Cardinality(Finishing) \in Nat
    BY <2>2, ThreadsFinite
  <2>4. QED
    BY <2>1, <2>3 DEF TaskRefsExact, TypeOK
<1>9. CASE UNCHANGED vars
  <2>1. Finishing' = Finishing /\ (pc'[UI] = "over" <=> pc[UI] = "over") /\ UNCHANGED <<taskRefs, nIoCount>>
    BY <1>9 DEF vars, Finishing, TypeOK, CtlInv, Threads
  <2>2. QED
    BY <2>1, TaskFrame
<1>10. QED
  BY <1>1, <1>2, <1>3, <1>4, <1>5, <1>6, <1>7, <1>8, <1>9
     DEF Next, Step, StartStep, Completion, Process

-----------------------------------------------------------------------------
(***************************************************************************)
(* The invariant.                                                          *)
(***************************************************************************)
\* SetBytesToProcess: the reads of all fragments, of which the last one may be
\* shorter than the others.
LEMMA AllUnread ==
  ASSUME nFragments = NFragments
  PROVE  Cardinality(Unread) = (NFragments - 1) * NReads + 1
<1> DEFINE A == 0 .. NFragments - 2
           B == 1 .. NReads
<1>1. NFragments - 1 \in Nat /\ NReads \in Nat \ {0} /\ NFragments \in Nat
  BY TaskAssumption
<1>2. /\ IsFiniteSet(A) /\ Cardinality(A) = NFragments - 1
      /\ IsFiniteSet(B) /\ Cardinality(B) = NReads
  BY <1>1, FS_Interval
<1>3. IsFiniteSet(A \X B) /\ Cardinality(A \X B) = (NFragments - 1) * NReads
  <2>1. IsFiniteSet(A \X B) /\ Cardinality(A \X B) = Cardinality(A) * Cardinality(B)
    <3> HIDE DEF A, B
    <3>1. QED
      BY <1>2, FS_Product
  <2>2. QED
    BY <1>2, <2>1
<1>4. Unread = (A \X B) \cup {<<NFragments - 1, 1>>}
  BY <1>1 DEF Unread, ReadsOf
<1>5. <<NFragments - 1, 1>> \notin A \X B
  BY <1>1
<1>6. QED
  BY <1>3, <1>4, <1>5, CountOneMore

\* A task that has just been created.
LEMMA InitIInv == Init => IInv
<1> SUFFICES ASSUME Init PROVE IInv
  OBVIOUS
<1>1. TypeOK
  <2>1. InitialIoCount \in 0 .. nIO
    BY TaskAssumption, FS_CardinalityType DEF InitialIoCount
  <2>2. BytesToProcess \in Nat
    BY TaskAssumption DEF BytesToProcess
  <2>3. pc \in [Threads -> Labels] /\ this \in [Threads -> Fragments \cup {None}]
    BY DEF Init, Labels
  <2>4. open \in BOOLEAN /\ users \subseteq Threads /\ completed \in BOOLEAN
    BY DEF Init, Gate!Init
  <2>5. QED
    BY <2>1, <2>2, <2>3, <2>4, TaskAssumption DEF Init, TypeOK, OwnCount, StartRef
<1>2. UI \in Threads /\ pc[UI] = "new" /\ \A t \in Threads : this[t] = None
  BY DEF Init, Threads
<1>3. CtlInv
  BY <1>2, TaskAssumption, FS_CardinalityType
     DEF Init, CtlInv, Threads, InitialIoCount
<1>4. /\ \A f \in Fragments : Holders(f) = {} /\ Handing(f) = {} /\ Strand(f) = {}
      /\ Live = {} /\ Destroying = {} /\ Finishing = {} /\ InStart /\ reading = {}
  BY <1>2, FragmentsAssumption
     DEF Init, Holders, Handing, Strand, Live, Destroying, Finishing, InStart
<1>5. FragmentRefsExact /\ IoCountExact /\ TaskRefsExact
  BY <1>2, <1>4, FS_EmptySet
     DEF Init, FragmentRefsExact, IoCountExact, TaskRefsExact, OwnCount, StartRef
<1>6. EndInv /\ StrandInv
  BY <1>4 DEF Init, EndInv, StrandInv
<1>7. PartInv
  BY <1>4, TaskAssumption DEF Init, PartInv, Reads, HandedOutOnce, Assigned
<1>8. BytesInv
  <2>1. ToRead = {}
    BY DEF Init, ToRead
  <2>2. bytes = Cardinality(Unread) + Cardinality(ToRead)
    BY <2>1, AllUnread, FS_EmptySet, TaskAssumption DEF Init, BytesToProcess
  <2>3. bytes >= Cardinality(Unread) + Cardinality(ToRead)
    BY <1>1, <2>2 DEF TypeOK
  <2>4. \A f \in Fragments : left[f] = 0
    BY DEF Init
  <2>5. QED
    BY <2>2, <2>3, <2>4 DEF BytesInv, ProgressExact
<1>9. GoingInv
  BY TaskAssumption DEF Init, GoingInv
<1>10. QED
  BY <1>1, <1>3, <1>5, <1>6, <1>7, <1>8, <1>9 DEF IInv

\* Every step of every thread keeps it.
LEMMA StepIInv == IInv /\ [Next]_vars => IInv'
BY TypeStep, CtlStep, FragmentStep, IoStep, TaskStep, EndStep, StrandStep, PartStep,
   BytesStep, GoingStep
   DEF IInv

\* task.cpp keeps its invariant however the threads of the pool interleave.
THEOREM TaskInvariant == SafeSpec => []IInv
BY InitIInv, StepIInv, PTL DEF SafeSpec

\* Each variable of a task keeps its type: no reference count and no count of
\* bytes goes below zero.
THEOREM TaskTypes == SafeSpec => []TypeOK
<1>1. IInv => TypeOK
  BY DEF IInv
<1>2. QED
  BY TaskInvariant, <1>1, PTL

\* _dwRef of each CFragment, _nIoCount and _dwRef of the CTask are exact in every
\* interleaving of the thread that issues a read with those that complete it.
THEOREM TaskCountsExact == SafeSpec => []CountsExact
<1>1. IInv => CountsExact
  BY DEF IInv, CountsExact
<1>2. QED
  BY TaskInvariant, <1>1, PTL

\* While a thread runs a method of a CFragment the CTask exists, and until the
\* last EndIo its CHashFile does.
THEOREM TaskLivesLongEnough == SafeSpec => []TaskOutlivesUsers
<1>1. ASSUME IInv, NEW t \in Threads
      PROVE  /\ this[t] # None \/ t \in Finishing => taskRefs > 0
             /\ this[t] # None /\ t \notin Finishing => pHF = "open"
  <2>1. CASE t \in Finishing
    BY <1>1, <2>1, FinishingRefs DEF IInv
  <2>2. CASE this[t] # None /\ t \notin Finishing
    <3>1. nIoCount > 0
      BY <1>1, <2>2, ThreadIsCounted
    <3>2. pHF = "open"
      BY <1>1, <3>1 DEF IInv, EndInv
    <3>3. taskRefs > 0
      BY <1>1, <3>1 DEF IInv, TaskRefsExact
    <3>4. QED
      BY <2>2, <3>2, <3>3
  <2>3. QED
    BY <2>1, <2>2
<1>2. IInv => TaskOutlivesUsers
  BY <1>1 DEF TaskOutlivesUsers
<1>3. QED
  BY TaskInvariant, <1>2, PTL

\* The plain fields of a CFragment are used by the device or by one thread.
THEOREM TaskSingleStrand == SafeSpec => []SingleStrand
<1>1. ASSUME StrandInv, NEW f \in Fragments
      PROVE  Cardinality(Strand(f)) + Cardinality({f} \cap reading) <= 1
  <2>1. CASE Strand(f) = {}
    BY <2>1, CountInFlight, FS_EmptySet
  <2>2. CASE Strand(f) # {}
    <3>1. PICK t \in Strand(f) : Strand(f) = {t}
      BY <1>1, <2>2 DEF StrandInv
    <3>2. Cardinality(Strand(f)) = 1
      BY <3>1, FS_Singleton
    <3>3. f \notin reading
      BY <1>1, <2>2 DEF StrandInv
    <3>4. QED
      BY <3>2, <3>3, CountInFlight
  <2>3. QED
    BY <2>1, <2>2
<1>2. IInv => SingleStrand
  BY <1>1 DEF IInv, SingleStrand, Strand
<1>3. QED
  BY TaskInvariant, <1>2, PTL

\* ReUseBlock gives each fragment of the file to one CFragment, once.
THEOREM TaskHandsOutOnce == SafeSpec => []HandedOutOnce
<1>1. IInv => HandedOutOnce
  BY DEF IInv, PartInv
<1>2. QED
  BY TaskInvariant, <1>1, PTL

\* Without an error the progress bar is exact.
THEOREM TaskProgressExact == SafeSpec => []ProgressExact
<1>1. IInv => ProgressExact
  BY DEF IInv, BytesInv
<1>2. QED
  BY TaskInvariant, <1>1, PTL

\* The CHashFile ends when no CFragment is left, and without an error the last one
\* has found nothing more to read.
LEMMA AllHashed ==
  ASSUME IInv, pHF = "posted", error = "success", nFragments < NFragments
  PROVE  hashed = 0 .. NFragments - 1 /\ bytes = 0
<1>1. nIoCount = 0
  BY DEF IInv, EndInv, TypeOK
<1>2. Live = {}
  BY <1>1, UserIsCounted DEF IInv
<1>3. \A f \in Fragments : f \notin reading /\ Strand(f) = {}
  BY <1>2, DeadIsUnused DEF IInv
<1>4. \A f \in Fragments : ~Going(f) /\ ~Reads(f)
  BY <1>3 DEF Going, Reads
<1>5. \A f \in Fragments : left[f] = 0
  BY <1>4 DEF IInv, BytesInv, TypeOK
<1>6. nFragments <= 0 /\ nFragments \in Int
  BY <1>4 DEF IInv, GoingInv, TypeOK
<1>7. hashed = 0 .. NFragments - 1
  <2>1. ASSUME NEW i \in 0 .. NFragments - 1 PROVE i \in hashed
    <3>1. i >= nFragments
      BY <1>6
    <3>2. \A f \in Fragments : ~(left[f] > 0)
      BY <1>5
    <3>3. QED
      BY <3>1, <3>2 DEF IInv, GoingInv
  <2>2. hashed \subseteq 0 .. NFragments - 1
    BY DEF IInv, TypeOK
  <2>3. QED
    BY <2>1, <2>2
<1>8. Unread = {} /\ ToRead = {}
  BY <1>5, <1>6, TaskAssumption DEF Unread, ToRead
<1>9. bytes = 0
  BY <1>8, FS_EmptySet DEF IInv, BytesInv, ProgressExact
<1>10. QED
  BY <1>7, <1>9

\* When a CFragment could be made, WM_DONE with STATUS_SUCCESS means that all of
\* the file has been read and hashed.
THEOREM TaskDoneMeansHashed == SafeSpec => []DoneMeansHashed
<1>1. IInv => DoneMeansHashed
  BY AllHashed DEF DoneMeansHashed
<1>2. QED
  BY TaskInvariant, <1>1, PTL
=============================================================================

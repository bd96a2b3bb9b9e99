-------------------------------- MODULE Task --------------------------------
(***************************************************************************)
(* task.h / task.cpp: CTask and CFragment, the reading side of the         *)
(* program.                                                                *)
(*                                                                         *)
(* CTask::Start makes up to nIO fragment objects; each of them reads and   *)
(* hashes one fragment of the file after another, with at most one         *)
(* asynchronous read in flight, until no fragment is left, an error occurs *)
(* or the user cancels.  The completion of a read runs on any thread of    *)
(* the pool, often before the thread that issued it has returned from      *)
(* CFragment::Read.  Objects are reference counted, the fragments are      *)
(* counted by _nIoCount, and reads are issued under run-down protection,   *)
(* of which this module uses only what RundownGate promises                *)
(* (RundownProtection is proved to implement it).                          *)
(***************************************************************************)
EXTENDS Integers, FiniteSets

CONSTANTS UI,          \* the thread of the dialog
          Workers,     \* the threads of the pool
          Fragments,   \* addresses of CFragment objects
          nIO,         \* how many of them Start is asked to make
          NFragments,  \* the fragments the file is divided into
          NReads       \* reads of a full fragment

ASSUME TaskAssumption == /\ UI \notin Workers
                         /\ IsFiniteSet(Workers)
                         /\ IsFiniteSet(Fragments)
                         /\ nIO \in 1 .. Cardinality(Fragments)
                         /\ NFragments \in Nat \ {0}
                         /\ NReads \in Nat \ {0}

Threads == Workers \cup {UI}
None == -1

\* None is no address.
ASSUME FragmentsAssumption == None \notin Fragments

VARIABLES
  nFragments, \* _nFragments: fragments not handed out yet (negative at the end)
  nIoCount,   \* _nIoCount
  toStart,    \* CTask::Start's nIoCount: iterations left
  taskRefs,   \* _dwRef of the CTask
  fragRefs,   \* _dwRef of each CFragment
  part,       \* the fragment of the file a CFragment works on
  left,       \* the reads it still has to make of it (_Length)
  reading,    \* CFragments whose read is in flight
  bytes,      \* _dwBytesToProcess, in reads
  hashed,     \* history: fragments of the file hashed to their end
  error,      \* _errorStatus of the CHashFile
  pHF,        \* the CHashFile: "open", "closing" (Complete and Release called)
              \* or "posted" (destroyed, WM_DONE in the queue)
  open, users, completed,  \* run-down protection
  pc,         \* the step each thread is at
  this,       \* the CFragment whose method it runs
  refused     \* threads whose NtReadFile has returned an error

gateVars == <<open, users, completed>>
refVars  == <<nIoCount, taskRefs, fragRefs>>
workVars == <<nFragments, part, left, bytes, hashed>>
hfVars   == <<error, pHF>>
ctlVars  == <<toStart, pc, this, refused>>
vars == <<gateVars, refVars, workVars, hfVars, ctlVars, reading>>

Gate == INSTANCE RundownGate

\* The last fragment of the file may be shorter than the others.
ReadsOf(i) == IF i = NFragments - 1 THEN 1 ELSE NReads

\* SetBytesToProcess (the mutant: the last fragment taken for a full one).
BytesOfFullFragments == NFragments * NReads
BytesToProcess == (NFragments - 1) * NReads + 1

\* Start's clipping of nIoCount.
InitialIoCount == IF NFragments < nIO THEN NFragments ELSE nIO

\* Start counts itself in _nIoCount and takes a reference beside the dialog's
\* (the mutant: it does not).
OwnCount == 1
NoStartRef == 1
StartRef == 2

\* A task that has been created, at the start of CTask::Start: the references
\* are the dialog's and the one Start takes; _nIoCount is Start's own.
Init == /\ nFragments = NFragments
        /\ nIoCount = OwnCount
        /\ toStart = InitialIoCount
        /\ taskRefs = StartRef
        /\ fragRefs = [f \in Fragments |-> 0]
        /\ part = [f \in Fragments |-> None]
        /\ left = [f \in Fragments |-> 0]
        /\ reading = {}
        /\ bytes = BytesToProcess
        /\ hashed = {}
        /\ error = "success"
        /\ pHF = "open"
        /\ Gate!Init
        /\ pc = [t \in Threads |-> IF t = UI THEN "new" ELSE "idle"]
        /\ this = [t \in Threads |-> None]
        /\ refused = {}

\* The CFragments that exist.
Live == {f \in Fragments : fragRefs[f] > 0}

Goto(t, label) == pc' = [pc EXCEPT ![t] = label]

\* A thread is through with a CFragment: a worker returns to the pool, Start
\* goes on with its loop or with its final EndIo.
Return(t) == /\ this' = [this EXCEPT ![t] = None]
             /\ Goto(t, IF t # UI THEN "idle"
                        ELSE IF toStart > 0 THEN "new" ELSE "endio")

SetError(status) == error' = IF error = "success" THEN status ELSE error

(***************************************************************************)
(* CTask::Start and CFragment::Create, on the dialog's thread.             *)
(***************************************************************************)
\* (The mutant: a constructor that does not call it.)
NoStartIo == nIoCount' = nIoCount
StartIo == nIoCount' = nIoCount + 1

\* new CFragment(this): the constructor counts it in _nIoCount.
NewFragment(f) ==
  /\ pc[UI] = "new"
  /\ f \notin Live /\ \A t \in Threads : this[t] # f
  /\ fragRefs' = [fragRefs EXCEPT ![f] = 1]
  /\ part' = [part EXCEPT ![f] = None]
  /\ StartIo
  /\ toStart' = toStart - 1
  /\ this' = [this EXCEPT ![UI] = f]
  /\ Goto(UI, "create")
  /\ UNCHANGED <<gateVars, hfVars, nFragments, left, bytes, hashed, taskRefs,
                 refused, reading>>

\* new returns 0: the iteration is over.
NewFails ==
  /\ pc[UI] = "new"
  /\ toStart' = toStart - 1
  /\ Goto(UI, IF toStart > 1 THEN "new" ELSE "endio")
  /\ UNCHANGED <<gateVars, refVars, workVars, hfVars, this, refused, reading>>

\* CFragment::Create allocates the I/O buffer or fails; the failure is not
\* recorded anywhere.
CreateBuffer ==
  /\ pc[UI] = "create"
  /\ Goto(UI, "reuse") \/ Goto(UI, "release")
  /\ UNCHANGED <<gateVars, refVars, workVars, hfVars, toStart, this, refused, reading>>

(***************************************************************************)
(* CTask::ReUseBlock, CFragment::Start and CFragment::Read.                *)
(***************************************************************************)
\* (The mutant: the decrement of a thread may be lost when another does the
\* same, as without the interlocked prefix.)
TakeFragmentRaces(t) ==
  nFragments' \in {nFragments - 1}
                  \cup {nFragments : u \in {v \in Threads \ {t} : pc[v] = "reuse"}}
TakeFragment(t) == nFragments' = nFragments - 1

\* A fragment was left (the mutant: the one with number 0 not counted).
AnyButFirst == nFragments > 1
AnyLeft == nFragments > 0

ReUseBlock(t) ==
  /\ pc[t] = "reuse"
  /\ TakeFragment(t)
  /\ IF AnyLeft
       THEN /\ part' = [part EXCEPT ![this[t]] = nFragments - 1]
            /\ left' = [left EXCEPT ![this[t]] = ReadsOf(nFragments - 1)]
            /\ Goto(t, "read")
       ELSE Goto(t, "release") /\ UNCHANGED <<part, left>>
  /\ UNCHANGED <<gateVars, refVars, hfVars, bytes, hashed, toStart, this, refused, reading>>

\* (The mutant: Read without its AddRef.)
NoAddRef(f) == fragRefs' = fragRefs
AddRef(f) == fragRefs' = [fragRefs EXCEPT ![f] = @ + 1]

AcquireRP(t) == Gate!Enter(t)

\* AddRef, then AcquireRP; a read refused by the gate completes inline.
Read(t) ==
  /\ pc[t] = "read"
  /\ AddRef(this[t])
  /\ IF open THEN AcquireRP(t) /\ Goto(t, "issue")
             ELSE Goto(t, "fail") /\ UNCHANGED gateVars
  /\ UNCHANGED <<workVars, hfVars, nIoCount, taskRefs, toStart, this, refused, reading>>

\* A refused read completes inline and only there (the mutant: warnings, which
\* NT_ERROR leaves to the completion port, complete in both places).
ReadRefusedWarning(t) == /\ refused' = refused \cup {t}
                         /\ reading' = reading \cup {this[t]}
ReadRefused(t) == refused' = refused \cup {t} /\ UNCHANGED reading

\* NtReadFile: from now on the completion may run on any thread of the pool.
IssueRead(t) ==
  /\ pc[t] = "issue"
  /\ \/ reading' = reading \cup {this[t]} /\ UNCHANGED refused
     \/ ReadRefused(t)
  /\ Goto(t, "leave")
  /\ UNCHANGED <<gateVars, refVars, workVars, hfVars, toStart, this>>

\* What follows ReleaseRP: inline completion of a refused read, the return to
\* the dialog's message loop from Rundown, or the return from Read.
AfterLeave(t) == IF t \in refused THEN "fail"
                 ELSE IF this[t] = None THEN "pump" ELSE "release"

\* (The mutant: the last thread out not noticed.)
NeverLastOut(t) == FALSE
LastOut(t) == ~open /\ users = {t}

ReleaseRP(t) ==
  /\ pc[t] = "leave"
  /\ Gate!Leave(t)
  /\ Goto(t, IF LastOut(t) THEN "cancel" ELSE AfterLeave(t))
  /\ UNCHANGED <<refVars, workVars, hfVars, toStart, this, refused, reading>>

\* The last thread out after Rundown calls CancelIoEx.
RundownCompleted(t) ==
  /\ pc[t] = "cancel"
  /\ Gate!Complete
  /\ Goto(t, AfterLeave(t))
  /\ UNCHANGED <<refVars, workVars, hfVars, toStart, this, refused, reading>>

\* (The mutant: the reference Read took not given back.)
NoReleaseInline(f) == fragRefs' = fragRefs
ReleaseInline(f) == fragRefs' = [fragRefs EXCEPT ![f] = @ - 1]

\* IOCompletionRoutine(status, 0) called from Read: SetError, and the Release
\* that matches Read's AddRef; the caller's own Release follows.
FailInline(t) ==
  /\ pc[t] = "fail"
  /\ SetError(IF t \in refused THEN "io" ELSE "cancelled")
  /\ refused' = refused \ {t}
  /\ ReleaseInline(this[t])
  /\ Goto(t, "release")
  /\ UNCHANGED <<gateVars, workVars, nIoCount, taskRefs, pHF, toStart, this, reading>>

(***************************************************************************)
(* CFragment::IOCompletionRoutine on a thread of the pool.                 *)
(***************************************************************************)
ReadFails(w, f) ==
  /\ pc[w] = "idle" /\ f \in reading
  /\ reading' = reading \ {f}
  /\ SetError("io")
  /\ this' = [this EXCEPT ![w] = f]
  /\ Goto(w, "release")
  /\ UNCHANGED <<gateVars, refVars, workVars, pHF, toStart, refused>>

ReadArrives(w, f) ==
  /\ pc[w] = "idle" /\ f \in reading
  /\ reading' = reading \ {f}
  /\ this' = [this EXCEPT ![w] = f]
  /\ Goto(w, "arrived")
  /\ UNCHANGED <<gateVars, refVars, workVars, hfVars, toStart, refused>>

\* ProcessData looks once for each piece of data whether the rundown has begun;
\* a cancellation between that and the hashing goes unnoticed until the next.
CheckRundown(w) ==
  /\ pc[w] = "arrived"
  /\ IF open THEN Goto(w, "process") /\ UNCHANGED error
             ELSE Goto(w, "release") /\ SetError("cancelled")
  /\ UNCHANGED <<gateVars, refVars, workVars, pHF, toStart, this, refused, reading>>

\* (The mutant: the status not reported.)
DataErrorIgnored(status) == error' = error
DataError(status) == SetError(status)

\* A call that ProcessData makes fails, or a later turn of its loop finds the
\* rundown begun.
ProcessFails(w) ==
  /\ pc[w] = "process"
  /\ \/ DataError("data")
     \/ ~open /\ DataError("cancelled")
  /\ Goto(w, "release")
  /\ UNCHANGED <<gateVars, refVars, workVars, pHF, toStart, this, refused, reading>>

\* ProcessData has hashed what was read: on to the next read or fragment.
ProcessData(w) ==
  /\ pc[w] = "process"
  /\ bytes' = bytes - 1
  /\ left' = [left EXCEPT ![this[w]] = @ - 1]
  /\ IF left[this[w]] > 1
       THEN Goto(w, "read") /\ UNCHANGED hashed
       ELSE Goto(w, "reuse") /\ hashed' = hashed \cup {part[this[w]]}
  /\ UNCHANGED <<gateVars, refVars, hfVars, nFragments, part, toStart, this,
                 refused, reading>>

(***************************************************************************)
(* The end of a CFragment, of the output and of the CTask.                 *)
(***************************************************************************)
\* The last Release runs ~CFragment, which ends in EndIo.
Release(t) ==
  /\ pc[t] = "release"
  /\ fragRefs' = [fragRefs EXCEPT ![this[t]] = @ - 1]
  /\ IF fragRefs[this[t]] = 1 THEN Goto(t, "endio") /\ UNCHANGED this
                              ELSE Return(t)
  /\ UNCHANGED <<gateVars, workVars, hfVars, nIoCount, taskRefs, toStart, refused, reading>>

\* Where a thread goes after EndIo.
AfterEndIo(t) == IF this[t] = None
                   THEN Goto(t, "pump") /\ UNCHANGED this
                   ELSE Return(t)

EndIo(t) ==
  /\ pc[t] = "endio"
  /\ nIoCount' = nIoCount - 1
  /\ IF nIoCount = 1 THEN Goto(t, "complete") /\ UNCHANGED this ELSE AfterEndIo(t)
  /\ UNCHANGED <<gateVars, workVars, hfVars, taskRefs, fragRefs, toStart, refused, reading>>

\* _pHF->Complete(), _pHF->Release(): the CHashFile is destroyed, and WM_DONE
\* posted, now or after its last write.
Complete(t) ==
  /\ pc[t] = "complete"
  /\ pHF' = "closing"
  /\ Goto(t, "free")
  /\ UNCHANGED <<gateVars, refVars, workVars, error, toStart, this, refused, reading>>

\* Once a hash may have been completed, a write of the CHashFile may fail.
WriteFails ==
  /\ pHF # "posted"
  /\ bytes < BytesToProcess \/ \E w \in Workers : pc[w] = "process"
  /\ SetError("write")
  /\ UNCHANGED <<gateVars, refVars, workVars, pHF, ctlVars, reading>>

PostDone ==
  /\ pHF = "closing"
  /\ pHF' = "posted"
  /\ UNCHANGED <<gateVars, refVars, workVars, error, ctlVars, reading>>

\* _pHF = 0; Release(): the reference Start took.
TaskRelease(t) ==
  /\ pc[t] = "free"
  /\ taskRefs' = taskRefs - 1
  /\ AfterEndIo(t)
  /\ UNCHANGED <<gateVars, workVars, hfVars, nIoCount, fragRefs, toStart, refused, reading>>

(***************************************************************************)
(* The dialog: IDCANCEL calls Rundown, WM_DONE releases the task.          *)
(***************************************************************************)
Rundown ==
  /\ pc[UI] = "pump"
  /\ open
  /\ Gate!Enter(UI)
  /\ Goto(UI, "clear")
  /\ UNCHANGED <<refVars, workVars, hfVars, toStart, this, refused, reading>>

Rundown_l ==
  /\ pc[UI] = "clear"
  /\ Gate!Close(UI)
  /\ Goto(UI, "leave")
  /\ UNCHANGED <<refVars, workVars, hfVars, toStart, this, refused, reading>>

Done ==
  /\ pc[UI] = "pump"
  /\ pHF = "posted"
  /\ taskRefs' = taskRefs - 1
  /\ Goto(UI, "over")
  /\ UNCHANGED <<gateVars, workVars, hfVars, nIoCount, fragRefs, toStart, this,
                 refused, reading>>

-----------------------------------------------------------------------------
\* What a thread that runs code of the program does next.
Step(t) == \/ ReUseBlock(t) \/ Read(t) \/ IssueRead(t) \/ ReleaseRP(t)
           \/ RundownCompleted(t) \/ FailInline(t) \/ Release(t)
           \/ EndIo(t) \/ Complete(t) \/ TaskRelease(t)

StartStep == (\E f \in Fragments : NewFragment(f)) \/ NewFails \/ CreateBuffer

Completion(w) == \E f \in Fragments : ReadFails(w, f) \/ ReadArrives(w, f)

Process(w) == CheckRundown(w) \/ ProcessFails(w) \/ ProcessData(w)

Next == \/ \E t \in Threads : Step(t)
        \/ \E w \in Workers : Completion(w) \/ Process(w)
        \/ StartStep \/ Rundown \/ Rundown_l \/ Done
        \/ WriteFails \/ PostDone

\* Threads that run go on running; a read in flight and the writes complete;
\* the dialog's message loop turns.  The user need never cancel.
Fairness == /\ \A t \in Threads : WF_vars(Step(t))
            /\ \A w \in Workers : WF_vars(Process(w))
            /\ WF_vars(\E w \in Workers : Completion(w))
            /\ WF_vars(StartStep) /\ WF_vars(Rundown_l)
            /\ WF_vars(PostDone) /\ WF_vars(Done)

SafeSpec == Init /\ [][Next]_vars
Spec == SafeSpec /\ Fairness
-----------------------------------------------------------------------------
Labels == {"idle", "new", "create", "reuse", "read", "issue", "leave", "cancel",
           "fail", "arrived", "process", "release", "endio", "complete", "free",
           "pump", "clear", "over"}

TypeOK == /\ nFragments \in Int
          /\ nIoCount \in Nat
          /\ toStart \in 0 .. nIO
          /\ taskRefs \in Nat
          /\ fragRefs \in [Fragments -> Nat]
          /\ part \in [Fragments -> (0 .. NFragments - 1) \cup {None}]
          /\ left \in [Fragments -> Nat]
          /\ reading \subseteq Fragments
          /\ bytes \in Nat
          /\ hashed \subseteq 0 .. NFragments - 1
          /\ error \in {"success", "io", "data", "cancelled", "write"}
          /\ pHF \in {"open", "closing", "posted"}
          /\ open \in BOOLEAN /\ users \subseteq Threads /\ completed \in BOOLEAN
          /\ pc \in [Threads -> Labels]
          /\ this \in [Threads -> Fragments \cup {None}]
          /\ refused \subseteq Threads

\* The threads that run a method of a CFragment and hold a reference to it:
\* their own, or a second one that Read has taken and not yet handed to a
\* read in flight.
Dying == {"endio", "complete", "free"}
Holders(f) == {t \in Threads : this[t] = f /\ pc[t] \notin Dying}
Handing(f) == {t \in Holders(f) : pc[t] \in {"issue", "fail"} \/ t \in refused}
Destroying == {t \in Threads : this[t] # None /\ pc[t] = "endio"}
Finishing == {t \in Threads : pc[t] \in {"complete", "free"}}
InStart == this[UI] # None \/ pc[UI] \in {"new", "endio"}

\* _dwRef of every CFragment is exact in every interleaving of the thread that
\* issues a read with the threads its completions run on.
FragmentRefsExact ==
  \A f \in Fragments :
    fragRefs[f] = Cardinality(Holders(f)) + Cardinality(Handing(f))
                  + Cardinality({f} \cap reading)

\* _nIoCount counts Start itself, the CFragments that exist and those whose
\* destructor has not reached EndIo: it is zero once, when all are through.
IoCountExact ==
  nIoCount = Cardinality(Live) + Cardinality(Destroying) + (IF InStart THEN 1 ELSE 0)

\* _dwRef of the CTask: the dialog's reference until WM_DONE is handled, and
\* Start's, which the one thread that ends the task gives up.
TaskRefsExact ==
  taskRefs = (IF pc[UI] = "over" THEN 0 ELSE 1)
             + (IF nIoCount > 0 THEN 1 ELSE Cardinality(Finishing))

\* The three counters that decide when an object is destroyed, and when the task
\* is through, are exact in every interleaving.
CountsExact == FragmentRefsExact /\ IoCountExact /\ TaskRefsExact

\* No thread runs a method of a task that has been destroyed, not even the
\* thread that has issued a read long completed and is about to call
\* ReleaseRP; and while a fragment is being read, hashed or failed the task
\* still has its CHashFile.
TaskOutlivesUsers ==
  \A t \in Threads :
    /\ this[t] # None \/ t \in Finishing => taskRefs > 0
    /\ this[t] # None /\ t \notin Finishing => pHF = "open"

\* The plain fields of a CFragment (_Length, _ByteOffset, the I/O buffer, the
\* hash) are used by one party at a time, the device or one thread, although
\* completions move it from thread to thread without a lock.
Working == {"create", "reuse", "read", "issue", "fail", "arrived", "process"}
SingleStrand ==
  \A f \in Fragments :
    Cardinality({t \in Holders(f) : pc[t] \in Working \/ t \in refused})
      + Cardinality({f} \cap reading) <= 1

\* ReUseBlock gives each fragment of the file to one CFragment, once.
Assigned == {f \in Live : part[f] # None /\ left[f] > 0}
HandedOutOnce ==
  \A f \in Assigned :
    /\ part[f] >= nFragments
    /\ part[f] \notin hashed
    /\ \A g \in Assigned \ {f} : part[g] # part[f]

\* While there is no error the progress bar is exact: what is left is the reads of
\* the fragments not handed out yet and those the CFragments still have to make.
Unread == {r \in (0 .. nFragments - 1) \X (1 .. NReads) : r[2] <= ReadsOf(r[1])}
ToRead == {r \in Fragments \X (1 .. NReads) : r[2] <= left[r[1]]}
ProgressExact ==
  error = "success" => bytes = Cardinality(Unread) + Cardinality(ToRead)

\* When at least one CFragment could be made, WM_DONE with STATUS_SUCCESS
\* means that the whole file has been read and hashed.
DoneMeansHashed ==
  pHF = "posted" /\ error = "success" /\ nFragments < NFragments =>
    hashed = 0 .. NFragments - 1 /\ bytes = 0

\* What test.cpp asserts when it has got WM_DONE, here only for a good status.
NoBytesLeft == pHF = "posted" /\ error = "success" => bytes = 0

\* Every task that is started ends with the dialog handling its WM_DONE,
\* whatever is refused, fails or is cancelled on the way.
EventuallyDone == <>(pc[UI] = "over")

\* A cancellation always reaches CancelIoEx.
RundownCancels == pc[UI] = "clear" ~> completed
=============================================================================

# A TLA+ verification of FileHash

FileHash (Windows, C++) computes the digests of all blocks of a large file with
many asynchronous reads in flight, and writes them to a hash file. This
directory holds TLA+ models of its logic, the TLC configurations that check
them on small instances, and TLAPS proofs of their safety for every size. Paths are relative to
`src/FileHash/` unless they say otherwise. `PROJECT.json` maps every definition
to the lines it models and lists runs, mutants, findings, hazards and theorems.

## 1. Inventory

| Part | State | Operations | Interacts with |
|---|---|---|---|
| **Run-down protection** (`INC/rundownT.h`) | one 32-bit word: sign bit "no rundown yet", low bits the threads inside | `AcquireRP`, `ReleaseRP`, `Rundown`, `IsRundownBegin` | base class of `CTask`; calls `RundownCompleted` = `CancelIoEx` |
| **CTask** (`task.h/.cpp`) | geometry of the file, `_nFragments` to hand out, `_dwBytesToProcess`, `_nIoCount`, `_dwRef`, handles, `_pHF` | `Create`, `Start`, `ReUseBlock`, `StartIo`/`EndIo`, `SetError` | dialog, CFragments, CHashFile |
| **CFragment** (`task.h/.cpp`) | position and length of its fragment, bytes left in the block, hash in hand, CHashBlock in hand, I/O buffer, `_dwRef` | `Create`, `Start`, `Read`, `IOCompletionRoutine`, `ProcessData`, destructor | runs on whichever thread of the pool gets the completion |
| **CHashFile, CHashBlock** (`hash.h/.cpp`) | list of buffers, two levels of counters, first error, `_dwRef`, the file | `Create`, `GetHashBuffer`, `CompleteHash`, write completion, `Complete`, destructor | called by CFragments; posts `WM_DONE` |
| **Arithmetic** (`util.cpp/.h`) | – | `gcd`, `lcm`, `roundUp`, `roundDown` | used by the two `Create`s |
| **Queries** (`util.cpp`) | buffer, mode and handles of a call in progress | `GetSeekPenalty`, `GetSectorSizeAndAligment` | called by `OnOk` and the two `Create`s; ask the file system and the disk |
| **Dialog** (`FileHash.cpp`) | `_pTask`, timer, buttons, message queue and nested message boxes | `OnOk`, `IDCANCEL`, `WM_DONE`, `OnTimer` | owns one reference to the task |
| Allocation, start-up, headers, resources, test driver | – | – | not modelled (section 7) |

The flow: `OnOk` creates a CTask, which opens both files and makes a CHashFile;
`Start` makes up to 99 CFragments; each takes fragments of the file from
`ReUseBlock`, reads them in pieces of 64 KB and hashes them; finished hashes go
to a CHashBlock, which is written when it is full. The last CFragment to die
calls `CHashFile::Complete` and drops the task's reference to the CHashFile; the
last write drops the last one, and the destructor posts `WM_DONE`, on which the
dialog releases the CTask.

### What is hard

* **Concurrency without locks.** The completion of a read runs on another thread
  before the issuing thread has returned from `Read`; three kinds of objects die
  by reference counts; the only lock is held while a CHashBlock is looked up, and
  write completions free CHashBlocks without it.
* **Cancellation.** A read must never be issued after `CancelIoEx`.
* **Partial failure.** Every allocation, read, write and BCrypt call may fail
  alone, with the others going on; a single status has to tell at the end.
* **Boundaries.** The last block, read, part and sector; fragments that begin
  inside a sector.
* **Giving back.** The two `Create`s make nine calls that may fail, with up to three
  handles, an object and a file marked for deletion in hand.
* **Integers.** Sizes are added and rounded in unsigned 64- and 32-bit types; "one
  block as large as can be" is one of them.
* **Nested message loops.** `WM_DONE` is handled inside whatever message box is
  open and does not name its task.

### What makes each part correct

* run-down: the word is exact, the completion happens once and after the last user;
* CTask/CFragment: exact counts, nothing used after its end, each fragment of
  the file processed once, success only when everything was hashed, a task that
  is started ends;
* CHashFile: a part has one buffer that is not touched while it is written,
  exact counters, success only with every hash on disk, the file closed once;
* reading: each digest is of exactly its block; well-aligned files never fail;
* the whole run: each part does what the others take for granted of it, and "Done !"
  is shown only for a whole hash file;
* opening: no handle or file is left behind by a failure, integers do not wrap, buffers
  are aligned, the right disk is asked;
* dialog: it holds exactly the task that runs and is never left waiting.

## 2. Modules and plan

| Module | Models | Status |
|---|---|---|
| `RundownGate` | abstract: what run-down protection promises | done |
| `RundownProtection` | the word, one step per interlocked instruction; refines `RundownGate` | done, proved |
| `RundownProofs` | its inductive invariant and theorems | done |
| `HashStore` | abstract: what a CHashFile promises | done |
| `HashFile` | CHashFile and CHashBlock; refines `HashStore` | done, proved |
| `HashFileProofs` | its counts, references, places and writes; that it implements `HashStore` | done |
| `Task` | CTask and CFragment control; built on `RundownGate`'s actions | done, proved |
| `TaskProofs` | its counts, life times, and what success means | done |
| `Fragment` | geometry and byte-exact walk of reads and hashes | done, proved |
| `FragmentProofs` | the walk, for files and sizes of any number of bytes | done |
| `HashLayout` | `gcd`, `lcm` and the sizes of `CHashFile::Create` | done, proved |
| `HashLayoutProofs` | that `gcd` is right, writes whole and sizes in range, for every size | done |
| `Dialog` | dialog, message boxes, ways `CTask::Create` ends | done, proved |
| `DialogProofs` | its references, buttons and messages | done |
| `Opening` | `OnOk` up to `CTask::Start`: input, the system calls of both `Create`s and of `util.cpp`'s queries, sizes and alignments | done, proved |
| `OpeningProofs` | what is held, asked and aligned; the integers; that `OnOk` gets on | done |
| `Program` | `Task` and `HashFile` composed; refines both | done, proved |
| `ProgramProofs` | that it refines both, and what "Done !" means | done |

`MC<Module>` gives the constants of `<Module>` their values; each `.cfg` is a run.

Every safety property of a passing run is also proved; what is left to TLC is in section 6.

## 3. How state and actions correspond to the code

Program counters (`pc`) name the point a thread has reached between two
interlocked instructions, critical sections or system calls; everything between
is one action. Shared plain members get steps of their own only where another
thread can see the difference.

* **RundownProtection.** `_Value` is the word; `ReadValue`, `CasWins`,
  `CasLoses` are the plain read and the two results of the compare-exchange of
  `AcquireRP`; `Rundown_l` the bit reset, `ReleaseRP` the decrement. Threads that
  `Read` and threads that call `Rundown` differ only in `op`. Interlocked
  instructions are taken to be sequentially consistent (x86/x64 builds).
* **HashFile.** A client is a CFragment between two hashes. `GetHashBuffer`
  reads `_errorStatus` without the lock; `FindBlock`, `ReuseBlock`, `AllocBlock`
  and `AllocFails` are `GetHashBlock` under it. `CompleteHash` and `CountDown`
  are the two decrements, `WriteBlock`/`WriteRefused` the two results of
  `NtWriteFile`. `WriteCompletes`, `Unlink` and `ReleaseBlock` are the
  completion routine; in the refused case the client runs it itself
  (`UnlinkInline`, `ReleaseInline`). The destructor runs inside the action that
  drops the last reference. Three calls decide what becomes of the file: `Create` marks
  it for deletion (`hash.cpp:133`), the destructor cuts it to its size and takes it off its
  deletion (`hash.cpp:80` and `86`). The code looks at the result of none of them, so each
  may be refused; `ignored` remembers which were, and `kept` is what then becomes of the
  file. A digest is represented by the number of its block.
  `AllocFails` only leaves `GetHashBlock` without a buffer; the error is reported later, by
  `FragmentFails`, with other threads in between. `Retire` abstracts the rest of the task: a
  CFragment may leave without an error only if all hashes have been asked for, or none
  (no CFragment could be made at all), or another is still working.
* **Task.** A thread at `pc` runs a method of the CFragment `this`.
  `Read` is `AddRef` and `AcquireRP`, `IssueRead` is `NtReadFile`, and from there
  the completion (`ReadArrives`, `ReadFails`) may be taken by any idle thread of
  the pool, while the issuing thread is still at `ReleaseRP`, `cancel` and `release`.
  `ReleaseRP` and `RundownCompleted` use `Gate!Leave` and `Gate!Complete`.
  `CheckRundown` is the look at the gate at the head of `ProcessData`'s loop, apart from
  the hashing that follows it: a cancellation may come between. The CHashFile is
  three states and an error.
* **Program.** Has the variables of both modules; `error`, the one status, is shared, and
  the client's `pc` of `HashFile` is `step` here. An action is a step of one module
  with the other unchanged, or a step of both: `Fails` (the thread of the CFragment
  reports and the client gives up), `BeginHash` (`GetHashBuffer`; if it refuses
  `ProcessData` fails), `ReUseBlock` (with a fragment of the file its hashes begin),
  `Release` (a CFragment without a hash ends), `Complete`.
  A read may end a hash, begin and end several, and begin one that a later read ends:
  `Begun` and `Ended` say how many hashes of a fragment have been begun and ended after
  each of its reads, for any boundaries (`BoundariesAssumption`; blocks below 64 KB have
  several hashes to a read, others several reads to a hash); `asked` is how many a
  CFragment has asked for. `ProcessData` looks at the gate before each turn of its
  loop; that it finds the run-down begun in a later turn is one of the ways
  `T!ProcessFails` lets it fail.
  `~CFragment` calls `CompleteHash` before `EndIo` (`Busy`). What replaces the
  assumptions: `Task`'s `WriteFails` and `PostDone` are now done by the CHashFile,
  `HashFile`'s choice of hashes, its `Retire` and its guard of `Complete` by the
  CFragments; `ImplementsTask` and `ImplementsHashFile` show that nothing else
  happens. Every `new CFragment` and every buffer may fail, all of them as well; what
  `DoneMeansWholeFile` says then is in its premise, `nFragments < NFragments`: a fragment
  of the file has been taken. (`Start` makes no more CFragments than there are
  fragments, hence `Cardinality(Fragments) <= NFragments`.)
* **Opening.** A step is a system call with its result; `Refused` is any of them failing.
  `held` says for each of four handles whether a local variable or a member has it. In
  `GetSeekPenalty`, `rcb` and `cb` are the sizes asked for and allocated,
  `volumeMode` the flag, `root` the field `RootDirectory` of the OBJECT_ATTRIBUTES
  that two opens share; `granted` remembers whether the system has granted every
  call that was sound, so that the answer can be required then. What the user enters
  and the devices answer is `case`. `Deleted` is what closing the last handle does to a
  file marked for deletion. `MAXLONGLONG`, `Shifted`, `Quotient` and `BytesToProcess` are
  computed modulo `ULONGLONGs`, the number of values of the type; `BytesToProcess` is what
  `SetBytesToProcess` makes of the size of the file, and what `_shift` is applied to. A
  volume's name that does not fit is refused with `STATUS_BUFFER_OVERFLOW` or, in cases
  that are `tooSmall`, with `STATUS_BUFFER_TOO_SMALL` (or `STATUS_INFO_LENGTH_MISMATCH`),
  after which `Overflow` leaves `rcb` as it is.
* **Fragment.** `Start`, `Read`, `Arrive`, `HashData`, `FinishHash`, `EndOfData`
  and `Return` are the sections of `CFragment::Start`, `Read`, `ProcessData` and
  `IOCompletionRoutine`; a digest is the interval of file positions fed to it.
  `Refused` is what NTFS answers to reads that are not sector-aligned or begin at
  the end of the file. One fragment at a time suffices, since fragments share no
  state but the totals.
* **HashLayout.** A step is one turn of `gcd`'s loop; the recursion doubles
  `shift` on the way back. The sizes are operators of the same names as the
  variables of `CHashFile::Create`. They are computed without a width, and
  `SizesFit` says that those that are 32 bits wide in the code would not exceed it; that
  `lcm`'s product fits is an assumption (`LayoutAssumption`), which holds of all sectors up to
  2^25 bytes and digests up to 64.
* **Dialog.** An action is what the UI thread does between two message loops;
  `boxes` is the stack of message boxes and `queue` the posted `WM_DONE`s, each
  with the task it is of, which the code does not record. User input is
  retrieved after posted messages and only by the top window.

## 4. Runs

Passing runs. The type invariant is an invariant of its own or the first conjunct of
another one (`RefCountExact`, `PositionsAgree`, `GcdRight`, `RefsExact`, `OutcomesClean`); that
of `Program` is in the two modules it implements. Every property has a mutant of the
code's definitions in `PROJECT.json` that breaks it.

| Run | Instance | What it shows |
|---|---|---|
| `rundown` | 3 threads, the real sign bit | the word is exact (`ValueCountsHolders`), no use after completion, `ImplementsGate` with its liveness |
| `hashfile` | 3 CFragments, 2 CHashBlocks, 5 hashes, 2 in a CHashBlock; symmetry | `RefCountExact`, `NoUseAfterFree`, `BlockHoldsPart`, `CountersExact`, `WrittenBufferStable`, `ImplementsHashStore` |
| `task` | the UI thread and 2 of the pool, 2 CFragments, 3 fragments of 2, 2 and 1 reads | `CountsExact` (references of CFragments and of the task, `_nIoCount`), `TaskOutlivesUsers`, `SingleStrand`, `HandedOutOnce`, `ProgressExact`, `DoneMeansHashed`; `EventuallyDone`, `RundownCancels` |
| `program` | the UI thread and 2 of the pool, 2 CFragments, fragments of 2 reads with 2 hashes and of 1 read with 1, 1 CHashBlock of 4 | `DoneMeansWholeFile`, `ImplementsTask`, `ImplementsHashFile`, `EventuallyDone` |
| `opening` | 1176 systems, each with an empty file and another, 1 and 8 I/Os, cached or not; 1512 inputs and sizes with an ordinary system; 240 sizes whose fragments share sectors of 4, 5 and 6 bytes; UINT of 8 bits, ULONGLONG of 16 | `OutcomesClean`, `PenaltyIsTheDisks`, `NumbersExact`, `BuffersAligned`, `OnOkReturns` |
| `fragment` | every file up to 40 bytes, blocks up to 18, sectors of 1, 2, 4; reads of 4, fragments of 8 (about 1500 files); files up to 12 bytes with `BCryptHashData` failing | `DigestsExact`, `PositionsAgree`, `AlignedFileIsHashed`, `HashedOnce` |
| `layout` | 4 sector sizes, 6 digest sizes, 10 numbers of blocks | `GcdRight`, `GcdReturns`, `WritesMakeTheFile` (with `SizesFit`) |
| `dialog` | 3 CTasks, their addresses reused without bound | `RefsExact`, `ButtonsMatchTask`, `ClosedAtRest`, `OwnDone`, `EventuallyToldDone` |

Why the bounds are enough. *hashfile*: five hashes make three parts, the last of
them short, for two buffers, so that buffers are reused, refused and shared;
three clients hold one part each or share one. *task*: more fragments of the file than CFragments,
so that they are reused; an address is free for reuse when `Start` makes its next
CFragment; the issuing thread, the completing thread and the canceller can all
be inside a method at once. *fragment*: the sizes have every remainder with respect
to each other that the formulas distinguish; blocks smaller and larger than a
read and than a fragment, fragments that begin inside a sector. *layout*: 520 and
65 give odd, even and coprime pairs; `OneMB` is 16384 so that files have several
CHashBlocks, and a ULONG has 19 bits, so that it holds what `LayoutAssumption` asks of it and
is less than the longest file of hashes and a block. *dialog*: one task that ends, one that runs, one to come. *program*: two
hashes begun by one read, the second ended by the next, and one of a single read, completed by
two threads in any order, in one CHashBlock whose only part is the short last one, so that a
thread that waited for it would wait for all the others; it is written, refused, failed or
abandoned. What takes more hashes and CHashBlocks is in `hashfile`, what takes more fragments
in `task`; the refinements connect them, and ProgramProofs proves them and `DoneMeansWholeFile`
for any number of each. *opening*: alignments of a byte, a long, a quad and 512
bytes, and two that do not divide the sector; names that need no, one and two larger buffers,
and one that is refused as too small; sizes of the file up to the largest of the type, blocks
of 0 and of the largest shift that fits, sectors that do and do not divide a fragment.

Deadlock is not checked, because each of these systems stops when it is done;
that they get there is what the liveness properties say.

### Runs that find a violation

Each checks one statement of the repository that the code does not keep.

* `hashfile_kept` – `KeptMeansAllHashes` (`test.cpp:348` compares the kept file's
  hashes). `~CHashFile` keeps the file if `_nBlocks` is 0 (`hash.cpp:75`), but
  `~CFragment` (`task.cpp:260`) counts a hash it abandoned: after an error or a
  cancellation near the end, a file with missing digests survives, though no call that
  decides this was refused. `WM_DONE`
  does carry the error (`ImplementsHashStore` holds).
* `task_nothing_started` – `NoBytesLeft` (`test.cpp:406`). If no CFragment can be
  allocated, `Start` (`task.cpp:42`) records no error: "Done !" with nothing read.
  With at least one, `DoneMeansHashed` holds.
* `fragment_three_kb` – `NoBytesLeft` (`test.cpp:406`), at true scale: blocks of 3 KB on
  a disk with sectors of 4096 bytes, a file of 1050724 bytes. The first fragment ends
  in the sector in which the file ends; `ProcessData` returns after its last hash
  (`task.cpp:391`) without setting `_Length` to 0 for the short read, and one more read
  is issued from 1050724, which is refused: a sound file ends with an error and 1948
  bytes left. `AlignedFileIsHashed` shows that files whose fragments begin at sectors,
  and cached ones, are not affected.
* `dialog_empty_file` – `EventuallyToldDone` (`test.cpp:393` waits for `WM_DONE`). An
  empty file makes `CTask::Create` return success with nothing created
  (`task.cpp:85`); the dialog waits for ever.

Six more, seen in modelling: when `CHashFile::Create` fails, the CHashFile is not
released (`task.cpp:116`; `pHF` is then "lost" in `Opening`); when
`RtlSetIoCompletionCallback` fails after it, the `Release` posts a `WM_DONE` of success, so
that "Done !" appears inside the error box (`BindFails` in `Dialog`, which shows that it
does no other harm); the `break` after a failing `BCryptHashData` (`task.cpp:368`)
drops its status and leaves `_x` behind the position, so that the next read runs into the
assertion `task.cpp:322` (`pc` becomes "debugbreak" in `Fragment`); and `GetSeekPenalty`
uses `oni` through `poni` after the block that declares it (`util.cpp:105`): where the compiler
gives its place to another variable the disk is not found (`Overwritten` in `Opening`);
`~CHashFile` ignores a refusal of the calls that cut the file to its size and un-mark it
(`hash.cpp:80` and `86`), so that "Done !" may be shown for a file that is too long or is
deleted (`ignored` in `HashFile`; `HashStore` and `DoneMeansWholeFile` say so); and
`GetSeekPenalty` asks for a volume's name again with the same buffer after
`STATUS_BUFFER_TOO_SMALL` or `STATUS_INFO_LENGTH_MISMATCH` (`util.cpp:86`): a system that
answers so for a name longer than the first buffer makes `OnOk` loop for ever (`Overflow` in
`Opening`; file systems answer `STATUS_BUFFER_OVERFLOW`, and nothing in the repository says
otherwise, so it is the premise of `OnOkReturns` and not a run of its own).

## 5. Fairness

* `RundownProtection`: a thread inside a method goes on; `NtReadFile` is
  asynchronous and returns at once. Entering is never fair: nobody need run
  the object down.
* `Task`: weak fairness of each thread's steps (the scheduler runs
  threads that can run), of reads and writes in flight (the I/O manager
  completes every request, also a cancelled one) and of the message loop. The user
  need not cancel. In `Task` the completions are fair as a group: some idle thread
  of the pool serves the completion port.
* `HashLayout`: the loop goes on.
* `Dialog`: the message loop turns, the user closes message boxes, a started task
  ends (which is `EventuallyDone` of `Program`). The user need never press a button
  of the dialog.
* `Program`: less than `Task` assumes. As long as any thread, read or write in flight or the
  message loop can go on, something of them does; which, is left open. Each step but the
  user's brings the task nearer to its end, so that this is enough.
* `Opening`: the thread goes on, and the user answers the message box. That the same
  question with the same buffer is answered differently the second time is not assumed.

Strong fairness is nowhere needed.

## 6. What is proved

`RundownProofs`, for every number of threads and every sign-bit value `v_init`
with `v_init + Cardinality(Threads) < 0` (`RundownAssumption`; for the 32-bit word
fewer than 2^31 threads):

* `RundownTypeOK`, `RundownValueExact`, `RundownNoUseAfterComplete`,
  `RundownCompletedAtMostOnce`, `RundownNeverUndone`: the safety properties the run
  `rundown` checks, and two more: the completion happens at most once, and a rundown is
  never undone;
* `RundownImplementsGate`: `SafeSpec => Gate!SafeSpec`, each step of the word maps
  to a step of the gate or a stutter. `Task` takes the gate for granted on this.

The argument. `ValueCountsHolders` alone is not inductive: that the completion is
unique needs to know that a thread about to call it has seen the word at
`v_complete`, that nobody can be inside then, and that nobody can enter again.
`IInv` therefore adds that a comparand (`seen`) of a pending compare-exchange is
negative, that a completion is under way or done only after the sign bit has
gone and with no thread inside, that it is under way or done whenever that is
so, and that completing threads and completed calls are at most one. `HolderJoins` and `HolderLeaves` give the cardinalities for each step;
`StepIInv` has one step per action.

`HashFileProofs`, for any finite sets of CFragments and of addresses, any number of
hashes and any size of a CHashBlock (`HashFileAssumption`):

* `HashFileRefCountExact`, `HashFileNoUseAfterFree`, `HashFileBlockHoldsPart`,
  `HashFileCountersExact`, `HashFileWrittenBufferStable`;
* `HashFileImplementsHashStore`: `SafeSpec => Store!SafeSpec`. `HashStore` has the hashes
  that were given and those that are in the file, one verdict, and what becomes of the file.
  A good verdict is for all hashes, or for none at all; the file is kept exactly if all
  were given, but for the calls whose refusal is ignored.

The reference count says when the object ends, but that nobody is inside then needs to know
that the users are among those counted (`EndInv`); that a counter is 0 means that a part
is full only because each hash is with one client until it is counted (`HashInv`,
`CounterInv`). A CHashBlock stays with its part because two CHashBlocks never have the same
one and only those with nothing to complete are taken away (`PartInv`). The critical
place is a CHashBlock that is full: it is in exactly one of three places (`FullInv`: with
the client that writes it, in flight, in its completion routine), so that no other thread
changes or frees it. For the refinement three more conjuncts follow each digest: a part is on
disk only after all its hashes were counted and is never written again (`DiskInv`), without
an error somebody is on the way to every hash (`PathInv`), and each digest is in the
client's slot, in the buffer, or in the file (`PlaceInv`).

`TaskProofs`, for any finite sets of threads and of CFragments, at least as many
CFragments as `Start` makes, and any number of fragments and reads (`TaskAssumption`,
`FragmentsAssumption`): `TaskTypes`, `TaskCountsExact`, `TaskLivesLongEnough`,
`TaskSingleStrand`, `TaskHandsOutOnce`, `TaskProgressExact`, `TaskDoneMeansHashed`. The
counts (`_dwRef` of each CFragment, `_nIoCount`, `_dwRef` of the CTask) are cardinalities of
sets of holders; `CtlInv` says where a thread may be and which CFragment it runs, and each action
moves one thread or one read from one set to another. `EndInv` makes the end of the task
exclude anybody who is counted. `StrandInv` is what the code relies on instead of a lock:
the device, or at most one thread that is not just leaving `Read`, has the plain fields of a
CFragment. From it follow `PartInv` (who reads has a fragment of the file, handed out from
the last to the first, once) and the accounting of bytes: `BytesInv` bounds
`_dwBytesToProcess` from below by the reads nobody has taken plus those that are left,
which without an error is an equality. `GoingInv` excludes that all CFragments stop early: without an error each
fragment handed out is hashed or in hand, and somebody is at work until all of them are
handed out. `ProgressExact` counts `Unread` and `ToRead`, sets of pairs of a fragment and a read,
by their cardinalities, which is the sum over the CFragments without a recursion.

`FragmentProofs`, for any files, blocks, sectors, reads and fragments of at least one byte
(`FragmentAssumption`): `FragmentDigestsExact`, `FragmentPositionsAgree`,
`FragmentHashedOnce`, `FragmentAlignedFileIsHashed`. The lemmas are about multiples, rounding,
and the blocks that begin in a fragment (`First`, `At`). The invariant ties the three
positions together at each point of the loop: the end of what is to be read is the end of
the fragment's last block rounded up to a sector (`ReadInv`); what was read and is not yet
hashed ends at the next read (`DataInv`); the hash in hand covers its block up to the
position (`HashInv`); the blocks with a digest are the ones behind (`DigestInv`); the
count of bytes covers what is still to be read, though a sector in which two fragments
meet is counted twice, which `Rest` says exactly (`BytesInv`). That well-aligned files
are read to the end needs a second invariant on top, `WholeInv`, for those files alone: positions
and the count of bytes are then equal (`AlignInv`) and every block behind has its
digest (`HashedInv`).

`DialogProofs`, for any number of tasks and of nested boxes (`DialogAssumption`):
`DialogRefsExact`, `DialogButtonsMatchTask`, `DialogClosedAtRest`, `DialogOwnDone`. No box is
open while there is a task (`BoxesInv`), so no other `WM_DONE` than its own can be
queued then (`QueueInv`), which is why the message need not name its task; and there is
no button to make a task before the box of the last one is closed (`ButtonsInv`).

`OpeningProofs`, for any input, sizes and answers of the system (`OpeningAssumption`):
`OpeningOutcomesClean`, `OpeningPenaltyIsTheDisks`, `OpeningBuffersAligned`,
`OpeningNumbersExact`, `OpeningAdvances`. `HeldInv` and
`HashFileInv` say who has each handle, the object and the file at every call; `StatusInv` that
a refused call leads to the way back; `PenaltyInv` that name, mode and sizes belong together,
in particular that a root directory is never left over for the next open; `SectorInv` that
whatever is used later has passed the checks of `GetSectorSizeAndAligment`. The alignment of
the buffers is arithmetic on top of that, for the ten masks that pass.

The integers need the types (`OpeningAssumption`): what the dialog reads for blocks and I/Os are
UINTs, the unit is a shift of at most 30 bits, a UINT shifted by it is at most a quarter of what
a ULONGLONG holds, as is a megabyte, some shift of at most 33 bits brings the largest
ULONGLONG into a LONG, and sectors are of at most 1 Mb. `InputInv` ties what `OnOk` has
computed to what was entered. That sums stay in range, and quotients and roundings are exact,
follows (`SizesInRange`, `Numbers`) for every file up to the largest LONGLONG. What
`SetBytesToProcess` adds to it is at most a sector for each fragment but the first
(`SharedSectors`, by the cardinality of `Straddling`), which is less than half a ULONGLONG, so
that the sum fits, and its shift is a LONG (`Counted`). `OpeningAdvances` is what a proof of
`OnOkReturns` would rest on: the measure `Left`, the calls still to come at most, is never
below 0 and is less after every step but one, the repeated question after "too small"
(`AsksAgain`). It is 27 at first; `GetSeekPenalty` otherwise asks for a name at most twice in
each of its two modes, because a buffer of the size it was told suffices (`Unmet`, `Asked`).

`HashLayoutProofs`, for sectors, digests and numbers of blocks of any size (`LayoutAssumption`):
`LayoutGcdRight`, `LayoutGcdShrinks`, `LayoutWritesMakeTheFile`, `LayoutSizesFit`. `GcdInv`:
the greatest common divisor of `m` and `n`, doubled `shift` times, is that of the sizes. A turn of `BothOdd` or `OneOdd` keeps it because an odd number has only odd divisors;
`BothEven` moves a factor of 2 from the pair to `shift`. `ShiftInv` bounds `shift`, because `m` times
2 to its power is not more than the sector, which fits in a ULONG; the provers know powers of 2 only of
constants, so that what is needed of them is established for each exponent up to 32. Then
`lcm` is a multiple of both sizes, so that a full CHashBlock is whole sectors and whole digests, and
the last one, rounded up to sectors, is not longer than a full one.

`ProgramProofs`, for any finite sets of threads, CFragments (not empty, and no more than
fragments) and addresses, any numbers of fragments, hashes and reads (`ProgramAssumption`), and
any boundaries of hashes and reads, as long as at most one hash is unfinished between two reads
and none after the last of a fragment (`BoundariesAssumption`): `ProgramImplementsTask`, `ProgramImplementsHashFile`,
`ProgramDoneMeansWholeFile`. The invariants and lemmas of `TaskProofs` and `HashFileProofs`
are used through INSTANCE with the substitutions of `Program` (`SameTask`, `SameHashFile`): a
step of the program is shown to be one of `Task` (`StepIsTask`) and one of `HashFile`
(`StepIsHashFile`), so both invariants are kept, and with `PInv` of the program they are what
the next step is judged by. `PInv` adds what ties the two sides together:
`LiveInv` (without an error a living CFragment is a client of the CHashFile, and has a hash in
hand only while it has something to read), `RequestInv` (of a fragment in hand exactly the hashes before `HashNo` have been asked for, of a
hashed one all, of one not handed out none), `WriteInv` (nothing is written before something was hashed), `PostInv` (the status
in `WM_DONE` is the final one and what it says of the file is true) and `TurnInv`, four
facts about `Task` alone. The place where all meet is the last CFragment that leaves
without an error (`MayRetire`): by `Task`'s `GoingInv` nothing is left to hand out or read, by
`RequestInv` all hashes have been asked for, or nothing was ever handed out and none has, which
is `HashFile`'s guard of `Retire`. It follows
that `WriteFails`, `PostDone`, `Retire` and `Complete`, in which each module describes the
other, describe it truly, so that the theorems about `Task` and `HashFile` hold of the program.

Only model-checked:

* all liveness (`EventuallyDone`, `RundownCancels`, `GcdReturns`, `OnOkReturns`,
  `EventuallyToldDone`, the fair part of `ImplementsGate`): fairness and ENABLED are out of the
  prover's reach. For `GcdReturns` and `OnOkReturns` the decreasing measure is proved
  (`LayoutGcdShrinks`, `OpeningAdvances`), so that only the last step, that a fair system takes
  a step as long as it can, is left to TLC.

## 7. Not modelled, and why

* Preallocation (`hash.cpp:180`): two calls whose results the code ignores and nothing
  depends on. (The results of three other calls are ignored as well, but the fate of the file
  depends on them; those are modelled, see `ignored` in section 3.) The conversion of file names to NT names fails as part of the open.
* The text of the progress line, icons, filling the combo boxes: wording and
  layout. The byte count shown is `bytes` of `Task` and `Fragment`, its scale `_shift` of
  `Opening`.
* The width of `nBlocks * cbHash`, the length of the hash file `CHashFile::Create` computes in 64
  bits: with blocks of at least 1 KB and digests of at most 64 bytes it is at most a sixteenth
  of the file's size and one digest.
* Memory order weaker than sequential consistency, and the contents of digests.
* `pch.cpp` and the headers under `INC/` other than `rundownT.h` (declarations of the native
  API, macros, start-up of the C run time, none of which keeps state of the program),
  resources and build files; `operator new`
  returning 0 is an outcome wherever the code allocates.
* `test.cpp`: its assertions are properties.

------------------------------ MODULE Opening ------------------------------
(***************************************************************************)
(* What DlgData::OnOk does up to CTask::Start: the input it takes, the     *)
(* system calls of CTask::Create, CHashFile::Create, the two queries of    *)
(* util.cpp and the question about the seek penalty, any of which may      *)
(* fail.  A handle is held by a local variable of the function that has    *)
(* opened it or by a member of an object.                                  *)
(***************************************************************************)
EXTENDS Integers, FiniteSets

CONSTANTS Cases,       \* what the user has entered and the system will answer
          FirstSize,   \* 0x40
          VolumeHeader, ObjectHeader, FileHeader,  \* bytes before the names
          _64kb, _1Mb, MAXLONG,
          UINTs, ULONGLONGs  \* how many values the types have

\* The widths of the types, besides: a field holds a UINT, the units shift it by 10,
\* 20 or 30 into a ULONGLONG (2^32 * 2^30 = 2^64 / 4), a size of a file is a
\* LONGLONG, and 33 shifts bring a ULONGLONG into a LONG.  A sector is no larger than
\* 1 Mb, so that one for each 1 Mb of the file is no more than a LONGLONG either.
ASSUME OpeningAssumption ==
  /\ \A c \in Cases :
       /\ {c.complete, c.cached, c.volumes, c.tooSmall, c.penalty} \subseteq BOOLEAN
       /\ {c.eof, c.blocks, c.nIO, c.fileAlign, c.hashAlign} \subseteq Nat
       /\ {c.fileSector, c.hashSector, c.volume, c.file} \subseteq Nat \ {0}
       /\ c.eof < ULONGLONGs \div 2
       /\ c.cached \/ (c.eof \div _1Mb) * c.fileSector <= ULONGLONGs \div 2
       /\ c.blocks < UINTs /\ c.nIO < UINTs
       /\ c.unit \in 0 .. 30 /\ UINTs * 2^c.unit <= ULONGLONGs \div 4
  /\ {FirstSize, VolumeHeader, ObjectHeader, FileHeader} \subseteq Nat
  /\ FileHeader <= ObjectHeader
  /\ {_64kb, _1Mb, MAXLONG, UINTs, ULONGLONGs} \subseteq Nat \ {0}
  /\ 100 <= UINTs /\ 4 * _1Mb <= ULONGLONGs
  /\ \E s \in 0 .. 33 : (ULONGLONGs - 1) \div 2^s <= MAXLONG

VARIABLES
  case,     \* the element of Cases at hand
  nIO,      \* how many CFragments are asked for
  held,     \* who holds each handle: "none", "local" or "member"
  pHF,      \* the CHashFile: "none", "local", "member" or "lost"
  onDisk,   \* the hash file: "none", "new", "marked" (to be deleted when it is
            \* closed) or "unmarkable"
  posted,   \* ~CHashFile has posted a WM_DONE
  status,   \* what CTask::Create is going to return
  cb, rcb, volumeMode, name,  \* GetSeekPenalty: buffer, size asked for, mode, name
  root,     \* oa.RootDirectory
  answer, SeekPenalty,        \* its result and what it has stored
  granted,  \* history: no sound call of GetSeekPenalty has been refused
  pc

input == <<case, nIO>>
objects == <<held, pHF, onDisk, posted>>
query == <<cb, rcb, volumeMode, name, root, answer, SeekPenalty, granted>>
vars == <<input, objects, status, query, pc>>

Init == /\ case \in Cases
        /\ nIO = case.nIO
        /\ held = [h \in {"file", "alg", "hash", "device"} |-> "none"]
        /\ pHF = "none" /\ onDisk = "none" /\ posted = FALSE
        /\ status = "success"
        /\ cb = 0 /\ rcb = FirstSize /\ volumeMode = TRUE /\ name = 0
        /\ root = "none" /\ answer = "none" /\ SeekPenalty \in BOOLEAN
        /\ granted = TRUE
        /\ pc = "input"

Step(from, to) == pc = from /\ pc' = to /\ UNCHANGED input
Hold(h, by) == held' = [held EXCEPT ![h] = by]

\* A call of one of the Create functions is refused, and what has been opened
\* before it is closed from `to' on.
Refused(from, to) == /\ Step(from, to)
                     /\ status' = "failed"
                     /\ UNCHANGED <<objects, query>>

(***************************************************************************)
(* The input of OnOk, in the integer types of the code.                    *)
(***************************************************************************)
\* No field is empty, no number or not chosen, and nIO - 1 <= 98 in UINT.
InputAccepted == case.complete /\ (case.nIO + UINTs - 1) % UINTs <= 98

\* (For want of memory for a CTask OnOk returns as it does for a bad input.)
ReadInput == /\ \/ InputAccepted /\ Step("input", "open")
                \/ Step("input", "over")
             /\ UNCHANGED <<objects, status, query>>

roundUp(k, m) == ((k + m - 1) \div m) * m

\* 0 stands for one block as large as can be (the mutant: too large to add to).
MAXULONGLONG == ULONGLONGs - 1
MAXLONGLONG == (ULONGLONGs \div 2) - 1
Shifted == (case.blocks * 2^case.unit) % ULONGLONGs
cbBlock == IF Shifted = 0 THEN MAXLONGLONG ELSE Shifted
cbFragment == IF cbBlock < _1Mb THEN roundUp(_1Mb, cbBlock) ELSE cbBlock
Quotient(size) == ((case.eof + size - 1) % ULONGLONGs) \div size

\* _shift: the least that brings a count of bytes into a LONG.
_shift(bytes) == CHOOSE s \in 0 .. 63 :
                   /\ bytes \div 2^s <= MAXLONG
                   /\ \A r \in 0 .. s - 1 : bytes \div 2^r > MAXLONG

(***************************************************************************)
(* GetSectorSizeAndAligment, and what the two Create functions derive.     *)
(***************************************************************************)
IsMask(a) == \E k \in 0 .. 9 : a = 2^k - 1
Valid(alignment, sector) == IsMask(alignment) /\ sector % (alignment + 1) = 0

\* A buffer from the heap is aligned to a pointer anyway, and _hashes, behind
\* the other members of a CHashBlock, to a ULONG (the mutant: taken to be
\* aligned to a pointer too).
SizeOfPointer == 8
SizeOfLong == 4
NaturalAlignment == SizeOfLong

FileAlignment == IF case.cached \/ case.fileAlign < SizeOfPointer THEN 0 ELSE case.fileAlign
HashAlignment == IF case.hashAlign < NaturalAlignment THEN 0 ELSE case.hashAlign
SectorSize == IF case.cached THEN 1 ELSE case.fileSector
cbIo == IF SectorSize < _64kb THEN roundUp(_64kb, SectorSize) ELSE SectorSize

\* SetBytesToProcess: a sector that two fragments share is read with both of them.
Straddling == {i \in 0 .. Quotient(cbFragment) - 1 :
                 ((i * cbFragment) % ULONGLONGs) % SectorSize # 0}
BytesToProcess == IF cbFragment % SectorSize = 0 THEN case.eof
                  ELSE (case.eof + SectorSize * Cardinality(Straddling)) % ULONGLONGs

\* GetIoBuffer and GetHashBuffer: (p + a) & ~a.
Align(p, a) == (p + a) - ((p + a) % (a + 1))

(***************************************************************************)
(* CTask::Create and, from "hfopen" to "hfclose", CHashFile::Create.       *)
(***************************************************************************)
OpenFile == Step("open", "sector") /\ Hold("file", "local")
            /\ UNCHANGED <<pHF, onDisk, posted, status, query>>

\* An empty file is closed again, with a good status.
QuerySector == /\ Step("sector", IF case.eof = 0 THEN "closefile" ELSE "alg")
               /\ Valid(case.fileAlign, case.fileSector)
               /\ UNCHANGED <<objects, status, query>>

OpenAlgorithm == Step("alg", "hashlen") /\ Hold("alg", "local")
                 /\ UNCHANGED <<pHF, onDisk, posted, status, query>>

GetHashLength == Step("hashlen", "new") /\ UNCHANGED <<objects, status, query>>

NewHashFile == Step("new", "hfopen") /\ pHF' = "local"
               /\ UNCHANGED <<held, onDisk, posted, status, query>>

CreateHashFile == Step("hfopen", "hfmark") /\ Hold("hash", "local") /\ onDisk' = "new"
                  /\ UNCHANGED <<pHF, posted, status, query>>

\* FileDispositionInformation; its failure is ignored.
MarkHashFile == Step("hfmark", "hfsector") /\ onDisk' \in {"marked", "unmarkable"}
                /\ UNCHANGED <<held, pHF, posted, status, query>>

QueryHashSector == Step("hfsector", "hfbind") /\ Valid(case.hashAlign, case.hashSector)
                   /\ UNCHANGED <<objects, status, query>>

BindHashFile == Step("hfbind", "bind") /\ Hold("hash", "member")
                /\ UNCHANGED <<pHF, onDisk, posted, status, query>>

Deleted == IF onDisk = "marked" THEN "none" ELSE onDisk

CloseHashFile == Step("hfclose", "closealg") /\ Hold("hash", "none") /\ onDisk' = Deleted
                 /\ UNCHANGED <<pHF, posted, status, query>>

BindFile == /\ Step("bind", "return")
            /\ held' = [held EXCEPT !["file"] = "member", !["alg"] = "member"]
            /\ pHF' = "member"
            /\ UNCHANGED <<onDisk, posted, status, query>>

\* pHF->Release(): the destructor closes the file and posts WM_DONE.
ReleaseHashFile == /\ Step("hfrelease", "closealg")
                   /\ Hold("hash", "none")
                   /\ pHF' = "none"
                   /\ posted' = TRUE
                   /\ onDisk' = Deleted
                   /\ UNCHANGED <<status, query>>

\* (The mutant: the file forgotten when the algorithm is closed.)
StraightBack == "return"
AfterCloseAlgorithm == "closefile"

\* When CHashFile::Create has failed nobody holds the CHashFile any more.
CloseAlgorithm == /\ Step("closealg", AfterCloseAlgorithm)
                  /\ Hold("alg", "none")
                  /\ pHF' = IF pHF = "local" THEN "lost" ELSE pHF
                  /\ UNCHANGED <<onDisk, posted, status, query>>

CloseFile == Step("closefile", "return") /\ Hold("file", "none")
             /\ UNCHANGED <<pHF, onDisk, posted, status, query>>

CreateRefused ==
  \/ Refused("open", "return") \/ Refused("sector", "closefile")
  \/ Refused("alg", "closefile") \/ Refused("hashlen", "closealg")
  \/ Refused("new", "closealg") \/ Refused("hfopen", "closealg")
  \/ Refused("hfsector", "hfclose") \/ Refused("hfbind", "hfclose")
  \/ Refused("bind", "hfrelease")

\* Back in OnOk: ~CTask closes what the members hold, or the task goes on.
Created == /\ Step("return", IF status = "failed" THEN "over"
                             ELSE IF 1 < nIO THEN "query" ELSE "start")
           /\ held' = [h \in DOMAIN held |-> IF status = "failed" /\ held[h] = "member"
                                               THEN "none" ELSE held[h]]
           /\ UNCHANGED <<pHF, onDisk, posted, status, query>>

(***************************************************************************)
(* GetSeekPenalty.                                                         *)
(***************************************************************************)
NameFits(size) == case.volume + VolumeHeader <= size

\* The size to come back with (the mutant: the header not counted).
NameSizeOnly == case.volume
NameSize == case.volume + VolumeHeader
ObjectSize == case.volume + case.file + ObjectHeader

Grown == IF cb < rcb THEN rcb ELSE cb
Answered == held["file"] = "member"
VolumeNamed == Answered /\ case.volumes
Asking(to) == Step("query", to) /\ UNCHANGED <<objects, status, root, answer, SeekPenalty>>

\* A call fails, or is refused by a system that could grant it: the end.
GiveUp(from, grantable) ==
  /\ Step(from, "known")
  /\ granted' = (granted /\ ~grantable)
  /\ answer' = "failed"
  /\ UNCHANGED <<cb, rcb, volumeMode, name, root, SeekPenalty, objects, status>>

\* The volume's name is used through a pointer to a variable out of scope, whose
\* place may have been given to another.
Overwritten == 0

\* One turn of __loop: the name is too long for the buffer.  A volume's is asked for
\* again with a buffer of the size it needs after STATUS_BUFFER_OVERFLOW, but with the
\* same one after STATUS_BUFFER_TOO_SMALL or STATUS_INFO_LENGTH_MISMATCH; NtQueryObject
\* returns the size with any of them ...
Overflow ==
  /\ Answered
  /\ Asking("query")
  /\ cb' = Grown
  /\ IF volumeMode
       THEN /\ VolumeNamed /\ ~NameFits(Grown)
            /\ rcb' = IF case.tooSmall THEN rcb ELSE NameSize
       ELSE ObjectSize > Grown /\ rcb' = ObjectSize
  /\ UNCHANGED <<volumeMode, name, granted>>

\* ... or fits ...
GotName ==
  /\ Answered
  /\ cb' = Grown
  /\ IF volumeMode
       THEN /\ Asking("device")
            /\ VolumeNamed /\ NameFits(Grown)
            /\ name' \in {case.volume, Overwritten}
            /\ UNCHANGED rcb
       ELSE /\ Asking("filename")
            /\ ObjectSize <= Grown
            /\ rcb' = ObjectSize /\ name' = case.volume + case.file
  /\ UNCHANGED <<volumeMode, granted>>

\* ... or the question is answered with an error: the other way to ask is left.
OtherMode ==
  /\ Asking("query")
  /\ volumeMode
  /\ volumeMode' = FALSE
  /\ cb' = Grown
  /\ UNCHANGED <<rcb, name, granted>>

FileNameFits == case.file + FileHeader <= rcb /\ case.file < name

\* The name of the file itself is cut off.
CutFileName ==
  /\ Step("filename", "device")
  /\ FileNameFits
  /\ name' = name - case.file
  /\ UNCHANGED <<objects, status, cb, rcb, volumeMode, root, answer, SeekPenalty, granted>>

OpenDevice ==
  /\ Step("device", "number")
  /\ name = case.volume
  /\ Hold("device", "local")
  /\ root' = "device"
  /\ UNCHANGED <<pHF, onDisk, posted, status, cb, rcb, volumeMode, name, answer,
                 SeekPenalty, granted>>

\* NtClose, and oa.RootDirectory = 0 (the mutant: not reset).
RootKept == root
RootReset == "none"

\* IOCTL_STORAGE_GET_DEVICE_NUMBER: the volume is closed in any case.
AskNumber ==
  /\ \/ Step("number", "disk") /\ UNCHANGED <<answer, granted>>
     \/ Step("number", "known") /\ answer' = "failed" /\ granted' = FALSE
  /\ Hold("device", "none")
  /\ root' = RootReset
  /\ UNCHANGED <<pHF, onDisk, posted, status, cb, rcb, volumeMode, name, SeekPenalty>>

\* The name of the disk is not relative to a directory.
OpenDisk ==
  /\ Step("disk", "property")
  /\ root = "none"
  /\ Hold("device", "local")
  /\ UNCHANGED <<pHF, onDisk, posted, status, query>>

\* IOCTL_STORAGE_QUERY_PROPERTY: what it leaves is stored, answered or not.
AskPenalty ==
  /\ Step("property", "known")
  /\ Hold("device", "none")
  /\ \/ answer' = "success" /\ SeekPenalty' = case.penalty /\ UNCHANGED granted
     \/ answer' = "failed" /\ SeekPenalty' \in BOOLEAN /\ granted' = FALSE
  /\ UNCHANGED <<pHF, onDisk, posted, status, cb, rcb, volumeMode, name, root>>

QueryRefused == \/ ~volumeMode /\ GiveUp("query", TRUE)
                \/ GiveUp("filename", FileNameFits)
                \/ GiveUp("device", name = case.volume)
                \/ GiveUp("disk", root = "none")

\* OnOk looks at what is stored only if it has been answered.
IsPenalty == answer = "success" /\ SeekPenalty

SeekPenaltyKnown == /\ Step("known", IF IsPenalty THEN "box" ELSE "start")
                    /\ UNCHANGED <<objects, status, query>>

\* "use single I/O ?"
BoxAnswered == /\ pc = "box" /\ pc' = "start"
               /\ nIO' \in {nIO, 1}
               /\ UNCHANGED <<case, objects, status, query>>

-----------------------------------------------------------------------------
CreateStep ==
  \/ OpenFile \/ QuerySector \/ OpenAlgorithm \/ GetHashLength \/ NewHashFile
  \/ CreateHashFile \/ MarkHashFile \/ QueryHashSector \/ BindHashFile \/ CloseHashFile
  \/ BindFile \/ ReleaseHashFile \/ CloseAlgorithm \/ CloseFile \/ CreateRefused

QueryStep == \/ Overflow \/ GotName \/ (~VolumeNamed /\ OtherMode) \/ CutFileName
             \/ OpenDevice \/ AskNumber \/ OpenDisk \/ AskPenalty \/ QueryRefused

GoOn == ReadInput \/ CreateStep \/ Created \/ QueryStep \/ SeekPenaltyKnown \/ BoxAnswered

Next == GoOn \/ OtherMode

SafeSpec == Init /\ [][Next]_vars
\* The thread goes on, and the user reads the message box.  (Nothing obliges the
\* system to refuse a name that it can tell.)
Spec == SafeSpec /\ WF_vars(GoOn)
-----------------------------------------------------------------------------
TypeOK == /\ held \in [{"file", "alg", "hash", "device"} -> {"none", "local", "member"}]
          /\ pHF \in {"none", "local", "member", "lost"}
          /\ onDisk \in {"none", "new", "marked", "unmarkable"}
          /\ {cb, rcb, name} \subseteq Nat
          /\ {posted, volumeMode, granted} \subseteq BOOLEAN
          /\ nIO \in Nat /\ SeekPenalty \in BOOLEAN
          /\ answer \in {"none", "success", "failed"}

Holds(h) == {x \in DOMAIN held : held[x] = h}

\* Whichever call fails, OnOk ends with one of the outcomes Dialog knows: a task
\* that has its two files, its algorithm and its CHashFile, or (the file is
\* empty) none of them; or no task, no open handle and no hash file (unless it
\* could not be marked), and then a WM_DONE only if it was the last call that failed.
OutcomesClean ==
  /\ TypeOK
  /\ pc = "start" => /\ Holds("local") = {}
                     /\ IF case.eof = 0 THEN Holds("member") = {} /\ pHF = "none"
                        ELSE Holds("member") = {"file", "alg", "hash"} /\ pHF = "member"
                     /\ ~posted
  /\ pc = "over" => /\ Holds("none") = DOMAIN held
                    /\ pHF \in {"none", "lost"}
                    /\ posted => pHF = "none"
                    /\ onDisk \in {"none", "unmarkable"}

\* The user is asked about a seek penalty only if the disk has reported one, in
\* spite of the flag being stored from a descriptor that may not have been filled;
\* and when the system grants every call (but perhaps the first) the disk is found
\* and asked, for names of any length and by either way of asking for them, unless
\* the volume's name has been overwritten.
PenaltyIsTheDisks ==
  /\ pc = "box" => case.penalty
  /\ pc = "known" /\ granted /\ name # Overwritten =>
       answer = "success" /\ SeekPenalty = case.penalty

\* No input and no size of file lets the unsigned arithmetic of CTask::Create,
\* SetBytesToProcess and CFragment::Start wrap around: the fragments and the hashes are
\* as many as the file needs, the end of the last fragment can be computed, Start gets
\* 1 to 99 CFragments to make, the bytes to process are those of the file and of the
\* shared sectors, and the progress bar's range, made of them, is a positive LONG.
Covers(n, size) == n * size >= case.eof /\ (n - 1) * size < case.eof
NumbersExact ==
  pc = "start" /\ case.eof > 0 =>
    /\ Covers(Quotient(cbFragment), cbFragment)
    /\ Covers(Quotient(cbBlock), cbBlock)
    /\ Quotient(cbFragment) * cbFragment < ULONGLONGs
    /\ nIO \in 1 .. 99
    /\ BytesToProcess = IF cbFragment % SectorSize = 0 THEN case.eof
                        ELSE case.eof + SectorSize * Cardinality(Straddling)
    /\ BytesToProcess \div 2^_shift(BytesToProcess) \in 1 .. MAXLONG

\* Buffers for I/O without intermediate buffering are aligned as the device asks
\* and lie inside their allocation, wherever the heap puts that.
SizeOfCHashBlock == 56
OffsetOfHashes == 52
HeapAddresses == {16 * k : k \in 0 .. 63}
BuffersAligned ==
  pc = "start" /\ case.eof > 0 => \A p \in HeapAddresses :
    LET io == Align(p, FileAlignment)
        hb == Align(p + OffsetOfHashes, HashAlignment)
    IN /\ case.cached \/ io % (case.fileAlign + 1) = 0
       /\ io + cbIo <= p + FileAlignment + cbIo
       /\ cbIo % SectorSize = 0
       /\ hb % (case.hashAlign + 1) = 0
       /\ hb <= p + SizeOfCHashBlock + HashAlignment

\* OnOk comes to an end: the loop that asks for a name with a larger and larger
\* buffer does not ask for ever, unless the volume's name is too long for the first
\* buffer and the system says so with a status that leaves the buffer as it is.
OnOkReturns == (case.volumes /\ case.tooSmall => NameFits(FirstSize)) =>
                 <>(pc \in {"start", "over"})
=============================================================================

--------------------------- MODULE OpeningProofs ---------------------------
(***************************************************************************)
(* Proofs about the system calls of OnOk, CTask::Create, CHashFile::Create *)
(* and GetSeekPenalty, whatever the user enters and the system answers.    *)
(***************************************************************************)
EXTENDS Opening, FiniteSetTheorems, TLAPS

-----------------------------------------------------------------------------
(***************************************************************************)
(* The inductive invariant.                                                *)
(***************************************************************************)
\* CTask::Create has succeeded.
Opened == pc \in {"query", "filename", "device", "number", "disk", "property", "known",
                  "box", "start"}
\* ... or was refused.
GoingBack == pc \in {"hfclose", "hfrelease", "closealg", "closefile", "return", "over"}

\* Who holds the handles of the file, the algorithm, the hash file and the device.
Holding(f, a, h, d) == /\ held["file"] = f /\ held["alg"] = a
                       /\ held["hash"] = h /\ held["device"] = d

HeldInv ==
  /\ pc \in {"input", "open", "over"} => Holding("none", "none", "none", "none")
  /\ pc \in {"sector", "alg", "closefile"} => Holding("local", "none", "none", "none")
  /\ pc \in {"hashlen", "new", "hfopen", "closealg"} =>
       Holding("local", "local", "none", "none")
  /\ pc \in {"hfmark", "hfsector", "hfbind", "hfclose"} =>
       Holding("local", "local", "local", "none")
  /\ pc \in {"bind", "hfrelease"} => Holding("local", "local", "member", "none")
  /\ pc = "return" \/ Opened =>
       LET device == IF pc \in {"number", "property"} THEN "local" ELSE "none"
       IN IF status = "failed" \/ case.eof = 0
            THEN Holding("none", "none", "none", device)
            ELSE Holding("member", "member", "member", device)

\* The CHashFile, its file, and the WM_DONE its destructor posts.
HashFileInv ==
  /\ pc \in {"input", "open", "sector", "alg", "hashlen", "new"} =>
       pHF = "none" /\ onDisk = "none"
  /\ pc \in {"hfopen", "hfmark", "hfsector", "hfbind", "bind", "hfclose", "hfrelease"} =>
       /\ pHF = "local"
       /\ pc = "hfopen" => onDisk = "none"
  /\ GoingBack /\ status = "failed" /\ pc \notin {"hfclose", "hfrelease"} =>
       /\ pHF \in (IF pc = "closealg" THEN {"none", "local"} ELSE {"none", "lost"})
       /\ onDisk \in {"none", "unmarkable"}
  /\ pc \in {"hfclose", "hfrelease", "hfsector", "hfbind", "bind"} =>
       onDisk \in {"marked", "unmarkable"}
  /\ pc = "closefile" /\ status = "success" => pHF = "none"
  /\ (pc = "return" /\ status = "success") \/ Opened =>
       pHF = IF case.eof = 0 THEN "none" ELSE "member"
  /\ pc = "over" => pHF \in {"none", "lost"} /\ onDisk \in {"none", "unmarkable"}
  /\ posted => /\ pc \in {"closealg", "closefile", "return", "over"}
               /\ status = "failed" /\ pHF = "none"

\* A refused call is the last one, but for those that close what was opened.
StatusInv ==
  /\ status \in {"success", "failed"}
  /\ status = "failed" => GoingBack
  /\ pc \in {"hfclose", "hfrelease", "closealg"} => status = "failed"
  /\ pc = "closefile" => status = "failed" \/ case.eof = 0
  /\ pc \in {"alg", "hashlen", "new", "hfopen", "hfmark", "hfsector", "hfbind", "bind"} =>
       case.eof # 0

\* What GetSeekPenalty goes on with belongs to the way it asks.
PenaltyInv ==
  /\ answer = "success" => SeekPenalty = case.penalty
  /\ pc = "box" => answer = "success" /\ SeekPenalty
  /\ pc = "known" => answer = "success" \/ (granted => name = Overwritten)
  /\ pc = "filename" => rcb = ObjectSize /\ name = case.volume + case.file
  /\ pc = "device" => name \in {case.volume, Overwritten}
  /\ pc # "number" => root = "none"

\* The answers of GetSectorSizeAndAligment in use have been checked.
SectorInv ==
  /\ pc \in {"alg", "hashlen", "new", "hfopen", "hfmark", "hfsector", "hfbind", "bind"} =>
       Valid(case.fileAlign, case.fileSector)
  /\ pc \in {"hfbind", "bind"} => Valid(case.hashAlign, case.hashSector)
  /\ ((pc = "return" /\ status = "success") \/ Opened) /\ case.eof # 0 =>
       /\ Valid(case.fileAlign, case.fileSector)
       /\ Valid(case.hashAlign, case.hashSector)

\* Only an accepted number of CFragments is gone on with.
InputInv == /\ pc = "input" => nIO = case.nIO
            /\ pc \notin {"input", "over"} => nIO \in 1 .. 99

IInv == /\ case \in Cases
        /\ TypeOK /\ HeldInv /\ HashFileInv /\ StatusInv /\ PenaltyInv /\ SectorInv
        /\ InputInv

-----------------------------------------------------------------------------
(***************************************************************************)
(* Every step keeps the invariant.                                         *)
(***************************************************************************)
\* The input and the answers of the system do not change.
LEMMA CaseNext ==
  ASSUME IInv, Next
  PROVE  (case \in Cases)'
<1>0. case \in Cases
  BY DEF IInv
<1>1. CASE ReadInput
  BY <1>0, <1>1 DEF ReadInput, Step, input, query, objects
<1>2. CASE OpenFile
  BY <1>0, <1>2 DEF OpenFile, Step, Hold, input, query, objects
<1>3. CASE QuerySector
  BY <1>0, <1>3 DEF QuerySector, Step, input, query, objects
<1>4. CASE OpenAlgorithm
  BY <1>0, <1>4 DEF OpenAlgorithm, Step, Hold, input, query, objects
<1>5. CASE GetHashLength
  BY <1>0, <1>5 DEF GetHashLength, Step, input, query, objects
<1>6. CASE NewHashFile
  BY <1>0, <1>6 DEF NewHashFile, Step, input, query, objects
<1>7. CASE CreateHashFile
  BY <1>0, <1>7 DEF CreateHashFile, Step, Hold, input, query, objects
<1>8. CASE MarkHashFile
  BY <1>0, <1>8 DEF MarkHashFile, Step, input, query, objects
<1>9. CASE QueryHashSector
  BY <1>0, <1>9 DEF QueryHashSector, Step, input, query, objects
<1>10. CASE BindHashFile
  BY <1>0, <1>10 DEF BindHashFile, Step, Hold, input, query, objects
<1>11. CASE CloseHashFile
  BY <1>0, <1>11 DEF CloseHashFile, Step, Hold, Deleted, input, query, objects
<1>12. CASE BindFile
  BY <1>0, <1>12 DEF BindFile, Step, input, query, objects
<1>13. CASE ReleaseHashFile
  BY <1>0, <1>13 DEF ReleaseHashFile, Step, Hold, Deleted, input, query, objects
<1>14. CASE CloseAlgorithm
  BY <1>0, <1>14
     DEF CloseAlgorithm, Step, Hold, AfterCloseAlgorithm, input, query, objects
<1>15. CASE CloseFile
  BY <1>0, <1>15 DEF CloseFile, Step, Hold, input, query, objects
<1>16. CASE CreateRefused
  BY <1>0, <1>16 DEF CreateRefused, Refused, Step, input, query, objects
<1>17. CASE Created
  BY <1>0, <1>17 DEF Created, Step, input, query, objects
<1>18. CASE Overflow
  BY <1>0, <1>18 DEF Overflow, Asking, Step, input, query, objects
<1>19. CASE GotName
  BY <1>0, <1>19 DEF GotName, Asking, Step, input, query, objects
<1>20. CASE OtherMode
  BY <1>0, <1>20 DEF OtherMode, Asking, Step, input, query, objects
<1>21. CASE CutFileName
  BY <1>0, <1>21 DEF CutFileName, Step, input, query, objects
<1>22. CASE OpenDevice
  BY <1>0, <1>22 DEF OpenDevice, Step, Hold, input, query, objects
<1>23. CASE AskNumber
  BY <1>0, <1>23 DEF AskNumber, Step, Hold, RootReset, input, query, objects
<1>24. CASE OpenDisk
  BY <1>0, <1>24 DEF OpenDisk, Step, Hold, input, query, objects
<1>25. CASE AskPenalty
  BY <1>0, <1>25 DEF AskPenalty, Step, Hold, input, query, objects
<1>26. CASE QueryRefused
  BY <1>0, <1>26 DEF QueryRefused, GiveUp, Step, input, query, objects
<1>27. CASE SeekPenaltyKnown
  BY <1>0, <1>27 DEF SeekPenaltyKnown, Step, input, query, objects
<1>28. CASE BoxAnswered
  BY <1>0, <1>28 DEF BoxAnswered, input, query, objects
<1>29. QED
  BY <1>1, <1>2, <1>3, <1>4, <1>5, <1>6, <1>7, <1>8, <1>9, <1>10, <1>11, <1>12, <1>13,
     <1>14, <1>15, <1>16, <1>17, <1>18, <1>19, <1>20, <1>21, <1>22, <1>23, <1>24,
     <1>25, <1>26, <1>27, <1>28
     DEF Next, GoOn, CreateStep, QueryStep

\* No length is negative.
LEMMA TypeNext ==
  ASSUME IInv, Next
  PROVE  TypeOK'
<1>0. /\ case \in Cases
      /\ {case.eof, case.nIO} \subseteq Nat /\ {case.volume, case.file} \subseteq Nat \ {0}
      /\ {VolumeHeader, ObjectHeader, FileHeader} \subseteq Nat /\ case.penalty \in BOOLEAN
      /\ FileHeader <= ObjectHeader /\ TypeOK
  BY OpeningAssumption DEF IInv
<1>1. CASE ReadInput
  BY <1>0, <1>1
     DEF ReadInput, Step, input, query, objects, TypeOK, Grown, NameSize, ObjectSize,
         FileNameFits, Deleted
<1>2. CASE OpenFile
  BY <1>0, <1>2
     DEF OpenFile, Step, Hold, input, query, objects, TypeOK, Grown, NameSize,
         ObjectSize, FileNameFits, Deleted
<1>3. CASE QuerySector
  BY <1>0, <1>3
     DEF QuerySector, Step, input, query, objects, TypeOK, Grown, NameSize,
         ObjectSize, FileNameFits, Deleted
<1>4. CASE OpenAlgorithm
  BY <1>0, <1>4
     DEF OpenAlgorithm, Step, Hold, input, query, objects, TypeOK, Grown, NameSize,
         ObjectSize, FileNameFits, Deleted
<1>5. CASE GetHashLength
  BY <1>0, <1>5
     DEF GetHashLength, Step, input, query, objects, TypeOK, Grown, NameSize,
         ObjectSize, FileNameFits, Deleted
<1>6. CASE NewHashFile
  BY <1>0, <1>6
     DEF NewHashFile, Step, input, query, objects, TypeOK, Grown, NameSize,
         ObjectSize, FileNameFits, Deleted
<1>7. CASE CreateHashFile
  BY <1>0, <1>7
     DEF CreateHashFile, Step, Hold, input, query, objects, TypeOK, Grown, NameSize,
         ObjectSize, FileNameFits, Deleted
<1>8. CASE MarkHashFile
  BY <1>0, <1>8
     DEF MarkHashFile, Step, input, query, objects, TypeOK, Grown, NameSize,
         ObjectSize, FileNameFits, Deleted
<1>9. CASE QueryHashSector
  BY <1>0, <1>9
     DEF QueryHashSector, Step, input, query, objects, TypeOK, Grown, NameSize,
         ObjectSize, FileNameFits, Deleted
<1>10. CASE BindHashFile
  BY <1>0, <1>10
     DEF BindHashFile, Step, Hold, input, query, objects, TypeOK, Grown, NameSize,
         ObjectSize, FileNameFits, Deleted
<1>11. CASE CloseHashFile
  BY <1>0, <1>11
     DEF CloseHashFile, Step, Hold, Deleted, input, query, objects, TypeOK, Grown,
         NameSize, ObjectSize, FileNameFits, Deleted
<1>12. CASE BindFile
  BY <1>0, <1>12
     DEF BindFile, Step, input, query, objects, TypeOK, Grown, NameSize, ObjectSize,
         FileNameFits, Deleted
<1>13. CASE ReleaseHashFile
  BY <1>0, <1>13
     DEF ReleaseHashFile, Step, Hold, Deleted, input, query, objects, TypeOK, Grown,
         NameSize, ObjectSize, FileNameFits, Deleted
<1>14. CASE CloseAlgorithm
  BY <1>0, <1>14
     DEF CloseAlgorithm, Step, Hold, AfterCloseAlgorithm, input, query, objects,
         TypeOK, Grown, NameSize, ObjectSize, FileNameFits, Deleted
<1>15. CASE CloseFile
  BY <1>0, <1>15
     DEF CloseFile, Step, Hold, input, query, objects, TypeOK, Grown, NameSize,
         ObjectSize, FileNameFits, Deleted
<1>16. CASE CreateRefused
  BY <1>0, <1>16
     DEF CreateRefused, Refused, Step, input, query, objects, TypeOK, Grown, NameSize,
         ObjectSize, FileNameFits, Deleted
<1>17. CASE Created
  BY <1>0, <1>17
     DEF Created, Step, input, query, objects, TypeOK, Grown, NameSize, ObjectSize,
         FileNameFits, Deleted
<1>18. CASE Overflow
  BY <1>0, <1>18
     DEF Overflow, Asking, Step, input, query, objects, TypeOK, Grown, NameSize,
         ObjectSize, FileNameFits, Deleted
<1>19. CASE GotName
  <2>1. Grown \in Nat
    BY <1>0 DEF TypeOK, Grown
  <2>2. rcb' \in Nat /\ name' \in Nat /\ cb' \in Nat
    BY <1>0, <1>19, <2>1
       DEF GotName, Asking, Step, input, query, ObjectSize, Overwritten, TypeOK
  <2>3. QED
    BY <1>0, <1>19, <2>2 DEF GotName, Asking, Step, input, query, objects, TypeOK
<1>20. CASE OtherMode
  BY <1>0, <1>20
     DEF OtherMode, Asking, Step, input, query, objects, TypeOK, Grown, NameSize,
         ObjectSize, FileNameFits, Deleted
<1>21. CASE CutFileName
  BY <1>0, <1>21
     DEF CutFileName, Step, input, query, objects, TypeOK, Grown, NameSize,
         ObjectSize, FileNameFits, Deleted
<1>22. CASE OpenDevice
  BY <1>0, <1>22
     DEF OpenDevice, Step, Hold, input, query, objects, TypeOK, Grown, NameSize,
         ObjectSize, FileNameFits, Deleted
<1>23. CASE AskNumber
  BY <1>0, <1>23
     DEF AskNumber, Step, Hold, RootReset, input, query, objects, TypeOK, Grown,
         NameSize, ObjectSize, FileNameFits, Deleted
<1>24. CASE OpenDisk
  BY <1>0, <1>24
     DEF OpenDisk, Step, Hold, input, query, objects, TypeOK, Grown, NameSize,
         ObjectSize, FileNameFits, Deleted
<1>25. CASE AskPenalty
  BY <1>0, <1>25
     DEF AskPenalty, Step, Hold, input, query, objects, TypeOK, Grown, NameSize,
         ObjectSize, FileNameFits, Deleted
<1>26. CASE QueryRefused
  BY <1>0, <1>26
     DEF QueryRefused, GiveUp, Step, input, query, objects, TypeOK, Grown, NameSize,
         ObjectSize, FileNameFits, Deleted
<1>27. CASE SeekPenaltyKnown
  BY <1>0, <1>27
     DEF SeekPenaltyKnown, Step, input, query, objects, TypeOK, Grown, NameSize,
         ObjectSize, FileNameFits, Deleted
<1>28. CASE BoxAnswered
  BY <1>0, <1>28
     DEF BoxAnswered, input, query, objects, TypeOK, Grown, NameSize, ObjectSize,
         FileNameFits, Deleted
<1>29. QED
  BY <1>1, <1>2, <1>3, <1>4, <1>5, <1>6, <1>7, <1>8, <1>9, <1>10, <1>11, <1>12, <1>13,
     <1>14, <1>15, <1>16, <1>17, <1>18, <1>19, <1>20, <1>21, <1>22, <1>23, <1>24,
     <1>25, <1>26, <1>27, <1>28
     DEF Next, GoOn, CreateStep, QueryStep

\* Each handle is where its function has put it.
LEMMA HeldNext ==
  ASSUME IInv, Next
  PROVE  HeldInv'
<1>0. TypeOK /\ HeldInv /\ StatusInv
  BY DEF IInv
<1>1. CASE ReadInput
  BY <1>0, <1>1
     DEF ReadInput, Step, input, query, objects, TypeOK, HeldInv, StatusInv, Holding,
         Opened, GoingBack
<1>2. CASE OpenFile
  BY <1>0, <1>2
     DEF OpenFile, Step, Hold, input, query, objects, TypeOK, HeldInv, StatusInv,
         Holding, Opened, GoingBack
<1>3. CASE QuerySector
  BY <1>0, <1>3
     DEF QuerySector, Step, input, query, objects, TypeOK, HeldInv, StatusInv,
         Holding, Opened, GoingBack
<1>4. CASE OpenAlgorithm
  BY <1>0, <1>4
     DEF OpenAlgorithm, Step, Hold, input, query, objects, TypeOK, HeldInv, StatusInv,
         Holding, Opened, GoingBack
<1>5. CASE GetHashLength
  BY <1>0, <1>5
     DEF GetHashLength, Step, input, query, objects, TypeOK, HeldInv, StatusInv,
         Holding, Opened, GoingBack
<1>6. CASE NewHashFile
  BY <1>0, <1>6
     DEF NewHashFile, Step, input, query, objects, TypeOK, HeldInv, StatusInv,
         Holding, Opened, GoingBack
<1>7. CASE CreateHashFile
  BY <1>0, <1>7
     DEF CreateHashFile, Step, Hold, input, query, objects, TypeOK, HeldInv,
         StatusInv, Holding, Opened, GoingBack
<1>8. CASE MarkHashFile
  BY <1>0, <1>8
     DEF MarkHashFile, Step, input, query, objects, TypeOK, HeldInv, StatusInv,
         Holding, Opened, GoingBack
<1>9. CASE QueryHashSector
  BY <1>0, <1>9
     DEF QueryHashSector, Step, input, query, objects, TypeOK, HeldInv, StatusInv,
         Holding, Opened, GoingBack
<1>10. CASE BindHashFile
  BY <1>0, <1>10
     DEF BindHashFile, Step, Hold, input, query, objects, TypeOK, HeldInv, StatusInv,
         Holding, Opened, GoingBack
<1>11. CASE CloseHashFile
  BY <1>0, <1>11
     DEF CloseHashFile, Step, Hold, Deleted, input, query, objects, TypeOK, HeldInv,
         StatusInv, Holding, Opened, GoingBack
<1>12. CASE BindFile
  BY <1>0, <1>12
     DEF BindFile, Step, input, query, objects, TypeOK, HeldInv, StatusInv, Holding,
         Opened, GoingBack
<1>13. CASE ReleaseHashFile
  BY <1>0, <1>13
     DEF ReleaseHashFile, Step, Hold, Deleted, input, query, objects, TypeOK, HeldInv,
         StatusInv, Holding, Opened, GoingBack
<1>14. CASE CloseAlgorithm
  BY <1>0, <1>14
     DEF CloseAlgorithm, Step, Hold, AfterCloseAlgorithm, input, query, objects,
         TypeOK, HeldInv, StatusInv, Holding, Opened, GoingBack
<1>15. CASE CloseFile
  BY <1>0, <1>15
     DEF CloseFile, Step, Hold, input, query, objects, TypeOK, HeldInv, StatusInv,
         Holding, Opened, GoingBack
<1>16. CASE CreateRefused
  BY <1>0, <1>16
     DEF CreateRefused, Refused, Step, input, query, objects, TypeOK, HeldInv,
         StatusInv, Holding, Opened, GoingBack
<1>17. CASE Created
  BY <1>0, <1>17
     DEF Created, Step, input, query, objects, TypeOK, HeldInv, StatusInv, Holding,
         Opened, GoingBack
<1>18. CASE Overflow
  BY <1>0, <1>18
     DEF Overflow, Asking, Step, input, query, objects, TypeOK, HeldInv, StatusInv,
         Holding, Opened, GoingBack
<1>19. CASE GotName
  BY <1>0, <1>19
     DEF GotName, Asking, Step, input, query, objects, TypeOK, HeldInv, StatusInv,
         Holding, Opened, GoingBack
<1>20. CASE OtherMode
  BY <1>0, <1>20
     DEF OtherMode, Asking, Step, input, query, objects, TypeOK, HeldInv, StatusInv,
         Holding, Opened, GoingBack
<1>21. CASE CutFileName
  BY <1>0, <1>21
     DEF CutFileName, Step, input, query, objects, TypeOK, HeldInv, StatusInv,
         Holding, Opened, GoingBack
<1>22. CASE OpenDevice
  BY <1>0, <1>22
     DEF OpenDevice, Step, Hold, input, query, objects, TypeOK, HeldInv, StatusInv,
         Holding, Opened, GoingBack
<1>23. CASE AskNumber
  BY <1>0, <1>23
     DEF AskNumber, Step, Hold, RootReset, input, query, objects, TypeOK, HeldInv,
         StatusInv, Holding, Opened, GoingBack
<1>24. CASE OpenDisk
  BY <1>0, <1>24
     DEF OpenDisk, Step, Hold, input, query, objects, TypeOK, HeldInv, StatusInv,
         Holding, Opened, GoingBack
<1>25. CASE AskPenalty
  BY <1>0, <1>25
     DEF AskPenalty, Step, Hold, input, query, objects, TypeOK, HeldInv, StatusInv,
         Holding, Opened, GoingBack
<1>26. CASE QueryRefused
  BY <1>0, <1>26
     DEF QueryRefused, GiveUp, Step, input, query, objects, TypeOK, HeldInv,
         StatusInv, Holding, Opened, GoingBack
<1>27. CASE SeekPenaltyKnown
  BY <1>0, <1>27
     DEF SeekPenaltyKnown, Step, input, query, objects, TypeOK, HeldInv, StatusInv,
         Holding, Opened, GoingBack
<1>28. CASE BoxAnswered
  BY <1>0, <1>28
     DEF BoxAnswered, input, query, objects, TypeOK, HeldInv, StatusInv, Holding,
         Opened, GoingBack
<1>29. QED
  BY <1>1, <1>2, <1>3, <1>4, <1>5, <1>6, <1>7, <1>8, <1>9, <1>10, <1>11, <1>12, <1>13,
     <1>14, <1>15, <1>16, <1>17, <1>18, <1>19, <1>20, <1>21, <1>22, <1>23, <1>24,
     <1>25, <1>26, <1>27, <1>28
     DEF Next, GoOn, CreateStep, QueryStep

\* The CHashFile and its file are let go of together.
LEMMA HashFileNext ==
  ASSUME IInv, Next
  PROVE  HashFileInv'
<1>0. TypeOK /\ HashFileInv /\ StatusInv
  BY DEF IInv
<1>1. CASE ReadInput
  BY <1>0, <1>1
     DEF ReadInput, Step, input, query, objects, HashFileInv, StatusInv, Opened,
         GoingBack
<1>2. CASE OpenFile
  BY <1>0, <1>2
     DEF OpenFile, Step, Hold, input, query, objects, HashFileInv, StatusInv, Opened,
         GoingBack
<1>3. CASE QuerySector
  BY <1>0, <1>3
     DEF QuerySector, Step, input, query, objects, HashFileInv, StatusInv, Opened,
         GoingBack
<1>4. CASE OpenAlgorithm
  BY <1>0, <1>4
     DEF OpenAlgorithm, Step, Hold, input, query, objects, HashFileInv, StatusInv,
         Opened, GoingBack
<1>5. CASE GetHashLength
  BY <1>0, <1>5
     DEF GetHashLength, Step, input, query, objects, HashFileInv, StatusInv, Opened,
         GoingBack
<1>6. CASE NewHashFile
  BY <1>0, <1>6
     DEF NewHashFile, Step, input, query, objects, HashFileInv, StatusInv, Opened,
         GoingBack
<1>7. CASE CreateHashFile
  BY <1>0, <1>7
     DEF CreateHashFile, Step, Hold, input, query, objects, HashFileInv, StatusInv,
         Opened, GoingBack
<1>8. CASE MarkHashFile
  BY <1>0, <1>8
     DEF MarkHashFile, Step, input, query, objects, HashFileInv, StatusInv, Opened,
         GoingBack
<1>9. CASE QueryHashSector
  BY <1>0, <1>9
     DEF QueryHashSector, Step, input, query, objects, HashFileInv, StatusInv, Opened,
         GoingBack
<1>10. CASE BindHashFile
  BY <1>0, <1>10
     DEF BindHashFile, Step, Hold, input, query, objects, HashFileInv, StatusInv,
         Opened, GoingBack
<1>11. CASE CloseHashFile
  BY <1>0, <1>11
     DEF CloseHashFile, Step, Hold, Deleted, input, query, objects, HashFileInv,
         StatusInv, Opened, GoingBack
<1>12. CASE BindFile
  BY <1>0, <1>12
     DEF BindFile, Step, input, query, objects, HashFileInv, StatusInv, Opened,
         GoingBack
<1>13. CASE ReleaseHashFile
  BY <1>0, <1>13
     DEF ReleaseHashFile, Step, Hold, Deleted, input, query, objects, HashFileInv,
         StatusInv, Opened, GoingBack
<1>14. CASE CloseAlgorithm
  BY <1>0, <1>14
     DEF CloseAlgorithm, Step, Hold, AfterCloseAlgorithm, input, query, objects,
         HashFileInv, StatusInv, Opened, GoingBack
<1>15. CASE CloseFile
  BY <1>0, <1>15
     DEF CloseFile, Step, Hold, input, query, objects, HashFileInv, StatusInv, Opened,
         GoingBack
<1>16. CASE CreateRefused
  BY <1>0, <1>16
     DEF CreateRefused, Refused, Step, input, query, objects, HashFileInv, StatusInv,
         Opened, GoingBack
<1>17. CASE Created
  BY <1>0, <1>17
     DEF Created, Step, input, query, objects, HashFileInv, StatusInv, Opened,
         GoingBack
<1>18. CASE Overflow
  BY <1>0, <1>18
     DEF Overflow, Asking, Step, input, query, objects, HashFileInv, StatusInv,
         Opened, GoingBack
<1>19. CASE GotName
  BY <1>0, <1>19
     DEF GotName, Asking, Step, input, query, objects, HashFileInv, StatusInv, Opened,
         GoingBack
<1>20. CASE OtherMode
  BY <1>0, <1>20
     DEF OtherMode, Asking, Step, input, query, objects, HashFileInv, StatusInv,
         Opened, GoingBack
<1>21. CASE CutFileName
  BY <1>0, <1>21
     DEF CutFileName, Step, input, query, objects, HashFileInv, StatusInv, Opened,
         GoingBack
<1>22. CASE OpenDevice
  BY <1>0, <1>22
     DEF OpenDevice, Step, Hold, input, query, objects, HashFileInv, StatusInv,
         Opened, GoingBack
<1>23. CASE AskNumber
  BY <1>0, <1>23
     DEF AskNumber, Step, Hold, RootReset, input, query, objects, HashFileInv,
         StatusInv, Opened, GoingBack
<1>24. CASE OpenDisk
  BY <1>0, <1>24
     DEF OpenDisk, Step, Hold, input, query, objects, HashFileInv, StatusInv, Opened,
         GoingBack
<1>25. CASE AskPenalty
  BY <1>0, <1>25
     DEF AskPenalty, Step, Hold, input, query, objects, HashFileInv, StatusInv,
         Opened, GoingBack
<1>26. CASE QueryRefused
  BY <1>0, <1>26
     DEF QueryRefused, GiveUp, Step, input, query, objects, HashFileInv, StatusInv,
         Opened, GoingBack
<1>27. CASE SeekPenaltyKnown
  BY <1>0, <1>27
     DEF SeekPenaltyKnown, Step, input, query, objects, HashFileInv, StatusInv,
         Opened, GoingBack
<1>28. CASE BoxAnswered
  BY <1>0, <1>28
     DEF BoxAnswered, input, query, objects, HashFileInv, StatusInv, Opened, GoingBack
<1>29. QED
  BY <1>1, <1>2, <1>3, <1>4, <1>5, <1>6, <1>7, <1>8, <1>9, <1>10, <1>11, <1>12, <1>13,
     <1>14, <1>15, <1>16, <1>17, <1>18, <1>19, <1>20, <1>21, <1>22, <1>23, <1>24,
     <1>25, <1>26, <1>27, <1>28
     DEF Next, GoOn, CreateStep, QueryStep

\* No call is made after a refused one.
LEMMA StatusNext ==
  ASSUME IInv, Next
  PROVE  StatusInv'
<1>0. StatusInv
  BY DEF IInv
<1>1. CASE ReadInput
  BY <1>0, <1>1 DEF ReadInput, Step, input, query, objects, StatusInv, GoingBack, Opened
<1>2. CASE OpenFile
  BY <1>0, <1>2
     DEF OpenFile, Step, Hold, input, query, objects, StatusInv, GoingBack, Opened
<1>3. CASE QuerySector
  BY <1>0, <1>3 DEF QuerySector, Step, input, query, objects, StatusInv, GoingBack, Opened
<1>4. CASE OpenAlgorithm
  BY <1>0, <1>4
     DEF OpenAlgorithm, Step, Hold, input, query, objects, StatusInv, GoingBack,
         Opened
<1>5. CASE GetHashLength
  BY <1>0, <1>5
     DEF GetHashLength, Step, input, query, objects, StatusInv, GoingBack, Opened
<1>6. CASE NewHashFile
  BY <1>0, <1>6 DEF NewHashFile, Step, input, query, objects, StatusInv, GoingBack, Opened
<1>7. CASE CreateHashFile
  BY <1>0, <1>7
     DEF CreateHashFile, Step, Hold, input, query, objects, StatusInv, GoingBack,
         Opened
<1>8. CASE MarkHashFile
  BY <1>0, <1>8
     DEF MarkHashFile, Step, input, query, objects, StatusInv, GoingBack, Opened
<1>9. CASE QueryHashSector
  BY <1>0, <1>9
     DEF QueryHashSector, Step, input, query, objects, StatusInv, GoingBack, Opened
<1>10. CASE BindHashFile
  BY <1>0, <1>10
     DEF BindHashFile, Step, Hold, input, query, objects, StatusInv, GoingBack, Opened
<1>11. CASE CloseHashFile
  BY <1>0, <1>11
     DEF CloseHashFile, Step, Hold, Deleted, input, query, objects, StatusInv,
         GoingBack, Opened
<1>12. CASE BindFile
  BY <1>0, <1>12 DEF BindFile, Step, input, query, objects, StatusInv, GoingBack, Opened
<1>13. CASE ReleaseHashFile
  BY <1>0, <1>13
     DEF ReleaseHashFile, Step, Hold, Deleted, input, query, objects, StatusInv,
         GoingBack, Opened
<1>14. CASE CloseAlgorithm
  BY <1>0, <1>14
     DEF CloseAlgorithm, Step, Hold, AfterCloseAlgorithm, input, query, objects,
         StatusInv, GoingBack, Opened
<1>15. CASE CloseFile
  BY <1>0, <1>15
     DEF CloseFile, Step, Hold, input, query, objects, StatusInv, GoingBack, Opened
<1>16. CASE CreateRefused
  BY <1>0, <1>16
     DEF CreateRefused, Refused, Step, input, query, objects, StatusInv, GoingBack,
         Opened
<1>17. CASE Created
  BY <1>0, <1>17 DEF Created, Step, input, query, objects, StatusInv, GoingBack, Opened
<1>18. CASE Overflow
  BY <1>0, <1>18
     DEF Overflow, Asking, Step, input, query, objects, StatusInv, GoingBack, Opened
<1>19. CASE GotName
  BY <1>0, <1>19
     DEF GotName, Asking, Step, input, query, objects, StatusInv, GoingBack, Opened
<1>20. CASE OtherMode
  BY <1>0, <1>20
     DEF OtherMode, Asking, Step, input, query, objects, StatusInv, GoingBack, Opened
<1>21. CASE CutFileName
  BY <1>0, <1>21
     DEF CutFileName, Step, input, query, objects, StatusInv, GoingBack, Opened
<1>22. CASE OpenDevice
  BY <1>0, <1>22
     DEF OpenDevice, Step, Hold, input, query, objects, StatusInv, GoingBack, Opened
<1>23. CASE AskNumber
  BY <1>0, <1>23
     DEF AskNumber, Step, Hold, RootReset, input, query, objects, StatusInv,
         GoingBack, Opened
<1>24. CASE OpenDisk
  BY <1>0, <1>24
     DEF OpenDisk, Step, Hold, input, query, objects, StatusInv, GoingBack, Opened
<1>25. CASE AskPenalty
  BY <1>0, <1>25
     DEF AskPenalty, Step, Hold, input, query, objects, StatusInv, GoingBack, Opened
<1>26. CASE QueryRefused
  BY <1>0, <1>26
     DEF QueryRefused, GiveUp, Step, input, query, objects, StatusInv, GoingBack,
         Opened
<1>27. CASE SeekPenaltyKnown
  BY <1>0, <1>27
     DEF SeekPenaltyKnown, Step, input, query, objects, StatusInv, GoingBack, Opened
<1>28. CASE BoxAnswered
  BY <1>0, <1>28 DEF BoxAnswered, input, query, objects, StatusInv, GoingBack, Opened
<1>29. QED
  BY <1>1, <1>2, <1>3, <1>4, <1>5, <1>6, <1>7, <1>8, <1>9, <1>10, <1>11, <1>12, <1>13,
     <1>14, <1>15, <1>16, <1>17, <1>18, <1>19, <1>20, <1>21, <1>22, <1>23, <1>24,
     <1>25, <1>26, <1>27, <1>28
     DEF Next, GoOn, CreateStep, QueryStep

\* GetSeekPenalty goes on with the name it has got.
LEMMA PenaltyNext ==
  ASSUME IInv, Next
  PROVE  PenaltyInv'
<1>0. /\ case \in Cases
      /\ {case.eof, case.nIO} \subseteq Nat /\ {case.volume, case.file} \subseteq Nat \ {0}
      /\ {VolumeHeader, ObjectHeader, FileHeader} \subseteq Nat /\ case.penalty \in BOOLEAN
      /\ FileHeader <= ObjectHeader /\ TypeOK
  BY OpeningAssumption DEF IInv
<1>1. CASE ReadInput
  BY <1>0, <1>1
     DEF ReadInput, Step, input, query, objects, IInv, PenaltyInv, TypeOK, ObjectSize,
         FileNameFits, Overwritten, IsPenalty
<1>2. CASE OpenFile
  BY <1>0, <1>2
     DEF OpenFile, Step, Hold, input, query, objects, IInv, PenaltyInv, TypeOK,
         ObjectSize, FileNameFits, Overwritten, IsPenalty
<1>3. CASE QuerySector
  BY <1>0, <1>3
     DEF QuerySector, Step, input, query, objects, IInv, PenaltyInv, TypeOK,
         ObjectSize, FileNameFits, Overwritten, IsPenalty
<1>4. CASE OpenAlgorithm
  BY <1>0, <1>4
     DEF OpenAlgorithm, Step, Hold, input, query, objects, IInv, PenaltyInv, TypeOK,
         ObjectSize, FileNameFits, Overwritten, IsPenalty
<1>5. CASE GetHashLength
  BY <1>0, <1>5
     DEF GetHashLength, Step, input, query, objects, IInv, PenaltyInv, TypeOK,
         ObjectSize, FileNameFits, Overwritten, IsPenalty
<1>6. CASE NewHashFile
  BY <1>0, <1>6
     DEF NewHashFile, Step, input, query, objects, IInv, PenaltyInv, TypeOK,
         ObjectSize, FileNameFits, Overwritten, IsPenalty
<1>7. CASE CreateHashFile
  BY <1>0, <1>7
     DEF CreateHashFile, Step, Hold, input, query, objects, IInv, PenaltyInv, TypeOK,
         ObjectSize, FileNameFits, Overwritten, IsPenalty
<1>8. CASE MarkHashFile
  BY <1>0, <1>8
     DEF MarkHashFile, Step, input, query, objects, IInv, PenaltyInv, TypeOK,
         ObjectSize, FileNameFits, Overwritten, IsPenalty
<1>9. CASE QueryHashSector
  BY <1>0, <1>9
     DEF QueryHashSector, Step, input, query, objects, IInv, PenaltyInv, TypeOK,
         ObjectSize, FileNameFits, Overwritten, IsPenalty
<1>10. CASE BindHashFile
  BY <1>0, <1>10
     DEF BindHashFile, Step, Hold, input, query, objects, IInv, PenaltyInv, TypeOK,
         ObjectSize, FileNameFits, Overwritten, IsPenalty
<1>11. CASE CloseHashFile
  BY <1>0, <1>11
     DEF CloseHashFile, Step, Hold, Deleted, input, query, objects, IInv, PenaltyInv,
         TypeOK, ObjectSize, FileNameFits, Overwritten, IsPenalty
<1>12. CASE BindFile
  BY <1>0, <1>12
     DEF BindFile, Step, input, query, objects, IInv, PenaltyInv, TypeOK, ObjectSize,
         FileNameFits, Overwritten, IsPenalty
<1>13. CASE ReleaseHashFile
  BY <1>0, <1>13
     DEF ReleaseHashFile, Step, Hold, Deleted, input, query, objects, IInv,
         PenaltyInv, TypeOK, ObjectSize, FileNameFits, Overwritten, IsPenalty
<1>14. CASE CloseAlgorithm
  BY <1>0, <1>14
     DEF CloseAlgorithm, Step, Hold, AfterCloseAlgorithm, input, query, objects, IInv,
         PenaltyInv, TypeOK, ObjectSize, FileNameFits, Overwritten, IsPenalty
<1>15. CASE CloseFile
  BY <1>0, <1>15
     DEF CloseFile, Step, Hold, input, query, objects, IInv, PenaltyInv, TypeOK,
         ObjectSize, FileNameFits, Overwritten, IsPenalty
<1>16. CASE CreateRefused
  BY <1>0, <1>16
     DEF CreateRefused, Refused, Step, input, query, objects, IInv, PenaltyInv,
         TypeOK, ObjectSize, FileNameFits, Overwritten, IsPenalty
<1>17. CASE Created
  BY <1>0, <1>17
     DEF Created, Step, input, query, objects, IInv, PenaltyInv, TypeOK, ObjectSize,
         FileNameFits, Overwritten, IsPenalty
<1>18. CASE Overflow
  BY <1>0, <1>18
     DEF Overflow, Asking, Step, input, query, objects, IInv, PenaltyInv, TypeOK,
         ObjectSize, FileNameFits, Overwritten, IsPenalty
<1>19. CASE GotName
  BY <1>0, <1>19
     DEF GotName, Asking, Step, input, query, objects, IInv, PenaltyInv, TypeOK,
         ObjectSize, FileNameFits, Overwritten, IsPenalty
<1>20. CASE OtherMode
  BY <1>0, <1>20
     DEF OtherMode, Asking, Step, input, query, objects, IInv, PenaltyInv, TypeOK,
         ObjectSize, FileNameFits, Overwritten, IsPenalty
<1>21. CASE CutFileName
  BY <1>0, <1>21
     DEF CutFileName, Step, input, query, objects, IInv, PenaltyInv, TypeOK,
         ObjectSize, FileNameFits, Overwritten, IsPenalty
<1>22. CASE OpenDevice
  BY <1>0, <1>22
     DEF OpenDevice, Step, Hold, input, query, objects, IInv, PenaltyInv, TypeOK,
         ObjectSize, FileNameFits, Overwritten, IsPenalty
<1>23. CASE AskNumber
  BY <1>0, <1>23
     DEF AskNumber, Step, Hold, RootReset, input, query, objects, IInv, PenaltyInv,
         TypeOK, ObjectSize, FileNameFits, Overwritten, IsPenalty
<1>24. CASE OpenDisk
  BY <1>0, <1>24
     DEF OpenDisk, Step, Hold, input, query, objects, IInv, PenaltyInv, TypeOK,
         ObjectSize, FileNameFits, Overwritten, IsPenalty
<1>25. CASE AskPenalty
  BY <1>0, <1>25
     DEF AskPenalty, Step, Hold, input, query, objects, IInv, PenaltyInv, TypeOK,
         ObjectSize, FileNameFits, Overwritten, IsPenalty
<1>26. CASE QueryRefused
  <2>1. pc = "filename" => FileNameFits
    <3>1. /\ case.volume \in Nat /\ case.file \in Nat /\ case.volume > 0
          /\ ObjectHeader \in Nat /\ FileHeader \in Nat
      BY <1>0
    <3>2. pc = "filename" => /\ rcb = case.volume + case.file + ObjectHeader
                             /\ name = case.volume + case.file
      BY DEF IInv, PenaltyInv, ObjectSize
    <3>3. QED
      BY <1>0, <3>1, <3>2 DEF FileNameFits
  <2>2. pc = "device" => name \in {case.volume, Overwritten}
    BY DEF IInv, PenaltyInv
  <2>3. pc = "disk" => root = "none"
    BY DEF IInv, PenaltyInv
  <2>4. pc # "number" => root = "none"
    BY DEF IInv, PenaltyInv
  <2>5. /\ pc \in {"query", "filename", "device", "disk"} /\ pc' = "known"
        /\ answer' = "failed" /\ UNCHANGED <<case, name, root>>
        /\ granted' => name = Overwritten
    BY <1>0, <1>26, <2>1, <2>2, <2>3 DEF QueryRefused, GiveUp, Step, input, TypeOK
  <2>6. QED
    BY <2>4, <2>5 DEF PenaltyInv
<1>27. CASE SeekPenaltyKnown
  BY <1>0, <1>27
     DEF SeekPenaltyKnown, Step, input, query, objects, IInv, PenaltyInv, TypeOK,
         ObjectSize, FileNameFits, Overwritten, IsPenalty
<1>28. CASE BoxAnswered
  BY <1>0, <1>28
     DEF BoxAnswered, input, query, objects, IInv, PenaltyInv, TypeOK, ObjectSize,
         FileNameFits, Overwritten, IsPenalty
<1>29. QED
  BY <1>1, <1>2, <1>3, <1>4, <1>5, <1>6, <1>7, <1>8, <1>9, <1>10, <1>11, <1>12, <1>13,
     <1>14, <1>15, <1>16, <1>17, <1>18, <1>19, <1>20, <1>21, <1>22, <1>23, <1>24,
     <1>25, <1>26, <1>27, <1>28
     DEF Next, GoOn, CreateStep, QueryStep

\* The answers have been checked.
LEMMA SectorNext ==
  ASSUME IInv, Next
  PROVE  SectorInv'
<1>0. SectorInv /\ StatusInv
  BY DEF IInv
<1>1. CASE ReadInput
  BY <1>0, <1>1
     DEF ReadInput, Step, input, query, objects, SectorInv, StatusInv, GoingBack,
         Opened
<1>2. CASE OpenFile
  BY <1>0, <1>2
     DEF OpenFile, Step, Hold, input, query, objects, SectorInv, StatusInv, GoingBack,
         Opened
<1>3. CASE QuerySector
  BY <1>0, <1>3
     DEF QuerySector, Step, input, query, objects, SectorInv, StatusInv, GoingBack,
         Opened
<1>4. CASE OpenAlgorithm
  BY <1>0, <1>4
     DEF OpenAlgorithm, Step, Hold, input, query, objects, SectorInv, StatusInv,
         GoingBack, Opened
<1>5. CASE GetHashLength
  BY <1>0, <1>5
     DEF GetHashLength, Step, input, query, objects, SectorInv, StatusInv, GoingBack,
         Opened
<1>6. CASE NewHashFile
  BY <1>0, <1>6
     DEF NewHashFile, Step, input, query, objects, SectorInv, StatusInv, GoingBack,
         Opened
<1>7. CASE CreateHashFile
  BY <1>0, <1>7
     DEF CreateHashFile, Step, Hold, input, query, objects, SectorInv, StatusInv,
         GoingBack, Opened
<1>8. CASE MarkHashFile
  BY <1>0, <1>8
     DEF MarkHashFile, Step, input, query, objects, SectorInv, StatusInv, GoingBack,
         Opened
<1>9. CASE QueryHashSector
  BY <1>0, <1>9
     DEF QueryHashSector, Step, input, query, objects, SectorInv, StatusInv,
         GoingBack, Opened
<1>10. CASE BindHashFile
  BY <1>0, <1>10
     DEF BindHashFile, Step, Hold, input, query, objects, SectorInv, StatusInv,
         GoingBack, Opened
<1>11. CASE CloseHashFile
  BY <1>0, <1>11
     DEF CloseHashFile, Step, Hold, Deleted, input, query, objects, SectorInv,
         StatusInv, GoingBack, Opened
<1>12. CASE BindFile
  BY <1>0, <1>12
     DEF BindFile, Step, input, query, objects, SectorInv, StatusInv, GoingBack,
         Opened
<1>13. CASE ReleaseHashFile
  BY <1>0, <1>13
     DEF ReleaseHashFile, Step, Hold, Deleted, input, query, objects, SectorInv,
         StatusInv, GoingBack, Opened
<1>14. CASE CloseAlgorithm
  BY <1>0, <1>14
     DEF CloseAlgorithm, Step, Hold, AfterCloseAlgorithm, input, query, objects,
         SectorInv, StatusInv, GoingBack, Opened
<1>15. CASE CloseFile
  BY <1>0, <1>15
     DEF CloseFile, Step, Hold, input, query, objects, SectorInv, StatusInv,
         GoingBack, Opened
<1>16. CASE CreateRefused
  BY <1>0, <1>16
     DEF CreateRefused, Refused, Step, input, query, objects, SectorInv, StatusInv,
         GoingBack, Opened
<1>17. CASE Created
  BY <1>0, <1>17
     DEF Created, Step, input, query, objects, SectorInv, StatusInv, GoingBack, Opened
<1>18. CASE Overflow
  BY <1>0, <1>18
     DEF Overflow, Asking, Step, input, query, objects, SectorInv, StatusInv,
         GoingBack, Opened
<1>19. CASE GotName
  BY <1>0, <1>19
     DEF GotName, Asking, Step, input, query, objects, SectorInv, StatusInv,
         GoingBack, Opened
<1>20. CASE OtherMode
  BY <1>0, <1>20
     DEF OtherMode, Asking, Step, input, query, objects, SectorInv, StatusInv,
         GoingBack, Opened
<1>21. CASE CutFileName
  BY <1>0, <1>21
     DEF CutFileName, Step, input, query, objects, SectorInv, StatusInv, GoingBack,
         Opened
<1>22. CASE OpenDevice
  BY <1>0, <1>22
     DEF OpenDevice, Step, Hold, input, query, objects, SectorInv, StatusInv,
         GoingBack, Opened
<1>23. CASE AskNumber
  BY <1>0, <1>23
     DEF AskNumber, Step, Hold, RootReset, input, query, objects, SectorInv,
         StatusInv, GoingBack, Opened
<1>24. CASE OpenDisk
  BY <1>0, <1>24
     DEF OpenDisk, Step, Hold, input, query, objects, SectorInv, StatusInv, GoingBack,
         Opened
<1>25. CASE AskPenalty
  BY <1>0, <1>25
     DEF AskPenalty, Step, Hold, input, query, objects, SectorInv, StatusInv,
         GoingBack, Opened
<1>26. CASE QueryRefused
  BY <1>0, <1>26
     DEF QueryRefused, GiveUp, Step, input, query, objects, SectorInv, StatusInv,
         GoingBack, Opened
<1>27. CASE SeekPenaltyKnown
  BY <1>0, <1>27
     DEF SeekPenaltyKnown, Step, input, query, objects, SectorInv, StatusInv,
         GoingBack, Opened
<1>28. CASE BoxAnswered
  BY <1>0, <1>28
     DEF BoxAnswered, input, query, objects, SectorInv, StatusInv, GoingBack, Opened
<1>29. QED
  BY <1>1, <1>2, <1>3, <1>4, <1>5, <1>6, <1>7, <1>8, <1>9, <1>10, <1>11, <1>12, <1>13,
     <1>14, <1>15, <1>16, <1>17, <1>18, <1>19, <1>20, <1>21, <1>22, <1>23, <1>24,
     <1>25, <1>26, <1>27, <1>28
     DEF Next, GoOn, CreateStep, QueryStep

\* What OnOk lets pass of nIO - 1, which wraps around for 0.
LEMMA Accepted ==
  ASSUME case \in Cases, InputAccepted
  PROVE  case.nIO \in 1 .. 99
<1>1. case.nIO \in Nat /\ case.nIO < UINTs /\ UINTs \in Nat /\ 100 <= UINTs
  BY OpeningAssumption
<1>2. PICK k \in Nat, u \in Nat : k = case.nIO /\ u = UINTs /\ k < u /\ 100 <= u
  BY <1>1
<1>3. (k + u - 1) % u <= 98
  BY <1>2 DEF InputAccepted
<1>4. k = 0 => (k + u - 1) % u = u - 1
  BY <1>2
<1>5. k # 0 => (k + u - 1) % u = k - 1
  BY <1>2
<1>6. QED
  BY <1>2, <1>3, <1>4, <1>5

\* What goes on past the input has been accepted, and the message box can only make it 1.
LEMMA InputNext ==
  ASSUME IInv, Next
  PROVE  InputInv'
<1>0. case \in Cases /\ InputInv
  BY DEF IInv
<1>1. CASE ReadInput
  <2>1. case.nIO \in 1 .. 99 \/ pc' = "over"
    BY <1>0, <1>1, Accepted DEF ReadInput, Step
  <2>2. QED
    BY <1>0, <1>1, <2>1 DEF ReadInput, Step, input, InputInv
<1>2. CASE OpenFile
  BY <1>0, <1>2 DEF OpenFile, Step, Hold, input, query, objects, InputInv
<1>3. CASE QuerySector
  BY <1>0, <1>3 DEF QuerySector, Step, input, query, objects, InputInv
<1>4. CASE OpenAlgorithm
  BY <1>0, <1>4 DEF OpenAlgorithm, Step, Hold, input, query, objects, InputInv
<1>5. CASE GetHashLength
  BY <1>0, <1>5 DEF GetHashLength, Step, input, query, objects, InputInv
<1>6. CASE NewHashFile
  BY <1>0, <1>6 DEF NewHashFile, Step, input, query, objects, InputInv
<1>7. CASE CreateHashFile
  BY <1>0, <1>7 DEF CreateHashFile, Step, Hold, input, query, objects, InputInv
<1>8. CASE MarkHashFile
  BY <1>0, <1>8 DEF MarkHashFile, Step, input, query, objects, InputInv
<1>9. CASE QueryHashSector
  BY <1>0, <1>9 DEF QueryHashSector, Step, input, query, objects, InputInv
<1>10. CASE BindHashFile
  BY <1>0, <1>10 DEF BindHashFile, Step, Hold, input, query, objects, InputInv
<1>11. CASE CloseHashFile
  BY <1>0, <1>11 DEF CloseHashFile, Step, Hold, Deleted, input, query, objects, InputInv
<1>12. CASE BindFile
  BY <1>0, <1>12 DEF BindFile, Step, input, query, objects, InputInv
<1>13. CASE ReleaseHashFile
  BY <1>0, <1>13 DEF ReleaseHashFile, Step, Hold, Deleted, input, query, objects, InputInv
<1>14. CASE CloseAlgorithm
  BY <1>0, <1>14
     DEF CloseAlgorithm, Step, Hold, AfterCloseAlgorithm, input, query, objects, InputInv
<1>15. CASE CloseFile
  BY <1>0, <1>15 DEF CloseFile, Step, Hold, input, query, objects, InputInv
<1>16. CASE CreateRefused
  BY <1>0, <1>16 DEF CreateRefused, Refused, Step, input, query, objects, InputInv
<1>17. CASE Created
  BY <1>0, <1>17 DEF Created, Step, input, query, objects, InputInv
<1>18. CASE Overflow
  BY <1>0, <1>18 DEF Overflow, Asking, Step, input, query, objects, InputInv
<1>19. CASE GotName
  BY <1>0, <1>19 DEF GotName, Asking, Step, input, query, objects, InputInv
<1>20. CASE OtherMode
  BY <1>0, <1>20 DEF OtherMode, Asking, Step, input, query, objects, InputInv
<1>21. CASE CutFileName
  BY <1>0, <1>21 DEF CutFileName, Step, input, query, objects, InputInv
<1>22. CASE OpenDevice
  BY <1>0, <1>22 DEF OpenDevice, Step, Hold, input, query, objects, InputInv
<1>23. CASE AskNumber
  BY <1>0, <1>23 DEF AskNumber, Step, Hold, RootReset, input, query, objects, InputInv
<1>24. CASE OpenDisk
  BY <1>0, <1>24 DEF OpenDisk, Step, Hold, input, query, objects, InputInv
<1>25. CASE AskPenalty
  BY <1>0, <1>25 DEF AskPenalty, Step, Hold, input, query, objects, InputInv
<1>26. CASE QueryRefused
  BY <1>0, <1>26 DEF QueryRefused, GiveUp, Step, input, query, objects, InputInv
<1>27. CASE SeekPenaltyKnown
  BY <1>0, <1>27 DEF SeekPenaltyKnown, Step, input, query, objects, InputInv
<1>28. CASE BoxAnswered
  BY <1>0, <1>28 DEF BoxAnswered, InputInv
<1>29. QED
  BY <1>1, <1>2, <1>3, <1>4, <1>5, <1>6, <1>7, <1>8, <1>9, <1>10, <1>11, <1>12, <1>13,
     <1>14, <1>15, <1>16, <1>17, <1>18, <1>19, <1>20, <1>21, <1>22, <1>23, <1>24,
     <1>25, <1>26, <1>27, <1>28
     DEF Next, GoOn, CreateStep, QueryStep

\* The invariant holds when the user has clicked,
LEMMA InvInit ==
  ASSUME Init
  PROVE  IInv
<1>1. case \in Cases /\ case.nIO \in Nat /\ FirstSize \in Nat
  BY OpeningAssumption DEF Init
<1>2. TypeOK
  <2>1. held \in [{"file", "alg", "hash", "device"} -> {"none", "local", "member"}]
    BY DEF Init
  <2>2. posted \in BOOLEAN /\ volumeMode \in BOOLEAN /\ granted \in BOOLEAN
    BY DEF Init
  <2>3. nIO \in Nat /\ SeekPenalty \in BOOLEAN /\ {cb, rcb, name} \subseteq Nat
    BY <1>1 DEF Init
  <2>4. pHF = "none" /\ onDisk = "none" /\ answer = "none"
    BY DEF Init
  <2>5. QED
    BY <2>1, <2>2, <2>3, <2>4 DEF TypeOK
<1>3. HeldInv /\ HashFileInv
  BY DEF Init, HeldInv, HashFileInv, Holding, Opened, GoingBack
<1>4. StatusInv /\ SectorInv
  BY DEF Init, StatusInv, SectorInv, GoingBack, Opened
<1>5. PenaltyInv /\ InputInv
  BY DEF Init, PenaltyInv, InputInv
<1>6. QED
  BY <1>1, <1>2, <1>3, <1>4, <1>5 DEF IInv

\* and every step keeps it.
LEMMA InvNext ==
  ASSUME IInv, [Next]_vars
  PROVE  IInv'
<1>1. CASE Next
  BY <1>1, CaseNext, TypeNext, HeldNext, HashFileNext, StatusNext, PenaltyNext,
     SectorNext,
     InputNext
     DEF IInv
<1>2. CASE UNCHANGED vars
  <2>1. UNCHANGED <<case, nIO, held, pHF, onDisk, posted, status, cb, rcb, volumeMode, name,
                    root, answer, SeekPenalty, granted, pc>>
    BY <1>2 DEF vars, input, objects, query
  <2>2. TypeOK' /\ PenaltyInv' /\ InputInv'
    BY <2>1 DEF IInv, TypeOK, PenaltyInv, InputInv, ObjectSize
  <2>3. HeldInv' /\ HashFileInv'
    BY <2>1 DEF IInv, HeldInv, HashFileInv, Holding, Opened, GoingBack
  <2>4. StatusInv' /\ SectorInv'
    BY <2>1 DEF IInv, StatusInv, SectorInv, GoingBack, Opened
  <2>5. QED
    BY <2>1, <2>2, <2>3, <2>4 DEF IInv
<1>3. QED
  BY <1>1, <1>2

\* Whatever the user enters and the system answers, OnOk keeps the invariant above.
THEOREM OpeningInvariant == SafeSpec => []IInv
<1>1. Init => IInv
  BY InvInit
<1>2. IInv /\ [Next]_vars => IInv'
  BY InvNext
<1>3. QED
  BY <1>1, <1>2, PTL DEF SafeSpec

\* How many steps OnOk has still to go at most: one for each call, and four questions for
\* a name at most, two in either mode, of which the second has a buffer that suffices.
Rank(p) ==
  CASE p = "input" -> 27 [] p = "open" -> 26 [] p = "sector" -> 25 [] p = "alg" -> 24
    [] p = "hashlen" -> 23 [] p = "new" -> 22 [] p = "hfopen" -> 21
    [] p = "hfmark" -> 20 [] p = "hfsector" -> 19 [] p = "hfbind" -> 18
    [] p = "bind" -> 17 [] p = "hfrelease" -> 16 [] p = "hfclose" -> 15
    [] p = "closealg" -> 14 [] p = "closefile" -> 13 [] p = "return" -> 12
    [] p = "query" -> 8 [] p = "filename" -> 7 [] p = "device" -> 6 [] p = "number" -> 5
    [] p = "disk" -> 4 [] p = "property" -> 3 [] p = "known" -> 2 [] p = "box" -> 1
    [] OTHER -> 0
Unmet == IF (IF volumeMode THEN NameSize ELSE ObjectSize) > Grown THEN 1 ELSE 0
Asked == (IF volumeMode THEN 2 ELSE 0) + Unmet
Left == Rank(pc) + (IF pc = "query" THEN Asked ELSE 0)

\* No length is negative.
LEMMA LengthsNat ==
  ASSUME IInv
  PROVE  {cb, rcb, NameSize, ObjectSize} \subseteq Nat
<1>1. {case.volume, case.file} \subseteq Nat /\ {VolumeHeader, ObjectHeader} \subseteq Nat
  BY OpeningAssumption DEF IInv
<1>2. QED
  BY <1>1 DEF IInv, TypeOK, NameSize, ObjectSize

\* The same question with the same buffer.
AsksAgain == volumeMode /\ case.tooSmall /\ Overflow

\* Each other step is one less.
LEMMA Advances ==
  ASSUME IInv, Next, ~AsksAgain
  PROVE  Left' < Left /\ Left' >= 0
<1>0. Asked \in 0 .. 3 /\ Asked' \in 0 .. 3
  BY DEF Asked, Unmet
<1>1. CASE ReadInput
  BY <1>0, <1>1 DEF ReadInput, Step, Left, Rank
<1>2. CASE OpenFile
  BY <1>0, <1>2 DEF OpenFile, Step, Hold, Left, Rank
<1>3. CASE QuerySector
  BY <1>0, <1>3 DEF QuerySector, Step, Left, Rank
<1>4. CASE OpenAlgorithm
  BY <1>0, <1>4 DEF OpenAlgorithm, Step, Hold, Left, Rank
<1>5. CASE GetHashLength
  BY <1>0, <1>5 DEF GetHashLength, Step, Left, Rank
<1>6. CASE NewHashFile
  BY <1>0, <1>6 DEF NewHashFile, Step, Left, Rank
<1>7. CASE CreateHashFile
  BY <1>0, <1>7 DEF CreateHashFile, Step, Hold, Left, Rank
<1>8. CASE MarkHashFile
  BY <1>0, <1>8 DEF MarkHashFile, Step, Left, Rank
<1>9. CASE QueryHashSector
  BY <1>0, <1>9 DEF QueryHashSector, Step, Left, Rank
<1>10. CASE BindHashFile
  BY <1>0, <1>10 DEF BindHashFile, Step, Hold, Left, Rank
<1>11. CASE CloseHashFile
  BY <1>0, <1>11 DEF CloseHashFile, Step, Hold, Deleted, Left, Rank
<1>12. CASE BindFile
  BY <1>0, <1>12 DEF BindFile, Step, Left, Rank
<1>13. CASE ReleaseHashFile
  BY <1>0, <1>13 DEF ReleaseHashFile, Step, Hold, Deleted, Left, Rank
<1>14. CASE CloseAlgorithm
  BY <1>0, <1>14
     DEF CloseAlgorithm, Step, Hold, AfterCloseAlgorithm, Left, Rank
<1>15. CASE CloseFile
  BY <1>0, <1>15 DEF CloseFile, Step, Hold, Left, Rank
<1>16. CASE CreateRefused
  BY <1>0, <1>16 DEF CreateRefused, Refused, Step, Left, Rank
<1>17. CASE Created
  BY <1>0, <1>17 DEF Created, Step, Left, Rank
<1>18. CASE Overflow
  <2>1. Asked' < Asked
    <3>1. {cb, rcb, NameSize, ObjectSize} \subseteq Nat /\ Grown \in Nat
      BY LengthsNat DEF Grown
    <3>2. /\ UNCHANGED <<volumeMode, case>> /\ cb' = Grown
          /\ rcb' = (IF volumeMode THEN NameSize ELSE ObjectSize)
          /\ (IF volumeMode THEN NameSize ELSE ObjectSize) > Grown
      <4>1. ~NameFits(Grown) <=> NameSize > Grown
        BY <3>1 DEF NameFits, NameSize
      <4>2. QED
        BY <1>18, <4>1 DEF Overflow, Asking, Step, input, AsksAgain
    <3>3. Unmet = 1
      BY <3>2 DEF Unmet
    <3>4. NameSize' = NameSize /\ ObjectSize' = ObjectSize
      BY <3>2 DEF NameSize, ObjectSize
    <3>5. Unmet' = 0
      BY <3>1, <3>2, <3>4 DEF Unmet, Grown
    <3>6. QED
      BY <3>2, <3>3, <3>5 DEF Asked
  <2>2. QED
    BY <1>0, <1>18, <2>1 DEF Overflow, Asking, Step, Left, Rank
<1>19. CASE GotName
  BY <1>0, <1>19 DEF GotName, Asking, Step, Left, Rank
<1>20. CASE OtherMode
  <2>1. Asked' < Asked
    BY <1>20 DEF OtherMode, Asked, Unmet
  <2>2. QED
    BY <1>0, <1>20, <2>1 DEF OtherMode, Asking, Step, Left, Rank
<1>21. CASE CutFileName
  BY <1>0, <1>21 DEF CutFileName, Step, Left, Rank
<1>22. CASE OpenDevice
  BY <1>0, <1>22 DEF OpenDevice, Step, Hold, Left, Rank
<1>23. CASE AskNumber
  BY <1>0, <1>23 DEF AskNumber, Step, Hold, RootReset, Left, Rank
<1>24. CASE OpenDisk
  BY <1>0, <1>24 DEF OpenDisk, Step, Hold, Left, Rank
<1>25. CASE AskPenalty
  BY <1>0, <1>25 DEF AskPenalty, Step, Hold, Left, Rank
<1>26. CASE QueryRefused
  BY <1>0, <1>26 DEF QueryRefused, GiveUp, Step, Left, Rank
<1>27. CASE SeekPenaltyKnown
  BY <1>0, <1>27 DEF SeekPenaltyKnown, Step, Left, Rank
<1>28. CASE BoxAnswered
  BY <1>0, <1>28 DEF BoxAnswered, Left, Rank
<1>29. QED
  BY <1>1, <1>2, <1>3, <1>4, <1>5, <1>6, <1>7, <1>8, <1>9, <1>10, <1>11, <1>12, <1>13,
     <1>14, <1>15, <1>16, <1>17, <1>18, <1>19, <1>20, <1>21, <1>22, <1>23, <1>24,
     <1>25, <1>26, <1>27, <1>28
     DEF Next, GoOn, CreateStep, QueryStep

\* However long the names are, OnOk takes at most 27 steps, whatever is answered but one
\* thing: that the first buffer is too small for a volume's name, in a status with which
\* the loop does not make it larger.
THEOREM OpeningAdvances == SafeSpec => [][(Left' < Left /\ Left' >= 0) \/ AsksAgain]_vars
<1>1. IInv /\ [Next]_vars => [(Left' < Left /\ Left' >= 0) \/ AsksAgain]_vars
  BY Advances
<1>2. QED
  BY <1>1, OpeningInvariant, PTL DEF SafeSpec

\* Whichever call is refused, OnOk ends with a complete task or with no handle, no
\* object and no file left over, but for those CTask::Create is known to lose.
THEOREM OpeningOutcomesClean == SafeSpec => []OutcomesClean
<1>1. ASSUME IInv PROVE OutcomesClean
  <2>1. held \in [{"file", "alg", "hash", "device"} -> {"none", "local", "member"}]
    BY <1>1 DEF IInv, TypeOK
  <2>2. ASSUME pc = "start"
        PROVE  /\ Holds("local") = {}
               /\ IF case.eof = 0 THEN Holds("member") = {} /\ pHF = "none"
                  ELSE Holds("member") = {"file", "alg", "hash"} /\ pHF = "member"
               /\ ~posted
    <3>1. status = "success" /\ ~posted
      BY <1>1, <2>2 DEF IInv, StatusInv, GoingBack, HashFileInv
    <3>2. pHF = IF case.eof = 0 THEN "none" ELSE "member"
      BY <1>1, <2>2 DEF IInv, HashFileInv, Opened
    <3>3. IF case.eof = 0 THEN Holding("none", "none", "none", "none")
                          ELSE Holding("member", "member", "member", "none")
      BY <1>1, <2>2, <3>1 DEF IInv, HeldInv, Opened
    <3>4. Holds("local") = {}
      BY <2>1, <3>3 DEF Holds, Holding
    <3>5. case.eof = 0 => Holds("member") = {}
      BY <2>1, <3>3 DEF Holds, Holding
    <3>6. case.eof # 0 => Holds("member") = {"file", "alg", "hash"}
      BY <2>1, <3>3 DEF Holds, Holding
    <3>7. QED
      BY <3>1, <3>2, <3>4, <3>5, <3>6
  <2>3. ASSUME pc = "over"
        PROVE  /\ Holds("none") = DOMAIN held
               /\ pHF \in {"none", "lost"}
               /\ posted => pHF = "none"
               /\ onDisk \in {"none", "unmarkable"}
    <3>1. Holding("none", "none", "none", "none")
      BY <1>1, <2>3 DEF IInv, HeldInv
    <3>2. Holds("none") = DOMAIN held
      BY <2>1, <3>1 DEF Holds, Holding
    <3>3. QED
      BY <1>1, <2>3, <3>2 DEF IInv, HashFileInv
  <2>4. QED
    BY <1>1, <2>2, <2>3 DEF IInv, OutcomesClean
<1>2. QED
  BY <1>1, OpeningInvariant, PTL

\* For names of any length and either way of asking, the user is asked only about
\* what the disk has reported, and if every call is granted the disk is found.
THEOREM OpeningPenaltyIsTheDisks == SafeSpec => []PenaltyIsTheDisks
<1>1. IInv => PenaltyIsTheDisks
  BY DEF IInv, PenaltyInv, PenaltyIsTheDisks
<1>2. QED
  BY <1>1, OpeningInvariant, PTL

-----------------------------------------------------------------------------
(***************************************************************************)
(* The buffers.                                                            *)
(***************************************************************************)
\* Multiples of m have no remainder, and next to each k there is one.
LEMMA Multiples ==
  ASSUME NEW m \in Nat \ {0}, NEW k \in Nat
  PROVE  /\ (k * m) % m = 0
         /\ k % m \in 0 .. m - 1 /\ (k - (k % m)) % m = 0
<1>1. ASSUME NEW i \in Nat PROVE (i * m) % m = 0
  <2>1. PICK y \in Nat : y = i * m
    OBVIOUS
  <2>2. y = (y \div m) * m + (y % m) /\ y \div m \in Nat /\ y % m \in 0 .. m - 1
    BY <2>1
  <2>3. PICK j \in Nat : j = y \div m
    BY <2>2
  <2>4. ~(j < i)
    <3>1. SUFFICES ASSUME j < i PROVE FALSE
      OBVIOUS
    <3>2. /\ i - j - 1 \in Nat
          /\ (i - j - 1) * m \in Nat
          /\ i * m = j * m + m + (i - j - 1) * m
      BY <3>1
    <3>3. QED
      BY <2>1, <2>2, <2>3, <3>2
  <2>5. ~(i < j)
    <3>1. SUFFICES ASSUME i < j PROVE FALSE
      OBVIOUS
    <3>2. /\ j - i - 1 \in Nat
          /\ (j - i - 1) * m \in Nat
          /\ j * m = i * m + m + (j - i - 1) * m
      BY <3>1
    <3>3. QED
      BY <2>1, <2>2, <2>3, <3>2
  <2>6. y % m = 0
    BY <2>1, <2>2, <2>3, <2>4, <2>5
  <2>7. QED
    BY <2>1, <2>6
<1>2. k = (k \div m) * m + (k % m) /\ k \div m \in Nat /\ k % m \in 0 .. m - 1
  OBVIOUS
<1>3. PICK y \in Nat : y = k - (k % m)
  BY <1>2
<1>4. PICK i \in Nat : y = i * m
  <2>1. PICK i \in Nat : i = k \div m
    BY <1>2
  <2>2. y = i * m
    BY <1>2, <1>3, <2>1
  <2>3. QED
    BY <2>2
<1>5. y % m = 0
  BY <1>1, <1>4
<1>6. QED
  BY <1>1, <1>2, <1>3, <1>5

\* roundUp of util.h.
LEMMA RoundsUp ==
  ASSUME NEW m \in Nat \ {0}, NEW k \in Nat
  PROVE  roundUp(k, m) \in Nat /\ roundUp(k, m) % m = 0
<1>1. k + m - 1 \in Nat
  OBVIOUS
<1>2. PICK i \in Nat : i = (k + m - 1) \div m
  BY <1>1
<1>3. PICK y \in Nat : y = i * m
  OBVIOUS
<1>4. y % m = 0
  BY <1>3, Multiples
<1>5. QED
  BY <1>2, <1>3, <1>4 DEF roundUp

\* GetIoBuffer and GetHashBuffer: what they return is aligned, and lies at most the
\* alignment behind what they start from.
LEMMA Aligns ==
  ASSUME NEW p \in Nat, NEW a \in Nat
  PROVE  Align(p, a) \in Nat /\ Align(p, a) % (a + 1) = 0 /\ Align(p, a) <= p + a
<1>1. PICK k \in Nat, m \in Nat \ {0} : k = p + a /\ m = a + 1
  OBVIOUS
<1>2. k % m \in 0 .. m - 1 /\ (k - (k % m)) % m = 0 /\ k % m <= k
  <2>1. k % m \in 0 .. m - 1 /\ (k - (k % m)) % m = 0
    BY Multiples
  <2>2. k % m <= k
    OBVIOUS
  <2>3. QED
    BY <2>1, <2>2
<1>3. Align(p, a) = k - (k % m)
  BY <1>1 DEF Align
<1>4. PICK z \in Nat : z = Align(p, a)
  BY <1>2, <1>3
<1>5. z % m = 0 /\ z <= k
  BY <1>2, <1>3, <1>4
<1>6. QED
  BY <1>1, <1>4, <1>5

\* The alignments GetSectorSizeAndAligment lets pass, and which the heap and the
\* members of CHashBlock give anyway.
LEMMA Masks ==
  ASSUME NEW a \in Nat, IsMask(a)
  PROVE  a \in {0, 1, 3, 7, 15, 31, 63, 127, 255, 511}
<1>1. PICK k \in 0 .. 9 : a = 2^k - 1
  BY DEF IsMask
<1>2. /\ 2^0 = 1 /\ 2^1 = 2 /\ 2^2 = 4 /\ 2^3 = 8 /\ 2^4 = 16
      /\ 2^5 = 32 /\ 2^6 = 64 /\ 2^7 = 128 /\ 2^8 = 256 /\ 2^9 = 512
  OBVIOUS
<1>3. CASE k = 0
  <2>1. a = 2^0 - 1
    BY <1>1, <1>3
  <2>2. a = 0
    BY <2>1, <1>2
  <2>3. QED
    BY <2>2
<1>4. CASE k = 1
  <2>1. a = 2^1 - 1
    BY <1>1, <1>4
  <2>2. a = 1
    BY <2>1, <1>2
  <2>3. QED
    BY <2>2
<1>5. CASE k = 2
  <2>1. a = 2^2 - 1
    BY <1>1, <1>5
  <2>2. a = 3
    BY <2>1, <1>2
  <2>3. QED
    BY <2>2
<1>6. CASE k = 3
  <2>1. a = 2^3 - 1
    BY <1>1, <1>6
  <2>2. a = 7
    BY <2>1, <1>2
  <2>3. QED
    BY <2>2
<1>7. CASE k = 4
  <2>1. a = 2^4 - 1
    BY <1>1, <1>7
  <2>2. a = 15
    BY <2>1, <1>2
  <2>3. QED
    BY <2>2
<1>8. CASE k = 5
  <2>1. a = 2^5 - 1
    BY <1>1, <1>8
  <2>2. a = 31
    BY <2>1, <1>2
  <2>3. QED
    BY <2>2
<1>9. CASE k = 6
  <2>1. a = 2^6 - 1
    BY <1>1, <1>9
  <2>2. a = 63
    BY <2>1, <1>2
  <2>3. QED
    BY <2>2
<1>10. CASE k = 7
  <2>1. a = 2^7 - 1
    BY <1>1, <1>10
  <2>2. a = 127
    BY <2>1, <1>2
  <2>3. QED
    BY <2>2
<1>11. CASE k = 8
  <2>1. a = 2^8 - 1
    BY <1>1, <1>11
  <2>2. a = 255
    BY <2>1, <1>2
  <2>3. QED
    BY <2>2
<1>12. CASE k = 9
  <2>1. a = 2^9 - 1
    BY <1>1, <1>12
  <2>2. a = 511
    BY <2>1, <1>2
  <2>3. QED
    BY <2>2
<1>13. QED
  BY <1>3, <1>4, <1>5, <1>6, <1>7, <1>8, <1>9, <1>10, <1>11, <1>12

\* For any alignment that passes and any sector, the buffers for unbuffered I/O are
\* aligned as the device asks, whole sectors long, and inside their allocation.
THEOREM OpeningBuffersAligned == SafeSpec => []BuffersAligned
<1>1. ASSUME IInv, pc = "start", case.eof > 0, NEW p \in HeapAddresses
      PROVE  LET io == Align(p, FileAlignment)
                 hb == Align(p + OffsetOfHashes, HashAlignment)
             IN /\ case.cached \/ io % (case.fileAlign + 1) = 0
                /\ io + cbIo <= p + FileAlignment + cbIo
                /\ cbIo % SectorSize = 0
                /\ hb % (case.hashAlign + 1) = 0
                /\ hb <= p + SizeOfCHashBlock + HashAlignment
  <2>1. /\ case \in Cases /\ case.cached \in BOOLEAN
        /\ case.eof \in Nat /\ case.fileAlign \in Nat /\ case.hashAlign \in Nat
        /\ case.fileSector \in Nat \ {0} /\ _64kb \in Nat
    BY <1>1, OpeningAssumption DEF IInv
  <2>2. IsMask(case.fileAlign) /\ IsMask(case.hashAlign)
    BY <1>1, <2>1 DEF IInv, SectorInv, Opened, Valid
  <2>3. PICK k \in 0 .. 63 : p = 16 * k
    BY <1>1 DEF HeapAddresses
  <2>4. p \in Nat /\ p + OffsetOfHashes \in Nat
    BY <2>3 DEF OffsetOfHashes
  <2>5. FileAlignment \in Nat /\ HashAlignment \in Nat
    BY <2>1 DEF FileAlignment, HashAlignment
  <2>6. cbIo \in Nat /\ cbIo % SectorSize = 0
    <3>1. SectorSize \in Nat \ {0}
      BY <2>1 DEF SectorSize
    <3>2. CASE SectorSize < _64kb
      BY <2>1, <3>1, <3>2, RoundsUp DEF cbIo
    <3>3. CASE ~(SectorSize < _64kb)
      <4>1. SectorSize % SectorSize = 0
        BY <3>1
      <4>2. QED
        BY <3>1, <3>3, <4>1 DEF cbIo
    <3>4. QED
      BY <3>2, <3>3
  <2>7. ASSUME ~case.cached PROVE Align(p, FileAlignment) % (case.fileAlign + 1) = 0
    <3>1. CASE case.fileAlign < SizeOfPointer
      <4>1. case.fileAlign \in {0, 1, 3, 7}
        BY <2>1, <2>2, <3>1, Masks DEF SizeOfPointer
      <4>2. p % (case.fileAlign + 1) = 0
        BY <2>3, <4>1
      <4>3. Align(p, FileAlignment) = p
        BY <2>4, <3>1 DEF FileAlignment, Align
      <4>4. QED
        BY <4>2, <4>3
    <3>2. CASE ~(case.fileAlign < SizeOfPointer)
      <4>1. FileAlignment = case.fileAlign
        BY <2>7, <3>2 DEF FileAlignment
      <4>2. QED
        BY <2>1, <2>4, <4>1, Aligns
    <3>3. QED
      BY <3>1, <3>2
  <2>8. Align(p + OffsetOfHashes, HashAlignment) % (case.hashAlign + 1) = 0
    <3>1. CASE case.hashAlign < NaturalAlignment
      <4>1. case.hashAlign \in {0, 1, 3}
        BY <2>1, <2>2, <3>1, Masks DEF NaturalAlignment, SizeOfLong
      <4>2. (p + OffsetOfHashes) % (case.hashAlign + 1) = 0
        BY <2>3, <4>1 DEF OffsetOfHashes
      <4>3. Align(p + OffsetOfHashes, HashAlignment) = p + OffsetOfHashes
        BY <2>4, <3>1 DEF HashAlignment, Align
      <4>4. QED
        BY <4>2, <4>3
    <3>2. CASE ~(case.hashAlign < NaturalAlignment)
      <4>1. HashAlignment = case.hashAlign
        BY <3>2 DEF HashAlignment
      <4>2. QED
        BY <2>1, <2>4, <4>1, Aligns
    <3>3. QED
      BY <3>1, <3>2
  <2>9. /\ Align(p, FileAlignment) \in Nat /\ Align(p, FileAlignment) <= p + FileAlignment
        /\ Align(p + OffsetOfHashes, HashAlignment) \in Nat
        /\ Align(p + OffsetOfHashes, HashAlignment) <= p + OffsetOfHashes + HashAlignment
    BY <2>4, <2>5, Aligns
  <2>10. Align(p, FileAlignment) + cbIo <= p + FileAlignment + cbIo
    BY <2>4, <2>5, <2>6, <2>9
  <2>11. Align(p + OffsetOfHashes, HashAlignment) <= p + SizeOfCHashBlock + HashAlignment
    BY <2>4, <2>5, <2>9 DEF OffsetOfHashes, SizeOfCHashBlock
  <2>12. QED
    BY <2>6, <2>7, <2>8, <2>10, <2>11
<1>2. IInv => BuffersAligned
  BY <1>1 DEF BuffersAligned
<1>3. QED
  BY <1>2, OpeningInvariant, PTL

-----------------------------------------------------------------------------
(***************************************************************************)
(* The integers.                                                           *)
(***************************************************************************)
\* Powers of 2 are doubled one after the other (computed for each of them).
LEMMA Powers ==
  ASSUME NEW k \in 0 .. 33
  PROVE  2^k \in Nat \ {0} /\ 2^(k + 1) = 2 * 2^k
<1>1. CASE k = 0
  BY <1>1
<1>2. CASE k = 1
  BY <1>2
<1>3. CASE k = 2
  BY <1>3
<1>4. CASE k = 3
  BY <1>4
<1>5. CASE k = 4
  BY <1>5
<1>6. CASE k = 5
  BY <1>6
<1>7. CASE k = 6
  BY <1>7
<1>8. CASE k = 7
  BY <1>8
<1>9. CASE k = 8
  BY <1>9
<1>10. CASE k = 9
  BY <1>10
<1>11. CASE k = 10
  BY <1>11
<1>12. CASE k = 11
  BY <1>12
<1>13. CASE k = 12
  BY <1>13
<1>14. CASE k = 13
  BY <1>14
<1>15. CASE k = 14
  BY <1>15
<1>16. CASE k = 15
  BY <1>16
<1>17. CASE k = 16
  BY <1>17
<1>18. CASE k = 17
  BY <1>18
<1>19. CASE k = 18
  BY <1>19
<1>20. CASE k = 19
  BY <1>20
<1>21. CASE k = 20
  BY <1>21
<1>22. CASE k = 21
  BY <1>22
<1>23. CASE k = 22
  BY <1>23
<1>24. CASE k = 23
  BY <1>24
<1>25. CASE k = 24
  BY <1>25
<1>26. CASE k = 25
  BY <1>26
<1>27. CASE k = 26
  BY <1>27
<1>28. CASE k = 27
  BY <1>28
<1>29. CASE k = 28
  BY <1>29
<1>30. CASE k = 29
  BY <1>30
<1>31. CASE k = 30
  BY <1>31
<1>32. CASE k = 31
  BY <1>32
<1>33. CASE k = 32
  BY <1>33
<1>34. CASE k = 33
  BY <1>34
<1>35. QED
  BY <1>1, <1>2, <1>3, <1>4, <1>5, <1>6, <1>7, <1>8, <1>9, <1>10, <1>11, <1>12, <1>13,
     <1>14, <1>15, <1>16, <1>17, <1>18, <1>19, <1>20, <1>21, <1>22, <1>23, <1>24,
     <1>25, <1>26, <1>27, <1>28, <1>29, <1>30, <1>31, <1>32, <1>33, <1>34

\* A set of numbers up to 33 that is not empty has a least element.
LEMMA Least ==
  ASSUME NEW T \in SUBSET (0 .. 33), T # {}
  PROVE  \E s \in T : \A r \in 0 .. s - 1 : r \notin T
<1> DEFINE Settled(k) == \/ \E s \in T : \A r \in 0 .. s - 1 : r \notin T
                         \/ \A r \in 0 .. k : r \notin T
<1>1. ASSUME NEW k \in Nat, Settled(k) PROVE Settled(k + 1)
  <2>1. CASE k + 1 \in T /\ \A r \in 0 .. k : r \notin T
    BY <2>1
  <2>2. CASE k + 1 \notin T /\ \A r \in 0 .. k : r \notin T
    BY <2>2
  <2>3. QED
    BY <1>1, <2>1, <2>2
<1>2. Settled(0)
  <2>1. CASE 0 \in T
    BY <2>1
  <2>2. CASE 0 \notin T
    BY <2>2
  <2>3. QED
    BY <2>1, <2>2
<1>3. Settled(33) => \E s \in T : \A r \in 0 .. s - 1 : r \notin T
  <2>1. ~ \A r \in 0 .. 33 : r \notin T
    OBVIOUS
  <2>2. QED
    BY <2>1
<1> HIDE DEF Settled
<1>4. ASSUME NEW k \in Nat, Settled(k) PROVE Settled(k + 4)
  <2>1. Settled(k + 1)
    BY <1>1, <1>4
  <2>2. Settled(k + 2)
    BY <1>1, <2>1
  <2>3. Settled(k + 3)
    BY <1>1, <2>2
  <2>4. QED
    BY <1>1, <2>3
<1>5. Settled(4) /\ Settled(8) /\ Settled(12) /\ Settled(16)
  <2>1. Settled(4)
    BY <1>2, <1>4
  <2>2. Settled(8)
    BY <1>4, <2>1
  <2>3. Settled(12)
    BY <1>4, <2>2
  <2>4. QED
    BY <1>4, <2>1, <2>2, <2>3
<1>6. Settled(33)
  <2>1. Settled(20)
    BY <1>4, <1>5
  <2>2. Settled(24)
    BY <1>4, <2>1
  <2>3. Settled(28)
    BY <1>4, <2>2
  <2>4. Settled(32)
    BY <1>4, <2>3
  <2>5. QED
    BY <1>1, <2>4
<1>7. QED
  BY <1>6, <1>3

\* A division rounded down.
LEMMA Divided ==
  ASSUME NEW k \in Nat, NEW m \in Nat \ {0}
  PROVE  /\ k \div m \in Nat /\ (k \div m) * m \in Nat
         /\ (k \div m) * m <= k /\ k < (k \div m) * m + m
<1>1. k = (k \div m) * m + (k % m) /\ k \div m \in Nat /\ k % m \in 0 .. m - 1
  OBVIOUS
<1>2. PICK j \in Nat : j = k \div m
  BY <1>1
<1>3. PICK y \in Nat : y = j * m
  BY <1>2
<1>4. k = y + (k % m)
  BY <1>1, <1>2, <1>3
<1>5. QED
  BY <1>1, <1>2, <1>3, <1>4

\* Halves of a quotient: what is shifted once more.
LEMMA Halved ==
  ASSUME NEW k \in Nat, NEW p \in Nat \ {0}, NEW l \in Nat \ {0}, k \div p > l
  PROVE  k \div (2 * p) >= 1
<1>1. PICK q \in Nat : q = k \div p /\ q * p \in Nat /\ q * p <= k
  BY Divided
<1>2. q - 2 \in Nat /\ (q - 2) * p \in Nat /\ q * p = (q - 2) * p + 2 * p
  BY <1>1
<1>3. PICK m \in Nat \ {0} : m = 2 * p
  OBVIOUS
<1>4. PICK j \in Nat : j = k \div m /\ j * m \in Nat /\ k < j * m + m
  BY Divided
<1>5. j # 0
  BY <1>1, <1>2, <1>3, <1>4
<1>6. QED
  BY <1>3, <1>4, <1>5

\* OnOk shifts a count just so far that it becomes a LONG, and something is left of it.
LEMMA ShiftedToLong ==
  ASSUME NEW k \in Nat \ {0}, k < ULONGLONGs
  PROVE  k \div 2^_shift(k) \in 1 .. MAXLONG
<1> DEFINE Fits == {s \in 0 .. 33 : k \div 2^s <= MAXLONG}
           Right(s) == /\ k \div 2^s <= MAXLONG
                       /\ \A r \in 0 .. s - 1 : k \div 2^r > MAXLONG
<1>0. MAXLONG \in Nat \ {0} /\ ULONGLONGs \in Nat \ {0}
  BY OpeningAssumption
<1>1. \A s \in 0 .. 33 : 2^s \in Nat \ {0} /\ k \div 2^s \in Nat
  <2>1. TAKE s \in 0 .. 33
  <2>2. PICK p \in Nat \ {0} : p = 2^s
    BY Powers
  <2>3. QED
    BY <2>2
<1>2. Fits # {}
  <2>1. PICK s \in 0 .. 33 : (ULONGLONGs - 1) \div 2^s <= MAXLONG
    BY OpeningAssumption
  <2>2. PICK p \in Nat \ {0} : p = 2^s
    BY Powers
  <2>3. PICK c \in Nat : c = ULONGLONGs - 1 /\ k <= c
    BY <1>0
  <2>4. k \div p <= c \div p
    <3>1. PICK i \in Nat : i = k \div p /\ i * p \in Nat /\ i * p <= k
      BY Divided
    <3>2. PICK j \in Nat : j = c \div p /\ j * p \in Nat /\ c < j * p + p
      BY Divided
    <3>3. ASSUME j < i PROVE FALSE
      <4>1. i - j - 1 \in Nat /\ (i - j - 1) * p \in Nat
            /\ i * p = j * p + p + (i - j - 1) * p
        BY <3>3
      <4>2. QED
        BY <2>3, <3>1, <3>2, <4>1
    <3>4. QED
      BY <3>1, <3>2, <3>3
  <2>5. k \div p <= MAXLONG
    BY <1>0, <2>1, <2>2, <2>3, <2>4
  <2>6. QED
    BY <2>2, <2>5
<1>3. PICK s \in 0 .. 33 : Right(s)
  <2>1. PICK s \in Fits : \A r \in 0 .. s - 1 : r \notin Fits
    <3> HIDE DEF Fits
    <3>1. Fits \in SUBSET (0 .. 33)
      BY DEF Fits
    <3>2. QED
      BY <1>2, <3>1, Least
  <2>2. ASSUME NEW r \in 0 .. s - 1 PROVE k \div 2^r > MAXLONG
    <3>1. r \in 0 .. 33 /\ r \notin Fits
      BY <2>1
    <3>2. PICK q \in Nat : q = k \div 2^r
      BY <1>1, <3>1
    <3>3. ~(q <= MAXLONG)
      BY <3>1, <3>2
    <3>4. QED
      BY <1>0, <3>2, <3>3
  <2>3. \A r \in 0 .. s - 1 : k \div 2^r > MAXLONG
    BY <2>2
  <2>4. QED
    BY <2>1, <2>3
<1>4. _shift(k) = s
  <2> HIDE DEF Fits
  <2>1. ASSUME NEW t \in 0 .. 63, Right(t) PROVE t = s
    <3>1. PICK q \in Nat : q = k \div 2^s /\ q <= MAXLONG
      BY <1>1, <1>3
    <3>2. ~(s < t)
      <4>1. s < t => s \in 0 .. t - 1
        OBVIOUS
      <4>2. s < t => q > MAXLONG
        BY <2>1, <3>1, <4>1
      <4>3. QED
        BY <1>0, <3>1, <4>2
    <3>3. ~(t < s)
      <4>1. t < s => t \in 0 .. s - 1 /\ t \in 0 .. 33
        OBVIOUS
      <4>2. t < s => k \div 2^t > MAXLONG /\ k \div 2^t <= MAXLONG
        BY <1>3, <2>1, <4>1
      <4>3. SUFFICES ASSUME t < s PROVE FALSE
        OBVIOUS
      <4>4. PICK p \in Nat : p = k \div 2^t
        BY <1>1, <4>1, <4>3
      <4>5. QED
        BY <1>0, <4>2, <4>3, <4>4
    <3>4. QED
      BY <3>2, <3>3
  <2>2. s \in 0 .. 63 /\ Right(s)
    BY <1>3
  <2> HIDE DEF Right
  <2>3. (CHOOSE t \in 0 .. 63 : Right(t)) = s
    BY <2>1, <2>2
  <2>4. QED
    BY <2>3 DEF _shift, Right
<1>5. k \div 2^s >= 1
  <2>1. CASE s = 0
    <3>1. 2^s = 1
      BY <2>1
    <3>2. QED
      BY <3>1
  <2>2. CASE s # 0
    <3>1. PICK r \in 0 .. 32 : s = r + 1
      BY <2>2
    <3>2. PICK p \in Nat \ {0} : p = 2^r /\ 2^s = 2 * p
      <4>1. r \in 0 .. 33
        OBVIOUS
      <4>2. 2^r \in Nat \ {0} /\ 2^(r + 1) = 2 * 2^r
        BY <4>1, Powers
      <4>3. QED
        BY <3>1, <4>2
    <3>3. k \div p > MAXLONG
      BY <1>3, <3>1, <3>2
    <3>4. QED
      BY <1>0, <3>2, <3>3, Halved
  <2>3. QED
    BY <2>1, <2>2
<1>6. PICK q \in Nat : q = k \div 2^s /\ q <= MAXLONG
  BY <1>1, <1>3
<1>7. QED
  BY <1>0, <1>4, <1>5, <1>6

\* The number of pieces of a size that a file has: as computed by Create, if the sum
\* fits into a ULONGLONG.
LEMMA Pieces ==
  ASSUME NEW k \in Nat \ {0}, NEW m \in Nat \ {0}, NEW u \in Nat, k + m - 1 < u
  PROVE  LET q == ((k + m - 1) % u) \div m
         IN q \in Nat /\ q * m \in Nat /\ q * m >= k /\ (q - 1) * m < k /\ q * m <= k + m - 1
<1>1. (k + m - 1) % u = k + m - 1
  OBVIOUS
<1>2. PICK y \in Nat : y = k + m - 1
  OBVIOUS
<1>3. PICK q \in Nat : q = y \div m /\ q * m \in Nat /\ q * m <= y /\ y < q * m + m
  BY Divided
<1>4. (q - 1) * m = q * m - m
  OBVIOUS
<1>5. /\ q * m >= k /\ q * m - m < k /\ q * m <= k + m - 1
  BY <1>2, <1>3
<1>6. QED
  BY <1>1, <1>2, <1>3, <1>4, <1>5

\* The size of a block the user asks for, with the largest for 0, and of a fragment,
\* which is at least 1 Mb.
LEMMA SizesInRange ==
  ASSUME case \in Cases
  PROVE  /\ cbBlock \in Nat \ {0} /\ cbBlock <= ULONGLONGs \div 2
         /\ cbFragment \in Nat \ {0} /\ cbFragment <= ULONGLONGs \div 2
         /\ _1Mb <= cbFragment
<1>1. /\ case.blocks \in Nat /\ case.unit \in 0 .. 30 /\ case.blocks < UINTs
      /\ UINTs * 2^case.unit <= ULONGLONGs \div 4
      /\ UINTs \in Nat /\ ULONGLONGs \in Nat \ {0} /\ _1Mb \in Nat \ {0}
      /\ 4 * _1Mb <= ULONGLONGs
  BY OpeningAssumption
<1>2. PICK u \in Nat \ {0} : u = ULONGLONGs
  BY <1>1
<1>3. Shifted \in Nat /\ Shifted <= u \div 2
  <2>1. case.unit \in 0 .. 33
    BY <1>1
  <2>2. PICK p \in Nat \ {0} : p = 2^case.unit
    BY <2>1, Powers
  <2>3. PICK b \in Nat, w \in Nat : b = case.blocks /\ w = UINTs /\ b < w
    BY <1>1
  <2>4. /\ w - b \in Nat /\ (w - b) * p \in Nat /\ w * p = b * p + (w - b) * p
        /\ b * p \in Nat
    BY <2>3
  <2>5. b * p <= u \div 4
    BY <1>1, <1>2, <2>2, <2>3, <2>4
  <2>6. PICK y \in Nat : y = b * p /\ y <= u \div 4
    BY <2>4, <2>5
  <2>7. y % u = y
    BY <2>6
  <2>8. Shifted = y
    BY <1>2, <2>2, <2>3, <2>6, <2>7 DEF Shifted
  <2>9. QED
    BY <2>6, <2>8
<1>4. cbBlock \in Nat \ {0} /\ cbBlock <= u \div 2
  <2>1. u >= 4
    BY <1>1, <1>2
  <2>2. MAXLONGLONG = (u \div 2) - 1 /\ MAXLONGLONG \in Nat \ {0}
    BY <1>2, <2>1 DEF MAXLONGLONG
  <2>3. QED
    BY <1>3, <2>2 DEF cbBlock
<1>5. cbFragment \in Nat \ {0} /\ cbFragment <= u \div 2 /\ _1Mb <= cbFragment
  <2>1. CASE cbBlock < _1Mb
    <3>1. PICK k \in Nat \ {0}, m \in Nat \ {0} : k = _1Mb /\ m = cbBlock /\ m < k
      BY <1>1, <1>4, <2>1
    <3>2. PICK y \in Nat : y = k + m - 1
      OBVIOUS
    <3>3. PICK q \in Nat : q = y \div m /\ q * m \in Nat /\ q * m <= y /\ y < q * m + m
      BY Divided
    <3>4. q * m >= k /\ q * m <= k + k
      BY <3>1, <3>2, <3>3
    <3>5. cbFragment = q * m
      BY <2>1, <3>1, <3>2, <3>3 DEF cbFragment, roundUp
    <3>6. PICK z \in Nat : z = cbFragment /\ z >= k /\ z <= k + k
      BY <3>3, <3>4, <3>5
    <3>7. QED
      BY <1>1, <1>2, <3>1, <3>6
  <2>2. CASE ~(cbBlock < _1Mb)
    BY <1>1, <1>4, <2>2 DEF cbFragment
  <2>3. QED
    BY <2>1, <2>2
<1>6. QED
  BY <1>2, <1>4, <1>5

\* The sectors that fragments share are at most one for each 1 Mb of the file.
LEMMA SharedSectors ==
  ASSUME case \in Cases, case.eof > 0, cbFragment % SectorSize # 0
  PROVE  \E y \in Nat : y = SectorSize * Cardinality(Straddling) /\ y <= ULONGLONGs \div 2
<1>1. /\ case.eof \in Nat \ {0} /\ case.eof < ULONGLONGs \div 2
      /\ ULONGLONGs \in Nat \ {0} /\ _1Mb \in Nat \ {0} /\ case.fileSector \in Nat \ {0}
      /\ case.cached \/ (case.eof \div _1Mb) * case.fileSector <= ULONGLONGs \div 2
  BY OpeningAssumption
<1>2. PICK k \in Nat \ {0}, u \in Nat \ {0}, m \in Nat \ {0} :
        k = case.eof /\ u = ULONGLONGs /\ k < u \div 2 /\ m = _1Mb
  BY <1>1
<1>3. PICK n \in Nat \ {0} : n = cbFragment /\ n <= u \div 2 /\ m <= n
  BY <1>2, SizesInRange
<1>4. ~case.cached
  <2>1. n % 1 = 0
    OBVIOUS
  <2>2. QED
    BY <1>3, <2>1 DEF SectorSize
<1>5. PICK s \in Nat \ {0} : s = SectorSize /\ (k \div m) * s <= u \div 2
  BY <1>1, <1>2, <1>4 DEF SectorSize
<1>6. PICK r \in Nat : r = Quotient(n) /\ (r - 1) * n < k /\ r * n >= k
  <2>1. k + n - 1 < u
    BY <1>2, <1>3
  <2>2. QED
    BY <1>2, <2>1, Pieces DEF Quotient
<1>7. r # 0
  BY <1>6
<1>8. PICK j \in Nat : j = k \div m /\ k < j * m + m
  BY Divided
<1>9. r - 1 <= j
  <2>1. PICK d \in Nat, p \in Nat : d = n - m /\ p = r - 1
    BY <1>3, <1>7
  <2>2. p * n = p * m + p * d /\ p * d \in Nat /\ p * m \in Nat
    BY <1>3, <2>1
  <2>3. p * m < j * m + m
    BY <1>6, <1>8, <2>1, <2>2
  <2>4. ASSUME j < p PROVE FALSE
    <3>1. PICK e \in Nat : p = j + 1 + e
      BY <2>4
    <3>2. p * m = j * m + m + e * m /\ e * m \in Nat /\ j * m \in Nat
      BY <3>1
    <3>3. QED
      BY <2>3, <3>2
  <2>5. QED
    BY <2>1, <2>4
<1>10. Cardinality(Straddling) \in Nat /\ Cardinality(Straddling) <= j
  <2>1. Straddling \subseteq 1 .. r - 1
    <3>1. ((0 * n) % u) % s = 0
      OBVIOUS
    <3>2. 0 \notin Straddling
      BY <1>2, <1>3, <1>5, <3>1 DEF Straddling
    <3>3. Straddling \subseteq 0 .. r - 1
      BY <1>3, <1>6 DEF Straddling
    <3>4. QED
      BY <1>7, <3>2, <3>3
  <2>2. IsFiniteSet(1 .. r - 1) /\ Cardinality(1 .. r - 1) = r - 1
    <3>1. PICK p \in Nat : p = r - 1
      BY <1>7
    <3>2. IsFiniteSet(1 .. p) /\ Cardinality(1 .. p) = p
      BY FS_Interval
    <3>3. QED
      BY <3>1, <3>2
  <2>3. /\ Cardinality(Straddling) \in Nat
        /\ Cardinality(Straddling) <= Cardinality(1 .. r - 1)
    BY <2>1, <2>2, FS_Subset, FS_CardinalityType
  <2>4. QED
    BY <1>9, <2>2, <2>3
<1>11. PICK c \in Nat, e \in Nat : c = Cardinality(Straddling) /\ j = c + e
  BY <1>10
<1>12. j * s = s * c + e * s /\ s * c \in Nat /\ e * s \in Nat
  BY <1>11
<1>13. s * c <= u \div 2
  BY <1>5, <1>8, <1>12
<1>14. QED
  BY <1>2, <1>5, <1>11, <1>12, <1>13

\* So what is to be processed is counted right, and can be shown.
LEMMA Counted ==
  ASSUME case \in Cases, case.eof > 0
  PROVE  /\ BytesToProcess = IF cbFragment % SectorSize = 0 THEN case.eof
                             ELSE case.eof + SectorSize * Cardinality(Straddling)
         /\ BytesToProcess \div 2^_shift(BytesToProcess) \in 1 .. MAXLONG
<1>1. PICK k \in Nat \ {0}, u \in Nat \ {0} : k = case.eof /\ u = ULONGLONGs /\ k < u \div 2
  BY OpeningAssumption
<1>2. PICK b \in Nat \ {0} :
        /\ b < u /\ BytesToProcess = b
        /\ b = IF cbFragment % SectorSize = 0 THEN case.eof
               ELSE case.eof + SectorSize * Cardinality(Straddling)
  <2>1. CASE cbFragment % SectorSize = 0
    <3>1. k < u /\ BytesToProcess = k
      BY <1>1, <2>1 DEF BytesToProcess
    <3>2. QED
      BY <1>1, <2>1, <3>1
  <2>2. CASE cbFragment % SectorSize # 0
    <3>1. PICK y \in Nat : y = SectorSize * Cardinality(Straddling) /\ y <= u \div 2
      BY <1>1, <2>2, SharedSectors
    <3>2. k + y < u
      BY <1>1, <3>1
    <3>3. (k + y) % u = k + y
      BY <3>2
    <3>4. BytesToProcess = k + y
      BY <1>1, <2>2, <3>1, <3>3 DEF BytesToProcess
    <3>5. QED
      BY <1>1, <2>2, <3>1, <3>2, <3>4
  <2>3. QED
    BY <2>1, <2>2
<1>3. b \div 2^_shift(b) \in 1 .. MAXLONG
  BY <1>1, <1>2, ShiftedToLong
<1>4. QED
  BY <1>2, <1>3

\* Both numbers of pieces are right as well.
LEMMA Numbers ==
  ASSUME case \in Cases, case.eof > 0
  PROVE  /\ Covers(Quotient(cbFragment), cbFragment)
         /\ Covers(Quotient(cbBlock), cbBlock)
         /\ Quotient(cbFragment) * cbFragment < ULONGLONGs
<1>1. case.eof \in Nat \ {0} /\ case.eof < ULONGLONGs \div 2 /\ ULONGLONGs \in Nat \ {0}
  BY OpeningAssumption
<1>2. PICK k \in Nat \ {0}, u \in Nat \ {0} : k = case.eof /\ u = ULONGLONGs /\ k < u \div 2
  BY <1>1
<1>3. PICK m \in Nat \ {0} : m = cbBlock /\ m <= u \div 2
  BY <1>2, SizesInRange
<1>4. PICK n \in Nat \ {0} : n = cbFragment /\ n <= u \div 2
  BY <1>2, SizesInRange
<1>5. k + m - 1 < u /\ k + n - 1 < u
  BY <1>2, <1>3, <1>4
<1>6. PICK q \in Nat : /\ q = Quotient(m)
                       /\ q * m \in Nat /\ q * m >= k /\ (q - 1) * m < k
  BY <1>2, <1>5, Pieces DEF Quotient
<1>7. PICK r \in Nat : /\ r = Quotient(n)
                       /\ r * n \in Nat /\ r * n >= k /\ (r - 1) * n < k
                       /\ r * n <= k + n - 1
  BY <1>2, <1>5, Pieces DEF Quotient
<1>8. r * n < u
  BY <1>5, <1>7
<1>9. QED
  BY <1>2, <1>3, <1>4, <1>6, <1>7, <1>8 DEF Covers

\* For a block of any number a field can hold, in KB, MB or GB or of no bound, a file of
\* any size, sectors of up to 1 Mb and any number of I/Os: the unsigned arithmetic of
\* OnOk, CTask::Create, SetBytesToProcess and CFragment::Start does not wrap around.
THEOREM OpeningNumbersExact == SafeSpec => []NumbersExact
<1>1. ASSUME IInv, pc = "start", case.eof > 0
      PROVE  /\ Covers(Quotient(cbFragment), cbFragment)
             /\ Covers(Quotient(cbBlock), cbBlock)
             /\ Quotient(cbFragment) * cbFragment < ULONGLONGs
             /\ nIO \in 1 .. 99
             /\ BytesToProcess = IF cbFragment % SectorSize = 0 THEN case.eof
                                 ELSE case.eof + SectorSize * Cardinality(Straddling)
             /\ BytesToProcess \div 2^_shift(BytesToProcess) \in 1 .. MAXLONG
  <2>1. nIO \in 1 .. 99
    BY <1>1 DEF IInv, InputInv
  <2>2. QED
    BY <1>1, <2>1, Numbers, Counted DEF IInv
<1>2. IInv => NumbersExact
  BY <1>1 DEF NumbersExact
<1>3. QED
  BY <1>2, OpeningInvariant, PTL
=============================================================================

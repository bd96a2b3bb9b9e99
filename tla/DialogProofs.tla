---------------------------- MODULE DialogProofs ----------------------------
(***************************************************************************)
(* Proofs about FileHash.cpp for any number of CTasks and of message boxes *)
(* inside each other.                                                      *)
(***************************************************************************)
EXTENDS Dialog, SequenceTheorems, TLAPS

\* The question about the seek penalty is asked while no other box is open, and
\* of a task that has not been started; no box is open while there is a task.
BoxesInv ==
  /\ \A i \in DOMAIN boxes :
       boxes[i].kind = "seek" => i = 1 /\ boxes[i].task \in Tasks \ started
  /\ boxes # <<>> => _pTask = None
  /\ dialog = "closed" => boxes = <<>>

\* Between WM_DONE and the end of its box there is neither a task nor a button to
\* make one.
ButtonsInv ==
  /\ okEnabled => _pTask = None
  /\ _bTimerActive => _pTask # None
  /\ okEnabled \/ _pTask # None \/ \E i \in DOMAIN boxes : boxes[i].kind \in {"done", "fail"}

\* A CHashFile that may still post its WM_DONE is that of _pTask; once it has
\* posted it, this is the only message.
QueueInv ==
  /\ \A t \in Tasks : pHF[t] # "none" => t = _pTask \/ (t \in Asking /\ pHF[t] = "open")
  /\ _pTask # None /\ queue # <<>> =>
       Tail(queue) = <<>> /\ Head(queue).task = _pTask /\ pHF[_pTask] = "none"
  /\ ClosedAtRest

IInv == RefsExact /\ BoxesInv /\ ButtonsInv /\ QueueInv
-----------------------------------------------------------------------------
(***************************************************************************)
(* The stack of message boxes.                                             *)
(***************************************************************************)
Boxes == [kind : {"seek", "error", "done", "fail"}, task : Tasks \cup {None}]
Messages == [task : Tasks \cup {None}, status : Status]

\* The tasks the boxes of a stack ask about.
Seeks(s) == {s[i].task : i \in {j \in DOMAIN s : s[j].kind = "seek"}}
AsksOf(b) == IF b.kind = "seek" THEN {b.task} ELSE {}

\* A box is shown.
LEMMA BoxShown ==
  ASSUME NEW s \in Seq(Boxes), NEW b \in Boxes
  PROVE  /\ Append(s, b) \in Seq(Boxes) /\ Append(s, b) # <<>>
         /\ DOMAIN s = 1 .. Len(s) /\ Len(s) \in Nat
         /\ DOMAIN Append(s, b) = 1 .. Len(s) + 1
         /\ \A i \in 1 .. Len(s) : Append(s, b)[i] = s[i]
         /\ Append(s, b)[Len(s) + 1] = b
         /\ Seeks(Append(s, b)) = Seeks(s) \cup AsksOf(b)
<1>1. /\ Append(s, b) \in Seq(Boxes) /\ Append(s, b) # <<>>
      /\ DOMAIN s = 1 .. Len(s) /\ Len(s) \in Nat
      /\ DOMAIN Append(s, b) = 1 .. Len(s) + 1
      /\ \A i \in 1 .. Len(s) : Append(s, b)[i] = s[i]
      /\ Append(s, b)[Len(s) + 1] = b
  BY AppendProperties, LenProperties
<1>2. Seeks(Append(s, b)) = Seeks(s) \cup AsksOf(b)
  BY <1>1 DEF Seeks, AsksOf
<1>3. QED
  BY <1>1, <1>2

\* The box on top is answered.
LEMMA BoxAnswered ==
  ASSUME NEW s \in Seq(Boxes), s # <<>>, NEW r, r = SubSeq(s, 1, Len(s) - 1)
  PROVE  /\ r \in Seq(Boxes) /\ s[Len(s)] \in Boxes
         /\ Len(s) \in Nat \ {0} /\ DOMAIN s = 1 .. Len(s)
         /\ DOMAIN r = 1 .. Len(s) - 1
         /\ \A i \in 1 .. Len(s) - 1 : r[i] = s[i]
         /\ Seeks(s) = Seeks(r) \cup AsksOf(s[Len(s)])
<1>1. Len(s) \in Nat \ {0} /\ DOMAIN s = 1 .. Len(s) /\ \A i \in 1 .. Len(s) : s[i] \in Boxes
  BY EmptySeq, LenProperties, ElementOfSeq
<1>2. /\ r \in Seq(Boxes) /\ Len(r) = Len(s) - 1
      /\ \A i \in 1 .. Len(s) - 1 : r[i] = s[i]
  <2>1. Len(s) - 1 \in Int /\ \A i \in 1 .. Len(s) - 1 : s[i] \in Boxes
    BY <1>1
  <2>2. /\ r \in Seq(Boxes)
        /\ Len(r) = IF 1 <= Len(s) - 1 THEN Len(s) - 1 - 1 + 1 ELSE 0
        /\ \A i \in 1 .. Len(s) - 1 - 1 + 1 : r[i] = s[1 + i - 1]
    BY <2>1, SubSeqProperties
  <2>3. QED
    BY <1>1, <2>2
<1>3. DOMAIN r = 1 .. Len(s) - 1
  BY <1>2, LenProperties
<1>4. 1 .. Len(s) = (1 .. Len(s) - 1) \cup {Len(s)}
  BY <1>1
<1>5. Seeks(s) = Seeks(r) \cup AsksOf(s[Len(s)])
  <2>1. ASSUME NEW t, t \in Seeks(s) PROVE t \in Seeks(r) \cup AsksOf(s[Len(s)])
    <3>1. PICK i \in 1 .. Len(s) : s[i].kind = "seek" /\ s[i].task = t
      BY <1>1, <2>1 DEF Seeks
    <3>2. CASE i = Len(s)
      BY <3>1, <3>2 DEF AsksOf
    <3>3. CASE i \in 1 .. Len(s) - 1
      BY <1>2, <1>3, <3>1, <3>3 DEF Seeks
    <3>4. QED
      BY <1>4, <3>2, <3>3
  <2>2. ASSUME NEW t, t \in Seeks(r) PROVE t \in Seeks(s)
    <3>1. PICK i \in 1 .. Len(s) - 1 : r[i].kind = "seek" /\ r[i].task = t
      BY <1>3, <2>2 DEF Seeks
    <3>2. i \in DOMAIN s /\ s[i] = r[i]
      BY <1>1, <1>2, <1>4, <3>1
    <3>3. QED
      BY <3>1, <3>2 DEF Seeks
  <2>3. AsksOf(s[Len(s)]) \subseteq Seeks(s)
    BY <1>1 DEF AsksOf, Seeks
  <2>4. QED
    BY <2>1, <2>2, <2>3
<1>6. QED
  BY <1>1, <1>2, <1>3, <1>5

\* With no box open nobody is asked about.
LEMMA NothingAsked == boxes = <<>> => Asking = {}
BY DEF Asking

\* What the guards call Asking is a property of the stack of boxes alone, before and
\* after a step.
LEMMA AskingIsSeeks == Asking = Seeks(boxes) /\ Asking' = Seeks(boxes')
BY DEF Asking, Seeks

-----------------------------------------------------------------------------
(***************************************************************************)
(* The steps.                                                              *)
(***************************************************************************)
\* What the user does.
LEMMA UserStep == IInv /\ User => IInv'
<1> SUFFICES ASSUME IInv, User PROVE IInv'
  OBVIOUS
<1> USE DialogAssumption DEF None
<1>1. RefsExact /\ TypeOK /\ BoxesInv /\ ButtonsInv /\ QueueInv
  BY DEF IInv, RefsExact
<1>2. CASE CreateFails
  <2>1. /\ boxes = <<>>
        /\ queue = <<>>
        /\ _pTask = None
        /\ okEnabled
        /\ Asking = {}
        /\ dialog = "open"
    BY <1>2, NothingAsked DEF CreateFails, OnOk, Input
  <2>2. AsksOf(Box("error", None)) = {}
    BY DEF AsksOf, Box
  <2>3. /\ boxes \in Seq(Boxes)
        /\ Box("error", None) \in Boxes
        /\ boxes' = Append(boxes, Box("error", None))
    BY <1>1, <1>2 DEF TypeOK, Boxes, Box, CreateFails
  <2>4. /\ boxes' \in Seq(Boxes) /\ boxes' # <<>> /\ Asking' = Asking
        /\ Len(boxes) \in Nat
        /\ DOMAIN boxes = 1 .. Len(boxes) /\ DOMAIN boxes' = 1 .. Len(boxes) + 1
        /\ \A i \in 1 .. Len(boxes) : boxes'[i] = boxes[i]
        /\ boxes'[Len(boxes) + 1] = Box("error", None)
    BY <2>2, <2>3, BoxShown, AskingIsSeeks
  <2>5. TypeOK'
    BY <1>1, <1>2, <2>1, <2>2, <2>3, <2>4
       DEF TypeOK, Boxes, Messages, Box, WM_DONE, Status, CreateFails, windowVars,
          taskVars
  <2>6. RefsExact'
    BY <1>1, <1>2, <2>1, <2>2, <2>3, <2>4, <2>5
       DEF RefsExact, TypeOK, CreateFails, windowVars, taskVars
  <2>7. BoxesInv'
    BY <1>1, <1>2, <2>1, <2>2, <2>3, <2>4
       DEF BoxesInv, TypeOK, Box, CreateFails, windowVars, taskVars
  <2>8. ButtonsInv'
    BY <1>1, <1>2, <2>1, <2>2, <2>3, <2>4
       DEF ButtonsInv, TypeOK, BoxesInv, Box, CreateFails, windowVars, taskVars
  <2>9. QueueInv'
    BY <1>1, <1>2, <2>1, <2>2, <2>3, <2>4
       DEF QueueInv, TypeOK, BoxesInv, CreateFails, windowVars, taskVars,
          ClosedAtRest
  <2>10. QED
    BY <2>6, <2>7, <2>8, <2>9 DEF IInv
<1>3. CASE BindFails
  <2>1. /\ boxes = <<>>
        /\ queue = <<>>
        /\ _pTask = None
        /\ okEnabled
        /\ Asking = {}
        /\ dialog = "open"
    BY <1>3, NothingAsked DEF BindFails, OnOk, Input
  <2>2. queue' = <<WM_DONE(None, "success")>>
    BY <2>1, <1>3 DEF BindFails
  <2>3. AsksOf(Box("error", None)) = {}
    BY DEF AsksOf, Box
  <2>4. /\ boxes \in Seq(Boxes)
        /\ Box("error", None) \in Boxes
        /\ boxes' = Append(boxes, Box("error", None))
    BY <1>1, <1>3 DEF TypeOK, Boxes, Box, BindFails
  <2>5. /\ boxes' \in Seq(Boxes) /\ boxes' # <<>> /\ Asking' = Asking
        /\ Len(boxes) \in Nat
        /\ DOMAIN boxes = 1 .. Len(boxes) /\ DOMAIN boxes' = 1 .. Len(boxes) + 1
        /\ \A i \in 1 .. Len(boxes) : boxes'[i] = boxes[i]
        /\ boxes'[Len(boxes) + 1] = Box("error", None)
    BY <2>3, <2>4, BoxShown, AskingIsSeeks
  <2>6. TypeOK'
    BY <1>1, <1>3, <2>1, <2>2, <2>3, <2>4, <2>5
       DEF TypeOK, Boxes, Messages, Box, WM_DONE, Status, BindFails, windowVars,
          taskVars
  <2>7. RefsExact'
    BY <1>1, <1>3, <2>1, <2>2, <2>3, <2>4, <2>5, <2>6
       DEF RefsExact, TypeOK, BindFails, windowVars, taskVars
  <2>8. BoxesInv'
    BY <1>1, <1>3, <2>1, <2>2, <2>3, <2>4, <2>5
       DEF BoxesInv, TypeOK, Box, BindFails, windowVars, taskVars
  <2>9. ButtonsInv'
    BY <1>1, <1>3, <2>1, <2>2, <2>3, <2>4, <2>5
       DEF ButtonsInv, TypeOK, BoxesInv, Box, BindFails, windowVars, taskVars
  <2>10. QueueInv'
    BY <1>1, <1>3, <2>1, <2>2, <2>3, <2>4, <2>5
       DEF QueueInv, TypeOK, BoxesInv, BindFails, windowVars, taskVars, ClosedAtRest
  <2>11. QED
    BY <2>7, <2>8, <2>9, <2>10 DEF IInv
<1>4. CASE Cancel
  <2>1. boxes = <<>> /\ queue = <<>> /\ _pTask = None /\ Asking = {}
    BY <1>4, NothingAsked DEF Cancel, Input, MayClose
  <2>2. Asking' = Asking
    BY <1>4 DEF Cancel, Asking
  <2>3. TypeOK'
    BY <1>1, <1>4, <2>1, <2>2
       DEF TypeOK, Boxes, Messages, Box, WM_DONE, Status, Cancel, windowVars,
          taskVars
  <2>4. RefsExact'
    BY <1>1, <1>4, <2>1, <2>2, <2>3 DEF RefsExact, TypeOK, Cancel, windowVars, taskVars
  <2>5. BoxesInv'
    BY <1>1, <1>4, <2>1, <2>2 DEF BoxesInv, TypeOK, Box, Cancel, windowVars, taskVars
  <2>6. ButtonsInv'
    BY <1>1, <1>4, <2>1, <2>2
       DEF ButtonsInv, TypeOK, BoxesInv, Box, Cancel, windowVars, taskVars
  <2>7. QueueInv'
    BY <1>1, <1>4, <2>1, <2>2
       DEF QueueInv, TypeOK, BoxesInv, Cancel, windowVars, taskVars, ClosedAtRest
  <2>8. QED
    BY <2>4, <2>5, <2>6, <2>7 DEF IInv
<1>5. ASSUME NEW t \in Tasks, OnOkStarts(t) PROVE IInv'
  <2>1. /\ boxes = <<>>
        /\ queue = <<>>
        /\ _pTask = None
        /\ okEnabled
        /\ Asking = {}
        /\ dialog = "open"
    BY <1>5, NothingAsked DEF OnOkStarts, OnOk, Input
  <2>2. Asking' = {}
    BY <2>1, <1>5 DEF OnOkStarts, Asking
  <2>3. TypeOK'
    BY <1>1, <1>5, <2>1, <2>2
       DEF TypeOK, Boxes, Messages, Box, WM_DONE, Status, OnOkStarts, NewTask,
          Create, Begin, StartRef, windowVars, taskVars
  <2>4. RefsExact'
    BY <1>1, <1>5, <2>1, <2>2, <2>3
       DEF RefsExact, TypeOK, OnOkStarts, NewTask, Create, Begin, StartRef,
          windowVars, taskVars
  <2>5. BoxesInv'
    BY <1>1, <1>5, <2>1, <2>2
       DEF BoxesInv, TypeOK, Box, OnOkStarts, NewTask, Create, Begin, StartRef,
          windowVars, taskVars
  <2>6. ButtonsInv'
    BY <1>1, <1>5, <2>1, <2>2
       DEF ButtonsInv, TypeOK, BoxesInv, Box, OnOkStarts, NewTask, Create, Begin,
          StartRef, windowVars, taskVars
  <2>7. QueueInv'
    BY <1>1, <1>5, <2>1, <2>2
       DEF QueueInv, TypeOK, BoxesInv, OnOkStarts, NewTask, Create, Begin, StartRef,
          windowVars, taskVars, ClosedAtRest
  <2>8. QED
    BY <2>4, <2>5, <2>6, <2>7 DEF IInv
<1>6. ASSUME NEW t \in Tasks, OnOkAsks(t) PROVE IInv'
  <2>1. /\ boxes = <<>>
        /\ queue = <<>>
        /\ _pTask = None
        /\ okEnabled
        /\ Asking = {}
        /\ dialog = "open"
    BY <1>6, NothingAsked DEF OnOkAsks, OnOk, Input
  <2>2. /\ boxes \in Seq(Boxes)
        /\ Box("seek", t) \in Boxes
        /\ boxes' = Append(boxes, Box("seek", t))
    BY <1>1, <1>6 DEF TypeOK, Boxes, Box, OnOkAsks
  <2>3. /\ boxes' \in Seq(Boxes) /\ boxes' # <<>> /\ Asking' = Asking \cup {t}
        /\ Len(boxes) \in Nat
        /\ DOMAIN boxes = 1 .. Len(boxes) /\ DOMAIN boxes' = 1 .. Len(boxes) + 1
        /\ \A i \in 1 .. Len(boxes) : boxes'[i] = boxes[i]
        /\ boxes'[Len(boxes) + 1] = Box("seek", t)
    BY <2>2, BoxShown, AskingIsSeeks DEF AsksOf, Box
  <2>4. TypeOK'
    BY <1>1, <1>6, <2>1, <2>2, <2>3
       DEF TypeOK, Boxes, Messages, Box, WM_DONE, Status, OnOkAsks, NewTask, Create,
          windowVars, taskVars
  <2>5. RefsExact'
    BY <1>1, <1>6, <2>1, <2>2, <2>3, <2>4
       DEF RefsExact, TypeOK, OnOkAsks, NewTask, Create, windowVars, taskVars
  <2>6. BoxesInv'
    BY <1>1, <1>6, <2>1, <2>2, <2>3
       DEF BoxesInv, TypeOK, Box, OnOkAsks, NewTask, Create, windowVars, taskVars
  <2>7. ButtonsInv'
    BY <1>1, <1>6, <2>1, <2>2, <2>3
       DEF ButtonsInv, TypeOK, BoxesInv, Box, OnOkAsks, NewTask, Create, windowVars,
          taskVars
  <2>8. QueueInv'
    BY <1>1, <1>6, <2>1, <2>2, <2>3
       DEF QueueInv, TypeOK, BoxesInv, OnOkAsks, NewTask, Create, windowVars,
          taskVars, ClosedAtRest
  <2>9. QED
    BY <2>5, <2>6, <2>7, <2>8 DEF IInv
<1>7. QED
  BY <1>2, <1>3, <1>4, <1>5, <1>6 DEF User

\* What the messages and the answers to the boxes do.
LEMMA WindowStep == IInv /\ Window => IInv'
<1> SUFFICES ASSUME IInv, Window PROVE IInv'
  OBVIOUS
<1> USE DialogAssumption DEF None
<1>1. RefsExact /\ TypeOK /\ BoxesInv /\ ButtonsInv /\ QueueInv
  BY DEF IInv, RefsExact
<1>2. CASE SeekAnswered
  <2>1. boxes # <<>> /\ queue = <<>> /\ boxes' = SubSeq(boxes, 1, Len(boxes) - 1)
    BY <1>2 DEF SeekAnswered, Answers, Below
  <2>2. /\ boxes' \in Seq(Boxes) /\ boxes[Len(boxes)] \in Boxes
        /\ Len(boxes) \in Nat \ {0} /\ DOMAIN boxes = 1 .. Len(boxes)
        /\ DOMAIN boxes' = 1 .. Len(boxes) - 1
        /\ \A i \in 1 .. Len(boxes) - 1 : boxes'[i] = boxes[i]
        /\ Seeks(boxes) = Seeks(boxes') \cup AsksOf(boxes[Len(boxes)])
    <3>1. boxes \in Seq(Boxes)
      BY <1>1 DEF TypeOK, Boxes
    <3>2. QED
      BY <2>1, <3>1, BoxAnswered
  <2>3. Top.kind = "seek" /\ Top.task \in Tasks \ started /\ Len(boxes) = 1 /\ _pTask = None
    BY <1>1, <1>2, <2>1, <2>2 DEF SeekAnswered, Answers, Top, BoxesInv
  <2>4. boxes' = <<>>
    BY <2>2, <2>3, EmptySeq, LenProperties
  <2>5. Asking' = {} /\ Asking = {Top.task}
    <3>1. Seeks(boxes') = {}
      BY <2>4 DEF Seeks
    <3>2. AsksOf(boxes[Len(boxes)]) = {Top.task}
      BY <2>3 DEF AsksOf, Top
    <3>3. QED
      BY <2>2, <3>1, <3>2, AskingIsSeeks
  <2>6. PICK t \in Tasks : t = Top.task /\ t \notin started
    BY <2>3
  <2>7. TypeOK'
    BY <1>1, <1>2, <2>1, <2>2, <2>3, <2>4, <2>5, <2>6
       DEF TypeOK, Boxes, Messages, Box, WM_DONE, Status, SeekAnswered, Begin,
          StartRef, windowVars, taskVars
  <2>8. RefsExact'
    <3>1. \A u \in Tasks : refs'[u] = IF u = t THEN 2 ELSE refs[u]
      BY <1>1, <1>2, <2>6 DEF TypeOK, SeekAnswered, Begin, StartRef
    <3>2. _pTask' = t /\ started' = started \cup {t}
      BY <1>2, <2>6 DEF SeekAnswered, Begin
    <3>3. QED
      BY <1>1, <2>3, <2>5, <2>6, <3>1, <3>2, <2>7 DEF RefsExact
  <2>9. BoxesInv'
    BY <1>1, <1>2, <2>1, <2>2, <2>3, <2>4, <2>5, <2>6
       DEF BoxesInv, TypeOK, Box, SeekAnswered, Begin, StartRef, windowVars,
          taskVars
  <2>10. ButtonsInv'
    BY <1>1, <1>2, <2>1, <2>2, <2>3, <2>4, <2>5, <2>6
       DEF ButtonsInv, TypeOK, BoxesInv, Box, SeekAnswered, Begin, StartRef,
          windowVars, taskVars
  <2>11. QueueInv'
    BY <1>1, <1>2, <2>1, <2>2, <2>3, <2>4, <2>5, <2>6
       DEF QueueInv, TypeOK, BoxesInv, SeekAnswered, Begin, StartRef, windowVars,
          taskVars, ClosedAtRest
  <2>12. QED
    BY <2>8, <2>9, <2>10, <2>11 DEF IInv
<1>3. CASE ErrorRead
  <2>1. boxes # <<>> /\ queue = <<>> /\ boxes' = SubSeq(boxes, 1, Len(boxes) - 1)
    BY <1>3 DEF ErrorRead, Answers, Below
  <2>2. /\ boxes' \in Seq(Boxes) /\ boxes[Len(boxes)] \in Boxes
        /\ Len(boxes) \in Nat \ {0} /\ DOMAIN boxes = 1 .. Len(boxes)
        /\ DOMAIN boxes' = 1 .. Len(boxes) - 1
        /\ \A i \in 1 .. Len(boxes) - 1 : boxes'[i] = boxes[i]
        /\ Seeks(boxes) = Seeks(boxes') \cup AsksOf(boxes[Len(boxes)])
    <3>1. boxes \in Seq(Boxes)
      BY <1>1 DEF TypeOK, Boxes
    <3>2. QED
      BY <2>1, <3>1, BoxAnswered
  <2>3. Top.kind \in {"error"} /\ Asking' = Asking
    BY <1>3, <2>2, AskingIsSeeks DEF ErrorRead, Answers, Top, AsksOf
  <2>4. Top = boxes[Len(boxes)]
    BY DEF Top
  <2>5. TypeOK'
    BY <1>1, <1>3, <2>1, <2>2, <2>3, <2>4
       DEF TypeOK, Boxes, Messages, Box, WM_DONE, Status, ErrorRead, windowVars,
          taskVars
  <2>6. RefsExact'
    BY <1>1, <1>3, <2>1, <2>2, <2>3, <2>4, <2>5
       DEF RefsExact, TypeOK, ErrorRead, windowVars, taskVars
  <2>7. BoxesInv'
    BY <1>1, <1>3, <2>1, <2>2, <2>3, <2>4
       DEF BoxesInv, TypeOK, Box, ErrorRead, windowVars, taskVars
  <2>8. ButtonsInv'
    <3>1. \A i \in DOMAIN boxes : boxes[i].kind \in {"done", "fail"} => i \in 1 .. Len(boxes) - 1
      BY <2>2, <2>3, <2>4
    <3>2. (\E i \in DOMAIN boxes : boxes[i].kind \in {"done", "fail"})
            => \E i \in DOMAIN boxes' : boxes'[i].kind \in {"done", "fail"}
      BY <2>2, <3>1
    <3>3. QED
      BY <1>1, <1>3, <3>2 DEF ButtonsInv, ErrorRead
  <2>9. QueueInv'
    BY <1>1, <1>3, <2>1, <2>2, <2>3, <2>4
       DEF QueueInv, TypeOK, BoxesInv, ErrorRead, windowVars, taskVars, ClosedAtRest
  <2>10. QED
    BY <2>6, <2>7, <2>8, <2>9 DEF IInv
<1>4. CASE DoneRead
  <2>1. boxes # <<>> /\ queue = <<>> /\ boxes' = SubSeq(boxes, 1, Len(boxes) - 1)
    BY <1>4 DEF DoneRead, Answers, Below
  <2>2. /\ boxes' \in Seq(Boxes) /\ boxes[Len(boxes)] \in Boxes
        /\ Len(boxes) \in Nat \ {0} /\ DOMAIN boxes = 1 .. Len(boxes)
        /\ DOMAIN boxes' = 1 .. Len(boxes) - 1
        /\ \A i \in 1 .. Len(boxes) - 1 : boxes'[i] = boxes[i]
        /\ Seeks(boxes) = Seeks(boxes') \cup AsksOf(boxes[Len(boxes)])
    <3>1. boxes \in Seq(Boxes)
      BY <1>1 DEF TypeOK, Boxes
    <3>2. QED
      BY <2>1, <3>1, BoxAnswered
  <2>3. Top.kind \in {"done", "fail"} /\ Asking' = Asking
    BY <1>4, <2>2, AskingIsSeeks DEF DoneRead, Answers, Top, AsksOf
  <2>4. Top = boxes[Len(boxes)]
    BY DEF Top
  <2>5. TypeOK'
    BY <1>1, <1>4, <2>1, <2>2, <2>3, <2>4
       DEF TypeOK, Boxes, Messages, Box, WM_DONE, Status, DoneRead, EnabledAfterBox,
          windowVars, taskVars
  <2>6. RefsExact'
    BY <1>1, <1>4, <2>1, <2>2, <2>3, <2>4, <2>5
       DEF RefsExact, TypeOK, DoneRead, EnabledAfterBox, windowVars, taskVars
  <2>7. BoxesInv'
    BY <1>1, <1>4, <2>1, <2>2, <2>3, <2>4
       DEF BoxesInv, TypeOK, Box, DoneRead, EnabledAfterBox, windowVars, taskVars
  <2>8. ButtonsInv'
    BY <1>1, <1>4, <2>1, <2>2, <2>3, <2>4
       DEF ButtonsInv, TypeOK, BoxesInv, Box, DoneRead, EnabledAfterBox, windowVars,
          taskVars
  <2>9. QueueInv'
    BY <1>1, <1>4, <2>1, <2>2, <2>3, <2>4
       DEF QueueInv, TypeOK, BoxesInv, DoneRead, EnabledAfterBox, windowVars,
          taskVars, ClosedAtRest
  <2>10. QED
    BY <2>6, <2>7, <2>8, <2>9 DEF IInv
<1>5. CASE HandleDone
  <2>1. /\ queue # <<>>
        /\ queue \in Seq(Messages)
        /\ queue' = Tail(queue)
        /\ queue' \in Seq(Messages)
    BY <1>1, <1>5, HeadTailProperties DEF TypeOK, Messages, HandleDone
  <2>2. PICK b \in Boxes :
          boxes' = Append(boxes, b) /\ b.kind \in {"done", "fail"} /\ AsksOf(b) = {}
    BY <1>5 DEF HandleDone, Boxes, Box, AsksOf
  <2>3. /\ boxes' \in Seq(Boxes) /\ boxes' # <<>> /\ Asking' = Asking
        /\ Len(boxes) \in Nat
        /\ DOMAIN boxes = 1 .. Len(boxes) /\ DOMAIN boxes' = 1 .. Len(boxes) + 1
        /\ \A i \in 1 .. Len(boxes) : boxes'[i] = boxes[i]
        /\ boxes'[Len(boxes) + 1] = b
    <3>1. boxes \in Seq(Boxes)
      BY <1>1 DEF TypeOK, Boxes
    <3>2. /\ Append(boxes, b) \in Seq(Boxes) /\ Append(boxes, b) # <<>>
          /\ DOMAIN boxes = 1 .. Len(boxes) /\ Len(boxes) \in Nat
          /\ DOMAIN Append(boxes, b) = 1 .. Len(boxes) + 1
          /\ \A i \in 1 .. Len(boxes) : Append(boxes, b)[i] = boxes[i]
          /\ Append(boxes, b)[Len(boxes) + 1] = b
          /\ Seeks(Append(boxes, b)) = Seeks(boxes) \cup AsksOf(b)
      BY <3>1, BoxShown
    <3>3. Seeks(boxes') = Seeks(boxes)
      BY <2>2, <3>2
    <3>4. QED
      BY <2>2, <3>2, <3>3, AskingIsSeeks
  <2>4. _pTask # None => boxes = <<>> /\ Asking = {}
    BY <1>1, NothingAsked DEF BoxesInv
  <2>5. TypeOK'
    <3>1. \A u \in Tasks : u = _pTask => refs[u] \in Nat \ {0}
      BY <1>1 DEF RefsExact, TypeOK
    <3>2. refs' \in [Tasks -> Nat]
      BY <1>1, <1>5, <3>1 DEF TypeOK, HandleDone
    <3>3. QED
      BY <1>1, <1>5, <2>1, <2>3, <3>2 DEF TypeOK, Boxes, Messages, HandleDone
  <2>6. RefsExact'
    BY <1>1, <1>5, <2>1, <2>2, <2>3, <2>4, <2>5
       DEF RefsExact, TypeOK, HandleDone, windowVars, taskVars
  <2>7. BoxesInv'
    BY <1>1, <1>5, <2>1, <2>2, <2>3, <2>4
       DEF BoxesInv, TypeOK, Box, HandleDone, windowVars, taskVars
  <2>8. ButtonsInv'
    BY <1>1, <1>5, <2>1, <2>2, <2>3, <2>4
       DEF ButtonsInv, TypeOK, BoxesInv, Box, HandleDone, windowVars, taskVars
  <2>9. QueueInv'
    BY <1>1, <1>5, <2>1, <2>2, <2>3, <2>4
       DEF QueueInv, TypeOK, BoxesInv, HandleDone, windowVars, taskVars,
          ClosedAtRest
  <2>10. QED
    BY <2>6, <2>7, <2>8, <2>9 DEF IInv
<1>6. QED
  BY <1>2, <1>3, <1>4, <1>5 DEF Window

\* What the end of a task does.
LEMMA TaskStep == IInv /\ ((\E t \in Tasks : Task(t)) \/ UNCHANGED vars) => IInv'
<1> SUFFICES ASSUME IInv, ((\E t \in Tasks : Task(t)) \/ UNCHANGED vars) PROVE IInv'
  OBVIOUS
<1> USE DialogAssumption DEF None
<1>1. RefsExact /\ TypeOK /\ BoxesInv /\ ButtonsInv /\ QueueInv
  BY DEF IInv, RefsExact
<1>2. ASSUME NEW t \in Tasks, EndIo(t) PROVE IInv'
  <2>1. Asking' = Asking /\ boxes' = boxes
    BY <1>2 DEF EndIo, Asking, windowVars
  <2>2. Asking \subseteq Tasks \ started
    BY <1>1 DEF Asking, BoxesInv
  <2>3. TypeOK'
    BY <1>1, <1>2, <2>1, <2>2
       DEF TypeOK, Boxes, Messages, Box, WM_DONE, Status, EndIo, ReleaseHashFile,
          windowVars, taskVars
  <2>4. RefsExact'
    BY <1>1, <1>2, <2>1, <2>2, <2>3
       DEF RefsExact, TypeOK, EndIo, ReleaseHashFile, windowVars, taskVars
  <2>5. BoxesInv'
    BY <1>1, <1>2, <2>1, <2>2
       DEF BoxesInv, TypeOK, Box, EndIo, ReleaseHashFile, windowVars, taskVars
  <2>6. ButtonsInv'
    BY <1>1, <1>2, <2>1, <2>2
       DEF ButtonsInv, TypeOK, BoxesInv, Box, EndIo, ReleaseHashFile, windowVars,
          taskVars
  <2>7. QueueInv'
    BY <1>1, <1>2, <2>1, <2>2
       DEF QueueInv, TypeOK, BoxesInv, EndIo, ReleaseHashFile, windowVars, taskVars,
          ClosedAtRest
  <2>8. QED
    BY <2>4, <2>5, <2>6, <2>7 DEF IInv
<1>3. ASSUME NEW t \in Tasks, PostDone(t) PROVE IInv'
  <2>1. Asking' = Asking /\ boxes' = boxes
    BY <1>3 DEF PostDone, Asking, windowVars
  <2>2. Asking \subseteq Tasks \ started
    BY <1>1 DEF Asking, BoxesInv
  <2>3. t = _pTask /\ queue = <<>> /\ dialog = "open"
    BY <1>1, <1>3 DEF PostDone, QueueInv, ClosedAtRest, TypeOK
  <2>4. PICK m \in Messages : queue' = Append(queue, m) /\ m.task = t
    BY <1>3, <2>3 DEF PostDone, Status, Messages, WM_DONE
  <2>5. queue \in Seq(Messages) /\ queue' \in Seq(Messages)
    BY <1>1, <2>4, AppendProperties DEF TypeOK, Messages
  <2>6. Head(queue').task = t /\ Tail(queue') = <<>> /\ pHF'[t] = "none"
    <3>1. Head(queue') = m /\ Tail(queue') = <<>>
      BY <2>3, <2>4, <2>5, HeadTailAppend
    <3>2. QED
      BY <1>1, <1>3, <2>4, <3>1 DEF PostDone, Destroy, TypeOK
  <2>7. TypeOK'
    BY <1>1, <1>3, <2>1, <2>2, <2>3, <2>4, <2>5, <2>6
       DEF TypeOK, Boxes, Messages, Box, WM_DONE, Status, PostDone, Destroy,
          windowVars, taskVars
  <2>8. RefsExact'
    BY <1>1, <1>3, <2>1, <2>2, <2>3, <2>4, <2>5, <2>6, <2>7
       DEF RefsExact, TypeOK, PostDone, Destroy, windowVars, taskVars
  <2>9. BoxesInv'
    BY <1>1, <1>3, <2>1, <2>2, <2>3, <2>4, <2>5, <2>6
       DEF BoxesInv, TypeOK, Box, PostDone, Destroy, windowVars, taskVars
  <2>10. ButtonsInv'
    BY <1>1, <1>3, <2>1, <2>2, <2>3, <2>4, <2>5, <2>6
       DEF ButtonsInv, TypeOK, BoxesInv, Box, PostDone, Destroy, windowVars,
          taskVars
  <2>11. QueueInv'
    BY <1>1, <1>3, <2>1, <2>2, <2>3, <2>4, <2>5, <2>6
       DEF QueueInv, TypeOK, BoxesInv, PostDone, Destroy, windowVars, taskVars,
          ClosedAtRest
  <2>12. QED
    BY <2>8, <2>9, <2>10, <2>11 DEF IInv
<1>4. ASSUME NEW t \in Tasks, Release(t) PROVE IInv'
  <2>1. Asking' = Asking /\ boxes' = boxes
    BY <1>4 DEF Release, Asking, windowVars
  <2>2. Asking \subseteq Tasks \ started
    BY <1>1 DEF Asking, BoxesInv
  <2>3. TypeOK'
    <3>1. \A u \in Tasks : refs'[u] = IF u = t THEN refs[u] - 1 ELSE refs[u]
      BY <1>1, <1>4 DEF Release, TypeOK
    <3>2. refs[t] \in Nat \ {0} /\ refs' = [refs EXCEPT ![t] = refs[t] - 1]
      BY <1>1, <1>4 DEF Release, RefsExact, TypeOK
    <3>3. QED
      BY <1>1, <1>4, <2>1, <3>2 DEF Release, TypeOK, windowVars
  <2>4. RefsExact'
    BY <1>1, <1>4, <2>1, <2>2, <2>3 DEF RefsExact, TypeOK, Release, windowVars, taskVars
  <2>5. BoxesInv'
    BY <1>1, <1>4, <2>1, <2>2 DEF BoxesInv, TypeOK, Box, Release, windowVars, taskVars
  <2>6. ButtonsInv'
    BY <1>1, <1>4, <2>1, <2>2
       DEF ButtonsInv, TypeOK, BoxesInv, Box, Release, windowVars, taskVars
  <2>7. QueueInv'
    BY <1>1, <1>4, <2>1, <2>2
       DEF QueueInv, TypeOK, BoxesInv, Release, windowVars, taskVars, ClosedAtRest
  <2>8. QED
    BY <2>4, <2>5, <2>6, <2>7 DEF IInv
<1>5. CASE UNCHANGED vars
  <2>1. Asking' = Asking /\ boxes' = boxes
    BY <1>5 DEF Asking, vars, windowVars
  <2>2. TypeOK'
    BY <1>1, <1>5, <2>1
       DEF TypeOK, Boxes, Messages, Box, WM_DONE, Status, vars, windowVars, taskVars
  <2>3. RefsExact'
    BY <1>1, <1>5, <2>1, <2>2 DEF RefsExact, TypeOK, vars, windowVars, taskVars
  <2>4. BoxesInv'
    BY <1>1, <1>5, <2>1 DEF BoxesInv, TypeOK, Box, vars, windowVars, taskVars
  <2>5. ButtonsInv'
    BY <1>1, <1>5, <2>1
       DEF ButtonsInv, TypeOK, BoxesInv, Box, vars, windowVars, taskVars
  <2>6. QueueInv'
    BY <1>1, <1>5, <2>1
       DEF QueueInv, TypeOK, BoxesInv, vars, windowVars, taskVars, ClosedAtRest
  <2>7. QED
    BY <2>3, <2>4, <2>5, <2>6 DEF IInv
<1>6. QED
  BY <1>2, <1>3, <1>4, <1>5 DEF Task

-----------------------------------------------------------------------------
(***************************************************************************)
(* The invariant.                                                          *)
(***************************************************************************)
\* The dialog as WM_INITDIALOG leaves it.
LEMMA InitIInv == Init => IInv
<1> SUFFICES ASSUME Init PROVE IInv
  OBVIOUS
<1>1. DOMAIN boxes = {} /\ Asking = {}
  <2>1. boxes = <<>>
    BY DEF Init
  <2>2. DOMAIN boxes = {}
    BY <2>1
  <2>3. QED
    BY <2>1, <2>2, NothingAsked
<1>2. TypeOK
  <2>1. boxes \in Seq(Boxes) /\ queue \in Seq(Messages)
    BY EmptySeq DEF Init
  <2>2. QED
    BY <2>1 DEF Init, TypeOK, Boxes, Messages
<1>3. RefsExact
  BY <1>1, <1>2, DialogAssumption DEF Init, RefsExact, None
<1>4. BoxesInv /\ ButtonsInv
  BY <1>1 DEF Init, BoxesInv, ButtonsInv
<1>5. QueueInv
  BY DEF Init, QueueInv, ClosedAtRest
<1>6. QED
  BY <1>3, <1>4, <1>5 DEF IInv

\* Every step of the user, of the message loop and of the tasks keeps it.
LEMMA StepIInv == IInv /\ [Next]_vars => IInv'
BY UserStep, WindowStep, TaskStep DEF Next

\* FileHash.cpp keeps its invariant whatever box a message is handled in.
THEOREM DialogInvariant == SafeSpec => []IInv
BY InitIInv, StepIInv, PTL DEF SafeSpec

\* A CTask has a reference of the dialog exactly while it is asked about or is
\* _pTask, and one of its own until EndIo.
THEOREM DialogRefsExact == SafeSpec => []RefsExact
<1>1. IInv => RefsExact
  BY DEF IInv
<1>2. QED
  BY DialogInvariant, <1>1, PTL

\* Whenever the dialog takes input, IDOK is enabled just when there is no task.
THEOREM DialogButtonsMatchTask == SafeSpec => []ButtonsMatchTask
<1>1. IInv => ButtonsMatchTask
  <2>1. SUFFICES ASSUME IInv, boxes = <<>>
                 PROVE  (okEnabled <=> _pTask = None) /\ (_bTimerActive => _pTask # None)
    BY DEF ButtonsMatchTask
  <2>2. DOMAIN boxes = {}
    BY <2>1
  <2>3. QED
    BY <2>1, <2>2 DEF IInv, ButtonsInv, RefsExact, TypeOK
<1>2. QED
  BY DialogInvariant, <1>1, PTL

\* ExitProcess cuts off no hash file that is still written and loses no WM_DONE.
THEOREM DialogClosedAtRest == SafeSpec => []ClosedAtRest
<1>1. IInv => ClosedAtRest
  BY DEF IInv, QueueInv
<1>2. QED
  BY DialogInvariant, <1>1, PTL

\* The WM_DONE that makes the dialog forget its task is that task's own.
THEOREM DialogOwnDone == SafeSpec => OwnDone
<1>1. IInv /\ [Next]_vars =>
        [_pTask # None /\ _pTask' # _pTask => Head(queue).task = _pTask]_vars
  <2>1. SUFFICES ASSUME IInv, Next, _pTask # None, _pTask' # _pTask
                 PROVE  Head(queue).task = _pTask
    OBVIOUS
  <2>2. HandleDone
    <3>1. ~User
      BY <2>1 DEF User, CreateFails, BindFails, OnOkStarts, OnOkAsks, OnOk, Cancel
    <3>2. ~SeekAnswered
      BY <2>1 DEF SeekAnswered, Answers, IInv, BoxesInv
    <3>3. ~(ErrorRead \/ DoneRead \/ \E t \in Tasks : Task(t))
      BY <2>1 DEF ErrorRead, DoneRead, Task, EndIo, PostDone, Release, windowVars
    <3>4. QED
      BY <2>1, <3>1, <3>2, <3>3 DEF Next, Window
  <2>3. queue # <<>>
    BY <2>2 DEF HandleDone
  <2>4. QED
    BY <2>1, <2>3 DEF IInv, QueueInv
<1>2. QED
  BY DialogInvariant, <1>1, PTL DEF SafeSpec, OwnDone
=============================================================================

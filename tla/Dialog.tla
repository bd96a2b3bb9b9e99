------------------------------- MODULE Dialog -------------------------------
(***************************************************************************)
(* FileHash.cpp: the dialog, with CTask::Create's ways to fail and the end *)
(* of a CTask as the dialog sees it.                                       *)
(*                                                                         *)
(* Everything of the dialog runs on one thread, but message boxes turn a   *)
(* message loop of their own: a WM_DONE is handled inside the box that is  *)
(* open when it arrives, whatever that box asks or tells.  WM_DONE does    *)
(* not say which task it is of (the model records it beside the message).  *)
(* What a task does between Start and EndIo is in Task, what its CHashFile *)
(* does before it posts WM_DONE in HashFile.                               *)
(***************************************************************************)
EXTENDS Naturals, Sequences

CONSTANTS Tasks,      \* addresses of CTask objects
          MayBeEmpty  \* the user may name an empty file

ASSUME DialogAssumption == "none" \notin Tasks /\ MayBeEmpty \in BOOLEAN

None == "none"

VARIABLES
  dialog,         \* "open", or "closed" once EndDialog has been called
  okEnabled,      \* EnableButtons: IDOK enabled and IDABORT disabled
  _pTask,         \* the task whose WM_DONE the dialog waits for
  _bTimerActive,
  boxes,          \* the message boxes that are open, each inside the one before
  queue,          \* the WM_DONE messages posted to the window
  refs,           \* _dwRef of each CTask, 0 if there is none
  started,        \* CTasks that have been started and not come to the end of EndIo
  pHF             \* the CHashFile of each: "none", "open", "closing" (the task
                  \* has released it, writes may still be in flight)

windowVars == <<dialog, okEnabled, _pTask, _bTimerActive, boxes>>
taskVars == <<refs, started, pHF>>
vars == <<windowVars, queue, taskVars>>

Init == /\ dialog = "open"
        /\ okEnabled = TRUE
        /\ _pTask = None
        /\ _bTimerActive = FALSE
        /\ boxes = <<>>
        /\ queue = <<>>
        /\ refs = [t \in Tasks |-> 0]
        /\ started = {}
        /\ pHF = [t \in Tasks |-> "none"]

Box(kind, t) == [kind |-> kind, task |-> t]
WM_DONE(t, status) == [task |-> t, status |-> status]

\* User input gets to the dialog only when no message box has disabled it, and,
\* as always, behind the messages that have been posted.
Input == dialog = "open" /\ boxes = <<>> /\ queue = <<>>

(***************************************************************************)
(* OnOk, up to the first message box.  Input that does not translate and a *)
(* failing new CTask change nothing.                                       *)
(***************************************************************************)
OnOk == Input /\ okEnabled /\ _pTask = None

NewTask(t) == refs[t] = 0 /\ t \notin started /\ pHF[t] = "none"

\* CTask::Create fails: the task is destroyed and the user told why.
CreateFails ==
  /\ OnOk
  /\ boxes' = Append(boxes, Box("error", None))
  /\ UNCHANGED <<dialog, okEnabled, _pTask, _bTimerActive, queue, taskVars>>

\* Its last step fails, when there is a CHashFile already: the Release of the
\* CHashFile posts a WM_DONE, of no error and of no task the dialog knows.
BindFails ==
  /\ OnOk
  /\ queue' = Append(queue, WM_DONE(None, "success"))
  /\ boxes' = Append(boxes, Box("error", None))
  /\ UNCHANGED <<dialog, okEnabled, _pTask, _bTimerActive, taskVars>>

\* Create succeeds.  It does so with an empty file too, having made nothing and
\* set no member of the CTask: Start then reads an indeterminate _nFragments.
\* (The outcome in which that sends a CFragment to read, and SetError to the
\* missing CHashFile, is a fault of the process and not in the model.)
Create(t) == \/ pHF' = [pHF EXCEPT ![t] = "open"]
             \/ MayBeEmpty /\ UNCHANGED pHF

\* Start takes a reference beside the dialog's (the mutant: it does not).
NoStartRef == 1
StartRef == 2

\* The rest of OnOk: the task becomes the dialog's, then it is started.
Begin(t) ==
  /\ _pTask' = t
  /\ okEnabled' = FALSE
  /\ _bTimerActive' \in BOOLEAN
  /\ refs' = [refs EXCEPT ![t] = StartRef]
  /\ started' = started \cup {t}

OnOkStarts(t) ==
  /\ OnOk /\ NewTask(t)
  /\ Create(t)
  /\ Begin(t)
  /\ UNCHANGED <<dialog, boxes, queue>>

\* More than one I/O on a disk with a seek penalty: the user is asked first.
OnOkAsks(t) ==
  /\ OnOk /\ NewTask(t)
  /\ Create(t)
  /\ refs' = [refs EXCEPT ![t] = 1]
  /\ boxes' = Append(boxes, Box("seek", t))
  /\ UNCHANGED <<dialog, okEnabled, _pTask, _bTimerActive, queue, started>>

(***************************************************************************)
(* Message boxes and messages.                                             *)
(***************************************************************************)
Top == boxes[Len(boxes)]
Below == SubSeq(boxes, 1, Len(boxes) - 1)
Answers(kinds) == /\ boxes # <<>> /\ queue = <<>>
                  /\ Top.kind \in kinds
                  /\ boxes' = Below

SeekAnswered ==
  /\ Answers({"seek"})
  /\ Begin(Top.task)
  /\ UNCHANGED <<dialog, queue, pHF>>

ErrorRead ==
  /\ Answers({"error"})
  /\ UNCHANGED <<dialog, okEnabled, _pTask, _bTimerActive, queue, taskVars>>

\* EnableButtons(hwnd, TRUE) (the mutant: forgotten after an error).
EnabledAfterDone == okEnabled \/ Top.kind = "done"
EnabledAfterBox == TRUE

DoneRead ==
  /\ Answers({"done", "fail"})
  /\ okEnabled' = EnabledAfterBox
  /\ UNCHANGED <<dialog, _pTask, _bTimerActive, queue, taskVars>>

\* case WM_DONE, up to the box it shows.
HandleDone ==
  /\ dialog = "open" /\ queue # <<>>
  /\ queue' = Tail(queue)
  /\ _bTimerActive' = FALSE
  /\ refs' = [t \in Tasks |-> IF t = _pTask THEN refs[t] - 1 ELSE refs[t]]
  /\ _pTask' = None
  /\ boxes' = Append(boxes,
                     Box(IF Head(queue).status = "success" THEN "done" ELSE "fail", None))
  /\ UNCHANGED <<dialog, okEnabled, started, pHF>>

\* IDCANCEL: EndDialog only when there is no task; otherwise its Rundown,
\* which changes nothing here (the mutant: EndDialog in any case).
ClosesAnyway == TRUE
MayClose == _pTask = None

Cancel ==
  /\ Input
  /\ MayClose
  /\ dialog' = "closed"
  /\ UNCHANGED <<okEnabled, _pTask, _bTimerActive, boxes, queue, taskVars>>

(***************************************************************************)
(* The end of a task: CTask::EndIo, and ~CHashFile after its last write.   *)
(***************************************************************************)
\* (The mutant: EndIo without _pHF->Release().)
NotReleased(t) == pHF' = pHF
ReleaseHashFile(t) == pHF' = [pHF EXCEPT ![t] = "closing"]

EndIo(t) ==
  /\ t \in started /\ pHF[t] = "open"
  /\ ReleaseHashFile(t)
  /\ UNCHANGED <<windowVars, queue, refs, started>>

\* The destructor runs once (the mutant: it may run again).
DestroyAgain(t) == pHF' \in {pHF, [pHF EXCEPT ![t] = "none"]}
Destroy(t) == pHF' = [pHF EXCEPT ![t] = "none"]

PostDone(t) ==
  /\ pHF[t] = "closing"
  /\ Destroy(t)
  /\ \E status \in {"success", "failed"} :
       queue' = IF dialog = "open" THEN Append(queue, WM_DONE(t, status)) ELSE queue
  /\ UNCHANGED <<windowVars, refs, started>>

Release(t) ==
  /\ t \in started /\ pHF[t] # "open"
  /\ started' = started \ {t}
  /\ refs' = [refs EXCEPT ![t] = @ - 1]
  /\ UNCHANGED <<windowVars, queue, pHF>>

-----------------------------------------------------------------------------
User == CreateFails \/ BindFails \/ Cancel \/ \E t \in Tasks : OnOkStarts(t) \/ OnOkAsks(t)
Window == SeekAnswered \/ ErrorRead \/ DoneRead \/ HandleDone
Task(t) == EndIo(t) \/ PostDone(t) \/ Release(t)

Next == User \/ Window \/ \E t \in Tasks : Task(t)

\* The message loop turns and the user reads what a box says; a started task
\* comes to its end (Task shows it, HashFile for the writes).
Fairness == WF_vars(Window) /\ \A t \in Tasks : WF_vars(Task(t))

SafeSpec == Init /\ [][Next]_vars
Spec == SafeSpec /\ Fairness
-----------------------------------------------------------------------------
Status == {"success", "failed"}

TypeOK == /\ dialog \in {"open", "closed"}
          /\ okEnabled \in BOOLEAN /\ _bTimerActive \in BOOLEAN
          /\ _pTask \in Tasks \cup {None}
          /\ boxes \in Seq([kind : {"seek", "error", "done", "fail"}, task : Tasks \cup {None}])
          /\ queue \in Seq([task : Tasks \cup {None}, status : Status])
          /\ refs \in [Tasks -> Nat]
          /\ started \subseteq Tasks
          /\ pHF \in [Tasks -> {"none", "open", "closing"}]

\* The CTasks that OnOk holds while it asks about the seek penalty.
Asking == {boxes[i].task : i \in {j \in DOMAIN boxes : boxes[j].kind = "seek"}}

\* A CTask has a reference of the dialog exactly while it is asked about or is
\* _pTask, and one of its own until EndIo: the dialog never touches a task that
\* is gone, no task is left behind, and none is destroyed twice.
RefsExact ==
  /\ TypeOK
  /\ \A t \in Tasks : refs[t] = (IF t = _pTask \/ t \in Asking THEN 1 ELSE 0)
                                + (IF t \in started THEN 1 ELSE 0)

\* The WM_DONE that makes the dialog forget its task is that task's own, not
\* one left over from another that failed or ended before: no task runs on
\* that the user can neither see nor cancel.
OwnDone ==
  [][_pTask # None /\ _pTask' # _pTask => Head(queue).task = _pTask]_vars

\* Whenever the dialog takes input, its buttons and timer are those of its
\* task: a new one can be started, and the running one aborted, just when
\* there is none or one, in spite of boxes handled inside boxes.
ButtonsMatchTask ==
  boxes = <<>> => /\ okEnabled <=> _pTask = None
                  /\ _bTimerActive => _pTask # None

\* The comment "never must be" in WM_NCDESTROY, and what it is for: ExitProcess,
\* which follows, cuts off no hash file that is still written and loses no
\* WM_DONE.
ClosedAtRest ==
  dialog = "closed" => /\ _pTask = None
                       /\ queue = <<>>
                       /\ \A t \in Tasks : pHF[t] = "none"

\* Every task that was started is told to the user and forgotten, as test.cpp
\* waits for WM_DONE after every Start.
EventuallyToldDone == \A t \in Tasks : _pTask = t ~> _pTask # t
=============================================================================

------------------------- MODULE RundownProtection -------------------------
(***************************************************************************)
(* INC/rundownT.h: the lock-free run-down protection that CTask uses to    *)
(* make sure that no NtReadFile is issued once CancelIoEx has been called. *)
(*                                                                         *)
(* The whole state is one 32-bit word.  Its sign bit set means "no         *)
(* rundown yet"; the low bits count the threads inside the section.  Every *)
(* interlocked instruction and every plain read of _Value is a step.       *)
(***************************************************************************)
EXTENDS Integers, FiniteSets

CONSTANTS Threads,  \* the threads that use the object
          v_init    \* the word with only its sign bit set: -2^31

ASSUME RundownAssumption == /\ IsFiniteSet(Threads)
                            /\ v_init \in Int
                            /\ v_init + Cardinality(Threads) < 0

VARIABLES _Value,     \* LONG _Value
          pc,         \* the step each thread is at
          op,         \* what it entered for: "use" (CFragment::Read) or "rundown"
          seen,       \* AcquireRP's local Value, the comparand of its next CAS
          completed   \* calls of RundownCompleted that have been made

vars == <<_Value, pc, op, seen, completed>>

v_complete == 0

Init == /\ _Value = v_init
        /\ pc = [t \in Threads |-> "idle"]
        /\ op = [t \in Threads |-> "use"]
        /\ seen = [t \in Threads |-> v_init]
        /\ completed = 0

IsRundownBegin == 0 <= _Value

(***************************************************************************)
(* AcquireRP.  The plain read decides between FALSE and the CAS loop; a    *)
(* CAS that loses goes round again only while the word it saw is negative. *)
(***************************************************************************)
ReadValue(t, what) ==
    /\ pc[t] = "idle"
    /\ 0 > _Value
    /\ pc' = [pc EXCEPT ![t] = "cas"]
    /\ op' = [op EXCEPT ![t] = what]
    /\ seen' = [seen EXCEPT ![t] = _Value]
    /\ UNCHANGED <<_Value, completed>>

\* The increment made without comparing: a plain store of Value + 1.
CasStoresBlindly(t) ==
    /\ pc[t] = "cas"
    /\ _Value' = seen[t] + 1
    /\ pc' = [pc EXCEPT ![t] = IF op[t] = "rundown" THEN "clear" ELSE "held"]
    /\ UNCHANGED <<op, seen, completed>>

CasWins(t) ==
    /\ pc[t] = "cas"
    /\ _Value = seen[t]
    /\ _Value' = seen[t] + 1
    /\ pc' = [pc EXCEPT ![t] = IF op[t] = "rundown" THEN "clear" ELSE "held"]
    /\ UNCHANGED <<op, seen, completed>>

\* A retry that does not look at the sign of the word it has just seen.
CasLosesBlindly(t) ==
    /\ pc[t] = "cas"
    /\ _Value # seen[t]
    /\ seen' = [seen EXCEPT ![t] = _Value]
    /\ UNCHANGED <<_Value, pc, op, completed>>

CasLoses(t) ==
    /\ pc[t] = "cas"
    /\ _Value # seen[t]
    /\ IF 0 > _Value
         THEN seen' = [seen EXCEPT ![t] = _Value] /\ UNCHANGED pc
         ELSE pc' = [pc EXCEPT ![t] = "idle"] /\ UNCHANGED seen
    /\ UNCHANGED <<_Value, op, completed>>

\* Rundown_l: _interlockedbittestandreset(&_Value, 31).
Rundown_l(t) ==
    /\ pc[t] = "clear"
    /\ _Value' = IF 0 > _Value THEN _Value - v_init ELSE _Value
    /\ pc' = [pc EXCEPT ![t] = "held"]
    /\ UNCHANGED <<op, seen, completed>>

\* The thread leaves without the decrement.
ReleaseRPForgets(t) ==
    /\ pc[t] = "held"
    /\ pc' = [pc EXCEPT ![t] = "idle"]
    /\ UNCHANGED <<_Value, op, seen, completed>>

\* The callback made as soon as the sign bit is off.
ReleaseRPEager(t) ==
    /\ pc[t] = "held"
    /\ _Value' = _Value - 1
    /\ pc' = [pc EXCEPT ![t] = IF 0 <= _Value' THEN "completing" ELSE "idle"]
    /\ UNCHANGED <<op, seen, completed>>

\* ReleaseRP: only the thread that brings the word to v_complete calls back.
ReleaseRP(t) ==
    /\ pc[t] = "held"
    /\ _Value' = _Value - 1
    /\ pc' = [pc EXCEPT ![t] = IF _Value' = v_complete THEN "completing" ELSE "idle"]
    /\ UNCHANGED <<op, seen, completed>>

\* CTask::RundownCompleted: CancelIoEx(_hFile, 0).
RundownCompleted(t) ==
    /\ pc[t] = "completing"
    /\ completed' = completed + 1
    /\ pc' = [pc EXCEPT ![t] = "idle"]
    /\ UNCHANGED <<_Value, op, seen>>

Step(t) == \/ CasWins(t) \/ CasLoses(t) \/ Rundown_l(t)
           \/ ReleaseRP(t) \/ RundownCompleted(t)

Next == \E t \in Threads : Step(t) \/ \E what \in {"use", "rundown"} : ReadValue(t, what)

\* A thread that has entered a method returns from it (NtReadFile, made while
\* the protection is held, is asynchronous and returns at once).
Fairness == \A t \in Threads : WF_vars(Step(t))

SafeSpec == Init /\ [][Next]_vars
Spec == SafeSpec /\ Fairness
-----------------------------------------------------------------------------
Holders == {t \in Threads : pc[t] \in {"clear", "held"}}
Completing == {t \in Threads : pc[t] = "completing"}

TypeOK == /\ _Value \in v_init .. Cardinality(Threads)
          /\ pc \in [Threads -> {"idle", "cas", "clear", "held", "completing"}]
          /\ op \in [Threads -> {"use", "rundown"}]
          /\ seen \in [Threads -> Int]
          /\ completed \in Nat

\* The word is exact: in either phase its low bits count the threads inside
\* the section, whatever CAS and decrements interleaved to produce it.
ValueCountsHolders ==
    _Value = (IF IsRundownBegin THEN 0 ELSE v_init) + Cardinality(Holders)

\* From the moment one thread has decided to call RundownCompleted (that is,
\* CancelIoEx) no thread is inside the section: no NtReadFile can still be
\* issued after the cancellation and escape it.
NoUseAfterComplete == completed > 0 \/ Completing # {} => Holders = {}

\* The callback is made by one thread and once, even when several threads
\* call Rundown at the same time.
CompletedAtMostOnce == completed + Cardinality(Completing) <= 1

\* A rundown cannot be undone: no lost CAS and no late release makes
\* IsRundownBegin false again.
RundownIsFinal == [][IsRundownBegin => IsRundownBegin']_vars

\* The CAS loop and the word implement the gate, its liveness included: once
\* the sign bit is reset the callback is made after the last thread has left.
Gate == INSTANCE RundownGate WITH open <- _Value < 0,
                                  users <- Holders,
                                  completed <- completed = 1
ImplementsGate == Gate!Spec
=============================================================================

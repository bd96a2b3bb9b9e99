--------------------------- MODULE RundownProofs ---------------------------
(***************************************************************************)
(* Proofs about INC/rundownT.h for any finite set of threads and any width *)
(* of the word in which they can all be counted.                           *)
(***************************************************************************)
EXTENDS RundownProtection, FiniteSetTheorems, TLAPS

\* The inductive invariant.  ValueCountsHolders makes the word and the set of
\* holders interchangeable; the last conjunct says who owes the callback.
IInv == /\ TypeOK
        /\ ValueCountsHolders
        /\ \A t \in Threads : pc[t] = "cas" => seen[t] < 0
        /\ \A t, u \in Completing : t = u
        /\ Completing # {} => completed = 0
        /\ completed \in {0, 1}
        /\ completed = 1 \/ Completing # {} => IsRundownBegin /\ Holders = {}
        /\ IsRundownBegin /\ Holders = {} => completed = 1 \/ Completing # {}

\* The threads inside can be counted.
LEMMA HoldersFinite ==
  /\ IsFiniteSet(Holders)
  /\ Cardinality(Holders) \in 0 .. Cardinality(Threads)
  /\ Cardinality(Threads) \in Nat
  /\ Cardinality(Holders) = 0 <=> Holders = {}
<1>1. Holders \in SUBSET Threads
  BY DEF Holders
<1>2. QED
  BY <1>1, RundownAssumption, FS_Subset, FS_CardinalityType, FS_EmptySet

\* What joining and leaving the section do to the number of holders.
LEMMA HolderJoins ==
  ASSUME NEW t \in Threads, t \notin Holders, Holders' = Holders \cup {t}
  PROVE  Cardinality(Holders') = Cardinality(Holders) + 1
BY HoldersFinite, FS_AddElement

\* A thread that leaves is one thread less inside.
LEMMA HolderLeaves ==
  ASSUME NEW t \in Threads, t \in Holders, Holders' = Holders \ {t}
  PROVE  Cardinality(Holders') = Cardinality(Holders) - 1
BY HoldersFinite, FS_RemoveElement

\* The inductive invariant holds while nobody has entered,
LEMMA InitIInv == Init => IInv
<1> SUFFICES ASSUME Init PROVE IInv
  OBVIOUS
<1>1. Holders = {} /\ Completing = {} /\ Cardinality(Holders) = 0
  BY FS_EmptySet DEF Init, Holders, Completing
<1>2. QED
  BY <1>1, RundownAssumption, HoldersFinite
  DEF Init, IInv, TypeOK, ValueCountsHolders, IsRundownBegin

\* and every interlocked instruction keeps it.
LEMMA StepIInv == IInv /\ [Next]_vars => IInv'
<1> SUFFICES ASSUME IInv, [Next]_vars PROVE IInv'
  OBVIOUS
<1> USE RundownAssumption, HoldersFinite
        DEF IInv, TypeOK, ValueCountsHolders, IsRundownBegin, v_complete
<1>0. HoldersFinite!1' /\ HoldersFinite!2' /\ HoldersFinite!4'
  <2>1. Holders' \in SUBSET Threads
    BY DEF Holders
  <2>2. QED
    BY <2>1, FS_Subset, FS_CardinalityType, FS_EmptySet
<1>1. ASSUME NEW t \in Threads, NEW what \in {"use", "rundown"}, ReadValue(t, what)
      PROVE  IInv'
  <2>1. Holders' = Holders /\ Completing' = Completing
    BY <1>1 DEF ReadValue, Holders, Completing
  <2>2. QED
    BY <1>1, <2>1 DEF ReadValue
<1>2. ASSUME NEW t \in Threads, CasWins(t)
      PROVE  IInv'
  <2>1. /\ Holders' = Holders \cup {t}
        /\ t \notin Holders
        /\ Completing' = Completing
    BY <1>2 DEF CasWins, Holders, Completing
  <2>2. Cardinality(Holders') = Cardinality(Holders) + 1
    BY <2>1, HolderJoins
  <2>3. _Value < 0 /\ Completing = {} /\ completed = 0
    BY <1>2 DEF CasWins
  <2>4. QED
    BY <1>0, <1>2, <2>1, <2>2, <2>3 DEF CasWins
<1>3. ASSUME NEW t \in Threads, CasLoses(t)
      PROVE  IInv'
  <2>1. Holders' = Holders /\ Completing' = Completing
    BY <1>3 DEF CasLoses, Holders, Completing
  <2>2. QED
    BY <1>3, <2>1 DEF CasLoses
<1>4. ASSUME NEW t \in Threads, Rundown_l(t)
      PROVE  IInv'
  <2>1. Holders' = Holders /\ Completing' = Completing /\ t \in Holders
    BY <1>4 DEF Rundown_l, Holders, Completing
  <2>2. QED
    BY <1>4, <2>1 DEF Rundown_l
<1>5. ASSUME NEW t \in Threads, ReleaseRP(t)
      PROVE  IInv'
  <2>1. t \in Holders /\ Holders' = Holders \ {t}
    BY <1>5 DEF ReleaseRP, Holders
  <2>2. Cardinality(Holders') = Cardinality(Holders) - 1
    BY <2>1, HolderLeaves
  <2>3. Completing = {} /\ completed = 0
    BY <2>1
  <2>4. CASE _Value' = 0
    <3>1. Completing' = {t} /\ Holders' = {}
      BY <1>0, <1>5, <2>2, <2>3, <2>4 DEF ReleaseRP, Completing
    <3>2. QED
      BY <1>0, <1>5, <2>2, <2>3, <2>4, <3>1 DEF ReleaseRP
  <2>5. CASE _Value' # 0
    <3>1. Completing' = {}
      BY <1>5, <2>3, <2>5 DEF ReleaseRP, Completing
    <3>2. ~(IsRundownBegin' /\ Holders' = {})
      BY <1>0, <1>5, <2>2, <2>5 DEF ReleaseRP
    <3>3. QED
      BY <1>0, <1>5, <2>2, <2>3, <2>5, <3>1, <3>2 DEF ReleaseRP
  <2>6. QED
    BY <2>4, <2>5
<1>6. ASSUME NEW t \in Threads, RundownCompleted(t)
      PROVE  IInv'
  <2>1. Holders' = Holders /\ Completing = {t} /\ Completing' = {}
    BY <1>6 DEF RundownCompleted, Holders, Completing
  <2>2. QED
    BY <1>6, <2>1 DEF RundownCompleted
<1>7. CASE UNCHANGED vars
  <2>1. Holders' = Holders /\ Completing' = Completing
    BY <1>7 DEF vars, Holders, Completing
  <2>2. QED
    BY <1>7, <2>1 DEF vars
<1>8. QED
  BY <1>1, <1>2, <1>3, <1>4, <1>5, <1>6, <1>7 DEF Next, Step

\* Every reachable state of the word satisfies the inductive invariant.
THEOREM RundownInvariant == SafeSpec => []IInv
BY InitIInv, StepIInv, PTL DEF SafeSpec

\* The word has its type: it never leaves the range in which its sign bit and
\* its count are separate.
THEOREM RundownTypeOK == SafeSpec => []TypeOK
<1>1. IInv => TypeOK
  BY DEF IInv
<1>2. QED
  BY <1>1, RundownInvariant, PTL

\* The count kept in the word is exact, for any number of threads.
THEOREM RundownValueExact == SafeSpec => []ValueCountsHolders
<1>1. IInv => ValueCountsHolders
  BY DEF IInv
<1>2. QED
  BY <1>1, RundownInvariant, PTL

\* After the decision to call CancelIoEx no thread can issue a read.
THEOREM RundownNoUseAfterComplete == SafeSpec => []NoUseAfterComplete
<1>1. IInv => NoUseAfterComplete
  BY DEF IInv, NoUseAfterComplete
<1>2. QED
  BY <1>1, RundownInvariant, PTL

\* CancelIoEx is called at most once.
THEOREM RundownCompletedAtMostOnce == SafeSpec => []CompletedAtMostOnce
<1>1. IInv => CompletedAtMostOnce
  <2> SUFFICES ASSUME IInv PROVE CompletedAtMostOnce
    OBVIOUS
  <2>1. CASE Completing = {}
    BY <2>1, FS_EmptySet DEF IInv, CompletedAtMostOnce
  <2>2. CASE Completing # {}
    <3>1. PICK t : t \in Completing
      BY <2>2
    <3>2. Completing = {t}
      BY <3>1 DEF IInv
    <3>3. Cardinality(Completing) = 1
      BY <3>2, FS_Singleton
    <3>4. QED
      BY <2>2, <3>3 DEF IInv, CompletedAtMostOnce
  <2>3. QED
    BY <2>1, <2>2
<1>2. QED
  BY <1>1, RundownInvariant, PTL

\* Once begun, a rundown stays begun.
THEOREM RundownNeverUndone == SafeSpec => RundownIsFinal
<1>1. IInv /\ [Next]_vars => [IsRundownBegin => IsRundownBegin']_vars
  <2> SUFFICES ASSUME IInv, Next, IsRundownBegin PROVE IsRundownBegin'
    BY DEF vars
  <2> USE RundownAssumption, HoldersFinite
          DEF IInv, TypeOK, ValueCountsHolders, IsRundownBegin
  <2>1. ASSUME NEW t \in Threads, ReleaseRP(t) PROVE 0 <= _Value'
    <3>1. Holders # {}
      BY <2>1 DEF ReleaseRP, Holders
    <3>2. QED
      BY <2>1, <3>1 DEF ReleaseRP
  <2>2. QED
    BY <2>1 DEF Next, Step, ReadValue, CasWins, CasLoses, Rundown_l, RundownCompleted
<1>2. QED
  BY <1>1, RundownInvariant, PTL DEF SafeSpec, RundownIsFinal

\* Every step of the word is a step of the gate, or invisible to its users.
THEOREM RundownImplementsGate == SafeSpec => Gate!SafeSpec
<1> USE DEF Gate!Enter, Gate!Leave, Gate!Close, Gate!Complete, Gate!vars
<1>1. Init => Gate!Init
  <2>1. v_init < 0
    BY RundownAssumption, HoldersFinite
  <2>2. ASSUME Init PROVE Holders = {}
    BY <2>2 DEF Init, Holders
  <2>3. QED
    BY <2>1, <2>2 DEF Init, Gate!Init
<1>2. IInv /\ [Next]_vars => [Gate!Next]_Gate!vars
  <2> SUFFICES ASSUME IInv, [Next]_vars PROVE [Gate!Next]_Gate!vars
    OBVIOUS
  <2> USE RundownAssumption, HoldersFinite
          DEF IInv, TypeOK, ValueCountsHolders, IsRundownBegin
  <2>1. ASSUME NEW t \in Threads, NEW what \in {"use", "rundown"}, ReadValue(t, what)
        PROVE  UNCHANGED Gate!vars
    BY <2>1 DEF ReadValue, Holders
  <2>2. ASSUME NEW t \in Threads, CasWins(t)
        PROVE  Gate!Enter(t)
    <3>1. Holders' = Holders \cup {t} /\ t \notin Holders
      BY <2>2 DEF CasWins, Holders
    <3>2. _Value < 0 /\ _Value' < 0
      <4>1. Cardinality(Holders') = Cardinality(Holders) + 1
        BY <3>1, HolderJoins
      <4>2. Cardinality(Holders') <= Cardinality(Threads)
        <5>1. Holders' \in SUBSET Threads
          BY DEF Holders
        <5>2. QED
          BY <5>1, FS_Subset
      <4>3. QED
        BY <2>2, <4>1, <4>2 DEF CasWins
    <3>3. QED
      BY <2>2, <3>1, <3>2 DEF CasWins
  <2>3. ASSUME NEW t \in Threads, CasLoses(t)
        PROVE  UNCHANGED Gate!vars
    BY <2>3 DEF CasLoses, Holders
  <2>4. ASSUME NEW t \in Threads, Rundown_l(t)
        PROVE  Gate!Close(t)
    <3>1. Holders' = Holders /\ t \in Holders
      BY <2>4 DEF Rundown_l, Holders
    <3>2. ~(_Value' < 0)
      BY <2>4 DEF Rundown_l
    <3>3. QED
      BY <2>4, <3>1, <3>2 DEF Rundown_l
  <2>5. ASSUME NEW t \in Threads, ReleaseRP(t)
        PROVE  Gate!Leave(t)
    <3>1. Holders' = Holders \ {t} /\ t \in Holders
      BY <2>5 DEF ReleaseRP, Holders
    <3>2. (_Value < 0) <=> (_Value' < 0)
      BY <2>5, <3>1 DEF ReleaseRP
    <3>3. QED
      BY <2>5, <3>1, <3>2 DEF ReleaseRP
  <2>6. ASSUME NEW t \in Threads, RundownCompleted(t)
        PROVE  Gate!Complete
    <3>1. Holders' = Holders /\ t \in Completing
      BY <2>6 DEF RundownCompleted, Holders, Completing
    <3>2. QED
      BY <2>6, <3>1 DEF RundownCompleted
  <2>7. CASE UNCHANGED vars
    BY <2>7 DEF vars, Holders
  <2>8. QED
    BY <2>1, <2>2, <2>3, <2>4, <2>5, <2>6, <2>7 DEF Next, Step, Gate!Next
<1>3. QED
  BY <1>1, <1>2, RundownInvariant, PTL DEF SafeSpec, Gate!SafeSpec
=============================================================================

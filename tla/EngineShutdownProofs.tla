------------------------- MODULE EngineShutdownProofs -------------------------
(***************************************************************************)
(* Proofs about EngineShutdown, for every finite set of evaluations and    *)
(* every set of Shutdown callers.                                          *)
(***************************************************************************)
EXTENDS EngineShutdown, FiniteSetTheorems, TLAPS

(***************************************************************************)
(* How a step of one evaluation changes the set that the wait group        *)
(* counts: it stays, or that evaluation joins or leaves it.                *)
(***************************************************************************)
LEMMA OnWaitGroupStep ==
    ASSUME TypeOK, NEW e \in Evals, NEW from, NEW to \in EvalPcs, EvalStep(e, from, to)
    PROVE  LET C == InProgressPcs \union {"addPanic"}
           IN  /\ (from \in C <=> to \in C) => OnWaitGroup' = OnWaitGroup
               /\ from \notin C /\ to \in C =>
                     e \notin OnWaitGroup /\ OnWaitGroup' = OnWaitGroup \union {e}
               /\ from \in C /\ to \notin C =>
                     e \in OnWaitGroup /\ OnWaitGroup' = OnWaitGroup \ {e}
  BY DEF TypeOK, EvalStep, OnWaitGroup, InProgressPcs, EvalPcs

(***************************************************************************)
(* The count invariant is inductive together with the types; the two need  *)
(* each other, because wg stays a natural number only while Done calls are *)
(* matched by earlier Add calls.                                           *)
(***************************************************************************)
CountInv == TypeOK /\ WaitGroupCounts

LEMMA CountInit == Init => CountInv
<1> SUFFICES ASSUME Init PROVE CountInv
  OBVIOUS
<1>1. TypeOK
  <2>1. evalPc \in [Evals -> EvalPcs] /\ callerPc \in [Callers -> CallerPcs]
    BY DEF Init, EvalPcs, CallerPcs
  <2>2. raced \in SUBSET Evals /\ early \in SUBSET Evals
    BY DEF Init
  <2>3. once \in BOOLEAN /\ crashed \in BOOLEAN
    BY DEF Init
  <2>4. state \in States /\ waiter \in Waiters /\ wg \in Nat /\ activeEval \in Int
    BY DEF Init, States, Waiters
  <2>5. QED
    BY <2>1, <2>2, <2>3, <2>4 DEF TypeOK
<1>2. OnWaitGroup = {}
  BY DEF Init, OnWaitGroup, InProgressPcs
<1>3. QED
  BY <1>1, <1>2, FS_EmptySet DEF CountInv, WaitGroupCounts, Init

LEMMA CountNext == CountInv /\ [Next]_vars => CountInv'
<1> SUFFICES ASSUME CountInv, [Next]_vars PROVE CountInv'
  OBVIOUS
<1> USE DEF CountInv
<1>f. IsFiniteSet(OnWaitGroup) /\ Cardinality(OnWaitGroup) = wg /\ wg \in Nat
  BY EvalsFinite, FS_Subset DEF OnWaitGroup, TypeOK, WaitGroupCounts
<1>s. ASSUME UNCHANGED <<evalPc, wg>> PROVE WaitGroupCounts'
  BY <1>s DEF WaitGroupCounts, OnWaitGroup
<1>1. ASSUME NEW e \in Evals, EvalNext(e) PROVE CountInv'
  <2>1. CASE CheckShuttingDown(e)
    <3> DEFINE to == IF state = "Running" THEN "checked" ELSE "rejected"
    <3>1. TypeOK'
      BY <2>1 DEF CheckShuttingDown, EvalStep, TypeOK, EvalPcs
    <3>2. OnWaitGroup' = OnWaitGroup
      BY <2>1, OnWaitGroupStep, to \in EvalPcs DEF CheckShuttingDown, EvalPcs, InProgressPcs
    <3>3. QED
      BY <2>1, <3>1, <3>2 DEF CheckShuttingDown, WaitGroupCounts
  <2>2. CASE BeginLoad(e)
    <3> DEFINE to == IF state = "Running" THEN "adding" ELSE "rejected"
    <3>1. TypeOK'
      BY <2>2 DEF BeginLoad, EvalStep, TypeOK, EvalPcs
    <3>2. OnWaitGroup' = OnWaitGroup
      BY <2>2, OnWaitGroupStep, to \in EvalPcs DEF BeginLoad, EvalPcs, InProgressPcs
    <3>3. QED
      BY <2>2, <3>1, <3>2 DEF BeginLoad, WaitGroupCounts
  <2>3. CASE BeginAdd(e)
    <3> DEFINE to == IF wg = 0 /\ waiter = "blocked" THEN "addPanic" ELSE "admitted"
    <3>1. TypeOK'
      BY <2>3 DEF BeginAdd, EvalStep, TypeOK, EvalPcs
    <3>2. e \notin OnWaitGroup /\ OnWaitGroup' = OnWaitGroup \union {e}
      BY <2>3, OnWaitGroupStep, to \in EvalPcs DEF BeginAdd, EvalPcs, InProgressPcs
    <3>3. Cardinality(OnWaitGroup') = wg + 1
      BY <1>f, <3>2, FS_AddElement
    <3>4. QED
      BY <2>3, <3>1, <3>3 DEF BeginAdd, WaitGroupCounts
  <2>4. CASE LeaveEarly(e)
    <3>1. TypeOK'
      BY <2>4 DEF LeaveEarly, EvalStep, TypeOK, EvalPcs
    <3>2. OnWaitGroup' = OnWaitGroup
      BY <2>4, OnWaitGroupStep DEF LeaveEarly, EvalPcs, InProgressPcs
    <3>3. QED
      BY <2>4, <3>1, <3>2 DEF LeaveEarly, WaitGroupCounts
  <2>5. CASE CountActive(e)
    <3>1. TypeOK'
      BY <2>5 DEF CountActive, EvalStep, TypeOK, EvalPcs
    <3>2. OnWaitGroup' = OnWaitGroup
      BY <2>5, OnWaitGroupStep DEF CountActive, EvalPcs, InProgressPcs
    <3>3. QED
      BY <2>5, <3>1, <3>2 DEF CountActive, WaitGroupCounts
  <2>6. CASE Leave(e)
    <3>1. TypeOK'
      BY <2>6 DEF Leave, EvalStep, TypeOK, EvalPcs
    <3>2. OnWaitGroup' = OnWaitGroup
      BY <2>6, OnWaitGroupStep DEF Leave, EvalPcs, InProgressPcs
    <3>3. QED
      BY <2>6, <3>1, <3>2 DEF Leave, WaitGroupCounts
  <2>7. CASE UncountActive(e)
    <3>1. TypeOK'
      BY <2>7 DEF UncountActive, EvalStep, TypeOK, EvalPcs
    <3>2. OnWaitGroup' = OnWaitGroup
      BY <2>7, OnWaitGroupStep DEF UncountActive, EvalPcs, InProgressPcs
    <3>3. QED
      BY <2>7, <3>1, <3>2 DEF UncountActive, WaitGroupCounts
  <2>8. CASE End(e)
    <3> DEFINE to == IF wg = 1 /\ waiter = "blocked" THEN "releasing" ELSE "returned"
    <3>1. e \in OnWaitGroup /\ OnWaitGroup' = OnWaitGroup \ {e}
      BY <2>8, OnWaitGroupStep, to \in EvalPcs DEF End, EvalPcs, InProgressPcs
    <3>2. /\ IsFiniteSet(OnWaitGroup')
          /\ Cardinality(OnWaitGroup') = wg - 1
      BY <1>f, <3>1, FS_RemoveElement
    <3>3. wg - 1 \in Nat
      BY <3>2, FS_CardinalityType
    <3>4. TypeOK'
      BY <2>8, <3>3 DEF End, EvalStep, TypeOK, EvalPcs
    <3>5. QED
      BY <2>8, <3>2, <3>4 DEF End, WaitGroupCounts
  <2>9. CASE EndRelease(e)
    <3> DEFINE to == IF wg = 0 THEN "returned" ELSE "donePanic"
    <3>1. TypeOK'
      BY <2>9 DEF EndRelease, EvalStep, TypeOK, EvalPcs, Waiters
    <3>2. OnWaitGroup' = OnWaitGroup
      BY <2>9, OnWaitGroupStep, to \in EvalPcs DEF EndRelease, EvalPcs, InProgressPcs
    <3>3. QED
      BY <2>9, <3>1, <3>2 DEF EndRelease, WaitGroupCounts
  <2>10. QED
    BY <1>1, <2>1, <2>2, <2>3, <2>4, <2>5, <2>6, <2>7, <2>8, <2>9 DEF EvalNext
<1>2. ASSUME NEW s \in Callers, CallerNext(s) PROVE CountInv'
  <2>1. TypeOK'
    BY <1>2 DEF CallerNext, MarkShutdown, SpawnWaiter, Drained, TimedOut, CallerStep,
                TypeOK, States, Waiters, CallerPcs
  <2>2. UNCHANGED <<evalPc, wg>>
    BY <1>2 DEF CallerNext, MarkShutdown, SpawnWaiter, Drained, TimedOut
  <2>3. QED
    BY <1>s, <2>1, <2>2
<1>3. ASSUME WaiterNext PROVE CountInv'
  <2>1. TypeOK'
    BY <1>3 DEF WaiterNext, WaitGroupWait, WaitGroupWake, WaiterStep, TypeOK, Waiters
  <2>2. UNCHANGED <<evalPc, wg>>
    BY <1>3 DEF WaiterNext, WaitGroupWait, WaitGroupWake
  <2>3. QED
    BY <1>s, <2>1, <2>2
<1>4. CASE UNCHANGED vars
  BY <1>4 DEF vars, TypeOK, WaitGroupCounts, OnWaitGroup
<1>5. QED
  BY <1>1, <1>2, <1>3, <1>4 DEF Next

(***************************************************************************)
(* Type correctness of the shutdown manager; in particular the counter     *)
(* never goes below zero, where sync.WaitGroup panics.                     *)
(***************************************************************************)
THEOREM TypeCorrect == Spec => []TypeOK
<1>1. CountInv => TypeOK
  BY DEF CountInv
<1>2. QED
  BY CountInit, CountNext, <1>1, PTL DEF Spec

(***************************************************************************)
(* The wait group counts exactly the evaluations between begin and end and *)
(* those whose Add panicked.                                               *)
(***************************************************************************)
THEOREM WaitGroupExact == Spec => []WaitGroupCounts
<1>1. CountInv => WaitGroupCounts
  BY DEF CountInv
<1>2. QED
  BY CountInit, CountNext, <1>1, PTL DEF Spec

-----------------------------------------------------------------------------
(***************************************************************************)
(* The race.  Begun: a Shutdown call is past markShutdown.  Settled: the   *)
(* wait group was seen at zero since.  From then on only evaluations that  *)
(* join after the mark can be on the wait group.                           *)
(***************************************************************************)
Begun ==
    \/ waiter # "none"
    \/ \E e \in Evals : evalPc[e] = "releasing"
    \/ \E s \in Callers : callerPc[s] \in {"spawning", "selecting", "nil", "timeout"}

Settled ==
    \/ waiter \in {"woken", "done"}
    \/ \E e \in Evals : evalPc[e] = "releasing"
    \/ \E s \in Callers : callerPc[s] = "nil"

RaceInv ==
    /\ Begun => state # "Running"
    /\ Settled => OnWaitGroup \subseteq raced
    /\ \A e \in Evals : evalPc[e] = "addPanic" => e \in raced
    /\ Panicked => raced # {}

LEMMA ZeroMeansNone == CountInv => (wg = 0 <=> OnWaitGroup = {})
  BY EvalsFinite, FS_Subset, FS_EmptySet DEF CountInv, WaitGroupCounts, OnWaitGroup

LEMMA SettledIsBegun == Settled => Begun
  BY DEF Settled, Begun

LEMMA RaceInit == Init => RaceInv
  BY DEF Init, RaceInv, Begun, Settled, Panicked

LEMMA RaceNext == CountInv /\ CountInv' /\ RaceInv /\ [Next]_vars => RaceInv'
<1> SUFFICES ASSUME CountInv, CountInv', RaceInv, [Next]_vars PROVE RaceInv'
  OBVIOUS
<1> USE DEF CountInv
<1>t. TypeOK /\ TypeOK'
  OBVIOUS
<1>z. (wg = 0 <=> OnWaitGroup = {}) /\ (wg' = 0 <=> OnWaitGroup' = {})
  <2>1. wg' = 0 <=> OnWaitGroup' = {}
    BY EvalsFinite, FS_Subset, FS_EmptySet DEF WaitGroupCounts, OnWaitGroup
  <2>2. QED
    BY <2>1, ZeroMeansNone
<1>b. Settled => state # "Running" /\ OnWaitGroup \subseteq raced
  BY SettledIsBegun DEF RaceInv
\* An evaluation that neither joins the group nor goes through its release.
<1>q. ASSUME NEW e \in Evals, NEW from \in EvalPcs, NEW to \in EvalPcs, EvalStep(e, from, to),
             from # "releasing",
             to \notin {"releasing", "addPanic", "donePanic"},
             to \in InProgressPcs => from \in InProgressPcs,
             UNCHANGED <<state, waiter, callerPc, crashed, raced>>
      PROVE  RaceInv'
  <2>1. OnWaitGroup' \subseteq OnWaitGroup
    BY <1>t, <1>q DEF TypeOK, EvalStep, OnWaitGroup
  <2>2. \A d \in Evals : evalPc'[d] \in {"releasing", "addPanic", "donePanic"} => evalPc'[d] = evalPc[d]
    BY <1>t, <1>q DEF TypeOK, EvalStep
  <2>3. (Begun' => Begun) /\ (Settled' => Settled)
    BY <1>q, <2>2 DEF Begun, Settled
  <2>4. Panicked' => Panicked
    BY <1>q, <2>2 DEF Panicked
  <2>5. QED
    BY <1>q, <2>1, <2>2, <2>3, <2>4 DEF RaceInv
<1>1. ASSUME NEW e \in Evals, EvalNext(e) PROVE RaceInv'
  <2>1. CASE CheckShuttingDown(e)
    <3> DEFINE to == IF state = "Running" THEN "checked" ELSE "rejected"
    <3>1. QED
      BY <2>1, <1>q, to \in EvalPcs DEF CheckShuttingDown, EvalPcs, InProgressPcs
  <2>2. CASE BeginLoad(e)
    <3> DEFINE to == IF state = "Running" THEN "adding" ELSE "rejected"
    <3>1. QED
      BY <2>2, <1>q, to \in EvalPcs DEF BeginLoad, EvalPcs, InProgressPcs
  <2>3. CASE BeginAdd(e)
    <3>1. Begun' => Begun
      BY <2>3, <1>t DEF BeginAdd, EvalStep, TypeOK, Begun
    <3>2. state # "Running" => e \in raced' /\ raced \subseteq raced'
      BY <2>3 DEF BeginAdd
    <3>3. raced \subseteq raced'
      BY <2>3 DEF BeginAdd
    <3>4. \A d \in Evals : d # e => evalPc'[d] = evalPc[d]
      BY <2>3, <1>t DEF BeginAdd, EvalStep, TypeOK
    <3>5. evalPc'[e] = "addPanic" => state # "Running"
      BY <2>3, <1>t DEF BeginAdd, EvalStep, TypeOK, RaceInv, Begun
    <3>6. Settled' => Settled
      BY <2>3, <1>t DEF BeginAdd, EvalStep, TypeOK, Settled
    <3>7. OnWaitGroup' \subseteq OnWaitGroup \union {e}
      BY <3>4 DEF OnWaitGroup
    <3>8. Settled' => OnWaitGroup' \subseteq raced'
      BY <3>2, <3>3, <3>6, <3>7, <1>b
    <3>9. \A d \in Evals : evalPc'[d] = "addPanic" => d \in raced'
      BY <3>2, <3>3, <3>4, <3>5 DEF RaceInv
    <3>10. Panicked' => Panicked \/ evalPc'[e] = "addPanic"
      BY <2>3, <1>t DEF BeginAdd, EvalStep, TypeOK, Panicked
    <3>11. QED
      BY <2>3, <3>1, <3>3, <3>8, <3>9, <3>10 DEF BeginAdd, RaceInv
  <2>4. CASE LeaveEarly(e)
    BY <2>4, <1>q DEF LeaveEarly, EvalPcs, InProgressPcs
  <2>5. CASE CountActive(e)
    BY <2>5, <1>q DEF CountActive, EvalPcs, InProgressPcs
  <2>6. CASE Leave(e)
    BY <2>6, <1>q DEF Leave, EvalPcs, InProgressPcs
  <2>7. CASE UncountActive(e)
    BY <2>7, <1>q DEF UncountActive, EvalPcs, InProgressPcs
  <2>8. CASE End(e)
    <3>1. CASE wg = 1 /\ waiter = "blocked"
      <4>1. wg' = 0
        BY <2>8, <3>1 DEF End
      <4>2. OnWaitGroup' = {}
        BY <4>1, <1>z
      <4>3. state # "Running" /\ state' = state
        BY <2>8, <3>1 DEF End, RaceInv, Begun
      <4>4. \A d \in Evals : evalPc'[d] \in {"addPanic", "donePanic"} => evalPc'[d] = evalPc[d]
        BY <2>8, <3>1, <1>t DEF End, EvalStep, TypeOK
      <4>5. QED
        BY <2>8, <4>2, <4>3, <4>4 DEF End, RaceInv, Panicked
    <3>2. CASE ~(wg = 1 /\ waiter = "blocked")
      BY <2>8, <3>2, <1>q DEF End, EvalPcs, InProgressPcs
    <3>3. QED
      BY <3>1, <3>2
  <2>9. CASE EndRelease(e)
    <3>1. Settled
      BY <2>9 DEF EndRelease, EvalStep, Settled
    <3>2. OnWaitGroup' \subseteq OnWaitGroup
      BY <2>9, <1>t DEF EndRelease, EvalStep, TypeOK, OnWaitGroup, InProgressPcs
    <3>3. wg # 0 => raced # {}
      BY <3>1, <1>b, <1>z
    <3>4. Panicked' => Panicked \/ wg # 0
      BY <2>9, <1>t DEF EndRelease, EvalStep, TypeOK, Panicked
    <3>5. \A d \in Evals : evalPc'[d] = "addPanic" => evalPc[d] = "addPanic"
      BY <2>9, <1>t DEF EndRelease, EvalStep, TypeOK
    <3>6. QED
      BY <2>9, <3>1, <3>2, <3>3, <3>4, <3>5, <1>b DEF EndRelease, RaceInv
  <2>10. QED
    BY <1>1, <2>1, <2>2, <2>3, <2>4, <2>5, <2>6, <2>7, <2>8, <2>9 DEF EvalNext
<1>2. ASSUME NEW s \in Callers, CallerNext(s) PROVE RaceInv'
  <2>1. UNCHANGED <<evalPc, crashed, raced, wg>> /\ OnWaitGroup' = OnWaitGroup
    BY <1>2 DEF CallerNext, MarkShutdown, SpawnWaiter, Drained, TimedOut, OnWaitGroup
  <2>2. (\A e \in Evals : evalPc'[e] = "addPanic" => e \in raced') /\ (Panicked' => raced' # {})
    BY <2>1 DEF RaceInv, Panicked
  <2>3. CASE MarkShutdown(s)
    <3>1. Settled' => Settled
      BY <2>3, <2>1, <1>t DEF MarkShutdown, CallerStep, TypeOK, Settled
    <3>2. Begun' => Begun \/ ~once
      BY <2>3, <2>1, <1>t DEF MarkShutdown, CallerStep, TypeOK, Begun
    <3>3. Begun' => state' # "Running"
      BY <2>3, <3>2 DEF MarkShutdown, RaceInv
    <3>4. QED
      BY <2>1, <2>2, <3>1, <3>3 DEF RaceInv
  <2>4. CASE SpawnWaiter(s)
    <3>1. Begun /\ state' = state
      BY <2>4 DEF SpawnWaiter, CallerStep, Begun
    <3>2. Settled' => Settled
      BY <2>4, <2>1, <1>t DEF SpawnWaiter, CallerStep, TypeOK, Settled
    <3>3. QED
      BY <2>1, <2>2, <3>1, <3>2 DEF RaceInv
  <2>5. CASE Drained(s)
    <3>1. Settled /\ state' = "Shutdown"
      BY <2>5 DEF Drained, Settled
    <3>2. QED
      BY <2>1, <2>2, <3>1 DEF RaceInv
  <2>6. CASE TimedOut(s)
    <3>1. state' = "Shutdown"
      BY <2>6 DEF TimedOut
    <3>2. Settled' => Settled
      BY <2>6, <2>1, <1>t DEF TimedOut, CallerStep, TypeOK, Settled
    <3>3. QED
      BY <2>1, <2>2, <3>1, <3>2 DEF RaceInv
  <2>7. QED
    BY <1>2, <2>3, <2>4, <2>5, <2>6 DEF CallerNext
<1>3. ASSUME WaiterNext PROVE RaceInv'
  <2>1. UNCHANGED <<state, evalPc, callerPc, raced, wg>> /\ OnWaitGroup' = OnWaitGroup
    BY <1>3 DEF WaiterNext, WaitGroupWait, WaitGroupWake, OnWaitGroup
  <2>2. waiter # "none" /\ state' # "Running"
    BY <1>3, <2>1 DEF WaiterNext, WaitGroupWait, WaitGroupWake, WaiterStep, RaceInv, Begun
  <2>3. Settled' => Settled \/ wg = 0
    BY <1>3, <2>1 DEF WaiterNext, WaitGroupWait, WaitGroupWake, WaiterStep, Settled
  <2>4. Settled' => OnWaitGroup' \subseteq raced'
    BY <2>1, <2>3, <1>b, <1>z
  <2>5. Panicked' => Panicked \/ (Settled /\ wg # 0)
    BY <1>3, <2>1 DEF WaiterNext, WaitGroupWait, WaitGroupWake, WaiterStep, Panicked, Settled
  <2>6. QED
    BY <2>1, <2>2, <2>4, <2>5, <1>b, <1>z DEF RaceInv
<1>4. CASE UNCHANGED vars
  BY <1>4 DEF vars, RaceInv, Begun, Settled, Panicked, OnWaitGroup
<1>5. QED
  BY <1>1, <1>2, <1>3, <1>4 DEF Next

LEMMA RaceAlways == Spec => [](CountInv /\ RaceInv)
  BY CountInit, CountNext, RaceInit, RaceNext, PTL DEF Spec

(***************************************************************************)
(* When a Shutdown call has returned nil, every evaluation still in        *)
(* progress joined the wait group after the state was marked.              *)
(***************************************************************************)
THEOREM DrainSafety == Spec => []DrainMissesOnlyTheRace
<1>1. CountInv /\ RaceInv => DrainMissesOnlyTheRace
  BY DEF RaceInv, Settled, DrainMissesOnlyTheRace, OnWaitGroup, InProgress
<1>2. QED
  BY RaceAlways, <1>1, PTL

(***************************************************************************)
(* No wait group panic, and no loss of the process, without an evaluation  *)
(* that joined after the mark.                                             *)
(***************************************************************************)
THEOREM PanicSafety == Spec => []PanicNeedsTheRace
<1>1. CountInv /\ RaceInv => PanicNeedsTheRace
  BY DEF RaceInv, PanicNeedsTheRace
<1>2. QED
  BY RaceAlways, <1>1, PTL

-----------------------------------------------------------------------------
(***************************************************************************)
(* The drift of activeEval.  Only an evaluation past LeaveEarly is in      *)
(* early, and no evaluation is ever in both of the counted sets.           *)
(***************************************************************************)
DriftInv ==
    /\ \A e \in early : evalPc[e] \in {"leaving", "metered", "releasing", "returned", "donePanic"}
    /\ ActiveEvalDrift

LEMMA DriftInit == Init => DriftInv
<1> SUFFICES ASSUME Init PROVE DriftInv
  OBVIOUS
<1>1. CountedNow = {} /\ Undercounted = {} /\ early = {} /\ activeEval = 0
  BY DEF Init, CountedNow, Undercounted
<1>2. QED
  BY <1>1, FS_EmptySet DEF DriftInv, ActiveEvalDrift

LEMMA DriftNext == TypeOK /\ DriftInv /\ [Next]_vars => DriftInv'
<1> SUFFICES ASSUME TypeOK, DriftInv, [Next]_vars PROVE DriftInv'
  OBVIOUS
<1>f. /\ IsFiniteSet(CountedNow) /\ Cardinality(CountedNow) \in Nat
      /\ IsFiniteSet(Undercounted) /\ Cardinality(Undercounted) \in Nat
  <2>1. CountedNow \in SUBSET Evals /\ Undercounted \in SUBSET Evals
    BY DEF CountedNow, Undercounted, TypeOK
  <2>2. QED
    BY <2>1, EvalsFinite, FS_Subset, FS_CardinalityType
<1>a. activeEval = Cardinality(CountedNow) - Cardinality(Undercounted)
  BY DEF DriftInv, ActiveEvalDrift
\* A step of an evaluation that leaves the gauge alone and stays on its side
\* of both sets.
<1>q. ASSUME NEW e \in Evals, NEW from \in EvalPcs, NEW to \in EvalPcs, EvalStep(e, from, to),
             from \in {"idle", "checked", "adding", "metered", "releasing"},
             to \notin {"counted", "leaving"},
             from \in {"metered", "releasing"} => to \in {"releasing", "returned", "donePanic"},
             UNCHANGED <<activeEval, early>>
      PROVE  DriftInv'
  <2>1. CountedNow' = CountedNow
    BY <1>q DEF TypeOK, EvalStep, CountedNow
  <2>2. Undercounted' = Undercounted
    BY <1>q DEF TypeOK, EvalStep, Undercounted
  <2>3. \A d \in early' : evalPc'[d] \in {"leaving", "metered", "releasing", "returned", "donePanic"}
    BY <1>q DEF TypeOK, EvalStep, DriftInv
  <2>4. QED
    BY <1>q, <1>a, <2>1, <2>2, <2>3 DEF DriftInv, ActiveEvalDrift
<1>1. ASSUME NEW e \in Evals, EvalNext(e) PROVE DriftInv'
  <2>1. CASE CheckShuttingDown(e)
    <3> DEFINE to == IF state = "Running" THEN "checked" ELSE "rejected"
    <3>1. QED
      BY <2>1, <1>q, to \in EvalPcs DEF CheckShuttingDown, EvalPcs
  <2>2. CASE BeginLoad(e)
    <3> DEFINE to == IF state = "Running" THEN "adding" ELSE "rejected"
    <3>1. QED
      BY <2>2, <1>q, to \in EvalPcs DEF BeginLoad, EvalPcs
  <2>3. CASE BeginAdd(e)
    <3> DEFINE to == IF wg = 0 /\ waiter = "blocked" THEN "addPanic" ELSE "admitted"
    <3>1. QED
      BY <2>3, <1>q, to \in EvalPcs DEF BeginAdd, EvalPcs
  <2>4. CASE LeaveEarly(e)
    <3>1. CountedNow' = CountedNow
      BY <2>4 DEF LeaveEarly, EvalStep, TypeOK, CountedNow
    <3>2. Undercounted' = Undercounted
      BY <2>4 DEF LeaveEarly, EvalStep, TypeOK, Undercounted, DriftInv
    <3>3. \A d \in early' : evalPc'[d] \in {"leaving", "metered", "releasing", "returned", "donePanic"}
      BY <2>4 DEF LeaveEarly, EvalStep, TypeOK, DriftInv
    <3>4. QED
      BY <2>4, <1>a, <3>1, <3>2, <3>3 DEF LeaveEarly, DriftInv, ActiveEvalDrift
  <2>5. CASE CountActive(e)
    <3>1. e \notin CountedNow /\ CountedNow' = CountedNow \union {e}
      BY <2>5 DEF CountActive, EvalStep, TypeOK, CountedNow
    <3>2. Undercounted' = Undercounted
      BY <2>5 DEF CountActive, EvalStep, TypeOK, Undercounted, DriftInv
    <3>3. \A d \in early' : evalPc'[d] \in {"leaving", "metered", "releasing", "returned", "donePanic"}
      <4>1. early' = early /\ e \notin early
        BY <2>5 DEF CountActive, EvalStep, DriftInv
      <4>2. QED
        BY <2>5, <4>1 DEF CountActive, EvalStep, TypeOK, DriftInv
    <3>4. Cardinality(CountedNow') = Cardinality(CountedNow) + 1
      BY <1>f, <3>1, FS_AddElement
    <3>5. QED
      BY <2>5, <1>a, <1>f, <3>2, <3>3, <3>4 DEF CountActive, DriftInv, ActiveEvalDrift, TypeOK
  <2>6. CASE Leave(e)
    <3>1. CountedNow' = CountedNow
      BY <2>6 DEF Leave, EvalStep, TypeOK, CountedNow, DriftInv
    <3>2. Undercounted' = Undercounted
      BY <2>6 DEF Leave, EvalStep, TypeOK, Undercounted, DriftInv
    <3>3. \A d \in early' : evalPc'[d] \in {"leaving", "metered", "releasing", "returned", "donePanic"}
      BY <2>6 DEF Leave, EvalStep, TypeOK, DriftInv
    <3>4. QED
      BY <2>6, <1>a, <3>1, <3>2, <3>3 DEF Leave, DriftInv, ActiveEvalDrift
  <2>7. CASE UncountActive(e)
    <3>1. \A d \in early' : evalPc'[d] \in {"leaving", "metered", "releasing", "returned", "donePanic"}
      BY <2>7 DEF UncountActive, EvalStep, TypeOK, DriftInv
    <3>2. CASE e \in early
      <4>1. CountedNow' = CountedNow
        BY <2>7, <3>2 DEF UncountActive, EvalStep, TypeOK, CountedNow
      <4>2. e \notin Undercounted /\ Undercounted' = Undercounted \union {e}
        BY <2>7, <3>2 DEF UncountActive, EvalStep, TypeOK, Undercounted
      <4>3. Cardinality(Undercounted') = Cardinality(Undercounted) + 1
        BY <1>f, <4>2, FS_AddElement
      <4>4. QED
        BY <2>7, <1>a, <1>f, <3>1, <4>1, <4>3 DEF UncountActive, DriftInv, ActiveEvalDrift, TypeOK
    <3>3. CASE e \notin early
      <4>1. e \in CountedNow /\ CountedNow' = CountedNow \ {e}
        BY <2>7, <3>3 DEF UncountActive, EvalStep, TypeOK, CountedNow
      <4>2. Undercounted' = Undercounted
        BY <2>7, <3>3 DEF UncountActive, EvalStep, TypeOK, Undercounted
      <4>3. Cardinality(CountedNow') = Cardinality(CountedNow) - 1
        BY <1>f, <4>1, FS_RemoveElement
      <4>4. QED
        BY <2>7, <1>a, <1>f, <3>1, <4>2, <4>3 DEF UncountActive, DriftInv, ActiveEvalDrift, TypeOK
    <3>4. QED
      BY <3>2, <3>3
  <2>8. CASE End(e)
    <3> DEFINE to == IF wg = 1 /\ waiter = "blocked" THEN "releasing" ELSE "returned"
    <3>1. QED
      BY <2>8, <1>q, to \in EvalPcs DEF End, EvalPcs
  <2>9. CASE EndRelease(e)
    <3> DEFINE to == IF wg = 0 THEN "returned" ELSE "donePanic"
    <3>1. QED
      BY <2>9, <1>q, to \in EvalPcs DEF EndRelease, EvalPcs
  <2>10. QED
    BY <1>1, <2>1, <2>2, <2>3, <2>4, <2>5, <2>6, <2>7, <2>8, <2>9 DEF EvalNext
<1>2. ASSUME UNCHANGED <<evalPc, activeEval, early>> PROVE DriftInv'
  BY <1>2 DEF DriftInv, ActiveEvalDrift, CountedNow, Undercounted
<1>3. ASSUME NEW s \in Callers, CallerNext(s) PROVE DriftInv'
  BY <1>2, <1>3 DEF CallerNext, MarkShutdown, SpawnWaiter, Drained, TimedOut
<1>4. ASSUME WaiterNext PROVE DriftInv'
  BY <1>2, <1>4 DEF WaiterNext, WaitGroupWait, WaitGroupWake
<1>5. CASE UNCHANGED vars
  BY <1>2, <1>5 DEF vars
<1>6. QED
  BY <1>1, <1>3, <1>4, <1>5 DEF Next

(***************************************************************************)
(* Engine.activeEval is off by exactly the number of evaluations that left *)
(* before they were counted: it drifts down and never recovers.            *)
(***************************************************************************)
THEOREM DriftExact == Spec => []ActiveEvalDrift
<1>1. DriftInv => ActiveEvalDrift
  BY DEF DriftInv
<1>2. QED
  BY TypeCorrect, DriftInit, DriftNext, <1>1, PTL DEF Spec

(***************************************************************************)
(* Both counters of the engine are exact on every way through evalChain,   *)
(* for any number of evaluations and of Shutdown calls.                    *)
(***************************************************************************)
THEOREM CountersCorrect == Spec => []CountersExact
<1>1. TypeOK /\ WaitGroupCounts /\ ActiveEvalDrift => CountersExact
  BY DEF CountersExact
<1>2. QED
  BY TypeCorrect, WaitGroupExact, DriftExact, <1>1, PTL
=============================================================================

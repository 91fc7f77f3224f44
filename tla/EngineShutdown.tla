---------------------------- MODULE EngineShutdown ----------------------------
(***************************************************************************)
(* Graceful shutdown of the engine: the state word and the wait group of   *)
(* core/engine/shutdown.go, Engine.Shutdown, and the entry and the exit of *)
(* every EvalChain call, which are the steps that race with it.  What an   *)
(* evaluation does between its entry and its exit is module EvalChain.     *)
(***************************************************************************)
EXTENDS Integers, FiniteSets

CONSTANTS
    Evals,        \* goroutines, each of which makes one EvalChain call
    Callers,      \* goroutines, each of which makes one Shutdown call
    Cancellable   \* the callers whose context may be cancelled or time out

ASSUME EvalsFinite == IsFiniteSet(Evals)
ASSUME CancellableCallers == Cancellable \subseteq Callers

VARIABLES
    state,       \* shutdown.stateVal
    once,        \* has shutdown.once fired?
    wg,          \* counter of shutdown.wg
    waiter,      \* the goroutine of shutdown.wait that calls wg.Wait
    activeEval,  \* Engine.activeEval
    evalPc,      \* where each evaluation is
    callerPc,    \* where each Shutdown call is
    crashed,     \* the waiter goroutine panicked: the process is gone
    raced,       \* history: the evaluations that joined wg after the mark
    early        \* history: the evaluations that left before they were counted

vars == <<state, once, wg, waiter, activeEval, evalPc, callerPc, crashed, raced, early>>

States == {"Running", "ShuttingDown", "Shutdown"}
Waiters == {"none", "spawned", "blocked", "woken", "done"}
EvalPcs == {"idle", "checked", "adding", "admitted", "counted", "leaving",
            "metered", "releasing", "returned", "rejected",
            "addPanic", "donePanic"}
CallerPcs == {"idle", "spawning", "selecting", "nil", "timeout", "second"}

\* The evaluations in progress: admitted by begin and not yet at end.
InProgressPcs == {"admitted", "counted", "leaving", "metered"}
InProgress == {e \in Evals : evalPc[e] \in InProgressPcs}

Init ==
    /\ state = "Running"
    /\ once = FALSE
    /\ wg = 0
    /\ waiter = "none"
    /\ activeEval = 0
    /\ evalPc = [e \in Evals |-> "idle"]
    /\ callerPc = [s \in Callers |-> "idle"]
    /\ crashed = FALSE
    /\ raced = {}
    /\ early = {}

\* A panic that nothing recovers ends the process: no goroutine goes on.
EvalStep(e, from, to) ==
    ~crashed /\ evalPc[e] = from /\ evalPc' = [evalPc EXCEPT ![e] = to]
CallerStep(s, from, to) ==
    ~crashed /\ callerPc[s] = from /\ callerPc' = [callerPc EXCEPT ![s] = to]
WaiterStep(from, to) == ~crashed /\ waiter = from /\ waiter' = to

-----------------------------------------------------------------------------
(* Faulty variants of the actions below, one mistake each: the properties  *)
(* at the end of the module reject them.                                   *)

\* An early return written before "defer end()".
LeaveEarlyWithoutEnd(e) ==
    /\ EvalStep(e, "admitted", "returned")
    /\ early' = early \union {e}
    /\ UNCHANGED <<state, once, wg, waiter, activeEval, callerPc, crashed, raced>>

\* A loop exit that bypasses the deferred decrement.
LeaveStillCounted(e) ==
    /\ EvalStep(e, "counted", "metered")
    /\ UNCHANGED <<state, once, wg, waiter, activeEval, callerPc, crashed, raced, early>>

\* The state word is not stored by the sync.Once body.
MarkWithoutStore(s) ==
    /\ CallerStep(s, "idle", IF once THEN "second" ELSE "spawning")
    /\ once' = TRUE
    /\ UNCHANGED <<state, wg, waiter, activeEval, evalPc, crashed, raced, early>>

\* Shutdown returns without looking at the done channel.
DrainedAtOnce(s) ==
    /\ CallerStep(s, "selecting", "nil")
    /\ state' = "Shutdown"
    /\ UNCHANGED <<once, wg, waiter, activeEval, evalPc, crashed, raced, early>>

-----------------------------------------------------------------------------
(* evalChain: the entry                                                    *)

\* The isShuttingDown test at the top of evalChain.
CheckShuttingDown(e) ==
    /\ EvalStep(e, "idle", IF state = "Running" THEN "checked" ELSE "rejected")
    /\ UNCHANGED <<state, once, wg, waiter, activeEval, callerPc, crashed, raced, early>>

\* begin() reads the state word a second time ...
BeginLoad(e) ==
    /\ EvalStep(e, "checked", IF state = "Running" THEN "adding" ELSE "rejected")
    /\ UNCHANGED <<state, once, wg, waiter, activeEval, callerPc, crashed, raced, early>>

\* ... and joins the wait group in a later step.  sync.WaitGroup.Add panics
\* when it raises the counter from zero while a Wait is still registered; the
\* recovering defer is not in place yet, so the caller of EvalChain gets the
\* panic and nothing ever takes the count back.
BeginAdd(e) ==
    /\ EvalStep(e, "adding",
                IF wg = 0 /\ waiter = "blocked" THEN "addPanic" ELSE "admitted")
    /\ wg' = wg + 1
    /\ raced' = IF state = "Running" THEN raced ELSE raced \union {e}
    /\ UNCHANGED <<state, once, waiter, activeEval, callerPc, crashed, early>>

-----------------------------------------------------------------------------
(* evalChain: the body and the deferred calls                              *)

\* A return (or a recovered panic) before the activeEval increment: level
\* Dropping, or no chain of that name in the snapshot.
LeaveEarly(e) ==
    /\ EvalStep(e, "admitted", "leaving")
    /\ early' = early \union {e}
    /\ UNCHANGED <<state, once, wg, waiter, activeEval, callerPc, crashed, raced>>

CountActive(e) ==
    /\ EvalStep(e, "admitted", "counted")
    /\ activeEval' = activeEval + 1
    /\ UNCHANGED <<state, once, wg, waiter, callerPc, crashed, raced, early>>

\* Every way out of the rule loop, panics included.
Leave(e) ==
    /\ EvalStep(e, "counted", "leaving")
    /\ UNCHANGED <<state, once, wg, waiter, activeEval, callerPc, crashed, raced, early>>

\* The deferred decrement, registered before the backpressure test, runs on
\* every way out.
UncountActive(e) ==
    /\ EvalStep(e, "leaving", "metered")
    /\ activeEval' = activeEval - 1
    /\ UNCHANGED <<state, once, wg, waiter, callerPc, crashed, raced, early>>

\* end() = wg.Done: the call that brings the counter to zero while a Wait is
\* registered goes on to release it; any other returns.
End(e) ==
    /\ EvalStep(e, "metered",
                IF wg = 1 /\ waiter = "blocked" THEN "releasing" ELSE "returned")
    /\ wg' = wg - 1
    /\ UNCHANGED <<state, once, waiter, activeEval, callerPc, crashed, raced, early>>

\* wg.Done, second half: it panics, again into the caller of EvalChain, when
\* the counter moved meanwhile.
EndRelease(e) ==
    /\ EvalStep(e, "releasing", IF wg = 0 THEN "returned" ELSE "donePanic")
    /\ waiter' = IF wg = 0 THEN "woken" ELSE waiter
    /\ UNCHANGED <<state, once, wg, activeEval, callerPc, crashed, raced, early>>

-----------------------------------------------------------------------------
(* Engine.Shutdown                                                         *)

\* markShutdown: the sync.Once body runs for the first caller only; the others
\* get nil from Shutdown at once.
MarkShutdown(s) ==
    /\ CallerStep(s, "idle", IF once THEN "second" ELSE "spawning")
    /\ once' = TRUE
    /\ state' = IF once THEN state ELSE "ShuttingDown"
    /\ UNCHANGED <<wg, waiter, activeEval, evalPc, crashed, raced, early>>

SpawnWaiter(s) ==
    /\ CallerStep(s, "spawning", "selecting")
    /\ waiter' = "spawned"
    /\ UNCHANGED <<state, once, wg, activeEval, evalPc, crashed, raced, early>>

\* wg.Wait in the goroutine: at zero it returns and done is closed, otherwise
\* the goroutine registers and blocks.
WaitGroupWait ==
    /\ WaiterStep("spawned", IF wg = 0 THEN "done" ELSE "blocked")
    /\ UNCHANGED <<state, once, wg, activeEval, evalPc, callerPc, crashed, raced, early>>

\* Woken, Wait panics when the counter is in use again, and nothing recovers
\* a panic of that goroutine.
WaitGroupWake ==
    /\ WaiterStep("woken", IF wg = 0 THEN "done" ELSE "woken")
    /\ crashed' = (wg # 0)
    /\ UNCHANGED <<state, once, wg, activeEval, evalPc, callerPc, raced, early>>

Drained(s) ==
    /\ waiter = "done"
    /\ CallerStep(s, "selecting", "nil")
    /\ state' = "Shutdown"
    /\ UNCHANGED <<once, wg, waiter, activeEval, evalPc, crashed, raced, early>>

TimedOut(s) ==
    /\ s \in Cancellable
    /\ CallerStep(s, "selecting", "timeout")
    /\ state' = "Shutdown"
    /\ UNCHANGED <<once, wg, waiter, activeEval, evalPc, crashed, raced, early>>

-----------------------------------------------------------------------------
EvalNext(e) ==
    \/ CheckShuttingDown(e) \/ BeginLoad(e) \/ BeginAdd(e)
    \/ LeaveEarly(e) \/ CountActive(e) \/ Leave(e)
    \/ UncountActive(e) \/ End(e) \/ EndRelease(e)

CallerNext(s) == MarkShutdown(s) \/ SpawnWaiter(s) \/ Drained(s) \/ TimedOut(s)

WaiterNext == WaitGroupWait \/ WaitGroupWake

Next ==
    \/ \E e \in Evals : EvalNext(e)
    \/ \E s \in Callers : CallerNext(s)
    \/ WaiterNext

Spec == Init /\ [][Next]_vars

\* A started evaluation goes on to its end (the conditions and actions that
\* are registered return), the waiter goroutine is scheduled, and a started
\* Shutdown call goes on.  Whether an evaluation or a Shutdown call starts,
\* and whether a context is cancelled, is the application's choice.
Fairness ==
    /\ \A e \in Evals : WF_vars(evalPc[e] # "idle" /\ EvalNext(e))
    /\ \A s \in Callers : WF_vars(SpawnWaiter(s) \/ Drained(s))
    /\ WF_vars(WaiterNext)

FairSpec == Spec /\ Fairness

-----------------------------------------------------------------------------
(* Properties                                                              *)

TypeOK ==
    /\ state \in States
    /\ once \in BOOLEAN
    /\ wg \in Nat
    /\ waiter \in Waiters
    /\ activeEval \in Int
    /\ evalPc \in [Evals -> EvalPcs]
    /\ callerPc \in [Callers -> CallerPcs]
    /\ crashed \in BOOLEAN
    /\ raced \in SUBSET Evals
    /\ early \in SUBSET Evals

OnWaitGroup == {e \in Evals : evalPc[e] \in InProgressPcs \union {"addPanic"}}

(***************************************************************************)
(* The wait group counts the evaluations between begin and end, and the    *)
(* ones whose Add panicked: no way through evalChain, early return or      *)
(* late, takes the count twice or forgets it.                              *)
(***************************************************************************)
WaitGroupCounts == wg = Cardinality(OnWaitGroup)

(***************************************************************************)
(* Shutdown returning nil means that the evaluations in progress are over. *)
(* The only ones it can miss were between the two halves of begin() when   *)
(* the state was marked: they joined after the mark.                       *)
(***************************************************************************)
DrainMissesOnlyTheRace ==
    (\E s \in Callers : callerPc[s] = "nil") => InProgress \subseteq raced

Panicked == crashed \/ \E e \in Evals : evalPc[e] \in {"addPanic", "donePanic"}

(***************************************************************************)
(* A wait group panic, and so the loss of the process, needs a race with   *)
(* the mark as well: without one no evaluation panics and the waiter does  *)
(* not either.                                                             *)
(***************************************************************************)
PanicNeedsTheRace ==
    Panicked => raced # {}

(***************************************************************************)
(* What Engine.activeEval really holds: the evaluations that are counted   *)
(* and still running, less one for every evaluation that left before it    *)
(* was counted and has run the deferred decrement all the same.            *)
(***************************************************************************)
CountedNow ==
    {e \in Evals : evalPc[e] = "counted" \/ (evalPc[e] = "leaving" /\ e \notin early)}
Undercounted == {e \in early : evalPc[e] # "leaving"}

ActiveEvalDrift == activeEval = Cardinality(CountedNow) - Cardinality(Undercounted)

(***************************************************************************)
(* Whatever way an evaluation takes, the two counters are exact: the wait  *)
(* group, and activeEval but for its drift.                                *)
(***************************************************************************)
CountersExact == TypeOK /\ WaitGroupCounts /\ ActiveEvalDrift

(***************************************************************************)
(* Shutdown waits for every evaluation in progress, the race included.     *)
(***************************************************************************)
GracefulDrain == (\E s \in Callers : callerPc[s] = "nil") => InProgress = {}

(***************************************************************************)
(* A Shutdown call whose context is never cancelled ends when the          *)
(* evaluations do, unless a wait group panicked on the way.                *)
(***************************************************************************)
ShutdownCompletes ==
    \A s \in Callers \ Cancellable :
        (callerPc[s] # "idle") ~> (callerPc[s] \in {"nil", "second"} \/ Panicked)
=============================================================================

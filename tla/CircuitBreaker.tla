--------------------------- MODULE CircuitBreaker ---------------------------
(***************************************************************************)
(* contrib/circuitbreaker: a breaker made of four atomics, each read and   *)
(* written on its own.  The pc of a caller names the atomic access it has  *)
(* just made; the value it read is in the pc.  Between two accesses any    *)
(* other caller may run.                                                   *)
(*                                                                         *)
(* Time is the age of the last failure, saturating just above the recovery *)
(* timeout, beyond which the code cannot tell ages apart.                  *)
(***************************************************************************)
EXTENDS Naturals, FiniteSets

CONSTANTS Callers,            \* goroutines that ask for admission and record
          FailureThreshold,   \* consecutive failures that open the breaker
          RecoveryTimeout,    \* ticks the breaker stays open
          HalfOpenRequests    \* successes that close it again (3 in the code)

ASSUME BreakerAssumption ==
  /\ FailureThreshold \in Nat \ {0}
  /\ RecoveryTimeout \in Nat
  /\ HalfOpenRequests \in Nat \ {0}

VARIABLES
  state,          \* cb.state
  failureCount,   \* cb.failureCount
  failureAge,     \* now - cb.lastFailure, saturating
  successCount,   \* cb.successCount
  pc,             \* pc[c]: where caller c is between two atomic accesses
  oks,            \* history: successes added since the state last became half-open
  fails,          \* history: failures added since it last became closed or was reset
  raced           \* history: callers overtaken since they loaded the state

breakerVars == <<state, failureCount, failureAge, successCount, pc, oks, fails, raced>>

CircuitStates == {"Closed", "Open", "HalfOpen"}

BreakerPcs == {"idle", "sawOpen", "expired", "halfOpened", "sawHalfOpen", "admitted",
               "okHalfOpen", "enough", "closed", "closing", "okClosed",
               "failed", "failHalfOpen", "failClosed", "tooMany"}

\* CurrentLevel: what the engine is told.
CurrentLevel == CASE state = "Closed"   -> "Normal"
                  [] state = "Open"     -> "Dropping"
                  [] state = "HalfOpen" -> "Degraded"

BreakerInit ==
  /\ state = "Closed"
  /\ failureCount = 0
  /\ failureAge = RecoveryTimeout + 1      \* lastFailure is the zero time
  /\ successCount = 0
  /\ pc = [c \in Callers |-> "idle"]
  /\ oks = 0
  /\ fails = 0
  /\ raced = {}

-----------------------------------------------------------------------------
(* Steps of one caller. *)

Goto(c, from, to) == pc[c] = from /\ pc' = [pc EXCEPT ![c] = to]

\* Callers in the middle of a call.
Busy == {d \in Callers : pc[d] \notin {"idle", "admitted"}}

\* A store that changes the state overtakes everyone else in the middle of a
\* call.  (History only.)
Overtake(c) == raced' = (raced \ {c}) \cup (Busy \ {c})

\* A load starts a new call; the count c adds to is stale while another caller
\* still has a reset to do.  (History only.)
Unraced(c)     == raced' = raced \ {c}
AddRaced(c, p) == raced' = IF \E d \in Callers : pc[d] \in p THEN raced \cup {c} ELSE raced

\* ShouldAccept: load the state.
LoadForAccept(c) ==
  /\ \/ state = "Closed"   /\ Goto(c, "idle", "admitted")
     \/ state = "Open"     /\ Goto(c, "idle", "sawOpen")
     \/ state = "HalfOpen" /\ Goto(c, "idle", "sawHalfOpen")
  /\ Unraced(c)
  /\ UNCHANGED <<state, failureCount, failureAge, successCount, oks, fails>>

\* ShouldAccept, open: compare the age of the last failure.
CheckTimeout(c) ==
  /\ \/ failureAge > RecoveryTimeout /\ Goto(c, "sawOpen", "expired")
     \/ failureAge <= RecoveryTimeout /\ Goto(c, "sawOpen", "idle")
  /\ UNCHANGED <<state, failureCount, failureAge, successCount, oks, fails, raced>>

\* ShouldAccept, open and expired: store half-open, whatever the state is now ...
StoreHalfOpen(c) ==
  /\ Goto(c, "expired", "halfOpened")
  /\ state' = "HalfOpen"
  /\ oks' = 0
  /\ Overtake(c)
  /\ UNCHANGED <<failureCount, failureAge, successCount, fails>>

\* Mutation: the count of the last half-open period is kept.
KeepForHalfOpen(c) ==
  /\ Goto(c, "halfOpened", "admitted")
  /\ UNCHANGED <<state, failureCount, failureAge, successCount, oks, fails, raced>>

\* ... and, in a second step, reset the count of successes.
ResetForHalfOpen(c) ==
  /\ Goto(c, "halfOpened", "admitted")
  /\ successCount' = 0
  /\ UNCHANGED <<state, failureCount, failureAge, oks, fails, raced>>

\* ShouldAccept, half-open: admit while fewer successes than needed were recorded.
CheckProbes(c) ==
  /\ \/ successCount < HalfOpenRequests /\ Goto(c, "sawHalfOpen", "admitted")
     \/ successCount >= HalfOpenRequests /\ Goto(c, "sawHalfOpen", "idle")
  /\ UNCHANGED <<state, failureCount, failureAge, successCount, oks, fails, raced>>

\* RecordSuccess: load the state.
RecordSuccess(c) ==
  /\ \/ state = "HalfOpen" /\ Goto(c, "admitted", "okHalfOpen")
     \/ state = "Closed"   /\ Goto(c, "admitted", "okClosed")
     \/ state = "Open"     /\ Goto(c, "admitted", "idle")
  /\ Unraced(c)
  /\ UNCHANGED <<state, failureCount, failureAge, successCount, oks, fails>>

\* Mutation: one success more than the probes that are admitted.
AddSuccessOffByOne(c) ==
  /\ successCount' = successCount + 1
  /\ \/ successCount' > HalfOpenRequests /\ Goto(c, "okHalfOpen", "enough")
     \/ successCount' <= HalfOpenRequests /\ Goto(c, "okHalfOpen", "idle")
  /\ oks' = IF oks < HalfOpenRequests THEN oks + 1 ELSE oks
  /\ AddRaced(c, {"halfOpened"})
  /\ UNCHANGED <<state, failureCount, failureAge, fails>>

\* RecordSuccess, half-open: add one; the one that completes the count goes on.
AddSuccess(c) ==
  /\ successCount' = successCount + 1
  /\ \/ successCount' >= HalfOpenRequests /\ Goto(c, "okHalfOpen", "enough")
     \/ successCount' < HalfOpenRequests /\ Goto(c, "okHalfOpen", "idle")
  /\ oks' = IF oks < HalfOpenRequests THEN oks + 1 ELSE oks
  /\ AddRaced(c, {"halfOpened"})
  /\ UNCHANGED <<state, failureCount, failureAge, fails>>

\* RecordSuccess: compare-and-swap half-open to closed.
CasClosed(c) ==
  /\ \/ /\ state = "HalfOpen" /\ state' = "Closed"
        /\ fails' = 0
        /\ Goto(c, "enough", "closed")
        /\ Overtake(c)
     \/ /\ state # "HalfOpen"
        /\ Goto(c, "enough", "idle")
        /\ UNCHANGED <<state, fails, raced>>
  /\ UNCHANGED <<failureCount, failureAge, successCount, oks>>

\* The winner resets both counts, one after the other.
ResetFailures(c) ==
  /\ Goto(c, "closed", "closing")
  /\ failureCount' = 0
  /\ UNCHANGED <<state, failureAge, successCount, oks, fails, raced>>

ResetSuccesses(c) ==
  /\ Goto(c, "closing", "idle")
  /\ successCount' = 0
  /\ UNCHANGED <<state, failureCount, failureAge, oks, fails, raced>>

\* Mutation: failures need not be consecutive.
RememberFailures(c) ==
  /\ Goto(c, "okClosed", "idle")
  /\ fails' = 0
  /\ UNCHANGED <<state, failureCount, failureAge, successCount, oks, raced>>

\* RecordSuccess, closed: failures are counted from zero again.
ForgetFailures(c) ==
  /\ Goto(c, "okClosed", "idle")
  /\ failureCount' = 0
  /\ fails' = 0
  /\ raced' = raced \cup {d \in Callers : pc[d] = "tooMany"}
  /\ UNCHANGED <<state, failureAge, successCount, oks>>

\* RecordFailure: store the time ...
RecordFailure(c) ==
  /\ Goto(c, "admitted", "failed")
  /\ failureAge' = 0
  /\ UNCHANGED <<state, failureCount, successCount, oks, fails, raced>>

\* ... load the state ...
LoadForFailure(c) ==
  /\ \/ state = "HalfOpen" /\ Goto(c, "failed", "failHalfOpen")
     \/ state = "Closed"   /\ Goto(c, "failed", "failClosed")
     \/ state = "Open"     /\ Goto(c, "failed", "idle")
  /\ Unraced(c)
  /\ UNCHANGED <<state, failureCount, failureAge, successCount, oks, fails>>

\* ... count it when closed ...
AddFailure(c) ==
  /\ failureCount' = failureCount + 1
  /\ \/ failureCount' >= FailureThreshold /\ Goto(c, "failClosed", "tooMany")
     \/ failureCount' < FailureThreshold /\ Goto(c, "failClosed", "idle")
  /\ fails' = IF fails < FailureThreshold THEN fails + 1 ELSE fails
  /\ AddRaced(c, {"closed"})
  /\ UNCHANGED <<state, failureAge, successCount, oks>>

\* ... and store open, whatever the state is now.
StoreOpen(c) ==
  /\ \/ Goto(c, "failHalfOpen", "idle")
     \/ Goto(c, "tooMany", "idle")
  /\ state' = "Open"
  /\ IF state = "Open" THEN Unraced(c) ELSE Overtake(c)
  /\ UNCHANGED <<failureCount, failureAge, successCount, oks, fails>>

\* Time passes.
AgeFailure ==
  failureAge' = IF failureAge <= RecoveryTimeout THEN failureAge + 1 ELSE failureAge

\* The accesses that a caller makes without asking anyone.
BreakerStep(c) ==
  \/ LoadForAccept(c) \/ CheckTimeout(c) \/ StoreHalfOpen(c) \/ ResetForHalfOpen(c)
  \/ CheckProbes(c) \/ AddSuccess(c) \/ CasClosed(c) \/ ResetFailures(c)
  \/ ResetSuccesses(c) \/ ForgetFailures(c) \/ LoadForFailure(c) \/ AddFailure(c)
  \/ StoreOpen(c)

-----------------------------------------------------------------------------
(* Properties of the breaker, under any callers. *)

(* The breaker changes its state for a reason: it opens after FailureThreshold
   failures without a success, or on a failure while half-open, turns half-open
   only from open, and closes after HalfOpenRequests successes since it turned
   half-open.  The one exception is a caller that another one overtook between
   its load and its store, or that counted on top of a count about to be reset
   (circuit.go 52-53, 82-86, 97-103). *)
Earned == \/ state = "Closed" /\ state' = "Open" /\ fails >= FailureThreshold
          \/ state = "HalfOpen" /\ state' = "Open"
          \/ state = "Open" /\ state' = "HalfOpen"
          \/ state = "HalfOpen" /\ state' = "Closed" /\ oks >= HalfOpenRequests

TransitionsEarned ==
  [][state' # state =>
       \A c \in Callers : pc'[c] # pc[c] => c \in raced \/ Earned]_breakerVars

(* Half-open with all its probes used up is never a dead end: a breaker that
   refuses probes although half-open has a caller on its way to close it or to
   reset the count (circuit.go 51-58, 82-86). *)
NotStuckHalfOpen ==
  state = "HalfOpen" /\ successCount >= HalfOpenRequests =>
    \E c \in Callers : pc[c] \in {"enough", "halfOpened"}
=============================================================================

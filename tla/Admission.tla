----------------------------- MODULE Admission -----------------------------
(***************************************************************************)
(* What stands before the rules.  A service either asks a circuit breaker  *)
(* for each request and records how the evaluation went (the engine reads  *)
(* the level of the same breaker, WithBackpressure), or gives the engine a *)
(* limiter that is asked for each rule (WithLimiter).  Other goroutines    *)
(* wait for tokens of that limiter.                                        *)
(*                                                                         *)
(* The service itself is not part of the repository (its duties are the    *)
(* comments of RecordSuccess and RecordFailure); the engine's part is      *)
(* eval.go, of which only the calls to the two components are kept here.   *)
(* Breaker and limiter share no state, so each behaviour has one of them.  *)
(***************************************************************************)
EXTENDS CircuitBreaker, TokenBucket

CONSTANTS Fronts,       \* what services use, see front
          Waiters,      \* users that call Wait instead of Allow
          ServiceKey,   \* the limiter key of the rules
          WaiterKey     \* the limiter key of the waiters

ASSUME AdmissionAssumption ==
  /\ Fronts \subseteq {"breaker", "limiter"}
  /\ Users = Callers \cup Waiters
  /\ Callers \cap Waiters = {}
  /\ ServiceKey \in Keys /\ WaiterKey \in Keys

VARIABLES
  front,     \* what the service uses: "breaker" or "limiter"
  healthy    \* rules no longer fail

vars == <<breakerVars, bucketVars, front, healthy>>

Init ==
  /\ BreakerInit /\ BucketInit
  /\ front \in Fronts
  /\ healthy = FALSE

-----------------------------------------------------------------------------
(* A request behind the breaker. *)

Ask(c) ==
  /\ front = "breaker"
  /\ BreakerStep(c)
  /\ UNCHANGED <<bucketVars, front, healthy>>

\* The evaluation went well; at level Dropping no rule is looked at.
Succeed(c) ==
  /\ front = "breaker"
  /\ RecordSuccess(c)
  /\ UNCHANGED <<bucketVars, front, healthy>>

\* A rule failed; the breaker may have opened since the evaluation began.
Fail(c) ==
  /\ front = "breaker"
  /\ ~healthy
  /\ RecordFailure(c)
  /\ UNCHANGED <<bucketVars, front, healthy>>

-----------------------------------------------------------------------------
(* An evaluation, or a waiter, behind the limiter. *)

AskLimiter(u) ==
  /\ front = "limiter"
  /\ Call(u, IF u \in Waiters THEN WaiterKey ELSE ServiceKey)
  /\ UNCHANGED <<breakerVars, front, healthy>>

Allow(c) == Take(c, "refused") /\ UNCHANGED <<breakerVars, front, healthy>>

InLimiter(u) == UserStep(u) /\ UNCHANGED <<breakerVars, front, healthy>>

WaitStep(w) ==
  /\ Take(w, "short") \/ ComputeWait(w) \/ Wake(w)
  /\ UNCHANGED <<breakerVars, front, healthy>>

GiveUp(w) == CancelWait(w) /\ UNCHANGED <<breakerVars, front, healthy>>

Return(u) ==
  /\ at[u] \in {"granted", "refused"}
  /\ at' = [at EXCEPT ![u] = "out"]
  /\ UNCHANGED <<breakerVars, buckets, bucket, sinceGC, keyOf, held, sleep, credit, collected,
                 front, healthy>>

-----------------------------------------------------------------------------
Tick ==
  /\ AgeFailure /\ AgeBuckets
  /\ UNCHANGED <<state, failureCount, successCount, pc, oks, fails, raced,
                 buckets, at, keyOf, held, collected, front, healthy>>

\* The cause of the failures goes away.
Heal == front = "breaker" /\ ~healthy /\ healthy' = TRUE /\ UNCHANGED <<breakerVars, bucketVars, front>>

Serve(c) == Ask(c) \/ Succeed(c)
Limited(u) == \/ InLimiter(u)
              \/ u \in Callers /\ Allow(u)
              \/ u \in Waiters /\ WaitStep(u)

Next ==
  \/ \E c \in Callers : Serve(c) \/ Fail(c)
  \/ \E u \in Users : AskLimiter(u) \/ Limited(u) \/ Return(u)
  \/ \E w \in Waiters : GiveUp(w)
  \/ Tick
  \/ Heal

(* Every goroutine is scheduled, time passes, and requests to the breaker keep
   coming; no rule need fail, no waiter need give up, nothing need heal. *)
Fairness ==
  /\ \A c \in Callers : WF_vars(Serve(c))
  /\ \A u \in Users : WF_vars(Limited(u))
  /\ WF_vars(Tick)

Spec == Init /\ [][Next]_vars /\ Fairness

-----------------------------------------------------------------------------
TypeOK ==
  /\ state \in CircuitStates
  /\ failureCount \in Nat /\ successCount \in Nat
  /\ failureAge \in 0 .. RecoveryTimeout + 1
  /\ pc \in [Callers -> BreakerPcs]
  /\ oks \in 0 .. HalfOpenRequests /\ fails \in 0 .. FailureThreshold
  /\ raced \subseteq Callers
  /\ buckets \in [Keys -> Ids \cup {NoBucket}]
  /\ bucket \in [Ids -> [tokens : 0 .. Burst, idle : 0 .. IdleCap]]
  /\ sinceGC \in 0 .. GCPeriod
  /\ at \in [Users -> UserPcs]
  /\ keyOf \in [Users -> Keys]
  /\ held \in [Users -> Ids \cup {NoBucket}]
  /\ sleep \in [Users -> Nat]
  /\ credit \in [Keys -> 0 .. Burst]
  /\ collected \subseteq Users
  /\ front \in {"breaker", "limiter"} /\ healthy \in BOOLEAN

(* Breaker and limiter keep their types, a bucket its bounds among them; and the
   buckets are what one bucket for each key would be, but for the gifts of
   collections (tokenbucket.go 163-218). *)
BucketsExact == TypeOK /\ CollectionGivesOnlyGifts /\ OnlyCollectionOrphans

(* Once the cause of the failures is gone and requests keep coming, the breaker
   closes for good, whatever races left behind in its counters (circuit.go
   45-105). *)
Recovers == front = "breaker" /\ healthy ~> [](state = "Closed")

(* A waiter that does not give up gets its token, whatever the other keys are
   used for and however often buckets are collected meanwhile
   (tokenbucket.go 77-95). *)
WaiterServed == \A w \in Waiters : at[w] = "take" ~> at[w] \in {"granted", "refused"}
=============================================================================

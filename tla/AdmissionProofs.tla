-------------------------- MODULE AdmissionProofs --------------------------
(***************************************************************************)
(* Theorems about Admission, for any callers, keys and thresholds.  The    *)
(* circuit breaker changes its state for a reason, or because one caller   *)
(* overtook another, and half-open it is never stuck; and the token        *)
(* buckets of the limiter are what one bucket for each key would be.       *)
(*                                                                         *)
(* The breaker's invariant ties what a caller loaded to what is still so.  *)
(* A caller that was not overtaken finds the state it loaded               *)
(* (Undisturbed); and outside of the two windows in which a count is about *)
(* to be reset, the counts of the code are covered by the history of the   *)
(* present state (SuccessesCovered, FailuresCovered).                      *)
(*                                                                         *)
(* The limiter's invariant says which buckets a caller can hold, that no   *)
(* two keys share one (OneKey), and that a key without a bucket has lost   *)
(* nothing by that (FullWhenAbsent): a bucket is collected only when it is *)
(* full again.                                                             *)
(***************************************************************************)
EXTENDS Admission, FiniteSetTheorems, TLAPS

BreakerType ==
  /\ state \in CircuitStates
  /\ failureCount \in Nat /\ successCount \in Nat
  /\ pc \in [Callers -> BreakerPcs]
  /\ oks \in Nat /\ fails \in Nat
  /\ raced \subseteq Callers

SuccessesCovered ==
  state = "HalfOpen" /\ (\A c \in Callers : pc[c] # "halfOpened") =>
    successCount <= oks \/ oks >= HalfOpenRequests

FailuresCovered ==
  state = "Closed" /\ (\A c \in Callers : pc[c] # "closed") =>
    failureCount <= fails \/ fails >= FailureThreshold

Undisturbed ==
  \A c \in Callers \ raced :
    /\ pc[c] \in {"sawOpen", "expired"} => state = "Open"
    /\ pc[c] \in {"okHalfOpen", "enough", "failHalfOpen"} => state = "HalfOpen"
    /\ pc[c] \in {"failClosed", "tooMany"} => state = "Closed"
    /\ pc[c] = "enough" => oks >= HalfOpenRequests
    /\ pc[c] = "tooMany" => fails >= FailureThreshold

Inv == BreakerType /\ SuccessesCovered /\ FailuresCovered /\ Undisturbed /\ NotStuckHalfOpen

LEMMA InitInv == BreakerInit => Inv
  BY BreakerAssumption
     DEF BreakerInit, Inv, BreakerType, CircuitStates, BreakerPcs, SuccessesCovered,
         FailuresCovered, Undisturbed, NotStuckHalfOpen

\* A step of c leaves the others where they are.
LEMMA GotoOnly ==
  ASSUME BreakerType, NEW c \in Callers, NEW from, NEW to \in BreakerPcs, Goto(c, from, to)
  PROVE  /\ pc[c] = from /\ pc'[c] = to
         /\ pc' \in [Callers -> BreakerPcs]
         /\ \A d \in Callers \ {c} : pc'[d] = pc[d]
  BY DEF Goto, BreakerType

-----------------------------------------------------------------------------
\* The steps that change neither the state nor a count: a load, a comparison, the
\* time of a failure.
LEMMA LookInv ==
  ASSUME Inv, NEW c \in Callers, NEW from, NEW to \in BreakerPcs, Goto(c, from, to),
         UNCHANGED <<state, failureCount, successCount, oks, fails>>,
         \/ raced' = raced
         \/ raced' = raced \ {c},
         from \notin {"enough", "halfOpened", "closed"},
         to \in {"idle", "admitted", "okClosed", "sawHalfOpen", "failed"}
         \/ (to \in {"sawOpen"} /\ state = "Open")
         \/ (to = "expired" /\ from = "sawOpen" /\ raced' = raced)
         \/ (to \in {"okHalfOpen", "failHalfOpen"} /\ state = "HalfOpen")
         \/ (to = "failClosed" /\ state = "Closed")
  PROVE  Inv'
<1> USE DEF Inv
<1>1. /\ pc[c] = from /\ pc'[c] = to
      /\ pc' \in [Callers -> BreakerPcs]
      /\ \A d \in Callers \ {c} : pc'[d] = pc[d]
  BY GotoOnly
<1>2. BreakerType'
  BY <1>1 DEF BreakerType
<1>3. SuccessesCovered' /\ FailuresCovered'
  BY <1>1 DEF SuccessesCovered, FailuresCovered
<1>4. Undisturbed'
  BY <1>1 DEF Undisturbed
<1>5. NotStuckHalfOpen'
  BY <1>1 DEF NotStuckHalfOpen
<1>6. QED
  BY <1>2, <1>3, <1>4, <1>5

LEMMA StepInv ==
  ASSUME Inv, NEW c \in Callers, BreakerStep(c)
  PROVE  Inv'
<1> USE BreakerAssumption DEF Inv
<1>t. BreakerType
  OBVIOUS
<1>p. {"idle", "sawOpen", "expired", "halfOpened", "sawHalfOpen", "admitted", "okHalfOpen",
       "enough", "closed", "closing", "okClosed", "failed", "failHalfOpen", "failClosed",
       "tooMany"} \subseteq BreakerPcs
  BY DEF BreakerPcs
<1>1. CASE LoadForAccept(c)
  BY <1>1, <1>p, LookInv DEF LoadForAccept, Unraced
<1>2. CASE CheckTimeout(c)
  BY <1>2, <1>p, LookInv DEF CheckTimeout
<1>3. CASE StoreHalfOpen(c)
  <2>1. /\ pc[c] = "expired" /\ pc'[c] = "halfOpened"
        /\ pc' \in [Callers -> BreakerPcs]
        /\ \A d \in Callers \ {c} : pc'[d] = pc[d]
    BY <1>3, <1>t, <1>p, GotoOnly DEF StoreHalfOpen
  <2>2. BreakerType'
    BY <1>3, <2>1 DEF BreakerType, StoreHalfOpen, Overtake, Busy, CircuitStates
  <2>3. SuccessesCovered' /\ FailuresCovered' /\ NotStuckHalfOpen'
    BY <1>3, <2>1 DEF SuccessesCovered, FailuresCovered, NotStuckHalfOpen, StoreHalfOpen
  <2>4. Undisturbed'
    BY <1>3, <2>1 DEF Undisturbed, StoreHalfOpen, Overtake, Busy
  <2>5. QED
    BY <2>2, <2>3, <2>4
<1>4. CASE ResetForHalfOpen(c)
  <2>1. /\ pc[c] = "halfOpened" /\ pc'[c] = "admitted"
        /\ pc' \in [Callers -> BreakerPcs]
        /\ \A d \in Callers \ {c} : pc'[d] = pc[d]
    BY <1>4, <1>t, <1>p, GotoOnly DEF ResetForHalfOpen
  <2>2. BreakerType'
    BY <1>4, <2>1 DEF BreakerType, ResetForHalfOpen
  <2>3. SuccessesCovered' /\ FailuresCovered' /\ NotStuckHalfOpen'
    BY <1>4, <2>1 DEF SuccessesCovered, FailuresCovered, NotStuckHalfOpen, ResetForHalfOpen,
                      BreakerType
  <2>4. Undisturbed'
    BY <1>4, <2>1 DEF Undisturbed, ResetForHalfOpen
  <2>5. QED
    BY <2>2, <2>3, <2>4
<1>5. CASE CheckProbes(c)
  BY <1>5, <1>p, LookInv DEF CheckProbes
<1>6. CASE AddSuccess(c)
  <2> PICK to \in {"enough", "idle"} :
        Goto(c, "okHalfOpen", to) /\ (to = "enough" <=> successCount' >= HalfOpenRequests)
    BY <1>6 DEF AddSuccess, BreakerType
  <2>1. /\ pc[c] = "okHalfOpen" /\ pc'[c] = to
        /\ pc' \in [Callers -> BreakerPcs]
        /\ \A d \in Callers \ {c} : pc'[d] = pc[d]
    BY <1>t, <1>p, GotoOnly
  <2>2. /\ successCount' = successCount + 1
        /\ oks' = IF oks < HalfOpenRequests THEN oks + 1 ELSE oks
        /\ UNCHANGED <<state, failureCount, fails>>
        /\ raced' = IF \E d \in Callers : pc[d] = "halfOpened" THEN raced \cup {c} ELSE raced
    BY <1>6 DEF AddSuccess, AddRaced
  <2>3. BreakerType'
    BY <2>1, <2>2 DEF BreakerType
  <2>4. SuccessesCovered' /\ FailuresCovered' /\ NotStuckHalfOpen'
    BY <2>1, <2>2 DEF SuccessesCovered, FailuresCovered, NotStuckHalfOpen, BreakerType
  <2>5. Undisturbed'
    BY <2>1, <2>2 DEF Undisturbed, SuccessesCovered, BreakerType
  <2>6. QED
    BY <2>3, <2>4, <2>5
<1>7. CASE CasClosed(c)
  <2>1. CASE state = "HalfOpen"
    <3>1. /\ pc[c] = "enough" /\ pc'[c] = "closed"
          /\ pc' \in [Callers -> BreakerPcs]
          /\ \A d \in Callers \ {c} : pc'[d] = pc[d]
      BY <1>7, <2>1, <1>t, <1>p, GotoOnly DEF CasClosed
    <3>2. /\ state' = "Closed" /\ fails' = 0 /\ UNCHANGED <<failureCount, successCount, oks>>
          /\ raced' = (raced \ {c}) \cup (Busy \ {c})
      BY <1>7, <2>1 DEF CasClosed, Overtake
    <3>3. BreakerType'
      BY <3>1, <3>2 DEF BreakerType, Busy, CircuitStates
    <3>4. SuccessesCovered' /\ FailuresCovered' /\ NotStuckHalfOpen'
      BY <3>1, <3>2 DEF SuccessesCovered, FailuresCovered, NotStuckHalfOpen
    <3>5. Undisturbed'
      BY <3>1, <3>2 DEF Undisturbed, Busy
    <3>6. QED
      BY <3>3, <3>4, <3>5
  <2>2. CASE state # "HalfOpen"
    <3>1. /\ pc[c] = "enough" /\ pc'[c] = "idle"
          /\ pc' \in [Callers -> BreakerPcs]
          /\ \A d \in Callers \ {c} : pc'[d] = pc[d]
      BY <1>7, <2>2, <1>t, <1>p, GotoOnly DEF CasClosed
    <3>2. UNCHANGED <<state, fails, raced, failureCount, successCount, oks>>
      BY <1>7, <2>2 DEF CasClosed
    <3>3. BreakerType'
      BY <3>1, <3>2 DEF BreakerType
    <3>4. SuccessesCovered' /\ FailuresCovered' /\ NotStuckHalfOpen'
      BY <2>2, <3>1, <3>2 DEF SuccessesCovered, FailuresCovered, NotStuckHalfOpen
    <3>5. Undisturbed'
      BY <3>1, <3>2 DEF Undisturbed
    <3>6. QED
      BY <3>3, <3>4, <3>5
  <2>3. QED
    BY <2>1, <2>2
<1>8. CASE ResetFailures(c)
  <2>1. /\ pc[c] = "closed" /\ pc'[c] = "closing"
        /\ pc' \in [Callers -> BreakerPcs]
        /\ \A d \in Callers \ {c} : pc'[d] = pc[d]
    BY <1>8, <1>t, <1>p, GotoOnly DEF ResetFailures
  <2>2. BreakerType'
    BY <1>8, <2>1 DEF BreakerType, ResetFailures
  <2>3. SuccessesCovered' /\ FailuresCovered' /\ NotStuckHalfOpen'
    BY <1>8, <2>1 DEF SuccessesCovered, FailuresCovered, NotStuckHalfOpen, ResetFailures,
                      BreakerType
  <2>4. Undisturbed'
    BY <1>8, <2>1 DEF Undisturbed, ResetFailures
  <2>5. QED
    BY <2>2, <2>3, <2>4
<1>9. CASE ResetSuccesses(c)
  <2>1. /\ pc[c] = "closing" /\ pc'[c] = "idle"
        /\ pc' \in [Callers -> BreakerPcs]
        /\ \A d \in Callers \ {c} : pc'[d] = pc[d]
    BY <1>9, <1>t, <1>p, GotoOnly DEF ResetSuccesses
  <2>2. BreakerType'
    BY <1>9, <2>1 DEF BreakerType, ResetSuccesses
  <2>3. SuccessesCovered' /\ FailuresCovered' /\ NotStuckHalfOpen'
    BY <1>9, <2>1 DEF SuccessesCovered, FailuresCovered, NotStuckHalfOpen, ResetSuccesses,
                      BreakerType
  <2>4. Undisturbed'
    BY <1>9, <2>1 DEF Undisturbed, ResetSuccesses
  <2>5. QED
    BY <2>2, <2>3, <2>4
<1>10. CASE ForgetFailures(c)
  <2>1. /\ pc[c] = "okClosed" /\ pc'[c] = "idle"
        /\ pc' \in [Callers -> BreakerPcs]
        /\ \A d \in Callers \ {c} : pc'[d] = pc[d]
    BY <1>10, <1>t, <1>p, GotoOnly DEF ForgetFailures
  <2>2. BreakerType'
    BY <1>10, <2>1 DEF BreakerType, ForgetFailures
  <2>3. SuccessesCovered' /\ FailuresCovered' /\ NotStuckHalfOpen'
    BY <1>10, <2>1 DEF SuccessesCovered, FailuresCovered, NotStuckHalfOpen, ForgetFailures
  <2>4. Undisturbed'
    BY <1>10, <2>1 DEF Undisturbed, ForgetFailures
  <2>5. QED
    BY <2>2, <2>3, <2>4
<1>11. CASE LoadForFailure(c)
  BY <1>11, <1>p, LookInv DEF LoadForFailure, Unraced
<1>12. CASE AddFailure(c)
  <2> PICK to \in {"tooMany", "idle"} :
        Goto(c, "failClosed", to) /\ (to = "tooMany" <=> failureCount' >= FailureThreshold)
    BY <1>12 DEF AddFailure, BreakerType
  <2>1. /\ pc[c] = "failClosed" /\ pc'[c] = to
        /\ pc' \in [Callers -> BreakerPcs]
        /\ \A d \in Callers \ {c} : pc'[d] = pc[d]
    BY <1>t, <1>p, GotoOnly
  <2>2. /\ failureCount' = failureCount + 1
        /\ fails' = IF fails < FailureThreshold THEN fails + 1 ELSE fails
        /\ UNCHANGED <<state, successCount, oks>>
        /\ raced' = IF \E d \in Callers : pc[d] = "closed" THEN raced \cup {c} ELSE raced
    BY <1>12 DEF AddFailure, AddRaced
  <2>3. BreakerType'
    BY <2>1, <2>2 DEF BreakerType
  <2>4. SuccessesCovered' /\ FailuresCovered' /\ NotStuckHalfOpen'
    BY <2>1, <2>2 DEF SuccessesCovered, FailuresCovered, NotStuckHalfOpen, BreakerType
  <2>5. Undisturbed'
    BY <2>1, <2>2 DEF Undisturbed, FailuresCovered, BreakerType
  <2>6. QED
    BY <2>3, <2>4, <2>5
<1>13. CASE StoreOpen(c)
  <2>1. /\ pc[c] \in {"failHalfOpen", "tooMany"} /\ pc'[c] = "idle"
        /\ pc' \in [Callers -> BreakerPcs]
        /\ \A d \in Callers \ {c} : pc'[d] = pc[d]
    BY <1>13, <1>t, <1>p, GotoOnly DEF StoreOpen
  <2>2. BreakerType'
    BY <1>13, <2>1 DEF BreakerType, StoreOpen, Overtake, Unraced, Busy, CircuitStates
  <2>3. SuccessesCovered' /\ FailuresCovered' /\ NotStuckHalfOpen'
    BY <1>13, <2>1 DEF SuccessesCovered, FailuresCovered, NotStuckHalfOpen, StoreOpen
  <2>4. Undisturbed'
    BY <1>13, <2>1 DEF Undisturbed, StoreOpen, Overtake, Unraced, Busy
  <2>5. QED
    BY <2>2, <2>3, <2>4
<1>14. QED
  BY <1>1, <1>2, <1>3, <1>4, <1>5, <1>6, <1>7, <1>8, <1>9, <1>10, <1>11, <1>12, <1>13
     DEF BreakerStep

-----------------------------------------------------------------------------
\* What the limiter does, and time, leave the breaker alone but for its age.
LEMMA OthersKeepBreaker ==
  ASSUME [Next]_vars, ~(\E c \in Callers : Serve(c) \/ Fail(c))
  PROVE  UNCHANGED <<state, failureCount, successCount, pc, oks, fails, raced>>
<1> USE DEF breakerVars
<1>1. ASSUME NEW u \in Users, AskLimiter(u) \/ Limited(u) \/ Return(u)
      PROVE  UNCHANGED <<state, failureCount, successCount, pc, oks, fails, raced>>
  BY <1>1 DEF AskLimiter, Limited, InLimiter, Allow, WaitStep, Return
<1>2. ASSUME NEW w \in Waiters, GiveUp(w)
      PROVE  UNCHANGED <<state, failureCount, successCount, pc, oks, fails, raced>>
  BY <1>2 DEF GiveUp
<1>3. QED
  BY <1>1, <1>2 DEF Next, Tick, Heal, vars

LEMMA NextInv == Inv /\ [Next]_vars => Inv'
<1> SUFFICES ASSUME Inv, [Next]_vars PROVE Inv'
  OBVIOUS
<1>1. ASSUME NEW c \in Callers, Serve(c) PROVE Inv'
  <2>1. CASE Ask(c)
    BY <2>1, StepInv DEF Ask
  <2>2. CASE Succeed(c)
    BY <2>2, LookInv DEF Succeed, RecordSuccess, Unraced, BreakerPcs
  <2>3. QED
    BY <1>1, <2>1, <2>2 DEF Serve
<1>2. ASSUME NEW c \in Callers, Fail(c) PROVE Inv'
  BY <1>2, LookInv DEF Fail, RecordFailure, BreakerPcs
<1>3. CASE ~(\E c \in Callers : Serve(c) \/ Fail(c))
  BY <1>3, OthersKeepBreaker
     DEF Inv, BreakerType, SuccessesCovered, FailuresCovered, Undisturbed, NotStuckHalfOpen
<1>4. QED
  BY <1>1, <1>2, <1>3

LEMMA Invariance == Spec => []Inv
<1>1. Init => Inv
  BY InitInv DEF Init
<1>2. QED
  BY <1>1, NextInv, PTL DEF Spec

-----------------------------------------------------------------------------
\* A breaker that refuses probes although half-open has a caller on its way to close
\* it or to reset the count: no order of calls leaves it refusing for ever.
THEOREM NeverStuckHalfOpen == Spec => []NotStuckHalfOpen
<1>1. Inv => NotStuckHalfOpen
  BY DEF Inv
<1>2. QED
  BY Invariance, <1>1, PTL

\* The breaker opens, turns half-open and closes for the reasons it has, but for a
\* caller that another one overtook.
THEOREM TransitionsAreEarned == Spec => TransitionsEarned
<1> DEFINE Change == \A c \in Callers : pc'[c] # pc[c] => c \in raced \/ Earned
<1>1. ASSUME Inv, [Next]_vars, state' # state PROVE Change
  <2>1. PICK c \in Callers : Serve(c) \/ Fail(c)
    BY <1>1, OthersKeepBreaker
  <2>2. CASE StoreHalfOpen(c)
    BY <1>1, <2>2 DEF Inv, BreakerType, Undisturbed, StoreHalfOpen, Goto, Earned
  <2>3. CASE CasClosed(c)
    BY <1>1, <2>3 DEF Inv, BreakerType, Undisturbed, CasClosed, Goto, Earned
  <2>4. CASE StoreOpen(c)
    BY <1>1, <2>4 DEF Inv, BreakerType, Undisturbed, StoreOpen, Goto, Earned
  <2>5. StoreHalfOpen(c) \/ CasClosed(c) \/ StoreOpen(c)
    BY <1>1, <2>1
       DEF Serve, Ask, Succeed, Fail, BreakerStep, LoadForAccept, CheckTimeout,
           ResetForHalfOpen, CheckProbes, RecordSuccess, AddSuccess, ResetFailures,
           ResetSuccesses, ForgetFailures, RecordFailure, LoadForFailure, AddFailure
  <2>6. QED
    BY <2>2, <2>3, <2>4, <2>5
<1>2. Inv /\ [Next]_vars => [state' # state => Change]_breakerVars
  BY <1>1
<1>3. QED
  BY Invariance, <1>2, PTL DEF Spec, TransitionsEarned

-----------------------------------------------------------------------------
(* The limiter                                                             *)

Buckets == [tokens : 0 .. Burst, idle : 0 .. IdleCap]

LimiterType ==
  /\ buckets \in [Keys -> Ids \cup {NoBucket}]
  /\ bucket \in [Ids -> Buckets]
  /\ sinceGC \in 0 .. GCPeriod
  /\ at \in [Users -> UserPcs]
  /\ keyOf \in [Users -> Keys]
  /\ held \in [Users -> Ids \cup {NoBucket}]
  /\ sleep \in [Users -> Nat]
  /\ credit \in [Keys -> 0 .. Burst]
  /\ collected \subseteq Users

\* A bucket belongs to one key, in the map and in the hands of the callers.
OneKey ==
  /\ \A j, k \in Keys : buckets[j] # NoBucket /\ buckets[j] = buckets[k] => j = k
  /\ \A u \in Users : \A k \in Keys : held[u] # NoBucket /\ held[u] = buckets[k] => k = keyOf[u]

\* A caller holds a bucket from its lookup to its return.
HeldInCall ==
  \A u \in Users : IF at[u] \in {"take", "short", "sleep"} THEN held[u] \in Ids
                                                            ELSE held[u] = NoBucket

\* A key without a bucket would have a full one.
FullWhenAbsent == \A k \in Keys : buckets[k] = NoBucket => credit[k] = Burst

LimiterInv == /\ LimiterType /\ OneKey /\ HeldInCall /\ FullWhenAbsent
              /\ CollectionGivesOnlyGifts /\ OnlyCollectionOrphans

\* There is always an object that nobody refers to.
LEMMA FreshIsFree ==
  ASSUME LimiterType
  PROVE  Fresh \in Ids /\ Fresh \notin InUse
<1> DEFINE B == {buckets[k] : k \in Keys}
           H == {held[u] : u \in Users}
<1> USE BucketAssumption
<1>1. IsFiniteSet(B) /\ Cardinality(B) <= Cardinality(Keys)
  <2>1. buckets \in Surjection(Keys, B)
    BY DEF LimiterType, Surjection
  <2>2. QED
    BY <2>1, FS_Surjection
<1>2. IsFiniteSet(H) /\ Cardinality(H) <= Cardinality(Users)
  <2>1. held \in Surjection(Users, H)
    BY DEF LimiterType, Surjection
  <2>2. QED
    BY <2>1, FS_Surjection
<1>3. /\ Cardinality(B) \in Nat /\ Cardinality(H) \in Nat /\ Cardinality(Ids) \in Nat
      /\ Cardinality(Keys) \in Nat /\ Cardinality(Users) \in Nat
  BY <1>1, <1>2, FS_CardinalityType
<1>4. IsFiniteSet(B \cup H) /\ Cardinality(B \cup H) <= Cardinality(B) + Cardinality(H)
  <2>1. /\ IsFiniteSet(B \cup H)
        /\ Cardinality(B \cup H) = Cardinality(B) + Cardinality(H) - Cardinality(B \cap H)
    BY <1>1, <1>2, FS_Union
  <2>2. Cardinality(B \cap H) \in Nat
    BY <1>1, FS_Intersection, FS_CardinalityType
  <2>3. QED
    BY <1>3, <2>1, <2>2
<1>5. \E i \in Ids : i \notin B \cup H
  <2>1. SUFFICES ASSUME Ids \subseteq B \cup H PROVE FALSE
    OBVIOUS
  <2>2. Cardinality(Ids) <= Cardinality(B \cup H) /\ Cardinality(B \cup H) \in Nat
    BY <1>4, <2>1, FS_Subset, FS_CardinalityType
  <2>3. QED
    BY <1>1, <1>2, <1>3, <1>4, <2>2
<1>6. QED
  BY <1>5 DEF Fresh, InUse

\* The arithmetic of the refill.
LEMMA RefillBounds ==
  ASSUME NEW b \in Buckets
  PROVE  /\ Refilled(b) \in 0 .. Burst
         /\ b.tokens <= Refilled(b)
         /\ b.idle = 0 => Refilled(b) = b.tokens
         /\ b.idle > IdleTTL => Burst <= Refilled(b) + Gift
         /\ Gift \in Nat
<1> USE BucketAssumption DEF Buckets
<1>1. b.tokens \in 0 .. Burst /\ b.idle \in 0 .. IdleCap /\ Rate \in Nat /\ Burst \in Nat
  OBVIOUS
<1>2. b.idle * Rate \in Nat
  BY <1>1
<1> DEFINE least == (IdleTTL + 1) * Rate
<1>3. least \in Nat /\ (b.idle > IdleTTL => b.idle * Rate >= least)
  <2>1. IdleTTL + 1 \in Nat /\ least \in Nat
    BY <1>1
  <2>2. SUFFICES ASSUME b.idle > IdleTTL PROVE b.idle * Rate >= least
    BY <2>1
  <2>3. b.idle >= IdleTTL + 1 /\ b.idle \in Nat
    BY <1>1, <2>2
  <2>4. QED
    BY <1>1, <2>1, <2>3
<1>4. Gift = IF Burst <= least THEN 0 ELSE Burst - least
  BY DEF Gift
<1> HIDE DEF least
<1>5. QED
  BY <1>1, <1>2, <1>3, <1>4 DEF Refilled, AtMost

LEMMA RefillAfterTick ==
  ASSUME NEW b \in Buckets, NEW c \in 0 .. Burst, Refilled(b) <= c
  PROVE  LET a == [b EXCEPT !.idle = AtMost(IdleCap, @ + 1)]
         IN  a \in Buckets /\ Refilled(a) <= AtMost(Burst, c + Rate)
<1> USE BucketAssumption DEF Buckets
<1> DEFINE n == AtMost(IdleCap, b.idle + 1)
           a == [b EXCEPT !.idle = n]
<1>1. b.tokens \in 0 .. Burst /\ b.idle \in 0 .. IdleCap /\ Rate \in Nat /\ Burst \in Nat /\ IdleCap \in Nat
  OBVIOUS
<1>2. n \in 0 .. IdleCap /\ n <= b.idle + 1
  BY <1>1 DEF AtMost
<1> HIDE DEF n
<1>3. a \in Buckets /\ a.tokens = b.tokens /\ a.idle = n
  BY <1>1, <1>2
<1>4. n * Rate <= b.idle * Rate + Rate /\ n * Rate \in Nat /\ b.idle * Rate \in Nat
  <2>1. n * Rate <= (b.idle + 1) * Rate
    BY <1>1, <1>2
  <2>2. (b.idle + 1) * Rate = b.idle * Rate + Rate
    BY <1>1
  <2>3. QED
    BY <1>1, <1>2, <2>1, <2>2
<1> HIDE DEF a
<1>5. Refilled(a) <= AtMost(Burst, c + Rate)
  BY <1>1, <1>3, <1>4 DEF Refilled, AtMost
<1>6. QED
  BY <1>3, <1>5 DEF a, n

LEMMA LimiterInit == Init => LimiterInv
<1> SUFFICES ASSUME Init PROVE LimiterInv
  OBVIOUS
<1> USE BucketAssumption, AdmissionAssumption DEF Init, BucketInit
<1>1. NewBucket \in Buckets
  BY DEF NewBucket, Buckets
<1>2. (CHOOSE k \in Keys : TRUE) \in Keys
  OBVIOUS
<1>3. LimiterType
  BY <1>1, <1>2 DEF LimiterType, UserPcs
<1>4. QED
  BY <1>3 DEF LimiterInv, OneKey, HeldInCall, FullWhenAbsent, CollectionGivesOnlyGifts,
               OnlyCollectionOrphans

\* A move of u leaves the others where they are.
LEMMA MoveOnly ==
  ASSUME LimiterType, NEW u \in Users, NEW from, NEW to \in UserPcs, Move(u, from, to)
  PROVE  /\ at[u] = from /\ at'[u] = to
         /\ at' \in [Users -> UserPcs]
         /\ \A v \in Users \ {u} : at'[v] = at[v]
  BY DEF Move, LimiterType

\* Steps that neither touch a bucket nor the map, nor whether u holds one.
LEMMA MoveInv ==
  ASSUME LimiterInv, NEW u \in Users, NEW from, NEW to \in UserPcs, Move(u, from, to),
         from \in {"take", "short", "sleep"} <=> to \in {"take", "short", "sleep"},
         keyOf' \in [Users -> Keys],
         from \notin {"take", "short", "sleep"} \/ keyOf' = keyOf,
         \A v \in Users \ {u} : keyOf'[v] = keyOf[v],
         sleep' \in [Users -> Nat],
         UNCHANGED <<buckets, bucket, sinceGC, held, credit, collected>>
  PROVE  LimiterInv'
<1> USE DEF LimiterInv
<1>1. /\ at[u] = from /\ at'[u] = to /\ at' \in [Users -> UserPcs]
      /\ \A v \in Users \ {u} : at'[v] = at[v]
  BY MoveOnly
<1>2. LimiterType' /\ HeldInCall' /\ FullWhenAbsent' /\ CollectionGivesOnlyGifts'
  BY <1>1 DEF LimiterType, HeldInCall, FullWhenAbsent, CollectionGivesOnlyGifts, Refilled
<1>3. \A v \in Users : held[v] # NoBucket => keyOf'[v] = keyOf[v]
  BY <1>1 DEF HeldInCall
<1>4. OneKey' /\ OnlyCollectionOrphans'
  BY <1>3 DEF OneKey, OnlyCollectionOrphans
<1>5. QED
  BY <1>2, <1>4

LEMMA CollectInv ==
  ASSUME LimiterInv, NEW u \in Users, Collect(u)
  PROVE  LimiterInv'
<1> USE BucketAssumption DEF LimiterInv
<1>1. /\ at[u] = "gc" /\ at'[u] = "find" /\ at' \in [Users -> UserPcs]
      /\ \A v \in Users \ {u} : at'[v] = at[v]
  BY MoveOnly DEF Collect, UserPcs
<1>2. UNCHANGED <<bucket, keyOf, held, sleep>>
  BY DEF Collect
<1>3. HeldInCall'
  BY <1>1, <1>2 DEF HeldInCall
<1>4. CASE sinceGC < GCPeriod
  <2>1. UNCHANGED <<buckets, sinceGC, collected, credit>>
    BY <1>4 DEF Collect
  <2>2. LimiterType' /\ OneKey' /\ FullWhenAbsent' /\ CollectionGivesOnlyGifts' /\ OnlyCollectionOrphans'
    BY <1>1, <1>2, <2>1
       DEF LimiterType, OneKey, FullWhenAbsent, CollectionGivesOnlyGifts, OnlyCollectionOrphans, Refilled
  <2>3. QED
    BY <1>3, <2>2
<1>5. CASE ~(sinceGC < GCPeriod)
  <2>1. /\ sinceGC' = 0
        /\ buckets' = [k \in Keys |-> IF Idle(k) THEN NoBucket ELSE buckets[k]]
        /\ collected' = collected \cup {v \in Users : Idle(keyOf[v]) /\ held[v] = buckets[keyOf[v]]}
        /\ credit' = [k \in Keys |-> IF Idle(k) THEN AtMost(Burst, credit[k] + Gift) ELSE credit[k]]
    BY <1>5 DEF Collect
  <2>2. \A k \in Keys : buckets'[k] = IF Idle(k) THEN NoBucket ELSE buckets[k]
    BY <2>1
  <2>9. \A k \in Keys : Idle(k) => credit'[k] = Burst
    <3>1. SUFFICES ASSUME NEW k \in Keys, Idle(k) PROVE AtMost(Burst, credit[k] + Gift) = Burst
      BY <2>1
    <3>2. buckets[k] \in Ids /\ bucket[buckets[k]] \in Buckets /\ bucket[buckets[k]].idle > IdleTTL
      BY <3>1 DEF Idle, LimiterType
    <3>3. Burst <= Refilled(bucket[buckets[k]]) + Gift /\ Gift \in Nat
          /\ Refilled(bucket[buckets[k]]) \in 0 .. Burst
      BY <3>2, RefillBounds
    <3>4. Refilled(bucket[buckets[k]]) <= credit[k] /\ credit[k] \in 0 .. Burst
      BY <3>2 DEF CollectionGivesOnlyGifts, LimiterType
    <3>5. Burst <= credit[k] + Gift
      BY <3>3, <3>4
    <3>6. QED
      BY <3>3, <3>4, <3>5 DEF AtMost
  <2>10. \A k \in Keys : ~Idle(k) => credit'[k] = credit[k]
    BY <2>1
  <2>3. LimiterType'
    <3>1. credit' \in [Keys -> 0 .. Burst]
      <4>1. \A k \in Keys : credit'[k] \in 0 .. Burst
        BY <2>9, <2>10 DEF LimiterType
      <4>2. QED
        BY <2>1, <4>1
    <3>2. QED
      BY <1>1, <1>2, <2>1, <3>1 DEF LimiterType
  <2>4. OneKey' /\ OnlyCollectionOrphans'
    BY <1>2, <2>1, <2>2 DEF OneKey, OnlyCollectionOrphans, LimiterType
  <2>5. \A k \in Keys : buckets'[k] # NoBucket =>
           buckets'[k] = buckets[k] /\ Refilled(bucket[buckets[k]]) <= credit'[k]
    BY <2>2, <2>10 DEF CollectionGivesOnlyGifts
  <2>6. CollectionGivesOnlyGifts'
    BY <1>2, <2>2, <2>5 DEF CollectionGivesOnlyGifts, Refilled
  <2>7. FullWhenAbsent'
    BY <2>2, <2>9, <2>10 DEF FullWhenAbsent
  <2>8. QED
    BY <1>3, <2>3, <2>4, <2>6, <2>7
<1>6. QED
  BY <1>4, <1>5

LEMMA FindInv ==
  ASSUME LimiterInv, NEW u \in Users, Find(u)
  PROVE  LimiterInv'
<1> USE BucketAssumption DEF LimiterInv
<1>1. CASE buckets[keyOf[u]] = NoBucket
  BY <1>1, MoveInv DEF Find, UserPcs, LimiterType
<1>2. CASE buckets[keyOf[u]] # NoBucket
  <2>1. /\ at[u] = "find" /\ at'[u] = "take" /\ at' \in [Users -> UserPcs]
        /\ \A v \in Users \ {u} : at'[v] = at[v]
    BY <1>2, MoveOnly DEF Find, UserPcs
  <2>2. /\ held' = [held EXCEPT ![u] = buckets[keyOf[u]]]
        /\ UNCHANGED <<buckets, bucket, sinceGC, keyOf, sleep, credit, collected>>
        /\ buckets[keyOf[u]] \in Ids /\ keyOf[u] \in Keys
    BY <1>2 DEF Find, LimiterType
  <2>3. /\ held'[u] = buckets[keyOf[u]]
        /\ \A v \in Users \ {u} : held'[v] = held[v]
    BY <2>2 DEF LimiterType
  <2>4. LimiterType' /\ FullWhenAbsent' /\ CollectionGivesOnlyGifts'
    BY <2>1, <2>2 DEF LimiterType, FullWhenAbsent, CollectionGivesOnlyGifts, Refilled
  <2>5. HeldInCall'
    BY <2>1, <2>2, <2>3 DEF HeldInCall
  <2>6. OneKey' /\ OnlyCollectionOrphans'
    BY <2>2, <2>3 DEF OneKey, OnlyCollectionOrphans
  <2>7. QED
    BY <2>4, <2>5, <2>6
<1>3. QED
  BY <1>1, <1>2

LEMMA CreateInv ==
  ASSUME LimiterInv, NEW u \in Users, Create(u)
  PROVE  LimiterInv'
<1> USE BucketAssumption DEF LimiterInv
<1> DEFINE k == keyOf[u]
           i == IF buckets[k] = NoBucket THEN Fresh ELSE buckets[k]
<1>1. /\ at[u] = "create" /\ at'[u] = "take" /\ at' \in [Users -> UserPcs]
      /\ \A v \in Users \ {u} : at'[v] = at[v]
  BY MoveOnly DEF Create, UserPcs
<1>2. /\ held' = [held EXCEPT ![u] = i] /\ buckets' = [buckets EXCEPT ![k] = i]
      /\ bucket' = IF buckets[k] = NoBucket THEN [bucket EXCEPT ![i] = NewBucket] ELSE bucket
      /\ UNCHANGED <<sinceGC, keyOf, sleep, credit, collected>>
  BY DEF Create
<1>3. Fresh \in Ids /\ (\A j \in Keys : buckets[j] # Fresh) /\ (\A v \in Users : held[v] # Fresh)
  BY FreshIsFree DEF InUse
<1>4. k \in Keys /\ i \in Ids /\ NewBucket \in Buckets
  BY <1>3 DEF LimiterType, NewBucket, Buckets
<1>5. buckets[k] # NoBucket => i = buckets[k]
  OBVIOUS
<1>6. buckets[k] = NoBucket => i = Fresh
  OBVIOUS
<1> HIDE DEF k, i
<1>7. /\ held'[u] = i /\ \A v \in Users \ {u} : held'[v] = held[v]
      /\ buckets'[k] = i /\ \A j \in Keys \ {k} : buckets'[j] = buckets[j]
  BY <1>2, <1>4 DEF LimiterType
<1>8. \A j \in Ids : bucket'[j] = IF buckets[k] = NoBucket /\ j = i THEN NewBucket ELSE bucket[j]
  BY <1>2, <1>4 DEF LimiterType
<1>9. LimiterType'
  BY <1>1, <1>2, <1>4 DEF LimiterType
<1>10. HeldInCall'
  BY <1>1, <1>4, <1>7 DEF HeldInCall
<1>11. FullWhenAbsent'
  BY <1>2, <1>4, <1>7 DEF FullWhenAbsent
<1>12. OneKey'
  <2>1. keyOf' = keyOf /\ keyOf[u] = k
    BY <1>2 DEF k
  <2>2. \A j \in Keys \ {k} : buckets[j] # i
    BY <1>3, <1>4, <1>5, <1>6 DEF OneKey
  <2>3. \A v \in Users : held[v] = i => keyOf[v] = k
    BY <1>3, <1>4, <1>5, <1>6 DEF OneKey
  <2>4. QED
    BY <1>4, <1>7, <2>1, <2>2, <2>3 DEF OneKey
<1>13. OnlyCollectionOrphans'
  <2>1. keyOf' = keyOf /\ collected' = collected /\ keyOf[u] = k
    BY <1>2 DEF k
  <2>2. \A v \in Users \ {u} : keyOf[v] = k /\ held[v] # NoBucket /\ held[v] # i => v \in collected
    BY <1>5 DEF OnlyCollectionOrphans
  <2>3. QED
    BY <1>7, <2>1, <2>2 DEF OnlyCollectionOrphans, LimiterType
<1>14. CollectionGivesOnlyGifts'
  <2>1. SUFFICES ASSUME NEW j \in Keys, buckets'[j] # NoBucket
                 PROVE  Refilled(bucket'[buckets'[j]]) <= credit[j]
    BY <1>2 DEF CollectionGivesOnlyGifts, Refilled
  <2>2. CASE j = k /\ buckets[k] = NoBucket
    <3>1. bucket'[buckets'[j]] = NewBucket /\ credit[j] = Burst
      BY <1>4, <1>7, <1>8, <2>2 DEF FullWhenAbsent
    <3>2. QED
      BY <1>4, <3>1, RefillBounds
  <2>3. CASE ~(j = k /\ buckets[k] = NoBucket)
    <3>1. buckets'[j] = buckets[j] /\ buckets[j] \in Ids /\ bucket'[buckets[j]] = bucket[buckets[j]]
      BY <1>3, <1>4, <1>5, <1>6, <1>7, <1>8, <2>1, <2>3 DEF LimiterType
    <3>2. QED
      BY <2>1, <3>1 DEF CollectionGivesOnlyGifts
  <2>4. QED
    BY <2>2, <2>3
<1>15. QED
  BY <1>9, <1>10, <1>11, <1>12, <1>13, <1>14

\* A caller that holds the bucket of its key pays with the credit of that key, and
\* an orphan with nobody's.
LEMMA TakeInv ==
  ASSUME LimiterInv, NEW u \in Users, NEW refusal \in {"refused", "short"}, Take(u, refusal)
  PROVE  LimiterInv'
<1> USE BucketAssumption DEF LimiterInv
<1> DEFINE i == held[u]
           k == keyOf[u]
           t == Refilled(bucket[i])
           to == at'[u]
           rest == bucket'[i]
<1>1. /\ at[u] = "take" /\ to \in {"granted", refusal} /\ at' = [at EXCEPT ![u] = to]
      /\ to = "granted" => t >= Token /\ bucket' = [bucket EXCEPT ![i] = [tokens |-> t - Token, idle |-> 0]]
      /\ to # "granted" => bucket' = [bucket EXCEPT ![i] = [tokens |-> t, idle |-> 0]]
      /\ credit' = IF to = "granted" /\ buckets[k] = i THEN [credit EXCEPT ![k] = @ - Token] ELSE credit
      /\ IF to \in {"granted", "refused"} THEN LetGo(u) ELSE UNCHANGED <<held, collected>>
      /\ UNCHANGED <<buckets, sinceGC, keyOf, sleep>>
  BY DEF Take, Move, LimiterType, UserPcs
<1>2. i \in Ids /\ k \in Keys /\ bucket[i] \in Buckets /\ Token \in Nat /\ Burst \in Nat
  BY <1>1 DEF HeldInCall, LimiterType
<1>3. t \in 0 .. Burst
  BY <1>2, RefillBounds
<1>4. [tokens |-> t, idle |-> 0] \in Buckets
      /\ (to = "granted" => [tokens |-> t - Token, idle |-> 0] \in Buckets)
  BY <1>1, <1>2, <1>3 DEF Buckets
<1>5. /\ bucket' \in [Ids -> Buckets] /\ \A j \in Ids \ {i} : bucket'[j] = bucket[j]
      /\ rest \in Buckets /\ rest.idle = 0
      /\ rest.tokens = IF to = "granted" THEN t - Token ELSE t
  BY <1>1, <1>2, <1>4 DEF LimiterType
<1>6. Refilled(rest) = IF to = "granted" THEN t - Token ELSE t
  BY <1>5, RefillBounds
<1> HIDE DEF t, i, k
<1>7. /\ held'[u] = IF to \in {"granted", "refused"} THEN NoBucket ELSE i
      /\ held' \in [Users -> Ids \cup {NoBucket}]
      /\ \A v \in Users \ {u} : held'[v] = held[v]
      /\ collected' \subseteq Users
      /\ \A v \in Users \ {u} : v \in collected => v \in collected'
      /\ held'[u] = i => collected' = collected
  BY <1>1, <1>2 DEF LetGo, LimiterType, i
<1>8. buckets[k] = i => t <= credit[k]
  BY <1>2 DEF CollectionGivesOnlyGifts, t
<1>9. /\ credit' \in [Keys -> 0 .. Burst]
      /\ \A j \in Keys : buckets[j] # i => credit'[j] = credit[j]
      /\ buckets[k] = i => Refilled(rest) <= credit'[k]
  <2>1. CASE to = "granted" /\ buckets[k] = i
    <3>1. credit' = [credit EXCEPT ![k] = @ - Token] /\ t >= Token
      BY <1>1, <2>1
    <3>2. credit[k] \in 0 .. Burst /\ credit[k] - Token \in 0 .. Burst /\ t - Token <= credit[k] - Token
      BY <1>2, <1>3, <1>8, <2>1, <3>1 DEF LimiterType
    <3>3. credit' \in [Keys -> 0 .. Burst] /\ credit'[k] = credit[k] - Token
          /\ \A j \in Keys \ {k} : credit'[j] = credit[j]
      BY <1>2, <3>1, <3>2 DEF LimiterType
    <3>4. QED
      BY <1>2, <1>6, <2>1, <3>2, <3>3
  <2>2. CASE ~(to = "granted" /\ buckets[k] = i)
    <3>1. credit' = credit
      BY <1>1, <2>2
    <3>2. QED
      BY <1>6, <1>8, <2>2, <3>1 DEF LimiterType
  <2>3. QED
    BY <2>1, <2>2
<1>10. LimiterType'
  <2>1. at' \in [Users -> UserPcs]
    BY <1>1 DEF LimiterType, UserPcs
  <2>2. /\ buckets' \in [Keys -> Ids \cup {NoBucket}] /\ sinceGC' \in 0 .. GCPeriod
        /\ keyOf' \in [Users -> Keys] /\ sleep' \in [Users -> Nat]
    BY <1>1 DEF LimiterType
  <2>3. QED
    BY <1>5, <1>7, <1>9, <2>1, <2>2 DEF LimiterType
<1>11. HeldInCall'
  <2>1. at'[u] = to /\ \A v \in Users \ {u} : at'[v] = at[v]
    BY <1>1 DEF LimiterType
  <2>2. QED
    BY <1>1, <1>2, <1>7, <2>1 DEF HeldInCall
<1>12. FullWhenAbsent'
  BY <1>1, <1>2, <1>9 DEF FullWhenAbsent
<1>13. OneKey'
  BY <1>1, <1>7 DEF OneKey, i
<1>14. OnlyCollectionOrphans'
  BY <1>1, <1>7 DEF OnlyCollectionOrphans, i
<1>15. CollectionGivesOnlyGifts'
  <2>1. SUFFICES ASSUME NEW j \in Keys, buckets[j] # NoBucket
                 PROVE  Refilled(bucket'[buckets[j]]) <= credit'[j]
    BY <1>1 DEF CollectionGivesOnlyGifts, Refilled
  <2>2. CASE buckets[j] = i
    <3>1. j = k
      BY <1>2, <2>2 DEF OneKey, i, k
    <3>2. QED
      BY <1>9, <2>2, <3>1
  <2>3. CASE buckets[j] # i
    <3>1. buckets[j] \in Ids
      BY <2>1 DEF LimiterType
    <3>2. bucket'[buckets[j]] = bucket[buckets[j]] /\ credit'[j] = credit[j]
      BY <1>5, <1>9, <2>3, <3>1
    <3>3. QED
      BY <2>1, <3>2 DEF CollectionGivesOnlyGifts
  <2>4. QED
    BY <2>2, <2>3
<1>16. QED
  BY <1>10, <1>11, <1>12, <1>13, <1>14, <1>15

\* The wait for the next token is a number of ticks.
LEMMA WaitIsNat ==
  ASSUME LimiterInv, NEW u \in Users, ComputeWait(u)
  PROVE  sleep' \in [Users -> Nat]
<1> USE BucketAssumption
<1> DEFINE missing == Token - bucket[held[u]].tokens
           n == missing + Rate - 1
<1>1. at[u] = "short" /\ sleep' = [sleep EXCEPT ![u] = IF missing <= 0 THEN 0 ELSE n \div Rate]
  BY DEF ComputeWait, Move
<1>2. held[u] \in Ids
  BY <1>1 DEF LimiterInv, HeldInCall
<1>3. bucket[held[u]] \in Buckets
  BY <1>2 DEF LimiterInv, LimiterType
<1>4. missing \in Int
  BY <1>3 DEF Buckets
<1> HIDE DEF missing
<1>5. ~(missing <= 0) => n \in Nat
  BY <1>4
<1> HIDE DEF n
<1>6. n \in Nat => n \div Rate \in Nat
  OBVIOUS
<1>7. (IF missing <= 0 THEN 0 ELSE n \div Rate) \in Nat
  BY <1>5, <1>6
<1>8. QED
  BY <1>1, <1>7 DEF LimiterInv, LimiterType

LEMMA CancelWaitInv ==
  ASSUME LimiterInv, NEW u \in Users, CancelWait(u)
  PROVE  LimiterInv'
<1> USE BucketAssumption DEF LimiterInv
<1>1. /\ at[u] = "sleep" /\ at'[u] = "refused" /\ at' \in [Users -> UserPcs]
      /\ \A v \in Users \ {u} : at'[v] = at[v]
  BY MoveOnly DEF CancelWait, UserPcs
<1>2. /\ held' = [held EXCEPT ![u] = NoBucket] /\ collected' = collected \ {u}
      /\ sleep' = [sleep EXCEPT ![u] = 0]
      /\ UNCHANGED <<buckets, bucket, sinceGC, keyOf, credit>>
  BY DEF CancelWait, LetGo
<1>3. held'[u] = NoBucket /\ \A v \in Users \ {u} : held'[v] = held[v]
  BY <1>2 DEF LimiterType
<1>4. LimiterType' /\ FullWhenAbsent' /\ CollectionGivesOnlyGifts'
  BY <1>1, <1>2 DEF LimiterType, FullWhenAbsent, CollectionGivesOnlyGifts, Refilled
<1>5. HeldInCall'
  BY <1>1, <1>3 DEF HeldInCall
<1>6. OneKey' /\ OnlyCollectionOrphans'
  BY <1>2, <1>3 DEF OneKey, OnlyCollectionOrphans
<1>7. QED
  BY <1>4, <1>5, <1>6

\* A bucket gains in a tick at most what the credit of its key gains.
LEMMA AgeInv ==
  ASSUME LimiterInv, AgeBuckets, UNCHANGED <<buckets, at, keyOf, held, collected>>
  PROVE  LimiterInv'
<1> USE BucketAssumption DEF LimiterInv
<1>1. \A i \in Ids :
        /\ i \in InUse => bucket'[i] = [bucket[i] EXCEPT !.idle = AtMost(IdleCap, @ + 1)]
        /\ i \notin InUse => bucket'[i] = NewBucket
  BY DEF AgeBuckets
<1>2. NewBucket \in Buckets /\ \A i \in Ids : Refilled(bucket[i]) \in 0 .. Burst /\ bucket[i] \in Buckets
  BY RefillBounds DEF NewBucket, Buckets, LimiterType
<1>3. \A i \in Ids : bucket'[i] \in Buckets
  <2>1. SUFFICES ASSUME NEW i \in Ids PROVE bucket'[i] \in Buckets
    OBVIOUS
  <2>2. Refilled(bucket[i]) <= Refilled(bucket[i])
    BY <1>2
  <2>3. QED
    BY <1>1, <1>2, <2>2, RefillAfterTick
<1>4. bucket' \in [Ids -> Buckets]
  BY <1>3 DEF AgeBuckets
<1>5. /\ sinceGC' \in 0 .. GCPeriod
      /\ sleep' \in [Users -> Nat]
      /\ credit' \in [Keys -> 0 .. Burst]
      /\ \A k \in Keys : credit'[k] = AtMost(Burst, credit[k] + Rate)
  BY DEF AgeBuckets, AtMost, LimiterType
<1>6. LimiterType'
  BY <1>4, <1>5 DEF LimiterType
<1>7. OneKey' /\ HeldInCall' /\ OnlyCollectionOrphans'
  BY DEF OneKey, HeldInCall, OnlyCollectionOrphans
<1>8. FullWhenAbsent'
  BY <1>5 DEF FullWhenAbsent, AtMost
<1>9. CollectionGivesOnlyGifts'
  <2>1. SUFFICES ASSUME NEW k \in Keys, buckets[k] # NoBucket
                 PROVE  Refilled(bucket'[buckets[k]]) <= credit'[k]
    BY DEF CollectionGivesOnlyGifts, Refilled
  <2>2. buckets[k] \in Ids /\ buckets[k] \in InUse /\ credit[k] \in 0 .. Burst
    BY <2>1 DEF LimiterType, InUse
  <2>3. Refilled(bucket[buckets[k]]) <= credit[k]
    BY <2>1 DEF CollectionGivesOnlyGifts
  <2> DEFINE b == bucket[buckets[k]]
             a == bucket'[buckets[k]]
  <2>4. b \in Buckets /\ Refilled(b) <= credit[k] /\ a = [b EXCEPT !.idle = AtMost(IdleCap, @ + 1)]
    BY <1>1, <1>2, <2>2, <2>3
  <2>5. credit'[k] = AtMost(Burst, credit[k] + Rate)
    BY <1>5
  <2> HIDE DEF a, b
  <2>6. Refilled(a) <= AtMost(Burst, credit[k] + Rate)
    BY <2>2, <2>4, RefillAfterTick
  <2>7. QED
    BY <2>5, <2>6 DEF a
<1>10. QED
  BY <1>6, <1>7, <1>8, <1>9

-----------------------------------------------------------------------------
\* Every step keeps the limiter's invariant.
LEMMA UsersKeepLimiter ==
  ASSUME LimiterInv, NEW u \in Users, AskLimiter(u) \/ Limited(u) \/ Return(u)
  PROVE  LimiterInv'
<1> USE DEF UserPcs
<1>t. LimiterType
  BY DEF LimiterInv
<1>1. CASE AskLimiter(u)
  <2> DEFINE k == IF u \in Waiters THEN WaiterKey ELSE ServiceKey
             to == IF sinceGC < GCPeriod THEN "find" ELSE "gc"
  <2>1. k \in Keys /\ to \in {"find", "gc"}
    BY AdmissionAssumption
  <2>2. /\ Move(u, "out", to) /\ keyOf' = [keyOf EXCEPT ![u] = k]
        /\ UNCHANGED <<buckets, bucket, sinceGC, held, sleep, credit, collected>>
    BY <1>1 DEF AskLimiter, Call
  <2> HIDE DEF k, to
  <2>3. /\ keyOf' \in [Users -> Keys] /\ sleep' \in [Users -> Nat]
        /\ \A v \in Users \ {u} : keyOf'[v] = keyOf[v]
    BY <1>t, <2>1, <2>2 DEF LimiterType
  <2>4. QED
    BY <2>1, <2>2, <2>3, MoveInv
<1>2. CASE InLimiter(u)
  BY <1>2, CollectInv, FindInv, CreateInv DEF InLimiter, UserStep
<1>3. CASE Allow(u)
  BY <1>3, TakeInv DEF Allow
<1>4. CASE WaitStep(u)
  <2>1. CASE Take(u, "short")
    BY <2>1, TakeInv
  <2>2. CASE ComputeWait(u)
    <3>1. /\ Move(u, "short", "sleep")
          /\ UNCHANGED <<buckets, bucket, sinceGC, keyOf, held, credit, collected>>
      BY <2>2 DEF ComputeWait
    <3>2. sleep' \in [Users -> Nat] /\ keyOf' \in [Users -> Keys]
      BY <1>t, <2>2, <3>1, WaitIsNat DEF LimiterType
    <3>3. QED
      BY <3>1, <3>2, MoveInv
  <2>3. CASE Wake(u)
    <3>1. /\ Move(u, "sleep", "take")
          /\ UNCHANGED <<buckets, bucket, sinceGC, keyOf, held, sleep, credit, collected>>
      BY <2>3 DEF Wake
    <3>2. sleep' \in [Users -> Nat] /\ keyOf' \in [Users -> Keys]
      BY <1>t, <3>1 DEF LimiterType
    <3>3. QED
      BY <3>1, <3>2, MoveInv
  <2>4. QED
    BY <1>4, <2>1, <2>2, <2>3 DEF WaitStep
<1>5. CASE Return(u)
  <2>1. PICK from \in {"granted", "refused"} : Move(u, from, "out")
    BY <1>5 DEF Return, Move
  <2>2. UNCHANGED <<buckets, bucket, sinceGC, keyOf, held, sleep, credit, collected>>
    BY <1>5 DEF Return
  <2>3. sleep' \in [Users -> Nat] /\ keyOf' \in [Users -> Keys]
    BY <1>t, <2>2 DEF LimiterType
  <2>4. QED
    BY <2>1, <2>2, <2>3, MoveInv
<1>6. QED
  BY <1>1, <1>2, <1>3, <1>4, <1>5 DEF Limited

LEMMA NextLimiterInv == LimiterInv /\ [Next]_vars => LimiterInv'
<1> SUFFICES ASSUME LimiterInv, [Next]_vars PROVE LimiterInv'
  OBVIOUS
<1>1. ASSUME NEW u \in Users, AskLimiter(u) \/ Limited(u) \/ Return(u) PROVE LimiterInv'
  BY <1>1, UsersKeepLimiter
<1>2. ASSUME NEW w \in Waiters, GiveUp(w) PROVE LimiterInv'
  BY <1>2, CancelWaitInv, AdmissionAssumption DEF GiveUp
<1>3. CASE Tick
  BY <1>3, AgeInv DEF Tick
<1>4. CASE UNCHANGED bucketVars
  BY <1>4 DEF bucketVars, LimiterInv, LimiterType, OneKey, HeldInCall, FullWhenAbsent,
              CollectionGivesOnlyGifts, OnlyCollectionOrphans, Refilled
<1>5. QED
  BY <1>1, <1>2, <1>3, <1>4 DEF Next, Serve, Ask, Succeed, Fail, Heal, vars

\* The rest of the type invariant: the histories of the breaker are bounded.
HistoryType ==
  /\ failureAge \in 0 .. RecoveryTimeout + 1
  /\ oks \in 0 .. HalfOpenRequests /\ fails \in 0 .. FailureThreshold
  /\ front \in {"breaker", "limiter"} /\ healthy \in BOOLEAN

LEMMA StepHistory ==
  ASSUME HistoryType, NEW c \in Callers, BreakerStep(c)
  PROVE  /\ failureAge' = failureAge
         /\ oks' \in 0 .. HalfOpenRequests
         /\ fails' \in 0 .. FailureThreshold
<1> USE BreakerAssumption DEF HistoryType
<1>1. CASE AddSuccess(c)
  BY <1>1 DEF AddSuccess
<1>2. CASE AddFailure(c)
  BY <1>2 DEF AddFailure
<1>3. CASE ~AddSuccess(c) /\ ~AddFailure(c)
  <2>1. failureAge' = failureAge /\ oks' \in {0, oks} /\ fails' \in {0, fails}
    BY <1>3
       DEF BreakerStep, LoadForAccept, CheckTimeout, StoreHalfOpen, ResetForHalfOpen, CheckProbes,
           CasClosed, ResetFailures, ResetSuccesses, ForgetFailures, LoadForFailure, StoreOpen
  <2>2. QED
    BY <2>1
<1>4. QED
  BY <1>1, <1>2, <1>3

LEMMA NextHistory == HistoryType /\ [Next]_vars => HistoryType'
<1> SUFFICES ASSUME HistoryType, [Next]_vars PROVE HistoryType'
  OBVIOUS
<1> USE BreakerAssumption
<1>1. /\ failureAge' \in 0 .. RecoveryTimeout + 1
      /\ oks' \in 0 .. HalfOpenRequests /\ fails' \in 0 .. FailureThreshold
  <2>1. ASSUME NEW c \in Callers, Ask(c) 
        PROVE  /\ failureAge' \in 0 .. RecoveryTimeout + 1
               /\ oks' \in 0 .. HalfOpenRequests /\ fails' \in 0 .. FailureThreshold
    BY <2>1, StepHistory DEF Ask, HistoryType
  <2>2. ASSUME NEW c \in Callers, Succeed(c) \/ Fail(c)
        PROVE  failureAge' \in {0, failureAge} /\ UNCHANGED <<oks, fails>>
    BY <2>2 DEF Succeed, RecordSuccess, Fail, RecordFailure
  <2>3. CASE Tick
    BY <2>3 DEF Tick, AgeFailure, HistoryType
  <2>4. CASE ~Tick /\ ~(\E c \in Callers : Serve(c) \/ Fail(c))
    <3>1. UNCHANGED <<failureAge, oks, fails>>
      BY <2>4 DEF Next, AskLimiter, Limited, InLimiter, Allow, WaitStep, Return, GiveUp, Heal,
                  vars, breakerVars
    <3>2. QED
      BY <3>1 DEF HistoryType
  <2>5. QED
    BY <2>1, <2>2, <2>3, <2>4 DEF Serve, HistoryType
<1>2. front' = front /\ (healthy' = healthy \/ healthy' = TRUE)
  BY DEF Next, Serve, Ask, Succeed, Fail, AskLimiter, Limited, InLimiter, Allow, WaitStep,
         Return, GiveUp, Tick, Heal, vars
<1>3. healthy' \in BOOLEAN
  BY <1>2 DEF HistoryType
<1>4. QED
  BY <1>1, <1>2, <1>3 DEF HistoryType

-----------------------------------------------------------------------------
\* However many callers race for the buckets, and however often these are collected:
\* a key gets no more from a collection than what a bucket may lack that is old enough
\* for one, and two callers work on different buckets of one key only when a collection
\* came between them.
THEOREM BucketsCorrect == Spec => []BucketsExact
<1>1. Init => Inv /\ LimiterInv /\ HistoryType
  <2>1. Init => healthy \in BOOLEAN /\ front \in {"breaker", "limiter"}
    BY AdmissionAssumption, Zenon DEF Init
  <2>2. Init => HistoryType
    BY <2>1, BreakerAssumption DEF Init, BreakerInit, HistoryType
  <2>3. QED
    BY <2>2, InitInv, LimiterInit DEF Init
<1>2. Inv /\ LimiterInv /\ HistoryType /\ [Next]_vars => (Inv /\ LimiterInv /\ HistoryType)'
  BY NextInv, NextLimiterInv, NextHistory
<1>3. Inv /\ LimiterInv /\ HistoryType => BucketsExact
  BY DEF Inv, BreakerType, LimiterInv, LimiterType, Buckets, HistoryType, BucketsExact, TypeOK
<1>4. QED
  BY <1>1, <1>2, <1>3, PTL DEF Spec
=============================================================================

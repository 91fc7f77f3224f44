---------------------------- MODULE TokenBucket ----------------------------
(***************************************************************************)
(* contrib/tokenbucket: token buckets per key, created on demand and       *)
(* collected when idle.  A caller looks its bucket up under one lock and   *)
(* takes from it under another, so a bucket may be collected in between    *)
(* and live on as an orphan in the hands of that caller.                   *)
(*                                                                         *)
(* Tokens are counted in units, Token of them making one token, so that a  *)
(* rate below one token per tick can be expressed.  Times are ages in      *)
(* ticks, saturating at the caps below, beyond which the code cannot tell  *)
(* them apart.                                                             *)
(***************************************************************************)
EXTENDS Integers, FiniteSets

CONSTANTS Users,      \* goroutines that call the limiter
          Keys,       \* limiter keys
          Ids,        \* identities of bucket objects
          NoBucket,
          Token,      \* units in one token
          Rate,       \* units added per tick
          Burst,      \* capacity in units
          IdleTTL,    \* idle time after which a bucket may be collected
          GCPeriod,   \* time between two collections
          IdleCap     \* where the age of a bucket saturates

ASSUME BucketAssumption ==
  /\ Token \in Nat \ {0} /\ Rate \in Nat \ {0} /\ Burst \in Nat
  /\ Token <= Burst                      \* a full bucket holds a whole token
  /\ IdleTTL \in Nat /\ GCPeriod \in Nat
  /\ IdleCap \in Nat /\ IdleTTL < IdleCap /\ Burst <= IdleCap * Rate
  /\ NoBucket \notin Ids
  /\ IsFiniteSet(Ids) /\ IsFiniteSet(Keys) /\ IsFiniteSet(Users)
  /\ Cardinality(Ids) > Cardinality(Keys) + Cardinality(Users)

VARIABLES
  buckets,    \* l.buckets: the bucket of each key, or NoBucket
  bucket,     \* bucket[i]: tokens and age of the last refill of object i
  sinceGC,    \* age of l.lastGC, saturating at GCPeriod
  at,         \* at[u]: where user u is in Allow or Wait
  keyOf,      \* keyOf[u]: the key of its call
  held,       \* held[u]: the bucket object it has looked up
  sleep,      \* sleep[u]: ticks left of its time.After
  credit,     \* history: what one ideal bucket per key would hold, gifts included
  collected   \* history: users whose bucket was collected after they looked it up

bucketVars == <<buckets, bucket, sinceGC, at, keyOf, held, sleep, credit, collected>>

UserPcs == {"out", "gc", "find", "create", "take", "short", "sleep", "granted", "refused"}

AtMost(m, n) == IF n > m THEN m ELSE n

\* NewTokenBucket: full.
NewBucket == [tokens |-> Burst, idle |-> 0]

\* The tokens after the refill of allow.
Refilled(b) == AtMost(Burst, b.tokens + b.idle * Rate)

\* What a bucket may lack that is old enough to be collected.  The next one of its key
\* is full: that much is given away.
Gift == IF Burst <= (IdleTTL + 1) * Rate THEN 0 ELSE Burst - (IdleTTL + 1) * Rate

\* Objects nobody refers to any more are the ones a new bucket is made of.
InUse == {buckets[k] : k \in Keys} \cup {held[u] : u \in Users}
Fresh == CHOOSE i \in Ids : i \notin InUse

BucketInit ==
  /\ buckets = [k \in Keys |-> NoBucket]
  /\ bucket = [i \in Ids |-> NewBucket]
  /\ sinceGC = 0
  /\ at = [u \in Users |-> "out"]
  /\ keyOf = [u \in Users |-> CHOOSE k \in Keys : TRUE]
  /\ held = [u \in Users |-> NoBucket]
  /\ sleep = [u \in Users |-> 0]
  /\ credit = [k \in Keys |-> Burst]
  /\ collected = {}

-----------------------------------------------------------------------------
Move(u, from, to) == at[u] = from /\ at' = [at EXCEPT ![u] = to]

\* The call ends: its bucket is no longer referred to.
LetGo(u) == held' = [held EXCEPT ![u] = NoBucket] /\ collected' = collected \ {u}

\* Allow and Wait: maybeGC looks at the time of the last collection.
Call(u, k) ==
  /\ Move(u, "out", IF sinceGC < GCPeriod THEN "find" ELSE "gc")
  /\ keyOf' = [keyOf EXCEPT ![u] = k]
  /\ UNCHANGED <<buckets, bucket, sinceGC, held, sleep, credit, collected>>

\* maybeGC: under the lock, once more, and then every bucket idle for too long.
Idle(k) == buckets[k] # NoBucket /\ bucket[buckets[k]].idle > IdleTTL

Collect(u) ==
  /\ Move(u, "gc", "find")
  /\ IF sinceGC < GCPeriod
       THEN UNCHANGED <<buckets, sinceGC, collected, credit>>
       ELSE /\ sinceGC' = 0
            /\ buckets' = [k \in Keys |-> IF Idle(k) THEN NoBucket ELSE buckets[k]]
            /\ collected' = collected \cup
                 {v \in Users : Idle(keyOf[v]) /\ held[v] = buckets[keyOf[v]]}
            /\ credit' = [k \in Keys |-> IF Idle(k) THEN AtMost(Burst, credit[k] + Gift)
                                                    ELSE credit[k]]
  /\ UNCHANGED <<bucket, keyOf, held, sleep>>

\* getOrCreate: look the key up under the read lock ...
Find(u) ==
  /\ IF buckets[keyOf[u]] = NoBucket
       THEN Move(u, "find", "create") /\ UNCHANGED held
       ELSE Move(u, "find", "take") /\ held' = [held EXCEPT ![u] = buckets[keyOf[u]]]
  /\ UNCHANGED <<buckets, bucket, sinceGC, keyOf, sleep, credit, collected>>

\* Mutation: the key is not looked up again under the write lock.
CreateUnchecked(u) ==
  /\ Move(u, "create", "take")
  /\ held' = [held EXCEPT ![u] = Fresh]
  /\ buckets' = [buckets EXCEPT ![keyOf[u]] = Fresh]
  /\ bucket' = [bucket EXCEPT ![Fresh] = NewBucket]
  /\ UNCHANGED <<sinceGC, keyOf, sleep, credit, collected>>

\* ... and, under the write lock, once more before a bucket is made.
Create(u) ==
  LET k == keyOf[u]
      i == IF buckets[k] = NoBucket THEN Fresh ELSE buckets[k] IN
  /\ Move(u, "create", "take")
  /\ held' = [held EXCEPT ![u] = i]
  /\ buckets' = [buckets EXCEPT ![k] = i]
  /\ bucket' = IF buckets[k] = NoBucket THEN [bucket EXCEPT ![i] = NewBucket] ELSE bucket
  /\ UNCHANGED <<sinceGC, keyOf, sleep, credit, collected>>

\* allow, under the lock of the bucket.
Take(u, refusal) ==
  LET i == held[u]
      k == keyOf[u]
      t == Refilled(bucket[i]) IN
  /\ at[u] = "take"
  /\ \/ /\ t >= Token
        /\ Move(u, "take", "granted")
        /\ bucket' = [bucket EXCEPT ![i] = [tokens |-> t - Token, idle |-> 0]]
        /\ credit' = IF buckets[k] = i THEN [credit EXCEPT ![k] = @ - Token] ELSE credit
     \/ /\ t < Token
        /\ Move(u, "take", refusal)
        /\ bucket' = [bucket EXCEPT ![i] = [tokens |-> t, idle |-> 0]]
        /\ UNCHANGED credit
  /\ IF at'[u] \in {"granted", "refused"} THEN LetGo(u) ELSE UNCHANGED <<held, collected>>
  /\ UNCHANGED <<buckets, sinceGC, keyOf, sleep>>

\* wait: the time to the next token, from the tokens there are now; a wait that
\* is no longer needed becomes one millisecond, less than a tick.
ComputeWait(u) ==
  LET missing == Token - bucket[held[u]].tokens IN
  /\ Move(u, "short", "sleep")
  /\ sleep' = [sleep EXCEPT ![u] = IF missing <= 0 THEN 0 ELSE (missing + Rate - 1) \div Rate]
  /\ UNCHANGED <<buckets, bucket, sinceGC, keyOf, held, credit, collected>>

\* Mutation: after the timer the wait is computed again instead of a new try.
WakeToWait(u) ==
  /\ sleep[u] = 0
  /\ Move(u, "sleep", "short")
  /\ UNCHANGED <<buckets, bucket, sinceGC, keyOf, held, sleep, credit, collected>>

\* wait: the timer fires and the loop tries again.
Wake(u) ==
  /\ sleep[u] = 0
  /\ Move(u, "sleep", "take")
  /\ UNCHANGED <<buckets, bucket, sinceGC, keyOf, held, sleep, credit, collected>>

\* wait: the context is cancelled.
CancelWait(u) ==
  /\ Move(u, "sleep", "refused")
  /\ LetGo(u)
  /\ sleep' = [sleep EXCEPT ![u] = 0]
  /\ UNCHANGED <<buckets, bucket, sinceGC, keyOf, credit>>

\* Time passes.
AgeBuckets ==
  /\ bucket' = [i \in Ids |-> IF i \in InUse
                                THEN [bucket[i] EXCEPT !.idle = AtMost(IdleCap, @ + 1)]
                                ELSE NewBucket]        \* garbage
  /\ sinceGC' = AtMost(GCPeriod, sinceGC + 1)
  /\ sleep' = [u \in Users |-> IF sleep[u] = 0 THEN 0 ELSE sleep[u] - 1]
  /\ credit' = [k \in Keys |-> AtMost(Burst, credit[k] + Rate)]

UserStep(u) == Collect(u) \/ Find(u) \/ Create(u)

-----------------------------------------------------------------------------
(* Properties of the limiter. *)

(* The bucket a key has in the map never holds more than one ideal bucket for
   the key would that is given Gift at each collection, however often it was
   collected and made anew, and whoever took from it meanwhile (tokenbucket.go
   194-218).  Gift is nothing where a bucket is full again before it is old
   enough to be collected; nothing in the code demands that of rate, burst and
   idle time. *)
CollectionGivesOnlyGifts ==
  \A k \in Keys : buckets[k] # NoBucket => Refilled(bucket[buckets[k]]) <= credit[k]

(* A caller works on another bucket than the one its key has in the map only if
   a collection ran between its lookup and its take: two callers that find no
   bucket never make two (tokenbucket.go 163-179, 209-217). *)
OnlyCollectionOrphans ==
  \A u \in Users : held[u] # NoBucket /\ buckets[keyOf[u]] # held[u] => u \in collected
=============================================================================

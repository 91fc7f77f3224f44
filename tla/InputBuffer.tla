---------------------------- MODULE InputBuffer ----------------------------
(***************************************************************************)
(* datacontext/multi_input_buffer.go and the contexts and the pool of      *)
(* multi_data_context.go: points of a device are gathered per chain until  *)
(* every declared input has come; the complete context then goes to a      *)
(* callback on a goroutine of its own, and back to the pool after it.      *)
(* A context whose inputs do not come is dropped by the cleanup loop.      *)
(*                                                                         *)
(* Add, Remove, Clear and the cleanup hold the mutex from begin to end and *)
(* are one step each; the callback runs without it.  Contexts are pooled   *)
(* objects, so each has an identity.  Ages saturate above the timeout.     *)
(***************************************************************************)
EXTENDS Integers, FiniteSets

CONSTANTS Devices, Chains, Points,
          Inputs,     \* Inputs[c]: the declared inputs of chain c
          Values,     \* what a point can carry
          Nil,        \* no data, no context
          Objects,    \* MultiDataContext objects; bounds how many are alive
          Timeout     \* in ticks

ASSUME BufferAssumption ==
  /\ Devices # {} /\ Chains # {}
  /\ Inputs \in [Chains -> SUBSET Points]
  /\ \A c \in Chains : Inputs[c] # {} /\ IsFiniteSet(Inputs[c])
  /\ Nil \notin Values /\ Nil \notin Objects
  /\ Timeout \in Nat

Slots == Devices \X Chains

VARIABLES
  entries,    \* buf.entries, flat: entries[<<device, chain>>]
  mdc,        \* mdc[o]: the fields of object o
  pool,       \* objects in the sync.Pool
  firing,     \* objects whose callback goroutine has not released them yet
  callback,   \* buf.triggerCallback is set
  ticker,     \* the cleanup ticker runs
  done,       \* buf.ctx is done
  loop,       \* the cleanup goroutine lives
  given       \* history: given[o], the points a context was handed over with

bufferVars == <<entries, mdc, pool, firing, callback, ticker, done, loop, given>>

NoPoints == [p \in Points |-> Nil]

Contexts == [owner  : Slots,
             points : [Points -> Values \cup {Nil}],   \* Nil stands for absent, too
             ready  : SUBSET Points,                   \* Ready[p] is true
             names  : SUBSET Points,                   \* the keys of Ready
             count  : Nat,
             age    : 0 .. Timeout + 1]

\* An object that was never used.
Blank == [owner |-> CHOOSE s \in Slots : TRUE, points |-> NoPoints,
          ready |-> {}, names |-> {}, count |-> 0, age |-> 0]

Cached == {entries[s] : s \in Slots} \ {Nil}
Unborn == Objects \ (Cached \cup pool \cup firing)

BufferInit ==
  /\ entries = [s \in Slots |-> Nil]
  /\ mdc = [o \in Objects |-> Blank]
  /\ pool = {} /\ firing = {}
  /\ callback \in BOOLEAN
  /\ ticker = TRUE /\ done = FALSE /\ loop = TRUE
  /\ given = [o \in Objects |-> NoPoints]

-----------------------------------------------------------------------------
(* The context and its pool. *)

\* Acquire: every field is set anew, whatever the pooled object held.
Acquired(o, s) == [owner |-> s, points |-> NoPoints, ready |-> {}, names |-> Inputs[s[2]],
                   count |-> 0, age |-> 0]

\* Release: the points and the count go, Ready stays as it was.
Released(x) == [x EXCEPT !.points = NoPoints, !.count = 0]

\* Mutation: a repeated point is counted again.
AddPointCountingAll(x, p, v) ==
  IF p \notin x.names THEN x
  ELSE [x EXCEPT !.points[p] = v, !.ready = @ \cup {p}, !.count = @ + 1, !.age = 0]

\* AddPoint: a point that was there already is replaced.
AddPoint(x, p, v) ==
  IF p \notin x.names THEN x
  ELSE [x EXCEPT !.points[p] = v,
                 !.ready = @ \cup {p},
                 !.count = IF p \in x.ready THEN @ ELSE @ + 1,
                 !.age = 0]

Complete(x) == x.count = Cardinality(x.names)

-----------------------------------------------------------------------------
(* The operations of the buffer. *)

\* The object Add works on: the cached one, or one from the pool, or a new one.
Candidates(s) == IF entries[s] # Nil THEN {entries[s]} ELSE pool \cup Unborn

\* Mutation: the context is handed over and stays in the cache.
AddKeepingEntry(s, p, v) ==
  \E o \in Candidates(s) :
    LET x == AddPoint(IF entries[s] = Nil THEN Acquired(o, s) ELSE mdc[o], p, v)
        fire == Complete(x) /\ callback IN
    /\ p \in Inputs[s[2]]
    /\ mdc' = [mdc EXCEPT ![o] = x]
    /\ pool' = pool \ {o}
    /\ firing' = IF fire THEN firing \cup {o} ELSE firing
    /\ given' = IF fire THEN [given EXCEPT ![o] = x.points] ELSE given
    /\ entries' = [entries EXCEPT ![s] = o]
    /\ UNCHANGED <<callback, ticker, done, loop>>

\* Mutation: the callback is called by the point that completes the context only.
AddFiringOnce(s, p, v) ==
  \E o \in Candidates(s) :
    LET x == AddPoint(IF entries[s] = Nil THEN Acquired(o, s) ELSE mdc[o], p, v)
        fire == Complete(x) /\ callback /\ (entries[s] = Nil \/ ~Complete(mdc[o])) IN
    /\ p \in Inputs[s[2]]
    /\ mdc' = [mdc EXCEPT ![o] = x]
    /\ pool' = pool \ {o}
    /\ firing' = IF fire THEN firing \cup {o} ELSE firing
    /\ given' = IF fire THEN [given EXCEPT ![o] = x.points] ELSE given
    /\ entries' = [entries EXCEPT ![s] = IF fire THEN Nil ELSE o]
    /\ UNCHANGED <<callback, ticker, done, loop>>

Add(s, p, v) ==
  \E o \in Candidates(s) :
    LET x == AddPoint(IF entries[s] = Nil THEN Acquired(o, s) ELSE mdc[o], p, v)
        fire == Complete(x) /\ callback IN
    /\ p \in Inputs[s[2]]                   \* any other point is turned away
    /\ mdc' = [mdc EXCEPT ![o] = x]
    /\ pool' = pool \ {o}
    /\ firing' = IF fire THEN firing \cup {o} ELSE firing
    /\ given' = IF fire THEN [given EXCEPT ![o] = x.points] ELSE given
    /\ entries' = [entries EXCEPT ![s] = IF fire THEN Nil ELSE o]
    /\ UNCHANGED <<callback, ticker, done, loop>>

\* The contexts of the slots in S are released and leave the cache.
Drop(S) ==
  LET gone == {entries[s] : s \in S} \ {Nil} IN
  /\ mdc' = [o \in Objects |-> IF o \in gone THEN Released(mdc[o]) ELSE mdc[o]]
  /\ pool' = pool \cup gone
  /\ entries' = [s \in Slots |-> IF s \in S THEN Nil ELSE entries[s]]

Remove(d) == Drop({s \in Slots : s[1] = d}) /\ UNCHANGED <<firing, callback, ticker, done, loop, given>>

Clear == Drop(Slots) /\ UNCHANGED <<firing, callback, ticker, done, loop, given>>

\* Stop: the ticker no longer fires; the goroutine of the loop stays.
Stop ==
  /\ ticker' = FALSE
  /\ Drop(Slots)
  /\ UNCHANGED <<firing, callback, done, loop, given>>

\* cleanup: contexts that no point has come to for longer than the timeout.
Expired == {s \in Slots : entries[s] # Nil /\ mdc[entries[s]].age > Timeout}

\* Mutation: complete contexts are left to the callback.
CleanupIncomplete ==
  /\ loop /\ ticker
  /\ Expired # {}
  /\ Drop({s \in Expired : ~Complete(mdc[entries[s]])})
  /\ UNCHANGED <<firing, callback, ticker, done, loop, given>>

Cleanup ==
  /\ loop /\ ticker
  /\ Expired # {}
  /\ Drop(Expired)
  /\ UNCHANGED <<firing, callback, ticker, done, loop, given>>

\* cleanupLoop: the context of the buffer is done.
LoopEnds == done /\ loop /\ loop' = FALSE
            /\ UNCHANGED <<entries, mdc, pool, firing, callback, ticker, done, given>>

\* The callback goroutine: the callback has returned, the context is released.
Finish(o) ==
  /\ o \in firing
  /\ firing' = firing \ {o}
  /\ mdc' = [mdc EXCEPT ![o] = Released(@)]
  /\ pool' = pool \cup {o}
  /\ given' = [given EXCEPT ![o] = NoPoints]
  /\ UNCHANGED <<entries, callback, ticker, done, loop>>

SetTriggerCallback == ~callback /\ callback' = TRUE
                      /\ UNCHANGED <<entries, mdc, pool, firing, ticker, done, loop, given>>

\* sync.Pool may drop what it holds at any garbage collection.
PoolForgets == \E o \in pool :
  /\ pool' = pool \ {o}
  /\ mdc' = [mdc EXCEPT ![o] = Blank]
  /\ UNCHANGED <<entries, firing, callback, ticker, done, loop, given>>

CtxDone == ~done /\ done' = TRUE
           /\ UNCHANGED <<entries, mdc, pool, firing, callback, ticker, loop, given>>

Tick ==
  /\ \E s \in Slots : entries[s] # Nil /\ mdc[entries[s]].age <= Timeout
  /\ mdc' = [o \in Objects |->
               IF o \in Cached /\ mdc[o].age <= Timeout THEN [mdc[o] EXCEPT !.age = @ + 1]
                                                        ELSE mdc[o]]
  /\ UNCHANGED <<entries, pool, firing, callback, ticker, done, loop, given>>

Next ==
  \/ \E s \in Slots, p \in Points, v \in Values : Add(s, p, v)
  \/ \E d \in Devices : Remove(d)
  \/ Clear \/ Stop \/ Cleanup \/ LoopEnds \/ SetTriggerCallback \/ PoolForgets
  \/ CtxDone \/ Tick
  \/ \E o \in Objects : Finish(o)

(* Time passes, the cleanup loop is scheduled and callbacks return; nobody need
   add, remove, stop or cancel. *)
Fairness ==
  /\ WF_bufferVars(Tick) /\ WF_bufferVars(Cleanup) /\ WF_bufferVars(LoopEnds)
  /\ \A o \in Objects : WF_bufferVars(Finish(o))

Spec == BufferInit /\ [][Next]_bufferVars /\ Fairness

-----------------------------------------------------------------------------
TypeOK ==
  /\ entries \in [Slots -> Objects \cup {Nil}]
  /\ mdc \in [Objects -> Contexts]
  /\ pool \subseteq Objects /\ firing \subseteq Objects
  /\ callback \in BOOLEAN /\ ticker \in BOOLEAN /\ done \in BOOLEAN /\ loop \in BOOLEAN
  /\ given \in [Objects -> [Points -> Values \cup {Nil}]]

(* A context has one holder: one slot of the cache, or the callback it was given
   to, or the pool.  It is never released twice, nor released or filled again
   while its callback works on it (multi_input_buffer.go 107-124, 148-150,
   161-165, 213-216). *)
OneHolder ==
  /\ Cached \cap pool = {} /\ Cached \cap firing = {} /\ pool \cap firing = {}
  /\ \A s, t \in Slots : entries[s] # Nil /\ entries[s] = entries[t] => s = t

(* What a callback sees is a whole set of inputs of the slot's chain and stays
   the same until it returns. *)
FiredUntouched ==
  \A o \in firing :
    /\ mdc[o].points = given[o]
    /\ \A p \in Inputs[mdc[o].owner[2]] : given[o][p] # Nil

(* The count by which a context is judged complete is the number of its inputs
   that have come, for a context made of a pooled object as for a new one; the
   object a slot holds is its own (multi_data_context.go 73-98, 308-342). *)
CountExact ==
  \A s \in Slots : entries[s] # Nil =>
    LET x == mdc[entries[s]] IN
    /\ x.owner = s /\ x.names = Inputs[s[2]]
    /\ x.ready = {p \in Points : x.points[p] # Nil}
    /\ x.count = Cardinality(x.ready)

(* Contexts are where they belong, one by one, and count what is in them. *)
ContextsExact == TypeOK /\ OneHolder /\ CountExact

(* Without a callback a complete context stays in the cache; with one, only a
   context that was complete before the callback was set can (lines 110-124). *)
CompleteLeaves ==
  [][\A s \in Slots :
       callback /\ entries'[s] # Nil /\ Complete(mdc'[entries'[s]])
         => entries'[s] = entries[s] /\ mdc'[entries[s]].points = mdc[entries[s]].points]_bufferVars

(* A context no point comes to any more does not stay, unless the buffer was
   stopped or its context done: it is handed over, removed or cleaned up. *)
StaleIsCleaned ==
  \A s \in Slots : s \in Expired ~> s \notin Expired \/ ~ticker \/ ~loop

=============================================================================

--------------------------- MODULE StatefulNodes ----------------------------
(***************************************************************************)
(* The conditions and actions that keep something in a store between       *)
(* calls: builtin/condition/stateful (duration, limit_recovery, periodic,  *)
(* rate_limit_window, trend), extensions/condition/grid.go                 *)
(* (frequency_wobble, ramp_rate_limit, reverse_power) and ext              *)
(* (threshold_detect, status_detect, rate_detect, limit_tracker,           *)
(* demand_calc and meter_freeze).                                          *)
(*                                                                         *)
(* One node works for one point, hence on one key of the store, in several *)
(* evaluations at once.  The store is safe for concurrent use, a call is   *)
(* not atomic: it gets the state, works on it and sets it.  Some nodes     *)
(* store a value, others a pointer to an object that they go on changing.  *)
(* A value is 2 where it is out of bounds (an inner condition holds, power *)
(* is reversed, a status matches), 1 within the hysteresis and 0 where all *)
(* is well; the rates are computed of the same numbers.                    *)
(***************************************************************************)
EXTENDS Integers, Sequences, SequencesExt, FiniteSets, Timestamps

CONSTANTS Threads,    \* evaluations at the same time
          None,       \* no such key, no such time
          MaxTime,    \* bounds the calls: each has a timestamp of its own (LastCall)
          Duration, Window, Period, Count, RateLimit    \* configuration

ASSUME NodesAssumption ==
  /\ MaxTime \in Nat /\ Duration \in Nat /\ Window \in Nat /\ Period \in Nat
  /\ Count \in Nat \ {0} /\ RateLimit \in Nat
  /\ None \notin Threads \cup 0 .. MaxTime
  /\ None \notin [was : BOOLEAN, start : Nat] \cup Seq([ts : Nat, v : Nat])

Waiting == {"duration", "reverse", "threshold"}       \* for a time, then they fire
Pausing == {"debounce", "freeze"}                     \* for a time once they fired
Windowed == {"rate", "trend", "frequency", "ramp", "detect", "demand"}
Kinds == Waiting \cup Pausing \cup Windowed \cup {"recovery", "periodic", "tracker"}
ByPointer == {"recovery", "periodic", "rate", "trend", "tracker", "demand"}

\* These take the time of their own clock, or do not care for the unit.
UnitFree == {"duration", "threshold", "debounce", "detect", "tracker"}

VARIABLES
  kind,    \* the node
  unit,    \* the unit of the timestamps of the data: "ms" or "ns"
  clock,   \* the last timestamp
  store,   \* what is stored under the key: a value, or the name of an object
  heap,    \* the objects; each is named for the evaluation that made it
  call,    \* call[t]: the call evaluation t is at, or the last it made
  past     \* history: the calls, and for each the clock when it returned

nodeVars == <<kind, unit, clock, store, heap, call, past>>

Fresh == CASE kind = "recovery" -> [was |-> FALSE, start |-> 0]
           [] kind = "periodic" -> [last |-> None, n |-> 0]
           [] kind = "tracker" -> [n |-> 0, lasted |-> 0, last |-> 0, out |-> FALSE]
           [] kind = "demand" -> [samples |-> << >>, peak |-> 0]
           [] OTHER -> << >>

NodesInitIn(kinds) ==
  /\ kind \in kinds /\ unit \in (IF kind \in UnitFree THEN {"ms"} ELSE {"ms", "ns"})
  /\ clock = 0
  /\ store = None
  /\ heap = [t \in Threads |-> None]
  /\ call = [t \in Threads |->
               [at |-> "done", ts |-> 0, v |-> 0, ref |-> None, seen |-> None, fired |-> FALSE]]
  /\ past = << >>

-----------------------------------------------------------------------------
(* Units.  Spans are compared in parts of a tick, Skew of them to a tick.    *)

\* What the node takes d ticks for.  trend and periodic read milliseconds as
\* nanoseconds and nanoseconds as milliseconds; the others of the data's time take
\* milliseconds for granted.  The properties are about the ticks themselves.
ReadAs(d) ==
  CASE kind \in {"trend", "periodic"} -> IF unit = "ms" THEN d ELSE d * Skew * Skew
    [] OTHER -> IF unit = "ms" THEN d * Skew ELSE d * Skew * Skew

Ticks(n) == n * Skew

-----------------------------------------------------------------------------
(* What the nodes do to their state. *)

Sample(c) == [ts |-> c.ts, v |-> c.v]

\* rate_detect drops old samples wherever they are, and those just as old as the
\* window.
OnlyYounger(samples, c) ==
  LET young == {k \in DOMAIN samples : ReadAs(c.ts - samples[k].ts) < Ticks(Window)}
      Rank(k) == Cardinality({j \in young : j <= k}) IN
  [n \in 1 .. Cardinality(young) |-> samples[CHOOSE k \in young : Rank(k) = n]]

\* The sample goes to the end, those at the front that are too old go.
Sampled(samples, c) ==
  LET all == Append(samples, Sample(c))
      Kept(s) == ReadAs(c.ts - s.ts) <= Ticks(Window) IN
  IF kind = "detect" THEN OnlyYounger(all, c)
  ELSE SubSeq(all, SelectInSeq(all, Kept), Len(all))

Size(x) == IF x < 0 THEN -x ELSE x

\* The first sample against the last one.
SteepEnough(samples) ==
  LET a == samples[1]
      b == samples[Len(samples)]
      elapsed == ReadAs(b.ts - a.ts) IN
  /\ Len(samples) >= 2
  /\ IF kind = "trend"
     THEN a.v # 0 /\ b.v - a.v >= RateLimit * Size(a.v)
     ELSE elapsed > 0 /\ Size(b.v - a.v) * Skew > RateLimit * elapsed

Exceeded(c) == c.v = 2       \* the inner condition of duration and periodic, too
Recovered(c) == c.v = 0

\* limit_recovery: what becomes of the object, seen when it was loaded.
Recovery(object, seen, c) ==
  IF Exceeded(c) THEN [was |-> TRUE, start |-> 0]
  ELSE IF seen.was /\ Recovered(c) /\ seen.start = 0
       THEN [object EXCEPT !.start = c.ts] ELSE object

RecoveryFires(seen, c) ==
  /\ ~Exceeded(c) /\ Recovered(c) /\ seen.was /\ seen.start # 0
  /\ ReadAs(c.ts - seen.start) >= Ticks(Duration)

\* periodic: one look per period.
Periodic(object, seen, c) ==
  IF seen.last = None \/ ReadAs(c.ts - seen.last) >= Ticks(Period)
  THEN [last |-> c.ts, n |-> IF Exceeded(c) THEN seen.n + 1 ELSE 0]
  ELSE object

\* Mutation: the return within the limits is not noted.
TrackedNeverBack(object, seen, c) ==
  IF ~Exceeded(c) THEN object
  ELSE IF ~seen.out THEN [object EXCEPT !.n = seen.n + 1, !.last = c.ts, !.out = TRUE]
  ELSE [object EXCEPT !.lasted = seen.lasted + (c.ts - seen.last), !.last = c.ts]

\* limit_tracker: how often the limits were exceeded, and for how long.
Tracked(object, seen, c) ==
  IF ~Exceeded(c) THEN [object EXCEPT !.out = FALSE]
  ELSE IF ~seen.out THEN [object EXCEPT !.n = seen.n + 1, !.last = c.ts, !.out = TRUE]
  ELSE [object EXCEPT !.lasted = seen.lasted + (c.ts - seen.last), !.last = c.ts]

\* demand_calc, of blocks: the greatest value of the window, and the greatest ever.
Demand(seen, c) ==
  LET samples == Sampled(seen.samples, c) IN
  [samples |-> samples,
   peak |-> Max({seen.peak} \cup {samples[k].v : k \in DOMAIN samples})]

Changed(object, seen, c) ==
  CASE kind = "recovery" -> Recovery(object, seen, c)
    [] kind = "tracker" -> Tracked(object, seen, c)
    [] kind = "periodic" -> Periodic(object, seen, c)
    [] kind = "demand" -> Demand(seen, c)
    [] OTHER -> Sampled(seen, c)

-----------------------------------------------------------------------------
(* The steps of a call. *)

Over(t, fired) ==
  /\ call' = [call EXCEPT ![t] = [@ EXCEPT !.at = "done", !.ref = None, !.seen = None,
                                          !.fired = fired]]
  /\ past' = [past EXCEPT ![call[t].ts].end = clock, ![call[t].ts].fired = fired]

\* frequency_wobble fires at once where the value is out of bounds; reverse_power,
\* threshold_detect and status_detect have nothing to do where it is not.
NeedsNoState(v) == (kind = "frequency" /\ v = 2)
                   \/ (kind \in {"reverse", "threshold", "debounce"} /\ v # 2)

\* Bound: milliseconds keep periodic waiting for a call more than the others.
LastCall == IF kind = "periodic" THEN MaxTime ELSE MaxTime - 1

Begin(t, v) ==
  /\ call[t].at = "done" /\ clock < LastCall
  /\ clock' = clock + 1
  /\ LET at == IF NeedsNoState(v) THEN "done"
               ELSE IF kind = "duration" /\ v # 2 THEN "put" ELSE "get" IN
     /\ call' = [call EXCEPT ![t] = [at |-> at, ts |-> clock', v |-> v, ref |-> None,
                                     seen |-> None, fired |-> NeedsNoState(v) /\ v = 2]]
     /\ past' = Append(past, [ts |-> clock', v |-> v, fired |-> at = "done" /\ v = 2,
                              end |-> IF at = "done" THEN clock' ELSE None])
  /\ UNCHANGED <<kind, unit, store, heap>>

\* StateStore().Get; where there is nothing, an object is made.
Get(t) ==
  /\ call[t].at = "get"
  /\ IF kind \in ByPointer
     THEN LET ref == IF store = None THEN t ELSE store
              made == IF store = None THEN [heap EXCEPT ![t] = Fresh] ELSE heap IN
          /\ heap' = made
          /\ call' = [call EXCEPT ![t].at = "put", ![t].ref = ref, ![t].seen = made[ref]]
     ELSE /\ call' = [call EXCEPT ![t].at = "put",
                                  ![t].seen = IF store = None /\ kind \in Windowed
                                              THEN Fresh ELSE store]
          /\ UNCHANGED heap
  /\ UNCHANGED <<kind, unit, clock, store, past>>

\* Mutation: the state is not reset when the inner condition does not hold.
SinceKept(c) == IF c.v = 2 /\ c.seen = None THEN c.ts ELSE store

\* What is stored: the time since when.  duration forgets it when the inner
\* condition does not hold; the others do not come here then.
Since(c) == IF c.v # 2 THEN None ELSE IF c.seen = None THEN c.ts ELSE store

Held(c) == c.v = 2 /\ c.seen # None /\ ReadAs(c.ts - c.seen) >= Ticks(Duration)

\* duration, reverse_power and threshold_detect.
PutSince(t) ==
  /\ call[t].at = "put" /\ kind \in Waiting
  /\ store' = Since(call[t])
  /\ Over(t, Held(call[t]))
  /\ UNCHANGED <<kind, unit, clock, heap>>

StillPausing(c) == c.seen # None /\ ReadAs(c.ts - c.seen) < Ticks(Period)

\* status_detect: the time of the last match.
PutMatch(t) ==
  LET c == call[t] IN
  /\ c.at = "put" /\ kind = "debounce"
  /\ store' = IF StillPausing(c) THEN store ELSE c.ts
  /\ Over(t, ~StillPausing(c))
  /\ UNCHANGED <<kind, unit, clock, heap>>

\* meter_freeze: the time of the last freeze, unless its storage refuses it.
PutFreeze(t) ==
  LET c == call[t] IN
  /\ c.at = "put" /\ kind = "freeze"
  /\ \/ ~StillPausing(c) /\ store' = c.ts /\ Over(t, TRUE)
     \/ UNCHANGED store /\ Over(t, FALSE)
  /\ UNCHANGED <<kind, unit, clock, heap>>

\* frequency_wobble, ramp_rate_limit and rate_detect store the samples as a value.
PutSamples(t) ==
  LET samples == Sampled(call[t].seen, call[t]) IN
  /\ call[t].at = "put" /\ kind \in Windowed \ ByPointer
  /\ store' = samples
  /\ Over(t, SteepEnough(samples))
  /\ UNCHANGED <<kind, unit, clock, heap>>

\* The others change the object and store its address.  limit_recovery has decided
\* by then.
PutObject(t) ==
  LET c == call[t] IN
  /\ c.at = "put" /\ kind \in ByPointer
  /\ heap' = [heap EXCEPT ![c.ref] = Changed(@, c.seen, c)]
  /\ store' = c.ref
  /\ IF kind = "recovery" THEN Over(t, RecoveryFires(c.seen, c))
     ELSE call' = [call EXCEPT ![t].at = "decide"] /\ UNCHANGED past
  /\ UNCHANGED <<kind, unit, clock>>

\* The object is read again: another call may have changed it.
Decide(t) ==
  LET object == heap[call[t].ref] IN
  /\ call[t].at = "decide"
  /\ Over(t, CASE kind = "periodic" -> object.n >= Count
                [] kind \in {"tracker", "demand"} -> FALSE
                [] OTHER -> SteepEnough(object))
  /\ UNCHANGED <<kind, unit, clock, store, heap>>

NodesInit == NodesInitIn(Kinds)

\* A value between the others is one of its own for those with a second limit, and for
\* trend's ratios.
Levels == IF kind \in {"trend", "frequency", "recovery"} THEN 0 .. 2 ELSE {0, 2}

NodesNext ==
  \E t \in Threads : \/ \E v \in Levels : Begin(t, v)
                     \/ Get(t) \/ PutSince(t) \/ PutMatch(t) \/ PutFreeze(t)
                     \/ PutSamples(t) \/ PutObject(t) \/ Decide(t)

NodesSpec == NodesInit /\ [][NodesNext]_nodeVars

-----------------------------------------------------------------------------
(* Properties. *)

Returned(i) == past[i].end # None

\* Call j began after call i had returned.
After(j, i) == Returned(i) /\ past[j].ts > past[i].end

Alone(i) == Returned(i) /\ \A j \in DOMAIN past \ {i} : After(i, j) \/ After(j, i)
AllAlone == \A i \in DOMAIN past : Alone(i)

\* Call i is of a good value, with timestamps in milliseconds at least Duration
\* before call f, and every call with a value that ends the wait was made before i
\* returned, or had not returned when f began.
HeldSince(i, f, good, ending) ==
  /\ past[i].v = good
  /\ unit = "ms" => past[f].ts - past[i].ts >= Duration
  /\ \A j \in DOMAIN past : past[j].v \in ending /\ After(j, i) => ~After(f, j)

\* No call that had returned when f began has fired within the pause, unless a
\* call that fired overlapped with it.
Rested(f) ==
  \A j \in DOMAIN past :
    (/\ past[j].fired /\ After(f, j)
     /\ \A k \in DOMAIN past \ {j} : past[k].fired => After(k, j) \/ After(j, k))
    => (unit = "ms" => past[f].ts - past[j].ts >= Period)

\* The inner condition held at these calls.  Milliseconds are read as less than they
\* are, so the calls are a period apart; nanoseconds are read as more, so each call
\* a period or more after the last of them, before f, was one of them, too.
InCycles(f) ==
  \E met \in SUBSET {i \in DOMAIN past : past[i].v = 2} :
    /\ Cardinality(met) >= Count
    /\ unit = "ms" => \A i, j \in met : i < j => past[j].ts - past[i].ts >= Period
    /\ unit = "ns" /\ AllAlone =>
         \A j \in 1 .. f : past[j].v # 2 /\ (\E i \in met : i < j) =>
           \E i \in met : i < j /\ past[j].ts - past[i].ts < Period

\* Calls that find the store empty at the same time make an object each, and all of
\* these can be in use from then on.
OneObject == \A s, t \in Threads : heap[s] # None /\ heap[t] # None => s = t

Earned(f) ==
  /\ kind = "duration" => past[f].v = 2 /\ \E i \in 1 .. f : HeldSince(i, f, 2, {0, 1})
  /\ kind \in {"reverse", "threshold"} => past[f].v = 2 /\ \E i \in 1 .. f : HeldSince(i, f, 2, {})
  /\ kind = "recovery" /\ OneObject =>
       past[f].v = 0 /\ \E k, i \in DOMAIN past :
                          past[k].v = 2 /\ ~After(k, f) /\ HeldSince(i, f, 0, {2})
  /\ kind = "periodic" => InCycles(f)
  /\ kind \in Pausing => Rested(f)

\* A node with a duration fires only if it has been waiting that long, in
\* milliseconds, and no call has ended the wait meanwhile; only a call that
\* overlapped with the one that began the wait, or with the one that fires, can be
\* overlooked, and in limit_recovery what was noted in another object.  periodic
\* fires for as many calls as it has to count, a period apart in milliseconds and
\* with none in between that should have begun the count anew in nanoseconds.  A
\* node with a pause keeps it, but for calls that overlap.
FiresAreEarned ==
  \A t \in Threads : call[t].at = "done" /\ call[t].fired => Earned(call[t].ts)

Samples ==
  LET stored == IF kind \in ByPointer THEN heap[store] ELSE store IN
  IF store = None THEN << >> ELSE IF kind = "demand" THEN stored.samples ELSE stored

\* frequency_wobble keeps no sample of a value that is out of bounds.
Sampling(i) == ~(kind = "frequency" /\ past[i].v = 2)
InWindow(i) == clock - past[i].ts < Window
               \/ (kind # "detect" /\ clock - past[i].ts = Window)

\* Overlapping calls lose samples of each other and store them out of order, which
\* keeps those behind too long; but the sample of a call that ran alone stays as
\* long as the window is, in milliseconds, and none is stored twice.  None stays
\* too long where no calls overlapped, unless it is milliseconds that trend reads.
LoneSamplesStay ==
  kind \in Windowed =>
    /\ \A i \in DOMAIN past : unit = "ms" /\ Alone(i) /\ Sampling(i) /\ InWindow(i) =>
         \E k \in DOMAIN Samples : Samples[k] = Sample(past[i])
    /\ AllAlone /\ ~(kind = "trend" /\ unit = "ms") => \A k \in DOMAIN Samples :
         Samples[Len(Samples)].ts - Samples[k].ts <= Window
    /\ IsInjective(Samples)

\* demand_calc never forgets the greatest value, but for calls that overlapped.
PeakIsReached ==
  (kind = "demand" /\ store # None /\ AllAlone) =>
    heap[store].peak = Max({past[i].v : i \in DOMAIN past})

\* Where no calls overlapped, limit_tracker has counted each time that the value
\* left the limits, once, and the time between the calls that found it outside.
ExcursionsCounted ==
  (kind = "tracker" /\ store # None /\ AllAlone) =>
    LET outside == {i \in DOMAIN past : past[i].v = 2}
        Stayed(i) == i \in outside /\ i - 1 \in outside IN
    /\ heap[store].n = Cardinality({i \in outside : ~Stayed(i)})
    /\ heap[store].lasted = Cardinality({i \in outside : Stayed(i)})

StoredStateIsExact == LoneSamplesStay /\ PeakIsReached /\ ExcursionsCounted

\* A node with a duration fires only if what it waits for held at every call for
\* that long (timestamps in milliseconds, one call at a time).  The code keeps the
\* start of the wait over calls that do not meet it.
HeldThroughout ==
  \A t \in Threads :
    LET f == call[t].ts IN
    (/\ call[t].at = "done" /\ call[t].fired /\ AllAlone
     /\ kind \in Waiting \cup {"recovery"} /\ unit = "ms")
    => \E i \in 1 .. f :
         /\ past[f].ts - past[i].ts >= Duration
         /\ \A j \in i .. f : past[j].v = (IF kind = "recovery" THEN 0 ELSE 2)

=============================================================================

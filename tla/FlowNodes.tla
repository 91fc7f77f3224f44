----------------------------- MODULE FlowNodes ------------------------------
(***************************************************************************)
(* Actions that reach beyond the evaluation they run in: dispatch_control  *)
(* and market_price_query (extensions/action) ask services, msg_generator  *)
(* and sub_chain (extensions/flow) and delay (builtin/action) start or     *)
(* make things of their own.  One instance of an action serves every       *)
(* evaluation of its chain.                                                *)
(*                                                                         *)
(* A run has one of the actions (flow), the generator with data in either  *)
(* unit of time.  Evaluation n works on point n, in a context that is used *)
(* again for a later point once the evaluation is over, as                 *)
(* NewMultiDataContextPool and MultiInputBuffer do.                        *)
(***************************************************************************)
EXTENDS Integers, Sequences, FiniteSets, Timestamps

CONSTANTS Points,      \* evaluations, 1 .. n
          Contexts,    \* contexts that the evaluations take turns with
          LastTick,    \* bound of the clock
          Interval,    \* of the generator
          CacheTTL,    \* of the price
          RetryCount,  \* of the dispatch
          NoPoint

ASSUME FlowAssumption ==
  /\ Points = 1 .. Cardinality(Points) /\ NoPoint \notin Points
  /\ LastTick \in Nat /\ Interval \in Nat \ {0} /\ CacheTTL \in Nat \ {0}
  /\ RetryCount \in Int

\* Bounds the evaluations: those that dispatch share nothing but the devices.
MaxPoints == [generator |-> 4, mapgenerator |-> 3, market |-> 3, dispatch |-> 1, delay |-> 3,
              sync |-> 3, async |-> 3]

Generators == {"generator", "mapgenerator"}   \* the second over a MapDataContext
Flows == Generators \cup {"market", "dispatch", "delay", "sync", "async"}
Stamps == 0 .. LastTick
Own == <<"d1", "d2">>       \* the targets of the chain's two dispatch actions

VARIABLES
  flow,     \* the action
  tick,     \* the clock
  eval,      \* eval[p]: how far the evaluation of p is
  holds,    \* holds[c]: what context c says: its point, dropped, a tag
  memory,   \* what the action keeps: lastRun, or the cached price
  later,    \* what was started and has yet to run: the contexts it works on
  done      \* history: what happened outside, in order

flowVars == <<flow, tick, eval, holds, memory, later, done>>

Empty == [point |-> NoPoint, dropped |-> FALSE, target |-> ""]
Nothing == [price |-> -1, until |-> 0, stored |-> 0, lastRun |-> -1]
Idle == [at |-> "new", ctx |-> NoPoint, tries |-> 0, sent |-> 0, entry |-> Nothing]

FlowInitIn(flows) ==
  /\ flow \in flows
  /\ tick = 0
  /\ eval = [p \in Points |-> Idle]
  /\ holds = [c \in Contexts |-> Empty]
  /\ memory = Nothing
  /\ later = {}
  /\ done = << >>

FlowInit == FlowInitIn(Flows)

Note(what) == done' = Append(done, what)

TimePasses ==
  /\ tick < LastTick
  /\ tick' = tick + 1
  /\ UNCHANGED <<flow, eval, holds, memory, later, done>>

\* A point comes, with or without a target of its own, in a context that is free.
BeginPoint(p) ==
  /\ p <= MaxPoints[flow]
  /\ eval[p].at = "new" /\ \A q \in Points : q < p => eval[q].at # "new"
  /\ \E c \in Contexts, t \in (IF flow = "dispatch" THEN {"", "d3"} ELSE {""}) :
       /\ holds[c].point = NoPoint
       /\ holds' = [holds EXCEPT ![c] = [point |-> p, dropped |-> FALSE, target |-> t]]
       /\ eval' = [eval EXCEPT ![p] = [Idle EXCEPT !.at = flow, !.ctx = c]]
       /\ done' = IF t = "" THEN done ELSE Append(done, [what |-> "tagged", p |-> p])
  /\ UNCHANGED <<flow, tick, memory, later>>

\* The evaluation is over, and its context is free for the next point.
FinishPoint(p) ==
  /\ eval[p].at = "finish"
  /\ eval' = [eval EXCEPT ![p].at = "over"]
  /\ holds' = [holds EXCEPT ![eval[p].ctx] = Empty]
  /\ UNCHANGED <<flow, tick, memory, later, done>>

Move(p, place) == eval' = [eval EXCEPT ![p].at = place]

-----------------------------------------------------------------------------
(* MsgGeneratorAction: under its lock, by the timestamps of the data, which  *)
(* come in any order and are taken for milliseconds.                         *)

ReadTime(ts) == UnixMilli(IF flow = "mapgenerator" THEN "ns" ELSE "ms", ts)
IsDue(ts) == memory.lastRun # -1 /\ ReadTime(ts) >= memory.lastRun + Interval

Remembered(ts) ==
  IF memory.lastRun = -1 \/ IsDue(ts) THEN [memory EXCEPT !.lastRun = ReadTime(ts)] ELSE memory

Generate(p) ==
  /\ eval[p].at \in Generators
  /\ \E ts \in Stamps :
       /\ memory' = Remembered(ts)
       /\ done' = IF IsDue(ts) THEN Append(done, [what |-> "made", ts |-> ts]) ELSE done
  /\ Move(p, "finish")
  /\ UNCHANGED <<flow, tick, holds, later>>

-----------------------------------------------------------------------------
(* MarketPriceQueryAction: the lock is held for a look at the cache and to   *)
(* store a price; the entry is judged, and the market asked, without it.     *)

Look(p) ==
  /\ eval[p].at = "market"
  /\ eval' = [eval EXCEPT ![p].at = "check", ![p].entry = memory]
  /\ Note([what |-> "looked", p |-> p])
  /\ UNCHANGED <<flow, tick, holds, memory, later>>

Valid(entry) == entry.price # -1 /\ tick < entry.until

\* By the entry it saw, whatever has been stored since.
UseOrAsk(p) ==
  /\ eval[p].at = "check"
  /\ LET entry == eval[p].entry IN
     IF Valid(entry)
     THEN /\ Note([what |-> "hit", price |-> entry.price, stored |-> entry.stored, at |-> tick])
          /\ Move(p, "finish")
     ELSE Move(p, "answer") /\ Note([what |-> "asked", p |-> p, at |-> tick])
  /\ UNCHANGED <<flow, tick, holds, memory, later>>

\* The market's price of now, or an error.
MarketAnswer(p) ==
  /\ eval[p].at = "answer"
  /\ \/ eval' = [eval EXCEPT ![p].at = "store", ![p].sent = tick]
     \/ Move(p, "finish")
  /\ UNCHANGED <<flow, tick, holds, memory, later, done>>

StorePrice(p) ==
  /\ eval[p].at = "store"
  /\ memory' = [memory EXCEPT !.price = eval[p].sent, !.until = tick + CacheTTL, !.stored = tick]
  /\ Note([what |-> "stored", p |-> p, price |-> eval[p].sent, at |-> tick])
  /\ Move(p, "finish")
  /\ UNCHANGED <<flow, tick, holds, later>>

-----------------------------------------------------------------------------
(* Two DispatchControlActions one after the other; the second is tried also  *)
(* when the first failed (the default error handler goes on).                *)

Retries == IF RetryCount <= 0 THEN 1 ELSE RetryCount
ActionOf(p) == IF eval[p].at \in {"dispatch", "pause"} THEN 1 ELSE 2

\* A target the data is tagged with goes before the action's own.
Target(p) ==
  IF holds[eval[p].ctx].target # "" THEN holds[eval[p].ctx].target ELSE Own[ActionOf(p)]

PastAction(p) ==
  [eval[p] EXCEPT !.at = IF ActionOf(p) = 1 THEN "dispatch2" ELSE "finish", !.tries = 0]

\* Mutation: the tag is set before the device is asked.
DispatchTaggingFirst(p) ==
  /\ eval[p].at \in {"dispatch", "dispatch2"}
  /\ \E executed, ok \in BOOLEAN :
       /\ ok => executed
       /\ Note([what |-> "sent", p |-> p, by |-> ActionOf(p), to |-> Target(p),
                executed |-> executed, ok |-> ok])
       /\ holds' = [holds EXCEPT ![eval[p].ctx].target = Target(p)]
       /\ eval' = IF ok THEN [eval EXCEPT ![p] = PastAction(p)]
                 ELSE [eval EXCEPT ![p].tries = @ + 1,
                                  ![p].at = IF ActionOf(p) = 1 THEN "pause" ELSE "pause2"]
  /\ UNCHANGED <<flow, tick, memory, later>>

\* One attempt: the device may have executed a command whose answer is an error.
Dispatch(p) ==
  /\ eval[p].at \in {"dispatch", "dispatch2"}
  /\ \E executed, ok \in BOOLEAN :
       /\ ok => executed
       /\ Note([what |-> "sent", p |-> p, by |-> ActionOf(p), to |-> Target(p),
                executed |-> executed, ok |-> ok])
       /\ IF ok
          THEN /\ holds' = [holds EXCEPT ![eval[p].ctx].target = Target(p)]
               /\ eval' = [eval EXCEPT ![p] = PastAction(p)]
          ELSE /\ eval' = [eval EXCEPT ![p].tries = @ + 1,
                                     ![p].at = IF ActionOf(p) = 1 THEN "pause" ELSE "pause2"]
               /\ UNCHANGED holds
  /\ UNCHANGED <<flow, tick, memory, later>>

\* 100 ms after every failure, the last one too.
Paused(p) ==
  /\ eval[p].at \in {"pause", "pause2"}
  /\ IF eval[p].tries < Retries
     THEN Move(p, IF eval[p].at = "pause" THEN "dispatch" ELSE "dispatch2")
     ELSE eval' = [eval EXCEPT ![p] = PastAction(p)]
  /\ UNCHANGED <<flow, tick, holds, memory, later, done>>

\* The context ends: the evaluation does, too.
CancelPause(p) ==
  /\ eval[p].at \in {"pause", "pause2"}
  /\ Move(p, "finish")
  /\ UNCHANGED <<flow, tick, holds, memory, later, done>>

-----------------------------------------------------------------------------
(* DelayAction, and SubChainAction; the inner action, or the child chain,    *)
(* drops its data.                                                           *)

\* A snapshot goes to the inner action of a delay: no context at all.
DelayInner(p) ==
  /\ eval[p].at = "delay"
  /\ later' = later \cup {[ctx |-> NoPoint, for |-> p]}
  /\ Move(p, "finish")
  /\ UNCHANGED <<flow, tick, holds, memory, done>>

DropPoint(c, for) ==
  /\ holds' = IF c = NoPoint THEN holds ELSE [holds EXCEPT ![c].dropped = TRUE]
  /\ done' = IF c = NoPoint THEN done
             ELSE Append(done, [what |-> "dropped", p |-> holds[c].point, by |-> for])

\* MappedDataContext passes every call on to the data it wraps.
SubChainSync(p) ==
  /\ eval[p].at = "sync"
  /\ DropPoint(eval[p].ctx, p)
  /\ Move(p, "finish")
  /\ UNCHANGED <<flow, tick, memory, later>>

SubChainAsync(p) ==
  /\ eval[p].at = "async"
  /\ later' = later \cup {[ctx |-> eval[p].ctx, for |-> p]}
  /\ Move(p, "finish")
  /\ UNCHANGED <<flow, tick, holds, memory, done>>

\* The timer, or the goroutine of the child chain.
RunLater(w) ==
  /\ w \in later
  /\ DropPoint(w.ctx, w.for)
  /\ later' = later \ {w}
  /\ UNCHANGED <<flow, tick, eval, memory>>

-----------------------------------------------------------------------------
FlowNext ==
  \/ flow = "market" /\ TimePasses
  \/ \E p \in Points :
       \/ BeginPoint(p) \/ FinishPoint(p) \/ Generate(p)
       \/ Look(p) \/ UseOrAsk(p) \/ MarketAnswer(p) \/ StorePrice(p)
       \/ Dispatch(p) \/ Paused(p) \/ CancelPause(p)
       \/ DelayInner(p) \/ SubChainSync(p) \/ SubChainAsync(p)
  \/ \E w \in later : RunLater(w)

FlowSpec == FlowInit /\ [][FlowNext]_flowVars

-----------------------------------------------------------------------------
(* Properties. *)

Happened(what) == {i \in DOMAIN done : done[i].what = what}

\* Messages are in order whatever the order of the timestamps, and Interval apart
\* unless the timestamps are in nanoseconds, which the action does not know of.
GeneratedApart ==
  \A i, j \in Happened("made") : i < j =>
    /\ done[i].ts < done[j].ts
    /\ flow # "mapgenerator" => done[j].ts - done[i].ts >= Interval

\* A price is served no longer than CacheTTL after it was stored, and the market
\* is asked within CacheTTL of a price that was stored only by an evaluation which
\* had looked at the cache before, however many stored theirs since.
PricesAreFresh ==
  /\ \A i \in Happened("hit") : done[i].at < done[i].stored + CacheTTL
  /\ \A i \in Happened("asked"), j \in Happened("stored") :
       j < i => \/ done[i].at >= done[j].at + CacheTTL
                \/ \E l \in Happened("looked") : l < j /\ done[l].p = done[i].p

\* An action sends a command at most Retries times, never again after an answer
\* that it was executed, and to the target that is its own or, where it is not,
\* to one the data came with or an earlier action of the chain succeeded with.
CommandsGoHome ==
  \A i \in Happened("sent") :
    LET same == {j \in Happened("sent") : done[j].p = done[i].p /\ done[j].by = done[i].by}
    IN  /\ Cardinality(same) <= Retries
        /\ \A j \in same : j < i => ~done[j].ok
        /\ done[i].to # Own[done[i].by] =>
             \/ \E j \in Happened("tagged") : done[j].p = done[i].p
             \/ \E j \in Happened("sent") :
                  /\ j < i /\ done[j].p = done[i].p /\ done[j].by < done[i].by
                  /\ done[j].ok /\ done[j].to = done[i].to

OutsideCallsKept == GeneratedApart /\ PricesAreFresh /\ CommandsGoHome

\* What an evaluation started drops its own point: only an asynchronous sub-chain
\* drops another one, or none, and only once the evaluation that started it is over
\* and its context free for others.
EffectsHitOwnPoint ==
  \A i \in Happened("dropped") :
    done[i].p # done[i].by => flow = "async" /\ eval[done[i].by].at = "over"

\* What an action does outside of its evaluation is done as often as it should be,
\* to what it should be, and to no other point (dispatch.go, market.go,
\* msg_generator.go, delay.go, sub_chain.go).
OutsideEffectsKept == OutsideCallsKept /\ EffectsHitOwnPoint

=============================================================================

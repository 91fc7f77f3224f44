# A verification project for ruleflow

ruleflow is a Go rule engine for telemetry: chains of rules are loaded, replaced and unloaded
while other goroutines evaluate data points against them.  This directory holds TLA+ models of
its core and of what surrounds it, the TLC configurations that check them, and proofs that TLAPS
checks.  Paths below are relative to `src/pkg/ruleflow/`.

    tlc -config EngineShutdown.cfg EngineShutdown              # and so on, see "Runs"
    tlapm EngineShutdownProofs.tla

## 1. Inventory

| Part | State | Operations | Talks to | What is hard |
|---|---|---|---|---|
| Evaluation (`core/engine/eval.go`) | locals of the call, `result`, the data | `EvalChain` | snapshot, limiter, conditions, actions, error handler, fallback, hook, metrics | four ways out, retry and fallback written out by hand, panics, cancellation |
| Shutdown (`core/engine/shutdown.go`, `health_shutdown.go`) | state word, `sync.Once`, wait group, `activeEval` | `begin`, `end`, `markShutdown`, `wait`, `Shutdown` | every evaluation | test and Add are two steps; misuse panics of the wait group; timeout against drain |
| Snapshot (`core/engine/load.go`, `types.go`, `options.go`) | atomic pointer to two immutable maps, `writeMu`, dependency graph, gauge | `LoadChain`, `UnloadChain`, lookup | compiler, graph, metrics, evaluations | lock-free readers, refused loads, references of unloaded chains, shared rule ids |
| Dependency graph (`core/compiler/dependency.go`) | nodes, edges, reverse edges | `AddNode`, `AddEdge`, `RemoveNode`, `DetectCycle`, `TopoSort` | snapshot writers | rollback, parallel references, two maps in step |
| Circuit breaker (`contrib/circuitbreaker`) | state, two counters, time of the last failure | `ShouldAccept`, `CurrentLevel`, `RecordSuccess`, `RecordFailure` | the service, and the engine, which reads the level | transitions in several atomic steps |
| Token buckets (`contrib/tokenbucket`) | bucket per key, last collection | `Allow`, `Wait`, collection of idle buckets | evaluation (limiter), other goroutines | a bucket collected while in use, waits |
| Multi-input buffer (`datacontext`) | contexts per device and chain, pool | `Add`, `Remove`, `Clear`, `Stop`, cleanup | callback goroutines | release while in use, release twice |
| Hot reload (`config/watcher.go`) | debounce timer, stop channel | `Start`, `Stop`, event loop | fsnotify, engine | reload after stop, reloads out of order |
| Configuration (`config/loader.go`, validators, `conflict.go`), compiler (`core/compiler`), router (`router`) | none, index of the router | validate, parse, compile, route | files, node registry | four sets of checks that must fit together |
| Stateful nodes (`builtin/condition/stateful`, parts of `ext` and of `extensions/condition`) | entries of the state store | `Evaluate`, `Execute` | state store | lost updates, stale starts of a wait, units of time |
| Other nodes (`builtin`, `ext`, `extensions`) | tags, quality, marks and value of the context | `Evaluate`, `Execute` | services outside | what one rule leaves for the next, and one evaluation for the next |
| Actions that outlive a call (`extensions/action`, `extensions/flow`, `builtin/action`) | price cache, last run, what was started | `Execute` | devices, market, sub-chains | retries of what was done, contexts used again |
| Debug (`debug/debug.go`, `contrib/debug`) | mode, deadline, window of the limiter, channel | `SetMode`, `Capture`, `WriteEvent` | evaluations | two atomics for one setting, self-switch-off, window reset |
| Result pool, batch (`core/engine/pool.go`) | `sync.Pool` | acquire, release, batch | evaluation | use after release, double release |
| Prewarm, adapters, metrics, tracing, logging, profiling | none of their own that a rule reads | | | forwarding |

What makes each part correct is stated in the modules as the properties of section 4.
`PROJECT.json` lists the hazards one by one with their lines, and the components with their status.

## 2. Modules

| Module | Models | State and actions |
|---|---|---|
| `EngineShutdown` | shutdown and the entry and exit of `EvalChain` | `state`, `once`, `wg`, `waiter` are `shutdown.stateVal`, `.once`, `.wg` and the goroutine of `wait`; one action per atomic step of `begin` (`BeginLoad`, `BeginAdd`), `end`, `markShutdown`, `wait`. The misuse panics of `sync.WaitGroup` are modelled from its documented behaviour, as external code |
| `DependencyGraph` | the graph; methods as operators on a graph (`WithNode`, `WithEdge`, `WithoutNode`) and as actions | adjacency lists are multiplicities per pair, because their order matters to no caller; the cycle search is given by what it decides |
| `DependencyGraphAlgorithms` | the same methods with their loops run step by step | `maps` is what the holder of the mutex has made of the maps, `graph` what the next caller will find; `color`, `path` (the calls of `dfs`) and `rest` are the search, `inDegree`, `order` (result and queue) and `list` the sort; a loop takes its items in any order. Implements `DependencyGraph` |
| `ChainRegistry` | abstract: what load, unload and evaluate promise | every call takes effect in one step, an evaluation keeps what it found |
| `Engine`, `MCEngine` | `LoadChain`, `UnloadChain` and the lookup | `heap` holds every snapshot ever published, `current` is the atomic pointer; `writeMu`, `depGraph` (an instance of `DependencyGraph`), `gauge`. One action per step that another goroutine, or a later step of a failing call, can tell apart |
| `EvalChain`, `MCEvalChain` | one call of `EvalChain` | one action per outcome of each stage: `Skip`, `NoMatch`, `ExecuteOk`, `ConsultErrorHandler`, `RetryOk`, ... `Finish`, `Recover`, `Exit` |
| `CircuitBreaker` | `ShouldAccept`, `RecordSuccess`, `RecordFailure` | one action per atomic load, add, compare-and-swap or store; `oks`, `fails` and `raced` are history |
| `TokenBucket` | `Allow`, `Wait`, `getOrCreate`, `maybeGC` | one action per critical section; buckets are objects with an identity, so that one can be collected while a caller holds it; `credit` (what one ideal bucket per key would hold) and `collected` are history |
| `Admission` | composes the two: a service that asks the breaker, or evaluations and waiters that ask the limiter | what the comments of `RecordSuccess` and `RecordFailure` ask of the service is `Serve`, `Fail` |
| `InputBuffer`, `MCInputBuffer` | buffer, contexts and pool | contexts are objects; `entries`, `pool` and `firing` say who holds which; everything under the mutex is one action, the callback has its own |
| `HotReload` | `FileWatcher` and `DirWatcher` | a reload is `Load` and `Apply`; the event loop (`Receive`, `Run`, `LoopEnds`), the timer (`Fire`), `Start`, `Stop`, `Cancel`; fsnotify's queue and watches are external. A file's content is a version number |
| `Timestamps` | the units of timestamps | a context gives milliseconds or, as `MapDataContext` does, nanoseconds; `UnixMilli` is what a node reads that takes them for milliseconds |
| `StatefulNodes` | the 15 kinds of nodes with state | a call is load, work, save, with two calls at a time; some nodes store values, others pointers they go on changing.  `ReadAs` is what each node takes a time for; the properties speak of the times as they are |
| `ChainDefinition` | validate, parse, compile, conflict check, compile validator, router | pure functions of a configuration; stages `Check`, `Parse`, `Compile`. A condition tree is a function from the positions of its nodes to what they are, a closure what it does with its children's answers, and evaluating either a recursive function on positions |
| `FlowNodes` | dispatch, market query, generator, delay, sub-chains | one run per kind of action; contexts are used again for later points.  The market query looks at its cache (`Look`), uses what it saw or asks (`UseOrAsk`), gets an answer and stores it in steps of their own |
| `DebugCapture` | `DebugManager`, `RateLimitSink`, `ChannelSink` | one action per atomic access |
| `PointNodes` | every other node, with its factory, on one data point, and `savePreviousValue` | a node is its kind and two parameters; a chain of two rules over two values (`MaxArrivals`) in one context, in one of five surroundings (`Worlds`); an evaluation may be refused, cut short or panic, and a rule be passed over (`PassOver`, `Leave`) |
| `Surroundings`, `MCSurroundings` | composes the last five | they share no state, so a behaviour follows one of them (`part`) |
| `EngineShutdownProofs`, `DependencyGraphProofs`, `EngineProofs`, `EvalChainProofs`, `AdmissionProofs`, `InputBufferProofs`, `ConfigurationProofs` (of `HotReload`, `ChainDefinition` and `DebugCapture`), `SurroundingsProofs` | theorems, section 5 | |

`Engine` uses the operators of `DependencyGraph`, which `DependencyGraphAlgorithms` implements, and implements `ChainRegistry` under the mapping
*loaded* = the chains of the current snapshot, *view* = the definition in the snapshot an
evaluation holds.  `EngineShutdown`, `Admission` and `EvalChain` cut the evaluation at its entry and
its exit: what the others leave open (what happens between `CountActive` and `Leave`, or once a
request is admitted) is `EvalChain`; what `EvalChain` leaves open (what a condition or an action does)
is in `PointNodes`, `StatefulNodes` and `FlowNodes`.

A definition whose comment begins with *Mutation* or *Faulty variant* is a plausible mistake in the definition that
follows it, which a property of the module rejects (`mutants` in `PROJECT.json`).

### Abstractions

- `EvalChain`: conditions, actions, handlers, the fallback and the hook may answer anything their
  interfaces allow, a panic included.  No action takes a drop mark back, and sinks, trackers and
  loggers do not panic.
- Read-only operations (`HealthCheck`, `GetChainIDs`, `GetDependencies`, `Get`, `Size`, `String`) are
  left out.
- `LockForLoad` joins `writeMu.Lock` and `AddNode`, `Unlock` joins `SetLoadedChains` and the deferred
  unlock: nobody without the mutex sees the difference, except a metrics reader, who sees the
  gauge late in either case.
- Times are ages that saturate where the code can no longer tell them apart (breaker, buckets,
  contexts), or small numbers (stateful nodes, flow nodes, debug).  Tokens are counted in units, so that a
  rate below one token per tick can be expressed.  A `time.After` shorter than a tick has passed at once.
- Numbers are small integers, not floats; `NaN` is a value of its own in `PointNodes`, because
  comparisons with it change what nodes do.
- `PointNodes` and `FlowNodes` leave out results that no node reads.  All tags with a configured name
  are one tag.

## 3. Runs

| Run | Instance | Checks |
|---|---|---|
| `EngineShutdown` | 3 evaluations, 2 callers of `Shutdown`, one with a deadline; 180 579 states | `CountersExact` `DrainMissesOnlyTheRace` `PanicNeedsTheRace` `ShutdownCompletes` |
| `EngineShutdownGracefulDrain` | 2 evaluations, 1 caller | refutes `GracefulDrain` |
| `DependencyGraph` | 3 chains, up to 3 parallel references; 75 085 states | `WellFormed` `CycleSearchIsExact` `RejectionChangesNothing` `MethodsAreAtomic` |
| `Engine` | 2 loaders, 1 evaluation, 2 chains in 6 definitions, 3 calls; 51 100 states | `BooksExact` `GraphCoversLoaded` `RefsLostOnlyByUnload` `ImplementsRegistry` `CallsReturn` |
| `EngineCycleLoaded` | 1 loader, 3 calls | refutes `LoadedRefsAcyclic` |
| `EvalChain` | 3 rules, every level, mode and strategy; 31 222 states | `EachRuleOnceInOrder` `AccountsExact` `ReportedDropIsReal` `FirstHasOneEffect` `AbortIsFinal` `Terminates` |
| `EvalChainFlow` | the same | refutes `FlowAsDocumented` |
| `Admission` | 2 services at the breaker, or 2 evaluations and a waiter at the limiter with 2 keys; 610 497 states | `NotStuckHalfOpen` `TransitionsEarned` `Recovers` `BucketsExact` `WaiterServed` |
| `InputBuffer` | 2 devices, a chain of two inputs and one of one, 2 contexts; 83 676 states | `ContextsExact` `FiredUntouched` `CompleteLeaves` `StaleIsCleaned` |
| `HotReload` | a file watcher with 2 overlapping reloads, or a directory watcher with 2 files; 3 versions, one unreadable; a queue of one event; 147 598 states | `ReloadsExact` `NothingBeginsAfterEnd` `ChangesArrive` `StopEndsTheLoop` |
| `Surroundings` | each of the five parts, two calls of each at a time, two evaluations of a data point and one mishap; 2 585 062 states up to symmetry | `FiresAreEarned` `StoredStateIsExact` `LoadedAsConfigured` `OutsideEffectsKept` `ModeIsAsked` `CapturesAddUp` `ChangesAreOfData` `PointsAreExact` |
| `NodesHeldThroughout` | 1 evaluation, 5 calls | refutes `HeldThroughout` |

The type invariant of a module is the first conjunct of the invariant named *...Exact* or
*WellFormed* (`CountersExact`, `BooksExact`, `AccountsExact`, `BucketsExact`, `ContextsExact`, `ReloadsExact`).

**Why the bounds are enough.**

- `EngineShutdown`: the races need one evaluation that joins late, one that brings the counter to zero
  and one that left early: three.
- `DependencyGraph`: a cycle that the search could miss has a node off the path from its start; three
  nodes hold it, and three parallel references tell "one", "all" and "one less" apart (`MaxParallel`).
- `Engine`: the interesting histories are load-unload-load by one loader and two calls that overlap,
  which three calls hold (`MaxCalls`); the definitions include a reference to the other chain, one to the
  chain itself after a good one, a rule id in both chains, a new version without a rule of the old one
  and a definition that does not compile.
- `EvalChain`: three rules put one rule before and one after the rule that fails, on both sides of each
  priority limit.
- `Admission`: overtaking takes two callers; two failures and two successes are the least at which
  "first" and "last" differ.  Two evaluations race for a key, the waiter has another.  There is always
  an unused bucket object (`BucketAssumption`), so `Ids` bounds nothing.  A bucket may be collected one tick before it is
  full again, so that a collection does give a token away.  Breaker and limiter share no state, so a behaviour follows one of them (`front`).
- `InputBuffer`: with two contexts one is held by a callback while another is filled, released and taken
  again; a third object adds states but no new sharing (the invariant is proved for any number).
- `HotReload`: two reloads can overtake each other; the second of three versions cannot be read, so that
  a failed reload stands between two good ones.  `MaxVersion` bounds the writes, `Reloaders` the reloads at a time.
- `Surroundings`: `MaxTime`, `LastTick`, `LastSecond`, `MaxEvents`, `MaxModes` and `MaxArrivals`
  bound the calls.  The durations and windows are half of what the calls of a node may take, so that a wait can begin, end and begin again;
  periodic has one call more (`LastCall`), the fifth being the first that is a period late in the milliseconds it misreads.
  `MaxDepth` and the other limits of a configuration are 2 instead of 32, and `SmallConfigs` has configurations on both sides of them
  (`LoadedAsConfigured` is proved for any configuration).  `Skew` is two ticks to the tick instead of a million nanoseconds to the
  millisecond, enough to put a wait of two ticks on the wrong side.  A data point is evaluated twice, since what the first evaluation left must be seen by the
  second, in another day for a meter, and one mishap (`MaxMishaps`) makes one of the two leave something undone (more of both is proved).
  `PointNodes` takes each parameter absent, of the wrong type, negative, zero and positive,
  and combines each node with the nodes that share state with it.  The evaluations are interchangeable, and the
  contexts of `FlowNodes` (`Interchangeable`: no definition tells one from another, objects are named for the
  evaluation that made them, and the run has no liveness property), which TLC uses as a symmetry.  A node that only asks
  whether the value is beyond a limit gets two values, the others three (`Levels`).

**Fairness.**  An evaluation that has begun goes on, since what the application registers returns; the
waiter goroutine and a `Shutdown` call that has begun are scheduled.  Nothing makes an evaluation or a
`Shutdown` call begin or a context end.  In `Engine` the mutex is granted to a waiter infinitely often
offered it (`sync.Mutex` hands over in order of arrival when a waiter starves), hence strong fairness of
`LockForLoad`, weak fairness of the steps inside.  In `Admission` goroutines run, time passes and requests keep
coming; no rule need fail, nothing need heal and no waiter need give up.  In `InputBuffer` time passes, the
cleanup loop is scheduled and callbacks return; nobody need add or stop.  In `HotReload` goroutines that can run do;
nobody need write, start or stop.

**Deadlock** is checked where the system goes on for ever: the runs of `DependencyGraph` and `Engine`.  In the
others every call returns or a bound is reached, and the system then rests.

## 4. What the runs show

*Shutdown.*  `begin` tests the state and joins the wait group in two steps.  An evaluation between the two
when `Shutdown` marks the state joins a wait group that is perhaps already waited for: `Shutdown` then
returns nil while it runs (`GracefulDrain` is violated), or `sync.WaitGroup` panics, in the evaluation or,
unrecovered, in the goroutine of `wait`.  `DrainMissesOnlyTheRace` and `PanicNeedsTheRace` say that this race
is the only cause of either.  `activeEval` is decremented by a deferred call registered before the early
returns and incremented after them: `CountersExact` says that it is low by exactly the number of early
returns (it goes below zero).  A second caller of `Shutdown` gets nil at once and knows nothing about the drain.

*Dependency graph.*  The comment on `AddEdge`, "returns an error and does not change the graph", holds although
nodes are not rolled back: `RejectionChangesNothing`; it needs that no edge dangles.  The search from the source of the
new edge alone finds every cycle the edge closes, whatever the order of the lists (`CycleSearchIsExact`, `MethodsAreAtomic`).  As no
sequence of calls builds a cyclic graph, `DetectCycle` never finds anything and `TopoSort` never fails; that it fails on a cycle is
shown by a test that writes one into the maps (`dependency_test.go:133`), and by no run.

*Snapshot.*  `ImplementsRegistry` is the promise of the copy-on-write design.  The graph is not part of the
snapshot, and differs from it in two ways.  `RemoveNode` forgets the references of other chains to the
unloaded one, so two chains that refer to each other can be loaded (`LoadedRefsAcyclic` is violated;
`RefsLostOnlyByUnload` says that nothing else loses references).  And a refused or replaced load leaves the
edges it added, so a later load can be refused for a cycle through references that no loaded chain has.
`unloadChain` removes the rules of a chain from the index by id, so a rule id used by two chains goes with
the first of them: `BooksExact` has that exception.

*Evaluation.*  A drop is not reported in mode First, nor when it came from a retry or a fallback
(`DropIsReported`; `ReportedDropIsReal` is the other direction and holds).  In mode First the loop goes on past
rules that matched and failed, although the comment on the mode says that it ends after the first match
(`FirstEndsAtMatch`; `FirstHasOneEffect` says what holds).  `FlowAsDocumented` asks a call to keep one of the two at least, and is
violated by a call that keeps neither.  The strategy Abort counts only when the
handler answers Continue.  At level Dropping a call is counted twice, as `AccountsExact` allows for.

*Breaker.*  Every store after a load is unconditional, so a caller that was overtaken can open or half-open the
breaker for a reason that is gone; `TransitionsEarned` says that only such a caller can.  The count of
successes that refuses probes is reset in a step of its own: `NotStuckHalfOpen` says that whoever is due to
reset it or to close the breaker is on its way, and `Recovers` that the breaker closes in the end.  Half-open, it admits any
number of probes until enough have succeeded.  Only `ShouldAccept` leaves the open state: an engine that is
asked for its level alone, with no service calling `ShouldAccept`, stays at Dropping.

*Token buckets.*  A bucket may be collected between lookup and take; the caller's token then comes from an orphan.
`BucketsExact` says that this, and nothing else, makes two buckets of a key, and that a collection gives away no more than
what a bucket of that age may lack: nothing where a bucket is full again before it has been idle for long enough, which no line of the
code demands of rate, burst and idle time.  A waiter whose bucket is collected while it sleeps is served from the orphan
(`WaiterServed`); that others of its key do not take each token before it is nowhere promised.  `NewTokenBucket` with a rate below one and no
burst never holds a whole token, which `BucketAssumption` excludes.

*Buffer.*  Contexts have one holder at a time, and a callback sees its inputs whole and unchanged
(`ContextsExact`, `FiredUntouched`), for the ways the buffer itself releases them.  `Stop` does not end the cleanup
goroutine, and the size limit of the buffer is never enforced, so staleness is the only way out (`StaleIsCleaned`).

*Hot reload.*  Two reloads of a file overlap when the timer fires again before the first is done, and the older
version may be applied last; `ReloadsExact` says that only this leaves an older version.  `Stop` before `Start`
uses up `stopOnce`, and the watcher cannot be stopped any more but by its context (`StopEndsTheLoop` excepts it).
A file replaced by a rename loses its watch, and a deletion unloads nothing: such changes are not
reported to the watcher (`missed`) and are not its fault in `ChangesArrive`.

*Nodes with state.*  A node with a duration keeps the start of its wait over calls that do not meet it, where
the documentation says "continuously" (`HeldThroughout` is violated for threshold_detect, reverse_power and
limit_recovery; `FiresAreEarned` says what holds instead).  Two calls of limit_recovery that both find no object make one
each, and both objects may stay in use from then on, one noting what the other forgets: `FiresAreEarned` has that exception
(`OneObject`).  Overlapping calls lose samples of each other; the sample of a call that ran alone is never lost
(`StoredStateIsExact`).

*Units of time.*  `MapDataContext` gives nanoseconds, other contexts milliseconds, and each node has its own idea of
what it gets.  duration, threshold_detect and the other `UnitFree` ones judge the unit right, take the time of their own clock, or compare only; reverse_power,
ramp_rate_limit, limit_recovery, frequency_wobble, freeze and demand take milliseconds for granted; trend and periodic take milliseconds for nanoseconds and
nanoseconds for milliseconds.  So the code does not keep what it says of these times: with nanoseconds reverse_power fires at once instead of after
"required duration, in seconds" (`extensions/condition/grid.go:297`, read at 339); with milliseconds the window of trend keeps a million times too
much, which is no "length of the sliding window" (`builtin/condition/stateful/trend.go:21`, read at 52-55); and with nanoseconds every call of periodic
is a period of its own, where it should judge "N consecutive periods" (`periodic.go:17`, read at 42-45).  `FiresAreEarned` and
`StoredStateIsExact` speak of time as it is, in ticks, and promise a wait, a window or a period only in the unit in which the node keeps it; each exception is written out
in the property (`unit = "ms" =>`, and trend in milliseconds).

*Configuration.*  What the validator admits loads, unless a factory or the limit of action chains refuses it; the
compiled condition agrees with the tree but for a `not` without a condition, which is true in the tree and false when compiled.
`CompileValidator` would ask `point_name` of some actions besides; of those that a factory makes from a configuration only
transform loads without one, and `ValidLoads` says that it is the only one.  `docs/configuration.md` describes defaults that no code sets: a rule
without `enabled` is disabled (line 57), the weight and the priority that are left out are 0 (lines 55 and 56); and its examples have a status
(line 21, "disabled") and a data type (line 35, "float64") that the validator refuses.  `CompileValidator`, `DetectConflicts` and `DataRouter` are called by no code of the
repository but tests.

*Actions with effects outside.*  A retry of a dispatch may repeat a command that was executed.  After a success the
target tag redirects a second dispatch of the same data to the first one's target: `CommandsGoHome` has both exceptions.
Evaluations that looked at the price cache before the first of them stored a price ask the market each; `PricesAreFresh` says
that no later one does.  Messages of the generator are in order, but nearer to each other than their interval where the timestamps are nanoseconds.
An asynchronous sub-chain works on a context that another point may have by then (`EffectsHitOwnPoint` excepts it);
delayed actions work on a snapshot and do not.

*Debug.*  `SetMode` and an expiring `Capture` can cross, and then the mode just set is switched off; `ModeIsAsked` says
that nothing else changes it.  Around a change of second the limiter may lose or add events; a second whose events
did not meet in it is counted exactly (`CapturesAddUp`).

*Data points.*  The previous value is saved after the actions, so conditions on changes compare with what an action made
of it; `ChangesAreOfData` says with what exactly, where no action writes the value and where the first rule calculates one, whatever ended
the evaluations before.  The limit mark and the alarm time of alarm_notify_ext stay for later evaluations
(`PointsAreExact`), and so does the tag `calc_result`, which storage_write prefers to the value: what it stores under the time of this evaluation may
have been calculated of the value of an earlier one, where its comment says "writes the processed data" (`ext/action_storage_write.go:32`, against 74); `StoredIsAccountedFor` says of which one.  With a
state store, conditions over several points never hold, since the wrapper hides the interface they ask for.

*Meters.*  delta_accumulator is to be "reset by the period" (`extensions/action/efficiency.go:85`).  By the month it never begins anew: the case
"monthly" (line 95) asks for a date that only the resets themselves store.  By the day it begins anew far too often where the timestamps are nanoseconds, which line 75 reads as
milliseconds.  `MeterAddsUp`, a part of `PointsAreExact`, promises the sum of the day in milliseconds and the sum of all rises where no period is
configured, and nothing of these two cases.  With a source point a meter never adds anything.

## 5. What is proved

For every value of the constants, by TLAPS:

- `EngineShutdownProofs`: `CountersExact` and its parts, `DrainMissesOnlyTheRace`, `PanicNeedsTheRace`.  `CountInv`
  (types and the exact count) is inductive by itself.  The two race properties need `RaceInv`: while nobody raced,
  the waiter's progress (blocked, woken, done) determines that the wait group is settled, and evaluations that joined
  before the mark are still on it.  Assumption: the set of evaluations is finite.
- `DependencyGraphProofs`: `WellFormed`, `RejectionChangesNothing` and their parts, `CycleSearchIsExact` and `MethodsAreAtomic`.  With
  methods as single steps, the conjunction of the parts is inductive: that a search from one node suffices needs the rest of the graph to be acyclic, that a rejection adds
  no node needs that no edge dangles, and that needs the two maps to agree.  What a method does to a sound graph is a
  lemma of its own, which `EngineProofs` uses.  The search: the grey nodes are a path from the start, what a loop has come to
  is black or next on the path, nothing leads out of the black nodes and no cycle is among them (`SearchInv`); so a search that
  ends without a cycle has all that can be reached black.  The sort: a degree is the number of edges not yet taken out (`Left`),
  the order holds the nodes with degree zero, and each has its predecessors before it (`SortInv`); nodes left over at the end
  would each have a predecessor left over, which makes a cycle.  `AlgoInv` puts them together with what AddEdge has done
  to the maps, and every step is then a method of `DependencyGraph` or a stutter.  Assumption: the set of chains is finite.
- `EngineProofs`: `BooksExact`, `GraphCoversLoaded`, `RefsLostOnlyByUnload`, and that `Engine` implements
  `ChainRegistry`.  The invariant says of each loader that holds `writeMu` what it may rely on (`LoaderOK`: its draft is
  the current snapshot with its call applied, and the references it went through are in the graph), of the graph
  that it is sound and holds the references of loaded chains that nobody unloaded (`Shared`), and of the gauge when it may
  be behind (`Gauged`).  The refinement maps the store of the pointer to the abstract step of the call, every
  refusal to the abstract refusal, and every other step to a stutter.  Assumptions: finitely many chains, a
  definition is a record of an id, references, rules and whether it compiles, the number of calls is a
  natural number, and "free" is not the name of a loader.
- `EvalChainProofs`: the type of a call and its safety properties, for every chain (a finite
  sequence of rules; that it is sorted is not used), every level, mode and strategy.  None of the
  properties is inductive: they speak of returned calls.  `Inv` adds what holds on the way: how often the
  current and the later rules were executed (`Counts`), where the three lists end relative to the current
  rule (`Order`), that every rule but the one at its actions is settled (`Accounts`) and what each ending
  implies for the last match (`Outcome`).  The four steps by which a rule takes effect (`Effective`) share
  one argument.
- `AdmissionProofs`: `NotStuckHalfOpen`, `TransitionsEarned`, `BucketsExact`.  Breaker: a caller that was not
  overtaken finds the state it loaded (`Undisturbed`), and outside of the windows before a reset the code's counts are
  covered by the history (`SuccessesCovered`, `FailuresCovered`).  Limiter: no two keys share a bucket (`OneKey`), a caller
  holds one from its lookup to its return (`HeldInCall`), and a key without a bucket would have a full one
  (`FullWhenAbsent`) once the gift of its collection is counted, since a bucket idle for that long lacks no more; a tick gives a bucket at most what it gives
  its key's credit (`RefillAfterTick`).  Assumptions: the thresholds are positive; `BucketAssumption` and `AdmissionAssumption`.
- `InputBufferProofs`: `ContextsExact`, `FiredUntouched`, `CompleteLeaves`.  The invariant adds what a pooled object must look
  like for its next use, and that what a slot holds was made for it.
- `ConfigurationProofs`, about `HotReload`, and about `DefinitionSpec` and `DebugSpec`, of which `Surroundings` takes its steps.
  - Hot reload: `ReloadsExact`, `NothingBeginsAfterEnd`.  `Pending` says where a change is that has not been loaded
    yet: still to do at the start, in the queue, in the timer, or in a reload that has read it or will.  `Ordered` and
    `Overtaken` keep track of which version is newer than which.
  - Debug: `ModeIsAsked`, `CapturesAddUp`.  `Uncrossed` says that, as long as nothing crossed, an event about to look at the
    deadline read the mode that SetMode set last; `AloneInLimiter`, `Between` and `FindsCount` say that an event of
    a second in which none met is alone in the limiter and finds the count the ones before it left.
  - What a configuration becomes: `LoadedAsConfigured`.  `DefinitionInv` says what each stage has made of the configuration; the
    rest is about the functions the stages are made of.  What passes the validator's walk is, as materialized, not too deep for the compiler and
    has an operator at every inner node (`MaterializedIsMade`).  A tree and its closures are evaluated by recursion over the same
    positions; both recursions are defined, since the height of a position falls from a node to its children
    (`WalkIsDefined`), and they agree at a node if they agree at its children, so that a least place where they differ can only be a `not` of
    nothing (`CompilingKeepsTheMeaning`).  Rules with ids of their own are strictly ordered (`BeforeIsOrder`), so the place of a
    rule in the stable sort is the number of those before it, which is the same for any listing (`SortForgets`).

    Assumptions: what a file holds is a finite list of rules, each with a finite list of actions and a condition tree whose children are there
    (`ConfigAssumption`), the ids are distinct strings in the order of strings, and the validator's limit of depth is not above the
    compiler's (`DefinitionAssumption`; both are 32 in the code).  The number of rules, inputs and actions, the shape of the trees and
    the limits are any.
- `SurroundingsProofs`, about the specifications of the parts (`FlowSpec`, `PointSpec`, `NodesSpec`) of which
  `Surroundings` takes its steps, and about `Surroundings` itself.
  - Flow: `OutsideEffectsKept`.  Every evaluation under way has a context of its own (`OwnContext`); while a dispatch retries it
    has sent one command for each of its tries, none with success (`Trying`); what the memories of
    generator and market say is not older than any message or price noted, nor what an evaluation has seen of the cache than the prices stored before it looked (`PriceInv`).
  - Points: `ChangesAreOfData`, `PointsAreExact`.  What one action may change is bounded (`Bounded`), which reduces a step to an
    evaluation or an arrival; each property then has an invariant of its own, for the previous value (`ChangesInv`), the mark of the
    limits (`LimitsInv`), the stored value (`StoredInv`), the date of the alarm and the sum of the meter (`MeterInv`); `PointInv` is their conjunction.
  - Nodes that fire: `FiresAreEarned`.  To the history a step is a call that begins, goes on or ends, and which call came after
    which is settled once the later one is there, so what was earned stays earned.  What is left is in what a call has read: the
    time stored is that of a call the node waits for, and no call that had returned has ended the wait since (`WaitInv`); the
    call stored is the last that fired (`PauseInv`); the same of an object (`RecoveryInv`); an object has counted no more
    than the calls that changed one (`PeriodicInv`).
  - Nodes that store: `StoredStateIsExact`.  The loop that drops old samples returns some of them in their order, with all that
    are within the window (`Thinned`).  A call that has run alone up to where it stored its sample keeps it from then on,
    in the store and in whatever a call under way has read (`KeptInv`); while no calls have overlapped, the samples are in order and
    none is too old (`OrderInv`), the peak (`PeakInv`) and the excursions (`TrackInv`) are those of the calls so far.

  - The whole: each behaviour of `Surroundings` is one of each of its parts, the data point and the definition where the initial
    state chose them (`PartsAreTheirOwn`), so the five properties above hold of `Surroundings` (`SurroundingsCorrect`;
    while another part moves the data point rests as it was at the start, `RestIsExact`).  Those of the debug manager and of the definition follow in the
    same way from `ModeCorrect`, `CapturesCorrect` and `LoadedCorrect`.

  Assumptions: finitely many evaluations; what stands for an absent, ill-typed or undefined number is no number
  (`PointAssumption`); `None` is no evaluation, no time and nothing that a node stores (`NodesAssumption`).

Only model-checked: the liveness properties (`ShutdownCompletes`, `CallsReturn`, `Terminates`, `Recovers`,
`WaiterServed`, `StaleIsCleaned`, `ChangesArrive`, `StopEndsTheLoop`; fairness and `ENABLED` are out of the prover's reach).  Every
other property of a passing run is a theorem.

## 6. Not modelled

- *Result pool and batch evaluation* (`core/engine/pool.go`).  Whether a result is released once and not used afterwards is up
  to the caller, and the repository has none outside of tests and examples: a model would be one of the caller.  A batch is a loop over `EvalChain`;
  it drops the errors of single evaluations (lines 64 and 88).
- *The evaluation timeout* is part of `EvalChain` (`Cancel`), but no property covers that the result says nothing of the rules left out:
  no line of the repository says what it should say.
- *Prewarm* calls optional functions of nodes, of which none has one, and keeps no state.
- *Adapters, metrics, tracing, logging, profiling*: one-to-one forwarding to interfaces and libraries, without interleavings of their
  own.  The metrics the engine sends are in `EvalChain` and `Engine`.
- *Error values, interfaces, no-op implementations, meta data of nodes*: no behaviour.  What an error handler decides from its configuration is
  any of its four answers in `EvalChain`.
- *Reading YAML and JSON, formatting, and the wording of errors*.  Floating-point rounding: numbers are small integers.
- *`SetSink` and `Close` of the debug sinks while events are written*: unsynchronised writes of the application's own making.

What would come next: the composition of `HotReload` with `Engine` (a reload is one `LoadChain` there, so it adds calls, not
steps), and larger instances of `Admission`, with rates below one token per tick, `InputBuffer` and the data point with three evaluations.

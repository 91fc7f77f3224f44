----------------------------- MODULE PointNodes -----------------------------
(***************************************************************************)
(* The nodes that look at one data point, from the factory that makes them *)
(* of a configuration to what they do: the nodes of builtin, ext and       *)
(* extensions that keep nothing between calls (and delta_accumulator,      *)
(* which does), and the context that carries the point.                    *)
(*                                                                         *)
(* A chain of two rules is evaluated in the same context for one value     *)
(* after the other: tags, quality, limit mark, drop mark and the value     *)
(* that an evaluation leaves stay for the next one, and an evaluation may  *)
(* end, or pass over a rule, for reasons of its own.  Of a configuration   *)
(* there are two entries, each absent, of the wrong type, or given; what   *)
(* is no number in the code (a text, a list, an operator, a formula) is a  *)
(* number that names it, as its comment says.  All the tags whose name is  *)
(* configured are one tag here, `free`; results that no node reads and     *)
(* calls that change nothing here (a notification, a command) are left     *)
(* out, that they may fail is not.                                         *)
(***************************************************************************)
EXTENDS Integers, FiniteSets, Timestamps

CONSTANTS
  Missing, Wrong,  \* of an entry: not there, or not of the type asked for
  NaN,            \* the float that is not a number
  MaxArrivals,    \* bounds the evaluations
  MaxMishaps      \* bounds the rules passed over and the evaluations not saved

ASSUME PointAssumption ==
  /\ MaxArrivals \in Nat /\ MaxMishaps \in Nat
  /\ Missing # Wrong /\ Missing # NaN /\ Wrong # NaN
  /\ {Missing, Wrong, NaN} \cap (Int \cup BOOLEAN) = {}

VARIABLES
  world,    \* what surrounds the chain, see Worlds
  ruleOf,   \* the two rules: a condition and an action each
  data,     \* the context
  matched,  \* what the conditions said in this evaluation; Missing: not asked
  turn,     \* the rule whose turn it is; 0: no evaluation is under way
  now,      \* the number of the evaluation, which is the time of its value
  mishaps,  \* what has happened of what MaxMishaps bounds
  stores,   \* the meter of delta_accumulator, what was stored last
  arrivals, \* history: the value that came with each evaluation
  acted,    \* history: the evaluations whose first rule matched and acted
  saves     \* history: the evaluations that saved their value at the end

pointVars == <<world, ruleOf, data, matched, turn, now, mishaps, stores, arrivals, acted, saves>>

\* "config": nodes made of configuration have no services, MapDataContext has no
\* limits and gives nanoseconds; "point": a DataContextAdapter; "multi": a context
\* of many points, of which the repository has none; "store" and "mapstore": an
\* engine with a state store, whose caller brings an adapter or a MapDataContext.
Worlds == {"config", "point", "multi", "store", "mapstore"}
Served == world # "config"
HasLimits == world \notin {"config", "mapstore"}
Unit == IF world \in {"config", "mapstore"} THEN "ns" ELSE "ms"

\* WrapWithStateStore hides that a context has many points.
HasPoints == world = "multi"
HasStore == world \in {"store", "mapstore"}

-----------------------------------------------------------------------------
(* Floats: NaN is neither less than, nor equal to, nor above anything. *)

IsLess(x, y) == x # NaN /\ y # NaN /\ x < y
IsEqual(x, y) == x # NaN /\ y # NaN /\ x = y
AtMost(x, y) == IsLess(x, y) \/ IsEqual(x, y)
Sum(x, y) == IF NaN \in {x, y} THEN NaN ELSE x + y
Product(x, y) == IF NaN \in {x, y} THEN NaN ELSE x * y
Magnitude(x) == IF IsLess(x, 0) THEN -x ELSE x

\* The lowest bit of uint64(x), which no one defines for NaN and below zero.
LowBit(x) == IF x = NaN \/ IsLess(x, 0) THEN {0, 1} ELSE {x % 2}

\* The operators 1: greater, 0: equal, -1: less; others are unknown.
Compares(op, x, y) == (op = 1 /\ IsLess(y, x)) \/ (op = 0 /\ IsEqual(x, y))
                      \/ (op = -1 /\ IsLess(x, y))

-----------------------------------------------------------------------------
(* Factories, from the entries a and b to the node's parameters. *)

Given(x) == x \notin {Missing, Wrong}
ToFloat64(x, default) == IF Given(x) THEN x ELSE default
Text(x) == IF Given(x) THEN x ELSE Missing
Refused == [a |-> Wrong, b |-> Wrong]
Node(a, b) == [a |-> a, b |-> b]
Bare == Node(Missing, Missing)
RefusedIf(bad, node) == IF bad THEN Refused ELSE node

\* A list of names, or a pattern; the pattern -1 is none.
newDeviceIDCondition(c) == RefusedIf(~Given(c.a), Node(c.a, Missing))
newPointNameCondition(c) == RefusedIf(~Given(c.a), Node(c.a, Missing))
newPointNamePatternCondition(c) ==
  RefusedIf(~Given(c.a) \/ c.a = -1, Node(c.a, Missing))
newFQNCondition(c) == RefusedIf(~Given(c.a), Node(c.a, Missing))
newValueRangeCondition(c) == Node(ToFloat64(c.a, Missing), ToFloat64(c.b, Missing))
newValueInCondition(c) == RefusedIf(~Given(c.a) /\ ~Given(c.b), c)
newQualityCondition(c) == Node(ToFloat64(c.a, 0), Missing)
newTimeWindowCondition(c) == RefusedIf(~Given(c.a) \/ ~Given(c.b), c)
newBitMaskCondition(c) == Node(ToFloat64(c.a, 0), ToFloat64(c.b, 0))
\* The direction 1 is up, -1 down, Missing both, 0 unknown.  A threshold below zero
\* is accepted.
newDeltaThresholdCondition(c) ==
  RefusedIf(ToFloat64(c.a, 0) = 0, Node(c.a, Text(c.b)))
newRateLimitCondition(c) == RefusedIf(ToFloat64(c.a, 0) = 0, Node(c.a, Text(c.b)))
newStateChangeCondition(c) == Node(ToFloat64(c.a, Missing), ToFloat64(c.b, Missing))
\* An operator and a source: -1 is none of a tag.
newDynamicThresholdCondition(c) == RefusedIf(~Given(c.b), Node(ToFloat64(c.a, 1), c.b))
\* An expression (1: value > 0, 0: does not compile, -1: fails when run), a logic
\* (0: and, 1: or) with a threshold, an operator with a time, an operator with a
\* threshold.
newExtCondition(type, c) ==
  CASE type = "expr_filter" -> RefusedIf(~Given(c.a), Node(c.a, Missing))
    [] type = "composite_detect" ->
         RefusedIf(c.b = Missing, Node(ToFloat64(c.a, 0), ToFloat64(c.b, 0)))
    [] type = "historical_compare" -> RefusedIf(~Given(c.b), Node(c.a, Missing))
    [] type = "threshold_detect" -> RefusedIf(~Given(c.a), Node(c.a, ToFloat64(c.b, 0)))
newSOCMonitorCondition(c) == Node(ToFloat64(c.a, 0), ToFloat64(c.b, 0))
newPowerFactorCheckCondition(c) == Node(ToFloat64(c.a, 0), ToFloat64(c.b, 0))
\* A season (1: one of the two there are) and a period (1: peak).
newToUPriceCondition(c) == Node(Text(c.a), Text(c.b))
newDemandResponseCheckCondition(c) == Node(ToFloat64(c.a, 0), ToFloat64(c.b, 10))
newSOHEstimatorCondition(c) == Node(ToFloat64(c.a, 80), ToFloat64(c.b, 0))

newTransformAction(c) == Node(ToFloat64(c.a, Missing), ToFloat64(c.b, Missing))
newRenameAction(c) == RefusedIf(~Given(c.a), Node(c.a, Missing))
\* A tag that is no text is empty; a list of targets that is none is empty.
newTagAction(c) == Node(Text(c.a), Missing)
newRouteAction(c) == Node(Text(c.a), Missing)
newQualityMarkAction(c) == Node(ToFloat64(c.a, 0), ToFloat64(c.b, 1))
newBitUnpackAction(c) == RefusedIf(~Given(c.a), Node(c.a, Missing))
\* The output: Missing is the value, a text names a tag.
newBitPackAction(c) == RefusedIf(~Given(c.a), Node(c.a, Text(c.b)))
\* A factor, and a scope or fuel: 1 has a factor of its own.
newCarbonCalcAction(c) == Node(ToFloat64(c.a, 0), Text(c.b))
\* A source point, and a period: Missing is daily, 1 monthly, others unknown.
newDeltaAccumulatorAction(c) == Node(Text(c.a), Text(c.b))
\* The key's source (1 is the device, others a tag), and the last route.
newPlantSplitAction(c) == Node(Text(c.a), Text(c.b))
\* A place, and an address to ask.
newWeatherQueryAction(c) == Node(ToFloat64(c.a, Missing), Text(c.b))
\* A type, quality, formula, target, input, expression or strategy is required.
newExtAction(type, c) ==
  RefusedIf(/\ type \notin {"alarm_emit", "emit_soe", "aggregation_write",
                            "multi_device_control", "status_change_log"}
            /\ ~Given(c.a), Node(Text(c.a), Missing))

Domain == {"soc_monitor", "power_factor_check", "power_factor_point", "time_of_use_price",
           "demand_response_check", "soh_estimator"}
OfExt == {"expr_filter", "composite_detect", "historical_compare", "threshold_detect"}
ConditionKinds == Domain \cup OfExt \cup
  {"device_id", "point_name", "point_name_pattern", "fqn_prefix", "value_range", "value_in",
   "quality", "limit_exceeded", "time_window", "bit_mask", "delta_threshold", "rate_limit",
   "state_change", "dynamic_threshold"}

CreatedCondition(type, c) ==
  CASE type = "device_id" -> newDeviceIDCondition(c)
    [] type = "point_name" -> newPointNameCondition(c)
    [] type = "point_name_pattern" -> newPointNamePatternCondition(c)
    [] type = "fqn_prefix" -> newFQNCondition(c)
    [] type = "value_range" -> newValueRangeCondition(c)
    [] type = "value_in" -> newValueInCondition(c)
    [] type = "quality" -> newQualityCondition(c)
    [] type = "limit_exceeded" -> Bare
    [] type = "time_window" -> newTimeWindowCondition(c)
    [] type = "bit_mask" -> newBitMaskCondition(c)
    [] type = "delta_threshold" -> newDeltaThresholdCondition(c)
    [] type = "rate_limit" -> newRateLimitCondition(c)
    [] type = "state_change" -> newStateChangeCondition(c)
    [] type = "dynamic_threshold" -> newDynamicThresholdCondition(c)
    [] type \in OfExt -> newExtCondition(type, c)
    [] type = "soc_monitor" -> newSOCMonitorCondition(c)
    [] type \in {"power_factor_check", "power_factor_point"} ->
         newPowerFactorCheckCondition(c)
    [] type = "time_of_use_price" -> newToUPriceCondition(c)
    [] type = "demand_response_check" -> newDemandResponseCheckCondition(c)
    [] type = "soh_estimator" -> newSOHEstimatorCondition(c)

BuiltinActions == {"transform", "rename", "tag", "drop", "route", "limit_check",
                   "quality_mark", "bit_unpack", "bit_pack"}
ExtActions == {"calc_node", "storage_write", "aggregation_write", "quality_mark_ext",
               "alarm_emit", "alarm_notify_ext", "expr_switch", "device_aggregator",
               "multi_device_control", "strategy_execute", "emit_soe", "status_change_log"}
DomainActions == {"aggregator", "carbon_calc", "efficiency_calc", "plant_split",
                  "delta_accumulator", "weather_query"}

CreatedAction(type, c) ==
  CASE type = "transform" -> newTransformAction(c)
    [] type = "rename" -> newRenameAction(c)
    [] type = "tag" -> newTagAction(c)
    [] type = "route" -> newRouteAction(c)
    [] type = "quality_mark" -> newQualityMarkAction(c)
    [] type = "bit_unpack" -> newBitUnpackAction(c)
    [] type = "bit_pack" -> newBitPackAction(c)
    [] type = "carbon_calc" -> newCarbonCalcAction(c)
    [] type = "plant_split" -> newPlantSplitAction(c)
    [] type = "weather_query" -> newWeatherQueryAction(c)
    [] type = "delta_accumulator" -> newDeltaAccumulatorAction(c)
    [] type \in ExtActions -> newExtAction(type, c)
    [] OTHER -> Bare

-----------------------------------------------------------------------------
(* Conditions: what they may say of the context. *)

Is(so) == {so}

ValueRange(n) == ~(n.a # Missing /\ IsLess(data.value, n.a))
                 /\ ~(n.b # Missing /\ IsLess(n.b, data.value))
ValueIn(n) == \E x \in {n.a, n.b} : Given(x) /\ IsEqual(data.value, x)

\* The day has the hours 0 and 1; -1 is no time of day; a window may pass midnight.
TimeWindow(n) ==
  /\ n.a # -1 /\ n.b # -1
  /\ IF n.a <= n.b THEN n.a <= now % 2 /\ now % 2 <= n.b
     ELSE n.a <= now % 2 \/ now % 2 <= n.b

\* With its operator and.
BitMask(n) == {v * m = n.b : v \in LowBit(data.value), m \in LowBit(n.a)}

Known == data.prev # Missing
Change == Sum(data.value, Product(-1, data.prev))

Beyond(threshold, direction, change) ==
  CASE direction = 1 -> AtMost(threshold, change)
    [] direction = -1 -> AtMost(change, -threshold)
    [] direction = Missing -> AtMost(threshold, Magnitude(change))
    [] OTHER -> FALSE

DeltaThreshold(n) == Known /\ Beyond(n.a, n.b, Change)

\* A tick is a second; whatever the unit, the times are taken for milliseconds.
RateBeyond(n) ==
  Known /\ Beyond(n.a * (UnixMilli(Unit, now) - UnixMilli(Unit, data.prevAt)), n.b, Change)

StateChange(n) ==
  /\ Known
  /\ n.a # Missing => IsEqual(data.prev, n.a)
  /\ n.b # Missing => IsEqual(data.value, n.b)
  /\ ~IsEqual(data.prev, data.value)

DynamicThreshold(n) ==
  n.b # -1 /\ data.free # Missing /\ Compares(n.a, data.value, data.free)

ExprFilter(n) == n.a = 0 \/ (n.a = 1 /\ IsLess(0, data.value))

\* Above the threshold, and (or) between 0 and 1.
CompositeDetect(n) ==
  LET above == IsLess(n.b, data.value)
      inside == AtMost(0, data.value) /\ AtMost(data.value, 1) IN
  (n.a = 0 /\ above /\ inside) \/ (n.a = 1 /\ (above \/ inside))

\* The history may have nothing of the point, or fail.
HistoricalCompare(n) ==
  Is(FALSE) \cup (IF Served THEN {Compares(n.a, data.value, h) : h \in {0, 2}} ELSE {})

\* Made of a configuration it has no store, and fires at once.
ThresholdDetect(n) == Compares(n.a, data.value, n.b)

\* Not charging; charging has limits of its own, which are not given here.
SOCMonitor(n) ==
  (IF HasPoints THEN Is(FALSE) ELSE {})
  \cup Is((n.a > 0 /\ AtMost(n.a, data.value)) \/ (n.b > 0 /\ AtMost(data.value, n.b)))

PowerFactorPoint(n) == (n.a > 0 /\ IsLess(data.value, n.a))
                       \/ (n.b > 0 /\ IsLess(n.b, data.value))
PowerFactorCheck(n) == IF HasPoints /\ (n.a > 0 \/ n.b > 0) THEN BOOLEAN ELSE Is(FALSE)

\* The hour is that of a time in milliseconds, whatever the unit is.
ToUPrice(n) ==
  IF n.a # 1 \/ n.b # 1 THEN Is(FALSE)
  ELSE IF Unit = "ns" THEN BOOLEAN ELSE Is(now % 2 = 1)

DemandResponseCheck(n) == IF HasPoints /\ n.a > 0 THEN BOOLEAN ELSE Is(FALSE)
SOHEstimator(n) == IF HasPoints /\ n.b > 0 THEN BOOLEAN ELSE Is(FALSE)

Verdicts(n) ==
  CASE n.is = "none" -> Is(TRUE)
    [] n.is = "device_id" -> Is(n.a = 1)
    [] n.is \in {"point_name", "point_name_pattern", "fqn_prefix"} -> Is(data.name = n.a)
    [] n.is = "value_range" -> Is(ValueRange(n))
    [] n.is = "value_in" -> Is(ValueIn(n))
    [] n.is = "quality" -> Is(data.quality >= n.a)
    [] n.is = "limit_exceeded" -> Is(data.over)
    [] n.is = "time_window" -> Is(TimeWindow(n))
    [] n.is = "bit_mask" -> BitMask(n)
    [] n.is = "delta_threshold" -> Is(DeltaThreshold(n))
    [] n.is = "rate_limit" -> Is(RateBeyond(n))
    [] n.is = "state_change" -> Is(StateChange(n))
    [] n.is = "dynamic_threshold" -> Is(DynamicThreshold(n))
    [] n.is = "expr_filter" -> Is(ExprFilter(n))
    [] n.is = "composite_detect" -> Is(CompositeDetect(n))
    [] n.is = "historical_compare" -> HistoricalCompare(n)
    [] n.is = "threshold_detect" -> Is(ThresholdDetect(n))
    [] n.is = "soc_monitor" -> SOCMonitor(n)
    [] n.is = "power_factor_check" -> PowerFactorCheck(n)
    [] n.is = "power_factor_point" -> Is(PowerFactorPoint(n))
    [] n.is = "time_of_use_price" -> ToUPrice(n)
    [] n.is = "demand_response_check" -> DemandResponseCheck(n)
    [] n.is = "soh_estimator" -> SOHEstimator(n)

-----------------------------------------------------------------------------
(* Actions: what they make of the context and of what is stored. *)

Result(d, o, how) == [data |-> d, stores |-> o, how |-> how]
Ok(d) == {Result(d, stores, "ok")}
Error == {Result(data, stores, "error")}
SetValue(v) == [data EXCEPT !.value = v]
SetTag(v) == [data EXCEPT !.free = v]
AddTargets(xs) == [data EXCEPT !.targets = @ \cup xs]
TextSet(x) == IF Given(x) THEN {x} ELSE {}

Transform(n) ==
  LET scaled == IF n.a # Missing THEN Product(data.value, n.a) ELSE data.value IN
  Ok(SetValue(IF n.b # Missing THEN Sum(scaled, n.b) ELSE scaled))

OutOfLimits(v) == IsLess(1, v) \/ IsLess(v, 0)

\* Mutation: a value within the limits leaves the mark alone.
LimitCheckNeverBack(n) ==
  Ok([data EXCEPT !.over = @ \/ (HasLimits /\ OutOfLimits(data.value))])

\* MapDataContext has no limits, and keeps no mark.
LimitCheck(n) == Ok([data EXCEPT !.over = HasLimits /\ OutOfLimits(data.value)])
QualityMark(n) == Ok([data EXCEPT !.quality = IF data.over THEN n.b ELSE n.a])
BitUnpack(n) == UNION {Ok(SetTag(x)) : x \in LowBit(data.value)}
BitPack(n) ==
  LET x == IF data.free = 1 THEN 1 ELSE 0 IN
  Ok(IF n.b = Missing THEN SetValue(x) ELSE SetTag(x))

\* The value plus one; the result is kept in a tag as well.
CalcNode(n) ==
  IF n.a # 1 THEN Error
  ELSE Ok([SetValue(Sum(data.value, 1)) EXCEPT !.calc = Sum(data.value, 1)])

Written(v) == [value |-> v, at |-> now]

\* A result that some evaluation calculated is stored instead of the value.
StorageWrite(n) ==
  LET d == AddTargets(TextSet(n.a))
      result == IF data.calc # Missing THEN data.calc ELSE data.value IN
  IF ~Served THEN Ok(d)
  ELSE {Result(d, [stores EXCEPT !.stored = Written(result)], "ok"),
        Result(d, stores, "error")}

\* Only an adapted point tells its group.
AggregationWrite(n) ==
  IF world # "point" THEN Ok(data)
  ELSE Error \cup {Result(data, [stores EXCEPT !.stored = Written(data.value)], "ok")}

QualityMarkExt(n) ==
  Ok([data EXCEPT !.quality = IF data.free # Missing THEN data.free ELSE n.a])

AlarmEmit(n) ==
  Ok([data EXCEPT !.alarm = IF @ # Missing THEN @ ELSE IF data.over THEN 1 ELSE 0,
                  !.alarmAt = now])
AlarmNotifyExt(n) ==
  Ok([data EXCEPT !.alarm = IF data.free # Missing THEN data.free ELSE n.a,
                  !.alarmAt = IF @ = Missing THEN now ELSE @])

ExprSwitch(n) == IF n.a = 0 THEN Error ELSE Ok(data)

\* Its sum goes to a tag; a reader that fails is passed over.
DeviceAggregate(n) ==
  IF ~Served THEN Ok(data) ELSE Ok(data) \cup UNION {Ok(SetTag(s)) : s \in {0, 2}}

\* multi_device_control, strategy_execute and emit_soe say so when their service fails.
CallService(n) == IF Served THEN Ok(data) \cup Error ELSE Ok(data)

Aggregator(n) ==
  IF HasPoints THEN Ok(data) \cup UNION {Ok(SetValue(s)) : s \in {0, 2}} ELSE Ok(data)
CarbonCalc(n) == IF n.a = 0 /\ n.b # 1 THEN Error ELSE Ok(data)
EfficiencyCalc(n) ==
  IF HasPoints THEN Error \cup UNION {Ok(SetTag(s)) : s \in {0, 2}} ELSE Error
PlantSplit(n) ==
  IF n.a # 1 /\ data.free = Missing THEN Ok(data) ELSE Ok(AddTargets(TextSet(n.b)))

\* The place may be in a tag; without an address the weather is always the same.
WeatherQuery(n) ==
  IF n.a = Missing /\ data.free = Missing THEN Error
  ELSE IF n.b = Missing THEN Ok(SetTag(2))
  ELSE Error \cup Ok(data) \cup UNION {Ok(SetTag(s)) : s \in {0, 2}}

\* A day has two ticks, a month two days.
Day(t) == t \div 2
Month(t) == Day(t) \div 2

\* The day begins anew whenever its date is not the stored one; the month only if a
\* date is stored, which only these two lines store.
DeltaAccumulator(n) ==
  LET m == stores.meter
      read == UnixMilli(Unit, now)
      current == IF n.b = 1 THEN Month(read) ELSE Day(read)
      resets == /\ n.b = Missing \/ (n.b = 1 /\ m.date # Missing)
                /\ m.date # current
      rise == IF m.last = Missing THEN 0 ELSE Sum(data.value, Product(-1, m.last))
      sum == IF resets THEN 0 ELSE m.sum IN
  IF ~HasStore \/ n.a # Missing THEN Error
  ELSE {Result(data, [stores EXCEPT !.meter =
                        [last |-> data.value, date |-> IF resets THEN current ELSE m.date,
                         sum |-> IF IsLess(0, rise) THEN sum + rise ELSE sum]], "ok")}

Execute(n) ==
  CASE n.is = "transform" -> Transform(n)
    [] n.is = "rename" -> Ok([data EXCEPT !.name = n.a])
    [] n.is = "tag" -> Ok(SetTag(n.a))
    [] n.is = "drop" -> {Result(data, stores, "drop")}
    [] n.is = "route" -> Ok(AddTargets(TextSet(n.a)))
    [] n.is = "limit_check" -> LimitCheck(n)
    [] n.is = "quality_mark" -> QualityMark(n)
    [] n.is = "bit_unpack" -> BitUnpack(n)
    [] n.is = "bit_pack" -> BitPack(n)
    [] n.is = "calc_node" -> CalcNode(n)
    [] n.is = "storage_write" -> StorageWrite(n)
    [] n.is = "aggregation_write" -> AggregationWrite(n)
    [] n.is = "quality_mark_ext" -> QualityMarkExt(n)
    [] n.is = "alarm_emit" -> AlarmEmit(n)
    [] n.is = "alarm_notify_ext" -> AlarmNotifyExt(n)
    [] n.is = "expr_switch" -> ExprSwitch(n)
    [] n.is = "device_aggregator" -> DeviceAggregate(n)
    [] n.is = "aggregator" -> Aggregator(n)
    [] n.is = "carbon_calc" -> CarbonCalc(n)
    [] n.is = "efficiency_calc" -> EfficiencyCalc(n)
    [] n.is = "plant_split" -> PlantSplit(n)
    [] n.is = "delta_accumulator" -> DeltaAccumulator(n)
    [] n.is = "weather_query" -> WeatherQuery(n)
    [] n.is = "status_change_log" -> Ok(data)
    [] OTHER -> CallService(n)

-----------------------------------------------------------------------------
(* Evaluations. *)

Entries == {Missing, Wrong, -1, 0, 1}
Configs == [a : Entries, b : Entries]
NodeOf(type, n) == [is |-> type, a |-> n.a, b |-> n.b]
Created(kinds, Create(_, _)) ==
  {NodeOf(k, Create(k, c)) : k \in kinds, c \in Configs} \ {NodeOf(k, Refused) : k \in kinds}

AllConditions == Created(ConditionKinds, CreatedCondition)
AllActions == Created(BuiltinActions \cup ExtActions \cup DomainActions, CreatedAction)
Always == NodeOf("none", Bare)

\* Actions, with the conditions that look at what they wrote.
Looks ==
  {NodeOf("rename", Node(x, Missing)) : x \in {-1, 0, 1}}
    \X {c \in AllConditions : c.is \in {"point_name", "point_name_pattern", "fqn_prefix"}}
  \cup {NodeOf("tag", Node(1, Missing))}
    \X {c \in AllConditions : c.is = "dynamic_threshold"}
  \cup {NodeOf("limit_check", Bare)} \X {c \in AllConditions : c.is = "limit_exceeded"}
  \cup {NodeOf("transform", Node(-1, 1))} \X AllConditions

\* Actions, with the actions that take up what they did, or might have.
TakenUp ==
  AllActions \X {NodeOf("storage_write", Node(1, Missing))}
  \cup {a \in AllActions : a.is \in {"limit_check", "alarm_emit", "alarm_notify_ext"}}
    \X {NodeOf("alarm_emit", Bare), NodeOf("quality_mark", Node(0, 1))}

\* Chains of such a pair; an action of one parameter may wait for the value to change.
Chains ==
  {<<[when |-> Always, do |-> w[1]],
     [when |-> w[2], do |-> NodeOf("route", Node(1, Missing))]>> : w \in Looks}
  \cup
  {<<[when |-> Always, do |-> w[1]], [when |-> Always, do |-> w[2]]>> : w \in TakenUp}
  \cup
  {<<[when |-> c, do |-> w[1]], [when |-> Always, do |-> w[2]]>> :
     c \in {NodeOf("state_change", Bare), NodeOf("delta_threshold", Node(1, Missing))},
     w \in {u \in TakenUp : u[1].b = Missing}}

PointInitIn(worlds, chains) ==
  /\ world \in worlds /\ ruleOf \in chains
  /\ data = [value |-> 0, name |-> 0, quality |-> 0, over |-> FALSE, free |-> Missing,
             calc |-> Missing, alarm |-> Missing, alarmAt |-> Missing, targets |-> {},
             dropped |-> FALSE, prev |-> Missing, prevAt |-> Missing]
  /\ stores = [meter |-> [last |-> Missing, date |-> Missing, sum |-> 0], stored |-> Missing]
  /\ matched = [r \in 1 .. 2 |-> Missing] /\ turn = 0 /\ now = 0 /\ mishaps = 0
  /\ arrivals = [t \in {} |-> NaN] /\ acted = {} /\ saves = {}

PointInit == PointInitIn(Worlds, Chains)

\* The caller puts the next value into the context and evaluates the chain.
Arrive(v) ==
  /\ turn = 0 /\ now < MaxArrivals
  /\ now' = now + 1 /\ turn' = 1
  /\ data' = [data EXCEPT !.value = v]
  /\ matched' = [r \in 1 .. 2 |-> Missing]
  /\ arrivals' = [t \in 1 .. now' |-> IF t = now' THEN v ELSE arrivals[t]]
  /\ UNCHANGED <<world, ruleOf, mishaps, stores, acted, saves>>

\* Mutation: an evaluation that ends early does not save the value.
savePreviousValueAtEnd(d) == IF turn = 2 THEN [d EXCEPT !.prev = d.value, !.prevAt = now] ELSE d

savePreviousValue(d) == [d EXCEPT !.prev = d.value, !.prevAt = now]

\* The context d is left to the next rule, or the evaluation ends, and its value is
\* saved unless a panic keeps it from that.
Leave(d, ends, saved) ==
  /\ data' = IF ends /\ saved THEN savePreviousValue(d) ELSE d
  /\ saves' = IF ends /\ saved THEN saves \cup {now} ELSE saves
  /\ turn' = IF ends THEN 0 ELSE 2

Mishap == mishaps < MaxMishaps /\ mishaps' = mishaps + 1

\* An error may end the evaluation, as strategy and error handler have it; a drop
\* does, and so does the mark of an earlier drop, once a rule has acted.
Ends(hit, how, d) ==
  IF ~hit THEN {turn = 2}
  ELSE CASE how = "drop" -> {TRUE}
         [] how = "error" -> {turn = 2, TRUE}
         [] OTHER -> {turn = 2 \/ d.dropped}

EvaluateRule ==
  /\ turn # 0
  /\ \E hit \in Verdicts(ruleOf[turn].when) :
     \E result \in IF hit THEN Execute(ruleOf[turn].do) ELSE Ok(data) :
       LET d == [result.data EXCEPT !.dropped = @ \/ result.how = "drop"] IN
       \E ends \in Ends(hit, result.how, d), saved \in BOOLEAN :
         /\ IF saved THEN mishaps' = mishaps ELSE ends /\ Mishap
         /\ matched' = [matched EXCEPT ![turn] = hit]
         /\ stores' = result.stores
         /\ acted' = IF hit /\ turn = 1 THEN acted \cup {now} ELSE acted
         /\ Leave(d, ends, saved)
  /\ UNCHANGED <<world, ruleOf, now, arrivals>>

\* A rule is not asked: the limiter or the level passes over it, the time of the
\* evaluation is over, the level Dropping refuses the evaluation, a panic ends it.
PassOver ==
  /\ turn # 0 /\ Mishap
  /\ \E ends \in {turn = 2, TRUE}, saved \in BOOLEAN : Leave(data, ends, saved)
  /\ UNCHANGED <<world, ruleOf, matched, stores, now, arrivals, acted>>

PointNext == (\E v \in {0, 2, NaN} : Arrive(v)) \/ EvaluateRule \/ PassOver

PointSpec == PointInit /\ [][PointNext]_pointVars

-----------------------------------------------------------------------------
(* Properties. *)

WritesValue == {"transform", "calc_node", "aggregator", "bit_pack"}
LeavesValue == \A r \in 1 .. 2 : ruleOf[r].do.is \notin WritesValue
Calculates == ruleOf[1].do = NodeOf("calc_node", Node(1, Missing))

Latest(S) == CHOOSE t \in S : \A s \in S : s <= t
Earlier(S, t) == {s \in S : s < t}
Came == arrivals[now]

\* The value that evaluation t left, and the one that the last saved before it left.
Left(t) == IF Calculates /\ t \in acted THEN Sum(arrivals[t], 1) ELSE arrivals[t]
Saved == Earlier(saves, now) # {}
Previous == Left(Latest(Earlier(saves, now)))

\* A condition on a change compares each value with what the last evaluation that
\* saved one has left, the value that came with it or the one its action calculated,
\* whatever ended it and whatever happened to those after it (a drop, an error, a
\* rule passed over, a refusal, a panic); and NaN is a change every time.
ChangesAreOfData ==
  \A r \in 1 .. 2 :
    LET n == ruleOf[r].when IN
    (LeavesValue \/ (Calculates /\ r = 1)) /\ matched[r] # Missing =>
      CASE n = NodeOf("state_change", Bare) -> matched[r] = (Saved /\ ~IsEqual(Previous, Came))
        [] n = NodeOf("delta_threshold", Node(1, Missing)) ->
             matched[r] = (Saved /\ Came # NaN /\ Previous # NaN /\ Previous # Came)
        [] OTHER -> TRUE

\* Where a value's limits are checked before its quality is marked, the quality is
\* the bad one just when this value is out of the limits, if there are any.
LimitsAreMarked ==
  LET n == ruleOf[2].do IN
  (/\ ruleOf[1].do = NodeOf("limit_check", Bare) /\ matched[1] = TRUE
   /\ n.is = "quality_mark" /\ matched[2] = TRUE)
  => data.quality = IF HasLimits /\ OutOfLimits(Came) THEN n.b ELSE n.a

\* What is stored of a value is the value itself if nothing calculates, and if the
\* first rule does, what it calculated last, of this value or of an earlier one.
StoredIsAccountedFor ==
  (stores.stored # Missing /\ stores.stored.at = now) =>
    /\ LeavesValue => stores.stored.value = Came
    /\ Calculates => stores.stored.value =
         IF acted = {} THEN Came ELSE Sum(arrivals[Latest(acted)], 1)

\* The time of the alarm is that of the last one that alarm_emit raised, and that of
\* the first one for ever where alarm_notify_ext raises them.
AlarmIsDated ==
  /\ \A r \in 1 .. 2 :
       ruleOf[r].do.is = "alarm_emit" /\ matched[r] = TRUE => data.alarmAt = now
  /\ ruleOf[1].do.is = "alarm_notify_ext" /\ ruleOf[2].do.is # "alarm_emit" =>
       IF acted = {} THEN data.alarmAt = Missing
       ELSE data.alarmAt \in acted /\ \A t \in acted : data.alarmAt <= t

\* The readings above the one before them, which may be some evaluations ago.
Rises == {t \in acted : /\ Earlier(acted, t) # {}
                        /\ IsLess(arrivals[Latest(Earlier(acted, t))], arrivals[t])}

IsMeter(period) ==
  HasStore /\ ruleOf[1].do = NodeOf("delta_accumulator", Node(Missing, period))

\* delta_accumulator has added each rise between two of its readings once, however
\* the evaluations ended: those of the day of its last reading if it counts by the
\* day and times are in milliseconds, all there ever were if it knows no period.
MeterAddsUp ==
  /\ IsMeter(Missing) /\ Unit = "ms" =>
       stores.meter.sum = 2 * Cardinality({t \in Rises : Day(t) = Day(Latest(acted))})
  /\ \A period \in {-1, 0} : IsMeter(period) => stores.meter.sum = 2 * Cardinality(Rises)

PointsAreExact == LimitsAreMarked /\ StoredIsAccountedFor /\ AlarmIsDated /\ MeterAddsUp

=============================================================================

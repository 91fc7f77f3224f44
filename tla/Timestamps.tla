----------------------------- MODULE Timestamps -----------------------------
(***************************************************************************)
(* The units of the timestamps that a context gives its nodes: core says   *)
(* none, MapDataContext gives nanoseconds (map_data_context.go:218), and   *)
(* most nodes take them for milliseconds, as time.UnixMilli does.          *)
(***************************************************************************)
EXTENDS Integers

CONSTANT Skew   \* nanoseconds to the millisecond: a million in the code

ASSUME SkewAssumption == Skew \in Nat \ {0}

\* The time that time.UnixMilli makes of a timestamp of t ticks.
UnixMilli(unit, t) == IF unit = "ns" THEN t * Skew ELSE t

=============================================================================

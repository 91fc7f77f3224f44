--------------------------- MODULE MCInputBuffer ---------------------------
(* Two devices; a chain with two inputs, and a chain that has one of them as its
   only input. *)
EXTENDS InputBuffer

CONSTANTS d1, d2, c1, c2, p1, p2, o1, o2, o3

MCInputs == [c \in Chains |-> IF c = c1 THEN {p1, p2} ELSE {p1}]
=============================================================================

------------------------------- MODULE MCEngine -------------------------------
(***************************************************************************)
(* Chain definitions for Engine: two chains that may or may not refer to   *)
(* each other, in versions that differ in their rules, one of them shared  *)
(* between the chains; a chain that refers to itself after another; and    *)
(* one that does not compile.                                              *)
(***************************************************************************)
EXTENDS Engine

CONSTANTS A, B, r1, r2, r3

Def(id, refs, rules, compiles) ==
    [id |-> id, refs |-> refs, rules |-> rules, compiles |-> compiles]

DefsTwo ==
    {Def(A, << >>, {r1, r2}, TRUE),
     Def(A, <<B>>, {r1}, TRUE),
     Def(A, <<B, A>>, {r1}, TRUE),
     Def(B, << >>, {r2, r3}, TRUE),
     Def(B, <<A>>, {r3}, TRUE),
     Def(B, << >>, {}, FALSE)}
===============================================================================

------------------------------ MODULE MCEvalChain ------------------------------
(***************************************************************************)
(* A chain for EvalChain: priorities on both sides of what Paused and      *)
(* Degraded leave out, and a rule without actions among rules with.        *)
(***************************************************************************)
EXTENDS EvalChain

ThreeRules ==
    <<[priority |-> 0, acts |-> TRUE],
      [priority |-> 10, acts |-> FALSE],
      [priority |-> 11, acts |-> TRUE]>>
===============================================================================

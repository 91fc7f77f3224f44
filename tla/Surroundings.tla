---------------------------- MODULE Surroundings ----------------------------
(***************************************************************************)
(* What a chain of the engine is surrounded by: the configuration it is    *)
(* made of (ChainDefinition), the nodes its rules are made of (PointNodes, *)
(* StatefulNodes, FlowNodes) and the debug manager that its evaluations    *)
(* report to (DebugCapture).                                               *)
(*                                                                         *)
(* These parts share no state: a node sees the others only through the     *)
(* context, which PointNodes and FlowNodes have each, and the debug        *)
(* manager changes nothing that a rule reads.  So a behaviour follows one  *)
(* of the parts, `part`, and the others rest in one of their initial       *)
(* states.                                                                 *)
(***************************************************************************)
EXTENDS StatefulNodes, ChainDefinition, FlowNodes, DebugCapture, PointNodes

VARIABLE part   \* the part that moves

vars == <<part, nodeVars, definitionVars, flowVars, debugVars, pointVars>>

Parts == {"stateful", "definition", "flow", "debug", "points"}

Unconfigured == config = << >> /\ stage = "idle" /\ chain = << >> /\ compiled = << >>

NoRule == [when |-> Always, do |-> NodeOf("drop", Bare)]

Init ==
  /\ part \in Parts
  /\ IF part = "stateful" THEN NodesInit ELSE NodesInitIn({"duration"})
  /\ IF part = "definition" THEN DefinitionInit ELSE Unconfigured
  /\ IF part = "flow" THEN FlowInit ELSE FlowInitIn({"delay"})
  /\ IF part = "debug" THEN DebugInit ELSE DebugInitIn({"off"})
  /\ IF part = "points" THEN PointInit ELSE PointInitIn({"config"}, {<<NoRule, NoRule>>})

StatefulNodeStep ==
  /\ part = "stateful" /\ NodesNext
  /\ UNCHANGED <<part, definitionVars, flowVars, debugVars, pointVars>>

DefinitionStep ==
  /\ part = "definition" /\ DefinitionNext
  /\ UNCHANGED <<part, nodeVars, flowVars, debugVars, pointVars>>

FlowStep ==
  /\ part = "flow" /\ FlowNext
  /\ UNCHANGED <<part, nodeVars, definitionVars, debugVars, pointVars>>

DebugStep ==
  /\ part = "debug" /\ DebugNext
  /\ UNCHANGED <<part, nodeVars, definitionVars, flowVars, pointVars>>

PointStep ==
  /\ part = "points" /\ PointNext
  /\ UNCHANGED <<part, nodeVars, definitionVars, flowVars, debugVars>>

Next == StatefulNodeStep \/ DefinitionStep \/ FlowStep \/ DebugStep \/ PointStep

Spec == Init /\ [][Next]_vars

\* Neither the nodes nor the debug manager tell evaluations apart, nor FlowNodes contexts.
Interchangeable == Permutations(Threads) \cup Permutations(Evaluations) \cup Permutations(Contexts)

=============================================================================

---------------------------- MODULE DependencyGraph ----------------------------
(***************************************************************************)
(* The dependency graph of core/compiler/dependency.go.  An edge <<a, b>>  *)
(* says that chain a refers to chain b.  The two adjacency maps of the     *)
(* code hold lists in which a name may occur more than once; the order of  *)
(* a list matters to no caller, so a map is a multiplicity per pair:       *)
(* edges[<<a, b>>] occurrences of b in the list of a, and                  *)
(* reverse[<<b, a>>] occurrences of a in the reverse list of b.            *)
(***************************************************************************)
EXTENDS Naturals, FiniteSets

CONSTANTS
    Chains,       \* the chain names in use
    MaxParallel   \* bound of the model: calls of AddEdge with the same pair

ASSUME ChainsFinite == IsFiniteSet(Chains)
ASSUME MaxParallelNat == MaxParallel \in Nat

VARIABLES
    graph,    \* the three maps of DependencyGraph
    answer    \* what the last call returned

vars == <<graph, answer>>

Pairs == Chains \X Chains
Graphs == [nodes : SUBSET Chains, edges : [Pairs -> Nat], reverse : [Pairs -> Nat]]

EmptyGraph ==
    [nodes |-> {}, edges |-> [p \in Pairs |-> 0], reverse |-> [p \in Pairs |-> 0]]

-----------------------------------------------------------------------------
(* Reachability and cycles of a relation R on Chains                       *)

Linked(edges) == {p \in Pairs : edges[p] > 0}

ClosedUnder(R, S) == \A p \in R : p[1] \in S => p[2] \in S
Reachable(R, a) == {c \in Chains : \A S \in SUBSET Chains : a \in S /\ ClosedUnder(R, S) => c \in S}

\* In a finite graph, a set whose members all have a successor in it holds a
\* cycle, and every cycle is such a set.
Endless(R, S) == S # {} /\ \A c \in S : \E d \in S : <<c, d>> \in R
Cyclic(R) == \E S \in SUBSET Chains : Endless(R, S)

\* What detectCycleLocked finds out: is there a cycle within reach of start?
CycleFrom(R, start) == \E S \in SUBSET Reachable(R, start) : Endless(R, S)

-----------------------------------------------------------------------------
(* The methods, as operators on a graph                                    *)

Monus(m, n) == IF m > n THEN m - n ELSE 0

\* A node that is new gets an empty list of edges; a known one is left alone.
WithNode(g, c) ==
    IF c \in g.nodes THEN g
    ELSE [g EXCEPT !.nodes = @ \union {c},
                   !.edges = [p \in Pairs |-> IF p[1] = c THEN 0 ELSE g.edges[p]]]

\* Faulty variant of WithoutNode, for which WellFormed fails: each list on the
\* other side loses one occurrence only.
WithoutNodeOnce(g, c) ==
    [nodes   |-> g.nodes \ {c},
     edges   |-> [p \in Pairs |-> IF p[1] = c THEN 0
                                  ELSE IF p[2] = c THEN Monus(g.edges[p], 1) ELSE g.edges[p]],
     reverse |-> [p \in Pairs |-> IF p[1] = c THEN 0
                                  ELSE IF p[2] = c THEN Monus(g.reverse[p], 1) ELSE g.reverse[p]]]

-----------------------------------------------------------------------------
(* AddEdge and RemoveNode                                                  *)

\* The cycle test follows the insertion; a rejected edge is taken out again,
\* the nodes it created are not.
WithEdge(g, from, to) ==
    LET h == WithNode(WithNode(g, from), to)
        added == [h.edges EXCEPT ![<<from, to>>] = @ + 1]
    IN  IF from = to THEN [ok |-> FALSE, graph |-> g]
        ELSE IF CycleFrom(Linked(added), from) THEN [ok |-> FALSE, graph |-> h]
        ELSE [ok |-> TRUE,
              graph |-> [h EXCEPT !.edges = added, !.reverse[<<to, from>>] = @ + 1]]

\* removeFromSlice takes out one occurrence per call, and is called once for
\* each occurrence on the other side.
WithoutNode(g, c) ==
    IF c \notin g.nodes THEN g
    ELSE [nodes   |-> g.nodes \ {c},
          edges   |-> [p \in Pairs |->
                          IF p[1] = c THEN 0
                          ELSE IF p[2] = c THEN Monus(g.edges[p], g.reverse[<<c, p[1]>>])
                          ELSE g.edges[p]],
          reverse |-> [p \in Pairs |->
                          IF p[1] = c THEN 0
                          ELSE IF p[2] = c THEN Monus(g.reverse[p], g.edges[<<c, p[1]>>])
                          ELSE g.reverse[p]]]

-----------------------------------------------------------------------------
(* The graph as a component: every method runs under the mutex             *)

Init == graph = EmptyGraph /\ answer = "none"

AddNode(c) ==
    /\ graph' = WithNode(graph, c)
    /\ answer' = "ok"

AddEdge(from, to) ==
    /\ graph.edges[<<from, to>>] < MaxParallel
    /\ LET r == WithEdge(graph, from, to)
       IN  /\ graph' = r.graph
           /\ answer' = IF r.ok THEN "ok" ELSE "error"

RemoveNode(c) ==
    /\ graph' = WithoutNode(graph, c)
    /\ answer' = "ok"

Next ==
    \/ \E c \in Chains : AddNode(c) \/ RemoveNode(c)
    \/ \E from, to \in Chains : AddEdge(from, to)

Spec == Init /\ [][Next]_vars

-----------------------------------------------------------------------------
(* Properties                                                              *)

TypeOK == graph \in Graphs /\ answer \in {"none", "ok", "error"}

(***************************************************************************)
(* The two maps tell the same story, occurrence by occurrence, although    *)
(* only edges is rolled back and RemoveNode updates each map by what the   *)
(* other one holds.                                                        *)
(***************************************************************************)
MirrorOf(g) == \A p \in Pairs : g.edges[p] = g.reverse[<<p[2], p[1]>>]
Mirror == MirrorOf(graph)

(***************************************************************************)
(* No edge mentions a chain that is not a node: RemoveNode leaves no trace *)
(* of a chain, however often other chains refer to it.                     *)
(***************************************************************************)
NoDanglingIn(g) == \A p \in Linked(g.edges) : p[1] \in g.nodes /\ p[2] \in g.nodes
NoDangling == NoDanglingIn(graph)

(***************************************************************************)
(* The graph never holds a cycle, although AddEdge searches from one node  *)
(* only and trusts the rest of the graph.                                  *)
(***************************************************************************)
Acyclic == ~Cyclic(Linked(graph.edges))

(***************************************************************************)
(* What every method leaves behind: two maps that agree, no dangling edge  *)
(* and no cycle.                                                           *)
(***************************************************************************)
WellFormed == TypeOK /\ Mirror /\ NoDangling /\ Acyclic

(***************************************************************************)
(* An edge that is rejected does not change the graph (the comment on      *)
(* AddEdge).  The nodes it creates are not rolled back, but no cycle runs  *)
(* through a node that is new, provided no edge of a removed node is left. *)
(***************************************************************************)
RejectionChangesNothing == [][answer' = "error" => graph' = graph]_vars
=============================================================================

------------------------ MODULE DependencyGraphProofs ------------------------
(***************************************************************************)
(* Proofs about DependencyGraph and DependencyGraphAlgorithms, for any     *)
(* finite set of chain names and any number of parallel references.        *)
(*                                                                         *)
(* First the graph with its methods as single steps, whose search finds    *)
(* what CycleFrom says: it stays well formed.  Then the loops of the code: *)
(* an invariant each for the search and for the sort, as predicates of the *)
(* variables of the loop.  They make the search and the sort exact, and    *)
(* the methods, run step by step, implementations of the single steps.     *)
(***************************************************************************)
EXTENDS DependencyGraphAlgorithms, FiniteSetTheorems, TLAPS

-----------------------------------------------------------------------------
(* Cycles                                                                  *)

\* A relation that grows keeps its cycles.
LEMMA CyclicMonotone ==
    ASSUME NEW R, NEW Q, R \subseteq Q, Cyclic(R)
    PROVE  Cyclic(Q)
  BY DEF Cyclic, Endless

\* A cycle that one edge <<a, b>> closes goes through a.
LEMMA NewCycleThroughSource ==
    ASSUME NEW R, NEW a \in Chains, NEW b \in Chains, ~Cyclic(R),
           NEW S \in SUBSET Chains, Endless(R \union {<<a, b>>}, S)
    PROVE  a \in S
<1>1. SUFFICES ASSUME a \notin S PROVE Endless(R, S)
  BY DEF Cyclic
<1>2. \A c \in S : \E d \in S : <<c, d>> \in R
  <2>1. TAKE c \in S
  <2>2. PICK d \in S : <<c, d>> \in R \union {<<a, b>>}
    BY DEF Endless
  <2>3. <<c, d>> # <<a, b>>
    BY <1>1
  <2>4. QED BY <2>2, <2>3
<1>3. QED BY <1>2 DEF Endless

\* What follows a node that can be reached can be reached.
LEMMA ReachableStep ==
    ASSUME NEW R, NEW a \in Chains, NEW c \in Reachable(R, a), NEW d \in Chains, <<c, d>> \in R
    PROVE  d \in Reachable(R, a)
<1>1. SUFFICES ASSUME NEW U \in SUBSET Chains, a \in U, ClosedUnder(R, U)
               PROVE  d \in U
  BY DEF Reachable
<1>2. c \in U
  BY <1>1 DEF Reachable
<1>3. <<c, d>>[1] = c /\ <<c, d>>[2] = d
  OBVIOUS
<1>4. QED BY <1>1, <1>2, <1>3 DEF ClosedUnder

\* A set that holds a and is closed holds all that can be reached from a.
LEMMA ReachableWithin ==
    ASSUME NEW R \in SUBSET Pairs, NEW a \in Chains, NEW B \in SUBSET Chains, a \in B,
           \A c \in B : \A d \in Chains : <<c, d>> \in R => d \in B
    PROVE  Reachable(R, a) \subseteq B
<1>1. ClosedUnder(R, B)
  <2>1. SUFFICES ASSUME NEW p \in R, p[1] \in B PROVE p[2] \in B
    BY DEF ClosedUnder
  <2>2. p = <<p[1], p[2]>> /\ p[2] \in Chains
    BY DEF Pairs
  <2>3. QED BY <2>1, <2>2
<1>2. QED BY <1>1 DEF Reachable

\* Hence a search that starts from the source of the new edge sees every
\* cycle, if there was none before.
LEMMA SearchFromSourceSuffices ==
    ASSUME NEW R, NEW a \in Chains, NEW b \in Chains,
           ~Cyclic(R), Cyclic(R \union {<<a, b>>}),
           R \subseteq Pairs
    PROVE  CycleFrom(R \union {<<a, b>>}, a)
<1> DEFINE Q == R \union {<<a, b>>}
<1>1. PICK S \in SUBSET Chains : Endless(Q, S)
  BY DEF Cyclic
<1>2. a \in S
  BY <1>1, NewCycleThroughSource
<1> DEFINE T == S \intersect Reachable(Q, a)
<1>3. a \in T
  BY <1>2 DEF Reachable
<1>4. \A c \in T : \E d \in T : <<c, d>> \in Q
  <2>1. TAKE c \in T
  <2>2. PICK d \in S : <<c, d>> \in Q
    BY <1>1 DEF Endless
  <2>3. d \in Chains
    BY <1>1
  <2>4. c \in Reachable(Q, a)
    OBVIOUS
  <2>5. d \in Reachable(Q, a)
    BY <2>2, <2>3, <2>4, ReachableStep
  <2>6. QED BY <2>2, <2>5
<1>5. Endless(Q, T)
  BY <1>3, <1>4 DEF Endless
<1>6. T \in SUBSET Reachable(Q, a)
  OBVIOUS
<1>7. QED BY <1>5, <1>6 DEF CycleFrom

LEMMA CycleFromIsCycle ==
    ASSUME NEW Q, NEW a, CycleFrom(Q, a)
    PROVE  Cyclic(Q)
  BY DEF CycleFrom, Cyclic, Reachable

\* A cycle that one edge closes runs through nodes that have edges already.
LEMMA NewCycleThroughOldNodes ==
    ASSUME NEW R, NEW N, NEW a \in Chains, NEW b \in Chains, a # b,
           \A p \in R : p[1] \in N /\ p[2] \in N,
           ~Cyclic(R), Cyclic(R \union {<<a, b>>})
    PROVE  a \in N /\ b \in N
<1> DEFINE Q == R \union {<<a, b>>}
<1>1. PICK S \in SUBSET Chains : Endless(Q, S)
  BY DEF Cyclic
<1>2. a \in S
  BY <1>1, NewCycleThroughSource
<1>3. \A c, d : <<c, d>> \in R => c \in N /\ d \in N
  <2>1. ASSUME NEW c, NEW d, <<c, d>> \in R PROVE c \in N /\ d \in N
    <3>1. <<c, d>>[1] = c /\ <<c, d>>[2] = d
      OBVIOUS
    <3>2. QED BY <2>1, <3>1
  <2>2. QED BY <2>1
<1>4. \A c, d : <<c, d>> \in Q => <<c, d>> \in R \/ (c = a /\ d = b)
  OBVIOUS
<1>5. b \in N
  <2>1. SUFFICES ASSUME b \notin N PROVE Endless(R, S)
    BY DEF Cyclic
  <2>2. b \notin S
    BY <1>1, <1>3, <1>4, <2>1 DEF Endless
  <2>3. QED BY <1>1, <1>4, <2>2 DEF Endless
<1>6. a \in N
  <2>1. SUFFICES ASSUME a \notin N PROVE Endless(R, S \ {a})
    BY DEF Cyclic
  <2>2. \A c, d : <<c, d>> \in Q => d # a
    BY <1>3, <1>4, <2>1
  <2>3. PICK d \in S : <<a, d>> \in Q
    BY <1>1, <1>2 DEF Endless
  <2>4. d \in S \ {a}
    BY <2>2, <2>3
  <2>5. \A c \in S \ {a} : \E e \in S \ {a} : <<c, e>> \in R
    BY <1>1, <1>4, <2>2 DEF Endless
  <2>6. QED BY <2>4, <2>5 DEF Endless
<1>7. QED BY <1>5, <1>6

-----------------------------------------------------------------------------
(* The methods                                                             *)

Sound(g) == g \in Graphs /\ MirrorOf(g) /\ NoDanglingIn(g) /\ ~Cyclic(Linked(g.edges))

\* A node that is new had no edges left, so its fresh list changes nothing.
LEMMA WithNodeSound ==
    ASSUME NEW g, Sound(g), NEW c \in Chains
    PROVE  /\ Sound(WithNode(g, c))
           /\ WithNode(g, c).edges = g.edges
           /\ WithNode(g, c).reverse = g.reverse
           /\ WithNode(g, c).nodes = g.nodes \union {c}
<1>1. CASE c \in g.nodes
  BY <1>1 DEF WithNode, Sound, Graphs
<1>2. CASE c \notin g.nodes
  <2>1. g.edges \in [Pairs -> Nat]
    BY DEF Sound, Graphs
  <2>2. \A p \in Pairs : p[1] = c => g.edges[p] = 0
    BY <1>2, <2>1 DEF Sound, NoDanglingIn, Linked
  <2>3. [p \in Pairs |-> IF p[1] = c THEN 0 ELSE g.edges[p]] = g.edges
    BY <2>1, <2>2
  <2>4. WithNode(g, c) = [g EXCEPT !.nodes = g.nodes \union {c}, !.edges = g.edges]
    BY <1>2, <2>3 DEF WithNode
  <2>5. /\ WithNode(g, c).edges = g.edges
        /\ WithNode(g, c).reverse = g.reverse
        /\ WithNode(g, c).nodes = g.nodes \union {c}
        /\ WithNode(g, c) \in Graphs
    BY <2>4 DEF Sound, Graphs
  <2>6. QED BY <2>5 DEF Sound, MirrorOf, NoDanglingIn
<1>3. QED BY <1>1, <1>2

LEMMA LinkedAdd ==
    ASSUME NEW E \in [Pairs -> Nat], NEW a \in Chains, NEW b \in Chains
    PROVE  Linked([E EXCEPT ![<<a, b>>] = @ + 1]) = Linked(E) \union {<<a, b>>}
  BY DEF Linked, Pairs

\* What AddEdge does to a sound graph: the three ways out.
LEMMA WithEdgeCases ==
    ASSUME NEW g, Sound(g), NEW from \in Chains, NEW to \in Chains
    PROVE  LET r == WithEdge(g, from, to)
               Q == Linked(g.edges) \union {<<from, to>>}
           IN  /\ r.ok \in BOOLEAN
               /\ Sound(r.graph)
               /\ ~r.ok => Cyclic(Q) /\ r.graph = g
               /\ r.ok => Linked(r.graph.edges) = Q /\ r.graph.nodes = g.nodes \union {from, to}
<1> DEFINE h == WithNode(WithNode(g, from), to)
           added == [h.edges EXCEPT ![<<from, to>>] = @ + 1]
           R == Linked(g.edges)
           Q == R \union {<<from, to>>}
           r == WithEdge(g, from, to)
<1>1. Sound(WithNode(g, from))
  BY WithNodeSound
<1>2. /\ Sound(h)
      /\ h.edges = g.edges
      /\ h.reverse = g.reverse
      /\ h.nodes = g.nodes \union {from, to}
  BY <1>1, WithNodeSound
<1>3. Linked(added) = Q
  BY <1>2, LinkedAdd DEF Sound, Graphs
<1>4. R \subseteq Pairs /\ ~Cyclic(R)
  BY DEF Linked, Sound
<1>5. CASE from = to
  <2>1. r = [ok |-> FALSE, graph |-> g]
    BY <1>5 DEF WithEdge
  <2>2. Endless(Q, {from})
    BY <1>5 DEF Endless
  <2>3. Cyclic(Q)
    BY <2>2 DEF Cyclic
  <2>4. QED BY <2>1, <2>3
<1>6. CASE from # to /\ CycleFrom(Linked(added), from)
  <2>1. r = [ok |-> FALSE, graph |-> h]
    BY <1>6 DEF WithEdge
  <2>2. Cyclic(Q)
    BY <1>3, <1>6, CycleFromIsCycle
  <2>3. \A p \in R : p[1] \in g.nodes /\ p[2] \in g.nodes
    BY DEF Sound, NoDanglingIn
  <2>4. from \in g.nodes /\ to \in g.nodes
    BY <1>4, <1>6, <2>2, <2>3, NewCycleThroughOldNodes
  <2>5. h = g
    BY <2>4 DEF WithNode
  <2>6. QED BY <1>2, <2>1, <2>2, <2>5
<1>7. CASE from # to /\ ~CycleFrom(Linked(added), from)
  <2> DEFINE k == [h EXCEPT !.edges = added, !.reverse[<<to, from>>] = @ + 1]
  <2>1. r = [ok |-> TRUE, graph |-> k]
    BY <1>7 DEF WithEdge
  <2>2. /\ h \in Graphs
        /\ h.edges \in [Pairs -> Nat]
        /\ h.reverse \in [Pairs -> Nat]
        /\ <<from, to>> \in Pairs
        /\ <<to, from>> \in Pairs
    BY <1>2 DEF Sound, Graphs, Pairs
  <2>3. /\ k.nodes = h.nodes
        /\ k.edges = added
        /\ k.reverse = [h.reverse EXCEPT ![<<to, from>>] = @ + 1]
    BY <2>2 DEF Graphs
  <2>4. k \in Graphs
    <3>1. added \in [Pairs -> Nat]
      BY <2>2
    <3>2. k.reverse \in [Pairs -> Nat]
      BY <2>2, <2>3
    <3>3. QED BY <2>2, <3>1, <3>2 DEF Graphs
  <2>5. MirrorOf(k)
    <3>1. SUFFICES ASSUME NEW p \in Pairs
                   PROVE  added[p] = k.reverse[<<p[2], p[1]>>]
      BY <2>3 DEF MirrorOf
    <3>2. h.edges[p] = h.reverse[<<p[2], p[1]>>]
      BY <1>2 DEF Sound, MirrorOf
    <3>3. <<p[2], p[1]>> \in Pairs /\ p = <<p[1], p[2]>>
      BY DEF Pairs
    <3>4. CASE p = <<from, to>>
      BY <2>2, <2>3, <3>2, <3>3, <3>4
    <3>5. CASE p # <<from, to>>
      <4>1. <<p[2], p[1]>> # <<to, from>>
        BY <3>3, <3>5
      <4>2. QED BY <2>2, <2>3, <3>2, <3>3, <3>5, <4>1
    <3>6. QED BY <3>4, <3>5
  <2>6. NoDanglingIn(k)
    <3>1. Linked(k.edges) = R \union {<<from, to>>}
      BY <1>3, <2>3
    <3>2. \A p \in R : p[1] \in k.nodes /\ p[2] \in k.nodes
      BY <1>2, <2>3 DEF Sound, NoDanglingIn
    <3>3. from \in k.nodes /\ to \in k.nodes
      BY <1>2, <2>3
    <3>4. QED BY <3>1, <3>2, <3>3 DEF NoDanglingIn
  <2>7. ~Cyclic(Linked(k.edges))
    BY <1>3, <1>4, <1>7, <2>3, SearchFromSourceSuffices
  <2>8. Sound(k)
    BY <2>4, <2>5, <2>6, <2>7 DEF Sound
  <2>9. Linked(k.edges) = Q /\ k.nodes = g.nodes \union {from, to}
    BY <1>2, <1>3, <2>3
  <2> HIDE DEF k
  <2>10. r.ok = TRUE /\ r.graph = k
    BY <2>1
  <2>11. QED BY <2>8, <2>9, <2>10
<1>8. QED BY <1>5, <1>6, <1>7

\* RemoveNode relies on the mirror: what each list loses is what the other
\* one holds, so nothing of c is left and nothing else changes.
LEMMA WithoutNodeSound ==
    ASSUME NEW g, Sound(g), NEW c \in Chains
    PROVE  /\ Sound(WithoutNode(g, c))
           /\ WithoutNode(g, c).nodes = g.nodes \ {c}
           /\ Linked(WithoutNode(g, c).edges) = {p \in Linked(g.edges) : p[1] # c /\ p[2] # c}
<1>1. CASE c \notin g.nodes
  <2>1. WithoutNode(g, c) = g
    BY <1>1 DEF WithoutNode
  <2>2. \A p \in Linked(g.edges) : p[1] # c /\ p[2] # c
    BY <1>1 DEF Sound, NoDanglingIn
  <2>3. QED BY <1>1, <2>1, <2>2
<1>2. CASE c \in g.nodes
  <2> DEFINE k == WithoutNode(g, c)
             Kept(f) == [p \in Pairs |-> IF p[1] = c \/ p[2] = c THEN 0 ELSE f[p]]
  <2>1. /\ g.edges \in [Pairs -> Nat]
        /\ g.reverse \in [Pairs -> Nat]
        /\ \A p \in Pairs : g.edges[p] = g.reverse[<<p[2], p[1]>>]
    BY DEF Sound, Graphs, MirrorOf
  <2>2. \A p \in Pairs : /\ p = <<p[1], p[2]>>
                         /\ <<p[2], p[1]>> \in Pairs
    BY DEF Pairs
  <2>3. \A p \in Pairs : p[2] = c =>
            /\ Monus(g.edges[p], g.reverse[<<c, p[1]>>]) = 0
            /\ Monus(g.reverse[p], g.edges[<<c, p[1]>>]) = 0
    <3>1. SUFFICES ASSUME NEW p \in Pairs, p[2] = c
                   PROVE  /\ g.edges[p] = g.reverse[<<c, p[1]>>]
                          /\ g.reverse[p] = g.edges[<<c, p[1]>>]
                          /\ g.edges[p] \in Nat /\ g.reverse[p] \in Nat
      BY DEF Monus
    <3>2. <<c, p[1]>> \in Pairs /\ p = <<p[1], c>>
      BY <2>2, <3>1
    <3>3. g.edges[<<c, p[1]>>] = g.reverse[<<p[1], c>>]
      BY <2>1, <3>2
    <3>4. QED BY <2>1, <3>1, <3>2, <3>3
  <2>4. k.edges = Kept(g.edges)
    BY <1>2, <2>3 DEF WithoutNode
  <2>5. k.reverse = Kept(g.reverse)
    BY <1>2, <2>3 DEF WithoutNode
  <2>6. k.nodes = g.nodes \ {c}
    BY <1>2 DEF WithoutNode
  <2>7. k \in Graphs
    <3>1. Kept(g.edges) \in [Pairs -> Nat] /\ Kept(g.reverse) \in [Pairs -> Nat]
      BY <2>1
    <3>2. k = [nodes |-> g.nodes \ {c}, edges |-> Kept(g.edges), reverse |-> Kept(g.reverse)]
      BY <1>2, <2>3 DEF WithoutNode
    <3>3. g.nodes \ {c} \in SUBSET Chains
      BY DEF Sound, Graphs
    <3>4. QED BY <3>1, <3>2, <3>3 DEF Graphs
  <2>8. MirrorOf(k)
    <3>1. SUFFICES ASSUME NEW p \in Pairs
                   PROVE  Kept(g.edges)[p] = Kept(g.reverse)[<<p[2], p[1]>>]
      BY <2>4, <2>5 DEF MirrorOf
    <3>2. <<p[2], p[1]>> \in Pairs /\ g.edges[p] = g.reverse[<<p[2], p[1]>>]
      BY <2>1, <2>2
    <3>3. QED BY <3>2
  <2>9. Linked(k.edges) = {p \in Linked(g.edges) : p[1] # c /\ p[2] # c}
    BY <2>1, <2>4 DEF Linked
  <2>10. NoDanglingIn(k)
    BY <2>6, <2>9 DEF Sound, NoDanglingIn
  <2>11. ~Cyclic(Linked(k.edges))
    BY <2>9, CyclicMonotone DEF Sound
  <2>12. QED BY <2>6, <2>7, <2>8, <2>9, <2>10, <2>11 DEF Sound
<1>3. QED BY <1>1, <1>2

-----------------------------------------------------------------------------
(* The specification                                                       *)

Inv == TypeOK /\ Sound(graph)

LEMMA InitInv == Init => Inv
<1>1. SUFFICES ASSUME Init PROVE Inv
  OBVIOUS
<1>2. graph = EmptyGraph /\ EmptyGraph \in Graphs
  BY <1>1 DEF Init, EmptyGraph, Graphs
<1>3. Linked(graph.edges) = {}
  BY <1>2 DEF EmptyGraph, Linked
<1>4. MirrorOf(graph)
  BY <1>2 DEF MirrorOf, EmptyGraph, Pairs
<1>5. NoDanglingIn(graph)
  BY <1>3 DEF NoDanglingIn
<1>6. ~Cyclic(Linked(graph.edges))
  BY <1>3 DEF Cyclic, Endless
<1>7. QED BY <1>1, <1>2, <1>4, <1>5, <1>6 DEF Inv, TypeOK, Sound, Init

LEMMA NextInv == Inv /\ [Next]_vars => Inv'
<1>1. SUFFICES ASSUME Inv, [Next]_vars PROVE Inv'
  OBVIOUS
<1>2. Sound(graph)
  BY <1>1 DEF Inv
<1>3. SUFFICES Sound(graph') /\ answer' \in {"none", "ok", "error"}
  <2>1. Sound(graph)' <=> Sound(graph')
    BY DEF Sound, MirrorOf, NoDanglingIn
  <2>2. QED BY <1>3, <2>1 DEF Inv, TypeOK, Sound
<1>4. CASE \E c \in Chains : AddNode(c)
  BY <1>2, <1>4, WithNodeSound DEF AddNode
<1>5. CASE \E c \in Chains : RemoveNode(c)
  BY <1>2, <1>5, WithoutNodeSound DEF RemoveNode
<1>6. CASE \E from, to \in Chains : AddEdge(from, to)
  BY <1>2, <1>6, WithEdgeCases DEF AddEdge
<1>7. CASE UNCHANGED vars
  BY <1>1, <1>7 DEF vars, Inv, TypeOK
<1>8. QED BY <1>1, <1>4, <1>5, <1>6, <1>7 DEF Next

LEMMA Invariant == Spec => []Inv
  BY InitInv, NextInv, PTL DEF Spec

\* The three maps always have the types of the code.
THEOREM TypeCorrect == Spec => []TypeOK
<1>1. Inv => TypeOK
  BY DEF Inv
<1>2. QED BY <1>1, Invariant, PTL

\* The reverse lists mirror the forward lists after every method.
THEOREM MirrorCorrect == Spec => []Mirror
<1>1. Inv => Mirror
  BY DEF Inv, Sound, Mirror
<1>2. QED BY <1>1, Invariant, PTL

\* No list names a chain that has been removed.
THEOREM NoDanglingCorrect == Spec => []NoDangling
<1>1. Inv => NoDangling
  BY DEF Inv, Sound, NoDangling
<1>2. QED BY <1>1, Invariant, PTL

\* Searching from the source of each new edge keeps the whole graph acyclic.
THEOREM AcyclicCorrect == Spec => []Acyclic
<1>1. Inv => Acyclic
  BY DEF Inv, Sound, Acyclic
<1>2. QED BY <1>1, Invariant, PTL

\* A refused edge leaves no trace, not even the nodes AddEdge makes on the way.
THEOREM RejectionChangesNothingCorrect == Spec => RejectionChangesNothing
<1>1. ASSUME Inv, Next PROVE answer' = "error" => graph' = graph
  <2>1. CASE \E c \in Chains : AddNode(c) \/ RemoveNode(c)
    BY <2>1 DEF AddNode, RemoveNode
  <2>2. CASE \E from, to \in Chains : AddEdge(from, to)
    BY <1>1, <2>2, WithEdgeCases DEF AddEdge, Inv
  <2>3. QED BY <1>1, <2>1, <2>2 DEF Next
<1>2. Inv /\ [Next]_vars => [answer' = "error" => graph' = graph]_vars
  BY <1>1
<1>3. QED BY <1>2, Invariant, PTL DEF Spec, RejectionChangesNothing

\* Every method of the graph leaves behind maps that agree, no trace of a node
\* that was removed, and no cycle.
THEOREM WellFormedCorrect == Spec => []WellFormed
<1>1. TypeOK /\ Mirror /\ NoDangling /\ Acyclic => WellFormed
  BY DEF WellFormed
<1>2. QED BY TypeCorrect, MirrorCorrect, NoDanglingCorrect, AcyclicCorrect, <1>1, PTL

-----------------------------------------------------------------------------
(* The search: R is the relation, s the start, the rest are the variables  *)
(* of dfs.                                                                 *)

Colours == {"white", "grey", "black"}

SearchTypes(s, col, p, rst, f) ==
    /\ s \in Chains
    /\ col \in [Chains -> Colours]
    /\ p \in Seq(Chains)
    /\ rst \in [Chains -> SUBSET Chains]
    /\ f \in BOOLEAN

\* The grey nodes are those on the path, which is a path of R from the start.
GreyPath(R, s, col, p) ==
    /\ \A c \in Chains : col[c] = "grey" <=> \E i \in 1..Len(p) : p[i] = c
    /\ \A i, j \in 1..Len(p) : p[i] = p[j] => i = j
    /\ \A i \in 1..Len(p) : i + 1 \in 1..Len(p) => <<p[i], p[i + 1]>> \in R
    /\ \A i \in 1..Len(p) : p[i] \in Reachable(R, s)
    /\ p # <<>> => p[1] = s
    /\ p = <<>> => col[s] = "black"

\* What a loop has come to is black, or is the next node on the path.
LoopsCame(R, col, p, rst) ==
    \A i \in 1..Len(p) : \A d \in Chains :
        <<p[i], d>> \in R /\ d \notin rst[p[i]] =>
            col[d] = "black" \/ (i + 1 \in 1..Len(p) /\ d = p[i + 1])

LoopsAhead(R, p, rst) ==
    \A i \in 1..Len(p) : \A d \in rst[p[i]] : <<p[i], d>> \in R

\* Nothing leads out of the black nodes, and there is no cycle among them.
BlackDone(R, col) ==
    /\ \A c, d \in Chains : col[c] = "black" /\ <<c, d>> \in R => col[d] = "black"
    /\ \A S \in SUBSET Chains : Endless(R, S) => \E c \in S : col[c] # "black"

SearchInv(R, s, col, p, rst, f) ==
    /\ SearchTypes(s, col, p, rst, f)
    /\ GreyPath(R, s, col, p)
    /\ LoopsCame(R, col, p, rst)
    /\ LoopsAhead(R, p, rst)
    /\ BlackDone(R, col)
    /\ f => CycleFrom(R, s)

After(R, c) == {d \in Chains : <<c, d>> \in R}

\* The search begins with its start grey and everything else white.
LEMMA SearchStarts ==
    ASSUME NEW R \in SUBSET Pairs, NEW s \in Chains
    PROVE  SearchInv(R, s, [d \in Chains |-> IF d = s THEN "grey" ELSE "white"], <<s>>,
                     [d \in Chains |-> IF d = s THEN After(R, s) ELSE {}], FALSE)
<1> DEFINE col == [d \in Chains |-> IF d = s THEN "grey" ELSE "white"]
           p == <<s>>
           rst == [d \in Chains |-> IF d = s THEN After(R, s) ELSE {}]
<1>1. Len(p) = 1 /\ p[1] = s /\ p \in Seq(Chains) /\ p # <<>>
  OBVIOUS
<1>2. SearchTypes(s, col, p, rst, FALSE)
  BY <1>1 DEF SearchTypes, Colours, After
<1>3. s \in Reachable(R, s)
  BY DEF Reachable
<1>4. GreyPath(R, s, col, p)
  BY <1>1, <1>3 DEF GreyPath
<1>5. LoopsCame(R, col, p, rst)
  BY <1>1 DEF LoopsCame, After
<1>6. LoopsAhead(R, p, rst)
  BY <1>1 DEF LoopsAhead, After
<1>7. BlackDone(R, col)
  <2>1. \A c \in Chains : col[c] # "black"
    OBVIOUS
  <2>2. QED BY <2>1 DEF BlackDone, Endless
<1>8. QED BY <1>2, <1>4, <1>5, <1>6, <1>7 DEF SearchInv

\* From the last node on the path to a grey one: the path in between is a cycle.
LEMMA GreyIsCycle ==
    ASSUME NEW R \in SUBSET Pairs, NEW s, NEW col, NEW p, NEW rst, NEW f,
           SearchInv(R, s, col, p, rst, f), p # <<>>,
           NEW n \in rst[p[Len(p)]], col[n] = "grey"
    PROVE  CycleFrom(R, s)
<1> DEFINE L == Len(p)
<1>1. p \in Seq(Chains) /\ L \in 1..Len(p) /\ L \in Nat /\ rst[p[L]] \in SUBSET Chains
  BY DEF SearchInv, SearchTypes
<1>2. PICK j \in 1..L : p[j] = n
  BY <1>1 DEF SearchInv, GreyPath
<1>3. <<p[L], n>> \in R
  BY <1>1 DEF SearchInv, LoopsAhead
<1> DEFINE S == {p[i] : i \in j..L}
<1>4. S \in SUBSET Reachable(R, s)
  BY <1>1, <1>2 DEF SearchInv, GreyPath
<1>5. \A i \in j..L : \E d \in S : <<p[i], d>> \in R
  <2>1. SUFFICES ASSUME NEW i \in j..L PROVE \E d \in S : <<p[i], d>> \in R
    OBVIOUS
  <2>2. CASE i = L
    <3>1. j \in j..L
      BY <1>1, <1>2
    <3>2. p[j] \in S
      BY <3>1
    <3>3. QED BY <1>2, <1>3, <2>2, <3>2
  <2>3. CASE i # L
    <3>1. i \in 1..Len(p) /\ i + 1 \in 1..Len(p) /\ i + 1 \in j..L
      BY <1>1, <1>2, <2>3
    <3>2. <<p[i], p[i + 1]>> \in R
      BY <3>1 DEF SearchInv, GreyPath
    <3>3. QED BY <3>1, <3>2
  <2>4. QED BY <2>2, <2>3
<1>6. Endless(R, S)
  <2>1. L \in j..L
    BY <1>1, <1>2
  <2>2. QED BY <1>5, <2>1 DEF Endless
<1>7. QED BY <1>4, <1>6 DEF CycleFrom

\* The loop passes over a black node.
LEMMA BlackIsPassed ==
    ASSUME NEW R \in SUBSET Pairs, NEW s, NEW col, NEW p, NEW rst, NEW f,
           SearchInv(R, s, col, p, rst, f), p # <<>>,
           NEW n \in rst[p[Len(p)]], col[n] = "black"
    PROVE  SearchInv(R, s, col, p, [rst EXCEPT ![p[Len(p)]] = @ \ {n}], f)
<1> DEFINE c0 == p[Len(p)]
           r2 == [rst EXCEPT ![p[Len(p)]] = @ \ {n}]
<1>1. p \in Seq(Chains) /\ Len(p) \in 1..Len(p) /\ c0 \in Chains /\ rst \in [Chains -> SUBSET Chains]
  BY DEF SearchInv, SearchTypes
<1>2. r2 \in [Chains -> SUBSET Chains] /\ r2[c0] = rst[c0] \ {n}
      /\ \A c \in Chains : c # c0 => r2[c] = rst[c]
  BY <1>1
<1>3. \A i \in 1..Len(p) : p[i] \in Chains
  BY <1>1
<1> HIDE DEF r2, c0
<1>4. SearchTypes(s, col, p, r2, f)
  BY <1>2 DEF SearchInv, SearchTypes
<1>5. LoopsCame(R, col, p, r2)
  <2>1. SUFFICES ASSUME NEW i \in 1..Len(p), NEW d \in Chains, <<p[i], d>> \in R, d \notin r2[p[i]]
                 PROVE  col[d] = "black" \/ (i + 1 \in 1..Len(p) /\ d = p[i + 1])
    BY DEF LoopsCame
  <2>2. d \notin rst[p[i]] \/ d = n
    BY <1>2, <1>3, <2>1
  <2>3. QED BY <2>1, <2>2 DEF SearchInv, LoopsCame
<1>6. LoopsAhead(R, p, r2)
  <2>1. \A i \in 1..Len(p) : r2[p[i]] \subseteq rst[p[i]]
    BY <1>2, <1>3
  <2>2. QED BY <2>1 DEF SearchInv, LoopsAhead
<1>7. SearchInv(R, s, col, p, r2, f)
  BY <1>4, <1>5, <1>6 DEF SearchInv
<1>8. QED BY <1>7 DEF r2

\* A white node becomes the end of the path.
LEMMA WhiteIsEntered ==
    ASSUME NEW R \in SUBSET Pairs, NEW s, NEW col, NEW p, NEW rst, NEW f,
           SearchInv(R, s, col, p, rst, f), p # <<>>,
           NEW n \in rst[p[Len(p)]], col[n] = "white"
    PROVE  SearchInv(R, s, [col EXCEPT ![n] = "grey"], Append(p, n),
                     [rst EXCEPT ![p[Len(p)]] = @ \ {n}, ![n] = After(R, n)], f)
<1> DEFINE c0 == p[Len(p)]
           col2 == [col EXCEPT ![n] = "grey"]
           p2 == Append(p, n)
           r2 == [rst EXCEPT ![p[Len(p)]] = @ \ {n}, ![n] = After(R, n)]
           L == Len(p)
<1>1. /\ s \in Chains
      /\ p \in Seq(Chains) /\ L \in 1..L /\ L \in Nat
      /\ c0 \in Chains /\ rst \in [Chains -> SUBSET Chains]
      /\ col \in [Chains -> Colours]
  BY DEF SearchInv, SearchTypes
<1>2. n \in Chains
  BY <1>1
<1>3. /\ p2 \in Seq(Chains) /\ Len(p2) = L + 1 /\ p2[L + 1] = n
      /\ \A i \in 1..L : p2[i] = p[i]
      /\ p2 # <<>>
  BY <1>1, <1>2
<1>4. \A i \in 1..L : p[i] \in Chains /\ p[i] # n
  <2>1. \A i \in 1..L : col[p[i]] = "grey"
    BY <1>1 DEF SearchInv, GreyPath
  <2>2. QED BY <1>1, <2>1
<1>5. c0 # n
  BY <1>1, <1>4
<1>6. /\ r2 \in [Chains -> SUBSET Chains]
      /\ r2[c0] = rst[c0] \ {n}
      /\ r2[n] = After(R, n)
      /\ \A c \in Chains : c # c0 /\ c # n => r2[c] = rst[c]
  BY <1>1, <1>2, <1>5 DEF After
<1>7. /\ col2 \in [Chains -> Colours] /\ col2[n] = "grey"
      /\ \A c \in Chains : c # n => col2[c] = col[c]
      /\ \A c \in Chains : col2[c] = "black" <=> col[c] = "black"
  BY <1>1, <1>2 DEF Colours
<1>8. <<c0, n>> \in R
  BY <1>1 DEF SearchInv, LoopsAhead
<1>9. 1..(L + 1) = 1..L \union {L + 1}
  BY <1>1
<1> HIDE DEF c0, col2, p2, r2
<1>10. SearchTypes(s, col2, p2, r2, f)
  BY <1>1, <1>3, <1>6, <1>7 DEF SearchInv, SearchTypes
<1>11. GreyPath(R, s, col2, p2)
  <2>1. \A c \in Chains : col2[c] = "grey" <=> \E i \in 1..Len(p2) : p2[i] = c
    <3>1. TAKE c \in Chains
    <3>2. CASE c = n
      BY <1>1, <1>3, <1>7, <1>9, <3>2
    <3>3. CASE c # n
      <4>1. col[c] = "grey" <=> \E i \in 1..L : p[i] = c
        BY DEF SearchInv, GreyPath
      <4>2. QED BY <1>3, <1>7, <1>9, <3>3, <4>1
    <3>4. QED BY <3>2, <3>3
  <2>2. \A i, j \in 1..Len(p2) : p2[i] = p2[j] => i = j
    <3>1. \A i, j \in 1..L : p[i] = p[j] => i = j
      BY DEF SearchInv, GreyPath
    <3>2. QED BY <1>3, <1>4, <1>9, <3>1
  <2>3. \A i \in 1..Len(p2) : i + 1 \in 1..Len(p2) => <<p2[i], p2[i + 1]>> \in R
    <3>1. SUFFICES ASSUME NEW i \in 1..Len(p2), i + 1 \in 1..Len(p2)
                   PROVE  <<p2[i], p2[i + 1]>> \in R
      OBVIOUS
    <3>2. CASE i = L
      BY <1>1, <1>3, <1>8, <3>2 DEF c0
    <3>3. CASE i # L
      <4>1. i \in 1..L /\ i + 1 \in 1..L
        BY <1>1, <1>3, <3>1, <3>3
      <4>2. <<p[i], p[i + 1]>> \in R
        BY <4>1 DEF SearchInv, GreyPath
      <4>3. QED BY <1>3, <4>1, <4>2
    <3>4. QED BY <3>2, <3>3
  <2>4. \A i \in 1..Len(p2) : p2[i] \in Reachable(R, s)
    <3>1. \A i \in 1..L : p[i] \in Reachable(R, s)
      BY DEF SearchInv, GreyPath
    <3>2. c0 \in Reachable(R, s)
      BY <1>1, <3>1 DEF c0
    <3>3. n \in Reachable(R, s)
      BY <1>1, <1>2, <1>8, <3>2, ReachableStep
    <3>4. QED BY <1>3, <1>9, <3>1, <3>3
  <2>5. p2[1] = s
    <3>1. p[1] = s
      BY DEF SearchInv, GreyPath
    <3>2. QED BY <1>1, <1>3, <3>1
  <2>6. QED BY <1>3, <2>1, <2>2, <2>3, <2>4, <2>5 DEF GreyPath
<1>12. LoopsCame(R, col2, p2, r2)
  <2>1. SUFFICES ASSUME NEW i \in 1..Len(p2), NEW d \in Chains, <<p2[i], d>> \in R, d \notin r2[p2[i]]
                 PROVE  col2[d] = "black" \/ (i + 1 \in 1..Len(p2) /\ d = p2[i + 1])
    BY DEF LoopsCame
  <2>2. i # L + 1
    BY <1>3, <1>6, <2>1 DEF After
  <2>3. i \in 1..L /\ p2[i] = p[i] /\ p[i] # n
    BY <1>3, <1>4, <1>9, <2>2
  <2>4. CASE d \notin rst[p[i]]
    <3>1. col[d] = "black" \/ (i + 1 \in 1..L /\ d = p[i + 1])
      BY <2>1, <2>3, <2>4 DEF SearchInv, LoopsCame
    <3>2. i + 1 \in 1..L => i + 1 \in 1..Len(p2) /\ p2[i + 1] = p[i + 1]
      BY <1>3, <1>9
    <3>3. QED BY <1>7, <3>1, <3>2
  <2>5. CASE d \in rst[p[i]]
    <3>1. p[i] = c0 /\ d = n
      BY <1>4, <1>6, <2>1, <2>3, <2>5
    <3>2. i = L
      BY <1>1, <2>3, <3>1 DEF SearchInv, GreyPath, c0
    <3>3. QED BY <1>1, <1>3, <3>1, <3>2
  <2>6. QED BY <2>4, <2>5
<1>13. LoopsAhead(R, p2, r2)
  <2>1. SUFFICES ASSUME NEW i \in 1..Len(p2), NEW d \in r2[p2[i]] PROVE <<p2[i], d>> \in R
    BY DEF LoopsAhead
  <2>2. CASE i = L + 1
    BY <1>3, <1>6, <2>2 DEF After
  <2>3. CASE i # L + 1
    <3>1. i \in 1..L /\ p2[i] = p[i] /\ p[i] # n
      BY <1>3, <1>4, <1>9, <2>3
    <3>2. d \in rst[p[i]]
      BY <1>4, <1>6, <3>1
    <3>3. QED BY <3>1, <3>2 DEF SearchInv, LoopsAhead
  <2>4. QED BY <2>2, <2>3
<1>14. BlackDone(R, col2)
  <2>1. BlackDone(R, col)
    BY DEF SearchInv
  <2>2. QED BY <1>7, <2>1 DEF BlackDone
<1>15. SearchInv(R, s, col2, p2, r2, f)
  BY <1>10, <1>11, <1>12, <1>13, <1>14 DEF SearchInv
<1>16. QED BY <1>15 DEF col2, p2, r2

\* A node whose successors are all black becomes black itself: a cycle among the
\* black nodes would be one without it.
LEMMA DoneIsBlack ==
    ASSUME NEW R \in SUBSET Pairs, NEW s, NEW col, NEW p, NEW rst, NEW f,
           SearchInv(R, s, col, p, rst, f), p # <<>>, rst[p[Len(p)]] = {}
    PROVE  SearchInv(R, s, [col EXCEPT ![p[Len(p)]] = "black"], SubSeq(p, 1, Len(p) - 1), rst, f)
<1> DEFINE c0 == p[Len(p)]
           col2 == [col EXCEPT ![p[Len(p)]] = "black"]
           p2 == SubSeq(p, 1, Len(p) - 1)
           L == Len(p)
<1>1. /\ s \in Chains
      /\ p \in Seq(Chains) /\ L \in 1..L /\ L \in Nat /\ L # 0
      /\ c0 \in Chains /\ rst \in [Chains -> SUBSET Chains]
      /\ col \in [Chains -> Colours]
  BY DEF SearchInv, SearchTypes
<1>2. /\ p2 \in Seq(Chains) /\ Len(p2) = L - 1
      /\ \A i \in 1..(L - 1) : p2[i] = p[i]
  <2>1. p2 = [i \in 1..(L - 1) |-> p[i]]
    BY <1>1
  <2>2. \A i \in 1..(L - 1) : p[i] \in Chains
    BY <1>1
  <2>3. L - 1 \in Nat
    BY <1>1
  <2> HIDE DEF p2
  <2>4. p2 \in Seq(Chains)
    BY <2>1, <2>2, <2>3
  <2>5. DOMAIN p2 = 1..(L - 1) /\ \A i \in 1..(L - 1) : p2[i] = p[i]
    BY <2>1
  <2>6. Len(p2) = L - 1
    BY <2>3, <2>4, <2>5
  <2>7. QED BY <2>4, <2>5, <2>6
<1>3. 1..L = 1..(L - 1) \union {L} /\ L \notin 1..(L - 1)
  BY <1>1
<1>4. /\ col2 \in [Chains -> Colours] /\ col2[c0] = "black"
      /\ \A c \in Chains : c # c0 => col2[c] = col[c]
  BY <1>1 DEF Colours
<1>5. col[c0] = "grey"
  BY <1>1 DEF SearchInv, GreyPath
<1>6. \A i \in 1..(L - 1) : p[i] # c0 /\ p[i] \in Chains
  BY <1>1, <1>3 DEF SearchInv, GreyPath
<1>7. \A d \in Chains : <<c0, d>> \in R => col[d] = "black"
  <2>1. ASSUME NEW d \in Chains, <<c0, d>> \in R PROVE col[d] = "black"
    <3>1. d \notin rst[p[L]]
      OBVIOUS
    <3>2. L + 1 \notin 1..L
      BY <1>1
    <3>3. QED BY <1>1, <2>1, <3>1, <3>2 DEF SearchInv, LoopsCame
  <2>2. QED BY <2>1
<1>8. \A c \in Chains : col[c] = "black" => col2[c] = "black"
  BY <1>4
<1> HIDE DEF c0, col2, p2
<1>9. SearchTypes(s, col2, p2, rst, f)
  BY <1>1, <1>2, <1>4 DEF SearchInv, SearchTypes
<1>10. GreyPath(R, s, col2, p2)
  <2>1. \A c \in Chains : col2[c] = "grey" <=> \E i \in 1..Len(p2) : p2[i] = c
    <3>1. TAKE c \in Chains
    <3>2. CASE c = c0
      BY <1>2, <1>4, <1>6, <3>2
    <3>3. CASE c # c0
      <4>1. col[c] = "grey" <=> \E i \in 1..L : p[i] = c
        BY DEF SearchInv, GreyPath
      <4>2. p[L] # c
        BY <3>3 DEF c0
      <4>3. QED BY <1>2, <1>3, <1>4, <3>3, <4>1, <4>2
    <3>4. QED BY <3>2, <3>3
  <2>2. \A i, j \in 1..Len(p2) : p2[i] = p2[j] => i = j
    BY <1>2, <1>3 DEF SearchInv, GreyPath
  <2>3. \A i \in 1..Len(p2) : i + 1 \in 1..Len(p2) => <<p2[i], p2[i + 1]>> \in R
    <3>1. SUFFICES ASSUME NEW i \in 1..Len(p2), i + 1 \in 1..Len(p2)
                   PROVE  <<p2[i], p2[i + 1]>> \in R
      OBVIOUS
    <3>2. i \in 1..L /\ i + 1 \in 1..L /\ p2[i] = p[i] /\ p2[i + 1] = p[i + 1]
      BY <1>2, <1>3, <3>1
    <3>3. <<p[i], p[i + 1]>> \in R
      BY <3>2 DEF SearchInv, GreyPath
    <3>4. QED BY <3>2, <3>3
  <2>4. \A i \in 1..Len(p2) : p2[i] \in Reachable(R, s)
    BY <1>2, <1>3 DEF SearchInv, GreyPath
  <2>5. p[1] = s
    BY DEF SearchInv, GreyPath
  <2>6. p2 # <<>> => p2[1] = s
    <3>1. p2 # <<>> => 1 \in 1..(L - 1)
      BY <1>1, <1>2
    <3>2. QED BY <1>2, <2>5, <3>1
  <2>7. p2 = <<>> => col2[s] = "black"
    <3>1. p2 = <<>> => L = 1
      BY <1>1, <1>2
    <3>2. QED BY <1>4, <2>5, <3>1 DEF c0
  <2>8. QED BY <2>1, <2>2, <2>3, <2>4, <2>6, <2>7 DEF GreyPath
<1>11. LoopsCame(R, col2, p2, rst)
  <2>1. SUFFICES ASSUME NEW i \in 1..Len(p2), NEW d \in Chains, <<p2[i], d>> \in R, d \notin rst[p2[i]]
                 PROVE  col2[d] = "black" \/ (i + 1 \in 1..Len(p2) /\ d = p2[i + 1])
    BY DEF LoopsCame
  <2>2. i \in 1..L /\ i \in 1..(L - 1) /\ p2[i] = p[i]
    BY <1>2, <1>3
  <2>3. col[d] = "black" \/ (i + 1 \in 1..L /\ d = p[i + 1])
    BY <2>1, <2>2 DEF SearchInv, LoopsCame
  <2>4. CASE i + 1 \in 1..(L - 1)
    BY <1>2, <1>8, <2>3, <2>4
  <2>5. CASE i + 1 \notin 1..(L - 1)
    <3>1. i + 1 = L
      BY <1>1, <2>2, <2>5
    <3>2. QED BY <1>4, <1>8, <2>3, <3>1 DEF c0
  <2>6. QED BY <2>4, <2>5
<1>12. LoopsAhead(R, p2, rst)
  BY <1>2, <1>3 DEF SearchInv, LoopsAhead
<1>13. BlackDone(R, col2)
  <2>1. BlackDone(R, col)
    BY DEF SearchInv
  <2>2. \A c, d \in Chains : col2[c] = "black" /\ <<c, d>> \in R => col2[d] = "black" /\ col[d] = "black"
    BY <1>4, <1>7, <1>8, <2>1 DEF BlackDone
  <2>3. ASSUME NEW S \in SUBSET Chains, Endless(R, S), \A c \in S : col2[c] = "black"
        PROVE  FALSE
    <3> DEFINE T == {c \in S : col[c] = "black"}
    <3>1. \A c \in S : \E d \in T : <<c, d>> \in R
      BY <2>2, <2>3 DEF Endless
    <3>2. Endless(R, T)
      BY <2>3, <3>1 DEF Endless
    <3>3. T \in SUBSET Chains
      OBVIOUS
    <3>4. QED BY <2>1, <3>2, <3>3 DEF BlackDone
  <2>4. QED BY <2>2, <2>3 DEF BlackDone
<1>14. SearchInv(R, s, col2, p2, rst, f)
  BY <1>9, <1>10, <1>11, <1>12, <1>13 DEF SearchInv
<1>15. QED BY <1>14 DEF col2, p2

\* When the search is over it has found a cycle exactly if there is one to reach:
\* otherwise all that can be reached is black.
LEMMA SearchEnds ==
    ASSUME NEW R \in SUBSET Pairs, NEW s, NEW col, NEW p, NEW rst, NEW f,
           SearchInv(R, s, col, p, rst, f), p = <<>> \/ f
    PROVE  f <=> CycleFrom(R, s)
<1>1. f => CycleFrom(R, s)
  BY DEF SearchInv
<1>2. ASSUME p = <<>>, CycleFrom(R, s) PROVE FALSE
  <2> DEFINE B == {c \in Chains : col[c] = "black"}
  <2>1. s \in B /\ BlackDone(R, col) /\ s \in Chains
    BY <1>2 DEF SearchInv, SearchTypes, GreyPath
  <2>2. \A c \in B : \A d \in Chains : <<c, d>> \in R => d \in B
    BY <2>1 DEF BlackDone
  <2>3. Reachable(R, s) \subseteq B
    <3>1. B \in SUBSET Chains
      OBVIOUS
    <3> HIDE DEF B
    <3>2. QED BY <2>1, <2>2, <3>1, ReachableWithin
  <2>4. PICK S \in SUBSET Reachable(R, s) : Endless(R, S)
    BY <1>2 DEF CycleFrom
  <2>5. S \in SUBSET Chains /\ \A c \in S : col[c] = "black"
    BY <2>3
  <2>6. QED BY <2>1, <2>4, <2>5 DEF BlackDone
<1>3. f \in BOOLEAN
  BY DEF SearchInv, SearchTypes
<1>4. QED BY <1>1, <1>2, <1>3

-----------------------------------------------------------------------------
(* The occurrences of edges, and what follows if every node has one       *)

\* A finite set whose members all have a predecessor in it holds a cycle: a
\* smallest such set has no member without a successor.
LEMMA PredecessorsMakeCycle ==
    ASSUME NEW R, NEW U \in SUBSET Chains, U # {}, \A c \in U : \E d \in U : <<d, c>> \in R
    PROVE  Cyclic(R)
<1> DEFINE Fed(T) == T # {} /\ \A c \in T : \E d \in T : <<d, c>> \in R
           Family == {T \in SUBSET Chains : Fed(T)}
<1>1. Family \subseteq FiniteSubsetsOf(Chains)
  <2>1. \A T \in SUBSET Chains : IsFiniteSet(T)
    BY ChainsFinite, FS_Subset
  <2>2. QED BY <2>1 DEF FiniteSubsetsOf
<1>2. U \in Family
  OBVIOUS
<1>3. PICK T \in Family : \A V \in Family : <<V, T>> \notin StrictSubsetOrdering(Chains)
  <2> HIDE DEF Family
  <2>1. Family # {}
    BY <1>2
  <2>2. QED BY <1>1, <2>1, FS_StrictSubsetOrderingWellFounded, WFMin
<1>4. \A V \in Family : V \subseteq T => V = T
  BY <1>3 DEF StrictSubsetOrdering
<1>5. Endless(R, T)
  <2>1. SUFFICES ASSUME NEW c \in T, \A d \in T : <<c, d>> \notin R
                 PROVE  FALSE
    BY DEF Endless
  <2> DEFINE V == T \ {c}
  <2>2. \A b \in T : \E d \in V : <<d, b>> \in R
    BY <2>1
  <2>3. V \in Family
    BY <2>1, <2>2
  <2>4. QED BY <1>4, <2>3
<1>6. QED BY <1>5 DEF Cyclic

\* There are finitely many occurrences of edges.
LEMMA OccurrencesFinite ==
    ASSUME NEW E, NEW S \in SUBSET Occurrences(E)
    PROVE  IsFiniteSet(S)
<1>1. IsFiniteSet(1..MaxParallel)
  BY MaxParallelNat, FS_Interval
<1>2. IsFiniteSet(Pairs)
  BY ChainsFinite, FS_Product DEF Pairs
<1>3. IsFiniteSet(Pairs \X (1..MaxParallel))
  BY <1>1, <1>2, FS_Product
<1>4. S \in SUBSET (Pairs \X (1..MaxParallel))
  BY DEF Occurrences
<1>5. QED BY <1>3, <1>4, FS_Subset

\* Every edge occurs in a list, and every occurrence is of an edge.
LEMMA OccurrencesAreEdges ==
    ASSUME NEW E \in [Pairs -> 0..MaxParallel]
    PROVE  /\ \A o \in Occurrences(E) : o[1] \in Linked(E) /\ o[1][1] \in Chains /\ o[1][2] \in Chains
                                        /\ o[1] = <<o[1][1], o[1][2]>>
           /\ \A p \in Linked(E) : <<p, 1>> \in Occurrences(E)
<1>1. ASSUME NEW o \in Occurrences(E)
      PROVE  /\ o[1] \in Linked(E) /\ o[1][1] \in Chains /\ o[1][2] \in Chains
             /\ o[1] = <<o[1][1], o[1][2]>>
  <2>1. o[1] \in Pairs /\ o[2] \in 1..MaxParallel /\ o[2] <= E[o[1]]
    BY DEF Occurrences
  <2>2. E[o[1]] \in 0..MaxParallel
    BY <2>1
  <2>3. E[o[1]] > 0
    BY <2>1, <2>2, MaxParallelNat
  <2>4. QED BY <2>1, <2>3 DEF Linked, Pairs
<1>2. ASSUME NEW p \in Linked(E) PROVE <<p, 1>> \in Occurrences(E)
  <2>1. p \in Pairs /\ E[p] > 0 /\ E[p] \in 0..MaxParallel
    BY DEF Linked
  <2>2. 1 \in 1..MaxParallel /\ 1 <= E[p]
    BY <2>1, MaxParallelNat
  <2>3. <<p, 1>>[1] = p /\ <<p, 1>>[2] = 1 /\ <<p, 1>> \in Pairs \X (1..MaxParallel)
    BY <2>1, <2>2
  <2>4. QED BY <2>2, <2>3 DEF Occurrences
<1>3. QED BY <1>1, <1>2

-----------------------------------------------------------------------------
(* TopoSort: N are the nodes, E the lists, the rest are its variables.     *)

NoTwice(ord) == \A i, j \in 1..Len(ord) : ord[i] = ord[j] => i = j
OnceIn(ord, c) == \E i \in 1..Len(ord) : ord[i] = c

CollectInv(N, E, deg, ord, td) ==
    /\ deg \in [Chains -> Nat]
    /\ ord \in Seq(Chains)
    /\ td \in SUBSET N
    /\ \A c \in Chains : deg[c] = Cardinality(Into(E, c))
    /\ NoTwice(ord)
    /\ \A c \in Chains : OnceIn(ord, c) <=> c \in N \ td /\ deg[c] = 0

\* What is left of the edges into c.
Left(E, ord, n, lst, c) ==
    {o \in Into(E, c) : (\A i \in 1..n : ord[i] # o[1][1]) \/ o \in lst}

SortTypes(E, deg, ord, n, lst) ==
    /\ deg \in [Chains -> Nat]
    /\ ord \in Seq(Chains)
    /\ n \in 0..Len(ord)
    /\ lst \in SUBSET Occurrences(E)
    /\ \A o \in lst : n # 0 /\ o[1][1] = ord[n]

\* Each node of the order comes after those that refer to it.
InOrder(E, ord) ==
    \A i \in 1..Len(ord) : \A o \in Into(E, ord[i]) : \E j \in 1..Len(ord) : j < i /\ ord[j] = o[1][1]

SortInv(N, E, deg, ord, n, lst) ==
    /\ SortTypes(E, deg, ord, n, lst)
    /\ \A c \in Chains : deg[c] = Cardinality(Left(E, ord, n, lst, c))
    /\ NoTwice(ord)
    /\ \A c \in Chains : OnceIn(ord, c) <=> c \in N /\ deg[c] = 0
    /\ InOrder(E, ord)

\* An order to which a new node is appended.
LEMMA Appended ==
    ASSUME NEW ord \in Seq(Chains), NEW c \in Chains, ~OnceIn(ord, c), NoTwice(ord)
    PROVE  /\ Append(ord, c) \in Seq(Chains)
           /\ Len(Append(ord, c)) = Len(ord) + 1
           /\ \A i \in 1..Len(ord) : Append(ord, c)[i] = ord[i]
           /\ Append(ord, c)[Len(ord) + 1] = c
           /\ 1..(Len(ord) + 1) = 1..Len(ord) \union {Len(ord) + 1}
           /\ NoTwice(Append(ord, c))
           /\ \A d \in Chains : OnceIn(Append(ord, c), d) <=> OnceIn(ord, d) \/ d = c
<1> DEFINE a == Append(ord, c)
           L == Len(ord)
<1>1. /\ a \in Seq(Chains)
      /\ Len(a) = L + 1
      /\ \A i \in 1..L : a[i] = ord[i]
      /\ a[L + 1] = c
      /\ L \in Nat
  OBVIOUS
<1>2. 1..(L + 1) = 1..L \union {L + 1}
  BY <1>1
<1> HIDE DEF a
<1>3. \A i \in 1..L : ord[i] # c
  BY DEF OnceIn
<1>4. NoTwice(a)
  <2>1. \A i, j \in 1..L : ord[i] = ord[j] => i = j
    BY DEF NoTwice
  <2>2. QED BY <1>1, <1>2, <1>3, <2>1 DEF NoTwice
<1>5. \A d \in Chains : OnceIn(a, d) <=> OnceIn(ord, d) \/ d = c
  <2>1. TAKE d \in Chains
  <2>2. OnceIn(a, d) <=> (\E i \in 1..L : a[i] = d) \/ a[L + 1] = d
    BY <1>1, <1>2 DEF OnceIn
  <2>3. (\E i \in 1..L : a[i] = d) <=> OnceIn(ord, d)
    BY <1>1 DEF OnceIn
  <2>4. QED BY <1>1, <2>2, <2>3
<1>6. QED BY <1>1, <1>2, <1>4, <1>5 DEF a

\* TopoSort begins: the degrees are counted, no node has been looked at.
LEMMA CollectStarts ==
    ASSUME NEW N \in SUBSET Chains, NEW E
    PROVE  CollectInv(N, E, [c \in Chains |-> Cardinality(Into(E, c))], <<>>, N)
<1>1. \A c \in Chains : Cardinality(Into(E, c)) \in Nat
  <2>1. \A c \in Chains : Into(E, c) \in SUBSET Occurrences(E)
    BY DEF Into
  <2>2. QED BY <2>1, OccurrencesFinite, FS_CardinalityType
<1>2. Len(<<>>) = 0 /\ <<>> \in Seq(Chains) /\ 1..0 = {}
  OBVIOUS
<1>3. NoTwice(<<>>) /\ \A c : ~OnceIn(<<>>, c)
  BY <1>2 DEF NoTwice, OnceIn
<1>4. QED BY <1>1, <1>2, <1>3 DEF CollectInv

\* It looks at one node.
LEMMA CollectGoesOn ==
    ASSUME NEW N \in SUBSET Chains, NEW E, NEW deg, NEW ord, NEW td, CollectInv(N, E, deg, ord, td),
           NEW c \in td
    PROVE  CollectInv(N, E, deg, IF deg[c] = 0 THEN Append(ord, c) ELSE ord, td \ {c})
<1>1. /\ c \in Chains /\ ~OnceIn(ord, c)
      /\ ord \in Seq(Chains) /\ NoTwice(ord)
  BY DEF CollectInv
<1>2. CASE deg[c] = 0
  <2> DEFINE a == Append(ord, c)
  <2>1. a \in Seq(Chains) /\ NoTwice(a) /\ \A d \in Chains : OnceIn(a, d) <=> OnceIn(ord, d) \/ d = c
    BY <1>1, Appended
  <2> HIDE DEF a
  <2>2. CollectInv(N, E, deg, a, td \ {c})
    BY <1>2, <2>1 DEF CollectInv
  <2>3. QED BY <1>2, <2>2 DEF a
<1>3. CASE deg[c] # 0
  BY <1>3 DEF CollectInv
<1>4. QED BY <1>2, <1>3

\* It has looked at all of them: the queue holds the nodes that nothing enters.
LEMMA SortStarts ==
    ASSUME NEW N \in SUBSET Chains, NEW E, NEW deg, NEW ord, CollectInv(N, E, deg, ord, {})
    PROVE  SortInv(N, E, deg, ord, 0, {})
<1>1. /\ deg \in [Chains -> Nat] /\ ord \in Seq(Chains)
      /\ NoTwice(ord)
      /\ \A c \in Chains : OnceIn(ord, c) <=> c \in N /\ deg[c] = 0
  BY DEF CollectInv
<1>2. SortTypes(E, deg, ord, 0, {})
  BY <1>1 DEF SortTypes
<1>3. \A c \in Chains : Left(E, ord, 0, {}, c) = Into(E, c)
  BY DEF Left
<1>4. \A c \in Chains : deg[c] = Cardinality(Left(E, ord, 0, {}, c))
  BY <1>3 DEF CollectInv
<1>5. InOrder(E, ord)
  <2>1. SUFFICES ASSUME NEW i \in 1..Len(ord) PROVE Into(E, ord[i]) = {}
    BY DEF InOrder
  <2>2. ord[i] \in Chains
    BY <1>1
  <2>3. Cardinality(Into(E, ord[i])) = 0
    <3>1. OnceIn(ord, ord[i])
      BY DEF OnceIn
    <3>2. deg[ord[i]] = 0
      BY <1>1, <2>2, <3>1
    <3>3. QED BY <2>2, <3>2 DEF CollectInv
  <2>4. IsFiniteSet(Into(E, ord[i]))
    BY OccurrencesFinite DEF Into
  <2>5. QED BY <2>3, <2>4, FS_EmptySet
<1>6. QED BY <1>1, <1>2, <1>4, <1>5 DEF SortInv

\* A node moves from the queue to the result, its edges are to be taken out.
LEMMA NodeIsTaken ==
    ASSUME NEW N \in SUBSET Chains, NEW E, NEW deg, NEW ord, NEW n, SortInv(N, E, deg, ord, n, {}),
           n < Len(ord)
    PROVE  SortInv(N, E, deg, ord, n + 1, From(E, ord[n + 1]))
<1> DEFINE node == ord[n + 1]
           lst == From(E, node)
<1>1. /\ deg \in [Chains -> Nat] /\ ord \in Seq(Chains) /\ n \in Nat /\ Len(ord) \in Nat
      /\ n + 1 \in 1..Len(ord) /\ n + 1 \in 0..Len(ord)
      /\ 1..(n + 1) = 1..n \union {n + 1}
      /\ n + 1 # 0
  BY DEF SortInv, SortTypes
<1>2. SortTypes(E, deg, ord, n + 1, lst)
  BY <1>1 DEF SortTypes, From
<1>3. \A i \in 1..n : ord[i] # node
  <2>1. \A i \in 1..n : i \in 1..Len(ord) /\ i # n + 1
    BY <1>1
  <2>2. QED BY <1>1, <2>1 DEF SortInv, NoTwice
<1>4. \A c \in Chains : Left(E, ord, n + 1, lst, c) = Left(E, ord, n, {}, c)
  <2>1. TAKE c \in Chains
  <2>2. \A o \in Into(E, c) : o \in lst <=> o[1][1] = node
    BY DEF Into, From
  <2>3. \A o \in Into(E, c) : (\A i \in 1..(n + 1) : ord[i] # o[1][1])
                               <=> (\A i \in 1..n : ord[i] # o[1][1]) /\ o[1][1] # node
    BY <1>1
  <2>4. \A o \in Into(E, c) : o[1][1] = node => \A i \in 1..n : ord[i] # o[1][1]
    BY <1>3
  <2> HIDE DEF node, lst
  <2>5. QED BY <2>2, <2>3, <2>4 DEF Left
<1>5. QED BY <1>2, <1>4 DEF SortInv

\* One of its edges is taken out.  A node that loses the last edge into it has all
\* its predecessors in the result, and enters the queue.
LEMMA EdgeIsTakenOut ==
    ASSUME NEW N \in SUBSET Chains, NEW E \in [Pairs -> 0..MaxParallel],
           \A p \in Linked(E) : p[1] \in N /\ p[2] \in N,
           NEW deg, NEW ord, NEW n, NEW lst, SortInv(N, E, deg, ord, n, lst),
           NEW o \in lst
    PROVE  SortInv(N, E, [deg EXCEPT ![o[1][2]] = @ - 1],
                   IF deg[o[1][2]] = 1 THEN Append(ord, o[1][2]) ELSE ord, n, lst \ {o})
<1> DEFINE dep == o[1][2]
           deg2 == [deg EXCEPT ![dep] = @ - 1]
           l2 == lst \ {o}
<1>1. /\ deg \in [Chains -> Nat] /\ ord \in Seq(Chains) /\ n \in 0..Len(ord) /\ Len(ord) \in Nat
      /\ lst \in SUBSET Occurrences(E)
      /\ n # 0 /\ o[1][1] = ord[n]
      /\ n \in 1..Len(ord) /\ n \in 1..n
  BY DEF SortInv, SortTypes
<1>2. o \in Occurrences(E) /\ dep \in Chains /\ dep \in N /\ o \in Into(E, dep)
  <2>1. o[1] \in Linked(E) /\ o[1][2] \in Chains
    BY <1>1, OccurrencesAreEdges
  <2>2. QED BY <1>1, <2>1 DEF Into
<1>3. \A c \in Chains : Left(E, ord, n, l2, c) = Left(E, ord, n, lst, c) \ {o}
  <2>1. ~ \A i \in 1..n : ord[i] # o[1][1]
    BY <1>1
  <2> HIDE DEF dep
  <2>2. QED BY <2>1 DEF Left
<1>4. o \in Left(E, ord, n, lst, dep) /\ \A c \in Chains : c # dep => o \notin Left(E, ord, n, lst, c)
  BY <1>2 DEF Left, Into
<1>5. \A c \in Chains : IsFiniteSet(Left(E, ord, n, lst, c)) /\ deg[c] = Cardinality(Left(E, ord, n, lst, c))
  <2>1. \A c \in Chains : Left(E, ord, n, lst, c) \in SUBSET Occurrences(E)
    BY DEF Left, Into
  <2>2. QED BY <2>1, OccurrencesFinite DEF SortInv
<1> HIDE DEF dep, l2
<1>6. deg[dep] # 0
  BY <1>2, <1>4, <1>5, FS_EmptySet
<1>7. deg2 \in [Chains -> Nat] /\ deg2[dep] = deg[dep] - 1 /\ \A c \in Chains : c # dep => deg2[c] = deg[c]
  BY <1>1, <1>2, <1>6
<1> HIDE DEF deg2
<1>8. \A c \in Chains : deg2[c] = Cardinality(Left(E, ord, n, l2, c))
  <2>1. TAKE c \in Chains
  <2>2. CASE c = dep
    BY <1>2, <1>3, <1>4, <1>5, <1>7, <2>2, FS_RemoveElement
  <2>3. CASE c # dep
    <3>1. Left(E, ord, n, l2, c) = Left(E, ord, n, lst, c)
      BY <1>3, <1>4, <2>3
    <3>2. QED BY <1>5, <1>7, <2>3, <3>1
  <2>4. QED BY <2>2, <2>3
<1>9. ~OnceIn(ord, dep)
  BY <1>2, <1>6 DEF SortInv
<1>10. deg2[dep] = 0 <=> deg[dep] = 1
  BY <1>1, <1>2, <1>7
<1>11. CASE deg[dep] # 1
  <2>1. SortTypes(E, deg2, ord, n, l2)
    BY <1>1, <1>7 DEF SortInv, SortTypes, l2
  <2>2. \A c \in Chains : OnceIn(ord, c) <=> c \in N /\ deg2[c] = 0
    BY <1>2, <1>6, <1>7, <1>10, <1>11 DEF SortInv
  <2>3. SortInv(N, E, deg2, ord, n, l2)
    BY <1>8, <2>1, <2>2 DEF SortInv
  <2>4. QED BY <1>11, <2>3 DEF dep, deg2, l2
<1>12. CASE deg[dep] = 1
  <2> DEFINE a == Append(ord, dep)
             L == Len(ord)
  <2>1. /\ a \in Seq(Chains) /\ Len(a) = L + 1
        /\ \A i \in 1..L : a[i] = ord[i]
        /\ a[L + 1] = dep
        /\ 1..(L + 1) = 1..L \union {L + 1}
        /\ NoTwice(a)
        /\ \A d \in Chains : OnceIn(a, d) <=> OnceIn(ord, d) \/ d = dep
    <3>1. NoTwice(ord)
      BY DEF SortInv
    <3>2. QED BY <1>1, <1>2, <1>9, <3>1, Appended
  <2> HIDE DEF a
  <2>2. n \in 0..Len(a) /\ a[n] = ord[n] /\ \A i \in 1..n : a[i] = ord[i]
    BY <1>1, <2>1
  <2>3. SortTypes(E, deg2, a, n, l2)
    BY <1>1, <1>7, <2>1, <2>2 DEF SortInv, SortTypes, l2
  <2>4. \A c \in Chains : Left(E, a, n, l2, c) = Left(E, ord, n, l2, c)
    BY <2>2 DEF Left
  <2>5. \A c \in Chains : deg2[c] = Cardinality(Left(E, a, n, l2, c))
    BY <1>8, <2>4
  <2>6. \A c \in Chains : OnceIn(a, c) <=> c \in N /\ deg2[c] = 0
    BY <1>2, <1>7, <1>10, <1>12, <2>1 DEF SortInv
  <2>7. InOrder(E, a)
    <3>1. SUFFICES ASSUME NEW i \in 1..Len(a), NEW q \in Into(E, a[i])
                   PROVE  \E j \in 1..Len(a) : j < i /\ a[j] = q[1][1]
      BY DEF InOrder
    <3>2. CASE i = L + 1
      <4>1. q \in Into(E, dep)
        BY <2>1, <3>2
      <4>2. Left(E, ord, n, l2, dep) = {}
        <5>1. Cardinality(Left(E, ord, n, l2, dep)) = 0
          BY <1>2, <1>8, <1>10, <1>12
        <5>2. IsFiniteSet(Left(E, ord, n, l2, dep))
          BY OccurrencesFinite DEF Left, Into
        <5>3. QED BY <5>1, <5>2, FS_EmptySet
      <4>3. \E j \in 1..n : ord[j] = q[1][1]
        BY <4>1, <4>2 DEF Left
      <4>4. QED BY <1>1, <2>1, <2>2, <3>2, <4>3
    <3>3. CASE i # L + 1
      <4>1. i \in 1..L /\ a[i] = ord[i]
        BY <2>1, <3>3
      <4>2. PICK j \in 1..L : j < i /\ ord[j] = q[1][1]
        BY <4>1 DEF SortInv, InOrder
      <4>3. j \in 1..Len(a) /\ a[j] = ord[j]
        BY <2>1
      <4>4. QED BY <4>2, <4>3
    <3>4. QED BY <3>2, <3>3
  <2>8. SortInv(N, E, deg2, a, n, l2)
    BY <2>1, <2>3, <2>5, <2>6, <2>7 DEF SortInv
  <2>9. QED BY <1>12, <2>8 DEF dep, deg2, l2, a
<1>13. QED BY <1>11, <1>12

\* When the queue is empty, nodes left over would each have a predecessor left
\* over: there would be a cycle.
LEMMA SortEnds ==
    ASSUME NEW N \in SUBSET Chains, NEW E \in [Pairs -> 0..MaxParallel],
           \A p \in Linked(E) : p[1] \in N /\ p[2] \in N,
           ~Cyclic(Linked(E)),
           NEW deg, NEW ord, SortInv(N, E, deg, ord, Len(ord), {})
    PROVE  /\ Len(ord) = Cardinality(N)
           /\ {ord[i] : i \in 1..Len(ord)} = N
           /\ \A p \in Linked(E) : \A i, j \in 1..Len(ord) : ord[i] = p[1] /\ ord[j] = p[2] => i < j
<1> DEFINE L == Len(ord)
           Listed == {ord[i] : i \in 1..L}
<1>1. ord \in Seq(Chains) /\ L \in Nat /\ \A i \in 1..L : ord[i] \in Chains
  BY DEF SortInv, SortTypes
<1>2. Listed \subseteq N
  BY <1>1 DEF SortInv, OnceIn
<1>3. N \subseteq Listed
  <2> DEFINE U == N \ Listed
  <2>1. SUFFICES ASSUME U # {} PROVE FALSE
    OBVIOUS
  <2>2. ASSUME NEW c \in U PROVE \E d \in U : <<d, c>> \in Linked(E)
    <3>1. c \in Chains /\ c \in N /\ ~OnceIn(ord, c)
      BY DEF OnceIn
    <3>2. deg[c] # 0
      BY <3>1 DEF SortInv
    <3>3. Left(E, ord, L, {}, c) # {}
      BY <3>1, <3>2, FS_EmptySet DEF SortInv
    <3>4. PICK o \in Into(E, c) : \A i \in 1..L : ord[i] # o[1][1]
      BY <3>3 DEF Left
    <3>5. o \in Occurrences(E) /\ o[1][2] = c
      BY <3>4 DEF Into
    <3>6. o[1] \in Linked(E) /\ o[1] = <<o[1][1], c>>
      BY <3>5, OccurrencesAreEdges
    <3>7. o[1][1] \in U
      BY <3>4, <3>6
    <3>8. QED BY <3>6, <3>7
  <2>3. U \in SUBSET Chains
    OBVIOUS
  <2> HIDE DEF U
  <2>4. QED BY <2>1, <2>2, <2>3, PredecessorsMakeCycle
<1>4. Len(ord) = Cardinality(N)
  <2>1. [i \in 1..L |-> ord[i]] \in Bijection(1..L, N)
    <3> DEFINE f == [i \in 1..L |-> ord[i]]
    <3>1. f \in [1..L -> N] /\ \A i \in 1..L : f[i] = ord[i]
      BY <1>2
    <3>2. \A i, j \in 1..L : f[i] = f[j] => i = j
      BY DEF SortInv, NoTwice
    <3>3. \A c \in N : \E i \in 1..L : f[i] = c
      BY <1>3
    <3> HIDE DEF f
    <3>4. QED BY <3>1, <3>2, <3>3 DEF Bijection, Injection, IsInjective, Surjection
  <2>2. IsFiniteSet(1..L) /\ Cardinality(1..L) = L
    <3>1. L \in Int /\ 1 \in Int
      BY <1>1
    <3>2. IsFiniteSet(1..L) /\ Cardinality(1..L) = IF 1 > L THEN 0 ELSE L - 1 + 1
      BY <3>1, FS_Interval
    <3>3. QED BY <1>1, <3>2
  <2>3. ExistsBijection(1..L, N)
    BY <2>1 DEF ExistsBijection
  <2>4. QED BY <2>2, <2>3, FS_Bijection
<1>5. ASSUME NEW p \in Linked(E), NEW i \in 1..L, NEW j \in 1..L, ord[i] = p[1], ord[j] = p[2]
      PROVE  i < j
  <2>1. <<p, 1>> \in Occurrences(E)
    BY OccurrencesAreEdges
  <2>2. <<p, 1>>[1] = p
    OBVIOUS
  <2>3. <<p, 1>> \in Into(E, ord[j])
    BY <1>5, <2>1, <2>2 DEF Into
  <2>4. PICK k \in 1..L : k < j /\ ord[k] = p[1]
    BY <2>2, <2>3 DEF SortInv, InOrder
  <2>5. k = i
    BY <1>5, <2>4 DEF SortInv, NoTwice
  <2>6. QED BY <2>4, <2>5
<1>6. QED BY <1>2, <1>3, <1>4, <1>5

-----------------------------------------------------------------------------
(* The specification with the loops run step by step                       *)

\* The edge that AddEdge has put in is the only difference between the maps
\* and the graph that the next caller will find if it is refused.
Holding ==
    /\ at \in {"free", "AddEdge", "DetectCycle", "collect", "sort"}
    /\ answer \in {"none", "ok", "error"}
    /\ at # "AddEdge" => maps = graph
    /\ at = "AddEdge" =>
          /\ edge \in Pairs
          /\ edge[1] # edge[2]
          /\ start = edge[1]
          /\ graph.edges[edge] < MaxParallel
          /\ maps = Insert(WithNode(WithNode(graph, edge[1]), edge[2]), edge)

Few(g) == Sound(g) /\ g.edges \in [Pairs -> 0..MaxParallel]

Loops ==
    /\ at \in {"AddEdge", "DetectCycle"} =>
          SearchInv(Linked(maps.edges), start, color, path, rest, found)
    /\ at = "DetectCycle" => todo \subseteq maps.nodes
    /\ at = "free" => order = <<>> /\ taken = 0 /\ list = {}
    /\ at = "collect" => /\ CollectInv(maps.nodes, maps.edges, inDegree, order, todo)
                         /\ taken = 0 /\ list = {}
    /\ at = "sort" => SortInv(maps.nodes, maps.edges, inDegree, order, taken, list)

AlgoInv == Few(graph) /\ Holding /\ Loops

\* What the invariant says of the next state, in terms of its variables.
LEMMA NextFew == Few(graph)' <=> Few(graph')
  BY DEF Few, Sound, MirrorOf, NoDanglingIn

LEMMA NextSearch ==
    SearchInv(Linked(maps.edges), start, color, path, rest, found)'
        <=> SearchInv(Linked(maps'.edges), start', color', path', rest', found')
  BY DEF SearchInv, SearchTypes, GreyPath, LoopsCame, LoopsAhead, BlackDone, CycleFrom

LEMMA NextCollect ==
    CollectInv(maps.nodes, maps.edges, inDegree, order, todo)'
        <=> CollectInv(maps'.nodes, maps'.edges, inDegree', order', todo')
  BY DEF CollectInv, NoTwice, OnceIn, Into

LEMMA NextSort ==
    SortInv(maps.nodes, maps.edges, inDegree, order, taken, list)'
        <=> SortInv(maps'.nodes, maps'.edges, inDegree', order', taken', list')
  BY DEF SortInv, SortTypes, NoTwice, OnceIn, InOrder, Left, Into

\* The methods keep within the bound on parallel references.
LEMMA FewWithNode ==
    ASSUME NEW g, Few(g), NEW c \in Chains
    PROVE  Few(WithNode(g, c))
  BY WithNodeSound DEF Few

LEMMA FewWithoutNode ==
    ASSUME NEW g, Few(g), NEW c \in Chains
    PROVE  Few(WithoutNode(g, c))
<1>1. Sound(WithoutNode(g, c))
  BY WithoutNodeSound DEF Few
<1>2. CASE c \notin g.nodes
  BY <1>2 DEF Few, WithoutNode
<1>3. CASE c \in g.nodes
  <2>1. WithoutNode(g, c).edges =
            [p \in Pairs |->
                 IF p[1] = c THEN 0
                 ELSE IF p[2] = c THEN Monus(g.edges[p], g.reverse[<<c, p[1]>>])
                 ELSE g.edges[p]]
    BY <1>3 DEF WithoutNode
  <2>2. \A p \in Pairs : <<c, p[1]>> \in Pairs
    BY DEF Pairs
  <2>3. g.edges \in [Pairs -> 0..MaxParallel] /\ g.reverse \in [Pairs -> Nat]
    BY DEF Few, Sound, Graphs
  <2>4. \A m \in 0..MaxParallel : \A n \in Nat : Monus(m, n) \in 0..MaxParallel
    BY MaxParallelNat DEF Monus
  <2>5. 0 \in 0..MaxParallel
    BY MaxParallelNat
  <2>6. WithoutNode(g, c).edges \in [Pairs -> 0..MaxParallel]
    <3>1. \A p \in Pairs : g.edges[p] \in 0..MaxParallel /\ g.reverse[<<c, p[1]>>] \in Nat
      BY <2>2, <2>3
    <3>2. \A p \in Pairs : Monus(g.edges[p], g.reverse[<<c, p[1]>>]) \in 0..MaxParallel
      BY <2>4, <3>1
    <3>3. QED BY <2>1, <2>5, <3>1, <3>2
  <2>7. QED BY <1>1, <2>6 DEF Few
<1>4. QED BY <1>2, <1>3

\* The maps while AddEdge searches them.
LEMMA MapsOfAddEdge ==
    ASSUME NEW g, Few(g), NEW p \in Pairs, p[1] # p[2], g.edges[p] < MaxParallel,
           NEW h, h = WithNode(WithNode(g, p[1]), p[2]),
           NEW m, m = Insert(h, p)
    PROVE  /\ p = <<p[1], p[2]>> /\ p[1] \in Chains /\ p[2] \in Chains
           /\ Few(h)
           /\ m = [h EXCEPT !.edges = [h.edges EXCEPT ![p] = @ + 1]]
           /\ m.edges \in [Pairs -> 0..MaxParallel]
           /\ m \in Graphs
           /\ TakeOut(m, p) = h
           /\ Linked(m.edges) \in SUBSET Pairs
<1> DEFINE E == [g.edges EXCEPT ![p] = @ + 1]
<1>1. p = <<p[1], p[2]>> /\ p[1] \in Chains /\ p[2] \in Chains
  BY DEF Pairs
<1>2. Few(WithNode(g, p[1])) /\ Few(h)
  BY <1>1, FewWithNode
<1>3. h.edges = g.edges
  BY <1>1, WithNodeSound DEF Few
<1>4. h \in Graphs /\ g.edges \in [Pairs -> 0..MaxParallel]
  BY <1>2 DEF Few, Sound
<1>5. E \in [Pairs -> 0..MaxParallel]
  <2>1. g.edges[p] + 1 \in 0..MaxParallel
    BY <1>4, MaxParallelNat
  <2>2. QED BY <1>4, <2>1
<1>6. m = [h EXCEPT !.edges = [h.edges EXCEPT ![p] = @ + 1]]
  BY DEF Insert
<1>7. m.edges = E /\ m.nodes = h.nodes /\ m.reverse = h.reverse
  BY <1>3, <1>4, <1>6 DEF Graphs
<1>8. m \in Graphs
  <2>1. E \in [Pairs -> Nat]
    BY <1>5, MaxParallelNat
  <2>2. QED BY <1>3, <1>4, <1>6, <2>1 DEF Graphs
<1>9. TakeOut(m, p) = h
  <2>1. [E EXCEPT ![p] = @ - 1] = g.edges
    BY <1>4
  <2>2. TakeOut(m, p) = [m EXCEPT !.edges = g.edges]
    BY <1>7, <2>1 DEF TakeOut
  <2>3. [m EXCEPT !.edges = g.edges] = h
    BY <1>3, <1>4, <1>6 DEF Graphs
  <2>4. QED BY <2>2, <2>3
<1>10. Linked(m.edges) \in SUBSET Pairs
  BY DEF Linked
<1>11. QED BY <1>1, <1>2, <1>3, <1>5, <1>6, <1>7, <1>8, <1>9, <1>10

\* What a loop finds in the maps.
LEMMA MapsOfLoops ==
    ASSUME AlgoInv
    PROVE  /\ maps.edges \in [Pairs -> 0..MaxParallel]
           /\ Linked(maps.edges) \in SUBSET Pairs
           /\ \A c \in Chains : Successors(maps.edges, c) = After(Linked(maps.edges), c)
           /\ maps.nodes \in SUBSET Chains
           /\ at # "AddEdge" => /\ Few(maps)
                                /\ \A p \in Linked(maps.edges) : p[1] \in maps.nodes /\ p[2] \in maps.nodes
                                /\ ~Cyclic(Linked(maps.edges))
<1>1. maps.edges \in [Pairs -> 0..MaxParallel] /\ maps \in Graphs
  <2>1. CASE at = "AddEdge"
    <3>1. Few(graph) /\ edge \in Pairs /\ edge[1] # edge[2] /\ graph.edges[edge] < MaxParallel
          /\ maps = Insert(WithNode(WithNode(graph, edge[1]), edge[2]), edge)
      BY <2>1 DEF AlgoInv, Holding
    <3>2. QED BY <3>1, MapsOfAddEdge
  <2>2. CASE at # "AddEdge"
    BY <2>2 DEF AlgoInv, Holding, Few, Sound
  <2>3. QED BY <2>1, <2>2
<1>2. \A c \in Chains : Successors(maps.edges, c) = After(Linked(maps.edges), c)
  BY <1>1 DEF Successors, After, Linked, Pairs
<1>3. maps.nodes \in SUBSET Chains
  BY <1>1 DEF Graphs
<1>4. at # "AddEdge" => Few(maps) /\ NoDanglingIn(maps) /\ ~Cyclic(Linked(maps.edges))
  BY DEF AlgoInv, Holding, Few, Sound
<1>5. QED BY <1>1, <1>2, <1>3, <1>4 DEF Linked, NoDanglingIn

\* A method that returns with good maps leaves the invariant behind.
LEMMA ReturnKeeps ==
    ASSUME NEW g, Few(g), NEW r \in {"none", "ok", "error"}, Return(g, r)
    PROVE  AlgoInv'
<1>1. Few(graph)'
  BY NextFew DEF Return
<1>2. Holding'
  BY DEF Return, Holding
<1>3. Loops'
  BY DEF Return, Loops
<1>4. QED BY <1>1, <1>2, <1>3 DEF AlgoInv

\* AddEdge and DetectCycle start their search.
LEMMA SearchBegins ==
    ASSUME AlgoInv, NEW c \in Chains, NEW E, E = maps'.edges, E \in [Pairs -> 0..MaxParallel],
           StartSearch(E, c)
    PROVE  SearchInv(Linked(maps.edges), start, color, path, rest, found)'
<1>1. Linked(E) \in SUBSET Pairs /\ Successors(E, c) = After(Linked(E), c)
  BY DEF Linked, Successors, After, Pairs
<1>2. SearchInv(Linked(E), start', color', path', rest', found')
  BY <1>1, SearchStarts DEF StartSearch
<1>3. QED BY <1>2, NextSearch

\* One step of the search.
LEMMA SearchKeeps ==
    ASSUME AlgoInv, Search
    PROVE  AlgoInv'
<1> DEFINE R == Linked(maps.edges)
<1>1. UNCHANGED <<graph, answer, at, maps, edge, todo, inDegree, order, taken, list, start>>
  BY DEF Search, sorting, Meet, Leave, MeetGrey, MeetWhite, MeetBlack
<1>2. ASSUME at \in {"AddEdge", "DetectCycle"}
      PROVE  SearchInv(R, start, color', path', rest', found')
  <2>1. SearchInv(R, start, color, path, rest, found) /\ R \in SUBSET Pairs
    BY <1>2, MapsOfLoops DEF AlgoInv, Loops
  <2>2. path # <<>>
    BY DEF Search, Meet, Leave, Searching
  <2>3. ASSUME NEW n \in rest[Node], MeetGrey(n) \/ MeetWhite(n) \/ MeetBlack(n)
        PROVE  SearchInv(R, start, color', path', rest', found')
    <3>1. n \in Chains
      BY <2>1, <2>2 DEF SearchInv, SearchTypes, Node
    <3>2. CASE MeetGrey(n)
      <4>1. CycleFrom(R, start)
        BY <2>1, <2>2, <2>3, <3>2, GreyIsCycle DEF MeetGrey, Node
      <4>2. QED BY <2>1, <3>2, <4>1 DEF MeetGrey, SearchInv, SearchTypes
    <3>3. CASE MeetWhite(n)
      <4>1. Successors(maps.edges, n) = After(R, n)
        BY <3>1, MapsOfLoops
      <4>2. SearchInv(R, start, [color EXCEPT ![n] = "grey"], Append(path, n),
                      [rest EXCEPT ![path[Len(path)]] = @ \ {n}, ![n] = After(R, n)], found)
        BY <2>1, <2>2, <2>3, <3>3, WhiteIsEntered DEF MeetWhite, Node
      <4>3. QED BY <3>3, <4>1, <4>2 DEF MeetWhite, Node
    <3>4. CASE MeetBlack(n)
      <4>1. SearchInv(R, start, color, path, [rest EXCEPT ![path[Len(path)]] = @ \ {n}], found)
        BY <2>1, <2>2, <2>3, <3>4, BlackIsPassed DEF MeetBlack, Node
      <4>2. QED BY <3>4, <4>1 DEF MeetBlack, Node
    <3>5. QED BY <2>3, <3>2, <3>3, <3>4
  <2>4. CASE Meet
    BY <2>3, <2>4 DEF Meet
  <2>5. CASE Leave
    <3>1. SearchInv(R, start, [color EXCEPT ![path[Len(path)]] = "black"],
                    SubSeq(path, 1, Len(path) - 1), rest, found)
      BY <2>1, <2>2, <2>5, DoneIsBlack DEF Leave, Node
    <3>2. QED BY <2>5, <3>1 DEF Leave, Node
  <2>6. QED BY <2>4, <2>5 DEF Search
<1>3. Few(graph)'
  BY <1>1, NextFew DEF AlgoInv
<1>4. Holding'
  BY <1>1 DEF AlgoInv, Holding
<1>5. Loops'
  <2>1. (at \in {"AddEdge", "DetectCycle"} =>
            SearchInv(Linked(maps.edges), start, color, path, rest, found))'
    BY <1>1, <1>2, NextSearch
  <2>2. CollectInv(maps.nodes, maps.edges, inDegree, order, todo)
            => CollectInv(maps.nodes, maps.edges, inDegree, order, todo)'
    BY <1>1, NextCollect
  <2>3. SortInv(maps.nodes, maps.edges, inDegree, order, taken, list)
            => SortInv(maps.nodes, maps.edges, inDegree, order, taken, list)'
    BY <1>1, NextSort
  <2>4. QED BY <1>1, <2>1, <2>2, <2>3 DEF AlgoInv, Loops
<1>6. QED BY <1>3, <1>4, <1>5 DEF AlgoInv

-----------------------------------------------------------------------------
(* The methods end                                                         *)

\* AddEdge ends as if it had been one step: its search was exact, and what it
\* takes out is what it put in.
LEMMA AddEdgeEnds ==
    ASSUME AlgoInv, EndAddEdge
    PROVE  /\ \E from, to \in Chains : AddEdge(from, to)
           /\ AlgoInv'
<1> DEFINE a == edge[1]
           b == edge[2]
           h == WithNode(WithNode(graph, a), b)
           added == [h.edges EXCEPT ![edge] = @ + 1]
           r == WithEdge(graph, a, b)
<1>1. /\ Few(graph) /\ edge \in Pairs /\ a # b /\ graph.edges[edge] < MaxParallel
      /\ maps = Insert(h, edge) /\ start = a /\ at = "AddEdge"
  BY DEF AlgoInv, Holding, EndAddEdge
<1>2. /\ edge = <<a, b>> /\ a \in Chains /\ b \in Chains
      /\ Few(h)
      /\ maps = [h EXCEPT !.edges = added]
      /\ maps.edges \in [Pairs -> 0..MaxParallel]
      /\ TakeOut(maps, edge) = h
      /\ Linked(maps.edges) \in SUBSET Pairs
  <2>1. edge = <<a, b>> /\ a \in Chains /\ b \in Chains
    BY <1>1 DEF Pairs
  <2> HIDE DEF h
  <2>2. h = WithNode(WithNode(graph, edge[1]), edge[2])
    BY DEF h
  <2>3. Few(h)
    BY <1>1, <2>2, MapsOfAddEdge
  <2>4. maps.edges \in [Pairs -> 0..MaxParallel]
    BY <1>1, <2>2, MapsOfAddEdge
  <2>5. TakeOut(maps, edge) = h
    BY <1>1, <2>2, MapsOfAddEdge
  <2>6. maps = [h EXCEPT !.edges = added]
    BY <1>1 DEF Insert
  <2>7. QED BY <2>1, <2>3, <2>4, <2>5, <2>6 DEF Linked
<1>3. h \in Graphs /\ maps.edges = added
  BY <1>2 DEF Few, Sound, Graphs
<1>4. found <=> CycleFrom(Linked(added), a)
  <2>1. SearchInv(Linked(maps.edges), start, color, path, rest, found)
    BY <1>1 DEF AlgoInv, Loops
  <2>2. path = <<>> \/ found
    BY DEF EndAddEdge, Searching
  <2>3. found <=> CycleFrom(Linked(maps.edges), start)
    BY <1>2, <2>1, <2>2, SearchEnds
  <2>4. QED BY <1>1, <1>3, <2>3
<1>5. Few(r.graph) => \A s \in {"ok", "error"} : Return(r.graph, s) => AlgoInv'
  BY ReturnKeeps
<1>6. Sound(r.graph)
  BY <1>1, <1>2, WithEdgeCases DEF Few
<1>7. CASE found
  <2>1. r = [ok |-> FALSE, graph |-> h]
    BY <1>1, <1>2, <1>4, <1>7 DEF WithEdge
  <2> HIDE DEF r, h
  <2>2. r.ok = FALSE /\ r.graph = h
    BY <2>1
  <2>3. Return(r.graph, "error")
    BY <1>2, <1>7, <2>2 DEF EndAddEdge
  <2>4. AlgoInv'
    BY <1>2, <1>5, <2>2, <2>3
  <2>5. AddEdge(a, b)
    BY <1>1, <1>2, <2>2, <2>3 DEF AddEdge, Return, r
  <2>6. QED BY <1>2, <2>4, <2>5
<1>8. CASE ~found
  <2> DEFINE k == [h EXCEPT !.edges = added, !.reverse[<<b, a>>] = @ + 1]
  <2>1. r = [ok |-> TRUE, graph |-> k]
    BY <1>1, <1>2, <1>4, <1>8 DEF WithEdge
  <2>2. Record(maps, edge) = k
    BY <1>2, <1>3 DEF Record, Graphs
  <2>3. k.edges = added
    BY <1>3 DEF Graphs
  <2> HIDE DEF r, k, added
  <2>4. r.ok = TRUE /\ r.graph = k
    BY <2>1
  <2>5. Return(r.graph, "ok")
    BY <1>8, <2>2, <2>4 DEF EndAddEdge
  <2>6. Few(k)
    BY <1>2, <1>3, <1>6, <2>3, <2>4 DEF Few
  <2>7. AlgoInv'
    BY <1>5, <2>4, <2>5, <2>6
  <2>8. AddEdge(a, b)
    BY <1>1, <1>2, <2>4, <2>5 DEF AddEdge, Return, r
  <2>9. QED BY <1>2, <2>7, <2>8
<1>9. QED BY <1>7, <1>8

\* The methods that are over at once.
LEMMA AtOnce ==
    ASSUME AlgoInv, NEW c \in Chains, DoAddNode(c) \/ DoRemoveNode(c) \/ RefuseSelf(c)
    PROVE  AlgoInv' /\ Next
<1>1. maps = graph /\ Few(graph)
  BY DEF AlgoInv, Holding, DoAddNode, DoRemoveNode, RefuseSelf
<1>2. CASE DoAddNode(c)
  <2>1. Return(WithNode(graph, c), "ok")
    BY <1>1, <1>2 DEF DoAddNode
  <2>2. AlgoInv'
    BY <1>1, <2>1, FewWithNode, ReturnKeeps
  <2>3. AddNode(c)
    BY <2>1 DEF Return, AddNode
  <2>4. QED BY <2>2, <2>3 DEF Next
<1>3. CASE DoRemoveNode(c)
  <2>1. Return(WithoutNode(graph, c), "ok")
    BY <1>1, <1>3 DEF DoRemoveNode
  <2>2. AlgoInv'
    BY <1>1, <2>1, FewWithoutNode, ReturnKeeps
  <2>3. RemoveNode(c)
    BY <2>1 DEF Return, RemoveNode
  <2>4. QED BY <2>2, <2>3 DEF Next
<1>4. CASE RefuseSelf(c)
  <2>1. Return(graph, "error") /\ graph.edges[<<c, c>>] < MaxParallel
    BY <1>1, <1>4 DEF RefuseSelf
  <2>2. AlgoInv'
    BY <1>1, <2>1, ReturnKeeps
  <2>3. WithEdge(graph, c, c) = [ok |-> FALSE, graph |-> graph]
    BY DEF WithEdge
  <2>4. AddEdge(c, c)
    BY <2>1, <2>3 DEF Return, AddEdge
  <2>5. QED BY <2>2, <2>4 DEF Next
<1>5. QED BY <1>2, <1>3, <1>4

\* The two readers end without a change.
LEMMA ReadersEnd ==
    ASSUME AlgoInv, EndDetectCycle \/ EndTopoSort
    PROVE  AlgoInv' /\ UNCHANGED vars
<1>1. maps = graph /\ Few(graph) /\ answer \in {"none", "ok", "error"}
  BY DEF AlgoInv, Holding, EndDetectCycle, EndTopoSort, Sorted
<1>2. Return(graph, answer)
  BY <1>1 DEF EndDetectCycle, EndTopoSort
<1>3. AlgoInv'
  BY <1>1, <1>2, ReturnKeeps
<1>4. QED BY <1>2, <1>3 DEF Return, vars

-----------------------------------------------------------------------------
(* The methods begin and go on                                             *)

\* AddEdge has inserted its edge: nobody can see it yet.
LEMMA AddEdgeBegins ==
    ASSUME AlgoInv, NEW a \in Chains, NEW b \in Chains, BeginAddEdge(a, b)
    PROVE  AlgoInv' /\ UNCHANGED vars
<1> DEFINE p == <<a, b>>
<1>1. /\ maps = graph /\ Few(graph) /\ a # b /\ graph.edges[p] < MaxParallel
      /\ p \in Pairs /\ p[1] = a /\ p[2] = b
  BY DEF AlgoInv, Holding, BeginAddEdge, Pairs
<1>2. /\ at' = "AddEdge" /\ edge' = p /\ start' = a
      /\ maps' = Insert(WithNode(WithNode(graph, a), b), p)
      /\ graph' = graph /\ answer' = answer
      /\ StartSearch(maps'.edges, a)
  BY <1>1 DEF BeginAddEdge, StartSearch
<1>3. maps'.edges \in [Pairs -> 0..MaxParallel]
  BY <1>1, <1>2, MapsOfAddEdge
<1>4. SearchInv(Linked(maps.edges), start, color, path, rest, found)'
  BY <1>2, <1>3, SearchBegins
<1>5. Few(graph)'
  BY <1>1, <1>2, NextFew
<1>6. Holding'
  BY <1>1, <1>2 DEF AlgoInv, Holding
<1>7. Loops'
  BY <1>2, <1>4 DEF Loops
<1>8. QED BY <1>2, <1>5, <1>6, <1>7 DEF AlgoInv, vars

\* DetectCycle turns to its first, or next, node.
LEMMA DetectCycleGoesOn ==
    ASSUME AlgoInv, BeginDetectCycle \/ NextNode
    PROVE  AlgoInv' /\ UNCHANGED vars
<1>1. /\ at # "AddEdge" /\ at' = "DetectCycle"
      /\ graph' = graph /\ answer' = answer /\ maps' = maps
  BY DEF BeginDetectCycle, NextNode, MoreToSearch
<1>2. maps.nodes \in SUBSET Chains /\ maps.edges \in [Pairs -> 0..MaxParallel]
  BY MapsOfLoops
<1>3. PICK c \in maps.nodes : StartSearch(maps.edges, c) /\ todo' \subseteq maps.nodes
  <2>1. CASE BeginDetectCycle
    BY <2>1 DEF BeginDetectCycle
  <2>2. CASE NextNode
    <3>1. todo \subseteq maps.nodes
      BY <2>2 DEF AlgoInv, Loops, NextNode, MoreToSearch
    <3>2. QED BY <2>2, <3>1 DEF NextNode
  <2>3. QED BY <2>1, <2>2
<1>4. SearchInv(Linked(maps.edges), start, color, path, rest, found)'
  BY <1>1, <1>2, <1>3, SearchBegins
<1>5. Few(graph)'
  BY <1>1, NextFew DEF AlgoInv
<1>6. Holding'
  BY <1>1 DEF AlgoInv, Holding
<1>7. Loops'
  BY <1>1, <1>3, <1>4 DEF Loops
<1>8. QED BY <1>1, <1>5, <1>6, <1>7 DEF AlgoInv, vars

\* The steps of TopoSort.
LEMMA TopoSortGoesOn ==
    ASSUME AlgoInv, BeginTopoSort \/ Collect \/ BeginSort \/ TakeNode \/ Lower
    PROVE  AlgoInv' /\ UNCHANGED vars
<1>1. /\ at # "AddEdge" /\ at' \in {"collect", "sort"}
      /\ graph' = graph /\ answer' = answer /\ maps' = maps
  BY DEF BeginTopoSort, Collect, BeginSort, TakeNode, Lower
<1>2. /\ maps.nodes \in SUBSET Chains
      /\ maps.edges \in [Pairs -> 0..MaxParallel]
      /\ \A p \in Linked(maps.edges) : p[1] \in maps.nodes /\ p[2] \in maps.nodes
  BY <1>1, MapsOfLoops
<1>3. Few(graph)'
  BY <1>1, NextFew DEF AlgoInv
<1>4. Holding'
  BY <1>1 DEF AlgoInv, Holding
<1> DEFINE N == maps.nodes
           E == maps.edges
           Collecting == /\ CollectInv(N, E, inDegree', order', todo')
                         /\ taken' = 0 /\ list' = {}
           Sorting == SortInv(N, E, inDegree', order', taken', list')
<1>5. /\ at' = "collect" => Collecting
      /\ at' = "sort" => Sorting
  <2>1. CASE BeginTopoSort
    <3>1. order = <<>> /\ taken = 0 /\ list = {}
      BY <2>1 DEF AlgoInv, Loops, BeginTopoSort
    <3>2. CollectInv(N, E, [c \in Chains |-> Cardinality(Into(E, c))], <<>>, N)
      BY <1>2, CollectStarts
    <3>3. QED BY <2>1, <3>1, <3>2 DEF BeginTopoSort
  <2>2. CASE Collect
    <3>1. CollectInv(N, E, inDegree, order, todo) /\ taken = 0 /\ list = {}
      BY <2>2 DEF AlgoInv, Loops, Collect
    <3>2. PICK c \in todo : todo' = todo \ {c}
                            /\ order' = IF inDegree[c] = 0 THEN Append(order, c) ELSE order
      BY <2>2 DEF Collect
    <3>3. CollectInv(N, E, inDegree, order', todo')
      BY <1>2, <3>1, <3>2, CollectGoesOn
    <3>4. QED BY <2>2, <3>1, <3>3 DEF Collect
  <2>3. CASE BeginSort
    <3>1. CollectInv(N, E, inDegree, order, {}) /\ taken = 0 /\ list = {}
      BY <2>3 DEF AlgoInv, Loops, BeginSort
    <3>2. SortInv(N, E, inDegree, order, 0, {})
      BY <1>2, <3>1, SortStarts
    <3>3. QED BY <2>3, <3>1, <3>2 DEF BeginSort, sorting
  <2>4. CASE TakeNode
    <3>1. SortInv(N, E, inDegree, order, taken, {}) /\ taken < Len(order)
      BY <2>4 DEF AlgoInv, Loops, TakeNode
    <3>2. SortInv(N, E, inDegree, order, taken + 1, From(E, order[taken + 1]))
      BY <1>2, <3>1, NodeIsTaken
    <3>3. QED BY <2>4, <3>2 DEF TakeNode
  <2>5. CASE Lower
    <3>1. SortInv(N, E, inDegree, order, taken, list)
      BY <2>5 DEF AlgoInv, Loops, Lower
    <3>2. PICK o \in list :
              /\ list' = list \ {o}
              /\ inDegree' = [inDegree EXCEPT ![o[1][2]] = @ - 1]
              /\ order' = IF inDegree[o[1][2]] = 1 THEN Append(order, o[1][2]) ELSE order
      BY <2>5 DEF Lower
    <3>3. SortInv(N, E, [inDegree EXCEPT ![o[1][2]] = @ - 1],
                  IF inDegree[o[1][2]] = 1 THEN Append(order, o[1][2]) ELSE order,
                  taken, list \ {o})
      BY <1>2, <3>1, EdgeIsTakenOut
    <3>4. QED BY <2>5, <3>2, <3>3 DEF Lower
  <2>6. QED BY <2>1, <2>2, <2>3, <2>4, <2>5
<1>6. Loops'
  BY <1>1, <1>5, NextCollect, NextSort DEF Loops
<1>7. QED BY <1>1, <1>3, <1>4, <1>6 DEF AlgoInv, vars

-----------------------------------------------------------------------------
(* The theorems about the loops                                            *)

LEMMA AlgoInit == SearchInit => AlgoInv
<1>1. SUFFICES ASSUME SearchInit PROVE AlgoInv
  OBVIOUS
<1>2. Sound(graph) /\ graph = EmptyGraph
  BY <1>1, InitInv DEF SearchInit, Inv, Init
<1>3. graph.edges \in [Pairs -> 0..MaxParallel]
  BY <1>2, MaxParallelNat DEF EmptyGraph
<1>4. Holding /\ Loops
  BY <1>1 DEF SearchInit, Init, Holding, Loops
<1>5. QED BY <1>2, <1>3, <1>4 DEF AlgoInv, Few

\* Each step keeps the invariant, and is a method of DependencyGraph or nothing
\* that its callers can see.
LEMMA AlgoStep ==
    ASSUME AlgoInv, [SearchNext]_algoVars
    PROVE  AlgoInv' /\ [Next]_vars
<1>1. ASSUME NEW c \in Chains, DoAddNode(c) \/ DoRemoveNode(c) \/ RefuseSelf(c)
      PROVE  AlgoInv' /\ [Next]_vars
  BY <1>1, AtOnce
<1>2. ASSUME NEW a \in Chains, NEW b \in Chains, BeginAddEdge(a, b)
      PROVE  AlgoInv' /\ [Next]_vars
  BY <1>2, AddEdgeBegins
<1>3. CASE Search
  BY <1>3, SearchKeeps DEF Search, vars
<1>4. CASE EndAddEdge
  BY <1>4, AddEdgeEnds DEF Next
<1>5. CASE BeginDetectCycle \/ NextNode
  BY <1>5, DetectCycleGoesOn
<1>6. CASE EndDetectCycle \/ EndTopoSort
  BY <1>6, ReadersEnd
<1>7. CASE BeginTopoSort \/ Collect \/ BeginSort \/ TakeNode \/ Lower
  BY <1>7, TopoSortGoesOn
<1>8. CASE UNCHANGED algoVars
  <2>1. UNCHANGED <<graph, answer, at, maps, edge, start, color, path, rest, found, todo,
                    inDegree, order, taken, list>>
    BY <1>8 DEF algoVars, search, sorting
  <2>2. Few(graph)'
    BY <2>1, NextFew DEF AlgoInv
  <2>3. Holding'
    BY <2>1 DEF AlgoInv, Holding
  <2>4. Loops'
    BY <2>1, NextSearch, NextCollect, NextSort DEF AlgoInv, Loops
  <2>5. QED BY <2>1, <2>2, <2>3, <2>4 DEF AlgoInv, vars
<1>9. QED BY <1>1, <1>2, <1>3, <1>4, <1>5, <1>6, <1>7, <1>8 DEF SearchNext

LEMMA AlgoInvariant == SearchSpec => []AlgoInv
<1>1. AlgoInv /\ [SearchNext]_algoVars => AlgoInv'
  BY AlgoStep
<1>2. QED BY AlgoInit, <1>1, PTL DEF SearchSpec

\* With its loops run step by step, the graph is still the one whose methods are
\* single steps and whose AddEdge rejects what CycleFrom says: what is proved of
\* that one holds of the code that searches.
THEOREM ImplementsMethods == SearchSpec => MethodsAreAtomic
<1>1. SearchInit => Init
  BY DEF SearchInit
<1>2. AlgoInv /\ [SearchNext]_algoVars => [Next]_vars
  BY AlgoStep
<1>3. QED BY <1>1, <1>2, AlgoInvariant, PTL DEF SearchSpec, Spec, MethodsAreAtomic

\* So the graph stays well formed and rejections change nothing although AddEdge, for
\* the time of its search, has an edge in the maps that may close a cycle.
THEOREM GraphStaysSound == SearchSpec => []WellFormed /\ RejectionChangesNothing
  BY ImplementsMethods, WellFormedCorrect, RejectionChangesNothingCorrect, PTL DEF MethodsAreAtomic

\* The three-colour search of AddEdge and DetectCycle is exact, and TopoSort puts
\* every node behind those that refer to it.
THEOREM CycleSearchCorrect == SearchSpec => []CycleSearchIsExact
<1>1. AlgoInv => CycleSearchIsExact
  <2>1. SUFFICES ASSUME AlgoInv PROVE CycleSearchIsExact
    OBVIOUS
  <2>2. at \in {"AddEdge", "DetectCycle"} /\ (path = <<>> \/ found)
            => (found <=> CycleFrom(Linked(maps.edges), start))
    BY <2>1, MapsOfLoops, SearchEnds DEF AlgoInv, Loops
  <2>3. SearchIsExact
    BY <2>2 DEF SearchIsExact, SearchIsOver, Searching
  <2>4. at = "DetectCycle" => ~found
    <3>1. at = "DetectCycle" => ~Cyclic(Linked(maps.edges))
      BY <2>1, MapsOfLoops
    <3>2. CycleFrom(Linked(maps.edges), start) => Cyclic(Linked(maps.edges))
      BY CycleFromIsCycle
    <3>3. QED BY <2>2, <3>1, <3>2
  <2>5. TopoSortOrders
    <3>1. SUFFICES ASSUME Sorted
                   PROVE  /\ Len(order) = Cardinality(maps.nodes)
                          /\ {order[i] : i \in DOMAIN order} = maps.nodes
                          /\ \A p \in Linked(maps.edges) : \A i, j \in DOMAIN order :
                                 order[i] = p[1] /\ order[j] = p[2] => i < j
      BY DEF TopoSortOrders
    <3>2. SortInv(maps.nodes, maps.edges, inDegree, order, Len(order), {})
      BY <2>1, <3>1 DEF AlgoInv, Loops, Sorted
    <3>3. DOMAIN order = 1..Len(order)
      BY <3>2 DEF SortInv, SortTypes
    <3>4. at # "AddEdge"
      BY <3>1 DEF Sorted
    <3>5. /\ Len(order) = Cardinality(maps.nodes)
          /\ {order[i] : i \in 1..Len(order)} = maps.nodes
          /\ \A p \in Linked(maps.edges) : \A i, j \in 1..Len(order) :
                 order[i] = p[1] /\ order[j] = p[2] => i < j
      BY <2>1, <3>2, <3>4, MapsOfLoops, SortEnds
    <3>6. QED BY <3>3, <3>5
  <2>6. QED BY <2>3, <2>4, <2>5 DEF CycleSearchIsExact
<1>2. QED BY <1>1, AlgoInvariant, PTL
=============================================================================

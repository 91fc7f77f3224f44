---------------------------- MODULE EngineProofs ----------------------------
(***************************************************************************)
(* Theorems about Engine, for any chains, definitions, loaders and         *)
(* evaluations: its books are exact, the dependency graph covers what is   *)
(* loaded and loses references only by unloading, and the whole implements *)
(* the registry of ChainRegistry.                                          *)
(*                                                                         *)
(* What is proved about a dependency graph in DependencyGraphProofs is     *)
(* used here for the graph of the engine (GP), whose calls are single      *)
(* steps: the variables of its loops stand still.  The invariant says of   *)
(* each loader what it may rely on while it holds writeMu: the snapshot it *)
(* drafted is the current one with its call applied, and the references    *)
(* it went through are in the graph.                                       *)
(***************************************************************************)
EXTENDS Engine, FiniteSetTheorems, TLAPS

GP == INSTANCE DependencyGraphProofs
          WITH graph <- depGraph, answer <- "none", MaxParallel <- MaxCalls,
               at <- "free", maps <- depGraph, edge <- <<>>, todo <- {},
               start <- <<>>, color <- <<>>, path <- <<>>, rest <- <<>>, found <- FALSE,
               inDegree <- <<>>, order <- <<>>, taken <- 0, list <- {}

-----------------------------------------------------------------------------
(* What DependencyGraphProofs says about the three methods                 *)

LEMMA GraphConstants == GP!IsFiniteSet(Chains) /\ MaxCalls \in Nat
  BY ChainsFinite, MaxCallsNat DEF GP!IsFiniteSet, IsFiniteSet

\* The two instances of DependencyGraph have the same operators.
LEMMA SameGraph ==
    ASSUME NEW g, NEW a, NEW b
    PROVE  /\ GP!WithNode(g, a) = Graph!WithNode(g, a)
           /\ GP!WithEdge(g, a, b) = Graph!WithEdge(g, a, b)
           /\ GP!WithoutNode(g, a) = Graph!WithoutNode(g, a)
           /\ GP!Linked(g.edges) = Graph!Linked(g.edges)
           /\ GP!Graphs = Graph!Graphs
<1> USE DEF GP!Pairs, Graph!Pairs
<1>1. GP!WithNode(g, a) = Graph!WithNode(g, a)
  BY Zenon DEF GP!WithNode, Graph!WithNode
<1>2. GP!WithEdge(g, a, b) = Graph!WithEdge(g, a, b)
  BY Zenon DEF GP!WithEdge, Graph!WithEdge, GP!WithNode, Graph!WithNode, GP!Linked, Graph!Linked,
               GP!CycleFrom, Graph!CycleFrom, GP!Reachable, Graph!Reachable,
               GP!Endless, Graph!Endless, GP!ClosedUnder, Graph!ClosedUnder
<1>3. GP!WithoutNode(g, a) = Graph!WithoutNode(g, a)
  BY Zenon DEF GP!WithoutNode, Graph!WithoutNode, GP!Monus, Graph!Monus
<1>4. GP!Linked(g.edges) = Graph!Linked(g.edges)
  BY Zenon DEF GP!Linked, Graph!Linked
<1>5. GP!Graphs = Graph!Graphs
  BY Zenon DEF GP!Graphs, Graph!Graphs
<1>6. QED BY <1>1, <1>2, <1>3, <1>4, <1>5

LEMMA NodeAdded ==
    ASSUME NEW g, GP!Sound(g), NEW c \in Chains
    PROVE  LET h == Graph!WithNode(g, c)
           IN  /\ GP!Sound(h)
               /\ h.nodes = g.nodes \union {c}
               /\ Graph!Linked(h.edges) = Graph!Linked(g.edges)
<1>1. GP!Sound(GP!WithNode(g, c)) /\ GP!WithNode(g, c).edges = g.edges
      /\ GP!WithNode(g, c).nodes = g.nodes \union {c}
  BY GraphConstants, GP!WithNodeSound
<1>2. GP!WithNode(g, c) = Graph!WithNode(g, c)
  BY SameGraph
<1>3. QED BY <1>1, <1>2

LEMMA EdgeAdded ==
    ASSUME NEW g, GP!Sound(g), NEW a \in Chains, NEW b \in Chains
    PROVE  LET r == Graph!WithEdge(g, a, b)
           IN  /\ r.ok \in BOOLEAN
               /\ GP!Sound(r.graph)
               /\ ~r.ok => r.graph = g
               /\ r.ok => /\ Graph!Linked(r.graph.edges) = Graph!Linked(g.edges) \union {<<a, b>>}
                          /\ r.graph.nodes = g.nodes \union {a, b}
<1> DEFINE r == GP!WithEdge(g, a, b)
<1>1. /\ r.ok \in BOOLEAN
      /\ GP!Sound(r.graph)
      /\ ~r.ok => r.graph = g
      /\ r.ok => /\ GP!Linked(r.graph.edges) = GP!Linked(g.edges) \union {<<a, b>>}
                 /\ r.graph.nodes = g.nodes \union {a, b}
  BY GraphConstants, GP!WithEdgeCases
<1>2. r = Graph!WithEdge(g, a, b)
  BY SameGraph
<1>3. /\ GP!Linked(r.graph.edges) = Graph!Linked(r.graph.edges)
      /\ GP!Linked(g.edges) = Graph!Linked(g.edges)
  BY SameGraph
<1> HIDE DEF r
<1>4. QED BY <1>1, <1>2, <1>3

LEMMA NodeRemoved ==
    ASSUME NEW g, GP!Sound(g), NEW c \in Chains
    PROVE  LET h == Graph!WithoutNode(g, c)
           IN  /\ GP!Sound(h)
               /\ h.nodes = g.nodes \ {c}
               /\ \A p \in Graph!Linked(g.edges) :
                     p[1] # c /\ p[2] # c => p \in Graph!Linked(h.edges)
<1> DEFINE h == GP!WithoutNode(g, c)
<1>1. /\ GP!Sound(h)
      /\ h.nodes = g.nodes \ {c}
      /\ GP!Linked(h.edges) = {p \in GP!Linked(g.edges) : p[1] # c /\ p[2] # c}
  BY GraphConstants, GP!WithoutNodeSound
<1>2. h = Graph!WithoutNode(g, c)
  BY SameGraph
<1>3. /\ GP!Linked(h.edges) = Graph!Linked(h.edges)
      /\ GP!Linked(g.edges) = Graph!Linked(g.edges)
  BY SameGraph
<1> HIDE DEF h
<1>4. QED BY <1>1, <1>2, <1>3

LEMMA SoundGraph ==
    ASSUME NEW g, GP!Sound(g)
    PROVE  /\ g \in Graph!Graphs
           /\ \A R : R \subseteq Graph!Linked(g.edges) => ~Graph!Cyclic(R)
<1>1. g \in Graph!Graphs
  BY SameGraph DEF GP!Sound
<1>2. ~GP!Cyclic(Graph!Linked(g.edges))
  BY SameGraph DEF GP!Sound
<1>3. \A R : R \subseteq Graph!Linked(g.edges) => ~Graph!Cyclic(R)
  BY <1>2 DEF GP!Cyclic, GP!Endless, Graph!Cyclic, Graph!Endless
<1>4. QED BY <1>1, <1>3

LEMMA NoGraph == GP!Sound(Graph!EmptyGraph)
<1>1. GP!Sound(GP!EmptyGraph)
  <2>1. GP!EmptyGraph \in GP!Graphs
    BY DEF GP!EmptyGraph, GP!Graphs
  <2>2. GP!Linked(GP!EmptyGraph.edges) = {}
    BY DEF GP!EmptyGraph, GP!Linked
  <2>3. GP!MirrorOf(GP!EmptyGraph)
    BY DEF GP!EmptyGraph, GP!MirrorOf, GP!Pairs
  <2>4. QED BY <2>1, <2>2, <2>3 DEF GP!Sound, GP!NoDanglingIn, GP!Cyclic, GP!Endless
<1>2. GP!EmptyGraph = Graph!EmptyGraph
  BY Zenon DEF GP!EmptyGraph, Graph!EmptyGraph, GP!Pairs, Graph!Pairs
<1>3. QED BY <1>1, <1>2

-----------------------------------------------------------------------------
(* Snapshots                                                               *)

LEMMA MapsAre ==
    ASSUME NEW K, NEW f
    PROVE  f \in Maps(K) <=> DOMAIN f \subseteq K /\ f \in [DOMAIN f -> Defs]
  BY DEF Maps

LEMMA DefTyped ==
    ASSUME NEW d \in Defs
    PROVE  /\ d.id \in Chains /\ d.rules \subseteq Rules
           /\ Len(d.refs) \in Nat /\ \A i \in 1..Len(d.refs) : d.refs[i] \in Chains
           /\ DOMAIN d.refs = 1..Len(d.refs)
<1>1. d.id \in Chains /\ d.rules \in SUBSET Rules /\ d.refs \in Seq(Chains)
  BY DefsTyped
<1>2. QED BY <1>1

LEMMA WithChainIs ==
    ASSUME NEW s \in Snapshots, NEW d \in Defs
    PROVE  LET t == WithChain(s, d)
           IN  /\ t \in Snapshots
               /\ t.chains = Registry!With(s.chains, d)
               /\ DOMAIN t.chains = DOMAIN s.chains \union {d.id}
               /\ \A c \in DOMAIN t.chains : t.chains[c] = IF c = d.id THEN d ELSE s.chains[c]
               /\ DOMAIN t.rules = DOMAIN s.rules \union d.rules
               /\ \A r \in DOMAIN t.rules : t.rules[r] = IF r \in d.rules THEN d ELSE s.rules[r]
<1> DEFINE C == Registry!With(s.chains, d)
           R == [r \in DOMAIN s.rules \union d.rules |-> IF r \in d.rules THEN d ELSE s.rules[r]]
<1>1. WithChain(s, d) = [chains |-> C, rules |-> R]
  BY DEF WithChain
<1>2. s.chains \in Maps(Chains) /\ s.rules \in Maps(Rules)
  BY DEF Snapshots
<1>3. /\ DOMAIN s.chains \subseteq Chains /\ s.chains \in [DOMAIN s.chains -> Defs]
      /\ DOMAIN s.rules \subseteq Rules /\ s.rules \in [DOMAIN s.rules -> Defs]
  BY <1>2, MapsAre
<1>4. /\ DOMAIN C = DOMAIN s.chains \union {d.id}
      /\ \A c \in DOMAIN C : C[c] = IF c = d.id THEN d ELSE s.chains[c]
  BY DEF Registry!With
<1>5. C \in [DOMAIN C -> Defs]
  BY <1>3 DEF Registry!With
<1>6. R \in [DOMAIN R -> Defs] /\ DOMAIN R \subseteq Rules
  BY <1>3, DefTyped
<1>7. C \in Maps(Chains) /\ R \in Maps(Rules)
  BY <1>3, <1>4, <1>5, <1>6, MapsAre, DefTyped
<1>8. /\ DOMAIN R = DOMAIN s.rules \union d.rules
      /\ \A r \in DOMAIN R : R[r] = IF r \in d.rules THEN d ELSE s.rules[r]
  OBVIOUS
<1> HIDE DEF C, R
<1>9. WithChain(s, d).chains = C /\ WithChain(s, d).rules = R
  BY <1>1
<1>10. WithChain(s, d) \in Snapshots
  BY <1>1, <1>7 DEF Snapshots
<1>11. C = Registry!With(s.chains, d)
  BY DEF C
<1>12. QED BY <1>4, <1>8, <1>9, <1>10, <1>11

LEMMA WithoutChainIs ==
    ASSUME NEW s \in Snapshots, NEW c \in Chains
    PROVE  LET t == WithoutChain(s, c)
               gone == IF c \in DOMAIN s.chains THEN s.chains[c].rules ELSE {}
           IN  /\ t \in Snapshots
               /\ t.chains = Registry!Without(s.chains, c)
               /\ DOMAIN t.chains = DOMAIN s.chains \ {c}
               /\ \A b \in DOMAIN t.chains : t.chains[b] = s.chains[b]
               /\ DOMAIN t.rules = DOMAIN s.rules \ gone
               /\ \A r \in DOMAIN t.rules : t.rules[r] = s.rules[r]
<1> DEFINE gone == IF c \in DOMAIN s.chains THEN s.chains[c].rules ELSE {}
           C == Registry!Without(s.chains, c)
           R == Restrict(s.rules, DOMAIN s.rules \ gone)
<1>1. WithoutChain(s, c) = [chains |-> C, rules |-> R]
  BY DEF WithoutChain
<1>2. s.chains \in Maps(Chains) /\ s.rules \in Maps(Rules)
  BY DEF Snapshots
<1>3. /\ DOMAIN s.chains \subseteq Chains /\ s.chains \in [DOMAIN s.chains -> Defs]
      /\ DOMAIN s.rules \subseteq Rules /\ s.rules \in [DOMAIN s.rules -> Defs]
  BY <1>2, MapsAre
<1> HIDE DEF gone
<1>4. /\ DOMAIN C = DOMAIN s.chains \ {c}
      /\ \A b \in DOMAIN C : C[b] = s.chains[b]
  BY DEF Registry!Without, Restrict, Registry!Restrict
<1>5. C \in [DOMAIN C -> Defs]
  BY <1>3 DEF Registry!Without, Restrict, Registry!Restrict
<1>6. /\ R \in [DOMAIN R -> Defs] /\ DOMAIN R = DOMAIN s.rules \ gone
      /\ \A r \in DOMAIN R : R[r] = s.rules[r]
  BY <1>3 DEF Restrict
<1>7. C \in Maps(Chains) /\ R \in Maps(Rules)
  BY <1>3, <1>4, <1>5, <1>6, MapsAre
<1> HIDE DEF C, R
<1>8. WithoutChain(s, c).chains = C /\ WithoutChain(s, c).rules = R
  BY <1>1
<1>9. WithoutChain(s, c) \in Snapshots
  BY <1>1, <1>7 DEF Snapshots
<1>10. C = Registry!Without(s.chains, c)
  BY DEF C
<1>11. DOMAIN R = DOMAIN s.rules \ (IF c \in DOMAIN s.chains THEN s.chains[c].rules ELSE {})
  BY <1>6 DEF gone
<1>12. QED BY <1>4, <1>6, <1>8, <1>9, <1>10, <1>11

-----------------------------------------------------------------------------
(* The invariant                                                           *)

Holding == {"linking", "removing", "drafted", "stored", "cleaned"}

Loads == {Registry!LoadOf(d) : d \in Defs}
Unloads == {Registry!UnloadOf(c) : c \in Chains}

\* The node of d and its first n references are in the graph.
LinkedUpTo(d, n) ==
    /\ d.id \in depGraph.nodes
    /\ \A i \in 1..n : <<d.id, d.refs[i]>> \in Graph!Linked(depGraph.edges)

\* What a call makes of a snapshot.
Changed(s, r) == IF r.kind = "load" THEN WithChain(s, r.def) ELSE WithoutChain(s, r.chain)

LoaderOK(l) ==
    /\ pc[l] \in Holding <=> writeMu = l
    /\ pc[l] = "idle" => request[l] = Registry!NoCall
    /\ pc[l] \in {"compiled", "linking"} => request[l] \in Loads
    /\ pc[l] \in {"removing", "cleaned"} => request[l] \in Unloads
    /\ pc[l] \in {"drafted", "stored"} => request[l] \in Loads \union Unloads
    /\ pc[l] = "linking" =>
         link[l] <= Len(request[l].def.refs) /\ LinkedUpTo(request[l].def, link[l])
    /\ pc[l] = "drafted" =>
         /\ draft[l] = Changed(heap[current], request[l])
         /\ request[l] \in Loads => LinkedUpTo(request[l].def, Len(request[l].def.refs))
    /\ pc[l] \in {"stored", "cleaned"} => draft[l] = heap[current]
    /\ pc[l] = "stored" /\ request[l] \in Unloads => request[l].chain \notin DOMAIN Loaded

EvalOK(e) ==
    /\ evalPc[e] = "holding" => snap[e] \in DOMAIN heap /\ wanted[e] \in Chains
    /\ evalPc[e] = "evaluating" => chain[e] # Registry!Idle

Named == \A c \in DOMAIN Loaded : Loaded[c].id = c

RefsKept == RefsOf(Loaded) \ forgotten \subseteq Graph!Linked(depGraph.edges)

Shared == /\ GP!Sound(depGraph)
          /\ Named /\ GraphCoversLoaded /\ RefsKept
          /\ IndexKnowsOwnRules

\* The gauge is late only while a loader has stored a snapshot and not unlocked.
Gauged == (\A l \in Loaders : pc[l] \notin {"stored", "cleaned"}) =>
             gauge = Cardinality(DOMAIN Loaded)

IInv == /\ TypeOK
        /\ Shared
        /\ Gauged
        /\ \A l \in Loaders : LoaderOK(l)
        /\ \A e \in Evals : EvalOK(e)

LEMMA Kinds ==
    /\ \A r \in Loads : r.kind = "load" /\ r.def \in Defs /\ r = Registry!LoadOf(r.def)
    /\ \A r \in Unloads : r.kind = "unload" /\ r.chain \in Chains /\ r = Registry!UnloadOf(r.chain)
    /\ Registry!Requests = Loads \union Unloads
  BY DEF Loads, Unloads, Registry!LoadOf, Registry!UnloadOf, Registry!Requests

LEMMA NothingLoaded == EmptySnapshot \in Snapshots /\ DOMAIN EmptySnapshot.chains = {}
<1>1. EmptySnapshot = [chains |-> << >>, rules |-> << >>]
  BY DEF EmptySnapshot
<1>2. DOMAIN << >> = {} /\ << >> \in [DOMAIN << >> -> Defs]
  OBVIOUS
<1>3. << >> \in Maps(Chains) /\ << >> \in Maps(Rules)
  BY <1>2, MapsAre
<1>4. QED BY <1>1, <1>2, <1>3 DEF Snapshots

LEMMA ChainsCounted ==
    ASSUME NEW s \in Snapshots
    PROVE  Cardinality(DOMAIN s.chains) \in Nat /\ DOMAIN s.chains \subseteq Chains
<1>1. DOMAIN s.chains \subseteq Chains
  BY MapsAre DEF Snapshots
<1>2. QED BY <1>1, ChainsFinite, FS_Subset, FS_CardinalityType

\* A loader that takes no part in a step: nothing it relies on changes, or it
\* does not hold writeMu and relies on its request only.
LEMMA Bystander ==
    ASSUME IInv, NEW m \in Loaders,
           pc'[m] = pc[m], request'[m] = request[m], link'[m] = link[m], draft'[m] = draft[m],
           \/ UNCHANGED <<writeMu, heap, current, depGraph>>
           \/ writeMu # m /\ writeMu' # m
    PROVE  LoaderOK(m)'
<1>1. LoaderOK(m)
  BY DEF IInv
<1>2. CASE UNCHANGED <<writeMu, heap, current, depGraph>>
  BY <1>1, <1>2 DEF LoaderOK, LinkedUpTo, Loaded
<1>3. CASE writeMu # m /\ writeMu' # m
  <2>1. pc[m] \notin Holding
    BY <1>1, <1>3 DEF LoaderOK
  <2>2. QED BY <1>1, <1>3, <2>1 DEF LoaderOK, Holding
<1>4. QED BY <1>2, <1>3

LEMMA InitInv == Init => IInv
<1>1. SUFFICES ASSUME Init PROVE IInv
  OBVIOUS
<1>2. /\ heap = <<EmptySnapshot>> /\ current = 1 /\ heap[current] = EmptySnapshot
      /\ DOMAIN heap = {1} /\ DOMAIN Loaded = {}
  BY <1>1, NothingLoaded DEF Init, Loaded
<1>3. GP!Sound(depGraph) /\ depGraph \in Graph!Graphs
  BY <1>1, NoGraph, SoundGraph DEF Init
<1>4. TypeOK
  <2>1. heap \in Seq(Snapshots) /\ current \in DOMAIN heap
    BY <1>2, NothingLoaded
  <2>2. /\ draft \in [Loaders -> Snapshots]
        /\ pc \in [Loaders -> LoaderPcs]
        /\ request \in [Loaders -> Registry!Requests \union {Registry!NoCall}]
        /\ link \in [Loaders -> Nat] /\ writeMu \in Loaders \union {"free"}
    BY <1>1, NothingLoaded DEF Init, LoaderPcs
  <2>3. /\ evalPc \in [Evals -> {"idle", "holding", "evaluating"}]
        /\ wanted \in [Evals -> Chains \union {NoName}]
        /\ snap \in [Evals -> {0} \union DOMAIN heap]
        /\ chain \in [Evals -> {Registry!Idle, Registry!NoChain} \union {Registry!Found(d) : d \in Defs}]
    BY <1>1 DEF Init
  <2>4. gauge \in Nat /\ forgotten \subseteq Chains \X Chains /\ calls \in 0..MaxCalls
    BY <1>1, MaxCallsNat DEF Init
  <2>5. QED BY <1>3, <2>1, <2>2, <2>3, <2>4 DEF TypeOK
<1>5. Shared
  <2>1. Named /\ GraphCoversLoaded /\ RefsKept
    BY <1>2 DEF Named, GraphCoversLoaded, RefsKept, RefsOf
  <2>2. IndexKnowsOwnRules
    BY <1>2 DEF IndexKnowsOwnRules
  <2>3. QED BY <1>3, <2>1, <2>2 DEF Shared
<1>6. \A l \in Loaders : LoaderOK(l)
  BY <1>1, FreeIsNoLoader DEF Init, LoaderOK, Holding
<1>7. \A e \in Evals : EvalOK(e)
  BY <1>1 DEF Init, EvalOK
<1>8. Gauged
  BY <1>1, <1>2, FS_EmptySet DEF Gauged, Init
<1>9. QED BY <1>4, <1>5, <1>6, <1>7, <1>8 DEF IInv

-----------------------------------------------------------------------------
(* The steps                                                               *)

\* What is shared stays as it is.
LEMMA SharedKept ==
    ASSUME IInv, UNCHANGED <<heap, current, depGraph, forgotten>>
    PROVE  Shared'
<1>1. Shared
  BY DEF IInv
<1>2. Named' /\ GraphCoversLoaded' /\ RefsKept' /\ GP!Sound(depGraph)'
  BY <1>1 DEF Shared, Named, GraphCoversLoaded, RefsKept, Loaded, RefsOf
<1>3. IndexKnowsOwnRules'
  BY <1>1 DEF Shared, IndexKnowsOwnRules, Loaded
<1>4. QED BY <1>2, <1>3 DEF Shared

LEMMA GaugeKept ==
    ASSUME IInv, UNCHANGED <<heap, current, gauge>>, NEW l \in Loaders,
           pc[l] \notin {"stored", "cleaned"}, \A m \in Loaders \ {l} : pc'[m] = pc[m]
    PROVE  Gauged'
<1>1. Gauged
  BY DEF IInv
<1>2. (\A m \in Loaders : pc'[m] \notin {"stored", "cleaned"})
        => \A m \in Loaders : pc[m] \notin {"stored", "cleaned"}
  OBVIOUS
<1>3. QED BY <1>1, <1>2 DEF Gauged, Loaded

LEMMA EvalsKept ==
    ASSUME IInv, UNCHANGED <<heap, evalVars>>
    PROVE  \A e \in Evals : EvalOK(e)'
  BY DEF IInv, EvalOK, evalVars

LEMMA CompileInv ==
    ASSUME IInv, NEW l \in Loaders, NEW d \in Defs, Compile(l, d)
    PROVE  IInv'
<1>1. /\ calls < MaxCalls /\ calls' = calls + 1 /\ pc[l] = "idle"
      /\ pc' = [pc EXCEPT ![l] = IF d.compiles THEN "compiled" ELSE "idle"]
      /\ request' = [request EXCEPT ![l] = IF d.compiles THEN Registry!LoadOf(d) ELSE @]
      /\ UNCHANGED <<heap, current, depGraph, gauge, forgotten, writeMu, link, draft>>
      /\ UNCHANGED evalVars
  BY DEF Compile, Goto
<1>2. TypeOK /\ LoaderOK(l) /\ Registry!LoadOf(d) \in Loads /\ Loads \subseteq Registry!Requests
  BY Kinds DEF IInv, Loads
<1>3. TypeOK'
  BY <1>1, <1>2, MaxCallsNat DEF TypeOK, LoaderPcs, evalVars
<1>4. Shared'
  BY <1>1, SharedKept
<1>5. LoaderOK(l)'
  <2>1. /\ pc'[l] = IF d.compiles THEN "compiled" ELSE "idle"
        /\ request'[l] = IF d.compiles THEN Registry!LoadOf(d) ELSE request[l]
    BY <1>1, <1>2 DEF TypeOK
  <2>2. QED BY <1>1, <1>2, <2>1 DEF LoaderOK, Holding
<1>6. \A m \in Loaders \ {l} : LoaderOK(m)'
  BY <1>1, <1>2, Bystander DEF TypeOK
<1>7. Gauged'
  BY <1>1, <1>2, GaugeKept DEF TypeOK
<1>8. QED BY <1>1, <1>3, <1>4, <1>5, <1>6, <1>7, EvalsKept DEF IInv

LEMMA LockForLoadInv ==
    ASSUME IInv, NEW l \in Loaders, LockForLoad(l)
    PROVE  IInv'
<1> DEFINE d == request[l].def
<1>1. /\ writeMu = "free" /\ writeMu' = l /\ pc[l] = "compiled"
      /\ pc' = [pc EXCEPT ![l] = "linking"]
      /\ depGraph' = Graph!WithNode(depGraph, d.id)
      /\ link' = [link EXCEPT ![l] = 0]
      /\ UNCHANGED <<heap, current, gauge, forgotten, request, draft, calls>>
      /\ UNCHANGED evalVars
  BY DEF LockForLoad, Goto
<1>2. TypeOK /\ LoaderOK(l) /\ Shared
  BY DEF IInv
<1>3. request[l] \in Loads /\ d \in Defs /\ d.id \in Chains /\ Len(d.refs) \in Nat
  BY <1>1, <1>2, Kinds, DefTyped DEF LoaderOK
<1> HIDE DEF d
<1>4. /\ GP!Sound(depGraph') /\ depGraph' \in Graph!Graphs
      /\ depGraph'.nodes = depGraph.nodes \union {d.id}
      /\ Graph!Linked(depGraph'.edges) = Graph!Linked(depGraph.edges)
  BY <1>1, <1>2, <1>3, NodeAdded, SoundGraph DEF Shared
<1>5. TypeOK'
  BY <1>1, <1>2, <1>4 DEF TypeOK, LoaderPcs, evalVars
<1>6. Shared'
  <2>1. Named' /\ GraphCoversLoaded' /\ RefsKept'
    BY <1>1, <1>2, <1>4 DEF Shared, Named, GraphCoversLoaded, RefsKept, Loaded, RefsOf
  <2>2. IndexKnowsOwnRules'
    BY <1>1, <1>2 DEF Shared, IndexKnowsOwnRules, Loaded
  <2>3. GP!Sound(depGraph)'
    BY <1>4
  <2>4. QED BY <2>1, <2>2, <2>3 DEF Shared
<1>7. LoaderOK(l)'
  <2>1. pc'[l] = "linking" /\ link'[l] = 0 /\ request'[l] = request[l]
    BY <1>1, <1>2 DEF TypeOK
  <2>2. LinkedUpTo(request[l].def, 0)'
    BY <1>1, <1>4 DEF LinkedUpTo, d
  <2>3. QED BY <1>1, <1>3, <2>1, <2>2 DEF LoaderOK, Holding, d
<1>8. \A m \in Loaders \ {l} : LoaderOK(m)'
  BY <1>1, <1>2, FreeIsNoLoader, Bystander DEF TypeOK
<1>9. Gauged'
  BY <1>1, <1>2, GaugeKept DEF TypeOK
<1>10. QED BY <1>1, <1>5, <1>6, <1>7, <1>8, <1>9, EvalsKept DEF IInv

\* A refused reference leaves the graph as it was; one that is added keeps the
\* earlier ones.
LEMMA AddRefInv ==
    ASSUME IInv, NEW l \in Loaders, AddRef(l)
    PROVE  IInv'
<1> DEFINE d == request[l].def
           to == d.refs[link[l] + 1]
           added == Graph!WithEdge(depGraph, d.id, to)
<1>1. /\ pc[l] = "linking" /\ link[l] < Len(d.refs) /\ depGraph' = added.graph
      /\ UNCHANGED <<heap, current, gauge, forgotten, draft, calls>>
      /\ UNCHANGED evalVars
  BY DEF AddRef
<1>2. TypeOK /\ LoaderOK(l) /\ Shared
  BY DEF IInv
<1>3. /\ request[l] \in Loads /\ d \in Defs /\ d.id \in Chains /\ Len(d.refs) \in Nat
      /\ writeMu = l /\ link[l] \in Nat /\ to \in Chains /\ LinkedUpTo(d, link[l])
  <2>1. /\ request[l] \in Loads /\ writeMu = l /\ link[l] \in Nat /\ LinkedUpTo(d, link[l])
    BY <1>1, <1>2 DEF LoaderOK, Holding, TypeOK
  <2>2. d \in Defs /\ d.id \in Chains /\ Len(d.refs) \in Nat
        /\ \A i \in 1..Len(d.refs) : d.refs[i] \in Chains
    BY <2>1, Kinds, DefTyped
  <2>3. QED BY <1>1, <2>1, <2>2
<1>4. \/ /\ added.ok
         /\ link' = [link EXCEPT ![l] = @ + 1]
         /\ UNCHANGED <<pc, request, writeMu>>
      \/ /\ ~added.ok
         /\ pc' = [pc EXCEPT ![l] = "idle"]
         /\ request' = [request EXCEPT ![l] = Registry!NoCall]
         /\ writeMu' = "free"
         /\ link' = [link EXCEPT ![l] = 0]
  BY DEF AddRef
<1> HIDE DEF d, to
<1>5. /\ added.ok \in BOOLEAN
      /\ GP!Sound(added.graph) /\ added.graph \in Graph!Graphs
      /\ ~added.ok => added.graph = depGraph
      /\ added.ok =>
           /\ Graph!Linked(added.graph.edges) = Graph!Linked(depGraph.edges) \union {<<d.id, to>>}
           /\ added.graph.nodes = depGraph.nodes \union {d.id, to}
  BY <1>2, <1>3, EdgeAdded, SoundGraph DEF Shared
<1> HIDE DEF added
<1>6. /\ depGraph.nodes \subseteq depGraph'.nodes
      /\ Graph!Linked(depGraph.edges) \subseteq Graph!Linked(depGraph'.edges)
  BY <1>1, <1>5
<1>7. Named' /\ GraphCoversLoaded' /\ RefsKept' /\ GP!Sound(depGraph)' /\ IndexKnowsOwnRules'
  <2>1. Named' /\ GraphCoversLoaded' /\ RefsKept'
    BY <1>1, <1>2, <1>6 DEF Shared, Named, GraphCoversLoaded, RefsKept, Loaded, RefsOf
  <2>2. IndexKnowsOwnRules'
    BY <1>1, <1>2 DEF Shared, IndexKnowsOwnRules, Loaded
  <2>3. GP!Sound(depGraph)'
    BY <1>1, <1>5
  <2>4. QED BY <2>1, <2>2, <2>3
<1>8. \A m \in Loaders \ {l} : writeMu # m /\ writeMu' # m
  BY <1>3, <1>4, FreeIsNoLoader
<1>9. \A m \in Loaders \ {l} : LoaderOK(m)'
  BY <1>1, <1>2, <1>4, <1>8, Bystander DEF TypeOK
<1>10. CASE added.ok
  <2>1. link' = [link EXCEPT ![l] = @ + 1] /\ UNCHANGED <<pc, request, writeMu>>
    BY <1>4, <1>10
  <2>2. TypeOK'
    BY <1>1, <1>2, <1>5, <2>1 DEF TypeOK, evalVars
  <2>3. Gauged'
    BY <1>1, <2>1, GaugeKept
  <2>4. LinkedUpTo(request[l].def, link[l])'
    <3>1. request'[l].def = d /\ to = d.refs[link[l] + 1]
      BY <2>1 DEF d, to
    <3>2. \A i \in 1..(link[l] + 1) : i \in 1..link[l] \/ i = link[l] + 1
      BY <1>3
    <3>3. d.id \in depGraph'.nodes
      BY <1>3, <1>6 DEF LinkedUpTo
    <3>4. \A i \in 1..(link[l] + 1) : <<d.id, d.refs[i]>> \in Graph!Linked(depGraph'.edges)
      BY <1>1, <1>3, <1>5, <1>6, <1>10, <3>1, <3>2 DEF LinkedUpTo
    <3>5. link'[l] = link[l] + 1
      BY <1>2, <2>1 DEF TypeOK
    <3>6. \A i \in 1..link'[l] : <<d.id, d.refs[i]>> \in Graph!Linked(depGraph'.edges)
      BY <3>4, <3>5
    <3>7. QED BY <3>1, <3>3, <3>6 DEF LinkedUpTo
  <2>5. LoaderOK(l)'
    <3>1. pc'[l] = "linking" /\ request'[l] = request[l] /\ writeMu' = l
      BY <1>1, <1>3, <2>1
    <3>2. link'[l] <= Len(request'[l].def.refs)
      BY <1>1, <1>2, <1>3, <2>1, <3>1 DEF TypeOK, d
    <3>3. QED BY <1>3, <2>4, <3>1, <3>2 DEF LoaderOK, Holding
  <2>6. QED BY <1>1, <1>7, <1>9, <2>2, <2>3, <2>5, EvalsKept DEF IInv, Shared
<1>11. CASE ~added.ok
  <2>1. /\ pc' = [pc EXCEPT ![l] = "idle"] /\ link' = [link EXCEPT ![l] = 0]
        /\ request' = [request EXCEPT ![l] = Registry!NoCall] /\ writeMu' = "free"
    BY <1>4, <1>11
  <2>2. TypeOK'
    BY <1>1, <1>2, <1>5, <2>1 DEF TypeOK, LoaderPcs, evalVars
  <2>3. depGraph' = depGraph
    BY <1>1, <1>5, <1>11
  <2>4. Gauged'
    BY <1>1, <1>2, <2>1, GaugeKept DEF TypeOK
  <2>5. LoaderOK(l)'
    BY <1>2, <1>3, <2>1, FreeIsNoLoader DEF LoaderOK, Holding, TypeOK
  <2>6. QED BY <1>1, <1>7, <1>9, <2>2, <2>4, <2>5, EvalsKept DEF IInv, Shared
<1>12. QED BY <1>10, <1>11

LEMMA CopyForLoadInv ==
    ASSUME IInv, NEW l \in Loaders, CopyForLoad(l)
    PROVE  IInv'
<1>1. /\ pc[l] = "linking" /\ pc' = [pc EXCEPT ![l] = "drafted"]
      /\ link[l] = Len(request[l].def.refs)
      /\ draft' = [draft EXCEPT ![l] = WithChain(heap[current], request[l].def)]
      /\ UNCHANGED <<heap, current, depGraph, gauge, forgotten, writeMu, request, link, calls>>
      /\ UNCHANGED evalVars
  BY DEF CopyForLoad, Goto
<1>2. TypeOK /\ LoaderOK(l)
  BY DEF IInv
<1>3. /\ request[l] \in Loads /\ request[l].kind = "load" /\ request[l].def \in Defs
      /\ LinkedUpTo(request[l].def, Len(request[l].def.refs)) /\ writeMu = l
  BY <1>1, <1>2, Kinds DEF LoaderOK, Holding
<1>4. heap[current] \in Snapshots
  BY <1>2 DEF TypeOK
<1>5. WithChain(heap[current], request[l].def) \in Snapshots
  BY <1>3, <1>4, WithChainIs
<1>6. TypeOK'
  BY <1>1, <1>2, <1>5 DEF TypeOK, LoaderPcs, evalVars
<1>7. LoaderOK(l)'
  <2>1. /\ pc'[l] = "drafted" /\ request'[l] = request[l] /\ writeMu' = l
        /\ draft'[l] = WithChain(heap[current], request[l].def)
    BY <1>1, <1>2, <1>3 DEF TypeOK
  <2>2. draft'[l] = Changed(heap[current], request[l])'
    BY <1>1, <1>3, <2>1 DEF Changed
  <2>3. LinkedUpTo(request[l].def, Len(request[l].def.refs))'
    BY <1>1, <1>3 DEF LinkedUpTo
  <2>4. QED BY <1>3, <2>1, <2>2, <2>3 DEF LoaderOK, Holding
<1>8. \A m \in Loaders \ {l} : LoaderOK(m)'
  BY <1>1, <1>2, Bystander DEF TypeOK
<1>9. Gauged'
  BY <1>1, <1>2, GaugeKept DEF TypeOK
<1>10. QED BY <1>1, <1>6, <1>7, <1>8, <1>9, SharedKept, EvalsKept DEF IInv

LEMMA LockForUnloadInv ==
    ASSUME IInv, NEW l \in Loaders, NEW c \in Chains, LockForUnload(l, c)
    PROVE  IInv'
<1>1. /\ calls < MaxCalls /\ calls' = calls + 1
      /\ writeMu = "free" /\ writeMu' = l
      /\ pc[l] = "idle" /\ pc' = [pc EXCEPT ![l] = "removing"]
      /\ request' = [request EXCEPT ![l] = Registry!UnloadOf(c)]
      /\ UNCHANGED <<heap, current, depGraph, gauge, forgotten, link, draft>>
      /\ UNCHANGED evalVars
  BY DEF LockForUnload, Goto
<1>2. TypeOK /\ Registry!UnloadOf(c) \in Unloads /\ Unloads \subseteq Registry!Requests
  BY Kinds DEF IInv, Unloads
<1>3. TypeOK'
  BY <1>1, <1>2, MaxCallsNat DEF TypeOK, LoaderPcs, evalVars
<1>4. LoaderOK(l)'
  <2>1. pc'[l] = "removing" /\ request'[l] \in Unloads /\ writeMu' = l
    BY <1>1, <1>2 DEF TypeOK
  <2>2. QED BY <2>1 DEF LoaderOK, Holding
<1>5. \A m \in Loaders \ {l} : LoaderOK(m)'
  BY <1>1, <1>2, FreeIsNoLoader, Bystander DEF TypeOK
<1>6. Gauged'
  BY <1>1, <1>2, GaugeKept DEF TypeOK
<1>7. QED BY <1>1, <1>3, <1>4, <1>5, <1>6, SharedKept, EvalsKept DEF IInv

LEMMA CopyForUnloadInv ==
    ASSUME IInv, NEW l \in Loaders, CopyForUnload(l)
    PROVE  IInv'
<1>1. /\ pc[l] = "removing" /\ pc' = [pc EXCEPT ![l] = "drafted"]
      /\ draft' = [draft EXCEPT ![l] = WithoutChain(heap[current], request[l].chain)]
      /\ UNCHANGED <<heap, current, depGraph, gauge, forgotten, writeMu, request, link, calls>>
      /\ UNCHANGED evalVars
  BY DEF CopyForUnload, Goto
<1>2. TypeOK /\ LoaderOK(l)
  BY DEF IInv
<1>3. /\ request[l] \in Unloads /\ request[l].kind = "unload" /\ request[l].chain \in Chains
      /\ writeMu = l /\ request[l] \notin Loads
  BY <1>1, <1>2, Kinds DEF LoaderOK, Holding
<1>4. heap[current] \in Snapshots
  BY <1>2 DEF TypeOK
<1>5. WithoutChain(heap[current], request[l].chain) \in Snapshots
  BY <1>3, <1>4, WithoutChainIs
<1>6. TypeOK'
  BY <1>1, <1>2, <1>5 DEF TypeOK, LoaderPcs, evalVars
<1>7. LoaderOK(l)'
  <2>1. /\ pc'[l] = "drafted" /\ request'[l] = request[l] /\ writeMu' = l
        /\ draft'[l] = WithoutChain(heap[current], request[l].chain)
    BY <1>1, <1>2, <1>3 DEF TypeOK
  <2>2. draft'[l] = Changed(heap[current], request[l])'
    BY <1>1, <1>3, <2>1 DEF Changed
  <2>3. QED BY <1>3, <2>1, <2>2 DEF LoaderOK, Holding
<1>8. \A m \in Loaders \ {l} : LoaderOK(m)'
  BY <1>1, <1>2, Bystander DEF TypeOK
<1>9. Gauged'
  BY <1>1, <1>2, GaugeKept DEF TypeOK
<1>10. QED BY <1>1, <1>6, <1>7, <1>8, <1>9, SharedKept, EvalsKept DEF IInv

\* The chain of a request that is stored is not loaded any more, so its node may
\* go; what refers to it is forgotten.
LEMMA RemoveNodeInv ==
    ASSUME IInv, NEW l \in Loaders, RemoveNode(l)
    PROVE  IInv'
<1> DEFINE c == request[l].chain
<1>1. /\ request[l].kind = "unload" /\ pc[l] = "stored" /\ pc' = [pc EXCEPT ![l] = "cleaned"]
      /\ depGraph' = Graph!WithoutNode(depGraph, c)
      /\ forgotten' = IF c \in depGraph.nodes THEN forgotten \union (Chains \X {c}) ELSE forgotten
      /\ UNCHANGED <<heap, current, gauge, writeMu, request, link, draft, calls>>
      /\ UNCHANGED evalVars
  BY DEF RemoveNode, Goto
<1>2. TypeOK /\ LoaderOK(l) /\ Shared /\ Gauged
  BY DEF IInv
<1>3. request[l] \in Unloads /\ writeMu = l /\ draft[l] = heap[current]
      /\ c \in Chains /\ c \notin DOMAIN Loaded
  BY <1>1, <1>2, Kinds DEF LoaderOK, Holding
<1> HIDE DEF c
<1>4. /\ GP!Sound(depGraph') /\ depGraph' \in Graph!Graphs
      /\ depGraph'.nodes = depGraph.nodes \ {c}
      /\ \A p \in Graph!Linked(depGraph.edges) :
            p[1] # c /\ p[2] # c => p \in Graph!Linked(depGraph'.edges)
  BY <1>1, <1>2, <1>3, NodeRemoved, SoundGraph DEF Shared
<1>5. TypeOK'
  <2>1. forgotten' \subseteq Chains \X Chains
    BY <1>1, <1>2, <1>3 DEF TypeOK
  <2>2. QED BY <1>1, <1>2, <1>4, <2>1 DEF TypeOK, LoaderPcs, evalVars
<1>6. Shared'
  <2>1. Named' /\ GraphCoversLoaded' /\ IndexKnowsOwnRules'
    BY <1>1, <1>2, <1>3, <1>4 DEF Shared, Named, GraphCoversLoaded, IndexKnowsOwnRules, Loaded
  <2>2. RefsKept'
    <3>1. SUFFICES ASSUME NEW p \in RefsOf(Loaded), p \notin forgotten'
                   PROVE  p \in Graph!Linked(depGraph'.edges)
      BY <1>1 DEF RefsKept, Loaded, RefsOf
    <3>2. p \notin forgotten /\ p \in Graph!Linked(depGraph.edges)
      BY <1>1, <1>2, <3>1 DEF Shared, RefsKept
    <3>3. p \in Chains \X Chains /\ p[1] \in DOMAIN Loaded /\ p[1] # c
      BY <1>3 DEF RefsOf
    <3>4. p[2] # c
      <4>1. CASE c \in depGraph.nodes
        BY <1>1, <3>1, <3>3, <4>1
      <4>2. CASE c \notin depGraph.nodes
        <5>1. p[2] \in depGraph.nodes
          BY <1>2, <3>2, SameGraph DEF Shared, GP!Sound, GP!NoDanglingIn
        <5>2. QED BY <4>2, <5>1
      <4>3. QED BY <4>1, <4>2
    <3>5. QED BY <1>4, <3>2, <3>3, <3>4
  <2>3. GP!Sound(depGraph)'
    BY <1>4
  <2>4. QED BY <2>1, <2>2, <2>3 DEF Shared
<1>7. LoaderOK(l)'
  <2>1. pc'[l] = "cleaned" /\ request'[l] = request[l] /\ draft'[l] = draft[l] /\ writeMu' = l
    BY <1>1, <1>2, <1>3 DEF TypeOK
  <2>2. QED BY <1>1, <1>3, <2>1 DEF LoaderOK, Holding
<1>8. \A m \in Loaders \ {l} : LoaderOK(m)'
  BY <1>1, <1>2, <1>3, Bystander DEF TypeOK
<1>9. Gauged'
  BY <1>1, <1>2 DEF Gauged, TypeOK
<1>10. QED BY <1>1, <1>5, <1>6, <1>7, <1>8, <1>9, EvalsKept DEF IInv

\* What the new snapshot holds.
LEMMA Stored ==
    ASSUME IInv, NEW l \in Loaders, Store(l)
    PROVE  /\ heap' \in Seq(Snapshots) /\ current' \in DOMAIN heap' /\ heap'[current'] = draft[l]
           /\ DOMAIN heap \subseteq DOMAIN heap' /\ \A i \in DOMAIN heap : heap'[i] = heap[i]
           /\ draft[l] \in Snapshots /\ heap[current] \in Snapshots
           /\ draft[l] = Changed(heap[current], request[l]) /\ writeMu = l
           /\ request[l] \in Loads \union Unloads
<1>1. pc[l] = "drafted" /\ heap' = Append(heap, draft[l]) /\ current' = Len(heap) + 1
  BY DEF Store, Goto
<1>2. heap \in Seq(Snapshots) /\ draft[l] \in Snapshots /\ current \in DOMAIN heap /\ LoaderOK(l)
  BY DEF IInv, TypeOK
<1>3. /\ heap' \in Seq(Snapshots) /\ current' \in DOMAIN heap' /\ heap'[current'] = draft[l]
      /\ DOMAIN heap \subseteq DOMAIN heap' /\ \A i \in DOMAIN heap : heap'[i] = heap[i]
      /\ heap[current] \in Snapshots
  BY <1>1, <1>2
<1>4. QED BY <1>1, <1>2, <1>3 DEF LoaderOK, Holding

LEMMA StoreSharedLoad ==
    ASSUME IInv, NEW l \in Loaders, Store(l), request[l] \in Loads
    PROVE  Shared'
<1> DEFINE d == request[l].def
           s == heap[current]
           t == WithChain(s, d)
<1>1. pc[l] = "drafted" /\ depGraph' = depGraph /\ LoaderOK(l) /\ Shared
  BY DEF Store, Goto, IInv
<1>2. /\ request[l].kind = "load" /\ d \in Defs /\ s \in Snapshots
      /\ heap'[current'] = t
      /\ forgotten' = {p \in forgotten : p[1] # d.id}
      /\ LinkedUpTo(d, Len(d.refs))
  BY <1>1, Kinds, Stored DEF Changed, Store, LoaderOK
<1> HIDE DEF d, s, t
<1>3. /\ DOMAIN t.chains = DOMAIN s.chains \union {d.id}
      /\ \A c \in DOMAIN t.chains : t.chains[c] = IF c = d.id THEN d ELSE s.chains[c]
      /\ DOMAIN t.rules = DOMAIN s.rules \union d.rules
      /\ \A r \in DOMAIN t.rules : t.rules[r] = IF r \in d.rules THEN d ELSE s.rules[r]
  BY <1>2, WithChainIs DEF t
<1>4. Loaded = s.chains /\ Loaded' = t.chains
  BY <1>2 DEF Loaded, s
<1>5. Named' /\ GraphCoversLoaded'
  BY <1>1, <1>2, <1>3, <1>4 DEF Shared, Named, GraphCoversLoaded, LinkedUpTo
<1>6. RefsKept'
  <2>1. SUFFICES ASSUME NEW p \in RefsOf(t.chains), p \notin forgotten'
                 PROVE  p \in Graph!Linked(depGraph.edges)
    BY <1>1, <1>4 DEF RefsKept, RefsOf
  <2>2. /\ p \in Chains \X Chains /\ p[1] \in DOMAIN t.chains
        /\ p[2] \in Range(t.chains[p[1]].refs)
    BY DEF RefsOf
  <2>3. CASE p[1] = d.id
    <3>1. p[2] \in Range(d.refs)
      BY <1>3, <2>2, <2>3
    <3>2. PICK i \in 1..Len(d.refs) : p[2] = d.refs[i]
      BY <1>2, <3>1, DefTyped DEF Range
    <3>3. p = <<d.id, d.refs[i]>>
      BY <2>2, <2>3, <3>2
    <3>4. QED BY <1>2, <3>3 DEF LinkedUpTo
  <2>4. CASE p[1] # d.id
    <3>1. p \in RefsOf(s.chains)
      BY <1>3, <2>2, <2>4 DEF RefsOf
    <3>2. p \notin forgotten
      BY <1>2, <2>1, <2>4
    <3>3. QED BY <1>1, <1>4, <3>1, <3>2 DEF Shared, RefsKept
  <2>5. QED BY <2>3, <2>4
<1>7. IndexKnowsOwnRules'
  <2>1. SUFFICES ASSUME NEW c \in DOMAIN t.chains, NEW r \in t.chains[c].rules, OwnRule(c, r)
                 PROVE  r \in DOMAIN t.rules /\ t.rules[r] = t.chains[c]
    BY <1>2, <1>4 DEF IndexKnowsOwnRules, OwnRule
  <2>2. CASE c = d.id
    BY <1>3, <2>2
  <2>3. CASE c # d.id
    <3>1. r \notin d.rules
      BY <1>2, <2>1, <2>3 DEF OwnRule
    <3>2. c \in DOMAIN s.chains /\ t.chains[c] = s.chains[c]
      BY <1>3, <2>3
    <3>3. r \in DOMAIN s.rules /\ s.rules[r] = s.chains[c]
      BY <1>1, <1>4, <2>1, <3>2 DEF Shared, IndexKnowsOwnRules, s
    <3>4. QED BY <1>3, <3>1, <3>2, <3>3
  <2>4. QED BY <2>2, <2>3
<1>8. GP!Sound(depGraph)'
  BY <1>1 DEF Shared
<1>9. QED BY <1>5, <1>6, <1>7, <1>8 DEF Shared

LEMMA StoreSharedUnload ==
    ASSUME IInv, NEW l \in Loaders, Store(l), request[l] \in Unloads
    PROVE  Shared' /\ request[l].chain \notin DOMAIN Loaded'
<1> DEFINE c == request[l].chain
           s == heap[current]
           t == WithoutChain(s, c)
           gone == IF c \in DOMAIN s.chains THEN s.chains[c].rules ELSE {}
<1>1. pc[l] = "drafted" /\ depGraph' = depGraph /\ Shared
  BY DEF Store, Goto, IInv
<1>2. /\ request[l].kind = "unload" /\ c \in Chains /\ s \in Snapshots
      /\ heap'[current'] = t /\ forgotten' = forgotten
  BY <1>1, Kinds, Stored DEF Changed, Store
<1>3. /\ DOMAIN t.chains = DOMAIN s.chains \ {c}
      /\ \A b \in DOMAIN t.chains : t.chains[b] = s.chains[b]
      /\ DOMAIN t.rules = DOMAIN s.rules \ gone
      /\ \A r \in DOMAIN t.rules : t.rules[r] = s.rules[r]
  BY <1>2, WithoutChainIs
<1>4. Loaded = s.chains /\ Loaded' = t.chains
  BY <1>2 DEF Loaded
<1>5. \A b \in DOMAIN s.chains : s.chains[b].id = b /\ s.chains[b] \in Defs
  BY <1>1, <1>2, <1>4, MapsAre DEF Shared, Named, Snapshots
<1> HIDE DEF c, s, t
<1>6. Named' /\ GraphCoversLoaded'
  BY <1>1, <1>3, <1>4 DEF Shared, Named, GraphCoversLoaded
<1>7. RefsKept'
  BY <1>1, <1>2, <1>3, <1>4 DEF Shared, RefsKept, RefsOf
<1>8. IndexKnowsOwnRules'
  <2>1. SUFFICES ASSUME NEW b \in DOMAIN t.chains, NEW r \in t.chains[b].rules, OwnRule(b, r)
                 PROVE  r \in DOMAIN t.rules /\ t.rules[r] = t.chains[b]
    BY <1>2, <1>4 DEF IndexKnowsOwnRules, OwnRule
  <2>2. b \in DOMAIN s.chains /\ b # c /\ t.chains[b] = s.chains[b]
    BY <1>3
  <2>3. r \notin gone
    BY <1>5, <2>1, <2>2 DEF OwnRule
  <2>4. r \in DOMAIN s.rules /\ s.rules[r] = s.chains[b]
    BY <1>1, <1>4, <2>1, <2>2 DEF Shared, IndexKnowsOwnRules, s
  <2>5. QED BY <1>3, <2>2, <2>3, <2>4
<1>9. GP!Sound(depGraph)'
  BY <1>1 DEF Shared
<1>10. QED BY <1>3, <1>4, <1>6, <1>7, <1>8, <1>9 DEF Shared, c

LEMMA StoreInv ==
    ASSUME IInv, NEW l \in Loaders, Store(l)
    PROVE  IInv'
<1>1. /\ pc[l] = "drafted" /\ pc' = [pc EXCEPT ![l] = "stored"]
      /\ UNCHANGED <<depGraph, gauge, writeMu, request, link, draft, calls>>
      /\ UNCHANGED evalVars
      /\ forgotten' \subseteq forgotten
  BY DEF Store, Goto
<1>2. TypeOK /\ LoaderOK(l)
  BY DEF IInv
<1>3. TypeOK'
  <2>1. heap' \in Seq(Snapshots) /\ current' \in DOMAIN heap' /\ snap' \in [Evals -> {0} \union DOMAIN heap']
    BY <1>1, <1>2, Stored DEF TypeOK, evalVars
  <2>2. pc' \in [Loaders -> LoaderPcs] /\ forgotten' \subseteq Chains \X Chains
    BY <1>1, <1>2 DEF TypeOK, LoaderPcs
  <2>3. QED BY <1>1, <1>2, <2>1, <2>2 DEF TypeOK, evalVars
<1>4. Shared'
  BY Stored, StoreSharedLoad, StoreSharedUnload
<1>5. LoaderOK(l)'
  <2>1. /\ pc'[l] = "stored" /\ request'[l] = request[l] /\ writeMu' = l
        /\ draft'[l] = heap'[current'] /\ request[l] \in Loads \union Unloads
    BY <1>1, <1>2, Stored DEF TypeOK
  <2>2. request[l] \in Unloads => request[l].chain \notin DOMAIN Loaded'
    BY StoreSharedUnload
  <2>3. QED BY <2>1, <2>2 DEF LoaderOK, Holding
<1>6. \A m \in Loaders \ {l} : LoaderOK(m)'
  BY <1>1, <1>2, Stored, Bystander DEF TypeOK
<1>7. \A e \in Evals : EvalOK(e)'
  BY <1>1, Stored DEF IInv, EvalOK, evalVars
<1>8. Gauged'
  BY <1>1, <1>2 DEF Gauged, TypeOK
<1>9. QED BY <1>3, <1>4, <1>5, <1>6, <1>7, <1>8 DEF IInv

LEMMA UnlockInv ==
    ASSUME IInv, NEW l \in Loaders, Unlock(l)
    PROVE  IInv'
<1>1. /\ pc[l] \in {"stored", "cleaned"} /\ pc' = [pc EXCEPT ![l] = "idle"]
      /\ gauge' = Cardinality(DOMAIN draft[l].chains) /\ writeMu' = "free"
      /\ request' = [request EXCEPT ![l] = Registry!NoCall]
      /\ link' = [link EXCEPT ![l] = 0]
      /\ draft' = [draft EXCEPT ![l] = EmptySnapshot]
      /\ UNCHANGED <<heap, current, depGraph, forgotten, calls>>
      /\ UNCHANGED evalVars
  BY DEF Unlock, Goto
<1>2. TypeOK /\ LoaderOK(l)
  BY DEF IInv
<1>3. draft[l] = heap[current] /\ writeMu = l /\ gauge' \in Nat
  BY <1>1, <1>2, ChainsCounted DEF LoaderOK, Holding, TypeOK
<1>4. TypeOK'
  BY <1>1, <1>2, <1>3, NothingLoaded DEF TypeOK, LoaderPcs, evalVars
<1>5. LoaderOK(l)'
  <2>1. pc'[l] = "idle" /\ request'[l] = Registry!NoCall /\ writeMu' # l
    BY <1>1, <1>2, FreeIsNoLoader DEF TypeOK
  <2>2. QED BY <2>1 DEF LoaderOK, Holding
<1>6. \A m \in Loaders \ {l} : LoaderOK(m)'
  BY <1>1, <1>2, <1>3, FreeIsNoLoader, Bystander DEF TypeOK
<1>7. Gauged'
  BY <1>1, <1>3 DEF Gauged, Loaded
<1>8. QED BY <1>1, <1>4, <1>5, <1>6, <1>7, SharedKept, EvalsKept DEF IInv

\* The steps of an evaluation.
LEMMA EvalInv ==
    ASSUME IInv, NEW e \in Evals, EvalNext(e)
    PROVE  IInv'
<1>1. UNCHANGED <<heap, current, depGraph, gauge, forgotten>> /\ UNCHANGED loaderVars
  BY DEF EvalNext, LoadSnapshot, FindChain, EndEval
<1>2. TypeOK
  BY DEF IInv
<1>3. /\ evalPc' \in [Evals -> {"idle", "holding", "evaluating"}]
      /\ wanted' \in [Evals -> Chains \union {NoName}]
      /\ snap' \in [Evals -> {0} \union DOMAIN heap]
      /\ chain' \in [Evals -> {Registry!Idle, Registry!NoChain} \union {Registry!Found(d) : d \in Defs}]
      /\ \A f \in Evals : EvalOK(f)'
  <2>1. CASE \E c \in Chains : LoadSnapshot(e, c)
    BY <1>2, <2>1 DEF LoadSnapshot, EvalGoto, TypeOK, IInv, EvalOK
  <2>2. CASE FindChain(e)
    <3> DEFINE v == Registry!Lookup(heap[snap[e]].chains, wanted[e])
    <3>1. snap[e] \in DOMAIN heap
      BY <2>2 DEF FindChain, EvalGoto, IInv, EvalOK
    <3>2. heap[snap[e]].chains \in Maps(Chains)
      <4>1. heap \in Seq(Snapshots)
        BY <1>2 DEF TypeOK
      <4>2. heap[snap[e]] \in Snapshots
        BY <3>1, <4>1
      <4>3. QED BY <4>2 DEF Snapshots
    <3>3. v = Registry!NoChain \/ \E d \in Defs : v = Registry!Found(d)
      BY <3>2, MapsAre DEF Registry!Lookup
    <3>4. v # Registry!Idle
      <4> HIDE DEF v
      <4>1. /\ Registry!NoChain.kind = "no chain"
            /\ \A d \in Defs : Registry!Found(d).kind = "found"
        BY DEF Registry!NoChain, Registry!Found
      <4>2. Registry!Idle.kind = "idle"
        BY DEF Registry!Idle
      <4>3. QED BY <3>3, <4>1, <4>2
    <3> HIDE DEF v
    <3>5. /\ evalPc[e] = "holding" /\ evalPc' = [evalPc EXCEPT ![e] = "evaluating"]
          /\ chain' = [chain EXCEPT ![e] = v] /\ UNCHANGED <<heap, wanted, snap>>
      BY <2>2 DEF FindChain, EvalGoto, v
    <3>6. QED BY <1>2, <3>3, <3>4, <3>5 DEF TypeOK, IInv, EvalOK
  <2>3. CASE EndEval(e)
    BY <1>2, <2>3 DEF EndEval, EvalGoto, TypeOK, IInv, EvalOK
  <2>4. QED BY <2>1, <2>2, <2>3 DEF EvalNext
<1>4. TypeOK'
  BY <1>1, <1>2, <1>3 DEF TypeOK, loaderVars
<1>5. \A m \in Loaders : LoaderOK(m)'
  BY <1>1, Bystander DEF loaderVars
<1>6. Gauged'
  BY <1>1 DEF IInv, Gauged, Loaded, loaderVars
<1>7. QED BY <1>1, <1>3, <1>4, <1>5, <1>6, SharedKept DEF IInv

LEMMA NextInv == IInv /\ [Next]_vars => IInv'
<1>1. SUFFICES ASSUME IInv, [Next]_vars PROVE IInv'
  OBVIOUS
<1>2. CASE \E l \in Loaders : LoaderNext(l)
  <2>1. PICK l \in Loaders : LoaderNext(l)
    BY <1>2
  <2>2. QED BY <1>1, <2>1, CompileInv, LockForLoadInv, AddRefInv, CopyForLoadInv, LockForUnloadInv,
               CopyForUnloadInv, RemoveNodeInv, StoreInv, UnlockInv DEF LoaderNext, LoaderStep
<1>3. CASE \E e \in Evals : EvalNext(e)
  BY <1>1, <1>3, EvalInv
<1>4. CASE UNCHANGED vars
  <2>1. UNCHANGED <<heap, current, depGraph, gauge, forgotten>> /\ UNCHANGED loaderVars
        /\ UNCHANGED evalVars
    BY <1>4 DEF vars
  <2>2. TypeOK'
    BY <1>1, <2>1 DEF IInv, TypeOK, loaderVars, evalVars
  <2>3. \A m \in Loaders : LoaderOK(m)'
    BY <1>1, <2>1, Bystander DEF loaderVars
  <2>4. Gauged'
    BY <1>1, <2>1 DEF IInv, Gauged, Loaded, loaderVars
  <2>5. QED BY <1>1, <2>1, <2>2, <2>3, <2>4, SharedKept, EvalsKept DEF IInv
<1>5. QED BY <1>1, <1>2, <1>3, <1>4 DEF Next

LEMMA Invariant == Spec => []IInv
  BY InitInv, NextInv, PTL DEF Spec

-----------------------------------------------------------------------------
(* The theorems                                                            *)

\* Snapshot, graph, gauge and the places of the goroutines keep their types.
THEOREM TypeCorrect == Spec => []TypeOK
<1>1. IInv => TypeOK
  BY DEF IInv
<1>2. QED BY <1>1, Invariant, PTL

\* Every chain that is loaded is a node of the dependency graph.
THEOREM GraphCoversLoadedCorrect == Spec => []GraphCoversLoaded
<1>1. IInv => GraphCoversLoaded
  BY DEF IInv, Shared
<1>2. QED BY <1>1, Invariant, PTL

\* The references of loaded chains that no unloading deleted are in the graph,
\* and no cycle can be made of them.
THEOREM RefsCorrect == Spec => []RefsLostOnlyByUnload
<1>1. IInv => RefsLostOnlyByUnload
  BY SoundGraph DEF IInv, Shared, RefsKept, RefsLostOnlyByUnload
<1>2. QED BY <1>1, Invariant, PTL

\* With no writer at work the gauge is the number of loaded chains; the rule
\* index always knows the rules of loaded chains, in the version loaded.
THEOREM BooksCorrect == Spec => []BooksExact
<1>1. IInv => GaugeAccurate
  BY FreeIsNoLoader DEF IInv, LoaderOK, Holding, Gauged, GaugeAccurate
<1>2. IInv => BooksExact
  BY <1>1 DEF IInv, Shared, BooksExact
<1>3. QED BY <1>2, Invariant, PTL

-----------------------------------------------------------------------------
(* The refinement                                                          *)

Phases == [l \in Loaders |-> Phase(l)]
Views == [e \in Evals |-> View(e)]

LEMMA RegistryInit == Init => Registry!Init
<1>1. SUFFICES ASSUME Init PROVE Registry!Init
  OBVIOUS
<1>2. Loaded = << >>
  BY <1>1 DEF Init, Loaded, EmptySnapshot
<1>3. [l \in Loaders |-> Phase(l)] = [l \in Loaders |-> "idle"]
  BY <1>1 DEF Init, Phase
<1>4. [e \in Evals |-> View(e)] = [e \in Evals |-> Registry!Idle]
  BY <1>1 DEF Init, View, Registry!Idle
<1>5. request = [l \in Loaders |-> Registry!NoCall]
  BY <1>1 DEF Init
<1>6. QED BY <1>2, <1>3, <1>4, <1>5 DEF Registry!Init

\* What an evaluation sees does not change with the heap: snapshots are only added.
LEMMA ViewsKept ==
    ASSUME IInv, UNCHANGED evalVars, DOMAIN heap \subseteq DOMAIN heap',
           \A i \in DOMAIN heap : heap'[i] = heap[i]
    PROVE  Views' = Views
<1>1. \A e \in Evals : View(e)' = View(e)
  <2>1. SUFFICES ASSUME NEW e \in Evals PROVE View(e)' = View(e)
    OBVIOUS
  <2>2. evalPc[e] \in {"idle", "holding", "evaluating"} /\ EvalOK(e)
    BY DEF IInv, TypeOK
  <2>3. evalPc[e] = "holding" => heap'[snap[e]] = heap[snap[e]]
    BY <2>2 DEF EvalOK
  <2>4. UNCHANGED <<evalPc, wanted, snap, chain>>
    BY DEF evalVars
  <2>5. QED BY <2>2, <2>3, <2>4 DEF View
<1>2. QED BY <1>1 DEF Views

\* What a step of one loader does to the phases.
LEMMA PhasesAfter ==
    ASSUME NEW l \in Loaders, \A m \in Loaders \ {l} : pc'[m] = pc[m]
    PROVE  Phases' = [Phases EXCEPT ![l] = Phase(l)']
<1>1. \A m \in Loaders \ {l} : Phase(m)' = Phase(m)
  BY DEF Phase
<1>2. QED BY <1>1 DEF Phases

\* The registry sees nothing of a step that keeps what is loaded, the requests
\* and the phase of its loader.
LEMMA LoaderStutters ==
    ASSUME IInv, NEW l \in Loaders, \A m \in Loaders \ {l} : pc'[m] = pc[m],
           Phase(l)' = Phase(l), UNCHANGED <<heap, current, request>>, UNCHANGED evalVars
    PROVE  UNCHANGED Registry!vars
<1>1. Phases' = Phases
  BY PhasesAfter DEF Phases
<1>2. Views' = Views
  BY ViewsKept
<1>3. Loaded' = Loaded /\ request' = request
  BY DEF Loaded
<1>4. QED BY <1>1, <1>2, <1>3 DEF Registry!vars, Phases, Views

LEMMA Begins ==
    ASSUME IInv, NEW l \in Loaders, NEW r \in Registry!Requests,
           pc[l] = "idle", pc' = [pc EXCEPT ![l] = "compiled"] \/ pc' = [pc EXCEPT ![l] = "removing"],
           request' = [request EXCEPT ![l] = r], UNCHANGED <<heap, current>>, UNCHANGED evalVars
    PROVE  Registry!Call(l, r)
<1>1. TypeOK
  BY DEF IInv
<1>2. Phase(l) = "idle" /\ Phase(l)' = "called" /\ \A m \in Loaders \ {l} : pc'[m] = pc[m]
  BY <1>1 DEF TypeOK, Phase
<1>3. Phases' = [Phases EXCEPT ![l] = "called"] /\ Phases[l] = "idle"
  BY <1>2, PhasesAfter DEF Phases
<1>4. Views' = Views /\ Loaded' = Loaded
  BY ViewsKept DEF Loaded
<1>5. QED BY <1>3, <1>4 DEF Registry!Call, Phases, Views

LEMMA Returns ==
    ASSUME IInv, NEW l \in Loaders,
           Phase(l) = "done" \/ (Phase(l) = "called" /\ request[l].kind = "load"),
           pc' = [pc EXCEPT ![l] = "idle"],
           request' = [request EXCEPT ![l] = Registry!NoCall],
           UNCHANGED <<heap, current>>, UNCHANGED evalVars
    PROVE  Registry!Return(l)
<1>1. TypeOK
  BY DEF IInv
<1>2. Phase(l)' = "idle" /\ \A m \in Loaders \ {l} : pc'[m] = pc[m]
  BY <1>1 DEF TypeOK, Phase
<1>3. Phases' = [Phases EXCEPT ![l] = "idle"] /\ Phases[l] = Phase(l)
  BY <1>2, PhasesAfter DEF Phases
<1>4. Views' = Views /\ Loaded' = Loaded
  BY ViewsKept DEF Loaded
<1>5. QED BY <1>3, <1>4 DEF Registry!Return, Phases, Views

LEMMA Commits ==
    ASSUME IInv, NEW l \in Loaders, Store(l)
    PROVE  Registry!Commit(l)
<1>1. /\ TypeOK /\ pc[l] = "drafted" /\ pc' = [pc EXCEPT ![l] = "stored"]
      /\ request' = request /\ UNCHANGED evalVars
  BY DEF IInv, Store, Goto
<1>2. Phase(l) = "called" /\ Phase(l)' = "done" /\ \A m \in Loaders \ {l} : pc'[m] = pc[m]
  BY <1>1 DEF TypeOK, Phase
<1>3. Phases' = [Phases EXCEPT ![l] = "done"] /\ Phases[l] = "called"
  BY <1>2, PhasesAfter DEF Phases
<1>4. Views' = Views
  BY <1>1, Stored, ViewsKept
<1>5. Loaded' = Registry!Applied(Loaded, request[l])
  <2>1. Loaded = heap[current].chains /\ Loaded' = Changed(heap[current], request[l]).chains
    BY Stored DEF Loaded
  <2>2. CASE request[l] \in Loads
    BY <2>1, <2>2, Kinds, Stored, WithChainIs DEF Changed, Registry!Applied
  <2>3. CASE request[l] \in Unloads
    BY <2>1, <2>3, Kinds, Stored, WithoutChainIs DEF Changed, Registry!Applied
  <2>4. QED BY <2>2, <2>3, Stored
<1>6. QED BY <1>1, <1>3, <1>4, <1>5 DEF Registry!Commit, Phases, Views

LEMMA LoaderRefines ==
    ASSUME IInv, NEW l \in Loaders, LoaderNext(l)
    PROVE  [Registry!Next]_Registry!vars
<1> USE DEF Goto
<1>1. TypeOK /\ LoaderOK(l)
  BY DEF IInv
<1>2. CASE \E d \in Defs : Compile(l, d)
  <2>1. PICK d \in Defs : Compile(l, d)
    BY <1>2
  <2>2. CASE d.compiles
    <3>1. Registry!LoadOf(d) \in Registry!Requests
      BY DEF Registry!Requests
    <3>2. Registry!Call(l, Registry!LoadOf(d))
      BY <2>1, <2>2, <3>1, Begins DEF Compile
    <3>3. QED BY <3>1, <3>2 DEF Registry!Next
  <2>3. CASE ~d.compiles
    <3>1. pc' = pc /\ UNCHANGED <<heap, current, request>> /\ UNCHANGED evalVars
      BY <1>1, <2>1, <2>3 DEF Compile, TypeOK
    <3>2. Phase(l)' = Phase(l)
      BY <3>1 DEF Phase
    <3>3. QED BY <3>1, <3>2, LoaderStutters
  <2>4. QED BY <2>2, <2>3
<1>3. CASE \E c \in Chains : LockForUnload(l, c)
  <2>1. PICK c \in Chains : LockForUnload(l, c)
    BY <1>3
  <2>2. Registry!UnloadOf(c) \in Registry!Requests
    BY DEF Registry!Requests
  <2>3. Registry!Call(l, Registry!UnloadOf(c))
    BY <2>1, <2>2, Begins DEF LockForUnload
  <2>4. QED BY <2>2, <2>3 DEF Registry!Next
<1>4. CASE LockForLoad(l) \/ CopyForLoad(l) \/ CopyForUnload(l) \/ RemoveNode(l)
  <2>1. /\ UNCHANGED <<heap, current, request>> /\ UNCHANGED evalVars
        /\ \E a, b \in LoaderPcs : pc[l] = a /\ pc' = [pc EXCEPT ![l] = b]
             /\ \/ {a, b} \subseteq {"compiled", "linking", "removing", "drafted"}
                \/ a = "stored" /\ b = "cleaned"
    BY <1>4 DEF LockForLoad, CopyForLoad, CopyForUnload, RemoveNode, LoaderPcs
  <2>2. Phase(l)' = Phase(l) /\ \A m \in Loaders \ {l} : pc'[m] = pc[m]
    BY <1>1, <2>1 DEF Phase, TypeOK
  <2>3. QED BY <2>1, <2>2, LoaderStutters
<1>5. CASE AddRef(l)
  <2>1. /\ pc[l] = "linking" /\ UNCHANGED <<heap, current>> /\ UNCHANGED evalVars
        /\ \/ UNCHANGED <<pc, request>>
           \/ /\ pc' = [pc EXCEPT ![l] = "idle"]
              /\ request' = [request EXCEPT ![l] = Registry!NoCall]
    BY <1>5 DEF AddRef
  <2>2. CASE UNCHANGED <<pc, request>>
    <3>1. Phase(l)' = Phase(l)
      BY <2>2 DEF Phase
    <3>2. QED BY <2>1, <2>2, <3>1, LoaderStutters
  <2>3. CASE pc' = [pc EXCEPT ![l] = "idle"] /\ request' = [request EXCEPT ![l] = Registry!NoCall]
    <3>1. Phase(l) = "called" /\ request[l].kind = "load"
      BY <1>1, <2>1, Kinds DEF LoaderOK, Phase
    <3>2. Registry!Return(l)
      BY <2>1, <2>3, <3>1, Returns
    <3>3. QED BY <3>2 DEF Registry!Next
  <2>4. QED BY <2>1, <2>2, <2>3
<1>6. CASE Store(l)
  BY <1>6, Commits DEF Registry!Next
<1>7. CASE Unlock(l)
  <2>1. pc[l] \in {"stored", "cleaned"}
    BY <1>7 DEF Unlock
  <2>2. Phase(l) = "done"
    BY <2>1 DEF Phase
  <2>3. Registry!Return(l)
    BY <1>7, <2>2, Returns DEF Unlock
  <2>4. QED BY <2>3 DEF Registry!Next
<1>8. QED BY <1>2, <1>3, <1>4, <1>5, <1>6, <1>7 DEF LoaderNext, LoaderStep

\* Taking the snapshot is the look; what the evaluation finds in it later is
\* what it would have found then.
LEMMA EvalRefines ==
    ASSUME IInv, NEW e \in Evals, EvalNext(e)
    PROVE  [Registry!Next]_Registry!vars
<1>1. TypeOK /\ EvalOK(e)
  BY DEF IInv
<1>2. UNCHANGED <<heap, current, request, pc>>
  BY DEF EvalNext, LoadSnapshot, FindChain, EndEval, loaderVars
<1>3. Phases' = Phases /\ Loaded' = Loaded /\ request' = request
  BY <1>2 DEF Phases, Phase, Loaded
<1>4. ASSUME \A f \in Evals \ {e} : /\ evalPc'[f] = evalPc[f] /\ wanted'[f] = wanted[f]
                                     /\ snap'[f] = snap[f] /\ chain'[f] = chain[f]
      PROVE  Views' = [Views EXCEPT ![e] = View(e)']
  <2>1. \A f \in Evals \ {e} : View(f)' = View(f)
    BY <1>2, <1>4 DEF View
  <2>2. QED BY <2>1 DEF Views
<1>5. CASE \E c \in Chains : LoadSnapshot(e, c)
  <2>1. PICK c \in Chains : LoadSnapshot(e, c)
    BY <1>5
  <2>2. /\ evalPc[e] = "idle" /\ evalPc'[e] = "holding" /\ wanted'[e] = c /\ snap'[e] = current
        /\ \A f \in Evals \ {e} : /\ evalPc'[f] = evalPc[f] /\ wanted'[f] = wanted[f]
                                   /\ snap'[f] = snap[f] /\ chain'[f] = chain[f]
    BY <1>1, <2>1 DEF LoadSnapshot, EvalGoto, TypeOK
  <2>3. View(e) = Registry!Idle
    BY <2>2 DEF View, Registry!Idle
  <2>4. View(e)' = Registry!Lookup(Loaded, c)
    BY <1>2, <2>2 DEF View, Loaded, Registry!Lookup, Registry!Found, Registry!NoChain
  <2>5. Views' = [Views EXCEPT ![e] = Registry!Lookup(Loaded, c)] /\ Views[e] = Registry!Idle
    BY <1>4, <2>2, <2>3, <2>4 DEF Views
  <2>6. Registry!Look(e, c)
    BY <1>3, <2>5 DEF Registry!Look, Phases, Views
  <2>7. QED BY <2>6 DEF Registry!Next
<1>6. CASE FindChain(e)
  <2>1. /\ evalPc[e] = "holding" /\ evalPc'[e] = "evaluating"
        /\ chain'[e] = Registry!Lookup(heap[snap[e]].chains, wanted[e])
        /\ \A f \in Evals \ {e} : /\ evalPc'[f] = evalPc[f] /\ wanted'[f] = wanted[f]
                                   /\ snap'[f] = snap[f] /\ chain'[f] = chain[f]
    BY <1>1, <1>6 DEF FindChain, EvalGoto, TypeOK
  <2>2. View(e)' = View(e)
    BY <2>1 DEF View, Registry!Lookup, Registry!Found, Registry!NoChain
  <2>3. Views' = Views
    BY <1>4, <2>1, <2>2 DEF Views
  <2>4. QED BY <1>3, <2>3 DEF Registry!vars, Phases, Views
<1>7. CASE EndEval(e)
  <2>1. /\ evalPc[e] = "evaluating" /\ evalPc'[e] = "idle"
        /\ \A f \in Evals \ {e} : /\ evalPc'[f] = evalPc[f] /\ wanted'[f] = wanted[f]
                                   /\ snap'[f] = snap[f] /\ chain'[f] = chain[f]
    BY <1>1, <1>7 DEF EndEval, EvalGoto, TypeOK
  <2>2. View(e) # Registry!Idle
    BY <1>1, <2>1 DEF View, EvalOK
  <2>3. View(e)' = Registry!Idle
    BY <2>1 DEF View, Registry!Idle
  <2>4. Views' = [Views EXCEPT ![e] = Registry!Idle] /\ Views[e] # Registry!Idle
    BY <1>4, <2>1, <2>2, <2>3 DEF Views
  <2>5. Registry!Finish(e)
    BY <1>3, <2>4 DEF Registry!Finish, Phases, Views
  <2>6. QED BY <2>5 DEF Registry!Next
<1>8. QED BY <1>5, <1>6, <1>7 DEF EvalNext

LEMMA StepRefines == IInv /\ [Next]_vars => [Registry!Next]_Registry!vars
<1>1. SUFFICES ASSUME IInv, [Next]_vars PROVE [Registry!Next]_Registry!vars
  OBVIOUS
<1>2. CASE \E l \in Loaders : LoaderNext(l)
  BY <1>1, <1>2, LoaderRefines
<1>3. CASE \E e \in Evals : EvalNext(e)
  BY <1>1, <1>3, EvalRefines
<1>4. CASE UNCHANGED vars
  <2>1. UNCHANGED <<heap, current, request, pc>> /\ UNCHANGED evalVars
    BY <1>4 DEF vars, loaderVars
  <2>2. Phases' = Phases /\ Loaded' = Loaded
    BY <2>1 DEF Phases, Phase, Loaded
  <2>3. Views' = Views
    BY <1>1, <2>1, ViewsKept
  <2>4. QED BY <2>1, <2>2, <2>3 DEF Registry!vars, Phases, Views
<1>5. QED BY <1>1, <1>2, <1>3, <1>4 DEF Next

\* Lock, copy, store and lookup together are the registry: each call takes effect
\* in one step or not at all, and an evaluation works on what was loaded when it
\* took its snapshot.
THEOREM EngineImplementsRegistry == Spec => ImplementsRegistry
  BY RegistryInit, StepRefines, Invariant, PTL DEF Spec, Registry!Spec, ImplementsRegistry
=============================================================================

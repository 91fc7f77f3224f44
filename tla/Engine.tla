-------------------------------- MODULE Engine --------------------------------
(***************************************************************************)
(* Loading, unloading and finding chains (core/engine/load.go): a snapshot *)
(* that is replaced and never written to, published through an atomic      *)
(* pointer; a mutex that serialises the writers; the dependency graph, the *)
(* gauge of loaded chains, and the lookup that every evaluation makes      *)
(* without a lock.                                                         *)
(***************************************************************************)
EXTENDS Naturals, Sequences, FiniteSets, Functions

CONSTANTS
    Chains,     \* chain names
    Rules,      \* rule ids
    Defs,       \* chain definitions: the arguments LoadChain may get
    Loaders,    \* goroutines that call LoadChain and UnloadChain
    Evals,      \* goroutines that call EvalChain
    MaxCalls    \* bound of the model: calls made by all loaders together

ASSUME ChainsFinite == IsFiniteSet(Chains)
ASSUME DefsTyped ==
    Defs \subseteq [id : Chains, refs : Seq(Chains), rules : SUBSET Rules, compiles : BOOLEAN]
ASSUME MaxCallsNat == MaxCalls \in Nat
ASSUME FreeIsNoLoader == "free" \notin Loaders

VARIABLES
    heap,       \* every snapshot ever published, in the order of publication
    current,    \* Engine.snapshot: the position of the one that is current
    writeMu,    \* the loader that holds Engine.writeMu, or "free"
    depGraph,   \* Engine.depGraph
    gauge,      \* what SetLoadedChains last reported
    pc,         \* where each loader is
    request,    \* the call it is making
    link,       \* the number of refs of the chain that it has added
    draft,      \* the snapshot it is building
    evalPc,     \* where each evaluation is
    wanted,     \* the chain name it was called with
    snap,       \* the snapshot pointer it has read
    chain,      \* what it found there
    forgotten,  \* history: references of loaded chains that RemoveNode deleted
    calls       \* the number of calls made so far

loaderVars == <<writeMu, pc, request, link, draft, calls>>
evalVars == <<evalPc, wanted, snap, chain>>
vars == <<heap, current, depGraph, gauge, forgotten, loaderVars, evalVars>>

Graph == INSTANCE DependencyGraph
             WITH graph <- depGraph, answer <- "none", MaxParallel <- MaxCalls

Loaded == heap[current].chains

-----------------------------------------------------------------------------
(* What the engine implements                                              *)

Phase(l) ==
    CASE pc[l] = "idle" -> "idle"
      [] pc[l] \in {"compiled", "linking", "removing", "drafted"} -> "called"
      [] OTHER -> "done"

View(e) ==
    CASE evalPc[e] = "idle" -> [kind |-> "idle"]
      [] evalPc[e] = "holding" ->
             IF wanted[e] \in DOMAIN heap[snap[e]].chains
             THEN [kind |-> "found", def |-> heap[snap[e]].chains[wanted[e]]]
             ELSE [kind |-> "no chain"]
      [] OTHER -> chain[e]

Registry == INSTANCE ChainRegistry
                WITH loaded <- Loaded,
                     phase <- [l \in Loaders |-> Phase(l)],
                     view <- [e \in Evals |-> View(e)]

EmptySnapshot == [chains |-> << >>, rules |-> << >>]

\* A snapshot: the definition of each loaded chain, and for each rule id the
\* definition whose rule has it.
Maps(K) == UNION {[S -> Defs] : S \in SUBSET K}
Snapshots == [chains : Maps(Chains), rules : Maps(Rules)]

NoName == "none"   \* the value of wanted outside a call

LoaderPcs == {"idle", "compiled", "linking", "removing", "drafted", "stored", "cleaned"}

Init ==
    /\ heap = <<EmptySnapshot>>
    /\ current = 1
    /\ writeMu = "free"
    /\ depGraph = Graph!EmptyGraph
    /\ gauge = 0
    /\ pc = [l \in Loaders |-> "idle"]
    /\ request = [l \in Loaders |-> Registry!NoCall]
    /\ link = [l \in Loaders |-> 0]
    /\ draft = [l \in Loaders |-> EmptySnapshot]
    /\ evalPc = [e \in Evals |-> "idle"]
    /\ wanted = [e \in Evals |-> NoName]
    /\ snap = [e \in Evals |-> 0]
    /\ chain = [e \in Evals |-> Registry!Idle]
    /\ forgotten = {}
    /\ calls = 0

Goto(l, from, to) == pc[l] = from /\ pc' = [pc EXCEPT ![l] = to]
EvalGoto(e, from, to) == evalPc[e] = from /\ evalPc' = [evalPc EXCEPT ![e] = to]

-----------------------------------------------------------------------------
(* Faulty variants of the definitions below, one mistake each: the         *)
(* properties at the end of the module reject them.                        *)

\* The rules of the other chains are not copied.
WithChainOnly(s, d) ==
    [chains |-> Registry!With(s.chains, d), rules |-> [r \in d.rules |-> d]]

\* The writers do not exclude each other.
LockForLoadWithoutMutex(l) ==
    /\ Goto(l, "compiled", "linking")
    /\ writeMu' = l
    /\ depGraph' = Graph!WithNode(depGraph, request[l].def.id)
    /\ link' = [link EXCEPT ![l] = 0]
    /\ UNCHANGED <<heap, current, gauge, forgotten, request, draft, calls, evalVars>>

\* The node is left to AddEdge to create.
LockForLoadWithoutNode(l) ==
    /\ writeMu = "free"
    /\ Goto(l, "compiled", "linking")
    /\ writeMu' = l
    /\ link' = [link EXCEPT ![l] = 0]
    /\ UNCHANGED <<heap, current, depGraph, gauge, forgotten, request, draft, calls, evalVars>>

\* A refused reference is logged and skipped.
AddRefSkippingRefusals(l) ==
    /\ pc[l] = "linking"
    /\ link[l] < Len(request[l].def.refs)
    /\ depGraph' = Graph!WithEdge(depGraph, request[l].def.id,
                                  request[l].def.refs[link[l] + 1]).graph
    /\ link' = [link EXCEPT ![l] = @ + 1]
    /\ UNCHANGED <<heap, current, gauge, forgotten, pc, request, writeMu, draft, calls, evalVars>>

\* The refusal returns without releasing the mutex.
AddRefKeepingMutex(l) ==
    LET d == request[l].def
        added == Graph!WithEdge(depGraph, d.id, d.refs[link[l] + 1])
    IN  /\ pc[l] = "linking"
        /\ link[l] < Len(d.refs)
        /\ depGraph' = added.graph
        /\ link' = [link EXCEPT ![l] = IF added.ok THEN @ + 1 ELSE 0]
        /\ pc' = [pc EXCEPT ![l] = IF added.ok THEN @ ELSE "idle"]
        /\ request' = [request EXCEPT ![l] = IF added.ok THEN @ ELSE Registry!NoCall]
        /\ UNCHANGED <<heap, current, gauge, forgotten, writeMu, draft, calls, evalVars>>

-----------------------------------------------------------------------------
(* The two copies of the current snapshot that the writers make            *)

\* loadChain: the chain and its rules replace what has the same name or id.
\* Rules of an earlier version of the chain that it has no longer stay.
WithChain(s, d) ==
    [chains |-> Registry!With(s.chains, d),
     rules  |-> [r \in DOMAIN s.rules \union d.rules |->
                     IF r \in d.rules THEN d ELSE s.rules[r]]]

\* unloadChain: the rules of the chain go by their id.
WithoutChain(s, c) ==
    [chains |-> Registry!Without(s.chains, c),
     rules  |-> Restrict(s.rules,
                    DOMAIN s.rules \ (IF c \in DOMAIN s.chains THEN s.chains[c].rules ELSE {}))]

-----------------------------------------------------------------------------
(* LoadChain                                                               *)

\* The compilation comes first and needs no lock; when it fails the call is
\* over.
Compile(l, d) ==
    /\ calls < MaxCalls
    /\ Goto(l, "idle", IF d.compiles THEN "compiled" ELSE "idle")
    /\ request' = [request EXCEPT ![l] = IF d.compiles THEN Registry!LoadOf(d) ELSE @]
    /\ calls' = calls + 1
    /\ UNCHANGED <<heap, current, depGraph, gauge, forgotten, writeMu, link, draft, evalVars>>

\* writeMu.Lock and AddNode: only the holder of writeMu touches the graph, so
\* nobody can tell the two apart.
LockForLoad(l) ==
    /\ writeMu = "free"
    /\ Goto(l, "compiled", "linking")
    /\ writeMu' = l
    /\ depGraph' = Graph!WithNode(depGraph, request[l].def.id)
    /\ link' = [link EXCEPT ![l] = 0]
    /\ UNCHANGED <<heap, current, gauge, forgotten, request, draft, calls, evalVars>>

\* One AddEdge per reference; the first that is refused ends the call, and
\* leaves the node and the edges added before it in the graph.
AddRef(l) ==
    LET d == request[l].def
        added == Graph!WithEdge(depGraph, d.id, d.refs[link[l] + 1])
    IN  /\ pc[l] = "linking"
        /\ link[l] < Len(d.refs)
        /\ depGraph' = added.graph
        /\ \/ /\ added.ok
              /\ link' = [link EXCEPT ![l] = @ + 1]
              /\ UNCHANGED <<pc, request, writeMu>>
           \/ /\ ~added.ok
              /\ pc' = [pc EXCEPT ![l] = "idle"]
              /\ request' = [request EXCEPT ![l] = Registry!NoCall]
              /\ writeMu' = "free"
              /\ link' = [link EXCEPT ![l] = 0]
        /\ UNCHANGED <<heap, current, gauge, forgotten, draft, calls, evalVars>>

CopyForLoad(l) ==
    /\ Goto(l, "linking", "drafted")
    /\ link[l] = Len(request[l].def.refs)
    /\ draft' = [draft EXCEPT ![l] = WithChain(heap[current], request[l].def)]
    /\ UNCHANGED <<heap, current, depGraph, gauge, forgotten, writeMu, request, link, calls, evalVars>>

-----------------------------------------------------------------------------
(* UnloadChain                                                             *)

LockForUnload(l, c) ==
    /\ calls < MaxCalls
    /\ writeMu = "free"
    /\ Goto(l, "idle", "removing")
    /\ writeMu' = l
    /\ request' = [request EXCEPT ![l] = Registry!UnloadOf(c)]
    /\ calls' = calls + 1
    /\ UNCHANGED <<heap, current, depGraph, gauge, forgotten, link, draft, evalVars>>

CopyForUnload(l) ==
    /\ Goto(l, "removing", "drafted")
    /\ draft' = [draft EXCEPT ![l] = WithoutChain(heap[current], request[l].chain)]
    /\ UNCHANGED <<heap, current, depGraph, gauge, forgotten, writeMu, request, link, calls, evalVars>>

RemoveNode(l) ==
    /\ request[l].kind = "unload"
    /\ Goto(l, "stored", "cleaned")
    /\ depGraph' = Graph!WithoutNode(depGraph, request[l].chain)
    /\ forgotten' = IF request[l].chain \in depGraph.nodes
                    THEN forgotten \union (Chains \X {request[l].chain})
                    ELSE forgotten
    /\ UNCHANGED <<heap, current, gauge, writeMu, request, link, draft, calls, evalVars>>

-----------------------------------------------------------------------------
(* Common to both                                                          *)

\* snapshot.Store.  A chain that is loaded anew has all its references in the
\* graph again.
Store(l) ==
    /\ Goto(l, "drafted", "stored")
    /\ heap' = Append(heap, draft[l])
    /\ current' = Len(heap) + 1
    /\ forgotten' = IF request[l].kind = "load"
                    THEN {p \in forgotten : p[1] # request[l].def.id}
                    ELSE forgotten
    /\ UNCHANGED <<depGraph, gauge, writeMu, request, link, draft, calls, evalVars>>

\* SetLoadedChains with the size of the new snapshot, and the deferred Unlock.
Unlock(l) ==
    /\ Goto(l, IF request[l].kind = "load" THEN "stored" ELSE "cleaned", "idle")
    /\ gauge' = Cardinality(DOMAIN draft[l].chains)
    /\ writeMu' = "free"
    /\ request' = [request EXCEPT ![l] = Registry!NoCall]
    /\ link' = [link EXCEPT ![l] = 0]
    /\ draft' = [draft EXCEPT ![l] = EmptySnapshot]
    /\ UNCHANGED <<heap, current, depGraph, forgotten, calls, evalVars>>

-----------------------------------------------------------------------------
(* EvalChain: the lookup                                                   *)

LoadSnapshot(e, c) ==
    /\ EvalGoto(e, "idle", "holding")
    /\ wanted' = [wanted EXCEPT ![e] = c]
    /\ snap' = [snap EXCEPT ![e] = current]
    /\ UNCHANGED <<heap, current, depGraph, gauge, forgotten, loaderVars, chain>>

FindChain(e) ==
    /\ EvalGoto(e, "holding", "evaluating")
    /\ chain' = [chain EXCEPT ![e] = Registry!Lookup(heap[snap[e]].chains, wanted[e])]
    /\ UNCHANGED <<heap, current, depGraph, gauge, forgotten, loaderVars, wanted, snap>>

EndEval(e) ==
    /\ EvalGoto(e, "evaluating", "idle")
    /\ wanted' = [wanted EXCEPT ![e] = NoName]
    /\ snap' = [snap EXCEPT ![e] = 0]
    /\ chain' = [chain EXCEPT ![e] = Registry!Idle]
    /\ UNCHANGED <<heap, current, depGraph, gauge, forgotten, loaderVars>>

-----------------------------------------------------------------------------
LoaderStep(l) ==
    \/ LockForLoad(l) \/ AddRef(l) \/ CopyForLoad(l)
    \/ CopyForUnload(l) \/ RemoveNode(l)
    \/ Store(l) \/ Unlock(l)

LoaderNext(l) ==
    \/ \E d \in Defs : Compile(l, d)
    \/ \E c \in Chains : LockForUnload(l, c)
    \/ LoaderStep(l)

EvalNext(e) ==
    \/ \E c \in Chains : LoadSnapshot(e, c)
    \/ FindChain(e)
    \/ EndEval(e)

Next ==
    \/ \E l \in Loaders : LoaderNext(l)
    \/ \E e \in Evals : EvalNext(e)

Spec == Init /\ [][Next]_vars

\* A call that has begun goes on; a sync.Mutex that keeps being released is
\* granted to every waiter in the end (its starvation mode hands it over in
\* the order of arrival).
Fairness ==
    \A l \in Loaders : WF_vars(LoaderStep(l)) /\ SF_vars(LockForLoad(l))

FairSpec == Spec /\ Fairness

-----------------------------------------------------------------------------
(* Properties                                                              *)

TypeOK ==
    /\ heap \in Seq(Snapshots)
    /\ current \in DOMAIN heap
    /\ writeMu \in Loaders \union {"free"}
    /\ depGraph \in Graph!Graphs
    /\ gauge \in Nat
    /\ pc \in [Loaders -> LoaderPcs]
    /\ request \in [Loaders -> Registry!Requests \union {Registry!NoCall}]
    /\ link \in [Loaders -> Nat]
    /\ draft \in [Loaders -> Snapshots]
    /\ evalPc \in [Evals -> {"idle", "holding", "evaluating"}]
    /\ wanted \in [Evals -> Chains \union {NoName}]
    /\ snap \in [Evals -> {0} \union DOMAIN heap]
    /\ chain \in [Evals -> {Registry!Idle, Registry!NoChain} \union {Registry!Found(d) : d \in Defs}]
    /\ forgotten \subseteq Chains \X Chains
    /\ calls \in 0..MaxCalls

(***************************************************************************)
(* Lock, copy, store and the lookup of an evaluation, taken together, are  *)
(* the registry of ChainRegistry: no update is lost between two writers,   *)
(* a refused load has no effect on what is loaded, and an evaluation that  *)
(* holds a snapshot finds in it what was loaded when it took it.           *)
(***************************************************************************)
ImplementsRegistry == Registry!Spec

(***************************************************************************)
(* The dependency graph, which is changed in other steps than the          *)
(* snapshot, has a node for every chain that is loaded.                    *)
(***************************************************************************)
GraphCoversLoaded == DOMAIN Loaded \subseteq depGraph.nodes

RefsOf(chains) ==
    {p \in Chains \X Chains : /\ p[1] \in DOMAIN chains
                              /\ p[2] \in Range(chains[p[1]].refs)}

(***************************************************************************)
(* A reference of a loaded chain can only miss from the graph when the     *)
(* chain it names was unloaded after it was added.  Of the references that *)
(* are left, no cycle can be made, so that is the only way to load one.    *)
(***************************************************************************)
RefsLostOnlyByUnload ==
    /\ RefsOf(Loaded) \ forgotten \subseteq Graph!Linked(depGraph.edges)
    /\ ~Graph!Cyclic(RefsOf(Loaded) \ forgotten)

(***************************************************************************)
(* Between two calls the gauge is the number of chains that are loaded,    *)
(* whichever writer came last.                                             *)
(***************************************************************************)
GaugeAccurate == writeMu = "free" => gauge = Cardinality(DOMAIN Loaded)

(***************************************************************************)
(* The rule index knows every rule of a loaded chain, in the version that  *)
(* is loaded, provided no other chain uses that rule id.                   *)
(***************************************************************************)
OwnRule(c, r) == \A d \in Defs : r \in d.rules => d.id = c
IndexKnowsOwnRules ==
    \A c \in DOMAIN Loaded : \A r \in Loaded[c].rules :
        OwnRule(c, r) => r \in DOMAIN heap[current].rules /\ heap[current].rules[r] = Loaded[c]

(***************************************************************************)
(* What the engine keeps besides the chains (gauge and rule index) is in   *)
(* step with them.                                                         *)
(***************************************************************************)
BooksExact == TypeOK /\ GaugeAccurate /\ IndexKnowsOwnRules

(***************************************************************************)
(* The references of loaded chains have no cycle (RuleChain.Refs: "for     *)
(* dependency detection and protection against circular references").      *)
(***************************************************************************)
LoadedRefsAcyclic == ~Graph!Cyclic(RefsOf(Loaded))

(***************************************************************************)
(* A call that has begun returns: the mutex is released on every way out,  *)
(* the refusal included, and nobody waits for it for ever.                 *)
(***************************************************************************)
CallsReturn == \A l \in Loaders : pc[l] # "idle" ~> pc[l] = "idle"
===============================================================================

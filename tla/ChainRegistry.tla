---------------------------- MODULE ChainRegistry ----------------------------
(***************************************************************************)
(* What the engine promises about loading, unloading and finding chains:   *)
(* a registry in which every call takes effect in one step between its     *)
(* start and its return, or, for a refused load, not at all; and an        *)
(* evaluation works to its end on the chain that was loaded when it        *)
(* looked, whatever happens to the registry meanwhile.                     *)
(***************************************************************************)
EXTENDS Functions

CONSTANTS
    Chains,    \* chain names
    Defs,      \* chain definitions, each with the id of the chain it defines
    Loaders,   \* goroutines that load and unload
    Evals      \* goroutines that evaluate

VARIABLES
    loaded,    \* the definition of every chain that is loaded
    request,   \* the call each loader is making
    phase,     \* how far that call is
    view       \* the definition each evaluation works on

vars == <<loaded, request, phase, view>>

LoadOf(d) == [kind |-> "load", def |-> d]
UnloadOf(c) == [kind |-> "unload", chain |-> c]
Requests == {LoadOf(d) : d \in Defs} \union {UnloadOf(c) : c \in Chains}

NoCall == [kind |-> "none"]
Idle == [kind |-> "idle"]
NoChain == [kind |-> "no chain"]
Found(d) == [kind |-> "found", def |-> d]

\* What a lookup of chain c in a map of chains returns.
Lookup(chains, c) == IF c \in DOMAIN chains THEN Found(chains[c]) ELSE NoChain

With(chains, d) == [c \in DOMAIN chains \union {d.id} |-> IF c = d.id THEN d ELSE chains[c]]
Without(chains, c) == Restrict(chains, DOMAIN chains \ {c})

Applied(chains, r) ==
    IF r.kind = "load" THEN With(chains, r.def) ELSE Without(chains, r.chain)

Init ==
    /\ loaded = << >>
    /\ request = [l \in Loaders |-> NoCall]
    /\ phase = [l \in Loaders |-> "idle"]
    /\ view = [e \in Evals |-> Idle]

Call(l, r) ==
    /\ phase[l] = "idle"
    /\ phase' = [phase EXCEPT ![l] = "called"]
    /\ request' = [request EXCEPT ![l] = r]
    /\ UNCHANGED <<loaded, view>>

Commit(l) ==
    /\ phase[l] = "called"
    /\ phase' = [phase EXCEPT ![l] = "done"]
    /\ loaded' = Applied(loaded, request[l])
    /\ UNCHANGED <<request, view>>

Return(l) ==
    /\ \/ phase[l] = "done"
       \/ phase[l] = "called" /\ request[l].kind = "load"    \* refused
    /\ phase' = [phase EXCEPT ![l] = "idle"]
    /\ request' = [request EXCEPT ![l] = NoCall]
    /\ UNCHANGED <<loaded, view>>

Look(e, c) ==
    /\ view[e] = Idle
    /\ view' = [view EXCEPT ![e] = Lookup(loaded, c)]
    /\ UNCHANGED <<loaded, request, phase>>

Finish(e) ==
    /\ view[e] # Idle
    /\ view' = [view EXCEPT ![e] = Idle]
    /\ UNCHANGED <<loaded, request, phase>>

Next ==
    \/ \E l \in Loaders : (\E r \in Requests : Call(l, r)) \/ Commit(l) \/ Return(l)
    \/ \E e \in Evals : (\E c \in Chains : Look(e, c)) \/ Finish(e)

Spec == Init /\ [][Next]_vars
=============================================================================

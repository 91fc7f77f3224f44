----------------------- MODULE DependencyGraphAlgorithms -----------------------
(***************************************************************************)
(* The methods of core/compiler/dependency.go with their loops run step by *)
(* step: AddEdge inserts the edge, searches in three colours and takes the *)
(* edge out again or keeps it; DetectCycle searches from node after node;  *)
(* TopoSort takes out nodes that no remaining edge enters.  The component  *)
(* implements DependencyGraph, where each method is one step and the       *)
(* search of AddEdge is what CycleFrom says.                               *)
(*                                                                         *)
(* The mutex is held from the first step of a method to the last.  Methods *)
(* that only read share it and change nothing but variables of their own,  *)
(* so one of them at a time is enough.  A loop over a map or a list takes  *)
(* its items in any order.                                                 *)
(***************************************************************************)
EXTENDS DependencyGraph, Sequences

VARIABLES
    at,        \* the loop the holder of the mutex is in; "free": nobody holds it
    maps,      \* the three maps as the holder has left them
    edge,      \* AddEdge: the edge that it has inserted
    start,     \* detectCycleLocked: where the search began
    color,     \* the colour of each node
    path,      \* the calls of dfs in progress, the outermost first
    rest,      \* for each of them, the successors its loop has still to come to
    found,     \* it has met a grey node
    todo,      \* DetectCycle, TopoSort: the nodes the loop has still to come to
    inDegree,  \* TopoSort: the edges into each node, without those taken out
    order,     \* result, followed by queue
    taken,     \* the length of result
    list       \* the edges of the node taken last that are still to be taken out

search == <<start, color, path, rest, found>>
sorting == <<inDegree, order, taken, list>>
algoVars == <<graph, answer, at, maps, edge, search, todo, sorting>>

Successors(edges, c) == {d \in Chains : edges[<<c, d>>] > 0}

\* The items of all lists of edges: <<p, k>> is the k-th occurrence of p[2] in
\* the list of p[1].
Occurrences(edges) == {o \in Pairs \X (1..MaxParallel) : o[2] <= edges[o[1]]}

\* Faulty variant of Into, for which CycleSearchIsExact fails: each edge counts
\* once, however often it occurs.
IntoOnce(edges, c) == {o \in Occurrences(edges) : o[1][2] = c /\ o[2] = 1}

From(edges, c) == {o \in Occurrences(edges) : o[1][1] = c}
Into(edges, c) == {o \in Occurrences(edges) : o[1][2] = c}

White == [c \in Chains |-> "white"]
NoRest == [c \in Chains |-> {}]
NoDegree == [c \in Chains |-> 0]

SearchInit ==
    /\ Init
    /\ at = "free" /\ maps = graph /\ edge = <<>> /\ todo = {}
    /\ start = <<>> /\ color = White /\ path = <<>> /\ rest = NoRest /\ found = FALSE
    /\ inDegree = NoDegree /\ order = <<>> /\ taken = 0 /\ list = {}

\* A method returns: the maps are what the next caller finds, and the
\* variables of the method are gone.
Return(g, result) ==
    /\ at' = "free" /\ maps' = g /\ edge' = <<>> /\ todo' = {}
    /\ start' = <<>> /\ color' = White /\ path' = <<>> /\ rest' = NoRest /\ found' = FALSE
    /\ inDegree' = NoDegree /\ order' = <<>> /\ taken' = 0 /\ list' = {}
    /\ graph' = g
    /\ answer' = result

-----------------------------------------------------------------------------
(* detectCycleLocked: dfs in three colours                                 *)

StartSearch(edges, c) ==
    /\ start' = c
    /\ color' = [d \in Chains |-> IF d = c THEN "grey" ELSE "white"]
    /\ path' = <<c>>
    /\ rest' = [d \in Chains |-> IF d = c THEN Successors(edges, c) ELSE {}]
    /\ found' = FALSE

Node == path[Len(path)]
Searching == path # <<>> /\ ~found

\* Faulty variant of MeetGrey, for which MethodsAreAtomic fails: every node that
\* is not white is passed over.
MeetGreyGoesOn(next) ==
    /\ color[next] = "grey"
    /\ rest' = [rest EXCEPT ![Node] = @ \ {next}]
    /\ UNCHANGED <<start, color, path, found>>

\* The loop over the successors of a grey node.  A second occurrence of a node
\* that was white finds it black: it changes nothing.
MeetGrey(next) ==
    /\ color[next] = "grey"
    /\ found' = TRUE
    /\ UNCHANGED <<start, color, path, rest>>

MeetWhite(next) ==
    /\ color[next] = "white"
    /\ color' = [color EXCEPT ![next] = "grey"]
    /\ path' = Append(path, next)
    /\ rest' = [rest EXCEPT ![Node] = @ \ {next}, ![next] = Successors(maps.edges, next)]
    /\ UNCHANGED <<start, found>>

MeetBlack(next) ==
    /\ color[next] = "black"
    /\ rest' = [rest EXCEPT ![Node] = @ \ {next}]
    /\ UNCHANGED <<start, color, path, found>>

Meet ==
    /\ Searching
    /\ \E next \in rest[Node] : MeetGrey(next) \/ MeetWhite(next) \/ MeetBlack(next)

\* The call of dfs ends without a cycle.
Leave ==
    /\ Searching
    /\ rest[Node] = {}
    /\ color' = [color EXCEPT ![Node] = "black"]
    /\ path' = SubSeq(path, 1, Len(path) - 1)
    /\ UNCHANGED <<start, rest, found>>

Search ==
    /\ Meet \/ Leave
    /\ UNCHANGED <<graph, answer, at, maps, edge, todo, sorting>>

-----------------------------------------------------------------------------
(* AddNode, RemoveNode, AddEdge                                            *)

DoAddNode(c) ==
    /\ at = "free"
    /\ Return(WithNode(maps, c), "ok")

DoRemoveNode(c) ==
    /\ at = "free"
    /\ Return(WithoutNode(maps, c), "ok")

\* Faulty variant of RefuseSelf, for which RejectionChangesNothing fails: the node is
\* created before the test for a self reference.
RefuseSelfNodesFirst(c) ==
    /\ at = "free"
    /\ maps.edges[<<c, c>>] < MaxParallel
    /\ Return(WithNode(maps, c), "error")

RefuseSelf(c) ==
    /\ at = "free"
    /\ maps.edges[<<c, c>>] < MaxParallel
    /\ Return(maps, "error")

Insert(g, p) == [g EXCEPT !.edges[p] = @ + 1]
TakeOut(g, p) == [g EXCEPT !.edges[p] = @ - 1]
Record(g, p) == [g EXCEPT !.reverse[<<p[2], p[1]>>] = @ + 1]

BeginAddEdge(from, to) ==
    /\ at = "free"
    /\ from # to
    /\ maps.edges[<<from, to>>] < MaxParallel
    /\ at' = "AddEdge"
    /\ edge' = <<from, to>>
    /\ maps' = Insert(WithNode(WithNode(maps, from), to), <<from, to>>)
    /\ StartSearch(maps'.edges, from)
    /\ UNCHANGED <<graph, answer, todo, sorting>>

EndAddEdge ==
    /\ at = "AddEdge"
    /\ ~Searching
    /\ IF found THEN Return(TakeOut(maps, edge), "error")
                ELSE Return(Record(maps, edge), "ok")

-----------------------------------------------------------------------------
(* DetectCycle                                                             *)

\* With no node to start from, it returns at once and nothing has changed.
BeginDetectCycle ==
    /\ at = "free"
    /\ at' = "DetectCycle"
    /\ \E c \in maps.nodes :
          /\ todo' = maps.nodes \ {c}
          /\ StartSearch(maps.edges, c)
    /\ UNCHANGED <<graph, answer, maps, edge, sorting>>

MoreToSearch == at = "DetectCycle" /\ path = <<>> /\ todo # {}

NextNode ==
    /\ MoreToSearch
    /\ \E c \in todo :
          /\ todo' = todo \ {c}
          /\ StartSearch(maps.edges, c)
    /\ UNCHANGED <<graph, answer, at, maps, edge, sorting>>

EndDetectCycle ==
    /\ at = "DetectCycle"
    /\ ~Searching
    /\ ~MoreToSearch
    /\ Return(maps, answer)

-----------------------------------------------------------------------------
(* TopoSort                                                                *)

BeginTopoSort ==
    /\ at = "free"
    /\ at' = "collect"
    /\ inDegree' = [c \in Chains |-> Cardinality(Into(maps.edges, c))]
    /\ todo' = maps.nodes
    /\ UNCHANGED <<graph, answer, maps, edge, search, order, taken, list>>

\* The nodes with no edge into them enter the queue.
Collect ==
    /\ at = "collect"
    /\ \E c \in todo :
          /\ todo' = todo \ {c}
          /\ order' = IF inDegree[c] = 0 THEN Append(order, c) ELSE order
    /\ UNCHANGED <<graph, answer, at, maps, edge, search, inDegree, taken, list>>

BeginSort ==
    /\ at = "collect"
    /\ todo = {}
    /\ at' = "sort"
    /\ UNCHANGED <<graph, answer, maps, edge, search, todo, sorting>>

TakeNode ==
    /\ at = "sort"
    /\ list = {}
    /\ taken < Len(order)
    /\ taken' = taken + 1
    /\ list' = From(maps.edges, order[taken + 1])
    /\ UNCHANGED <<graph, answer, at, maps, edge, search, todo, inDegree, order>>

Lower ==
    /\ at = "sort"
    /\ \E o \in list :
          LET dep == o[1][2]
          IN  /\ list' = list \ {o}
              /\ inDegree' = [inDegree EXCEPT ![dep] = @ - 1]
              /\ order' = IF inDegree[dep] = 1 THEN Append(order, dep) ELSE order
    /\ UNCHANGED <<graph, answer, at, maps, edge, search, todo, taken>>

Sorted == at = "sort" /\ list = {} /\ taken = Len(order)

EndTopoSort ==
    /\ Sorted
    /\ Return(maps, answer)

-----------------------------------------------------------------------------

SearchNext ==
    \/ \E c \in Chains : DoAddNode(c) \/ DoRemoveNode(c) \/ RefuseSelf(c)
    \/ \E from, to \in Chains : BeginAddEdge(from, to)
    \/ Search
    \/ EndAddEdge
    \/ BeginDetectCycle \/ NextNode \/ EndDetectCycle
    \/ BeginTopoSort \/ Collect \/ BeginSort \/ TakeNode \/ Lower \/ EndTopoSort

SearchSpec == SearchInit /\ [][SearchNext]_algoVars

-----------------------------------------------------------------------------
(* Properties                                                              *)

SearchIsOver == at \in {"AddEdge", "DetectCycle"} /\ ~Searching

(***************************************************************************)
(* The search finds a cycle exactly when one is within reach of its start, *)
(* although it gives up a node for good once the node is black.            *)
(***************************************************************************)
SearchIsExact ==
    SearchIsOver => (found <=> CycleFrom(Linked(maps.edges), start))

(***************************************************************************)
(* Every list of edges has been gone through when TopoSort returns, all    *)
(* nodes are in its result, none twice, and each comes after those that    *)
(* refer to it.                                                            *)
(***************************************************************************)
TopoSortOrders ==
    Sorted =>
        /\ Len(order) = Cardinality(maps.nodes)
        /\ {order[i] : i \in DOMAIN order} = maps.nodes
        /\ \A p \in Linked(maps.edges) : \A i, j \in DOMAIN order :
               order[i] = p[1] /\ order[j] = p[2] => i < j

(***************************************************************************)
(* The search of AddEdge is exact in both directions; the other two        *)
(* methods meet only graphs without a cycle: DetectCycle reports none, and *)
(* TopoSort succeeds with an order that respects every edge.               *)
(***************************************************************************)
CycleSearchIsExact ==
    /\ SearchIsExact
    /\ at = "DetectCycle" => ~found
    /\ TopoSortOrders

(***************************************************************************)
(* To its callers every method is one step, and AddEdge rejects exactly    *)
(* what CycleFrom says: the component implements DependencyGraph.          *)
(***************************************************************************)
MethodsAreAtomic == Spec
=============================================================================

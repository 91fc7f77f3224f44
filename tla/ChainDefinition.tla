-------------------------- MODULE ChainDefinition ---------------------------
(***************************************************************************)
(* From the file of a rule chain to what the engine evaluates:             *)
(* config.Parse (Validate, ParseToIntermediate, parseIntermediate with the *)
(* node registry), compiler.CompileChain, and what stands beside them:     *)
(* config.DetectConflicts, config.CompileValidator and router.DataRouter.  *)
(*                                                                         *)
(* A tree of conditions is a function from the positions of its nodes (the *)
(* root is at << >>, the i-th child of the node at p at Append(p, i)) to   *)
(* what each node is: an operator, or the type of a leaf.                  *)
(*                                                                         *)
(* The types of conditions and actions are some of the registered ones,    *)
(* "slow" and "refused", which stand for the types that are not of the     *)
(* fast path and for those whose factory refuses the configuration, and    *)
(* those on points, which CompileValidator knows and, but for "transform", *)
(* no registry.  What a leaf answers for a data point is an argument       *)
(* (truth).                                                                *)
(***************************************************************************)
EXTENDS Integers, Sequences, SequencesExt, FiniteSets, TLC

CONSTANTS MaxDepth,             \* of a condition tree: 32 in validator.go
          MaxConditionDepth,    \* 32 in compiler.go
          MaxActionChainLength, \* 32 in compiler.go
          Ids,                  \* the ids of rules, in the order of strings
          ChainConfigs          \* what the files hold

Nodes == [op : STRING, leaf : STRING, kids : Nat]

IsTree(tree) ==
  /\ DOMAIN tree \subseteq Seq(Nat) /\ << >> \in DOMAIN tree
  /\ \A p \in DOMAIN tree : tree[p] \in Nodes
  /\ \A p \in DOMAIN tree : \A i \in 1 .. tree[p].kids : Append(p, i) \in DOMAIN tree

IsList(s) == Len(s) \in Nat /\ DOMAIN s = 1 .. Len(s)

IsRule(rule) ==
  /\ rule.id \in Range(Ids) \cup {""} /\ rule.priority \in Int /\ rule.enabled \in BOOLEAN
  /\ IsTree(rule.condition) /\ IsList(rule.actions)

IsConfig(c) ==
  /\ IsList(c.inputs) /\ IsList(c.rules)
  /\ \A i \in DOMAIN c.rules : IsRule(c.rules[i])

ASSUME DefinitionAssumption ==
  /\ MaxDepth \in Nat /\ MaxConditionDepth \in Nat /\ MaxActionChainLength \in Nat
  /\ MaxDepth <= MaxConditionDepth

ASSUME ConfigAssumption ==
  /\ Ids \in Seq(STRING) /\ \A i, j \in DOMAIN Ids : Ids[i] = Ids[j] => i = j
  /\ \A c \in ChainConfigs : IsConfig(c)

VARIABLES config,    \* the ChainConfig
          stage,     \* "read", "valid", "parsed", "compiled" or "refused"
          chain,     \* the rules that the registry made
          compiled   \* the CompiledChain

definitionVars == <<config, stage, chain, compiled>>

-----------------------------------------------------------------------------
(* config.Validate *)

PointTypes == {"analog", "digital", "meter"}

NoRepeats(s, Key(_)) == \A i, j \in DOMAIN s : Key(s[i]) = Key(s[j]) => i = j

InputName(input) == input.name
RuleID(rule) == rule.id

validateInputs(inputs, pipelineType) ==
  /\ \A i \in DOMAIN inputs : /\ inputs[i].name # ""
                              /\ pipelineType # "" => inputs[i].type = pipelineType
                              /\ inputs[i].type \in PointTypes
                              /\ inputs[i].data \in {"double", "int", "bool", "string"}
  /\ NoRepeats(inputs, InputName)

\* The nodes that a walk meets that does not look at the children of a leaf.
Reached(tree) ==
  {p \in DOMAIN tree : \A q \in DOMAIN tree : IsStrictPrefix(q, p) => tree[q].leaf = ""}

validateConditionNode(tree) ==
  \A p \in Reached(tree) :
    /\ Len(p) <= MaxDepth
    /\ \/ tree[p].leaf # ""
       \/ /\ tree[p].op = "" => tree[p].kids = 0
          /\ tree[p].op \in {"and", "or", "not", ""}

validateRuleConfig(rule, inputNames) ==
  /\ Range(rule.bindings) \subseteq inputNames
  /\ rule.mode \in {"single", "multi", ""}
  /\ rule.mode = "single" => Len(rule.bindings) <= 1
  /\ validateConditionNode(rule.condition)
  /\ \A i \in DOMAIN rule.actions : rule.actions[i] # ""

InputNames(c) == {c.inputs[i].name : i \in DOMAIN c.inputs}

Validate(c) ==
  /\ c.id # "" /\ c.status \in {"draft", "deployed", "archived", ""}
  /\ c.pipelineType \in PointTypes \cup {""}
  /\ validateInputs(c.inputs, c.pipelineType)
  /\ c.rules # << >>
  /\ \A i \in DOMAIN c.rules :
       /\ c.rules[i].id # ""
       /\ validateRuleConfig(c.rules[i], InputNames(c))
  /\ NoRepeats(c.rules, RuleID)

-----------------------------------------------------------------------------
(* nodes.Registry and the second stage of config.Parse *)

Absent == "absent"

\* The conditions whose factories need a list of names.
Named(type) == type \in {"device_type", "device_id", "point_name"}

\* The types that a registry knows, and the configurations its factories take.
Conditions == {"value_range", "device_type", "slow", "refused"}
Actions == {"transform", "drop", "slow", "refused"}

CreateCondition(type) == type \in Conditions \ {"refused"}
CreateAction(type) == type \in Actions \ {"refused"}

\* Every leaf that materializeCondition meets can be made.
Materializes(tree) ==
  \A p \in Reached(tree) : tree[p].leaf # "" => CreateCondition(tree[p].leaf)

Operator(op) == IF op \in {"and", "or", "not"} THEN op ELSE "and"

materializeCondition(tree) ==
  [p \in Reached(tree) |->
     IF tree[p].leaf # "" THEN [op |-> "and", leaf |-> tree[p].leaf, kids |-> 0]
     ELSE [op |-> Operator(tree[p].op), leaf |-> "", kids |-> tree[p].kids]]

RuleMaterializes(rule) ==
  /\ Materializes(rule.condition)
  /\ Named(rule.condition[<< >>].leaf) => rule.parameters.own # Absent
  /\ \A i \in DOMAIN rule.actions : CreateAction(rule.actions[i])

\* A chain of the configuration has no weights: they are zero.
materializeRule(rule) ==
  [id |-> rule.id, priority |-> rule.priority, weight |-> 0,
   enabled |-> rule.enabled \/ (rule.priority = 0 /\ rule.id = ""),
   condition |-> materializeCondition(rule.condition),
   actions |-> rule.actions]

-----------------------------------------------------------------------------
(* core.ConditionNode.Evaluate: the answer, and the leaves asked for it in order *)

Answer(is, asked) == [is |-> is, asked |-> asked]

Not(answer) == Answer(~answer.is, answer.asked)

\* A loop over the children that returns with the first that answers so.
Loop(answers, until) ==
  LET so == {i \in DOMAIN answers : answers[i].is = until}
      returns == IF so = {} THEN Len(answers) ELSE Min(so) IN
  Answer(IF so = {} THEN ~until ELSE until, FlattenSeq([i \in 1 .. returns |-> answers[i].asked]))

\* What the children of the node at p answer.
KidAnswers(answer, p, kids) == [i \in 1 .. kids |-> answer[Append(p, i)]]

EvaluateNode(tree, truth, answer, p) ==
  LET node == tree[p]
      kids == KidAnswers(answer, p, node.kids) IN
  IF node.leaf # "" THEN Answer(truth[node.leaf], <<node.leaf>>)
  ELSE CASE node.op = "and" -> Loop(kids, FALSE)
         [] node.op = "or"  -> Loop(kids, TRUE)
         [] node.op = "not" -> IF node.kids = 0 THEN Answer(TRUE, << >>) ELSE Not(kids[1])

Evaluate(tree, truth) ==
  LET answer[p \in DOMAIN tree] == EvaluateNode(tree, truth, answer, p) IN answer[<< >>]

-----------------------------------------------------------------------------
(* core/compiler *)

TooDeep(tree) == \E p \in DOMAIN tree : Len(p) > MaxConditionDepth

isConditionFast(tree) ==
  \A p \in DOMAIN tree : tree[p].leaf # "" => tree[p].leaf \in {"value_range", "device_type"}

\* The closure that compileConditionTree makes of a node, as what it does: "ask" a leaf,
\* call the closures of the children in order "until" one answers so, or "negate" the
\* answer of the kid-th.
Ask(leaf) == [do |-> "ask", leaf |-> leaf]
Until(until, kids) == [do |-> "until", until |-> until, kids |-> kids]
Negate(kid) == [do |-> "negate", kid |-> kid]

\* Mutation: not applies to the last of its children.
compileConditionTreeLast(tree) ==
  [p \in DOMAIN tree |->
     LET node == tree[p] IN
     CASE node.leaf # "" -> Ask(node.leaf)
       [] node.leaf = "" /\ node.op = "and" -> Until(FALSE, node.kids)
       [] node.leaf = "" /\ node.op = "or"  -> Until(TRUE, node.kids)
       [] node.leaf = "" /\ node.op = "not" ->
            IF node.kids = 0 THEN Until(TRUE, 0) ELSE Negate(node.kids)]

compileConditionTree(tree) ==
  [p \in DOMAIN tree |->
     LET node == tree[p] IN
     CASE node.leaf # "" -> Ask(node.leaf)
       [] node.leaf = "" /\ node.op = "and" -> Until(FALSE, node.kids)
       [] node.leaf = "" /\ node.op = "or"  -> Until(TRUE, node.kids)
       [] node.leaf = "" /\ node.op = "not" ->
            IF node.kids = 0 THEN Until(TRUE, 0) ELSE Negate(1)]

RunNode(closures, truth, answer, p) ==
  LET closure == closures[p] IN
  CASE closure.do = "ask" -> Answer(truth[closure.leaf], <<closure.leaf>>)
    [] closure.do = "until" -> Loop(KidAnswers(answer, p, closure.kids), closure.until)
    [] closure.do = "negate" -> Not(answer[Append(p, closure.kid)])

RunClosures(closures, truth) ==
  LET answer[p \in DOMAIN closures] == RunNode(closures, truth, answer, p) IN answer[<< >>]

Compiles(rule) == /\ ~TooDeep(rule.condition)
                  /\ Len(rule.actions) <= MaxActionChainLength

FastActions == {"transform", "drop"}

compileRule(rule) ==
  [id |-> rule.id, priority |-> rule.priority, weight |-> rule.weight,
   evaluate |-> compileConditionTree(rule.condition),
   isFast |-> isConditionFast(rule.condition) /\ Range(rule.actions) \subseteq FastActions]

Rank(id) == CHOOSE i \in DOMAIN Ids : Ids[i] = id

Before(a, b) ==
  \/ a.priority < b.priority
  \/ a.priority = b.priority /\ a.weight < b.weight
  \/ a.priority = b.priority /\ a.weight = b.weight /\ Rank(a.id) < Rank(b.id)

\* The place of rules[i] after a stable sort: it comes after those that are before it and
\* after those that neither are nor come later.
Place(rules, i) ==
  LET Precedes(j) == Before(rules[j], rules[i]) \/ (j < i /\ ~Before(rules[i], rules[j])) IN
  1 + Cardinality({j \in DOMAIN rules : Precedes(j)})

StableSort(rules) ==
  [k \in 1 .. Cardinality(DOMAIN rules) |->
     rules[CHOOSE i \in DOMAIN rules : Place(rules, i) = k]]

\* The rules of the fast and of the slow path are given by their places among the sorted.
compileChain(rules) ==
  LET sorted == StableSort([i \in {i \in DOMAIN rules : rules[i].enabled} |-> compileRule(rules[i])]) IN
  [sorted |-> sorted,
   fast |-> {k \in DOMAIN sorted : sorted[k].isFast},
   slow |-> {k \in DOMAIN sorted : ~sorted[k].isFast}]

-----------------------------------------------------------------------------
(* config.DetectConflicts.  A leaf's parameters are under the keys that its factory
   reads (own) and under those that the detector reads (read, absent where it is
   Absent); the detector compares value_range and quality by numbers, with 0 for an
   absent key, and the types of names by sets. *)

configOverlaps(type, a, b) ==
  LET Number(x) == IF x.read = Absent THEN "0" ELSE x.read IN
  IF Named(type) THEN a.read # Absent /\ a.read = b.read
  ELSE IF type \in {"value_range", "quality"} THEN Number(a) = Number(b)
  ELSE TRUE

hasConditionOverlap(r1, r2) ==
  LET type(r) == r.condition[<< >>].leaf IN
  /\ type(r1) # "" /\ type(r1) = type(r2)
  /\ configOverlaps(type(r1), r1.parameters, r2.parameters)

hasActionConflict(r1, r2) ==
  LET Has(r, type) == type \in Range(r.actions)
      DropsFor(a, b) == Has(a, "drop") /\ ~Has(b, "drop") /\ b.actions # << >> IN
  (Has(r1, "transform") /\ Has(r2, "transform")) \/ DropsFor(r1, r2) \/ DropsFor(r2, r1)

DetectConflicts(rules) ==
  LET Pairs(Conflict(_, _)) ==
        UNION {{{rules[i].id, rules[j].id} : j \in {j \in DOMAIN rules :
                                                    i < j /\ Conflict(rules[i], rules[j])}} :
                 i \in DOMAIN rules} IN
  [action |-> Pairs(hasActionConflict), condition |-> Pairs(hasConditionOverlap)]

-----------------------------------------------------------------------------
(* config.CompileValidator: conditions and actions on points name declared ones.  The
   names that those of a rule are configured with are its parameters.points, with
   Absent among them if one has none. *)

LeavesOf(tree) == {tree[p].leaf : p \in Reached(tree)}

PointConditions == {"point_value", "point_quality", "point_compare", "point_threshold",
                    "point_limit", "point_range", "point_change"}
PointActions == {"set_value", "set_quality", "set_output", "calc_expression", "transform"}

PointsDeclared(rule, inputNames) ==
  Absent \notin rule.parameters.points /\ rule.parameters.points \subseteq inputNames \ {""}

ValidateRule(rule, inputNames) ==
  \/ LeavesOf(rule.condition) \cap PointConditions = {}
       /\ Range(rule.actions) \cap PointActions = {}
  \/ PointsDeclared(rule, inputNames)

-----------------------------------------------------------------------------
(* router.DataRouter *)

RegisterChain(c) ==
  [pipelineType |-> c.pipelineType,
   index |-> [name \in InputNames(c) |->
                CHOOSE i \in DOMAIN c.inputs : /\ c.inputs[i].name = name
                                               /\ \A j \in DOMAIN c.inputs :
                                                    c.inputs[j].name = name => j <= i]]

TypeMatched(entry, point) == entry.pipelineType = "" \/ entry.pipelineType = point.type
Declared(entry, point) == point.name \in DOMAIN entry.index

\* The chain among those of Route, and the input the point is for.
Routed(entry, point) == TypeMatched(entry, point) /\ Declared(entry, point)
ValidateRoute(entry, point) ==
  IF ~TypeMatched(entry, point) THEN "mismatch"
  ELSE IF ~Declared(entry, point) THEN "undeclared" ELSE "ok"

-----------------------------------------------------------------------------
(* The stages *)

DefinitionInit ==
  /\ config \in ChainConfigs
  /\ stage = "read" /\ chain = << >> /\ compiled = << >>

Check ==
  /\ stage = "read"
  /\ stage' = IF Validate(config) THEN "valid" ELSE "refused"
  /\ UNCHANGED <<config, chain, compiled>>

Parse ==
  /\ stage = "valid"
  /\ IF \A i \in DOMAIN config.rules : RuleMaterializes(config.rules[i])
     THEN /\ stage' = "parsed"
          /\ chain' = [i \in DOMAIN config.rules |-> materializeRule(config.rules[i])]
     ELSE stage' = "refused" /\ UNCHANGED chain
  /\ UNCHANGED <<config, compiled>>

Compile ==
  /\ stage = "parsed"
  /\ IF \A i \in DOMAIN chain : chain[i].enabled => Compiles(chain[i])
     THEN stage' = "compiled" /\ compiled' = compileChain(chain)
     ELSE stage' = "refused" /\ UNCHANGED compiled
  /\ UNCHANGED <<config, chain>>

DefinitionNext == Check \/ Parse \/ Compile

DefinitionSpec == DefinitionInit /\ [][DefinitionNext]_definitionVars

-----------------------------------------------------------------------------
(* Properties. *)

\* A configuration that passes the validator, is made of types whose factories
\* take it and has no action chain longer than the compiler admits is never refused
\* afterwards: the compiler's limit of depth refuses nothing that the validator's
\* admits.  CompileValidator, which no loader asks, would refuse of what loads just the
\* rules that transform without naming a declared point: of the types that it knows
\* to work on points, no other is registered.
ValidLoads ==
  /\ (stage = "refused" /\ Validate(config)) =>
       \E i \in DOMAIN config.rules :
         \/ ~RuleMaterializes(config.rules[i])
         \/ Len(config.rules[i].actions) > MaxActionChainLength
  /\ stage = "compiled" =>
       \A i \in DOMAIN config.rules :
         LET rule == config.rules[i] IN
         ValidateRule(rule, InputNames(config)) <=>
           ("transform" \in Range(rule.actions) => PointsDeclared(rule, InputNames(config)))

HasEmptyNot(tree) ==
  \E p \in DOMAIN tree : tree[p].leaf = "" /\ tree[p].op = "not" /\ tree[p].kids = 0

\* What the compiler makes of a condition answers as the tree itself would, and asks
\* the same leaves in the same order; but a negation of nothing holds in the tree
\* and does not when compiled.
CompiledAgrees ==
  stage = "compiled" =>
    \A i \in DOMAIN chain, k \in DOMAIN compiled.sorted :
      \A truth \in [Conditions \ {"refused"} -> BOOLEAN] :
        LET tree == chain[i].condition
            run == RunClosures(compiled.sorted[k].evaluate, truth) IN
        compiled.sorted[k].id = chain[i].id =>
          /\ ~HasEmptyNot(tree) => run = Evaluate(tree, truth)
          /\ (LET root == tree[<< >>] IN root.leaf = "" /\ root.op = "not" /\ root.kids = 0) =>
               ~run.is /\ Evaluate(tree, truth).is

Reorderings(s) == {[i \in DOMAIN s |-> s[p[i]]] : p \in Bijection(DOMAIN s, DOMAIN s)}

\* The rules run in an order of their own, each enabled one once; and neither that
\* order nor the conflicts that are reported depend on the order in which the
\* configuration lists the rules.
OrderIsFixed ==
  stage = "compiled" =>
    /\ \A i \in DOMAIN chain :
         Cardinality({k \in DOMAIN compiled.sorted : compiled.sorted[k].id = chain[i].id})
           = IF chain[i].enabled THEN 1 ELSE 0
    /\ \A i, j \in DOMAIN compiled.sorted :
         i < j => Before(compiled.sorted[i], compiled.sorted[j])
    /\ \A s \in Reorderings(chain) : compileChain(s) = compiled
    /\ \A s \in Reorderings(config.rules) : DetectConflicts(s) = DetectConflicts(config.rules)

\* Each input that a valid configuration declares is routed to its chain, as that
\* input, and so is each point that a rule is bound to.  What ValidateRoute admits is
\* a declared input, and of its type where the chain has one.
InputsAreRouted ==
  stage \in {"valid", "parsed", "compiled"} =>
    LET entry == RegisterChain(config) IN
    /\ \A i \in DOMAIN config.inputs :
         LET input == config.inputs[i] IN
         Routed(entry, [name |-> input.name, type |-> input.type]) /\ entry.index[input.name] = i
    /\ \A i \in DOMAIN config.rules : \A b \in Range(config.rules[i].bindings) :
         \E k \in DOMAIN config.inputs : /\ config.inputs[k].name = b
                                         /\ Routed(entry, [name |-> b, type |-> config.inputs[k].type])
    /\ \A name \in InputNames(config), type \in PointTypes \cup {"odd"} :
         ValidateRoute(entry, [name |-> name, type |-> type]) = "ok" =>
           LET input == config.inputs[entry.index[name]] IN
           input.name = name /\ (config.pipelineType # "" => input.type = type)

\* Each configuration that is valid loads, in an order that is not that of the file,
\* and gets its inputs (validator.go, loader.go, compiler.go, conflict.go, router.go).
LoadedAsConfigured == ValidLoads /\ CompiledAgrees /\ OrderIsFixed /\ InputsAreRouted

=============================================================================

--------------------------- MODULE MCSurroundings ---------------------------
(***************************************************************************)
(* The configurations that the run of Surroundings loads: condition trees  *)
(* of every shape up to two levels and some of up to four, lists of        *)
(* actions up to one more than the compiler takes, up to three rules, what *)
(* two rules can be in conflict about, and declarations of inputs.         *)
(***************************************************************************)
EXTENDS Surroundings

OrderedIds == <<"r1", "r2", "r3">>

SeqsUpTo(S, n) == UNION {[1 .. k -> S] : k \in 0 .. n}

NoParameters == [own |-> "1", read |-> Absent, points |-> {Absent}]

Rule(id, priority, enabled, condition, actions) ==
  [id |-> id, priority |-> priority, enabled |-> enabled, bindings |-> << >>, mode |-> "",
   condition |-> condition, parameters |-> NoParameters, actions |-> actions]

Files(ids, statuses, pipelineTypes, inputs, rules) ==
  [id : ids, status : statuses, pipelineType : pipelineTypes, inputs : inputs, rules : rules]

FilesOf(rules) == Files({"c"}, {""}, {""}, {<< >>}, rules)

-----------------------------------------------------------------------------

Leaf(type) == << >> :> [op |-> "", leaf |-> type, kids |-> 0]

\* A node over trees.
Inner(op, kids) ==
  [p \in {<< >>} \cup UNION {{<<i>> \o q : q \in DOMAIN kids[i]} : i \in DOMAIN kids} |->
     IF p = << >> THEN [op |-> op, leaf |-> "", kids |-> Len(kids)]
     ELSE kids[Head(p)][Tail(p)]]

Operators == {"and", "or", "not", "", "xor"}

LeafOverNode == [Inner("xor", <<Inner("xor", << >>)>>) EXCEPT ![<< >>].leaf = "slow"]

Flat == {Leaf(type) : type \in {"value_range", "slow", "refused", "point_value"}}
        \cup {Inner(op, << >>) : op \in Operators} \cup {LeafOverNode}
Trees2 == Flat \cup {Inner(op, kids) : op \in Operators, kids \in SeqsUpTo(Flat, 2)}
Trees3 == {Inner(op, kids) : op \in {"and", "or", "not"},
             kids \in {<<tree, Leaf("slow")>> : tree \in Trees2}
                      \cup {<<Leaf("value_range"), tree>> : tree \in Trees2}}
Trees4 == {Inner("and", <<Inner(op, <<Inner("or", <<leaf>>)>>)>>) :
             op \in {"and", "not"}, leaf \in Flat}

TreeConfigs ==
  FilesOf({<<Rule("r1", 0, TRUE, tree, << >>)>> : tree \in Trees2 \cup Trees3 \cup Trees4})

ActionConfigs ==
  Files({"c", ""}, {"", "odd"}, {""}, {<< >>},
    {<<Rule("r1", 0, enabled, Leaf("slow"), actions)>> :
       enabled \in BOOLEAN,
       actions \in SeqsUpTo({"transform", "slow", "refused", "set_value", ""}, MaxActionChainLength + 1)})

\* Up to three rules: in which order they run, and which of them are in conflict.
RuleConfigs ==
  LET rules == {Rule(id, priority, enabled, Leaf(leaf), << >>) :
                  id \in Range(OrderedIds) \cup {""}, priority \in 0 .. 1, enabled \in BOOLEAN,
                  leaf \in {"slow", "value_range"}}
      Some(n) == {s \in [1 .. n -> rules] :
                    \A i \in 1 .. n : s[i].enabled \/ (s[i].priority = 0 /\ s[i].id = "r1")} IN
  FilesOf({<< >>} \cup Some(2) \cup Some(3))

ConflictConfigs ==
  LET rules(id) ==
        {[Rule(id, 0, TRUE, Leaf(leaf), actions)
            EXCEPT !.parameters = [own |-> own, read |-> read, points |-> {Absent}]] :
           leaf \in {"value_range", "device_type", "slow"}, own \in {"1", "2", Absent},
           read \in {"1", Absent}, actions \in SeqsUpTo({"transform", "drop"}, 1)} IN
  FilesOf({<<r1, r2>> : r1 \in rules("r1"), r2 \in rules("r2")})

InputConfigs ==
  LET inputs == [name : {"p", "q", ""}, type : {"analog", "meter", "odd"}, data : {"int", "odd"}]
      rules == {[Rule("r1", 0, TRUE, Leaf("slow"), << >>) EXCEPT !.bindings = bindings, !.mode = inputMode] :
                  bindings \in {<< >>, <<"p">>, <<"q", "p">>}, inputMode \in {"single", "odd", ""}} IN
  Files({"c"}, {""}, {"analog", "odd", ""}, SeqsUpTo(inputs, 2), {<<r>> : r \in rules})

\* Rules with actions that CompileValidator looks at, and the points they name.
PointConfigs ==
  LET inputs == [name : {"p", "q"}, type : {"analog"}, data : {"int"}]
      rules == {[Rule("r1", 0, TRUE, Leaf("slow"), actions) EXCEPT !.parameters.points = points] :
                  actions \in {<< >>, <<"transform">>, <<"slow", "transform">>, <<"set_output">>},
                  points \in {{}, {Absent}, {"p"}, {"p", "q"}}} IN
  Files({"c"}, {""}, {""}, SeqsUpTo(inputs, 2), {<<r>> : r \in rules})

SmallConfigs == TreeConfigs \cup ActionConfigs \cup RuleConfigs \cup ConflictConfigs
                \cup InputConfigs \cup PointConfigs

=============================================================================

------------------------------ MODULE MCDefinition ------------------------------
(***************************************************************************)
(* A program that builds, merges, cuts and runs small workflows.  What the *)
(* validator finds in a condition is computed with the parser.             *)
(***************************************************************************)
EXTENDS Definition

SomeLiterals == [l \in {"1"} |-> [number |-> 1]] @@ [l \in {"'a'"} |-> [string |-> "a"]]

Expr == INSTANCE ExprParser
        WITH LiteralOf <- SomeLiterals, Names <- {"params", "results", "a", "b", "c", "k", "has"},
             MaxDepth <- 3

TextOf ==
  [reads_a |-> <<"results", ".", "a", ">", "1">>,
   reads_c |-> <<"has", "(", "results", ",", "'a'", ")", "or", "results", "[", "'c'", "]">>,
   reads_k |-> <<"params", ".", "k", "==", "1">>,
   broken |-> <<"results", ".", "a", ">">>]

SomeFacts ==
  [c \in DOMAIN TextOf |->
     LET parse == Expr!ParseText(TextOf[c])
     IN  IF Expr!Failed(parse) THEN [parses |-> FALSE]
         ELSE [parses |-> TRUE, reads |-> Expr!ReadsOf(parse.tree)]]

Readable == [t \in {"3"} |-> 3] @@ [t \in {"1"} |-> 1]
\* Names after up to two merges; longer ones are too long
Prefixed(names) == {n \o "." \o t : n \in Flows, t \in names}
TaskNames == {"a", "b", "c"} \cup Prefixed({"a", "b", "c"}) \cup Prefixed(Prefixed({"a", "b", "c"}))
SomeNames == TaskNames \cup {"k", "run"}
SomeQualified == [q \in Flows \X TaskNames |-> q[1] \o "." \o q[2]]

Plain_ == [resources |-> Nothing, noop |-> FALSE, allSuccess |-> TRUE]
Gate == [Plain_ EXCEPT !.noop = TRUE, !.allSuccess = FALSE]
Needs(amount) == [Plain_ EXCEPT !.resources = [p \in {"p"} |-> amount]]

Task(n, name, spec, after, condition) ==
  [call |-> "task", on |-> n, name |-> name, spec |-> spec, after |-> after, before |-> <<>>,
   condition |-> condition]
Pool(name, capacity) == [do |-> "pool", name |-> name, capacity |-> capacity]
Param(name, type, required, default, choices) ==
  [do |-> "param", name |-> name,
   spec |-> [type |-> type, required |-> required, default |-> default, choices |-> choices]]
Single(n, op) == [call |-> "primitive", on |-> n, op |-> op]
Define(n, rest) == [call |-> "build_with", on |-> n, calls |-> rest]
Many(n, sources, targets, condition) ==
  [call |-> "connect_many", on |-> n, sources |-> sources, targets |-> targets,
   condition |-> condition]
Chain(n, names) == [call |-> "chain", on |-> n, names |-> names]

ParamK == Param("k", "integer", FALSE, [text |-> "3"], {[text |-> "1"], [float |-> 6]})

SomeCalls ==
  {Define("w", <<Task("w", "a", Needs(2), <<>>, NoCondition), Single("w", Pool("p", 2)),
                 Task("w", "b", Plain_, <<"a">>, "reads_a")>>),
   Define("v", <<Task("v", "a", Needs(1), <<>>, NoCondition), Single("v", Pool("p", 1)),
                 Task("v", "b", Gate, <<"a">>, NoCondition)>>),
   Task("w", "c", Needs(3), <<"b">>, "reads_a"),
   Task("w", "c", Gate, <<"a", "b">>, "reads_k"),
   [Task("v", "c", Gate, <<>>, NoCondition) EXCEPT !.before = <<"b">>],
   Many("v", <<"a">>, <<"c">>, "reads_c"),
   Many("w", <<"b", "c">>, <<"a">>, NoCondition),
   Many("v", <<"b">>, <<>>, NoCondition),
   Chain("v", <<"a", "b", "a">>),
   Many("v", <<"a">>, <<"c">>, "broken"),
   Many("v", <<"run", "a">>, <<"a">>, NoCondition),
   Many("v", <<"c">>, <<"b">>, Blank),
   Single("w", ParamK), Single("v", [ParamK EXCEPT !.spec.default = [text |-> "1"],
                                                    !.spec.choices = {[integer |-> 3]}]),
   Single("v", [do |-> "limit", limit |-> 0]), Single("w", [do |-> "limit", limit |-> 1])}

SomeDeclarations ==
  {<<Task("r", "a", Needs(2), <<"b">>, NoCondition), Task("r", "b", Gate, <<>>, NoCondition)>>,
   <<[call |-> "pool", op |-> Pool("p", 2)],
     [call |-> "param", op |-> Param("k", "boolean", TRUE, None, {})]>>}

SomeMerges ==
  {[as |-> "w", sources |-> <<"w", "v">>, prefix |-> TRUE],
   [as |-> "v", sources |-> <<"w", "v">>, prefix |-> FALSE]}

SomeRequests ==
  {[on |-> "w", validated |-> TRUE, strict |-> FALSE,
    sets |-> <<Nothing, [k \in {"k"} |-> [text |-> "1"]]>>],
   [on |-> "w", validated |-> FALSE, strict |-> FALSE, sets |-> <<[k \in {"k"} |-> [float |-> 6]]>>],
   [on |-> "v", validated |-> TRUE, strict |-> TRUE, sets |-> <<Nothing>>],
   [on |-> "v", validated |-> FALSE, strict |-> FALSE, sets |-> <<[k \in {"k"} |-> [text |-> "yes"]]>>]}
===============================================================================

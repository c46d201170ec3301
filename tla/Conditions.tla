------------------------------- MODULE Conditions ------------------------------
(***************************************************************************)
(* A condition from its text to its outcome: whoever writes the workflow   *)
(* adds one token after the other, and at every moment the text can be     *)
(* compiled (src/campanile/expr/parser.py), validated                      *)
(* (src/campanile/dsl/validate.py) and evaluated in the environment        *)
(* dispatch makes of a run (src/campanile/runtime/dispatch.py).            *)
(***************************************************************************)
EXTENDS ExprParser, ExprEval, ConditionCheck

CONSTANTS
  Tokens,      \* what may be typed
  Openings,    \* beginnings worth exploring further than others
  MaxTokens,   \* bounds the length of a text,
  MoreTokens,  \* and what may follow an opening
  Params,      \* the parameters bound for the run
  Results      \* the results of the tasks that have succeeded

ASSUME BoundAssumption == MaxTokens \in Nat /\ MoreTokens \in Nat
ASSUME BuiltinAssumption == Builtins = DOMAIN Arity

VARIABLE text

\* condition_environment
Environment ==
  [params |-> [object |-> Params], results |-> [object |-> Results],
   run |-> [object |-> [id |-> Text("")]], task |-> [object |-> [upstream |-> Text("")]]]

\* No parse has failed yet for what is typed, only for what is missing
Continues ==
  LET parse == ParseText(text)
  IN  \/ ~ Failed(parse)
      \/ parse.at > Len(text)
      \/ parse.at = Len(text) /\ text[Len(text)] = "not"

Init == text \in {<<>>} \cup Openings

TypeToken ==
  /\ Continues
  /\ \/ Len(text) < MaxTokens
     \/ \E o \in Openings : IsPrefix(o, text) /\ Len(text) < Len(o) + MoreTokens
  /\ \E token \in Tokens : text' = Append(text, token)

Next == TypeToken
Spec == Init /\ [][Next]_text
-------------------------------------------------------------------------------
\* The trees the grammar of docs/expressions.md and of the docstring of parser.py
\* derives a text from: the tables there, read as a context-free grammar

From(s, i) == SubSeq(s, i, Len(s))
Before(s, i) == SubSeq(s, 1, i - 1)

RECURSIVE Trees(_, _), Rows(_)

\* The rows of trees between the brackets of a list or a call
Rows(s) ==
  {<<t>> : t \in Trees(Or, s)}
  \cup UNION {{Append(row, t) : row \in Rows(Before(s, k)), t \in Trees(Or, From(s, k + 1))} :
                k \in {i \in DOMAIN s : s[i] = ","}}
RowsOrNone(s) == IF s = <<>> THEN {<<>>} ELSE Rows(s)

Brackets(s, opening, closing) ==
  IF s # <<>> /\ s[Len(s)] = closing THEN {k \in DOMAIN s : s[k] = opening} ELSE {}
Inside(s, k) == SubSeq(s, k + 1, Len(s) - 1)

PrimaryTrees(s) ==
  {Literal(ValueOf(s[1])) : i \in {1} \cap {j \in DOMAIN s : Len(s) = 1 /\ IsLiteral(s[j])}}
  \cup {Name(s[1]) : i \in {1} \cap {j \in DOMAIN s : Len(s) = 1 /\ s[j] \in Names}}
  \cup UNION {Trees(Or, Inside(s, 1)) : k \in Brackets(s, "(", ")") \cap {1}}
  \cup UNION {{ListLiteral(row) : row \in RowsOrNone(Inside(s, 1))} :
                k \in Brackets(s, "[", "]") \cap {1}}

PostfixTrees(s) ==
  PrimaryTrees(s)
  \cup UNION {{Attribute(t, s[k + 1]) : t \in Trees(Postfix_, Before(s, k))} :
                k \in {i \in DOMAIN s : /\ s[i] = "." /\ i + 1 = Len(s)
                                        /\ s[i + 1] \in Names \cup Keywords}}
  \cup UNION {{Index(t, key) : t \in Trees(Postfix_, Before(s, k)), key \in Trees(Or, Inside(s, k))} :
                k \in Brackets(s, "[", "]")}
  \cup UNION {{Call(t.identifier, row) :
                 t \in {f \in Trees(Postfix_, Before(s, k)) : f.node = "Name"},
                 row \in RowsOrNone(Inside(s, k))} :
                k \in Brackets(s, "(", ")")}

\* The operators of a level at their places in a text
Splits(level, s) ==
  {<<k, o>> \in (DOMAIN s) \X InfixOf(level) : IsPrefix(Spelling(o), From(s, k))}

Trees(level, s) ==
  CASE s = <<>> -> {}
    [] level = Postfix_ -> PostfixTrees(s)
    [] level = Not /\ s[1] = "not" -> {Unary("not", t) : t \in Trees(Not, Tail(s))}
    [] level = Negation /\ s[1] = "-" -> {Unary("-", t) : t \in Trees(Negation, Tail(s))}
    [] level = Negation /\ s[1] = "+" -> Trees(Negation, Tail(s))
    [] OTHER -> Trees(level + 1, s)
         \cup UNION {{Join(at[2], l, r) : l \in Trees(level, Before(s, at[1])),
                                          r \in Trees(level + 1, From(s, at[1] + Width(at[2])))} :
                       at \in Splits(level, s)}

\* The parser accepts what the grammar derives and nothing else, and the tree it
\* makes is the only one, whichever operators meet: its loops, its prefixes and its
\* look-ahead for "not in" (parser.py, the precedence table of its docstring).  It
\* also refuses what nests too deep.
ParsesAsGrammar ==
  LET parse == ParseText(text)
      trees == Trees(Or, text)
  IN  IF ~ Failed(parse) THEN trees = {parse.tree}
      ELSE trees = {} \/ parse.syntax = "too deep"

Compiled == ~ Failed(ParseText(text))
Tree == ParseText(text).tree

\* The conditions the properties evaluate: those without floats
Evaluable ==
  Compiled /\ \A n \in Walk(Tree) : n.node # "Literal" \/ ~ Is("float", n.value)

\* What ast.py renders as something else: a string with a newline in it, which the
\* lexer refuses; an infinite float, which is a name; a prefix operator where
\* parentheses would be needed; and digits before a dot, which are a number again
LostInRendering(n) ==
  \/ /\ n.node = "Literal"
     /\ \/ Is("string", n.value) /\ PartOf("\n", n.value.string)
        \/ n.value = Float("inf")
  \/ /\ n.node \in {"Attribute", "Index"}
     /\ \/ n.target.node = "Unary"
        \/ n.node = "Attribute" /\ n.target.node = "Literal" /\ Is("number", n.target.value)
  \/ /\ n.node \in {"Binary", "Coalesce"} \/ (n.node = "Unary" /\ n.operator = "-")
     /\ \E c \in ToSet(Children(n)) : c.node = "Unary" /\ c.operator = "not"

\* What Expression.render writes compiles to the same tree again (eval.py calls it
\* "fully parenthesised"), with exactly the exceptions above and unless its
\* parentheses nest too deep: hashes, reports and exports stand for the condition.
RenderReparses ==
  Compiled =>
     LET again == ParseText(Render(Tree))
         same == ~ Failed(again) /\ again.tree = Tree
     IN  \/ Failed(again) /\ again.syntax = "too deep"
         \/ same <=> \A n \in Walk(Tree) : ~ LostInRendering(n)

\* A condition in which _check_conditions finds nothing wrong never meets an unknown
\* name in a run, and what it reads off results and params by name is there once all
\* ancestors have succeeded: validate.py and eval.py look names up independently.
CheckedNamesResolve ==
  (Evaluable /\ ConditionIssues(ReadsOf(Tree), DOMAIN Results, DOMAIN Results,
                                DOMAIN Params, FALSE) = {}) =>
     /\ Eval(Tree, Environment) \notin {Raise("UnknownVariableError"),
                                        Raise("UnknownFunctionError")}
     /\ \A n \in Walk(Tree) :
          n.node = "Attribute" /\ n.target \in {Name("params"), Name("results")}
            => ~ Raised(Eval(n, Environment))

\* The three ways to read by key agree: x[k] has a value exactly if has(x, k) is true,
\* get(x, k, d) is that value or d, and "has(x, k) and x[k]" never fails (functions.py
\* decides by its own conditions what eval.py does).  A string has no keys for them.
ReadsAgree ==
  Evaluable =>
    \A n \in {m \in Walk(Tree) : m.node = "Index"} :
      LET target == Eval(n.target, Environment)
          key == Eval(n.key, Environment)
          value == ReadIndex(target, key)
          has == Has(target, key)
          get == Get(target, key, Text("default"))
          guarded == Infix("Logical", "and", Call("has", <<n.target, n.key>>), n)
      IN  (~ Raised(target) /\ ~ Raised(key) /\ ~ Is("string", target)) =>
            IF value = Raise("TypeError") THEN {has, get} = {value}
            ELSE /\ has = Bool(~ Raised(value))
                 /\ get = IF Raised(value) THEN Text("default") ELSE value
                 /\ Eval(guarded, Environment) = IF Raised(value) THEN Bool(FALSE) ELSE value

\* What eval.py says of itself: "every failure is an ExpressionEvaluationError" and no
\* TypeError or KeyError escapes into the scheduler.  The code asks dictionaries for
\* keys that are lists and objects.
FailuresAreExpressionErrors ==
  Evaluable => Eval(Tree, Environment) # Raise("TypeError")
===============================================================================

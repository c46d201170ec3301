-------------------------------- MODULE ExprTree ------------------------------
(***************************************************************************)
(* The syntax trees of edge conditions (src/campanile/expr/ast.py), what   *)
(* the validator reads off them (src/campanile/dsl/validate.py) and their  *)
(* rendering back to text.  The offsets nodes carry for error messages are *)
(* left out.                                                               *)
(***************************************************************************)
EXTENDS ExprLexer

Literal(value) == [node |-> "Literal", value |-> value]
Name(identifier) == [node |-> "Name", identifier |-> identifier]
Attribute(target, attribute) ==
  [node |-> "Attribute", target |-> target, attribute |-> attribute]
Index(target, key) == [node |-> "Index", target |-> target, key |-> key]
Call(function, arguments) ==
  [node |-> "Call", function |-> function, arguments |-> arguments]
Unary(operator, operand) ==
  [node |-> "Unary", operator |-> operator, operand |-> operand]
Infix(class, operator, left, right) ==
  [node |-> class, operator |-> operator, left |-> left, right |-> right]
ListLiteral(items) == [node |-> "ListLiteral", items |-> items]

\* Node.children
Children(n) ==
  CASE n.node \in {"Literal", "Name"} -> <<>>
    [] n.node = "Attribute" -> <<n.target>>
    [] n.node = "Index" -> <<n.target, n.key>>
    [] n.node = "Call" -> n.arguments
    [] n.node = "Unary" -> <<n.operand>>
    [] n.node \in {"Binary", "Logical", "Coalesce"} -> <<n.left, n.right>>
    [] n.node = "ListLiteral" -> n.items

\* Fault: the default of a ?? is not walked
RECURSIVE WalkPastDefaults(_)
WalkPastDefaults(n) ==
  {n} \cup UNION {WalkPastDefaults(c) :
                    c \in IF n.node = "Coalesce" THEN {n.left} ELSE ToSet(Children(n))}

\* walk, as the set of the nodes it yields
RECURSIVE Walk(_)
Walk(n) == {n} \cup UNION {Walk(c) : c \in ToSet(Children(n))}

VariableNames(n) == {m.identifier : m \in {w \in Walk(n) : w.node = "Name"}}
FunctionNames(n) == {m.function : m \in {w \in Walk(n) : w.node = "Call"}}

\* _rooted_references: the keys read off a root by name or by a literal string
RootedReferences(n, root) ==
  LET reads(class) == {m \in Walk(n) : m.node = class /\ m.target = Name(root)}
  IN  {m.attribute : m \in reads("Attribute")}
      \cup {m.key.value.string :
              m \in {w \in reads("Index") : /\ w.key.node = "Literal"
                                            /\ "string" \in DOMAIN w.key.value}}

ResultReferences(n) == RootedReferences(n, "results")
ParamReferences(n) == RootedReferences(n, "params")

\* What _check_conditions asks about an expression that parses
ReadsOf(n) == [variables |-> VariableNames(n), functions |-> FunctionNames(n),
               results |-> ResultReferences(n), params |-> ParamReferences(n)]

Commas(texts) ==
  FoldLeft(LAMBDA text, t : IF text = <<>> THEN t ELSE text \o <<",">> \o t, <<>>, texts)

\* A dot after digits is part of the number, as the lexer reads what is rendered
WithDot(texts) ==
  LET last == Last(texts)
  IN  IF last \in DOMAIN LiteralOf /\ Is("number", LiteralOf[last])
      THEN Append(Front(texts), last \o ".") ELSE Append(texts, ".")

\* Fault: an infix operator is rendered without its parentheses
InfixBare(left, operator, right) == left \o operator \o right

\* Binary.render, Logical.render and Coalesce.render
InfixText(left, operator, right) == <<"(">> \o left \o operator \o right \o <<")">>

\* How the operator "not in" is spelled
Spelling(operator) == IF operator = "not in" THEN <<"not", "in">> ELSE <<operator>>

\* Node.render, as the tokens its text is read as
RECURSIVE Render(_)
Render(n) ==
  LET all(nodes) == Commas([i \in DOMAIN nodes |-> Render(nodes[i])])
  IN  CASE n.node = "Literal" -> <<Written(n.value)>>
        [] n.node = "Name" -> <<n.identifier>>
        [] n.node = "Attribute" -> Append(WithDot(Render(n.target)), n.attribute)
        [] n.node = "Index" -> Render(n.target) \o <<"[">> \o Render(n.key) \o <<"]">>
        [] n.node = "Call" -> <<n.function, "(">> \o all(n.arguments) \o <<")">>
        [] n.node = "Unary" -> <<n.operator>> \o Render(n.operand)
        [] n.node = "ListLiteral" -> <<"[">> \o all(n.items) \o <<"]">>
        [] OTHER -> InfixText(Render(n.left), Spelling(n.operator), Render(n.right))
===============================================================================

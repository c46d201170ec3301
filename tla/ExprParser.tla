------------------------------- MODULE ExprParser -----------------------------
(***************************************************************************)
(* The recursive-descent parser of src/campanile/expr/parser.py, on texts  *)
(* that are sequences of tokens (lexer.py splits the characters; keywords, *)
(* operators, names and literals are the token itself).                    *)
(*                                                                         *)
(* A parse is [tree, at], at being the position of the next token, or      *)
(* [syntax, at] for an ExpressionSyntaxError at a token.                   *)
(***************************************************************************)
EXTENDS ExprTree

CONSTANTS
  Names,      \* the identifiers that may be typed
  MaxDepth    \* MAX_DEPTH

\* KEYWORDS of lexer.py
Keywords == {"and", "or", "not", "in", "true", "false", "null"}
Comparisons == {"==", "!=", "<", "<=", ">", ">=", "in", "not in"}
Additive == {"+", "-"}
Multiplicative == {"*", "/", "//", "%"}

\* The precedence levels, loosest first
Or == 1
And == 2
Not == 3
Comparison == 4
Coalescing == 5
Sum_ == 6
Product_ == 7
Negation == 8
Postfix_ == 9

\* The operators of a level whose operators associate to the left
InfixOf(level) ==
  CASE level = Or -> {"or"}
    [] level = And -> {"and"}
    [] level = Comparison -> Comparisons
    [] level = Coalescing -> {"??"}
    [] level = Sum_ -> Additive
    [] level = Product_ -> Multiplicative
    [] OTHER -> {}

LeftAssociative == {Or, And, Comparison, Coalescing, Sum_, Product_}

Parsed(tree, at) == [tree |-> tree, at |-> at]
SyntaxError(why, at) == [syntax |-> why, at |-> at]
Failed(parse) == "syntax" \in DOMAIN parse

\* tokens[index]; END follows the text
Token(text, i) == IF i <= Len(text) THEN text[i] ELSE "END"

\* The infix operator at a position and the tokens it takes
OperatorAt(text, i) ==
  IF Token(text, i) = "not" /\ Token(text, i + 1) = "in" THEN "not in" ELSE Token(text, i)
Width(operator) == IF operator = "not in" THEN 2 ELSE 1

\* The node of an infix operator
Join(operator, left, right) ==
  Infix(CASE operator \in {"and", "or"} -> "Logical"
          [] operator = "??" -> "Coalesce"
          [] OTHER -> "Binary", operator, left, right)

RECURSIVE Parse(_, _, _, _), Extend(_, _, _, _), Trailers(_, _, _),
          Separated(_, _, _, _, _)

\* Fault: the right operand takes every operator of the level that follows
RECURSIVE ExtendRightmost(_, _, _, _)
ExtendRightmost(text, left, level, depth) ==
  LET operator == OperatorAt(text, left.at)
      right == Parse(text, left.at + Width(operator), level, depth)
  IN  IF Failed(left) \/ operator \notin InfixOf(level) THEN left
      ELSE IF Failed(right) THEN right
      ELSE Parsed(Join(operator, left.tree, right.tree), right.at)

\* _left_associative_operator, _left_associative_keyword and the loops of
\* parse_comparison and parse_coalesce
Extend(text, left, level, depth) ==
  LET operator == OperatorAt(text, left.at)
      right == Parse(text, left.at + Width(operator), level + 1, depth)
  IN  IF Failed(left) \/ operator \notin InfixOf(level) THEN left
      ELSE IF Failed(right) THEN right
      ELSE Extend(text, Parsed(Join(operator, left.tree, right.tree), right.at), level, depth)

\* expect_operator, then go on with the node made
Expect(text, parse, closing, node) ==
  IF Failed(parse) THEN parse
  ELSE IF Token(text, parse.at) = closing THEN Parsed(node, parse.at + 1)
  ELSE SyntaxError("expected", parse.at)

\* _nested
Nested(text, i, depth) ==
  IF depth = MaxDepth THEN SyntaxError("too deep", i) ELSE Parse(text, i, Or, depth + 1)

\* parse_arguments and the items of a list: only the items count as nested
Separated(text, found, i, closing, depth) ==
  LET item == IF closing = "]" THEN Nested(text, i, depth) ELSE Parse(text, i, Or, depth)
  IN  IF found = <<>> /\ Token(text, i) = closing THEN Parsed(<<>>, i + 1)
      ELSE IF Failed(item) THEN item
      ELSE IF Token(text, item.at) = closing THEN Parsed(Append(found, item.tree), item.at + 1)
      ELSE IF Token(text, item.at) # "," THEN SyntaxError("expected", item.at)
      ELSE IF Token(text, item.at + 1) = closing THEN SyntaxError("trailing comma", item.at + 1)
      ELSE Separated(text, Append(found, item.tree), item.at + 1, closing, depth)

\* The loop of parse_postfix
Trailers(text, left, depth) ==
  LET after == left.at + 1
      key == Parse(text, after, Or, depth)
      arguments == Separated(text, <<>>, after, ")", depth)
      next == Token(text, left.at)
  IN  IF Failed(left) \/ next \notin {".", "[", "("} THEN left
      ELSE IF next = "."
           THEN IF Token(text, after) \in Names \cup Keywords
                THEN Trailers(text, Parsed(Attribute(left.tree, text[after]), after + 1), depth)
                ELSE SyntaxError("attribute", after)
      ELSE IF next = "["
           THEN Trailers(text, Expect(text, key, "]", Index(left.tree, key.tree)), depth)
      ELSE IF left.tree.node # "Name" THEN SyntaxError("not callable", left.at)
      ELSE IF Failed(arguments) THEN arguments
      ELSE Trailers(text, Parsed(Call(left.tree.identifier, arguments.tree), arguments.at), depth)

Primary(text, i, depth) ==
  LET token == Token(text, i)
      inner == Nested(text, i + 1, depth)
      items == Separated(text, <<>>, i + 1, "]", depth)
  IN  CASE IsLiteral(token) -> Parsed(Literal(ValueOf(token)), i + 1)
        [] token \in Names -> Parsed(Name(token), i + 1)
        [] token = "(" -> Expect(text, inner, ")", inner.tree)
        [] token = "[" -> IF Failed(items) THEN items
                          ELSE Parsed(ListLiteral(items.tree), items.at)
        [] OTHER -> SyntaxError("unexpected", i)

\* parse_or, parse_and, ..., parse_postfix, one level each
Parse(text, i, level, depth) ==
  LET operand == Parse(text, i + 1, level, depth)
      prefix == Token(text, i)
  IN  CASE level \in LeftAssociative ->
             Extend(text, Parse(text, i, level + 1, depth), level, depth)
        [] level = Not /\ prefix = "not" ->
             IF Failed(operand) THEN operand ELSE Parsed(Unary("not", operand.tree), operand.at)
        [] level = Negation /\ prefix \in {"-", "+"} ->
             IF Failed(operand) \/ prefix = "+" THEN operand
             ELSE Parsed(Unary("-", operand.tree), operand.at)
        [] level = Postfix_ -> Trailers(text, Primary(text, i, depth), depth)
        [] OTHER -> Parse(text, i, level + 1, depth)

\* Parser.parse: the tree of the whole text, once tokenize has read all of it
ParseText(text) ==
  LET parse == Parse(text, 1, Or, 0)
      unreadable == {i \in DOMAIN text : Unreadable(text[i])}
  IN  IF unreadable # {} THEN SyntaxError("token", CHOOSE i \in unreadable :
                                                    \A j \in unreadable : i <= j)
      ELSE IF text = <<>> THEN SyntaxError("empty", 1)
      ELSE IF Failed(parse) \/ parse.at > Len(text) THEN parse
      ELSE SyntaxError("trailing", parse.at)
===============================================================================

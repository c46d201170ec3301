-------------------------------- MODULE ExprEval ------------------------------
(***************************************************************************)
(* The evaluator of src/campanile/expr/eval.py and the functions of        *)
(* src/campanile/expr/functions.py, without floating-point values, numbers *)
(* in strings, and without the functions that make floats (sum, number,    *)
(* abs, round, duration) or only rewrite a string (join, split, lower,     *)
(* upper, trim, replace, string, count of a string): what a condition with *)
(* a float evaluates to is not said.                                       *)
(*                                                                         *)
(* The outcome of an evaluation is a value or [raises |-> exception].      *)
(* Python's dictionaries hash their keys: a list or an object is not       *)
(* hashable, and asking a dictionary for one raises TypeError.             *)
(***************************************************************************)
EXTENDS ExprTree, FiniteSets, TLC

CONSTANT Letters   \* a string of the characters used, in the order of their codes

Raise(exception) == [raises |-> exception]
Fail == Raise("ExpressionEvaluationError")
Raised(outcome) == "raises" \in DOMAIN outcome

\* The next step of an evaluation, unless this one raised
Then(outcome, Next(_)) == IF Raised(outcome) THEN outcome ELSE Next(outcome)

IsTruthy(value) ==
  ~ \/ Is("null", value)
    \/ Is("boolean", value) /\ ~ value.boolean
    \/ Is("number", value) /\ value.number = 0
    \/ Is("string", value) /\ value.string = ""
    \/ Is("list", value) /\ value.list = <<>>
    \/ Is("object", value) /\ DOMAIN value.object = {}

\* Python's ==: True is 1 and False is 0, inside lists and objects as well
AsNumber(b) == IF b THEN 1 ELSE 0
RECURSIVE PythonEqual(_, _)
PythonEqual(v, w) ==
  CASE Is("boolean", v) -> PythonEqual(Number(AsNumber(v.boolean)), w)
    [] Is("boolean", w) -> PythonEqual(v, Number(AsNumber(w.boolean)))
    [] Is("list", v) /\ Is("list", w) ->
         /\ Len(v.list) = Len(w.list)
         /\ \A i \in DOMAIN v.list : PythonEqual(v.list[i], w.list[i])
    [] Is("object", v) /\ Is("object", w) ->
         /\ DOMAIN v.object = DOMAIN w.object
         /\ \A k \in DOMAIN v.object : PythonEqual(v.object[k], w.object[k])
    [] OTHER -> v = w

\* _equal
Equal(v, w) == (Is("boolean", v) <=> Is("boolean", w)) /\ PythonEqual(v, w)

\* Strings as sequences of characters
Code(letter) == CHOOSE i \in 1 .. Len(Letters) : Letter(Letters, i) = letter
PartOf(s, t) == \E i \in 0 .. Len(t) - Len(s) : SubSeq(t, i + 1, i + Len(s)) = s
Precedes(s, t) ==
  \E i \in 1 .. Len(t) :
    /\ i - 1 <= Len(s) /\ SubSeq(s, 1, i - 1) = SubSeq(t, 1, i - 1)
    /\ Len(s) = i - 1 \/ Code(Letter(s, i)) < Code(Letter(t, i))

\* _compare
Compare(operator, v, w) ==
  LET numbers == Is("number", v) /\ Is("number", w)
      less == IF numbers THEN v.number < w.number ELSE Precedes(v.string, w.string)
      more == IF numbers THEN w.number < v.number ELSE Precedes(w.string, v.string)
  IN  IF ~ (numbers \/ (Is("string", v) /\ Is("string", w))) THEN Fail
      ELSE Bool(CASE operator = "<" -> less
                  [] operator = "<=" -> ~ more
                  [] operator = ">" -> more
                  [] operator = ">=" -> ~ less)

\* _arithmetic, without the true division, whose result is a float
Arithmetic(operator, v, w) ==
  IF operator = "+" /\ Is("list", v) /\ Is("list", w) THEN [list |-> v.list \o w.list]
  ELSE IF operator = "+" /\ Is("string", v) /\ Is("string", w)
       THEN Text(v.string \o w.string)
  ELSE IF ~ (Is("number", v) /\ Is("number", w)) THEN Fail
  ELSE CASE operator = "+" -> Number(v.number + w.number)
         [] operator = "-" -> Number(v.number - w.number)
         [] operator = "*" -> Number(v.number * w.number)
         [] w.number = 0 -> Fail
         [] operator = "//" -> Number(v.number \div w.number)
         [] operator = "%" -> Number(v.number - (w.number * (v.number \div w.number)))

\* Whether a dictionary has a key: only a string can be one here
KeyOf(object, key, Found(_), missing) ==
  IF Is("list", key) \/ Is("object", key) THEN Raise("TypeError")
  ELSE IF Is("string", key) /\ key.string \in DOMAIN object THEN Found(object[key.string])
  ELSE missing

True(value) == Bool(TRUE)

\* _member_of
MemberOf(needle, haystack) ==
  CASE Is("string", haystack) ->
         IF Is("string", needle) THEN Bool(PartOf(needle.string, haystack.string))
         ELSE Fail
    [] Is("object", haystack) -> KeyOf(haystack.object, needle, True, Bool(FALSE))
    [] Is("list", haystack) ->
         Bool(\E item \in ToSet(haystack.list) : Equal(needle, item))
    [] OTHER -> Fail

Negated(outcome) == Then(outcome, LAMBDA v : Bool(~ IsTruthy(v)))

\* _eval_binary once both operands have a value
BinaryOf(operator, left, right) ==
  CASE operator = "==" -> Bool(Equal(left, right))
    [] operator = "!=" -> Bool(~ Equal(left, right))
    [] operator = "in" -> MemberOf(left, right)
    [] operator = "not in" -> Negated(MemberOf(left, right))
    [] operator \in {"<", "<=", ">", ">="} -> Compare(operator, left, right)
    [] OTHER -> Arithmetic(operator, left, right)

Itself(value) == value

\* _read_member, on the values of the language: none but objects have attributes
ReadMember(target, attribute) ==
  IF Is("object", target) THEN KeyOf(target.object, Text(attribute), Itself, Fail) ELSE Fail

\* A position counted from the end if it is negative
InRange(seq, n) == -Len(seq) <= n /\ n < Len(seq)
Position(seq, n) == IF n < 0 THEN Len(seq) + n + 1 ELSE n + 1

\* Fault: the index one past the end passes for one inside
ReadIndexPastEnd(target, key) ==
  CASE Is("object", target) -> KeyOf(target.object, key, Itself, Fail)
    [] Is("list", target) ->
         IF ~ Is("number", key) THEN Fail
         ELSE IF key.number = Len(target.list) THEN Null
         ELSE IF ~ InRange(target.list, key.number) THEN Fail
         ELSE target.list[Position(target.list, key.number)]
    [] OTHER -> Fail

\* _read_index
ReadIndex(target, key) ==
  CASE Is("object", target) -> KeyOf(target.object, key, Itself, Fail)
    [] Is("string", target) ->
         IF ~ Is("number", key) \/ ~ InRange(target.string, key.number) THEN Fail
         ELSE Text(Letter(target.string, Position(target.string, key.number)))
    [] Is("list", target) ->
         IF ~ Is("number", key) \/ ~ InRange(target.list, key.number) THEN Fail
         ELSE target.list[Position(target.list, key.number)]
    [] OTHER -> Fail
-------------------------------------------------------------------------------
\* functions.py.  a, b, c are the first three arguments.

\* _get
Get(container, key, fallback) ==
  CASE Is("object", container) -> KeyOf(container.object, key, Itself, fallback)
    [] Is("list", container) ->
         IF Is("number", key) /\ InRange(container.list, key.number)
         THEN container.list[Position(container.list, key.number)] ELSE fallback
    [] OTHER -> fallback

\* _has
Has(container, key) ==
  CASE Is("object", container) -> KeyOf(container.object, key, True, Bool(FALSE))
    [] Is("list", container) ->
         Bool(Is("number", key) /\ InRange(container.list, key.number))
    [] OTHER -> Bool(FALSE)

\* _contains: unlike "in", null holds nothing and the items of a list are compared
\* as Python does
HasItem(haystack, needle) ==
  CASE Is("null", haystack) -> Bool(FALSE)
    [] Is("list", haystack) ->
         Bool(\E item \in ToSet(haystack.list) : PythonEqual(item, needle))
    [] OTHER -> MemberOf(needle, haystack)

\* _length
Length(value) ==
  CASE Is("null", value) -> Number(0)
    [] Is("string", value) -> Number(Len(value.string))
    [] Is("list", value) -> Number(Len(value.list))
    [] Is("object", value) -> Number(Cardinality(DOMAIN value.object))
    [] OTHER -> Fail

\* _sort_key: numbers and booleans, then strings, then the rest (whose order by
\* their representation is left out)
SortClass(value) ==
  CASE Is("boolean", value) \/ Is("number", value) -> 0
    [] Is("string", value) -> 1
    [] OTHER -> 2

Amount(value) == IF Is("boolean", value) THEN AsNumber(value.boolean) ELSE value.number

SortsBefore(v, w) ==
  \/ SortClass(v) < SortClass(w)
  \/ SortClass(v) = 0 /\ SortClass(w) = 0 /\ Amount(v) < Amount(w)
  \/ SortClass(v) = 1 /\ SortClass(w) = 1 /\ Precedes(v.string, w.string)

\* sorted is stable: an item goes after all that do not sort after it
Insert(sorted, item) ==
  LET before == SelectSeq(sorted, LAMBDA x : ~ SortsBefore(item, x))
  IN  before \o <<item>> \o SelectSeq(sorted, LAMBDA x : SortsBefore(item, x))
SortItems(items) == FoldLeft(Insert, <<>>, items)

\* _keys
Keys(object) == SortItems([i \in 1 .. Cardinality(DOMAIN object) |->
                             Text(SetToSeq(DOMAIN object)[i])])

\* min and max: the first of the smallest and of the greatest items
Extreme(items, Better(_, _)) ==
  FoldLeft(LAMBDA best, v : IF Better(v, best) THEN v ELSE best, items[1], items)

\* Builtin.check_arity
Arity ==
  [f \in {"get"} |-> <<2, 3>>] @@ [f \in {"has", "contains", "count"} |-> <<2, 2>>]
  @@ [f \in {"starts_with", "ends_with"} |-> <<2, 2>>]
  @@ [f \in {"coalesce"} |-> <<1, 255>>]
  @@ [f \in {"len", "keys", "values", "sorted", "min", "max", "any", "all",
             "bool", "is_null", "int"} |-> <<1, 1>>]

ApplyToList(function, items) ==
  CASE function = "sorted" -> [list |-> SortItems(items)]
    [] function = "any" -> Bool(\E v \in ToSet(items) : IsTruthy(v))
    [] function = "all" -> Bool(\A v \in ToSet(items) : IsTruthy(v))
    [] items = <<>> -> Fail
    [] function = "min" -> Extreme(items, SortsBefore)
    [] function = "max" -> Extreme(items, LAMBDA v, w : SortsBefore(w, v))

\* _to_int of what is not a float or a string that spells a number
ToInt(value) ==
  IF Is("number", value) \/ Is("boolean", value) THEN Number(Amount(value)) ELSE Fail

\* _coalesce
FirstGiven(args) ==
  LET given == SelectSeq(args, LAMBDA v : ~ Is("null", v))
  IN  IF given = <<>> THEN Null ELSE given[1]

\* _count of a list
Occurrences(items, wanted) == Number(Len(SelectSeq(items, LAMBDA v : PythonEqual(v, wanted))))

\* _starts_with and _ends_with
StartsWith(s, prefix) == Len(prefix) <= Len(s) /\ SubSeq(s, 1, Len(prefix)) = prefix
EndsWith(s, suffix) ==
  Len(suffix) <= Len(s) /\ SubSeq(s, 1 + Len(s) - Len(suffix), Len(s)) = suffix

\* _values
ValuesOf(object) == [i \in DOMAIN Keys(object) |-> object[Keys(object)[i].string]]

\* builtin.fn(*arguments), the arity being right
ApplyBuiltin(function, args) ==
  LET a == args[1]
      strings == Is("string", a) /\ Is("string", args[2])
  IN  CASE function = "get" -> Get(a, args[2], IF Len(args) = 3 THEN args[3] ELSE Null)
        [] function = "has" -> Has(a, args[2])
        [] function = "contains" -> HasItem(a, args[2])
        [] function = "len" -> Length(a)
        [] function = "coalesce" -> FirstGiven(args)
        [] function = "is_null" -> Bool(Is("null", a))
        [] function = "bool" -> Bool(IsTruthy(a))
        [] function = "int" -> ToInt(a)
        [] function = "count" /\ Is("list", a) -> Occurrences(a.list, args[2])
        [] function = "keys" /\ Is("object", a) -> [list |-> Keys(a.object)]
        [] function = "values" /\ Is("object", a) -> [list |-> ValuesOf(a.object)]
        [] function = "starts_with" /\ strings -> Bool(StartsWith(a.string, args[2].string))
        [] function = "ends_with" /\ strings -> Bool(EndsWith(a.string, args[2].string))
        [] function = "sorted" /\ Is("string", a) ->
             [list |-> SortItems([i \in 1 .. Len(a.string) |-> Text(Letter(a.string, i))])]
        [] function \in {"sorted", "min", "max", "any", "all"} /\ Is("list", a) ->
             ApplyToList(function, a.list)
        [] OTHER -> Fail

\* The call of a function once its arguments have a value
Invoke(function, args) ==
  IF Len(args) < Arity[function][1] \/ Len(args) > Arity[function][2] THEN Fail
  ELSE ApplyBuiltin(function, args)
-------------------------------------------------------------------------------
\* The outcomes of a row of nodes as one: the first exception, or the list
InOrder(outcomes) ==
  LET raised == {i \in DOMAIN outcomes : Raised(outcomes[i])}
  IN  IF raised = {} THEN [list |-> outcomes]
      ELSE outcomes[CHOOSE i \in raised : \A j \in raised : i <= j]

\* _eval; env is Environment.variables
RECURSIVE Eval(_, _)
Eval(n, env) ==
  LET row(nodes) == InOrder([i \in DOMAIN nodes |-> Eval(nodes[i], env)])
      left == Eval(n.left, env)
      right == Eval(n.right, env)
  IN  CASE n.node = "Literal" -> n.value
        [] n.node = "Name" ->
             IF n.identifier \in DOMAIN env THEN env[n.identifier]
             ELSE Raise("UnknownVariableError")
        [] n.node = "ListLiteral" -> row(n.items)
        [] n.node = "Attribute" ->
             Then(Eval(n.target, env), LAMBDA target : ReadMember(target, n.attribute))
        [] n.node = "Index" ->
             Then(row(<<n.target, n.key>>), LAMBDA both : ReadIndex(both.list[1], both.list[2]))
        [] n.node = "Call" ->
             IF n.function \notin DOMAIN Arity THEN Raise("UnknownFunctionError")
             ELSE Then(row(n.arguments), LAMBDA args : Invoke(n.function, args.list))
        [] n.node = "Unary" /\ n.operator = "not" -> Negated(Eval(n.operand, env))
        [] n.node = "Unary" ->
             Then(Eval(n.operand, env),
                  LAMBDA v : IF Is("number", v) THEN Number(-v.number) ELSE Fail)
        [] n.node = "Logical" ->
             Then(left, LAMBDA v : IF (n.operator = "and") = IsTruthy(v) THEN right ELSE v)
        [] n.node = "Coalesce" -> Then(left, LAMBDA v : IF Is("null", v) THEN right ELSE v)
        [] n.node = "Binary" ->
             Then(row(<<n.left, n.right>>),
                  LAMBDA both : BinaryOf(n.operator, both.list[1], both.list[2]))
===============================================================================

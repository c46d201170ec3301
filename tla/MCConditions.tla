------------------------------ MODULE MCConditions ------------------------------
(***************************************************************************)
(* The texts of conditions, small enough for TLC.                          *)
(***************************************************************************)
EXTENDS Conditions

ListOf(items) == [list |-> items]

SomeParams == [k |-> Text("k"), x |-> ListOf(<<Number(1), Bool(FALSE)>>)]
SomeResults == [a |-> [object |-> [k |-> Null, a |-> Number(0)]]]
SomeLiterals ==
  [l \in {"0", "1", "2"} |-> Number(CASE l = "0" -> 0 [] l = "1" -> 1 [] OTHER -> 2)]
  @@ [l \in {"null"} |-> Null] @@ [l \in {"true"} |-> Bool(TRUE)]
  @@ [l \in {"1e400"} |-> Float("inf")]
SomeStrings == {"'k'", "'\\n'", "'\"\\\\'"}
SomeLetters == "\n\"\\ak"
SomeBuiltins == DOMAIN Arity
SomeOpenings ==
  {<<"params", ".", "x", "[">>, <<"params", ".", "x", "[", "-">>, <<"params", "[">>,
   <<"k", ".">>, <<"results", ".", "a", "[">>, <<"results", ".", "a", "in">>,
   <<"(", "0", "or", "not">>, <<"get", "(", "params", ",">>, <<"-", "1", "not", "in">>,
   <<"[", "params", "]">>, <<"-", "1", "+", "2">>, <<"-", "(", "1", "+">>, <<"inf", "??">>}
SomeTokens ==
  Names \cup DOMAIN SomeLiterals \cup SomeStrings
  \cup {"or", "and", "not", "in", "==", "<", "??", "+", "-", "*", ".", "[", "]", "(", ")", ","}
===============================================================================

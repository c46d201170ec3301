------------------------------ MODULE Parameters -------------------------------
(***************************************************************************)
(* Run parameters (src/campanile/model/params.py): declaring one, and      *)
(* binding what a caller supplies.  A schema is a function from names to   *)
(* declared parameters; lists and objects, which are only copied, are left *)
(* out.  A value is a record with one field that names its type; a float   *)
(* is counted in halves.                                                   *)
(***************************************************************************)
EXTENDS Integers

CONSTANT ReadAsInteger   \* the texts int() and float() read, with what they read

None == [none |-> TRUE]
Is(type, value) == type \in DOMAIN value
IsNumeric(value) == Is("integer", value) \/ Is("float", value)

\* _TRUE_WORDS and _FALSE_WORDS
TrueWords == {"true", "yes", "on", "1"}
FalseWords == {"false", "no", "off", "0"}

\* What ParamSpec.coerce accepts for a type
Coercible(type, v) ==
  CASE type = "any" -> TRUE
    [] type = "string" -> Is("text", v)
    [] type = "boolean" -> Is("boolean", v) \/ (Is("text", v) /\ v.text \in TrueWords \cup FalseWords)
    [] type = "integer" ->
         \/ Is("integer", v)
         \/ Is("float", v) /\ v.float % 2 = 0
         \/ Is("text", v) /\ v.text \in DOMAIN ReadAsInteger
    [] type = "number" -> IsNumeric(v) \/ (Is("text", v) /\ v.text \in DOMAIN ReadAsInteger)
    [] OTHER -> FALSE

\* The value of a text, an integer or a float in halves
Halves(v) ==
  IF Is("float", v) THEN v.float
  ELSE 2 * (IF Is("text", v) THEN ReadAsInteger[v.text] ELSE v.integer)

\* ParamSpec.coerce
Coerce(type, v) ==
  CASE type = "boolean" /\ Is("text", v) -> [boolean |-> v.text \in TrueWords]
    [] type = "integer" /\ ~ Is("integer", v) -> [integer |-> Halves(v) \div 2]
    [] type = "number" /\ ~ Is("float", v) -> [float |-> Halves(v)]
    [] OTHER -> v

\* "in", by Python's ==: numbers of different types may be equal, and True is 1
Plain(v) ==
  CASE Is("boolean", v) -> [float |-> IF v.boolean THEN 2 ELSE 0]
    [] IsNumeric(v) -> [float |-> Halves(v)]
    [] OTHER -> v
Among(v, values) == \E w \in values : Plain(v) = Plain(w)

\* ParamSpec.__post_init__; no choices means any value
SpecIsWrong(spec) ==
  \/ spec.required /\ spec.default # None
  \/ spec.default # None /\ ~ Coercible(spec.type, spec.default)
  \/ \E c \in spec.choices : ~ Coercible(spec.type, c)
  \/ /\ spec.default # None /\ spec.choices # {}
     /\ ~ Among(Coerce(spec.type, spec.default), {Coerce(spec.type, c) : c \in spec.choices})

\* Fault: the default is kept as it was written
DeclaredAsWritten(spec) ==
  [spec EXCEPT !.choices = {Coerce(spec.type, c) : c \in spec.choices}]

Declared(spec) ==
  [type |-> spec.type, required |-> spec.required,
   default |-> IF spec.default = None THEN None ELSE Coerce(spec.type, spec.default),
   choices |-> {Coerce(spec.type, c) : c \in spec.choices}]

\* ParamSpec.validate
Accepts(spec, v) ==
  /\ Coercible(spec.type, v)
  /\ spec.choices # {} => Among(Coerce(spec.type, v), spec.choices)

\* ParamSchema.bind; the workflows here do not allow extra parameters
BindRaises(schema, values) ==
  \/ \E name \in DOMAIN schema :
       IF name \in DOMAIN values THEN ~ Accepts(schema[name], values[name])
       ELSE schema[name].required
  \/ ~ DOMAIN values \subseteq DOMAIN schema

Bind(schema, values) ==
  [name \in DOMAIN schema |->
     IF name \in DOMAIN values THEN Coerce(schema[name].type, values[name])
     ELSE schema[name].default]
===============================================================================

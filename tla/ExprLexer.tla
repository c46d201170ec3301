-------------------------------- MODULE ExprLexer -----------------------------
(***************************************************************************)
(* The values of the condition language and the tokens that stand for      *)
(* them: read by src/campanile/expr/lexer.py, written by Literal.render of *)
(* src/campanile/expr/ast.py.  A text is a sequence of tokens.             *)
(*                                                                         *)
(* A value is a record with one field that names its kind:                 *)
(* [null |-> TRUE], [boolean |-> b], [number |-> n] for an integer,        *)
(* [float |-> its repr], [string |-> s], [list |-> seq] or                 *)
(* [object |-> function from strings to values].                           *)
(***************************************************************************)
EXTENDS Integers, Sequences, SequencesExt

CONSTANT LiteralOf   \* the value of the tokens that are a number, true, false or null

Null == [null |-> TRUE]
Bool(b) == [boolean |-> b]
Number(n) == [number |-> n]
Float(repr) == [float |-> repr]
Text(s) == [string |-> s]
Is(kind, value) == kind \in DOMAIN value

Letter(s, i) == SubSeq(s, i, i)
Letters_(s) == [i \in 1 .. Len(s) |-> Letter(s, i)]
Quotes == {"'", "\""}

\* _ESCAPES, without \0
Escapes == [c \in {"n"} |-> "\n"] @@ [c \in {"t"} |-> "\t"] @@ [c \in {"r"} |-> "\r"]
           @@ [c \in Quotes \cup {"\\"} |-> c]

\* A step of _scan_string: `read` so far, after a backslash or not, `well` until
\* the lexer raises or the quote closes too early
ScanCharacter(scan, char, quote) ==
  IF scan.escape
  THEN IF char \in DOMAIN Escapes
       THEN [scan EXCEPT !.read = @ \o Escapes[char], !.escape = FALSE]
       ELSE [scan EXCEPT !.well = FALSE]
  ELSE IF char = "\\" THEN [scan EXCEPT !.escape = TRUE]
  ELSE IF char \in {"\n", quote} THEN [scan EXCEPT !.well = FALSE]
  ELSE [scan EXCEPT !.read = @ \o char]

IsString(token) == Letter(token, 1) \in Quotes

\* _scan_string, up to the quote that ends the token
ScanString(token) ==
  FoldLeft(LAMBDA scan, char : IF scan.well THEN ScanCharacter(scan, char, Letter(token, 1))
                               ELSE scan,
           [read |-> "", escape |-> FALSE, well |-> TRUE],
           Letters_(SubSeq(token, 2, Len(token) - 1)))

\* The tokens the parser takes for a literal, and those tokenize raises on
IsLiteral(token) == token \in DOMAIN LiteralOf \/ IsString(token)
Unreadable(token) == IsString(token) /\ ~ ScanString(token).well
ValueOf(token) ==
  IF IsString(token) THEN Text(ScanString(token).read) ELSE LiteralOf[token]

\* The escapes of Literal.render: none for a newline
Escape(s) ==
  FoldLeft(LAMBDA written, c : written \o (IF c \in {"\\", "\""} THEN "\\" \o c ELSE c),
           "", Letters_(s))

\* Literal.render: the token its text is read as, a name for an infinite float
Written(value) ==
  CASE Is("null", value) -> "null"
    [] Is("boolean", value) -> IF value.boolean THEN "true" ELSE "false"
    [] Is("string", value) -> "\"" \o Escape(value.string) \o "\""
    [] Is("number", value) -> ToString(value.number)
    [] Is("float", value) -> value.float
===============================================================================

CONSTANTS
  LiteralOf <- SomeLiterals
  Names = {"params", "results", "a", "k", "x", "get", "inf"}
  MaxDepth = 2
  Letters <- SomeLetters
  Builtins <- SomeBuiltins
  Tokens <- SomeTokens
  Openings <- SomeOpenings
  MaxTokens = 4
  MoreTokens = 2
  Params <- SomeParams
  Results <- SomeResults
SPECIFICATION Spec
INVARIANTS ParsesAsGrammar RenderReparses CheckedNamesResolve ReadsAgree
CHECK_DEADLOCK FALSE

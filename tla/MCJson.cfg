CONSTANTS
  kMaxDepth = 1
  Whitespace = {" "}
  Digit = {"0", "1", "999"}
  Plus = {"+", "-"}
  Huge = {"999"}
  BadLiteral = {"trap"}
  Bytes <- MCBytes
  Escapes <- MCEscapes
  Unit <- MCUnit
  Utf8 <- MCUtf8
  Texts <- MCTexts
SPECIFICATION JsonSpec
INVARIANTS
  JsonTypeOK
  RecursionIsBounded
  ParsesWhatIsMeant
  ErrTellsTheOutcome
PROPERTY EveryStepConsumes

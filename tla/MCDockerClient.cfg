CONSTANTS
  max_body_bytes = 45
  max_header_bytes = 12
  max_chunk_line_bytes = 5
  MaxHexDigits = 2
  allow_eof_termination_ = TRUE
  RecvSize = 9
  StatusOf <- MCStatusOf
  FieldOf <- MCFieldOf
  LengthOf <- MCLengthOf
  HexOf <- MCHexOf
  Replies <- MCReplies
  Calls <- MCCalls
  IdLength = 2
  Texts = {}
  kMaxDepth = 3
  Whitespace = {" ", "CR", "LF"}
  Digit = {"0", "1", "2"}
  Plus = {"+", "-"}
  Huge = {}
  BadLiteral = {"t", "f"}
  Bytes <- MCBytes
  Escapes <- MCEscapes
  Unit <- MCUnit
  Utf8 <- MCUtf8
SPECIFICATION FairDockerSpec
INVARIANTS
  HttpTypeOK
  SuccessIsWhole
  MemoryIsBounded
  CutsDoNotMatter
  SocketIsClosed
  ListIsTheEngines
PROPERTIES
  ImplementsStrikeCall
  CallReturns

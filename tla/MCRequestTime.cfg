CONSTANTS
  max_body_bytes = 4
  max_header_bytes = 6
  max_chunk_line_bytes = 4
  MaxHexDigits = 2
  allow_eof_termination_ = TRUE
  RecvSize = 3
  timeout_sec = 2
  StatusOf <- MCStatusOf
  FieldOf <- MCFieldOf
  LengthOf <- MCLengthOf
  HexOf <- MCHexOf
  Replies <- MCReplies
SPECIFICATION TimedSpec
INVARIANT BoundedByTheTimeout

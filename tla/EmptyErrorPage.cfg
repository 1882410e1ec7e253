\* A GET whose routine answers 404 and nothing else.
SPECIFICATION Spec
CONSTANTS
  Conn = {c1}
  Addr = {a1}
  NULL = NULL
  Requests <- PlainGet
  Routes <- MCRoutes
  Replies <- EmptyError
  HasEncoding = TRUE
  KeySize = 1
  post_max_size = 8
  headerin_max_size = 5
  querystring_max_size = 5
  UINT_MODULUS = 65536
  Overread <- Overread1
  LogMayFail = FALSE
  MaxAllocFailures = 0
INVARIANTS
  EmptyErrorPage
CHECK_DEADLOCK FALSE

\* A json request without a body.
SPECIFICATION Spec
CONSTANTS
  Conn = {c1}
  Addr = {a1}
  NULL = NULL
  Requests <- EmptyJson
  Routes <- MCRoutes
  Replies <- GoodReplies
  HasEncoding = TRUE
  KeySize = 1
  post_max_size = 8
  headerin_max_size = 5
  querystring_max_size = 5
  UINT_MODULUS = 65536
  Overread <- Overread1
  LogMayFail = FALSE
  MaxAllocFailures = 0
INVARIANTS
  NoSilentCrash
CHECK_DEADLOCK FALSE

\* Two connections that neither crash the process nor exhaust its memory.
SPECIFICATION FairSpec
CONSTANTS
  Conn = {c1, c2}
  Addr = {a1, a2}
  NULL = NULL
  Requests <- SafeRequests
  Routes <- MCRoutes
  Replies <- LiveReplies
  HasEncoding = TRUE
  KeySize = 1
  post_max_size = 8
  headerin_max_size = 5
  querystring_max_size = 5
  UINT_MODULUS = 65536
  Overread <- Overread1
  LogMayFail = FALSE
  MaxAllocFailures = 0
PROPERTIES
  Decided

\* Two connections, every kind of request and reply, one failing allocation.
SPECIFICATION Spec
CONSTANTS
  Conn = {c1, c2}
  Addr = {a1, a2}
  NULL = NULL
  Requests <- AllRequests
  Routes <- MCRoutes
  Replies <- AllReplies
  HasEncoding = TRUE
  KeySize = 1
  post_max_size = 8
  headerin_max_size = 5
  querystring_max_size = 5
  UINT_MODULUS = 65536
  Overread <- Overread1
  LogMayFail = TRUE
  MaxAllocFailures = 1
SYMMETRY SymmetryConn
INVARIANTS
  TypeOK
  HeapOwned
  RoutineAuthorized
  CompleteBody
  BoundedBody
  SessionsClosed
  RepliesPassedOn
  CrashExplained
PROPERTIES
  StoredErrorBlocksRoutine
  ServesRequests
\* A request may terminate the process: nothing happens after that.
CHECK_DEADLOCK FALSE

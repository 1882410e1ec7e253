\* Files with and without faults, one request, one failing allocation.
SPECIFICATION FairSpec
CONSTANTS
  Setting = {1, 2, 3, 4, 5}
  Addr = {1, 2, 3, 4, 5}
  Files <- MCFiles
  UpperCase <- MCUpperCase
  Compiled <- MCCompiled
  ObjectNames = {"s"}
  NULL = NULL
  MaxAllocFailures = 1
  Requests <- MCRequests
INVARIANTS
  TypeOK
  PointersAlive
  HeldOnce
  NothingLost
  RefusedIfFaulty
  ReadAsWritten
  RoutingMemoryAlive
  ReleasedAtExit
  MethodsExact
  ErrorsLogged
  CrashExplained
PROPERTIES
  RoutesAsRouter
  StartsOrRefuses
  Stops
\* main returns.
CHECK_DEADLOCK FALSE

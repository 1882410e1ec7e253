\* Ranks of four bits and a limit of eight bytes, in the ratio of the code's.
SPECIFICATION Spec
CONSTANTS
  Names <- MCNames
  Values <- MCValues
  MaxSize = 8
  RankLimit = 8
  NULL = NULL
INVARIANTS
  TypeOK
  ReadsBack
  BoundedContent
  RankFits
\* An error ends the collection.
CHECK_DEADLOCK FALSE

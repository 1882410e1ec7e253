\* Every small configuration and every short URL.
SPECIFICATION Spec
CONSTANTS
  Node = {1, 2, 3, 4, 5}
  Configs <- MCConfigs
  Urls <- MCUrls
  NULL = NULL
INVARIANTS
  TypeOK
  RoutedAsConfigured
  UnambiguousFound
\* The function returns.
CHECK_DEADLOCK FALSE

\* The two workflows of the driver and the child of the first.
SPECIFICATION Spec
CONSTANTS
  None = None
  k = k
  Names   <- Instances
  Flows   <- Parent
  Hooks   <- Hook
  Sources <- Driver
  Secret  <- Key
  CryptographyInstalled = FALSE
INVARIANTS
  TypeOK
  AllBranchesJoin
  CleanExitIsTrue
  ChecksFitDefinitions
  NothingLeftBehind
\* The driver ends.
CHECK_DEADLOCK FALSE

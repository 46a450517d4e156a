\* Two runs, in turn and at once: what a run may see of the other.
SPECIFICATION FairSpec
CONSTANTS
  None = None
  w1 = w1
  w2 = w2
  p = p
  h = h
  k = k
  Runs    = {w1, w2}
  Flows   = {w1, w2}
  Sources = {w1, w2}
  Names   = {p}
  Hooks   = {h}
  Parent  = p
  Hook    = h
  Secret <- Key
  CryptographyInstalled = FALSE
  Warmup = {w1}
  CommandLines <- Lines
INVARIANTS
  TypeOK
  CleanExitIsTrue
  LossesAreLosses
  NothingLeftBehind
PROPERTIES
  CleanupWaits
  KeepsPromise
  LoadEnds
\* The driver ends.
CHECK_DEADLOCK FALSE

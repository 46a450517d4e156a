\* One call, every kind of request: what is refused, timed and answered.
SPECIFICATION FairSpec
CONSTANTS
  None = None
  c1 = c1
  c2 = c2
  s1 = s1
  s2 = s2
  Calls   = {c1}
  Names   = {c1}
  Hooks   = {c1}
  Flows   = {c1}
  Sources = {c1}
  EmitterToken <- Token
  CryptographyInstalled = TRUE
  Requests <- ManyRequests
INVARIANTS
  TerminalVerdictIsTrue
  PhasesAreReal
  RefusalsAreExact
PROPERTIES
  EveryCallAnswered
\* Every call may have ended and the conductor have nothing left to do.
CHECK_DEADLOCK FALSE

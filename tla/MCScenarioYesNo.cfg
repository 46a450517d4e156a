\* The yes/no of every admitted call: TLC finds one that gets an HTTP error.
SPECIFICATION Spec
CONSTANTS
  None = None
  c1 = c1
  c2 = c2
  s1 = s1
  s2 = s2
  Calls   = {c1}
  Names   = {c1}
  Hooks   = {c1}
  Flows   = {c1}
  Sources = {c1}
  EmitterToken <- Token
  CryptographyInstalled = TRUE
  Requests <- ManyRequests
INVARIANTS
  AlwaysYesOrNo
\* Every call may have ended and the conductor have nothing left to do.
CHECK_DEADLOCK FALSE

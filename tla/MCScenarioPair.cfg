\* Two concurrent calls: what one may see of the other.
SPECIFICATION Spec
CONSTANTS
  None = None
  c1 = c1
  c2 = c2
  s1 = s1
  s2 = s2
  Calls   = {c1, c2}
  Names   = {c1, c2}
  Hooks   = {c1, c2}
  Flows   = {c1, c2}
  Sources = {c1, c2}
  EmitterToken <- Token
  CryptographyInstalled = FALSE
  Requests <- FewRequests
INVARIANTS
  TypeOK
  YesOnlyByOwnEvent
  EventAfterStart
PROPERTIES
  KeepsPromise
\* Every call may have ended and the conductor have nothing left to do.
CHECK_DEADLOCK FALSE

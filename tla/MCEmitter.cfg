\* Two calls on one thread, crashes, restarts and edits of the config file.
SPECIFICATION FairSpec
CONSTANTS
  None = None
  r1 = r1
  r2 = r2
  Callers = {r1, r2}
  EmitterToken <- Token
  CryptographyInstalled = FALSE
  Requests <- SomeRequests
  Files <- SomeFiles
  Workers = 1
INVARIANTS
  TypeOK
  OnlyAdmittedReach
  SentAsConfigured
PROPERTIES
  EveryCallEnds
  ServiceComesBack
  KeepsFirePromise

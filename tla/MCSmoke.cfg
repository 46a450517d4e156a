\* Three drivers, up to three workflows and four events.
SPECIFICATION Spec
CONSTANTS
  None = None
  Cases = 3
  Flows   <- Three
  Hooks   <- Three
  Sources <- Four
  Names   <- AllNames
  Selections <- Lines
  CryptographyInstalled = FALSE
INVARIANTS
  TypeOK
  PassIsOwn
  CasesAgree
  EveryCaseJudged
  ReplayIsSkipped
\* The driver ends.
CHECK_DEADLOCK FALSE

\* Two workflows, with one event or one from each of two emitters.
SPECIFICATION FairSpec
CONSTANTS
  None = None
  w1 = w1
  w2 = w2
  a = a
  b = b
  p = p
  h = h
  k = k
  Flows   = {w1, w2}
  Sources = {a, b}
  First   = a
  Names   = {p}
  Hooks   = {h}
  Name    = p
  Hook    = h
  Secret <- Key
  CryptographyInstalled = FALSE
INVARIANTS
  TypeOK
  PassIsTrue
  NoFalseAlarm
PROPERTIES
  FanoutEnds
\* The driver ends.
CHECK_DEADLOCK FALSE

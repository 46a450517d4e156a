\* Two backings with a file and one without, stacks kept up or taken down.
SPECIFICATION FairSpec
CONSTANTS
  None = None
  mysql = mysql
  postgres = postgres
  oracle = oracle
  Backings = {mysql, postgres, oracle}
  Targets <- InOrder
  Composable = {mysql, postgres}
  HealthTimeout = 4
  FastFailFrom = 2
INVARIANTS
  TypeOK
  EveryTargetJudged
  PassWasTested
  NothingLeftUp
PROPERTIES
  MatrixEnds
\* The script ends.
CHECK_DEADLOCK FALSE

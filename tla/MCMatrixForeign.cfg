\* Whose server the harness ran against.
SPECIFICATION Spec
CONSTANTS
  None = None
  mysql = mysql
  postgres = postgres
  oracle = oracle
  Backings = {mysql, postgres, oracle}
  Targets <- InOrder
  Composable = {mysql, postgres}
  HealthTimeout = 4
  FastFailFrom = 2
INVARIANTS
  PassIsOfItsBacking
\* The script ends.
CHECK_DEADLOCK FALSE

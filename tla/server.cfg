SPECIFICATION Spec
CONSTANTS
  Migrators = {m1, m2}
  Last = 2
  MaxFailures = 1
INVARIANTS ServedIsComplete
PROPERTIES RefusedUntouched MigrationEnds StopEnds
CHECK_DEADLOCK FALSE

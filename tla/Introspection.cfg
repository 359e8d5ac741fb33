SPECIFICATION Spec
CONSTANTS
  Tables <- TestTables
INVARIANTS ConstraintsAsDeclared ColumnsAsDeclared
CHECK_DEADLOCK FALSE

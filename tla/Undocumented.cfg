SPECIFICATION Spec
CONSTANTS
  Tables <- Undocumented
INVARIANTS ReportedAsDocumented
CHECK_DEADLOCK FALSE

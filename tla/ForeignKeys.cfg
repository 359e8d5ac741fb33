SPECIFICATION FairSpec
CONSTANTS
  Names = {"a", "A", "b", "c"}
  Key <- Fold
  Schemas <- TestSchemas
  Values = {"NULL", "int 1", "text 1", "text 01"}
  MaxRows = 2
INVARIANTS CheckIsExact FlushSucceeds FlushIsClosed
PROPERTY GraphEnds

SPECIFICATION Spec
CONSTANTS
  Names = {"a", "b"}
  Declarable <- TestFields
  Rows = {"r"}
  MaxOperations = 4
INVARIANTS RowsSurvive DataAsPromised IndexesAsDeclared NothingRefused ReferencesResolve
CHECK_DEADLOCK FALSE

SPECIFICATION FairSpec
CONSTANTS
  Characters <- Alphabet
  MaxLength <- Length
  Names = {"n"}
  Verbs = {"SELECT", "INSERT", "UPDATE", "DELETE", "REPLACE", "VALUES"}
  MaxCtes = 2
  Bodies <- TestBodies
  MaxCalls = 3
  MaxBatch = 3
  MaxParameters = 2
  MaxResult = 2
  FewQueries <- TestQueries
INVARIANTS TypeOK QuotingIsKept RowsMatchMarkers WritesEndWithExecute ResultsInOrder BatchIsStreamed
PROPERTY CallsReturn
CHECK_DEADLOCK FALSE

SPECIFICATION Spec
CONSTANTS
  Days <- TestDays
  Clocks <- TestClocks
  Years <- TestYears
  MaxDepth = 2
INVARIANTS LookupsAgree ComparesAsValues
CHECK_DEADLOCK FALSE

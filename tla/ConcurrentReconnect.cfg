SPECIFICATION Spec
CONSTANTS
  w1 = w1
  Work = {w1}
  Violating = {}
  Configured = {"CONCURRENT"}
INVARIANT EditsAreRegular

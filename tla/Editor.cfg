SPECIFICATION FairSpec
CONSTANTS
  w1 = w1
  w2 = w2
  Work = {w1, w2}
  Violating = {w2}
  Configured = {"DEFERRED", "CONCURRENT"}
INVARIANTS EverythingRestored ViolationsAreNotCommitted UndoneBeforeRestored EditsAreGuarded
PROPERTY RestorationHappens

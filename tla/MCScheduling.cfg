CONSTANTS
  p1 = p1
  p2 = p2
  Mutators = {p1, p2}
  HbThread = HbThread
  Coll = Coll
  NoGuard = NoGuard
  BatchSize = 1
  Plans <- MCPlans
SPECIFICATION Spec
INVARIANTS AccountExact CountersOrdered UsageNeverWraps AllocDiffNeverWraps
PROPERTIES RequestServed OverLimitServed

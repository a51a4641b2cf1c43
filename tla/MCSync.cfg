SPECIFICATION MCSpec
CONSTANTS
  t1 = t1 t2 = t2 t3 = t3
  n1 = n1 n2 = n2 n3 = n3
  v1 = v1 v2 = v2
  A = A B = B C = C
  Null = Null None = None
  Threads = {t1, t2, t3}
  Values = {v1, v2}
  Nodes = {n1, n2, n3}
  Fair = {t1}
  MaxOps = 4
  NoType = NoType Unset = Unset
  RegThreads = {t1, t2, t3}
  Types = {A, B, C}
  N = 2
  Hash <- HashABC
INVARIANTS ReachableIsLive NoUseAfterFree ShadeFnReady OneEntryPerType
PROPERTIES IsFifo CallsReturn Stable SpinEnds
CHECK_DEADLOCK FALSE

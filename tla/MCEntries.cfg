SPECIFICATION MCSpec
CONSTANTS
  t1 = t1 t2 = t2 t3 = t3 u1 = u1 o1 = o1 o2 = o2 Null = Null
  Threads = {t1, t2, t3}
  Walkers = {u1}
  MaxNodes = 4
  Entries = {1}
  Objs = {o1, o2}
  InitHps = 1
  MaxHps = 4
  MaxProtects = 5
  WordThreads = {1, 2}
  W = 5
  AlignBits = 1
  TypeIdBits = 2
  TagOps = {"or", "xor"}
  MaxRoots = 3
INVARIANTS
  Exclusive WalkComplete Compact
  HidsApart UnusedIsClear NoUseAfterFree ScanComplete
  LinkDecodes HeaderDecodes
SYMMETRY Symmetry

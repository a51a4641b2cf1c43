SPECIFICATION Spec
CONSTANTS
  p1 = p1 p2 = p2 o1 = o1 o2 = o2 o3 = o3 c1 = c1 c2 = c2
  Null = Null
  NoEpoch = NoEpoch
  Coll = Coll
  Participants = {p1, p2}
  Objs = {o1}
  Cells = {c1}
  InitCells <- Rooted
  Programs <- BarrierPrograms
  MaxTs = 4
VIEW View
INVARIANTS
  NoUseAfterFree

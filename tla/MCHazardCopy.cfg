SPECIFICATION HazardsSpec
CONSTANTS
  o1 = o1 o2 = o2 Null = Null
  Objs = {o1, o2}
  Entries = {1}
  InitHps = 2
  MaxHps = 4
  MaxProtects = 2
INVARIANT AllRecognized
SYMMETRY Symmetry

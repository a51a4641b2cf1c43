SPECIFICATION Spec
CONSTANTS
  Threads = {1, 2}
  W = 5
  AlignBits = 1
  TypeIdBits = 2
  TagOps = {"and", "or", "xor"}
  MaxRoots = 3
INVARIANTS TagKeepsAddress

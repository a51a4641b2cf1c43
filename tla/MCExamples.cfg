SPECIFICATION Spec
CONSTANTS
  Prior = Prior
  Absent = Absent
  MaxPushPops = 5
  Buckets = 2
INVARIANTS HelpFitsRecord
PROPERTIES LinearizableMap LinearizableStack LockFree

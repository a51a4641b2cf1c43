SPECIFICATION FairSpec
CONSTANTS
  p1 = p1
  p2 = p2
  Participants = {p1, p2}
  NoEpoch = NoEpoch
  MaxTs = 4
  MaxGuards = 2
INVARIANTS TypeOK SyncedExcludesNormal BarrierBeforeGuard
PROPERTIES ImplementsPhases WaitEnds

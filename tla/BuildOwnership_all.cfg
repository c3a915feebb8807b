SPECIFICATION FairLockSpec
CONSTANTS P1 = P1 P2 = P2 P3 = P3 P4 = P4 None = None
  Process <- Four Builder <- Two Mortal <- Two MaxAttempts = 3
INVARIANTS OneOwner
PROPERTIES AcquisitionEnds StaleLockRecovered

SPECIFICATION LockSpec
CONSTANTS P1 = P1 P2 = P2 P3 = P3 P4 = P4 None = None
  Process <- Four Builder <- Nobody Mortal <- Nobody MaxAttempts = 3
INVARIANTS MutualExclusion

SPECIFICATION Spec
CONSTANTS S1 = S1 S2 = S2
  Slot <- Slots
  proofLifetime = 1 sessionLifetime = 1 maximumBoundaryDuration = 1
  maximumReplayEntries = 2 maximumSessionReplayEntries = 2
  MaxTime = 1 MaxProof = 3 MaxSession = 2 MaxRestart = 1
SYMMETRY Symmetry
INVARIANTS LedgerExact OncePerProof
PROPERTIES SessionIsAtomic FormsFollowSession
CHECK_DEADLOCK FALSE

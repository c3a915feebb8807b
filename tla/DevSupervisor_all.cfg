SPECIFICATION FairSpec
CONSTANTS MaxEdits = 3 MaxChildren = 5 MaxSignals = 2 Faults <- AllFaults
INVARIANTS OneServer
  NoStaleServer LastGoodServesUnlessLost
PROPERTIES OutputIsTransactional WorkEnds

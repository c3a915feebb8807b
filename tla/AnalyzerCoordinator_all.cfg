SPECIFICATION FairSpec
CONSTANT MaxStarts = 4
INVARIANTS Consistent BatchIsExact ClosedIsQuiet
PROPERTIES LatestAnalysisWins ServiceRefined EverythingSettles

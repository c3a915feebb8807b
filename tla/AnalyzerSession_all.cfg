SPECIFICATION SessionSpec
CONSTANTS D1 = D1 D2 = D2 T1 = T1 T2 = T2 NoText = NoText
  Doc <- Docs Text <- Texts Definitions <- Asked
  Nodes = 2 MaxVersion = 1 MaxEpoch = 2 MaxPublications = 2 MaxExplains = 1 MaxGraphs = 1
SYMMETRY Symmetry
INVARIANTS GraphIsExact LifetimesNeverReturn
PROPERTIES ResultsAreCurrent
CHECK_DEADLOCK FALSE

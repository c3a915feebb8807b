SPECIFICATION Spec
CONSTANTS U1 = U1 U2 = U2 NoUrl = NoUrl
  Url <- Urls
  MaxActs = 3 MaxCancels = 2 MaxPosts = 1 MaxEntries = 2
SYMMETRY Symmetry
INVARIANTS Coherent KnownTruth
PROPERTIES LatestIntentWins

SPECIFICATION FairSpec
CONSTANTS K1 = K1 K2 = K2 K3 = K3 R1 = R1 R2 = R2 R3 = R3 R4 = R4
  Key <- Keys Reader <- Readers
  maximumRequestCalls = 3 maximumRequestReads = 2 MaxChunks = 2
INVARIANTS NoSilentTruncation ScopeFollowsResponse SharedLoads
PROPERTIES LateWorkIsMute ResourcesReleased

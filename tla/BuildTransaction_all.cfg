SPECIFICATION Spec
CONSTANTS G1 = G1 G2 = G2 Absent = Absent Broken = Broken Mixed = Mixed
  Generation <- Generations Fallible <- AllPlaces Orphans = TRUE
INVARIANTS Recoverable
PROPERTIES OutputIsAtomic ReturnsClean

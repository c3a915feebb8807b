SPECIFICATION Spec
CONSTANTS MaxEdits = 2 MaxChildren = 3 MaxSignals = 1 Faults <- DrainFault
INVARIANTS LastGoodServes

SPECIFICATION FairSpec
CONSTANTS A = A B = B C = C Long = Long Raw = Raw Dotted = Dotted
  Path <- Paths Alias <- Spellings Size <- Sizes
  MaximumPendingHints = 2 MaximumPendingBytes = 7 DebounceMs = 1 MaximumDelayMs = 2
  MaxAdmissions = 4 MaxFlushes = 3 MaxNow = 2
INVARIANTS NothingStranded BatchIsFaithful FlushIsCurrent
PROPERTIES WorkIsTaken

SPECIFICATION FairSpec
CONSTANTS
  Addr = {a1, a2}
  MaxDelay = 2
  Intervals = {0, 2}
  MaxCreated = 3
INVARIANTS OwnedOnce Armed CancelSticks
PROPERTY AddedRuns

SPECIFICATION FairSpec
CONSTANTS
  w1 = w1
  w2 = w2
  o1 = o1
  o2 = o2
  None = None
  Writers = {w1, w2}
  Objects = {o1, o2}
  Size <- MCSize
  IndexSize = 1
  MaxObjects = 5
  MaxBytes = 6
  MaxSequence = 2
  MaxErrors = 1
  MaxCrashes = 1
  LiveRecovery = FALSE
INVARIANTS TypeOK WritersExclude AccountingExact
PROPERTIES Transactional LockReleased

SPECIFICATION Spec
CONSTANTS
  w1 = w1
  w2 = w2
  o1 = o1
  o2 = o2
  None = None
  Writers = {w1, w2}
  Objects = {o1, o2}
  Size <- MCSize
  IndexSize = 1
  MaxObjects = 4
  MaxBytes = 4
  MaxSequence = 2
  MaxErrors = 0
  MaxCrashes = 0
  LiveRecovery = TRUE
SYMMETRY WriterSymmetry
INVARIANTS IndexesResolve HeadLoads

SPECIFICATION Spec
CONSTANTS
  whole = whole
  filtered = filtered
  Suite <- MCSuite
  Jobs = 3
  Trees = 4
  MinImprovements = 1
  Sharings <- Apart
  Contents = {whole, filtered}
  Whole = whole
  Mismatches = {0, 1}
  World = {}
INVARIANT PassCanBeApproved

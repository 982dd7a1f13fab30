SPECIFICATION FairSpec
CONSTANTS
  whole = whole
  filtered = filtered
  Suite <- MCSuite
  Jobs = 3
  Trees = 4
  MinImprovements = 1
  Sharings <- Either
  Contents = {whole}
  Whole = whole
  Mismatches = {0, 1}
  World = {"environment"}
INVARIANTS WithinBudget AnswersAreComplete
PROPERTY SchedulingEnds

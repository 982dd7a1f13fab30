SPECIFICATION Spec
CONSTANTS
  a = a
  b = b
  in = in
  out = out
  clauseGap = clauseGap
  Diagnostics = {in, out, clauseGap}
  ClauseGap = clauseGap
  Ids <- MCIds
  Coverage = coverage
  Selected = {in}
  Reports <- MCReports
  Faults = {"timed_out"}
  MaxRecords = 1
  MaxEvents = 2
  Plans <- WatchedPlans
INVARIANTS EvidenceIsCurrent CoverageIsFinal
PROPERTIES VerdictsOnlyFall

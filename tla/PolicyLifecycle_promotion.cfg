SPECIFICATION Spec
CONSTANTS
  p0 = p0
  p1 = p1
  author = author
  reviewer = reviewer
  t1 = t1
  t2 = t2
  s1 = s1
  s2 = s2
  None = None
  Policies = {p0, p1}
  Snapshots = {p0}
  People = {author, reviewer}
  Authors = {author}
  Trusts = {t1, t2}
  Baselines <- MCBaselines
  Approvers <- MCApprovers
  Sessions = {s1, s2}
  MaxEvents = 7
  MaxCandidates = 1
  MaxEdits = 1
  MaxSigned = 2
SYMMETRY SessionSymmetry
INVARIANT EvidenceFits
PROPERTIES FrozenIsKept Authorized

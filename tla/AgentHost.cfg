SPECIFICATION Spec
CONSTANTS
  Codes = {"two", "one", "fixed", "bare", "broken"}
  Tasks = {"t", "u"}
  Verdict <- MCVerdict
  Debt <- MCDebt
  Verified <- MCVerified
  Proposals = {"one", "fixed"}
  MaxAttempts = 3
  MaxEvents = 3
  Claims <- MCClaims
INVARIANTS CompleteIsEarned AnnouncedAndBounded
PROPERTY SessionEnds
CHECK_DEADLOCK FALSE

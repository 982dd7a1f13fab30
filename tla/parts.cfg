\* Five items for three jobs; what the other parts are asked is in MCInputs and
\* MCParts.
SPECIFICATION PartsSpec
CONSTANTS
  None = None
  Unknown = Unknown
  N = 5
  Jobs = 3
  W <- MCW
  Start <- MCStart
  Inline = FALSE
  GateIds = {"a", "b"}
  Reasons = {"source"}
  Diagnostics = {"d"}
  CheckResults <- GateCandidates
  MaxResults = 2
  Configs <- PlanConfigs
  ConstraintCoverage = None
  Builtin <- FileBuiltin
  ProjectRules <- FileProject
  Always = {"core"}
  Custom = "none"
  MaxCategories = 3
  MaxRuleFiles = 2
  Writer = {"u", "v"}
  Mutations <- FewMutations
  NewRules <- Drafts
  Files <- FewFiles
  MaxEdits = 2
  Reports <- JudgmentReports
  Policies <- JudgmentPolicies
  Answers <- JudgmentAnswers
  MaxJudgmentEdits = 2
  MaxTime = 1
  Controls = {"final_full_check"}
  Day = 2
  MaxRuns = 3
  MaxBytes = 5
  Slack = 1
  Drawn <- Draw
  Computations <- ComputationNames
  InputsTo <- InputsOf
  Settings <- SettingsOf
INVARIANTS
  CompleteInOrder SameErrorAsSerial NoWorkerLeft
  EvidenceRight PlanRight PilotsRight ActsOnWhatItRead
PROPERTIES
  InputsRight RulesRight CandidatesKept

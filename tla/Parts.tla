------------------------------- MODULE Parts --------------------------------
(***************************************************************************)
(* The parts that run between the processes, side by side and one at a     *)
(* time: the bounded map (this module's own variables are WorkerMap's),    *)
(* the gate, the planner, the candidate configuration and the judgment,    *)
(* which have states of their own, and the computations, which are asked   *)
(* once, whatever may be asked of them.  The parts that a behaviour is not *)
(* about keep an initial value.                                            *)
(***************************************************************************)
EXTENDS WorkerMap, FiniteSets

\* Values unequal to every other
CONSTANTS None, Unknown

-----------------------------------------------------------------------------
(* The parts with a state                                                    *)

CONSTANTS GateIds, Reasons, Diagnostics, CheckResults, MaxResults
VARIABLES results, required, invalid, at, seen, gaps, failures, completed, decision
gateVars == <<results, required, invalid, at, seen, gaps, failures, completed, decision>>

Gate == INSTANCE GateLoop WITH Ids <- GateIds, Candidates <- CheckResults

CONSTANTS Configs, ConstraintCoverage
VARIABLES config, profile, stage, needed, round, visit, remaining, order, owed, pending
planVars == <<config, profile, stage, needed, round, visit, remaining, order, owed, pending>>

Plan == INSTANCE PlanBuild WITH required <- owed, Coverage <- ConstraintCoverage

CONSTANTS Builtin, ProjectRules, Always, Custom, MaxCategories, MaxRuleFiles, Writer, Mutations,
          NewRules, Files, MaxEdits
VARIABLES file, lock, writer, alien, edits, directory, section
fileVars == <<file, lock, writer, alien, edits, directory, section>>

Rule == INSTANCE RuleFile WITH Project <- ProjectRules

CONSTANTS Reports, Policies, Answers, MaxJudgmentEdits, MaxTime
VARIABLES files, now, given, run
judgmentVars == <<files, now, given, run>>

Judge == INSTANCE Judgment WITH MaxEdits <- MaxJudgmentEdits

\* The layouts that validation accepts, and the policies a file can hold
ASSUME PlansAreSound == Plan!ConfigsWellFormed
ASSUME PoliciesAreTyped == Judge!PoliciesWellTyped
-----------------------------------------------------------------------------
(* The computations                                                          *)

CONSTANTS Controls, Day, MaxRuns, MaxBytes, Slack, Drawn(_)

Report == INSTANCE ReportGate
Contract == INSTANCE AgentContract
Envelope == INSTANCE DecisionEnvelope WITH Bad <- Unknown
Pilot == INSTANCE PilotPlan
Metrics == INSTANCE PilotMetrics WITH Unbound <- Unknown
Summary == INSTANCE JudgmentPilot

CONSTANTS
  Computations,  \* their names
  InputsTo(_),   \* what each may be asked
  Settings(_)    \* and in which circumstances

\* What the readers of a contract, a manifest, retained runs and labels yield
ObligationTyped(o) ==
  /\ o.source \in BOOLEAN /\ o.binding # None
  /\ o.kind \in {"instruction", "checks", "host"}

ManifestTyped(m) ==
  /\ m = [protocol |-> m.protocol, assignments |-> m.assignments, sources |-> m.sources,
          order |-> m.order, observations |-> m.observations, seal |-> m.seal]
  /\ DOMAIN m.assignments = 1..Len(m.assignments) /\ Len(m.assignments) \in Nat
  /\ DOMAIN m.order = 1..Len(m.order) /\ Len(m.order) \in Nat
  /\ \A a \in Pilot!All(m) :
       a.cohort = [workflow |-> a.cohort.workflow, model |-> a.cohort.model,
                   setup |-> a.cohort.setup, actual |-> a.cohort.actual]
  /\ Pilot!Plan(m) # None

\* An observation has a place of the order, or none, and archived times.
ObservationsTyped(m) ==
  \A o \in Pilot!Range(m.observations) :
    /\ o.sequence \in Nat \cup {None}
    /\ o.attempts \in Seq(Pilot!Range(o.attempts))
    /\ \A i \in DOMAIN o.attempts : o.attempts[i].from \in Nat \cup {None}

\* A list, as the readers of reports, records and runs yield one
ListTyped(list) == DOMAIN list = 1..Len(list) /\ Len(list) \in Nat

\* A probability is in tenths.
RetainedTyped(runs) ==
  /\ ListTyped(runs)
  /\ \A i \in DOMAIN runs : /\ runs[i].started \in Nat /\ Drawn(runs[i].id) \in Nat
                            /\ runs[i].p \in (0..10) \cup {None}

LabelsTyped(labels) ==
  /\ labels.from \in Nat /\ labels.until \in Nat
  /\ ListTyped(labels.labels)
  /\ \A i \in DOMAIN labels.labels : labels.labels[i] # None

\* A coverage report has finitely many records, and lines are added to files only.
MeasuredTyped(records, snap) ==
  /\ IsFiniteSet(records) /\ \A r \in records : r.excluded \in BOOLEAN
  /\ \A f \in DOMAIN snap.added : snap.added[f] # {} => f \in DOMAIN snap.lines

\* Retained runs of a trial have every field, and found finitely many diagnostics.
AttemptTyped(t) ==
  t = [status |-> t.status, full |-> t.full, elapsed |-> t.elapsed, changed |-> t.changed,
       report |-> t.report, cost |-> t.cost]

RunTyped(r) ==
  /\ r = [workflow |-> r.workflow, task |-> r.task, eligible |-> r.eligible,
          excluded |-> r.excluded, start |-> r.start, issues |-> r.issues,
          required |-> r.required, observed |-> r.observed, attempts |-> r.attempts,
          review |-> r.review]
  /\ ListTyped(r.attempts) /\ \A n \in DOMAIN r.attempts : AttemptTyped(r.attempts[n])
  /\ r.eligible \in BOOLEAN /\ r.excluded \in BOOLEAN
  /\ IsFiniteSet(Metrics!Found(r))

MeasuredRuns(runs) == ListTyped(runs) /\ \A i \in DOMAIN runs : RunTyped(runs[i])

SortedTyped(values) ==
  /\ ListTyped(values) /\ \A i \in DOMAIN values : values[i] \in Nat
  /\ \A i, j \in DOMAIN values : i <= j => values[i] <= values[j]

\* A report lists checks with the sizes of their diagnostics.
CheckTyped(c) ==
  ListTyped(c.diagnostics) /\ \A i \in DOMAIN c.diagnostics : c.diagnostics[i] \in Nat
ChecksTyped(checks) == ListTyped(checks) /\ \A n \in DOMAIN checks : CheckTyped(checks[n])

Decisions == {"pass", "fail", "incomplete"}
ReportTyped(r) ==
  /\ ChecksTyped(r.checks) /\ r.gate.decision \in Decisions
  /\ r.gate.blockers \in Nat /\ r.pending \in Nat /\ r.acceptance \in Nat

\* An envelope is an identity and a body.
EnvelopeTyped(e) ==
  /\ e = [id |-> e.id, body |-> e.body] /\ e.body.gate.outcome \in Decisions
  /\ e.body.gate.warnings \in Nat /\ e.body.gate.pending \in Nat /\ e.body.gate.gaps \in Nat
  /\ e.body.payload.is = "report" => ChecksTyped(e.body.payload.checks)

ASSUME NoneIsApart == None \notin Nat /\ None \notin BOOLEAN

ASSUME InputsAreTyped ==
  /\ \A input \in InputsTo("contract") : \A k \in DOMAIN input[1] : ObligationTyped(input[1][k])
  /\ \A m \in InputsTo("orders") \cup InputsTo("changes") \cup InputsTo("trials") : ManifestTyped(m)
  /\ \A s \in Settings("changes") : ManifestTyped(s[1])
  /\ \A m \in InputsTo("trials") : ObservationsTyped(m)
  /\ \A runs \in InputsTo("labels") : RetainedTyped(runs)
  /\ \A x \in InputsTo("issues") : ListTyped(x[1]) /\ ListTyped(x[2])
  /\ \A s \in Settings("baseline") : ListTyped(s[2])
  /\ \A x \in InputsTo("coverage") : \A s \in Settings("coverage") : MeasuredTyped(x[2], s[1])
  /\ \A runs \in InputsTo("metrics") : MeasuredRuns(runs)
  /\ \A p \in Settings("metrics") : p.stagnation \in Nat \ {0}
  /\ \A values \in InputsTo("percentiles") : SortedTyped(values)
  /\ \A e \in InputsTo("envelopes") : EnvelopeTyped(e)
  /\ \A r \in InputsTo("feedback") : ReportTyped(r)
  /\ \A s \in Settings("feedback") : s[1] \in Nat
  /\ \A s \in Settings("labels") : LabelsTyped(s[1])
-----------------------------------------------------------------------------
VARIABLES part,    \* what the behaviour is about
          chosen   \* what is asked: at most one input

Machines == {"workers", "gate", "plan", "rule_file", "judgment"}

-----------------------------------------------------------------------------
partsVars == <<part, chosen, vars, gateVars, planVars, fileVars, judgmentVars>>

\* What the idle parts hold
AnyConfig == CHOOSE c \in Configs : TRUE
AnyFile == CHOOSE f \in Files : TRUE
AnyGiven == [report |-> CHOOSE r \in Reports : TRUE, policy |-> CHOOSE p \in Policies : TRUE]

PartsInit ==
  /\ part \in Machines \cup Computations /\ chosen = {}
  /\ IF part = "workers" THEN TRUE ELSE outcome = [i \in Items |-> "ok"] /\ expired = FALSE
  /\ IF part = "gate" THEN TRUE ELSE required = {} /\ invalid = {}
  /\ IF part = "plan" THEN TRUE ELSE config = AnyConfig /\ profile = "quick"
  /\ IF part = "rule_file" THEN TRUE ELSE file = AnyFile
  /\ IF part = "judgment" THEN TRUE ELSE given = AnyGiven
  /\ Init /\ Gate!Init /\ Plan!Init /\ Rule!Init /\ Judge!Init

Compute ==
  /\ part \in Computations /\ chosen = {}
  /\ \E input \in InputsTo(part) : chosen' = {input}
  /\ UNCHANGED <<part, vars, gateVars, planVars, fileVars, judgmentVars>>

\* What has ended stays as it is.
AtRest ==
  /\ \/ chosen # {}
     \/ part = "rule_file" /\ \A w \in DOMAIN writer : writer[w].at \in {"idle", "ended", "dead"}
     \/ part = "judgment" /\ run.phase \in {"recorded", "refused"}
  /\ UNCHANGED partsVars

PartsNext ==
  \/ part = "workers" /\ Next
     /\ UNCHANGED <<part, chosen, gateVars, planVars, fileVars, judgmentVars>>
  \/ part = "gate" /\ Gate!Next
     /\ UNCHANGED <<part, chosen, vars, planVars, fileVars, judgmentVars>>
  \/ part = "plan" /\ Plan!Next
     /\ UNCHANGED <<part, chosen, vars, gateVars, fileVars, judgmentVars>>
  \/ part = "rule_file" /\ Rule!Next
     /\ UNCHANGED <<part, chosen, vars, gateVars, planVars, judgmentVars>>
  \/ part = "judgment" /\ Judge!Next
     /\ UNCHANGED <<part, chosen, vars, gateVars, planVars, fileVars>>
  \/ Compute
  \/ AtRest

PartsSpec == PartsInit /\ [][PartsNext]_partsVars
-----------------------------------------------------------------------------
(* What the parts promise.  What a computation answers is about the input     *)
(* that was chosen, in every one of its settings.                            *)

\* A decision rests on the evidence it names: the one-pass gate decides what the
\* declarative gate decides and passes nothing without evidence; a report's
\* issues are new only when they grew against the baseline of the same tool;
\* a contract that allows completion has every obligation covered; an envelope
\* that validates says what its payload says; a judgment adds attention and
\* changes no gate (domain/gate.rs, application/report_gate.rs,
\* agent_contract.rs, domain/decision_envelope.rs, application/judgment.rs).
EvidenceRight ==
  /\ Gate!LoopDecides /\ Gate!PassHasEvidence
  /\ Judge!OnlyAddsAttention
  /\ \A x \in chosen : \A s \in Settings(part) :
       CASE part = "issues" ->
              Report!NewIsWhatGrew(x[1], x[2], s) /\ Report!RatchetIsGrowth(x[1], x[2], s)
         [] part = "coverage" -> Report!UncoveredIsSeen(x[1], x[2], s[2], s[3], s[1])
         [] part = "baseline" -> Report!ComparedWithItsOwn(s[1], s[2], x, s[3])
         [] part = "contract" ->
              Contract!AllowedIsCovered(x[1], s[1], s[2], s[3], x[2], s[4])
         [] part = "envelopes" -> Envelope!SaysWhatItCarries(x)
         [] part = "feedback" ->
              Envelope!ViewIsHonest(x, s[1], s[2]) /\ Envelope!CompactionKeepsTheDecision(x, s[1], s[2])
         [] OTHER -> TRUE

\* A plan is a schedule of exactly what the selection reaches, and whatever a
\* profile leaves out is owed to a later run (config/plan.rs).
PlanRight == Plan!OrderIsSchedule /\ Plan!NothingForgotten /\ Plan!RunsWhatIsReached

\* The figures of a trial are of the runs it sealed: an order that is sealed is
\* balanced, nothing sealed is edited afterwards, what is accepted was earned
\* by every run, a loss never counts as a benefit, and a judgment pilot's rates
\* rest on independent labels (domain/pilot/validation.rs, metrics.rs, rows.rs,
\* application/judgment/pilot.rs).
PilotsRight ==
  \A x \in chosen : \A s \in Settings(part) :
    CASE part = "orders" -> Pilot!SealedIsBalanced(x, s)
      [] part = "changes" ->
           /\ Pilot!NothingPostHoc(s[1], s[2], x) /\ Pilot!NothingPostHoc(x, s[2], s[1])
           /\ Pilot!SealedIsBalanced(x, s[2])
      [] part = "trials" -> Pilot!FollowedIsFollowed(x)
      [] part = "metrics" ->
           /\ Metrics!AcceptedIsEarned(s, x)
           /\ \A i \in DOMAIN x : Metrics!LossIsNoBenefit(s, x, i)
      [] part = "percentiles" -> Metrics!PercentileRight(x)
      [] part = "labels" ->
           Summary!RestsOnIndependentLabels(x, s[1], s[2]) /\ Summary!FiguresAgree(x, s[1])
      [] OTHER -> TRUE

\* What is acted on is what was read: a writer replaces the candidate
\* configuration it read, and a complete judgment is of files that are still
\* what they were (config/rule_management.rs, application/judgment.rs).
ActsOnWhatItRead == Rule!NothingOverwritten /\ Judge!JudgmentIsBound

\* Whatever else runs, a rule file keeps its text (config/rule_authoring.rs).
CandidatesKept == Rule!CandidatesKept
=============================================================================

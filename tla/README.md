# qualitygate in TLA+

Qualitygate checks a change of a repository against a policy and decides
*pass*, *fail* or *incomplete*. Its promise is about evidence: a pass must rest
on checks that ran, on the snapshot that was selected, under an authority that
still stands. The places where that can go wrong are orderings, not
computations: the world moves while checks run, writers of the policy archive
die half-way, a result is taken back after something already relied on it. This
project models those parts in TLA+, checks them with TLC on small instances and
proves the central ones with TLAPS. Paths are relative to
`src/qualitygate/` of the repository unless they start with `docs/`.

## The system

| Component | State it keeps | Operations | Modelled in |
| --- | --- | --- | --- |
| Policy archive store, `config/policy_store.rs` | `.qualitygate/policy`: `HEAD`, `write.lock`, content-addressed `objects/` | open, transaction, put_blob, put_record, event, commit | `PolicyStore`, `PolicyArchive` |
| Check evaluation, `application/mod.rs` with commands, manual, provenance, external, rule_execution, constraint_coverage | one evaluation: plan, results, reasons to distrust it, input guard | capture, prepare, execute each check, revalidate, bound output, cover clauses, gate, write report | `CheckRun` |
| Gate and results, `domain/gate.rs`, `domain/report.rs` | none (pure) | evaluate; pending, complete, block, skip | `CheckResult`, `GateLoop` |
| Planner, `config/plan.rs` with `config/validation.rs` | none (pure) | Plan::build | `PlanBuild` |
| Input guard, `snapshot/input_guard.rs` | stamps of the materialised files, first failure latched | create, verify | `InputGuard`, composed in `GuardedCommand`; as one step in `CheckRun` |
| Process capture, `runner/mod.rs` | child and its group, stream drains, deadline | spawn, drain, exit, time out, kill group | `ProcessCapture`, composed in `GuardedCommand` |
| Policy lifecycle, `config/policy_{candidates,validation,promotion,rollback}.rs` and `application/policy_{promotion,rollback}.rs` | candidate revisions, evaluations, approvals, the active policy, its event history | create, edit, reject, abandon, begin/finish validation, complete evaluation, approve, promote, roll back | `PolicyLifecycle`, `ActivePolicy` |
| Validation scheduler, `application/policy_validation.rs` | running cases, results, deadline | start case, join, archive, time out, stop on invalid, recheck, decide | `ValidationRun` |
| Worker pools, `snapshot/io_workers.rs`, `adapters/parallel.rs`, `config/parallel.rs` | chunks of the input, scoped threads, deadline | spawn, work, fail, join, merge | `WorkerMap` |
| Snapshot acquisition, `snapshot/{mod,git,worktree,limits}.rs`, `application/acquisition.rs` | resolved references, trees, readers, budgets, the policy before and after | prepare, resolve, list, read, load, validate | `SnapshotCapture` |
| Snapshot views, `snapshot/{changes,selected_preflight,preflight,test_overlay,delivery}.rs` | none (pure) | compare, select, overlay tests, predict the size, export | `SnapshotView`; export in `AgentHost` |
| Report gates, `application/{report_gate,coverage_gate,tool_evidence,generated_reports}.rs`, `domain/{ratchet,coverage}.rs` | none of their own | identify, place and count issues, compare with a baseline | `ReportGate` |
| Agent host, `application/agent_host*.rs`, `domain/agent_host.rs` | attempt, last check, progress, ledger in memory and on disk | check, project the contract, run the agent, apply, re-check, deliver | `AgentHost` |
| Agent contract, `application/agent_contract.rs`, `domain/agent_contract.rs`, `domain/agent_host.rs` | none (pure) | which obligations apply, project, observe, authorize | `AgentContract` |
| Rule files, `config/rule_management.rs`, `config/rule_authoring.rs` | `.lock` file, candidate configuration, rule directory | every edit, re-check, publish, create a rule | `RuleFile` |
| Rule catalog, `config/catalog.rs`, `config/project_inventory.rs` | none (pure) | trace to standards, resolve, discover project rules | `RuleCatalog` |
| Configuration layout, `config/{validation,python,constraint_inventory,compatibility,test_effectiveness,runtime,project_rules}.rs` | none (pure) | validate | `ConfigLayout` |
| Rule expressions, `domain/operator*.rs`, `adapters/operators*.rs` | indexes of collections | check kinds, evaluate | `RuleExpression` |
| Project rules, `config/custom_validation.rs`, `adapters/custom_rules*` | none (pure) | validate, select, find | `CustomRule` |
| Provenance of tests, `adapters/{entity_changes,provenance,git_trailers}.rs` | none (pure) | match tests, replay a record, attribute by history | `TestLineage` |
| Pilot, `domain/pilot/*`, `application/pilot.rs` | a sealed trial, its runs | validate, seal, authorize, audit, measure, accept | `PilotPlan`, `PilotMetrics` |
| Judgment, `domain/judgment.rs`, `application/judgment.rs`, `application/judgment/pilot.rs` | files read, provider asked, decision recorded | judge, summarise a pilot | `Judgment`, `JudgmentPilot` |
| Decision envelope and feedback, `domain/decision_envelope.rs`, `domain/feedback.rs` | none (pure) | construct, render, compact, validate | `DecisionEnvelope` |
| Input budgets, identity of executables, special commands, retained evidence, built-in rules and parsers, command line, network, doctor and discovery | | | not modelled, see below |

How the parts interact. A check run (`CheckRun`) takes its plan from the
planner (`PlanBuild`), its authority from the active policy in the archive
(`PolicyStore`), runs commands in a materialised copy of the snapshot that the
input guard watches, and hands its results to the gate (`GateLoop`). Policy
commands are transactions of the archive. Validation replays check runs over a
suite of cases before a candidate may be promoted. The input of a check run comes
from an acquisition (`SnapshotCapture`) under a valid configuration
(`ConfigLayout`, `RuleCatalog`), its rules and reports from `CustomRule`,
`RuleExpression`, `TestLineage` and `ReportGate`, which `CheckRun` has as outcomes.
Its report leaves as an envelope (`DecisionEnvelope`), to an agent whose host checks
again (`AgentHost`), to a judgment, or to the runs of a pilot.

What is hard. Several processes write one archive through a lock file that a
crash leaves behind. An evaluation is one long asynchronous function whose
inputs are external: the repository, the environment, trust stores and records
with an expiry, the active policy, and a workspace that the very commands being
judged can write to; capturing the input, judging a warning and hosting an agent
are such functions too. Results are taken back at the end (revalidation, output
bounds), after later checks were executed because earlier ones passed.

What makes each component correct:

- Archive: one writer at a time; HEAD moves by whole commits that extend what it
  pointed to; whatever is on disk resolves; what is published can be opened.
- Check evaluation: a pass is earned by what the checks reported, is about one
  moment after the last of them, and rests on no command that saw altered files.
- Gate: required means present, once, and usable; no pass without any check.
- Planner: prerequisites first, nothing owed is lost, nothing disabled runs.
- Lifecycle: evidence stays with the policy it is about; every change of the
  active policy was authorised, for that moment, and works once.
- Validation: within memory and permits; an answer is about the whole suite.
- Worker map: everything in order or the error a serial loop meets first.
- Commands: evidence only over unaltered files, successes captured whole, no
  process of the group left.
- Acquisition: a capture was made under the exclusions of the policy it is then
  judged by, holds nothing that never was, and leaves out nothing else.
- Reports: what counts as new grew against the same tool's baseline.
- Agent host: complete means that the pinned evaluator passed the exported tree
  under the contract the agent was given; each attempt is on disk before it runs.
- Rule files: no edit published over one that was not seen, no rule file replaced.
- Rules: one meaning, whatever index, order or narrowing the evaluation uses.
- Pilot and judgment: figures of the sealed runs only; a judgment of files that
  are still what they were, and one that never relaxes a gate.

## The modules

| Module | Code | What it is |
| --- | --- | --- |
| `PolicyStore` | `config/policy_store.rs` | writers as processes, one file operation a step |
| `PolicyArchive` | what its users rely on | the abstract archive: atomic commits |
| `PolicyStore_proofs` | | theorems about `PolicyStore` |
| `CheckResult` | `domain/report.rs`, `domain/gate.rs` | the operations on a result; the gate, declaratively |
| `GateLoop` | `domain/gate.rs` | the gate as the loop it is |
| `PlanBuild` | `config/plan.rs` | the planner, a step for each loop iteration that can fail |
| `CheckRun` | `application/mod.rs` and helpers | one evaluation while the world moves |
| `InputGuard` | `snapshot/input_guard.rs` | the stamps, three steps an inspected file |
| `ProcessCapture` | `runner/mod.rs` | the capture and the processes it captures |
| `GuardedCommand` | `application/commands.rs` | both, for commands one after the other |
| `PolicyLifecycle` | `config/policy_*.rs`, `application/policy_*.rs` | sessions over candidates, approvals and the history |
| `ActivePolicy` | what a reader of the history relies on | the abstract succession of authorised changes |
| `ValidationRun` | `application/policy_validation.rs` | the scheduler of paired cases |
| `WorkerMap` | the three `map` functions | the chunked scoped-thread map |
| `CheckRun_proofs`, `GuardedCommand_proofs`, `PolicyLifecycle_proofs`, `ValidationRun_proofs`, `SnapshotCapture_proofs`, `AgentHost_proofs` | | theorems about these modules |
| `Parts` | | the parts between the processes, side by side and one at a time |
| `Parts_proofs` | | theorems about `Parts`, and so about the modules it composes |
| `SnapshotCapture` | `application/acquisition.rs`, `snapshot/*` | one acquisition, its readers, and the user's edits |
| `SnapshotView` | `snapshot/{changes,test_overlay,...}.rs` | what is computed from two trees |
| `ReportGate` | `application/report_gate.rs` and helpers | reports against a delivery and a baseline |
| `AgentHost` | `application/agent_host*.rs` | a session of attempts and checks |
| `AgentContract` | `application/agent_contract.rs`, `domain/agent_host.rs` | the obligations of the agent |
| `RuleFile` | `config/rule_management.rs`, `rule_authoring.rs` | writers with and without the lock; every edit |
| `RuleCatalog` | `config/catalog.rs`, `project_inventory.rs` | standards, lifecycle matrix, discovery |
| `RuleExpression` | `domain/operator*.rs`, `adapters/operators*.rs` | checker and evaluator of both languages |
| `CustomRule` | `config/custom_validation.rs`, `adapters/custom_rules*` | project rules from validation to findings |
| `ConfigLayout` | `config/validation.rs` and helpers | what an accepted configuration satisfies |
| `TestLineage` | `adapters/{entity_changes,provenance,git_trailers}.rs` | whose a test is |
| `PilotPlan`, `PilotMetrics` | `domain/pilot/*` | the trial that is sealed; its figures |
| `Judgment`, `JudgmentPilot` | `application/judgment.rs`, `judgment/pilot.rs` | one judgment among edits; the summary of many |
| `DecisionEnvelope` | `domain/decision_envelope.rs`, `feedback.rs` | what an envelope says and who accepts it |
| `MC*` | | constants and inputs of the small instances |

An operator with a suffix, such as `AcquireLock_Shared`, is a plausible bug in the definition it is named after; no
specification uses it. It documents what the properties would catch.

**`PolicyStore`.** `lock`, `head`, `blobs` and `indexes` are the files; `pc` and
`txn` are a process inside `Store::transaction`: the store it opened, the blob it
stages, the index it edits. `AcquireLock` is the `create_new` of `write.lock`,
`ReadHead` the open, `StageBlob`/`PersistBlob` and `PointTo` what the closure may
do, `FinishOperation`..`WriteIndex`, `CompareHead`, `PublishHead` the commit, and
`Release`/`Abort` the drop of the lock. `Error` lets any step fail, `Crash` kills
a process between two steps and leaves its lock, `RecoverLock` is the operator
who removes it. `Lock::drop` ignores an error of the removal: a transaction that
ends so leaves what a crash leaves, and is counted as one. A temporary file that was written but not renamed is invisible,
so it is not a step. Every index has the same size: the loop that finds the
width of an index's own byte count is left out.

**`CheckRun`.** `phase` walks through `check_and_snapshot` and `check_prepared`:
capture, prepare, materialise, one `Record` for each planned id (refused,
prevented by a prerequisite or by the environment, or run by kind), then the
revalidations in the order of the code, output bounds, coverage, gate. The world
acts between any two of these: it moves the source, changes the environment,
revokes the active policy, alters the signed inputs, expires a record, writes to
the workspace. Every event is counted and `MaxEvents` bounds them. `window`
records the states of the world since the last check ended, which is what
`EvidenceIsCurrent` is about: what cannot be taken back (a write to the inputs, a
revocation, an expired proof) had not happened when it begins, and what can be put
back was read later, in one order. A check on signed provenance may be skipped, as
`commit-message` is when there are no commits; of a skipped check only the bytes of
its record are compared again. What a rule or command finds is any outcome in the
constants; an inspection of the workspace may fail at will, and a failure latches.

**`GuardedCommand`.** Verify, run, verify, on files a descendant of this or an
earlier command may still write to. `InputGuard` inspects in three steps a file
(metadata, bytes, metadata). A stamp is the change time, fresh for every write:
a write and its restoration within one tick of the file system's clock is the
one thing the code cannot see, and neither does the model. `ProcessCapture` has
bytes as counts; the child and its descendants fork, leave the group, close or
fill their streams, read the input and exit as they like. Missing environment
variables (answered before anything else) and everything in `execute_checked`
that refuses to start are the disjunct of `EndCommand` in which nothing ran.

**`PolicyLifecycle`.** A transaction is one action, which `Transactional`
justifies; what a command does before it opens its transaction (preparing a
validation, verifying an approval, deriving a rollback) is an action of its own
with a session's `job` in between, and a session may die. A revision's reference
is its position in `revisions`. Candidate ids are event counts. Left out:
timestamps and expiry (a check run authenticates the active policy again with
its own clock, and `CheckRun` has that), reasons and evidence texts, the state
`draft`, which no code path creates. Suite and evaluator identities are part of
the version of the trust file. That `complete_evaluation` reads the reports again
is in `ValidationRun` instead.

**`ValidationRun`.** A case is a task of the `JoinSet` (`Spawn`, `Join`); inside,
its two check runs take permits at the same time when they share a snapshot and
in turn when they do not. What a check run yields is whether its gate was
complete, how many protected expectations it missed and its content digest.
`Stop` aborts what still runs, but work handed to blocking threads goes on and
keeps its memory (`Left`, `Pairs`). The rechecks, the conclusion and the
transaction that publishes it follow. A mismatch of the paired environments is
over-approximated: a pair may fail once anything changed.

**`WorkerMap`, `PlanBuild`, `GateLoop`** follow their functions loop by loop. The
three `map` functions differ in their thresholds and names only; `Inline` is the
serial branch. The planner's closure comes to one entry a step (`Close`, with
`visit` the entry that is next), because within a round an entry sees what the
entries before it added. `Acyclic` and `Reachable` are declarative; that the sweeps
of the layout validation find exactly the cycles is checked in `ConfigLayout`.

**`SnapshotCapture`.** A path has a few versions; a version of the configuration
stands for a policy, of the rule file for the document it cites. `phase` walks
through `acquisition::prepare` (`BootstrapTree`, `BootstrapConfig`, `BootstrapRules`),
the capture (`ResolveBase` .. `Capture`, with the worktree's readers one file
operation a step: `Stat`, `Read`, cancelled by the first that fails) and the policy
read again from what was captured (`Load`), which `ValidConfig` and
`SameExclusions` accept or refuse. The user edits, stages and moves references
between any two steps; `held` records what a path held since the listing. A
captured worktree is not the tree of one moment, and nothing says it is: each
file was there, at its own moment. The two policy readings are what makes it
count. Readers are one step per read system call; a free one takes the first of
the names that wait (`pending`, in the order of the listing). Budgets (`MaxFile`,
`MaxBytes`) are sums of versions' sizes.

**`AgentHost`.** A command the host starts is a `before`, a `during`, in which the
evaluator captures the tree it finds, and an `after`; a projection captures once
more when it is built (`Settle`). The deadline, the user, a build and the file
system act between any two. `ledger` and `index` are the ledger
in memory and on disk, so that `Die` leaves what was saved. A tree is a code, a
task and whether the cited source is as adopted. The evaluator's identity is
compared around each command, and a report names the one that made it; a projection
names none, so one made by an executable that was exchanged and put back in time may
name any tree of `Claims` and say anything of it (`Captured`, `Settle`). `judge` notes
who made the last report. A write of the ledger that fails is left out: at the end
of a session it leaves on disk what was saved last, as `Die` does.

**`RuleFile`.** Writers lock, read, compare and rename; an editor takes no lock. The
code compares the file again before the rename, and an editor may come between the
two: `alien` marks these writers, and `NothingOverwritten` is what holds of all
others. A lock left by a crash stays until it is removed. The edits themselves are
operators (`Candidate`), checked on their own.

**`Judgment`.** The run reads the report, the policy, the input and the provider's
executable, asks, looks at all of them again and records (`Recheck`, in the order of
the code; a name is read first and looked at again later, by different phases). An edit makes a version
that was not there before; an edit undone in between is invisible to the code, whose
identities are of contents.

**The computations** (`SnapshotView`, `ReportGate`, `AgentContract`, `PilotPlan`,
`PilotMetrics`, `JudgmentPilot`, `DecisionEnvelope`, `RuleCatalog`,
`RuleExpression`, `CustomRule`, `ConfigLayout`, `TestLineage`) are operators without
state, each with a declarative reference at its end. Digests are the values they
digest; names and texts are members of small sets; probabilities are tenths. In
`RuleExpression` the budgets of steps, bytes, entities and seconds are left out, in
`ConfigLayout` texts, globs, digests, limits of counts and example references, in
`CustomRule` the findings of a rule that is blocked. When two tests with equal
bodies both move, which of them counts as added depends on the order of the head;
the code does not call that ambiguous, and `TestLineage` has it. An envelope of a
feedback is bound to its omission counts by its identity only, and no reader compares
a check's source digest, nor a view's snapshot with that of the report it was
rendered from: `DecisionEnvelope` has inputs edited there and sealed again. An
analyzer's executables are given at each look of a baseline run (identified, probed
or run, confirmed, verified), so that one may be exchanged in between and put back.

**`Parts`** puts the parts that no process of the other runs contains side by side:
a behaviour is about one `part`, either a machine (the worker map, the gate, the
planner, the candidate configuration, a judgment), which then runs as its module
says, or a computation, for which it chooses one input. What a computation may be
asked, and in which circumstances, are constants (`InputsTo`, `Settings`), of which
`InputsAreTyped` assumes what the readers of reports, records, contracts, manifests
and runs yield: fields that are there, lists with positions, finite sets, natural
numbers. Properties of single computations are joined by subject (`EvidenceRight`,
`PilotsRight`); they name promises of the modules, which are stated and commented
there. `MCInputs` and `MCParts` say what is asked in the run, and `MCParts` adds the
computations whose modules have recursive operators, with the step properties
`InputsRight` and `RulesRight`.

## The runs

| Run | Instance | Question |
| --- | --- | --- |
| `store_safety` | two writers, two objects of lengths 1 and 2, one error, one crash, sequence at most 2 | exclusion, exact accounting, refinement of `PolicyArchive`, the lock is released |
| `store_recovery` | the same, with locks removed from live writers; objects and bytes are the binding limits | what still resolves and loads |
| `check_watched` | two commands or two signed checks, coverage, two events of the world | evidence is of the present (no tainted command counts; under a pass the inputs, the policy and the proofs held together after the last check, and records, source and environment were looked at after that, in this order), coverage is final, verdicts only fall |
| `check_mixed` | a delivery-scoped rule next to each kind of check, one event | a pass is earned, prerequisites ran |
| `lifecycle_promotion` | two policies, one candidate, two sessions, two trust versions, seven events | evidence fits what it is about and promotions are earned, frozen means frozen, refinement of `ActivePolicy` |
| `lifecycle_succession` | from a first promotion: two candidates, three signatures, twelve events | the active policy is the one of record and loads, no replay |
| `validation` | one case of each kind, three permits, two pairs of trees | budget, complete answers, no deadlock |
| `validation_apart` | the two policies acquire different files | a pass can be approved: it cannot, see below |
| `commands` | two commands, one descendant, one file with two writes, pipes of one byte, two bytes of input, a limit of one byte | unaltered, whole, no stragglers, no deadlock |
| `acquisition` | four paths of up to three versions, two commits, two readers, two edits, seven pairs of selection and policy source | captured under its policy, files were there, every acquisition is decided |
| `agent_host` | five codes, two tasks, three attempts, three events of the outside | complete is earned, attempts are announced and bounded, sessions end |
| `parts` | five items in three chunks; two results; three plan entries; two writers, one editor and two edits of the configuration; a judgment with two edits; 28 computations over small sets of inputs | the promises of each |

Why the bounds are enough to be interesting. Two writers are what a race over one
lock needs, two commits what a lost update needs, and in each store run another
limit binds. Three plan entries have chains, diamonds less one edge, and cycles of
two and three. Two checks are a prerequisite and its dependent; each pair of kinds
occurs. Two events are a change and its reversal, or one before and one during
the revalidations. The lifecycle needs about six events for a promotion, so one
run starts from an empty archive and one from an archive in which one happened
(`PromotedInit`, a state the first run's specification reaches); twelve events
allow a second promotion and rollbacks in both directions. That run may stop when
its events are used up, hence no deadlock check there. Five items in three chunks
give chunks of unequal length. Two edits during an acquisition are a change and its
reversal, or one of the policy and one of a file; two readers race over the byte
budget, which two large files exceed. Three attempts reach both the end of the
budget and the end for want of progress (two stagnant ones), and three events let
the outside change the tree, exchange the evaluator and put it back. Two writers,
one of whom dies, and an editor meet at each step of the other. The inputs of the
computations differ from an accepted one in one or two parts, or are all there are
of a small size: trees of up to four paths, issue lists of up to three,
expressions of up to three levels with at most nine nodes (`MaxDepth`, `MaxNodes`)
over collections longer than the evaluator keeps unsorted (`FewValues`), at most
two rule files and three categories (`MaxRuleFiles`, `MaxCategories`). The numbers
of edits and the passing of time are bounded by `MaxEdits`, `MaxJudgmentEdits`,
`MaxTime` and `MaxEvents`. Three permits for two parallel cases make a case
wait for the other's permits; a tree budget of four makes the memory bind. A pipe
of one byte is full as soon as anything waits in it, two writes are a write and
its restoration, and the second command meets what the first left behind. Sessions
and, where no liveness is checked, writers are symmetric.

Fairness. `store_safety`: a process inside a transaction takes its next step
(weak), and finishes its operation although it could go on for ever (strong: the
closures of the code put a bounded number of records). Nothing is assumed of
starting, erring, crashing or recovering. `validation`: the scheduler and each case go on, because check runs end by
their own deadlines; no timeout of the validation has to fire. `commands`: the
runtime polls the capture and the guard, and processes complete a write when there
is room and exit in the end; no deadline has to come, so the absence of a deadlock
is not the deadline's merit. `acquisition`: the program goes on, and its deadline does
come, because a reader may wait for a file system for ever. `agent_host`: every
command the host starts ends, by itself or by its own deadline, so the host goes
on; it need not be killed and nothing outside needs to happen. An acquisition and a
session that ended stay ended, hence no deadlock check in these two; in `parts`
what has ended stutters, and a deadlock is an error.

## What is proved

With TLAPS, for every value of the constants allowed by the named assumptions. Each
invariant that does not hold for its own sake is strengthened to one that is
inductive; what has to be added is the argument, and is told here.

**`PolicyStore_proofs`**, from `StoreAssumption`:

- `TypeCorrect`: no counter leaves its range, for any number of writers.
- `Resolves`: every index on disk names only what is on disk, also when locks of
  live writers are removed. By itself that is not inductive: a writer publishes
  the index it holds in memory, so `ResolveInv` says the same of every
  transaction in progress (`TxnResolves`).
- `Exact` and `Loadable`, under the same liberal recovery: an index counts the
  objects and bytes it commits to, and is written only within the limits a reader
  enforces. `CountInv` says so of the indexes in memory too. A sum of sizes is
  stated as the number of bytes (`BytesOf`, pairs of an object and a position), so
  that the facts about finite sets apply to it.
- `Exclusion` and `Advances`, when only abandoned locks are removed
  (`LiveRecovery = FALSE`): one writer inside, and HEAD moves to an index that
  extends its predecessor by one. `FollowInv` relates the index a transaction
  edits, label by label, to the one it read; `HeadInv` says that HEAD still is the
  one it read.
- `Refines`: under the same assumption each step is a commit of `PolicyArchive` or
  changes nothing a reader sees. It uses these three invariants.

**`CheckRun_proofs`**, from `RunAssumption`, for any plans the planner can make, any
reports of the checks and any number of moves of the world:

- `PassIsPresent` needs to know of every phase what the reads before it
  established (`Established`), as facts about the window: the states the world has
  been in since the last check ended, in order (`WindowOpen`). What cannot be taken
  back and is not there when it is looked at was not there in the first of them
  (`Precedes`); what can be put back is known of the moment of its own read, and the
  reads are in one order (`RecordsRead`, `SourceRead`, `EnvRead`). A read that fails
  adds a reason to distrust the evaluation, and so does losing the records, which is
  why `Established` is claimed only while there is none. A signed check is covered
  when its proof was in force as the last check ended, or its result is not a
  completed one (`Lapsed`); it completes only on records that were loaded
  (`SignedRight`). A command that ended on altered inputs is the check that is due,
  so no earlier result has its id (`Listed`).
- `VerdictsFall`: each later stage maps a result to one no better (`Weakens`).
- `PassIsEarned`: a result is at each moment what its check reported, settled for the
  scope, or has lost its verdict (`Accounted`), and what a check reported is
  consistent with its diagnostics (`Sane`).
- `PrerequisitesHold`: the results of a prerequisite when its dependent was started
  are gone from the state by the end, so the invariant speaks of what was reported
  (`Supported`): settled results without counting diagnostics stay so (`Clean`).
- `CoverageHolds`: nothing touches the results after coverage was written, and until
  then no result has its id (`Covered`).

**`GuardedCommand_proofs`**, from the assumptions of its parts: `WholeEvidence` and
`NobodyLeft`. Of the capture, each byte written is captured or in its pipe, and a
stream whose end was seen has neither (`BytesAccounted`), so an orderly end saw
everything (`OkIsWhole`); between commands the group is empty (`GroupIsGone`). Of
the guard, stamps and notes never run ahead of a file (`StampsBehind`), so a file that
was altered when the command ended is ahead of its stamp whenever the inspection
that follows notes it, whoever writes during that inspection (`AlteredShows`).

**`PolicyLifecycle_proofs`**, from `LifecycleAssumption`:

- `EvidenceIsEarned`. Every check a command makes is in an earlier step than its
  transaction, so the invariant says what a session may still rely on (`JobRight`):
  a prepared validation points to the revision it was made for, and the candidate an
  approval is about to promote is still approved by that very approval or in a state
  no candidate leaves again (`Held`). The latter survives the steps of others because
  candidates only move forward (`Grows`). Then what a promotion rests on (`EarnedBy`)
  is true when its event is appended and, as nothing published or signed is taken
  back, remains so.
- `RecordKept`: at most one candidate is active, the holder (`Holders`); the active
  policy agrees with its approval, revision and evaluation (`Rests`); and every
  authorization in the history has been used up, as its candidate has left review or
  as it names the event it followed (`Used`).
- `FrozenStays`: the action property, step by step.
- `ChangesAreAuthorized`: the lifecycle implements `ActivePolicy`. The refinement
  numbers the abstract log by the positions of the history, so that a step that
  appends another event is a stutter. That no authorization works twice is `Used`.
  `StepsAuthorized` is the same as an action property.

**`ValidationRun_proofs`**, from `ValidationAssumption`, for any suite, permits and
memory:

- `BudgetKept`: the cases that are pending or still hold trees (`Busy`) are never
  more than `ParallelCases`. The two differ only after a `Stop`, when aborted work
  goes on in blocking threads, and then nothing is started any more (`Budgeted`); two
  sides that capture for themselves take turns (`Turn`), so a case has at most two
  trees.
- `AnswersComplete`: a case whose reports were archived is complete for good
  (`Archived`), each recheck that found nothing speaks of what was stale when the
  cases had ended (`Rechecked`), so a conclusion is about all cases (`Answered`).

**`SnapshotCapture_proofs`**, from `CaptureAssumption`, for any trees, edits and number
of readers:

- `PolicyOfTheCapture`: everything listed, waiting, being read or read is kept by
  the exclusions the capture was started with (`AllKept`), and those agree with the
  loaded policy's on acceptance (`Agreed`).
- `FilesOfTheCapture`: each name is with one reader, waits, or was read (`Distinct`);
  a path nobody touched is excluded, read or still going to be (`There`). The byte
  budget is claimed by several readers in any order, between an inspection and a
  read; the invariant gives every path a share of the total that covers what was
  read of it or is going to be (`Claimed`), and a reader that exceeded the
  total carries the error that ends the capture.

**`AgentHost_proofs`**: `CompletionEarned` and `AgentsAnnounced`. Before a session ends
neither copy of the ledger may claim anything (`Running`); while an agent may run,
the copy on disk is the one in memory (`Announced`), so a death of the host loses
no attempt; and from the injection of the contract to the delivery, what is to be
delivered is an export of a tree that the pinned evaluator itself passed, and a
projection of that evaluator says what it saw (`Deliverable`).

**`Parts_proofs`**, from `PlansAreSound`, `PoliciesAreTyped`, `InputsAreTyped`,
`NoneIsApart` and `ChunksAssumption`, which TLC evaluates in the run `parts`:
`EvidenceIsRight`, `PlanIsRight`, `PilotsAreRight`, `ActsAreRight` and
`CandidatesAreKept`, the properties of that run for any machines, any inputs and any
settings. A behaviour of `PartsSpec` is, in the variables of each machine, a behaviour
of that machine (`PartsAreParts`), and whatever was chosen is an input of the part
(`Asked`), so these five rest on one theorem for each machine or computation:

- The worker map, from `ChunksAssumption` (what `slice::chunks` guarantees):
  `TypeCorrect`, `Complete`, `SameError`, `Joined`. The inductive invariant adds to
  the types what each worker has collected (`Prefix`), where it stopped (`Stopped`),
  which workers exist (`Born`), that what was merged is a prefix of the input
  (`Merging`), and the shape of an answer (`Answered`); `SameError` needs that all
  items before the failing one of the first failing chunk succeeded.
- The gate: `LoopIsGate` and `PassIsEvidence`. The loop invariant (`Accumulated`)
  gives the accumulators as functions of the results before the current one.
- The rule file: `NoLostEdit` and `TextsKept`, from the fact that the lock file names
  the one writer that edits (`LockNamesEditor`). A crash leaves the lock, and no
  writer passes it.
- The planner, from `ConfigsWellFormed` (no unknown ids): `OrderIsRight`,
  `NothingLost` and `ReachIsRun`. That as many rounds as entries suffice is a
  counting argument (`Growing`): with r rounds left, what is gathered is closed, or
  it has more than Count - r members, or as many and an entry this round has yet to
  visit adds one. That a plan is refused only for a disabled prerequisite is the
  acyclic order of what remains (`StuckRight`).
- The judgment, from `PoliciesWellTyped` (what parsing a policy yields):
  `JudgmentBound` and `OnlyAttention`. Versions only grow, so when the version noted
  before the question (`SeenBefore`) is found again after the answer, what the
  provider was given in between (`UsedBetween`) was that version too.
- The obligations of an agent (`ObligationTyped`), and any lists of checks and
  results: `DeliveryIsCovered`.
- Report gates. `NewGrew`: the modes go through the issues in the order of the tool,
  and an issue is new when more of its identity precede it than the baseline still
  excuses; that this makes exactly as many new as the totals grew is a count of the
  issues that have at least so many of their own before them. `RatchetGrows` and
  `UncoveredSeen` (one missed line keeps the hits below the total, for any finite
  number of records). `OwnBaseline` goes from the digests that are compared to the
  executables that ran: one that is the same before and after was the same in
  between, or was put back, and an issue that is not new has a predecessor to be
  credited against (`ExcusedByTheBase`, a count again).
- The plan of a pilot, for any manifest and observations as parsing yields them
  (`ManifestTyped`, `ObservationsTyped`): `SealBalances` (each task under both
  workflows with every model, never one ahead by two; of two alternating workflows,
  by the least position at which the balance would be lost), `SealFreezes` (what was
  sealed stays as it was in all that is valid afterwards) and `MatchedIsFollowed` (the
  code compares starts of neighbours only; that all starts are in order follows by
  the least distance of two that are not).
- The figures of a pilot (`RunTyped`). `AcceptanceIsEarned` goes back from the
  thresholds to each run: a rate with nothing unknown and all of its denominator has
  every member (`Within`, `Accepted`), and as long as the stop rule did not speak, one
  of the last attempts made progress. `LossIsNeverABenefit`: what a lost run does not
  say is unknown, never absent. `PercentileIsRight` is the arithmetic of the rounded
  position in a sorted list.
- The summary of a judgment pilot, for any runs and labels as parsing yields them
  (`RetainedTyped`, `LabelsTyped`) and any order of drawing: `SummaryIsIndependent`
  (a hurried decision is audited whenever there was one, as the share is rounded up and
  the decision drawn first is within it) and `FiguresAreOfTheSame` (the answers kept for
  a share are those with fewer more confident ones than the share allows, so they are
  as many as that, ties included; a sum of squares is zero when each of them is).
- Envelopes. `EnvelopeSaysWhatItCarries`, `ViewsAreHonest` and `CompactionKeeps`, for
  any number of checks and diagnostics: sums and fillings over the checks are
  recursions along a list, which exist and unfold for a list of any length
  (`Recursion`, by the least position at which they would not), and what is filled
  diagnostic by diagnostic is the same whether or not the rest of a check is given
  up once none of it fits.

Only model-checked, and why:

- all liveness: the prover has neither fairness nor ENABLED;
- `InputsRight` and `RulesRight`: their modules declare recursive operators
  (`ConfigLayout`, `RuleExpression`, `SnapshotView`) or filter, sort and search
  sequences of sequences (`TestLineage`, `RuleCatalog`, `CustomRule`), and what such a
  definition computes for every input needs an induction over data, which this
  prover does not do;
- that the cycle check of the layout validation finds exactly the cycles
  (`OrderRight` of `ConfigLayout`), for the same reason.

## What the checks found

`validation_apart`. A candidate whose exclusions differ from the baseline's is
validated on two snapshots. `application/policy_validation.rs:438-449` then
records a digest of the pair as the case's snapshot; the validation can pass, and
`tests/policy_validation.rs` expects it to. `complete_evaluation`
(`config/policy_promotion.rs:174`), which approval and promotion call, requires
each report's own content digest to be the recorded one. No digest of a pair is,
so such a candidate passes and can never be promoted, which
`docs/en/02-reference/04-policy-task-and-signed-evidence.md:13-17` describes as
supported. The run shows a passing validation that is not reproducible.

Observations that are not findings, because nothing in the repository says
otherwise or the wording is only loose:

- A prerequisite that passed when its dependents ran may be blocked at
  revalidation; the dependents keep their passes. When the prerequisite is
  optional the gate still passes.
- Of the checks on a signed record only completed ones are revalidated
  (`application/provenance.rs:99-101`); one that was skipped stays skipped when the
  record expires before the gate.
- A projection names no evaluator (`application/agent_host_contract.rs:52-107`), so an
  executable exchanged for the time of a projection and put back goes unnoticed; the
  verdict a delivery rests on is the pinned evaluator's all the same.
- An optional check of error severity whose diagnostics exceed the output budget
  becomes blocked, where its failure would have failed the gate.
- An optional command that times out leaves the gate passing;
  `docs/en/02-reference/05-exit-codes-and-resource-limits.md:14-16` lists a timeout
  without the restriction to required checks that `domain/gate.rs:62` and its unit
  test have.

## What is not modelled

Parts of the program that no module stands for, and why:

- *Input budgets* (`config/yaml_budget.rs`, `yaml_scalar_work.rs`,
  `adapters/reports/json_budget.rs`, `domain/xml_budget.rs`): counters of one thread
  over one document; what matters to the rest is that reading may be refused.
- *Built-in rules, syntax and report parsers*: matching of file contents, with no
  state that outlives a call. What they find is an outcome in `CheckRun`, an issue in
  `ReportGate`, a test or comment in `CustomRule`.
- *Identity of executables and environment* (`runner/identity.rs`, `env/mod.rs`):
  hashes; that they change is an event of `CheckRun` and `AgentHost`.
- *Special commands* (compatibility, test effectiveness, Python installations,
  project reports): commands with prepared inputs; their settings are in
  `ConfigLayout`, their outcome is that of any command.
- *Retained evidence, acceptance and guidance* (`config/policy_{artifacts,acceptance,
  effectiveness,active}.rs`): sequential comparisons of digests and counts over
  what `PolicyStore` keeps. The expiry of approvals is left out of the lifecycle with
  them; `CheckRun` has it as a change of the policy inputs.
- *Command line, rendering, network, doctor, discovery, initialisation, self-check*:
  parsing, formatting, I/O of a remote service, read-only projections.

Also left out: Windows's share-mode handles and job objects (the Unix paths are
modelled); clock values, except where one is compared (a timeout or an expiry is an
event that may happen whenever the code looks); the commit history of a merge
request.

## Plan

Built in this order: the archive, because everything is stored in it; the gate,
planner and check run, because they make the decision; the policy lifecycle,
validation, and the concurrency underneath; then what goes into a check run
(acquisition, configuration, rules, reports) and what comes out of it (envelope,
agent host, judgment, pilot). What remains:

1. `CheckRun` over `SnapshotCapture`, whose acceptance is its abstract `Capture`,
   as a refinement.
2. Expiry and clock in the lifecycle, and retained artifacts.
3. The special commands with their prepared inputs.

Theorems worth adding: every invariant that a run checks is proved, and so are the
action properties but `InputsRight` and `RulesRight`; what is left is the refinement
of item 1, and the operators of `RuleFile` that edit a configuration (`EditIsLocal`).

## Running

In this directory, with the TLA+ tools, the community modules and TLAPS at hand:

    tlc -workers 2 -config PolicyStore_safety.cfg MCPolicyStore
    tlapm PolicyStore_proofs.tla

`PROJECT.json` lists which module goes with which configuration, the source lines
each definition stands for, and the hazards each property is about.

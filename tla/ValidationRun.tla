--------------------------- MODULE ValidationRun ---------------------------
(***************************************************************************)
(* One validation of a candidate policy (application/policy_validation.rs, *)
(* domain/policy_evaluation.rs): each case of the protected suite is run   *)
(* under the baseline and under the candidate policy, several cases at a   *)
(* time within a budget of snapshot trees and of permits, until all are    *)
(* done or one invalidates the run; then the inputs are checked again, the *)
(* conclusion is drawn and published.  PolicyLifecycle has the revision    *)
(* that is frozen meanwhile, CheckRun what one check run does.             *)
(*                                                                         *)
(* What a check run yields is whether its gate was complete and, when both *)
(* runs of a case were, an observation of each: how many of the protected  *)
(* expectations it missed and the content digest of its snapshot.          *)
(***************************************************************************)
EXTENDS Naturals, Sequences, FiniteSets, FiniteSetsExt

CONSTANTS
  Suite,            \* the kind of each case
  Jobs,             \* permits: check runs at a time
  Trees,            \* snapshot trees the memory budget holds
  MinImprovements,  \* cases that must improve
  Sharings,         \* BOOLEANs: whether both policies acquire the same files
  Contents,         \* content digests, the whole snapshot's among them
  Whole,
  Mismatches,       \* numbers of missed expectations
  World             \* bound: the inputs that may change during the run

Sides == {"baseline", "candidate"}
Kinds == {"replay", "held_out", "anchor"}
Cases == DOMAIN Suite

ASSUME ValidationAssumption ==
  /\ Suite \in Seq(Kinds) /\ \A k \in Kinds : \E c \in Cases : Suite[c] = k
  /\ Jobs \in Nat \ {0} /\ Trees \in Nat /\ Trees >= 2
  /\ MinImprovements \in 0..Len(Suite)
  /\ Sharings \subseteq BOOLEAN /\ Whole \in Contents
  /\ Mismatches \subseteq Nat /\ 0 \in Mismatches
  /\ World \subseteq {"inputs", "environment", "evaluator"}

VARIABLES
  shared,     \* one snapshot serves both sides of a case
  stage,      \* "run", "archive", the three rechecks, "decide", "publish", "done"
  next,       \* the case to start next
  pending,    \* started cases whose result was not taken yet
  at,         \* how far each case is
  side,       \* how far each check run of a case is
  seen,       \* what each check run observed
  archiving,  \* the case whose reports are being archived, or 0
  collected,  \* cases with archived reports
  invalid,    \* why the evaluation does not count
  changed,    \* inputs that differ from what was loaded
  stale,      \* what had changed when the last case ended
  conclusion, \* what is decided
  outcome     \* what is published, or "error"

case    == <<at, side, seen>>
loop    == <<next, pending, archiving, collected>>
result  == <<conclusion, outcome>>
vars    == <<shared, stage, case, loop, invalid, changed, stale, result>>

Unseen == [s \in Sides |-> [mismatches |-> 0, content |-> Whole]]

Init ==
  /\ shared \in Sharings /\ stage = "run"
  /\ next = 1 /\ pending = {} /\ archiving = 0 /\ collected = {}
  /\ at = [c \in Cases |-> "new"]
  /\ side = [c \in Cases |-> [s \in Sides |-> "none"]]
  /\ seen = [c \in Cases |-> Unseen]
  /\ invalid = {} /\ changed = {} /\ stale = {}
  /\ conclusion = "none" /\ outcome = "none"

-----------------------------------------------------------------------------
(* One case, as a task of its own.                                          *)

\* Plausible bug: the tree budget is not looked at.
ParallelCases_Jobs == Jobs

\* A case has at most two trees at a time.
ParallelCases == Min({Jobs, Trees \div 2})

CanSpawn == next \in Cases /\ Cardinality(pending) < ParallelCases

Ended == {"complete", "partial", "failed"}

\* Both sides wait for permits; when they capture for themselves the candidate
\* waits for the baseline to end first.
Both == [s \in Sides |-> "waiting"]
Turns == [baseline |-> "waiting", candidate |-> "none"]

Spawn ==
  /\ stage = "run" /\ invalid = {} /\ CanSpawn
  /\ next' = next + 1 /\ pending' = pending \cup {next}
  /\ at' = [at EXCEPT ![next] = IF shared THEN "capture" ELSE "pair"]
  /\ side' = [side EXCEPT ![next] = IF shared THEN @ ELSE Turns]
  /\ UNCHANGED <<shared, stage, seen, archiving, collected, invalid, changed, stale, result>>

CaptureShared(c) ==
  /\ at[c] = "capture"
  /\ at' = [at EXCEPT ![c] = "pair"] /\ side' = [side EXCEPT ![c] = Both]
  /\ UNCHANGED <<shared, stage, seen, loop, invalid, changed, stale, result>>

\* Plausible bug: a permit is never given back.
Permits_Leaked == {p \in Cases \X Sides : side[p[1]][p[2]] \notin {"none", "waiting"}}

\* The check runs that hold a permit; a task that is dropped gives its up.
Permits == {p \in Cases \X Sides : at[p[1]] = "pair" /\ side[p[1]][p[2]] = "running"}

Start(c, s) ==
  /\ at[c] = "pair" /\ side[c][s] = "waiting" /\ Cardinality(Permits) < Jobs
  /\ side' = [side EXCEPT ![c][s] = "running"]
  /\ UNCHANGED <<shared, stage, at, seen, loop, invalid, changed, stale, result>>

\* The check run ends with a complete gate, without one, or in an error of the
\* plan, the capture or the run; the other side may take its turn.
FinishSide(c, s) ==
  /\ at[c] = "pair" /\ side[c][s] = "running"
  /\ \E how \in {"complete", "partial", "failed"} :
       side' = [side EXCEPT ![c] = [t \in Sides |-> IF t = s THEN how
                                                  ELSE IF @[t] = "none" THEN "waiting" ELSE @[t]]]
  /\ UNCHANGED <<shared, stage, at, seen, loop, invalid, changed, stale, result>>

Complete(c) == \A s \in Sides : side[c][s] = "complete"

\* What complete reports say; two policies that acquire the same files have one
\* snapshot, others may have got the same content all the same.
Observe(c) ==
  IF Complete(c)
    THEN \E k, l \in Contents, m, n \in Mismatches :
           /\ shared => k = Whole /\ l = Whole
           /\ seen' = [seen EXCEPT ![c] = [baseline  |-> [mismatches |-> m, content |-> k],
                                           candidate |-> [mismatches |-> n, content |-> l]]]
    ELSE UNCHANGED seen

\* What is left of a case whose task is gone: work it handed to blocking threads
\* goes on and keeps its trees.
Left(c) == [s \in Sides |-> IF side[c][s] = "running" THEN "running" ELSE "none"]

\* Both sides are awaited, whatever the first one did.  Their reports have to
\* bind one environment and one evaluator.
Pair(c) ==
  /\ at[c] = "pair" /\ side[c]["baseline"] \in Ended /\ side[c]["candidate"] \in Ended
  /\ \/ /\ \A s \in Sides : side[c][s] # "failed"
        /\ at' = [at EXCEPT ![c] = "ready"] /\ Observe(c) /\ UNCHANGED side
     \/ /\ changed # {} \/ \E s \in Sides : side[c][s] = "failed"
        /\ at' = [at EXCEPT ![c] = "failed"] /\ side' = [side EXCEPT ![c] = Left(c)]
        /\ UNCHANGED seen
  /\ UNCHANGED <<shared, stage, loop, invalid, changed, stale, result>>

\* The shared capture fails, or the case's own deadline drops its task.
LoseCase(c) ==
  /\ \/ at[c] \in {"capture", "pair"} /\ at' = [at EXCEPT ![c] = "late"]
     \/ at[c] = "capture" /\ at' = [at EXCEPT ![c] = "failed"]
  /\ side' = [side EXCEPT ![c] = Left(c)]
  /\ UNCHANGED <<shared, stage, seen, loop, invalid, changed, stale, result>>

-----------------------------------------------------------------------------
(* The scheduler.                                                           *)

Waiting == stage = "run" /\ invalid = {} /\ pending # {} /\ ~CanSpawn

\* An incomplete case invalidates the run, but its reports are archived.
Join(c) ==
  /\ Waiting /\ c \in pending
  /\ \/ /\ at[c] = "ready" /\ stage' = "archive" /\ archiving' = c
        /\ invalid' = IF Complete(c) THEN {} ELSE {"cases"}
     \/ /\ at[c] \in {"failed", "late"} /\ invalid' = {"cases"} /\ UNCHANGED <<stage, archiving>>
  /\ pending' = pending \ {c}
  /\ UNCHANGED <<shared, case, next, collected, changed, stale, result>>

\* One transaction of the policy archive, which may be refused.
Archive ==
  /\ stage = "archive" /\ stage' = "run" /\ archiving' = 0
  /\ \/ collected' = collected \cup {archiving} /\ UNCHANGED invalid
     \/ invalid' = invalid \cup {"cases"} /\ UNCHANGED collected
  /\ UNCHANGED <<shared, case, next, pending, changed, stale, result>>

TotalTimeout ==
  /\ Waiting /\ invalid' = {"cases"}
  /\ UNCHANGED <<shared, stage, case, loop, changed, stale, result>>

\* All cases are in, or the run is invalid: what still runs is aborted and what
\* was not collected counts as never observed.
Stop ==
  /\ stage = "run" /\ (invalid # {} \/ (next \notin Cases /\ pending = {}))
  /\ at' = [c \in Cases |-> IF c \in pending THEN "aborted" ELSE at[c]]
  /\ side' = [c \in Cases |-> IF c \in collected THEN side[c] ELSE Left(c)]
  /\ seen' = [c \in Cases |-> IF c \in collected THEN seen[c] ELSE Unseen]
  /\ pending' = {} /\ stage' = "inputs" /\ stale' = changed
  /\ UNCHANGED <<shared, next, archiving, collected, invalid, changed, result>>

After == [inputs |-> "environment", environment |-> "evaluator", evaluator |-> "decide"]

\* Each input is compared with what was loaded; the comparison may fail.
Recheck ==
  /\ stage \in DOMAIN After /\ stage' = After[stage]
  /\ \/ stage \notin changed /\ UNCHANGED invalid
     \/ invalid' = invalid \cup {stage}
  /\ UNCHANGED <<shared, case, loop, changed, stale, result>>

-----------------------------------------------------------------------------
(* The conclusion.                                                          *)

Improved(c) == seen[c]["candidate"].mismatches < seen[c]["baseline"].mismatches

\* Plausible bug: reasons to distrust the run are not gaps.
Judge_Trusting(cases, reasons) ==
  IF cases # Cases \/ \E c \in cases : ~Complete(c) THEN "incomplete"
  ELSE IF \/ \E c \in cases : seen[c]["candidate"].mismatches > 0
          \/ Cardinality({c \in cases : Improved(c)}) < MinImprovements
  THEN "block" ELSE "pass"

\* decide: a case that was not collected stands there as an incomplete one.
Judge(cases, reasons) ==
  IF reasons # {} \/ cases # Cases \/ \E c \in cases : ~Complete(c) THEN "incomplete"
  ELSE IF \/ \E c \in cases : seen[c]["candidate"].mismatches > 0
          \/ Cardinality({c \in cases : Improved(c)}) < MinImprovements
  THEN "block" ELSE "pass"

\* A candidate with more rules than the suite allows is blocked all the same.
Decide ==
  /\ stage = "decide" /\ stage' = "publish"
  /\ \E verdict \in {Judge(collected, invalid)}, grown \in BOOLEAN :
       conclusion' = IF grown /\ verdict # "incomplete" THEN "block" ELSE verdict
  /\ UNCHANGED <<shared, case, loop, invalid, changed, stale, outcome>>

\* The transaction that ends the validation, which may be refused; the
\* candidate then stays frozen until somebody abandons it.
Publish ==
  /\ stage = "publish" /\ stage' = "done"
  /\ outcome' \in {conclusion, "error"}
  /\ UNCHANGED <<shared, case, loop, invalid, changed, stale, conclusion>>

\* The environment cannot be read at all.
Bail ==
  /\ stage = "environment" /\ stage' = "done" /\ outcome' = "error"
  /\ UNCHANGED <<shared, case, loop, invalid, changed, stale, conclusion>>

Change(x) ==
  /\ stage # "done" /\ x \notin changed /\ changed' = changed \cup {x}
  /\ UNCHANGED <<shared, stage, case, loop, invalid, stale, result>>

Done == stage = "done" /\ UNCHANGED vars

Work(c) ==
  \/ CaptureShared(c) \/ Pair(c)
  \/ \E s \in Sides : Start(c, s) \/ FinishSide(c, s)

Schedule == Spawn \/ (\E c \in Cases : Join(c)) \/ Archive \/ Stop \/ Recheck \/ Decide \/ Publish

Next ==
  \/ Schedule \/ TotalTimeout \/ Bail \/ Done
  \/ \E c \in Cases : Work(c) \/ LoseCase(c)
  \/ \E x \in World : Change(x)

Spec == Init /\ [][Next]_vars

\* Check runs end by their own deadlines and the scheduler never waits for
\* anything else; no timeout of the validation has to fire.
Fairness == WF_vars(Schedule) /\ \A c \in Cases : WF_vars(Work(c))

FairSpec == Spec /\ Fairness

-----------------------------------------------------------------------------
\* The pairs of trees held: one for each case once its shared capture began, or
\* one for each side that captures for itself; also when its task was dropped.
Pairs ==
  IF shared THEN {c \in Cases : at[c] \in {"capture", "pair", "late", "aborted"}} \X {"both"}
  ELSE {p \in Cases \X Sides : /\ at[p[1]] \in {"pair", "late", "aborted"}
                               /\ side[p[1]][p[2]] = "running"}

\* The memory the suite authorises holds for all cases together, the work that
\* timed-out cases left behind included, and so do the permits.
WithinBudget ==
  /\ 2 * Cardinality(Pairs) <= Trees
  /\ Cardinality(Permits) <= Jobs

\* What is published as an answer, good or bad, is about the whole suite: every
\* case ran to a complete pair whose reports are archived, nothing was given up
\* on the way, and what was authorised was still in place after the last case.
AnswersAreComplete ==
  outcome \in {"pass", "block"} =>
    /\ \A c \in Cases : at[c] = "ready" /\ Complete(c)
    /\ collected = Cases /\ invalid = {} /\ stale = {}

\* The snapshot digest an evaluated case records: the one of both reports, or a
\* digest of the pair of them.
Digest(c) ==
  LET of == [s \in Sides |-> seen[c][s].content]
  IN IF of["baseline"] = of["candidate"] THEN of["baseline"] ELSE of

\* complete_evaluation, which re-derives a passing run from the archived
\* reports before it may be approved and again before it is promoted.
Reproduces ==
  /\ Judge(collected, {}) = "pass"
  /\ \A c \in Cases, s \in Sides : c \in collected /\ seen[c][s].content = Digest(c)

\* A candidate that passed its validation can be approved and promoted on it
\* (docs/en/02-reference/04-policy-task-and-signed-evidence.md:13-17).
PassCanBeApproved == outcome = "pass" => Reproduces

\* Permits and turns never block each other for good: without any timeout of
\* the validation itself, it ends.
SchedulingEnds == <>(stage = "done")
=============================================================================

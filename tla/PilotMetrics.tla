---------------------------- MODULE PilotMetrics ----------------------------
(***************************************************************************)
(* What a pilot trial measures: what each assigned run counts as, the      *)
(* rates and distributions over the runs, whether the attempts kept to     *)
(* their budget and stop rule, what the trial cost, and what it takes to   *)
(* accept it.                                                              *)
(*                                                                         *)
(* A run is [workflow, eligible, excluded, start, issues, required,        *)
(* observed, attempts, review]: `start' the debt of its initial report     *)
(* (None when that is not verified), `required' a number of checks.  An    *)
(* attempt is [status, full, elapsed, changed, report, cost], its report   *)
(* None, Unbound when it is not bound to the run, or [decision, complete,  *)
(* pending, done, debt, found]: `found' the diagnostics [key, issue,       *)
(* label], a label None until a human reviewed it.                         *)
(***************************************************************************)
EXTENDS Naturals, Sequences, FiniteSets, TLC, FiniteSetsExt, Functions

CONSTANTS None, Unbound

Ended == {"failed", "timed_out", "abandoned"}
SumOf(f(_), S) == MapThenSumSet(f, S)
ElapsedTo(run, n) == SumOf(LAMBDA i : run.attempts[i].elapsed, 1..n)
Within(p, run, n) == n <= p.attempts /\ ElapsedTo(run, n) <= p.seconds
-----------------------------------------------------------------------------
(* rows::row: TRUE, FALSE or None for what is not known *)

\* Plausible bug: an accepted repair may be the snapshot it started from.
State_Unchanged(p, run, n) ==
    LET t == run.attempts[n] IN
    CASE t.report = Unbound -> None
      [] t.report = None -> IF t.status \in Ended THEN FALSE ELSE None
      [] OTHER -> /\ t.status = "completed" /\ t.full /\ Within(p, run, n)
                  /\ t.report.decision = "pass" /\ ~t.report.pending

State(p, run, n) ==
    LET t == run.attempts[n] IN
    CASE t.report = Unbound -> None
      [] t.report = None -> IF t.status \in Ended THEN FALSE ELSE None
      [] OTHER -> /\ t.status = "completed" /\ t.full /\ Within(p, run, n)
                  /\ t.report.decision = "pass" /\ ~t.report.pending
                  /\ run.eligible => t.changed

States(p, run) == [n \in DOMAIN run.attempts |-> State(p, run, n)]
Gap(run, n) == LET t == run.attempts[n] IN
    t.report = Unbound \/ (t.report = None /\ t.status \notin Ended)
Gaps(run) == {n \in DOMAIN run.attempts : Gap(run, n)}
HasGap(run) == run.attempts = <<>> \/ Gaps(run) # {}
Reads(run) == {n \in DOMAIN run.attempts : run.attempts[n].report \notin {None, Unbound}}

\* An incomplete early attempt is not hidden by a later successful one.
Accepted(p, run) ==
    CASE run.excluded -> FALSE
      [] ~run.excluded /\ HasGap(run) -> None
      [] OTHER -> State(p, run, Len(run.attempts))
First(p, run) ==
    CASE run.excluded -> FALSE
      [] ~run.excluded /\ run.attempts = <<>> -> None
      [] OTHER -> State(p, run, 1)
AnySuccess(p, run) ==
    LET states == Range(States(p, run)) IN
    CASE run.excluded -> FALSE
      [] ~run.excluded /\ TRUE \in states -> TRUE
      [] OTHER -> IF states = {} \/ None \in states THEN None ELSE FALSE

\* Checks: done, planned and not known, over every attempt of a run
Done(run) == SumOf(LAMBDA n : run.attempts[n].report.done, Reads(run))
Planned(run) == IF run.attempts = <<>> THEN run.required
                ELSE Len(run.attempts) * run.required
UnknownChecks(run) == IF run.attempts = <<>> THEN run.required
                      ELSE Cardinality(Gaps(run)) * run.required

Found(run) == UNION {run.attempts[n].report.found : n \in Reads(run)}
-----------------------------------------------------------------------------
(* metrics: rates and distributions, known only when nothing is missing *)

Rate(n, d, unknown) == [numerator |-> n, denominator |-> d, unknown |-> unknown]
Known(rate) == rate.denominator > 0 /\ rate.unknown = 0

\* The answer of each of some runs is TRUE, FALSE or None.
Success(answer) ==
    LET asked == DOMAIN answer IN
    Rate(Cardinality({i \in asked : answer[i] = TRUE}), Cardinality(asked),
         Cardinality({i \in asked : answer[i] = None}))

\* The value at 95 %, and twice the median
CeilDiv(a, b) == (a + b - 1) \div b
P95(sorted) == sorted[CeilDiv(95 * Len(sorted), 100)]
TwiceMedian(sorted) ==
    LET n == Len(sorted) IN
    IF n % 2 = 1 THEN 2 * sorted[n \div 2 + 1] ELSE sorted[n \div 2] + sorted[n \div 2 + 1]

\* The metrics of the runs S of one cohort; a run's issues are named after its task
IssuesOf(runs, S) == UNION {IF runs[i].issues = None THEN {} ELSE runs[i].issues : i \in S}
TruthUnknown(runs, S) == {i \in S : runs[i].issues = None \/ HasGap(runs[i])}
FoundIn(runs, S) == UNION {Found(runs[i]) : i \in S}
Reviewed(found) == {d \in found : d.label # None}

Detection(runs, S) ==
    LET found == FoundIn(runs, S)
        confirmed == {d.issue : d \in {e \in found : e.label = "confirmed"}}
    IN Rate(Cardinality(IssuesOf(runs, S) \cap confirmed), Cardinality(IssuesOf(runs, S)),
            Cardinality(TruthUnknown(runs, S)) + Cardinality(found) - Cardinality(Reviewed(found)))
FalsePositive(runs, S) ==
    LET reviewed == Reviewed(FoundIn(runs, S))
    IN Rate(Cardinality({d \in reviewed : d.label = "false_positive"}), Cardinality(reviewed), 0)
ReviewFraction(runs, S) ==
    Rate(Cardinality(Reviewed(FoundIn(runs, S))), Cardinality(FoundIn(runs, S)), 0)
Repair(p, runs, S) ==
    Success([i \in {j \in S : runs[j].eligible} |-> Accepted(p, runs[i])])
FirstSuccess(p, runs, S) == Success([i \in S |-> First(p, runs[i])])
Completion(runs, S) ==
    Rate(SumOf(LAMBDA i : Done(runs[i]), S), SumOf(LAMBDA i : Planned(runs[i]), S),
         SumOf(LAMBDA i : UnknownChecks(runs[i]), S))
-----------------------------------------------------------------------------
(* attempt_audit::audit *)

Verified(t) ==
    /\ t.report \notin {None, Unbound}
    /\ t.full /\ t.report.complete /\ ~t.report.pending /\ t.report.decision # "incomplete"

\* The debt before an attempt is that of the last verified report.
Before(run, n) ==
    LET seen == {k \in 1..n-1 : Verified(run.attempts[k])} IN
    IF seen = {} THEN run.start ELSE run.attempts[Max(seen)].report.debt

Progress(run, n) ==
    /\ Before(run, n) # None /\ Verified(run.attempts[n])
    /\ run.attempts[n].report.debt \subseteq Before(run, n)
    /\ run.attempts[n].report.debt # Before(run, n)

\* Attempts without progress that end with the n-th
Stagnant(run) ==
    LET s[n \in 0..Len(run.attempts)] ==
          IF n = 0 \/ Progress(run, n) THEN 0 ELSE s[n-1] + 1
    IN s

StopAfter(p, run) ==
    LET late == {n \in DOMAIN run.attempts : Stagnant(run)[n] >= p.stagnation} IN
    IF late = {} THEN None ELSE Min(late)

Deviates(p, run) ==
    \/ \E n \in DOMAIN run.attempts : ~Within(p, run, n)
    \/ StopAfter(p, run) # None /\ StopAfter(p, run) < Len(run.attempts)

EvidenceComplete(run) ==
    /\ run.start # None /\ run.attempts # <<>>
    /\ \A n \in DOMAIN run.attempts :
           \/ Verified(run.attempts[n])
           \/ run.attempts[n].report = None /\ run.attempts[n].status \in Ended

Audit(p, runs) ==
    CASE \E run \in Range(runs) : Deviates(p, run) -> "deviated"
      [] OTHER -> IF \A run \in Range(runs) : EvidenceComplete(run) THEN "matched"
                  ELSE "incomplete"
-----------------------------------------------------------------------------
(* budget::assess, comparison::compare, acceptance::threshold_assessment *)

\* An attempt's cost is None, or [model, infra] with either None; a human's
\* time is charged per started unit.
Charge(p, ms) == CeilDiv(ms * p.hourly, p.hour)
KnownCost(t) ==
    IF t.cost = None THEN 0
    ELSE (IF t.cost.model = None THEN 0 ELSE t.cost.model)
         + (IF t.cost.infra = None THEN 0 ELSE t.cost.infra)
CostUnknown(t) == t.cost = None \/ t.cost.model = None \/ t.cost.infra = None

RunCost(p, run) ==
    SumOf(LAMBDA n : KnownCost(run.attempts[n]), DOMAIN run.attempts)
    + (IF run.review = None THEN 0 ELSE Charge(p, run.review))
InputsUnknown(run) ==
    \/ ~run.observed \/ run.review = None \/ run.attempts = <<>>
    \/ \E n \in DOMAIN run.attempts : CostUnknown(run.attempts[n])

Budget(p, runs) ==
    LET total == SumOf(LAMBDA i : RunCost(p, runs[i]), DOMAIN runs) IN
    CASE total > p.cap -> "not_met"
      [] OTHER -> IF runs = <<>> \/ \E run \in Range(runs) : InputsUnknown(run)
                  THEN "unknown" ELSE "met"

\* The median review time against that of the other workflow, as a reduction
Times(runs) == SortSeq([i \in DOMAIN runs |-> runs[i].review], <)
Compare(p, runs) ==
    LET of(w) == SelectSeq(runs, LAMBDA r : r.workflow = w)
        q == of("qualitygate")
        e == of("existing_tools")
        known == \A run \in Range(runs) : run.review # None
        matched == \A task \in {run.task : run \in Range(runs)} :
            Cardinality({i \in DOMAIN q : q[i].task = task}) =
                Cardinality({i \in DOMAIN e : e[i].task = task})
    IN IF q = <<>> THEN <<>>
       ELSE << [matched |-> IF matched /\ e # <<>> THEN TRUE ELSE FALSE,
                review |-> IF ~matched \/ e = <<>> \/ ~known \/ TwiceMedian(Times(e)) = 0 THEN None
                           ELSE 100 * TwiceMedian(Times(q)) <=
                                (100 - p.reduction) * TwiceMedian(Times(e))] >>

Threshold(rate, percent, minimum) ==
    CASE ~Known(rate) -> "unknown"
      [] Known(rate) ->
           IF IF minimum THEN 100 * rate.numerator >= percent * rate.denominator
              ELSE 100 * rate.numerator <= percent * rate.denominator
           THEN "met" ELSE "not_met"

AllTrue(values) ==
    CASE FALSE \in Range(values) -> "not_met"
      [] OTHER -> IF values = <<>> \/ None \in Range(values) THEN "unknown" ELSE "met"

Candidates(runs) == {i \in DOMAIN runs : runs[i].workflow = "qualitygate"}

\* The rates are of the candidates, the comparison with the other workflow
Checks(p, runs) ==
    LET S == Candidates(runs)
        c == Compare(p, runs)
    IN {Threshold(Detection(runs, S), p.detection, TRUE),
        Threshold(FalsePositive(runs, S), p.falsePositive, FALSE),
        Threshold(Repair(p, runs, S), p.repair, TRUE),
        Threshold(Completion(runs, S), p.completion, TRUE),
        Threshold(ReviewFraction(runs, S), p.review, TRUE),
        AllTrue([i \in DOMAIN c |-> c[i].matched]), AllTrue([i \in DOMAIN c |-> c[i].review]),
        Budget(p, runs)}

Outcome(p, runs) ==
    LET checks == IF Candidates(runs) = {} THEN {"unknown"} ELSE Checks(p, runs)
    IN CASE "not_met" \in checks -> "not_met"
         [] OTHER -> IF "unknown" \in checks THEN "unknown" ELSE "met"

\* summarize: evidence is complete when no run has a gap and every report the
\* stop rule needs is verified; a violated stop rule is a limitation.
Complete(runs) ==
    /\ runs # <<>>
    /\ \A run \in Range(runs) : ~HasGap(run) /\ EvidenceComplete(run)
Ready(p, runs) == Complete(runs) /\ Audit(p, runs) = "matched"
MayBeAccepted(p, runs) == Ready(p, runs) /\ Outcome(p, runs) = "met"
-----------------------------------------------------------------------------
(* What the metrics promise *)

\* A trial that may be accepted earned it run by run: no run that was assigned
\* is missing or excused, every repair counted as accepted is one changed
\* snapshot that passed everything within the budget, nothing was tried again
\* after the stop rule said stop, every diagnostic that could hide an undetected
\* issue was reviewed, and the whole cost is known (rows.rs:69-233,
\* metrics.rs:92-247, acceptance.rs:134-311).
AcceptedIsEarned(p, runs) ==
    MayBeAccepted(p, runs) =>
        \A run \in Range(runs) :
            /\ run.observed /\ run.attempts # <<>> /\ run.review # None
            /\ \A n \in DOMAIN run.attempts :
                   /\ Within(p, run, n) /\ run.attempts[n].cost # None
                   /\ n > p.stagnation =>
                          \E k \in (n - p.stagnation)..(n - 1) : Progress(run, k)
            /\ run.workflow = "qualitygate" =>
                   /\ run.issues # None /\ \A d \in Found(run) : d.label # None
                   /\ (p.repair = 100 /\ run.eligible) =>
                          /\ ~run.excluded
                          /\ LET t == run.attempts[Len(run.attempts)] IN
                             /\ t.status = "completed" /\ t.full /\ t.changed
                             /\ t.report.decision = "pass" /\ ~t.report.pending

\* A run that is lost, and one whose last attempt loses its report
Lost(run) == [run EXCEPT !.observed = FALSE, !.attempts = <<>>, !.review = None]
LastReportLost(attempts) ==
    [attempts EXCEPT ![Len(attempts)] = [@ EXCEPT !.report = Unbound]]
Cut(run) == [run EXCEPT !.attempts = LastReportLost(@)]

\* More knowledge never improves what was already known to be bad, and less
\* never turns a trial acceptable: a run that is lost, or whose last attempt
\* loses its report, leaves every rate's denominator as it was and can not
\* make the trial acceptable (metrics.rs:27-34, 173-186; rows.rs:193-214).
LossIsNoBenefit(p, runs, i) ==
    LET lost == [runs EXCEPT ![i] = Lost(@)]
        cut == [runs EXCEPT ![i] = Cut(@)]
        denominators(rs) ==
            <<Repair(p, rs, DOMAIN rs).denominator, FirstSuccess(p, rs, DOMAIN rs).denominator,
              Detection(rs, DOMAIN rs).denominator>>
    IN /\ denominators(lost) = denominators(runs) /\ denominators(cut) = denominators(runs)
       /\ ~MayBeAccepted(p, lost)
       /\ runs[i].attempts # <<>> => ~MayBeAccepted(p, cut)

\* The p95 is the smallest value that 95 % of the values do not exceed.
PercentileRight(sorted) ==
    LET upTo(v) == Cardinality({i \in DOMAIN sorted : sorted[i] <= v})
    IN sorted # <<>> =>
        /\ 100 * upTo(P95(sorted)) >= 95 * Len(sorted)
        /\ \A v \in Range(sorted) : v < P95(sorted) => 100 * upTo(v) < 95 * Len(sorted)
=============================================================================

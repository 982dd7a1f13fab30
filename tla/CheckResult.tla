---------------------------- MODULE CheckResult ----------------------------
(***************************************************************************)
(* The evidence record of one check (domain/report.rs), the four ways the  *)
(* program writes it, and the decision the gate takes over a list of them  *)
(* (domain/gate.rs).  A diagnostic is an opaque value; a reason is present *)
(* or absent.  Nothing here has state: CheckRun and GateLoop use it.       *)
(***************************************************************************)
EXTENDS Naturals, Sequences, FiniteSets

CONSTANT Diagnostics    \* the violations checks can report

Severities == {"error", "warning"}

\* What the execution of a check came to.
Statuses == {"not_run", "completed", "blocked", "tool_error", "timed_out"}

Gaps == {"blocked", "tool_error", "timed_out"}

Verdicts == {"pass", "fail", "skipped"}

\* A check result; verdict is "none" until there is one.
Result(Ids) ==
  [id            : Ids,
   required      : BOOLEAN,
   severity      : Severities,
   applicability : {"unknown", "applicable", "not_applicable"},
   status        : Statuses,
   reason        : BOOLEAN,
   verdict       : Verdicts \cup {"none"},
   diagnostics   : Seq(Diagnostics)]

\* CheckResult::pending: an unexecuted result.
Pending(id, required, severity) ==
  [id |-> id, required |-> required, severity |-> severity,
   applicability |-> "unknown", status |-> "not_run", reason |-> TRUE,
   verdict |-> "none", diagnostics |-> <<>>]

\* CheckResult::complete: the verdict is what the diagnostics say.
Complete(r) ==
  [r EXCEPT !.applicability = "applicable", !.status = "completed", !.reason = FALSE,
            !.verdict = IF r.diagnostics = <<>> THEN "pass" ELSE "fail"]

\* CheckResult::block: a gap takes the verdict away and keeps the diagnostics.
Block(r, status) == [r EXCEPT !.status = status, !.reason = TRUE, !.verdict = "none"]

\* CheckResult::skip: a positive explanation of non-applicability.
Skip(r) ==
  [r EXCEPT !.applicability = "not_applicable", !.status = "not_run", !.reason = TRUE,
            !.verdict = "skipped"]

-----------------------------------------------------------------------------
ValidCompleted(r) ==
  r.applicability = "applicable" /\ r.status = "completed" /\ r.verdict \in {"pass", "fail"}

ValidSkip(r) ==
  /\ r.applicability = "not_applicable" /\ r.status = "not_run" /\ r.verdict = "skipped"
  /\ r.reason /\ r.diagnostics = <<>>

Usable(r) == ValidCompleted(r) \/ ValidSkip(r)

Inconsistent(r) ==
  \/ r.verdict # "none" /\ ~Usable(r)
  \/ r.verdict = "pass" /\ r.diagnostics # <<>>

\* A violation that fails the gate.
Violation(r) == ValidCompleted(r) /\ r.verdict = "fail" /\ r.severity = "error"

\* The ids that have a result.
Reported(results) == {results[i].id : i \in DOMAIN results}

\* Some reason not to trust the evidence as a whole.
HasGap(results, required, invalid) ==
  \/ invalid # {}
  \/ \E i \in DOMAIN results : \/ Inconsistent(results[i])
                               \/ /\ results[i].required \/ results[i].id \in required
                                  /\ ~Usable(results[i])
                               \/ \E j \in 1..(i - 1) : results[j].id = results[i].id
  \/ ~(required \subseteq Reported(results))
  \/ \A i \in DOMAIN results : ~ValidCompleted(results[i])

\* gate::evaluate, the decision it comes to.
Decide(results, required, invalid) ==
  IF HasGap(results, required, invalid) THEN "incomplete"
  ELSE IF \E i \in DOMAIN results : Violation(results[i]) THEN "fail"
  ELSE "pass"

Decisions == {"pass", "fail", "incomplete"}
=============================================================================

-------------------------- MODULE DecisionEnvelope --------------------------
(***************************************************************************)
(* The typed decision a command prints, and the bounded view of a report   *)
(* that an agent is given: what each says of the payload it carries, what  *)
(* a reader of the envelope accepts, and what is left out to fit a size.   *)
(*                                                                         *)
(* A digest is the value digested (Bad when it is no digest), so that an   *)
(* envelope is [id, body] with `id' equal to the body it identifies.  A    *)
(* payload has a field `is'; a report is [is, gate: [decision, complete,   *)
(* blockers], content, verified, task, policy: [reference, digest, trust], *)
(* evaluator, checks, pending, acceptance, delivery, verification], the    *)
(* last a set of verified shapes; a check is [severity, status,            *)
(* applicable, verdict, diagnostics, artifacts], its diagnostics the sizes *)
(* of their views.                                                         *)
(***************************************************************************)
EXTENDS Naturals, Sequences, FiniteSets, FiniteSetsExt, Functions

CONSTANTS None, Bad

Kinds == {"check", "rule_validation", "selfcheck", "feedback", "policy_transition", "pilot"}
Keys == {"findings", "execution_gaps", "blockers", "pending_delivery_checks", "acceptance"}

Route(decision, warnings, pending, gaps) ==
    CASE decision = "incomplete" -> "inspect_gap"
      [] decision = "fail" -> "block"
      [] OTHER -> IF warnings + pending + gaps > 0 THEN "review" ELSE "accept"
-----------------------------------------------------------------------------
(* The feedback view: feedback::render *)

Completed(check) ==
    check.status = "completed" /\ check.applicable /\ check.verdict \in {"pass", "fail"}
IsGap(check) == ~Completed(check) /\ check.verdict # "skipped"
Selected(check, severity) == severity \in {None, check.severity}

\* How many diagnostics the checks at some positions have
Findings(checks, S) ==
    LET upTo[n \in 0..Len(checks)] ==
          IF n = 0 THEN 0
          ELSE upTo[n - 1] + (IF n \in S THEN Len(checks[n].diagnostics) ELSE 0)
    IN upTo[Len(checks)]

\* An item is shown when what is left of its section's share holds it.
Show(state, size) ==
    IF size <= state.left THEN [left |-> state.left - size, shown |-> state.shown + 1] ELSE state

\* Plausible bug: a check is given up when its largest diagnostic has no room.
ShowCheck_Largest(state, check) ==
    LET after[n \in 0..Len(check.diagnostics)] ==
          IF n = 0 THEN state
          ELSE IF after[n - 1].left < Max(Range(check.diagnostics)) THEN after[n - 1]
          ELSE Show(after[n - 1], check.diagnostics[n])
    IN after[Len(check.diagnostics)]

\* A check's diagnostics are given up when not even its smallest would fit.
ShowCheck(state, check) ==
    LET after[n \in 0..Len(check.diagnostics)] ==
          IF n = 0 THEN state
          ELSE IF after[n - 1].left < Min(Range(check.diagnostics)) THEN after[n - 1]
          ELSE Show(after[n - 1], check.diagnostics[n])
    IN after[Len(check.diagnostics)]

\* One check after the other, from what is left by those before it
Shown(checks, S, share) ==
    LET upTo[n \in 0..Len(checks)] ==
          IF n = 0 THEN [left |-> share, shown |-> 0]
          ELSE IF n \in S THEN ShowCheck(upTo[n - 1], checks[n]) ELSE upTo[n - 1]
    IN upTo[Len(checks)].shown

Section(total, filtered, shown) ==
    [total |-> total, filtered |-> filtered, items |-> shown,
     omitted |-> total - filtered - shown]

CompletedOf(checks) == {n \in DOMAIN checks : Completed(checks[n])}
ChosenOf(checks, severity) == {n \in CompletedOf(checks) : Selected(checks[n], severity)}

\* Every section has a fifth of the room; all items but findings have size one.
Render(report, room, severity) ==
    LET share == room \div 5
        plain(n) == Section(n, 0, Min({n, share}))
        done == CompletedOf(report.checks)
        chosen == ChosenOf(report.checks, severity)
        gaps == Cardinality({n \in DOMAIN report.checks : IsGap(report.checks[n])})
        sections ==
            [k \in Keys |->
                CASE k = "findings" ->
                       Section(Findings(report.checks, done), Findings(report.checks, done \ chosen),
                               Shown(report.checks, chosen, share))
                  [] k = "execution_gaps" -> plain(gaps)
                  [] k = "blockers" -> plain(report.gate.blockers)
                  [] k = "pending_delivery_checks" -> plain(report.pending)
                  [] k = "acceptance" -> plain(report.acceptance)]
    IN [is |-> "agent_feedback", decision |-> report.gate.decision,
        complete |-> report.gate.complete,
        snapshot |-> IF report.verified # None THEN report.verified ELSE report.content,
        full |-> report, sections |-> sections,
        truncated |-> \E k \in Keys : sections[k].omitted > 0,
        ready |-> report.gate.decision = "pass" /\ report.gate.complete
                  /\ report.delivery /\ report.pending = 0]
-----------------------------------------------------------------------------
(* The envelopes *)

Warnings(report) ==
    Findings(report.checks, {n \in DOMAIN report.checks : report.checks[n].severity = "warning"})
GapCount(report) ==
    Cardinality({n \in DOMAIN report.checks :
        report.checks[n].status # "completed" /\ report.checks[n].verdict # "skipped"})
Artifacts(report) ==
    LET upTo[n \in 0..Len(report.checks)] ==
          IF n = 0 THEN <<>> ELSE upTo[n - 1] \o report.checks[n].artifacts
    IN upTo[Len(report.checks)]
Snapshot(report) == IF report.verified # None THEN report.verified ELSE report.content

Sealed(body) == [id |-> body, body |-> body]
Routed(outcome, warnings, pending, gaps) ==
    [outcome |-> outcome, route |-> Route(outcome, warnings, pending, gaps),
     warnings |-> warnings, pending |-> pending, gaps |-> gaps]

FromCheck(report) ==
    Sealed([kind |-> "check", snapshot |-> Snapshot(report), task |-> report.task,
            source |-> None, policy |-> report.policy, evaluator |-> report.evaluator,
            complete |-> report.gate.complete, omissions |-> {},
            gate |-> Routed(report.gate.decision, Warnings(report), report.pending,
                            GapCount(report)),
            evidence |-> Artifacts(report), verification |-> report.verification,
            payload |-> report])

\* A rule validation's payload is [is, decision, complete, source, policy], a
\* self-check's has `errors' too.
GapsOf(payload) ==
    IF payload.is = "selfcheck" THEN payload.errors ELSE IF payload.complete THEN 0 ELSE 1
FromValidation(payload) ==
    Sealed([kind |-> payload.is, snapshot |-> None, task |-> None, source |-> payload.source,
            policy |-> payload.policy, evaluator |-> None,
            complete |-> payload.complete, omissions |-> {},
            gate |-> Routed(payload.decision, 0, 0, GapsOf(payload)),
            evidence |-> <<>>, verification |-> {}, payload |-> payload])

FeedbackFits(report, view) ==
    view.decision = report.gate.decision /\ view.complete = report.gate.complete
Omitted(view) == {k \in Keys : view.sections[k].omitted > 0}
FromFeedback(report, view) ==
    Sealed([FromCheck(report).body EXCEPT
                !.kind = "feedback", !.evidence = <<view.full>>,
                !.omissions = Omitted(view), !.payload = view])

\* A metadata payload is [is, fields, evidence, omissions]: `fields' a function
\* on the names present.
Field(payload, name, default) ==
    IF payload.is = "metadata" /\ name \in DOMAIN payload.fields
    THEN payload.fields[name] ELSE default
EvidenceOf(payload) == IF payload.is = "metadata" THEN payload.evidence ELSE <<>>
OmissionsOf(payload) == IF payload.is = "metadata" THEN payload.omissions ELSE {}
PolicyOf(payload) ==
    [reference |-> Field(payload, "policy_ref", None), digest |-> Field(payload, "policy_digest", None),
     trust |-> Field(payload, "review_trust", "local_candidate")]

FromMetadata(kind, payload, code) ==
    LET outcome == <<"pass", "fail", "incomplete">>[code + 1] IN
    Sealed([kind |-> kind, snapshot |-> Field(payload, "snapshot_digest", None),
            task |-> Field(payload, "task_digest", None), source |-> payload,
            policy |-> PolicyOf(payload),
            evaluator |-> Field(payload, "evaluator_digest", None),
            complete |-> outcome # "incomplete", omissions |-> OmissionsOf(payload),
            gate |-> Routed(outcome, 0, 0, IF outcome = "incomplete" THEN 1 ELSE 0),
            evidence |-> EvidenceOf(payload), verification |-> {}, payload |-> payload])

\* compact_feedback: the previews are dropped and counted as omitted.
Emptied(s) == [s EXCEPT !.items = 0, !.omitted = s.omitted + s.items]
Compact(envelope) ==
    LET view == envelope.body.payload
        sections == [k \in Keys |-> Emptied(view.sections[k])]
        dropped == {k \in Keys : view.sections[k].items > 0}
        shapes == IF envelope.body.verification = {} THEN {} ELSE {"verification_shapes"}
    IN Sealed([envelope.body EXCEPT
           !.payload = [view EXCEPT !.sections = sections, !.truncated = TRUE],
           !.omissions = envelope.body.omissions \cup dropped \cup shapes, !.verification = {}])
-----------------------------------------------------------------------------
(* validate *)

MatchesView(b) ==
    /\ b.payload.is = "agent_feedback"
    /\ b.payload.decision = b.gate.outcome /\ b.payload.complete = b.complete
    /\ b.evidence = <<b.payload.full>> /\ b.snapshot = b.payload.snapshot
    /\ b.omissions \cap Keys = Omitted(b.payload)

\* Plausible bug: a check's warnings are not counted again.
MatchesReport_AnyWarnings(b) ==
    /\ b.payload.is = "report"
    /\ LET own == FromCheck(b.payload).body
       IN [own EXCEPT !.source = b.source, !.gate = b.gate] = b /\ b.gate.outcome = own.gate.outcome
          /\ b.gate.gaps = own.gate.gaps /\ b.gate.pending = own.gate.pending

\* Everything is compared with the report but the source digest, of which it has none.
MatchesReport(b) ==
    b.payload.is = "report" /\ [FromCheck(b.payload).body EXCEPT !.source = b.source] = b

MatchesValidation(b) ==
    /\ b.payload.is = b.kind
    /\ b.gate.outcome = b.payload.decision /\ b.complete = b.payload.complete
    /\ b.source = b.payload.source /\ b.gate.gaps = GapsOf(b.payload)
    /\ IF b.kind = "rule_validation" THEN b.policy = b.payload.policy
       ELSE b.policy.digest = b.payload.policy.digest

MatchesMetadata(b) ==
    /\ b.source = b.payload /\ b.policy = PolicyOf(b.payload)
    /\ b.snapshot = Field(b.payload, "snapshot_digest", None)
    /\ b.task = Field(b.payload, "task_digest", None)
    /\ b.evaluator = Field(b.payload, "evaluator_digest", None)
    /\ b.omissions = OmissionsOf(b.payload) /\ b.evidence = EvidenceOf(b.payload)

Valid(envelope) ==
    LET b == envelope.body IN
    /\ b.snapshot # Bad /\ b.task # Bad /\ b.source # Bad /\ b.policy.digest # Bad
    /\ b.evaluator # Bad /\ \A i \in DOMAIN b.evidence : b.evidence[i] # Bad
    /\ envelope.id = b
    /\ b.complete = (b.gate.outcome # "incomplete")
    /\ b.gate.route = Route(b.gate.outcome, b.gate.warnings, b.gate.pending, b.gate.gaps)
    /\ CASE b.kind = "check" -> MatchesReport(b)
         [] b.kind = "feedback" -> MatchesView(b)
         [] b.kind \in {"rule_validation", "selfcheck"} -> MatchesValidation(b)
         [] OTHER -> MatchesMetadata(b)
-----------------------------------------------------------------------------
(* What the envelope promises *)

\* The outcome that what is carried states itself; metadata states none.
Stated(b) ==
    CASE b.kind = "check" -> b.payload.gate.decision
      [] b.kind \in {"feedback", "rule_validation", "selfcheck"} -> b.payload.decision
      [] OTHER -> b.gate.outcome

\* An envelope that a reader accepts says of its payload what the payload says,
\* whatever was edited and sealed again: the same outcome, complete exactly when
\* that is not incomplete, and `accept' only for a pass in which nothing was left
\* to look at.  A check's differs from the one its report makes in the source at
\* most; a view's names the snapshot the view names, which is that of the report
\* it was rendered from unless the view itself was edited (decision_envelope.rs:384-561).
SaysWhatItCarries(envelope) ==
    LET b == envelope.body IN
    Valid(envelope) =>
        /\ Stated(b) = b.gate.outcome
        /\ b.complete = (b.gate.outcome # "incomplete")
        /\ b.gate.route = "accept" =>
               b.gate.outcome = "pass" /\ b.gate.gaps = 0 /\ b.gate.pending = 0
        /\ b.kind = "check" =>
               envelope = Sealed([FromCheck(b.payload).body EXCEPT !.source = b.source])
        /\ b.kind = "feedback" =>
               /\ b.evidence = <<b.payload.full>>
               /\ b.payload.snapshot = Snapshot(b.payload.full) => b.snapshot = Snapshot(b.payload.full)
        /\ (b.kind = "check" /\ b.gate.route = "accept") =>
               \A c \in Range(b.payload.checks) :
                   /\ c.status = "completed" \/ c.verdict = "skipped"
                   /\ c.severity = "warning" => c.diagnostics = <<>>

\* What is shown when every diagnostic that still fits is
Fill(state, check) ==
    LET after[n \in 0..Len(check.diagnostics)] ==
          IF n = 0 THEN state ELSE Show(after[n - 1], check.diagnostics[n])
    IN after[Len(check.diagnostics)]
Filled(checks, S, share) ==
    LET upTo[n \in 0..Len(checks)] ==
          IF n = 0 THEN [left |-> share, shown |-> 0]
          ELSE IF n \in S THEN Fill(upTo[n - 1], checks[n]) ELSE upTo[n - 1]
    IN upTo[Len(checks)].shown

\* A view counts everything it leaves out and never counts below zero, and a
\* section that is flooded takes nothing from another; giving up a check's
\* findings early loses none that would have fitted (feedback.rs:94-272).
ViewIsHonest(report, room, severity) ==
    LET view == Render(report, room, severity)
        chosen == ChosenOf(report.checks, severity)
    IN /\ \A k \in Keys :
              /\ view.sections[k].omitted \in Nat
              /\ view.sections[k].total =
                     view.sections[k].filtered + view.sections[k].items + view.sections[k].omitted
       /\ view.sections["findings"].items = Filled(report.checks, chosen, room \div 5)
       /\ (\E n \in DOMAIN report.checks : IsGap(report.checks[n])) /\ room >= 5 =>
              view.sections["execution_gaps"].items > 0
       /\ view.ready => Route(report.gate.decision, 0, report.pending, 0) = "accept"

\* Making room changes what is shown, never what is decided: the envelope of a
\* view stays acceptable with the same gate, subject and evidence, and what was
\* shown before is counted as omitted (decision_envelope.rs:318-382).
CompactionKeepsTheDecision(report, room, severity) ==
    LET view == Render(report, room, severity)
        full == FromFeedback(report, view)
        small == Compact(full)
    IN FeedbackFits(report, view) /\ Valid(full) =>
        /\ Valid(small) /\ Compact(small) = small
        /\ small.body.gate = full.body.gate /\ small.body.gate = FromCheck(report).body.gate
        /\ small.body.snapshot = full.body.snapshot /\ small.body.evidence = full.body.evidence
        /\ \A k \in Keys :
               LET s == small.body.payload.sections[k] IN
               /\ s.total = s.filtered + s.omitted /\ s.items = 0
               /\ s.omitted > 0 <=> k \in small.body.omissions
=============================================================================

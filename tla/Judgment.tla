------------------------------ MODULE Judgment ------------------------------
(***************************************************************************)
(* The optional judgment of one warning by an external provider: what an   *)
(* answer must be to count, when a calibration covers it, and the run that *)
(* reads the report, the policy and the provider's inputs, asks, looks at  *)
(* everything again and records a decision, while editors change the files *)
(* and time passes.                                                        *)
(*                                                                         *)
(* The files are `report', `policy', `input' and `provider' (the           *)
(* executable); an edit makes a version that was not there before, and     *)
(* probabilities are tenths.  A policy is [mode, question, calibration,    *)
(* threshold], a question [id, choices, positive, event, digest], with the *)
(* question's other fields standing for its digest.                        *)
(***************************************************************************)
EXTENDS Naturals, Sequences, FiniteSets, FiniteSetsExt, Functions

CONSTANTS
    None,
    Reports,      \* [complete, decision, warnings]: warnings a set of [check, language]
    Policies, Answers,
    MaxEdits, MaxTime

\* What parsing a policy guarantees of its counts, times and mode.
WellTyped(p) ==
    /\ p.mode \in {"shadow", "advisory"}
    /\ p.calibration # None =>
           /\ p.calibration.revoked \in BOOLEAN
           /\ {p.calibration.samples, p.calibration.labels, p.calibration.from,
               p.calibration.until, p.calibration.expires} \subseteq Nat

PoliciesWellTyped == \A p \in Policies : WellTyped(p)

VARIABLES
    files,        \* version of each file
    now,
    given,        \* [report, policy]: what version 0 of the two holds
    run           \* the run and what it remembers

judgmentVars == <<files, now, given, run>>

Names == {"report", "policy", "input", "provider"}
Samples == 30
-----------------------------------------------------------------------------
(* domain/judgment.rs *)

Digest(q) == [id |-> q.id, choices |-> q.choices, positive |-> q.positive, event |-> q.event]

QuestionValid(q) ==
    /\ Len(q.choices) \in 2..16 /\ IsInjective(q.choices)
    /\ q.positive \in Range(q.choices) /\ q.digest = Digest(q)

PolicyValid(p) ==
    /\ QuestionValid(p.question)
    /\ p.threshold # None => p.threshold \in 0..10
    /\ p.calibration # None => p.calibration.risk \in 0..10

\* Plausible bug: a calibration says itself whether it is still valid.
Status_Declared(c, q, model, context) ==
    CASE c.revoked -> "revoked"
      [] ~c.revoked /\ (c.samples < Samples \/ c.labels < Samples \/ c.labels > c.samples) ->
           "insufficient_samples"
      [] OTHER -> c.declared

Status(c, q, model, context) ==
    CASE c.revoked -> "revoked"
      [] ~c.revoked /\ (context.now >= c.expires \/ c.until < c.from \/ c.expires <= c.until) ->
           "stale"
      [] OTHER ->
           IF c.samples < Samples \/ c.labels < Samples \/ c.labels > c.samples
           THEN "insufficient_samples"
           ELSE IF /\ c.provider = context.provider /\ c.model = model
                   /\ c.question = q.digest /\ c.event = q.event
                   /\ c.rule = context.rule /\ c.language = context.language
                THEN "valid" ELSE "out_of_domain"

\* An answer is [kind, question, evidence, selected, distribution, event,
\* indomain, calibration, model, boolean].
Distribution(a, q) ==
    /\ DOMAIN a.distribution = Range(q.choices) /\ a.selected \in Range(q.choices)
    /\ a.boolean => q.choices = <<"true", "false">>
    /\ \A c \in DOMAIN a.distribution : a.distribution[c] <= a.distribution[a.selected]
    /\ MapThenSumSet(LAMBDA c : a.distribution[c], DOMAIN a.distribution) = 10

AnswerValid(a, p, context) ==
    CASE a.kind = "gap" -> TRUE
      [] a.kind \in {"deterministic", "abstained"} ->
           /\ a.question = p.question.id /\ a.evidence = context.evidence
           /\ a.kind = "deterministic" => Len(p.question.choices) = 2
      [] OTHER ->
           /\ a.question = p.question.id /\ a.evidence = context.evidence
           /\ a.event = p.question.event /\ Distribution(a, p.question) /\ a.indomain
           /\ p.calibration # None
           /\ a.calibration = p.calibration.id /\ p.calibration.declared = "valid"
           /\ Status(p.calibration, p.question, a.model, context) = "valid"

\* Plausible bug: a policy in shadow mode hurries reviews too.
RouteOf_Unshadowed(p, a) ==
    IF a.kind = "gap" THEN "inspect_gap"
    ELSE IF /\ a.kind = "probabilistic" /\ p.threshold # None
            /\ a.distribution[p.question.positive] >= p.threshold
         THEN "prioritize_review" ELSE "manual_review"

RouteOf(p, a) ==
    CASE a.kind = "gap" -> "inspect_gap"
      [] a.kind # "gap" /\ p.mode = "shadow" -> "shadow_only"
      [] OTHER -> IF /\ a.kind = "probabilistic" /\ p.threshold # None
                     /\ a.distribution[p.question.positive] >= p.threshold
                  THEN "prioritize_review" ELSE "manual_review"

-----------------------------------------------------------------------------
(* application/judgment.rs *)

Gap == [kind |-> "gap"]
Fresh == [phase |-> "begin", seen |-> <<>>, used |-> <<>>, current |-> {}, warning |-> None,
          started |-> 0, answer |-> None, outcome |-> None]

Init ==
    /\ files = [f \in Names |-> 0] /\ now = 0 /\ run = Fresh
    /\ given \in [report : Reports, policy : Policies]

\* What a file's version holds: an edit leaves something of another shape.
Readable(f) == files[f] = 0

Goto(phase) == run' = [run EXCEPT !.phase = phase]
Note(f) == [x \in DOMAIN run.seen \cup {f} |-> IF x = f THEN files[f] ELSE run.seen[x]]
Refuse == Goto("refused")

ReadReport ==
    /\ run.phase = "begin" /\ UNCHANGED <<files, now, given>>
    /\ IF Readable("report") /\ given.report.complete /\ given.report.decision # "incomplete"
       THEN run' = [run EXCEPT !.phase = "parse", !.seen = Note("report")] ELSE Refuse

\* The policy's bytes are read with the report's, and parsed after it.
ReadPolicy ==
    /\ run.phase = "parse" /\ UNCHANGED <<files, now, given>>
    /\ IF Readable("policy") /\ PolicyValid(given.policy)
       THEN run' = [run EXCEPT !.phase = "select", !.seen = Note("policy")] ELSE Refuse

\* The provider's inputs are read and the one warning is chosen.
ReadInput ==
    /\ run.phase = "select" /\ UNCHANGED <<files, now, given>>
    /\ IF Cardinality(given.report.warnings) = 1
       THEN run' = [run EXCEPT !.phase = "identify", !.seen = Note("input"), !.started = now,
                               !.warning = CHOOSE w \in given.report.warnings : TRUE]
       ELSE Refuse

\* From here on a failure is a recorded gap.
Conclude(answer) == run' = [run EXCEPT !.phase = "conclude", !.answer = answer]

Identify ==
    /\ run.phase = "identify" /\ UNCHANGED <<files, now, given>>
    /\ \/ run' = [run EXCEPT !.phase = "ask", !.seen = Note("provider")]
       \/ Conclude(Gap)                                 \* no executable, or no version

\* The provider starts, and reads its inputs itself.
Ask ==
    /\ run.phase = "ask" /\ UNCHANGED <<files, now, given>>
    /\ run' = [run EXCEPT !.phase = "answer", !.used = [f \in {"input", "provider"} |-> files[f]]]

Answer ==
    /\ run.phase = "answer" /\ UNCHANGED <<files, now, given>>
    /\ \/ \E a \in Answers :
             run' = [run EXCEPT !.phase = "provider", !.answer = a,
                                !.current = {f \in Names : files[f] = run.seen[f]}]
       \/ Conclude(Gap)                                 \* timed out, failed, too long

\* Everything is read again, in this order.
Order == <<"provider", "report", "policy", "input">>
After(f) == IF f = Order[4] THEN "validate" ELSE Order[CHOOSE i \in 2..4 : Order[i-1] = f]

\* Plausible bug: the inputs the provider was given are not read again.
Recheck_ButInput(f) ==
    /\ run.phase = f /\ UNCHANGED <<files, now, given>>
    /\ IF f # "input" /\ files[f] # run.seen[f] THEN Conclude(Gap) ELSE Goto(After(f))

Recheck(f) ==
    /\ run.phase = f /\ UNCHANGED <<files, now, given>>
    /\ IF files[f] # run.seen[f] THEN Conclude(Gap) ELSE Goto(After(f))

\* The calibration is judged by the time at which the judgment started.
Context == [evidence |-> run.warning.check, provider |-> run.seen["provider"], now |-> run.started,
            rule |-> run.warning.check, language |-> run.warning.language]

Validate ==
    /\ run.phase = "validate" /\ UNCHANGED <<files, now, given>>
    /\ Conclude(IF AnswerValid(run.answer, given.policy, Context) THEN run.answer ELSE Gap)

\* The decision is written; a write that fails ends the command without one.
Record ==
    /\ run.phase = "conclude" /\ UNCHANGED <<files, now, given>>
    /\ \/ run' = [run EXCEPT !.phase = "recorded",
                     !.outcome = [route |-> RouteOf(given.policy, run.answer),
                                  complete |-> run.answer.kind # "gap",
                                  gate |-> given.report.decision]]
       \/ Refuse

Edits == MapThenSumSet(LAMBDA f : files[f], Names)
Edit(f) ==
    /\ Edits < MaxEdits
    /\ files' = [files EXCEPT ![f] = @ + 1] /\ UNCHANGED <<now, given, run>>

Tick == now < MaxTime /\ now' = now + 1 /\ UNCHANGED <<files, given, run>>

Step == ReadReport \/ ReadPolicy \/ ReadInput \/ Identify \/ Ask \/ Answer
        \/ (\E f \in Names : Recheck(f)) \/ Validate \/ Record
Environment == (\E f \in Names : Edit(f)) \/ Tick
Next == Step \/ Environment

Spec == Init /\ [][Next]_judgmentVars
-----------------------------------------------------------------------------
(* What a judgment promises *)

\* A complete decision is of the files it names: the provider ran the very
\* executable and read the very inputs that are recorded, and the report, the
\* policy and both of these were still what they were when the answer came,
\* whatever was edited meanwhile; a probability among them comes with a
\* calibration that covered this provider, question, rule and model when the
\* judgment began (application/judgment.rs:214-301, judgment.rs:151-183).
JudgmentIsBound ==
    run.outcome # None /\ run.outcome.complete =>
        /\ run.current = Names
        /\ \A f \in {"input", "provider"} : run.used[f] = run.seen[f]
        /\ run.answer.kind = "probabilistic" =>
               LET c == given.policy.calibration IN
               /\ c # None /\ ~c.revoked /\ run.started < c.expires
               /\ c.labels >= Samples /\ c.model = run.answer.model
               /\ c.rule = run.warning.check /\ c.provider = run.seen["provider"]

\* A judgment only ever adds attention: it keeps the report's gate, hurries a
\* review only for an answer that is calibrated and likely enough, and never
\* speaks for a provider that was not asked (application/judgment.rs:298-347).
OnlyAddsAttention ==
    run.outcome # None =>
        /\ run.outcome.gate = given.report.decision /\ given.report.decision # "incomplete"
        /\ run.outcome.route = "prioritize_review" =>
               /\ run.outcome.complete /\ given.policy.mode = "advisory"
               /\ run.answer.kind = "probabilistic"
               /\ run.answer.distribution[given.policy.question.positive] >= given.policy.threshold
        /\ run.outcome.complete => run.used # <<>>
=============================================================================

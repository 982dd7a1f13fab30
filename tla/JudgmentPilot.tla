---------------------------- MODULE JudgmentPilot ----------------------------
(***************************************************************************)
(* The summary of a judgment pilot: the retained runs are read with        *)
(* independent labels, everything that does not belong together is an      *)
(* issue, and how well the probabilities did is measured on the runs that  *)
(* have a label.                                                           *)
(*                                                                         *)
(* A retained run is [dir, id, escapes, changed, bytes, scope, started,    *)
(* advisory, route, kind, p, cal, complete, threshold, rule]; `scope' and  *)
(* the labels' `scope' stand for the repository, question and provider,    *)
(* `cal' for [scope, model, until, expires] of the calibration or None,    *)
(* `model' for what answered.  Probabilities are tenths.  Labels are       *)
(* [scope, model, from, until, fraction, labels], a label [decision,       *)
(* valid, reviewed, independent]; `fraction' is in tenths too.             *)
(***************************************************************************)
EXTENDS Naturals, Sequences, FiniteSets, FiniteSetsExt, Functions

CONSTANTS None, MaxRuns, MaxBytes, Slack

\* The order in which the seed makes the audit pick decisions
CONSTANT Drawn(_)

\* load: anything out of place and there is no summary
Loads(runs, labels) ==
    /\ labels.from < labels.until /\ labels.fraction \in 0..10
    /\ Len(runs) <= MaxRuns /\ Len(labels.labels) <= MaxRuns
    /\ \A r \in Range(runs) : r.dir = r.id /\ ~r.escapes /\ ~r.changed
    /\ MapThenSumSet(LAMBDA i : runs[i].bytes, DOMAIN runs) <= MaxBytes

\* Plausible bug: who wrote the answer may label it too.
LabelRight_Anyone(l, labels) == l.reviewed \in labels.from..labels.until

LabelRight(l, labels) == l.independent /\ l.reviewed \in labels.from..labels.until

\* Labels are taken in order: one that is wrong is not taken, the last of two
\* for one decision is.
Taken(labels, i) == LabelRight(labels.labels[i], labels)
LabelOf(labels, id) ==
    LET own == {i \in DOMAIN labels.labels : Taken(labels, i) /\ labels.labels[i].decision = id}
    IN IF own = {} THEN None ELSE labels.labels[Max(own)]
LabelIssue(labels) ==
    \E i \in DOMAIN labels.labels :
        ~Taken(labels, i)
        \/ \E j \in 1..i-1 : Taken(labels, j) /\ labels.labels[j].decision = labels.labels[i].decision

InScope(r, labels) == r.scope = labels.scope
InPeriod(r, labels, now) == r.started \in labels.from..labels.until /\ r.started <= now + Slack

\* Plausible bug: the calibration may have been made with the labels of the pilot.
CohortRight_Overlapping(r, labels) ==
    /\ r.cal # None /\ r.complete /\ r.model = labels.model /\ r.cal.model = labels.model
    /\ r.cal.scope = labels.scope /\ r.cal.expires > r.started

CohortRight(r, labels) ==
    /\ r.cal # None /\ r.complete /\ r.model = labels.model /\ r.cal.model = labels.model
    /\ r.cal.scope = labels.scope /\ r.cal.until < labels.from /\ r.cal.expires > r.started

Probable(runs, labels) ==
    {i \in DOMAIN runs : runs[i].kind = "probabilistic" /\ CohortRight(runs[i], labels)
                         /\ runs[i].p # None}
Predates(r, labels) == LabelOf(labels, r.id) # None /\ LabelOf(labels, r.id).reviewed < r.started

Observed(runs, labels) ==
    {i \in Probable(runs, labels) :
        LabelOf(labels, runs[i].id) # None /\ ~Predates(runs[i], labels)}
HighPriority(runs, labels) ==
    {i \in Probable(runs, labels) : runs[i].route = "prioritize_review"}

CeilDiv(a, b) == (a + b - 1) \div b

\* At least one of the hurried decisions is audited.
AuditSize(n, fraction) == IF n = 0 THEN 0 ELSE Max({CeilDiv(n * fraction, 10), 1})
Sample(runs, labels) ==
    LET high == HighPriority(runs, labels) IN
    {i \in high : Cardinality({j \in high : Drawn(runs[j].id) < Drawn(runs[i].id)})
                      < AuditSize(Cardinality(high), labels.fraction)}

Issues(runs, labels, now) ==
    {tag \in {"no_runs", "label", "repeated", "scope", "period", "cohort", "absent",
              "predates", "gap", "audit", "no_labels"} :
       CASE tag = "no_runs" -> runs = <<>>
         [] tag = "label" -> LabelIssue(labels)
         [] tag = "repeated" -> \E i, j \in DOMAIN runs : i # j /\ runs[i].id = runs[j].id
         [] tag = "scope" -> \E r \in Range(runs) : ~InScope(r, labels)
         [] tag = "period" -> \E r \in Range(runs) : ~InPeriod(r, labels, now)
         [] tag = "cohort" -> \E r \in Range(runs) :
                r.kind = "probabilistic" /\ ~CohortRight(r, labels)
         [] tag = "absent" -> \E r \in Range(runs) :
                r.kind = "probabilistic" /\ CohortRight(r, labels) /\ r.p = None
         [] tag = "predates" -> \E i \in Probable(runs, labels) : Predates(runs[i], labels)
         [] tag = "gap" -> \E r \in Range(runs) : r.kind = "gap"
         [] tag = "audit" -> \E i \in Sample(runs, labels) : LabelOf(labels, runs[i].id) = None
         [] tag = "no_labels" -> Observed(runs, labels) = {}}

Complete(runs, labels, now) == Loads(runs, labels) /\ Issues(runs, labels, now) = {}
-----------------------------------------------------------------------------
(* How well the probabilities did *)

Diff(a, b) == IF a >= b THEN a - b ELSE b - a
Truth(labels, r) == IF LabelOf(labels, r.id).valid THEN 10 ELSE 0
Error(labels, r) == Diff(r.p, Truth(labels, r))
Confidence(r) == Max({r.p, 10 - r.p})
Wrong(labels, r) == (r.p >= 5) # LabelOf(labels, r.id).valid

\* Brier's score, times a hundred times the observations: the squared errors of
\* the runs with a label, added one after the other
Brier(runs, labels) ==
    LET square(i) == Error(labels, runs[i]) * Error(labels, runs[i])
        upTo[n \in 0..Len(runs)] ==
            IF n = 0 THEN 0
            ELSE upTo[n - 1] + (IF n \in Observed(runs, labels) THEN square(n) ELSE 0)
    IN upTo[Len(runs)]

Quarters(n, quarters) == CeilDiv(n * quarters, 4)

\* Plausible bug: the answers are kept in the order of the runs.
Kept_InOrder(runs, labels, quarters) ==
    LET seen == Observed(runs, labels)
    IN {i \in seen : Cardinality({j \in seen : j < i}) < Quarters(Cardinality(seen), quarters)}

\* The observed answers that are sorted before one: the more confident ones
Ahead(runs, labels, i) ==
    {j \in Observed(runs, labels) :
        \/ Confidence(runs[j]) > Confidence(runs[i])
        \/ Confidence(runs[j]) = Confidence(runs[i]) /\ j < i}

\* The answers kept when only a share of them, the most confident, counts
Kept(runs, labels, quarters) ==
    {i \in Observed(runs, labels) :
        Cardinality(Ahead(runs, labels, i))
            < Quarters(Cardinality(Observed(runs, labels)), quarters)}
Risk(runs, labels, quarters) ==
    Cardinality({i \in Kept(runs, labels, quarters) : Wrong(labels, runs[i])})

Bin(r) == Min({(r.p * 5) \div 10, 4})
Reliability(runs, labels) ==
    [b \in 0..4 |-> {i \in Observed(runs, labels) : Bin(runs[i]) = b}]
NearThreshold(runs, labels) ==
    {i \in Observed(runs, labels) :
        runs[i].threshold # None /\ Diff(runs[i].p, runs[i].threshold) <= 1}
-----------------------------------------------------------------------------
(* What the summary promises *)

\* A complete summary rests on evidence of its own: every run is of the one
\* repository, question and provider, no calibration was made from the period
\* that is validated, every answer that was counted was labelled by someone
\* independent after it was given, and whenever a review was hurried at least
\* one hurried decision was checked (judgment/pilot.rs:158-302).
RestsOnIndependentLabels(runs, labels, now) ==
    Complete(runs, labels, now) =>
        /\ \A r \in Range(runs) : r.scope = labels.scope /\ r.kind # "gap"
        /\ Observed(runs, labels) # {}
        /\ \A i \in Observed(runs, labels) :
               LET l == LabelOf(labels, runs[i].id) IN
               /\ l.independent /\ l.reviewed >= runs[i].started
               /\ runs[i].cal.until < labels.from
        /\ HighPriority(runs, labels) # {} =>
               Observed(runs, labels) \cap HighPriority(runs, labels) # {}

\* The figures are over the same answers: every bin's answers together are the
\* observed ones, keeping everything counts every wrong answer, and no answer
\* that is left out was more confident than one that is kept
\* (judgment/pilot.rs:303-356).
FiguresAgree(runs, labels) ==
    LET seen == Observed(runs, labels) IN
    /\ UNION Range(Reliability(runs, labels)) = seen
    /\ Kept(runs, labels, 4) = seen
    /\ \A q \in 1..4 :
           /\ 4 * Cardinality(Kept(runs, labels, q)) >= q * Cardinality(seen)
           /\ \A i \in Kept(runs, labels, q), j \in seen \ Kept(runs, labels, q) :
                  Confidence(runs[i]) >= Confidence(runs[j])
    /\ Brier(runs, labels) = 0 <=> \A i \in seen : runs[i].p = Truth(labels, runs[i])
=============================================================================

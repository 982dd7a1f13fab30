------------------------------ MODULE GateLoop ------------------------------
(***************************************************************************)
(* gate::evaluate (domain/gate.rs) as the program runs it: one pass over   *)
(* the results that accumulates gaps, failures, the ids seen and a count,  *)
(* then a pass over the required ids.  It is shown to compute Decide, the  *)
(* declarative reading of the gate that CheckRun uses.  The callers that   *)
(* replay stored reports (policy promotion, selfcheck) hand it results no  *)
(* writer of this run produced, so the list holds any of Candidates.       *)
(***************************************************************************)
EXTENDS CheckResult

CONSTANTS Ids,         \* check identities
          Reasons,     \* reasons to distrust the evidence as a whole
          Candidates,  \* the results the list may hold
          MaxResults   \* bound: results in the list

VARIABLES results,    \* the check results of the report
          required,   \* the ids the plan requires
          invalid,    \* why the evidence as a whole is not valid
          at,         \* the result the loop looks at next; 0 while the list grows
          seen,       \* ids met so far
          gaps,       \* <<kind, subject>>: what makes the validation incomplete
          failures,   \* ids of blocking violations
          completed,  \* results that completed
          decision    \* the decision, or "none"

input == <<results, required, invalid>>
acc   == <<seen, gaps, failures, completed>>
vars  == <<input, at, acc, decision>>

Init ==
  /\ results = <<>> /\ required \in SUBSET Ids /\ invalid \in SUBSET Reasons
  /\ at = 0 /\ seen = {} /\ gaps = {} /\ failures = {} /\ completed = 0
  /\ decision = "none"

AddResult ==
  /\ at = 0 /\ Len(results) < MaxResults
  /\ \E r \in Candidates : results' = Append(results, r)
  /\ UNCHANGED <<required, invalid, at, acc, decision>>

Evaluate ==
  /\ at = 0
  /\ at' = 1 /\ gaps' = {<<"invalid", why>> : why \in invalid}
  /\ UNCHANGED <<input, seen, failures, completed, decision>>

\* Plausible bug: an optional result's gap is not looked at although the plan
\* requires the id.
Found_OwnFlag(r, met) ==
  {g \in {<<"duplicate", r.id>>, <<"state", r.id>>, <<"required", r.id>>} :
     \/ g[1] = "duplicate" /\ r.id \in met
     \/ g[1] = "state" /\ Inconsistent(r)
     \/ g[1] = "required" /\ r.required /\ ~Usable(r)}

\* What the loop body finds wrong with result r when the ids in met came before.
Found(r, met) ==
  {g \in {<<"duplicate", r.id>>, <<"state", r.id>>, <<"required", r.id>>} :
     \/ g[1] = "duplicate" /\ r.id \in met
     \/ g[1] = "state" /\ Inconsistent(r)
     \/ g[1] = "required" /\ (r.required \/ r.id \in required) /\ ~Usable(r)}

Examine ==
  /\ at \in 1..Len(results)
  /\ LET r == results[at] IN
       /\ gaps' = gaps \cup Found(r, seen)
       /\ seen' = seen \cup {r.id}
       /\ completed' = completed + (IF ValidCompleted(r) THEN 1 ELSE 0)
       /\ failures' = failures \cup (IF Violation(r) THEN {r.id} ELSE {})
  /\ at' = at + 1
  /\ UNCHANGED <<input, decision>>

\* Plausible bug: a run that completed nothing is not a gap.
Closing_Vacuous == {<<"missing", id>> : id \in required \ seen}

\* The gaps known only after the loop.
Closing ==
  {<<"missing", id>> : id \in required \ seen}
    \cup {<<"unusable", "run">> : n \in {completed} \cap {0}}

\* Gaps are reported with the failures; the gate is complete without gaps.
Conclude ==
  /\ at = Len(results) + 1 /\ decision = "none"
  /\ LET all == gaps \cup Closing IN
       /\ gaps' = all \cup {<<"failure", id>> : id \in failures}
       /\ decision' = IF all # {} THEN "incomplete" ELSE IF failures # {} THEN "fail" ELSE "pass"
  /\ UNCHANGED <<input, at, seen, failures, completed>>

Decided == decision # "none" /\ UNCHANGED vars

Next == AddResult \/ Evaluate \/ Examine \/ Conclude \/ Decided

Spec == Init /\ [][Next]_vars

-----------------------------------------------------------------------------
\* What the one-pass loop of gate::evaluate decides is the declarative gate:
\* no result, in whatever order, with whatever duplicates, escapes it.
LoopDecides == decision # "none" => decision = Decide(results, required, invalid)

\* A pass rests on evidence: each required id has exactly one result, it is
\* usable, and some check completed; so no plan passes by running nothing.
PassHasEvidence ==
  decision = "pass" =>
    /\ \A id \in required :
         Cardinality({i \in DOMAIN results : results[i].id = id /\ Usable(results[i])}) = 1
    /\ \E i \in DOMAIN results : ValidCompleted(results[i])
=============================================================================

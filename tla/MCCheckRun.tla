----------------------------- MODULE MCCheckRun -----------------------------
\* Instances of CheckRun: plans of two checks and coverage.
EXTENDS CheckRun

CONSTANTS a, b, in, out, clauseGap

MCIds == {a, b}

MCReports == {<<>>, <<out>>, <<in>>, <<in, in>>, <<in, out>>}

C(kind, required, severity, deps) ==
  [kind |-> kind, required |-> required, severity |-> severity, dependsOn |-> deps,
   needsEnv |-> kind = "command" /\ deps = {}, reviewed |-> TRUE]

Of2(x, y) == [i \in MCIds |-> IF i = a THEN x ELSE y]

P(x, y, external, active, delivery, clauses) ==
  LET checks == Of2(x, y)
      tail   == IF clauses = {} THEN <<>> ELSE <<Coverage>>
      owed   == {i \in MCIds : checks[i].required}
                  \cup (IF \E c \in clauses : c.required THEN {Coverage} ELSE {})
  IN [check |-> checks, order |-> <<a, b>> \o tail, required |-> owed, external |-> external,
      active |-> active, delivery |-> delivery, recapture |-> TRUE, clauses |-> clauses]

Clause(s) == [checks |-> s, required |-> TRUE, adopted |-> TRUE]

\* Commands under an active policy: the first is the second's prerequisite, or
\* there is only one.
CommandPlans ==
  {P(C("command", r, "error", {}), C("command", TRUE, "error", {a}), "none", active, FALSE, clauses) :
     r, active \in BOOLEAN, clauses \in {{}, {Clause({b})}}}
  \cup {[P(C("command", TRUE, "error", {}), C("command", TRUE, "error", {}), "none", FALSE, FALSE, {})
          EXCEPT !.order = <<a>>, !.required = {a}]}

\* Signed evidence of both kinds, with clause coverage over it.
SignedPlans ==
  {P(C("provenance", r, "error", {}), C("manual", TRUE, "error", deps), "both", FALSE, TRUE, {Clause({a, b})}) :
     r \in BOOLEAN, deps \in {{}, {a}}}

WatchedPlans == CommandPlans \cup SignedPlans

\* Checks of every kind that runs without a guard next to one that needs it,
\* optional and required, in delivery scope, with external inputs misconfigured
\* or absent and with a rule whose source review may be missing.
Unreviewed(check, bound) == [check EXCEPT !.reviewed = bound]

MixedPlans ==
  {P(Unreviewed(C("rule", r, "error", {}), bound), C(k, TRUE, s, deps), e, FALSE, TRUE, {Clause({a})}) :
     r, bound \in BOOLEAN, k \in {"command", "isolated", "rule", "manual"}, s \in Severities,
     deps \in {{}, {a}}, e \in {"none", "one"}}
=============================================================================

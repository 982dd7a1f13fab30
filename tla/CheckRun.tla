------------------------------ MODULE CheckRun ------------------------------
(***************************************************************************)
(* One evaluation (application/mod.rs: check_and_snapshot, check_prepared).*)
(* The snapshot is captured, external acceptance inputs are loaded, the    *)
(* planned checks run one at a time against an immutable materialisation,  *)
(* and then everything the evidence rests on is read again: the checked    *)
(* inputs, the signed records, the source, the environment, the active     *)
(* policy.  Output bounds, clause coverage and the gate follow.            *)
(*                                                                         *)
(* Meanwhile the world moves: the developer edits, a command (or a process *)
(* it leaves behind) writes into the workspace, a signed record expires or *)
(* is replaced, the policy is revoked.  What a rule or a command computes  *)
(* is abstracted to any outcome its code can report.                       *)
(***************************************************************************)
EXTENDS CheckResult, Functions

CONSTANTS
  Plans,       \* the plans and options an evaluation may have
  Ids,         \* check identities
  Coverage,    \* the id of the aggregate constraint check
  Selected,    \* the diagnostics a delivery snapshot selects
  Reports,     \* bound: the lists of diagnostics a check may report
  Faults,      \* bound: the gaps a check may end in
  ClauseGap,   \* the diagnostic of a failed constraint clause
  MaxRecords,  \* diagnostics a result may retain once each carries its replay argv
  MaxEvents    \* bound: moves of the world

\* A planned check: what runs it, what it needs.  A rule with provenance needs
\* a signed record, and so does a manual check; an isolated check (compatibility,
\* test effectiveness) has workspaces of its own; reviewed is FALSE for a rule
\* whose source review is not bound.
Kinds == {"rule", "provenance", "manual", "command", "isolated"}

Check == [kind : Kinds, required : BOOLEAN, severity : Severities,
          dependsOn : SUBSET Ids, needsEnv : BOOLEAN, reviewed : BOOLEAN]

\* The plan and the options that decide the control flow: external inputs
\* given by both flags, one or none; an active policy; delivery scope; whether
\* the source is captured again; the checks each constraint clause maps to, and
\* whether its source and adoption are valid.
Plan == [check : [Ids -> Check], order : Seq(Ids \cup {Coverage}), required : SUBSET (Ids \cup {Coverage}),
         external : {"both", "one", "none"}, active : BOOLEAN, delivery : BOOLEAN,
         recapture : BOOLEAN,
         clauses : SUBSET [checks : SUBSET Ids, required : BOOLEAN, adopted : BOOLEAN]]

\* What PlanBuild establishes of an order: prerequisites first, no repeats.
Scheduled(p) ==
  /\ \A k \in DOMAIN p.order : p.order[k] # Coverage =>
       /\ \A i \in p.check[p.order[k]].dependsOn : \E j \in 1..(k - 1) : p.order[j] = i
       /\ \A j \in 1..(k - 1) : p.order[j] # p.order[k]
  /\ \A k \in DOMAIN p.order : p.order[k] = Coverage => k = Len(p.order) /\ p.clauses # {}
  /\ p.required \subseteq Range(p.order)

ASSUME RunAssumption ==
  /\ Coverage \notin Ids /\ Selected \subseteq Diagnostics /\ ClauseGap \in Diagnostics
  /\ Reports \subseteq Seq(Diagnostics) /\ Faults \subseteq Gaps
  /\ MaxRecords \in Nat /\ MaxEvents \in Nat
  /\ \A p \in Plans : p \in Plan /\ Scheduled(p)

VARIABLES
  plan,      \* the plan and options of this evaluation
  phase,     \* where the evaluation is
  at,        \* the next position in plan.order
  results,   \* the results so far, in order
  holds,     \* ids whose result carries acceptance or provenance metadata
  invalid,   \* why the evaluation as a whole cannot be trusted
  loaded,    \* whether the external inputs were loaded
  captured,  \* the source and the environment the evaluation started from
  guard,     \* the input guard: exists, and latched its first failure
  world,     \* what others change
  events,    \* moves of the world so far
  decision,  \* the gate's decision, or "none"
  ran,       \* history: what each check reported by itself
  tainted,   \* history: commands that ended on inputs already written to
  window     \* history: the states of the world since the last check ended, in order

evidence == <<results, holds, invalid>>
history  == <<ran, tainted, window>>
given    == <<plan, loaded, captured>>
vars == <<given, phase, at, evidence, guard, world, events, decision, history>>

\* The source and the environment have two values that matter (a required
\* variable is missing when env is 1); writes counts the writes to checked
\* inputs; altered says the records on disk are not the ones loaded; expired
\* holds the checks whose proof ran out, and revoked is about the active policy.

Init ==
  /\ plan \in Plans /\ phase = "capture" /\ at = 1
  /\ results = <<>> /\ holds = {} /\ invalid = {} /\ loaded = FALSE
  /\ captured = [source |-> 0, env |-> 0]
  /\ guard = [exists |-> FALSE, latched |-> FALSE]
  /\ world \in [source : {0}, env : 0..1, writes : {0}, altered : {FALSE}, expired : {{}}, revoked : {FALSE}]
  /\ events = 0 /\ decision = "none"
  /\ ran = [i \in {} |-> "none"] /\ tainted = {} /\ window = <<>>

Ended == {"done", "error"}

\* The phases before the last read of anything the world can change.
Watched == {"capture", "prepare", "materialize", "loop", "probing", "running",
            "inputs", "manual", "provenance", "source", "environment", "authority"}

-----------------------------------------------------------------------------
(* The world.  Once the checks have run, history keeps what it looked like.  *)

Signed == {i \in Range(plan.order) \cap Ids : plan.check[i].kind \in {"manual", "provenance"}}

Move(w) ==
  /\ phase \in Watched /\ events < MaxEvents
  /\ world' = w /\ events' = events + 1
  /\ window' = IF window = <<>> THEN window ELSE Append(window, w)
  /\ UNCHANGED <<given, phase, at, evidence, guard, decision, ran, tainted>>

Edit    == Move([world EXCEPT !.source = 1 - @])
SetEnv  == Move([world EXCEPT !.env = 1 - @])
Write   == guard.exists /\ Move([world EXCEPT !.writes = @ + 1])
Replace == loaded /\ Move([world EXCEPT !.altered = ~@])
Expire  == \E i \in Signed \ world.expired : Move([world EXCEPT !.expired = @ \cup {i}])
Revoke  == plan.active /\ ~world.revoked /\ Move([world EXCEPT !.revoked = TRUE])

-----------------------------------------------------------------------------
(* Before the checks.                                                       *)

\* An error the caller gets instead of a report.
Bail ==
  /\ phase \in {"capture", "prepare", "materialize", "loop", "environment", "bounds", "coverage", "gate"}
  /\ phase' = "error"
  /\ UNCHANGED <<given, at, evidence, guard, world, events, decision, history>>

Capture ==
  /\ phase = "capture" /\ ~(plan.active /\ world.revoked)
  /\ captured' = [captured EXCEPT !.source = world.source]
  /\ phase' = "prepare"
  /\ UNCHANGED <<plan, loaded, at, evidence, guard, world, events, decision, history>>

\* Policy errors and unusable external inputs do not stop the evaluation; they
\* are why it cannot be trusted.
Prepare ==
  /\ phase = "prepare"
  /\ captured' = [captured EXCEPT !.env = world.env]
  /\ \E policy \in SUBSET {"policy"}, ok \in BOOLEAN :
       /\ ok => plan.external = "both"
       /\ loaded' = ok
       /\ invalid' = policy \cup (IF ok \/ plan.external = "none" THEN {} ELSE {"external"})
  /\ phase' = "materialize"
  /\ UNCHANGED <<plan, at, results, holds, guard, world, events, decision, history>>

Kind(i) == plan.check[i].kind

\* A workspace and its guard exist only for plain commands under a valid policy.
Materialize ==
  /\ phase = "materialize"
  /\ guard' = [guard EXCEPT !.exists = invalid = {} /\ \E i \in Range(plan.order) \cap Ids : Kind(i) = "command"]
  /\ phase' = "loop"
  /\ UNCHANGED <<given, at, evidence, world, events, decision, history>>

-----------------------------------------------------------------------------
(* The checks, one at a time in plan order.                                 *)

Current == plan.order[at]

AtCheck == phase = "loop" /\ at <= Len(plan.order) /\ Current # Coverage

Fresh(i) == Pending(i, plan.check[i].required, plan.check[i].severity)

\* The selected diagnostics of a list, in order: the n-th is at the position up
\* to which there are n of them.
InScope(ds) ==
  LET places == {k \in DOMAIN ds : ds[k] \in Selected} IN
    [n \in 1..Cardinality(places) |->
       ds[CHOOSE k \in places : Cardinality({j \in places : j <= k}) = n]]

\* Plausible bug: whatever the rule came to, the verdict follows what is left.
Filter_Upgrades(r) ==
  IF plan.delivery THEN Complete([r EXCEPT !.diagnostics = InScope(@)]) ELSE r

\* Delivery scope keeps only the selected diagnostics of a completed rule, and
\* the verdict follows what is left.
Filter(r) ==
  IF plan.delivery /\ r.status = "completed"
    THEN Complete([r EXCEPT !.diagnostics = InScope(@)]) ELSE r

\* A rule's result on its way into the report: filtered, then blocked unless
\* the review of the rule's source is bound.
Settle(r) ==
  IF Kind(r.id) \notin {"rule", "provenance"} THEN r
  ELSE IF plan.check[r.id].reviewed THEN Filter(r) ELSE Block(Filter(r), "blocked")

\* The loop body ends: result r joins the report and the next check is due.
Record(r, signed) ==
  /\ results' = Append(results, Settle(r))
  /\ holds' = holds \cup (IF signed THEN {r.id} ELSE {})
  /\ ran' = [i \in DOMAIN ran \cup {r.id} |-> IF i = r.id THEN r ELSE ran[i]]
  /\ at' = at + 1 /\ phase' = "loop"
  /\ UNCHANGED <<given, invalid, world, events, decision, window>>

\* Plausible bug: a prerequisite is met when it completed.
Passed_Completed(i) == \E k \in DOMAIN results :
                         results[k].id = i /\ results[k].status = "completed"

\* A check counts as a met prerequisite only when it completed and passed.
Passed(i) == \E k \in DOMAIN results :
               results[k].id = i /\ results[k].status = "completed" /\ results[k].verdict = "pass"

Prevented(i) ==
  \/ Kind(i) \in {"command", "isolated"} /\ plan.check[i].needsEnv /\ world.env = 1
  \/ \E j \in plan.check[i].dependsOn : ~Passed(j)

Prevent ==
  /\ AtCheck /\ Prevented(Current)
  /\ Record(Block(Fresh(Current), "blocked"), FALSE)
  /\ UNCHANGED <<guard, tainted>>

\* What a check may report by itself: diagnostics, or a gap that keeps them.
Outcomes(p) ==
  {Complete([p EXCEPT !.diagnostics = ds]) : ds \in Reports}
    \cup {Block([p EXCEPT !.diagnostics = ds], g) : ds \in Reports, g \in Faults}

Rule ==
  /\ AtCheck /\ ~Prevented(Current) /\ Kind(Current) = "rule"
  /\ \E r \in Outcomes(Fresh(Current)) \cup {Skip(Fresh(Current))} : Record(r, FALSE)
  /\ UNCHANGED <<guard, tainted>>

\* A rule that needs provenance runs on a record that verifies now, and may find
\* nothing to apply to; without a record it is blocked and still carries the
\* provenance metadata.
Provenance ==
  /\ AtCheck /\ ~Prevented(Current) /\ Kind(Current) = "provenance"
  /\ \/ /\ loaded /\ Current \notin world.expired
        /\ \E r \in Outcomes(Fresh(Current)) \cup {Skip(Fresh(Current))} : Record(r, TRUE)
     \/ Record(Block(Fresh(Current), "blocked"), TRUE)
  /\ UNCHANGED <<guard, tainted>>

Applicable(i) == [Fresh(i) EXCEPT !.applicability = "applicable"]

\* The signed decision is what a manual check reports: a rejection is a violation.
Manual ==
  /\ AtCheck /\ ~Prevented(Current) /\ Kind(Current) = "manual" /\ invalid = {}
  /\ LET p == Applicable(Current) IN
       \/ /\ loaded /\ Current \notin world.expired
          /\ \E ds \in {x \in Reports : Len(x) <= 1} : Record(Complete([p EXCEPT !.diagnostics = ds]), TRUE)
       \/ Record(Block(p, "blocked"), TRUE)
  /\ UNCHANGED <<guard, tainted>>

Isolated ==
  /\ AtCheck /\ ~Prevented(Current) /\ Kind(Current) = "isolated" /\ invalid = {}
  /\ \E r \in Outcomes(Applicable(Current)) : Record(r, FALSE)
  /\ UNCHANGED <<guard, tainted>>

\* "Policy validation did not complete".
Refuse ==
  /\ AtCheck /\ ~Prevented(Current)
  /\ Kind(Current) \in {"manual", "isolated", "command"}
  /\ invalid # {} \/ (Kind(Current) = "command" /\ ~guard.exists)
  /\ Record(Block(Fresh(Current), "blocked"), FALSE)
  /\ UNCHANGED <<guard, tainted>>

\* InputGuard::verify: it fails once an input was written, may fail when the
\* inspection runs out of time, and after a first failure always fails.
Verified(ok) ==
  /\ ok => ~guard.latched /\ world.writes = 0
  /\ guard' = [guard EXCEPT !.latched = ~ok]

\* The inputs are verified before the command, ...
StartCommand ==
  /\ AtCheck /\ ~Prevented(Current) /\ Kind(Current) = "command" /\ guard.exists
  /\ \/ /\ Verified(TRUE) /\ phase' = "probing"
        /\ UNCHANGED <<given, at, evidence, world, events, decision, history>>
     \/ Verified(FALSE) /\ Record(Block(Fresh(Current), "blocked"), FALSE) /\ UNCHANGED tainted

\* ... again when tool probes and report preparation are done, ...
ProbeCommand ==
  /\ phase = "probing" /\ Verified(TRUE)
  /\ phase' = "running"
  /\ UNCHANGED <<given, at, evidence, world, events, decision, history>>

\* Plausible bug: the last verification is not applied to the result.
Confirmed_Unchecked(r, ok) == r

\* ... and after it, whatever it came to: evidence from inputs that did not
\* stay what the snapshot holds is no evidence.
Confirmed(r, ok) == IF ok THEN r ELSE Block(r, "blocked")

EndCommand(r) ==
  \E ok \in BOOLEAN :
    /\ Verified(ok)
    /\ Record(Confirmed(r, ok), FALSE)
    /\ tainted' = tainted \cup (IF guard.latched \/ world.writes > 0 THEN {r.id} ELSE {})

\* Anything before the process is started can fail the command.
FailCommand ==
  /\ phase = "probing"
  /\ \E r \in Outcomes(Applicable(Current)) : r.status \in Gaps /\ EndCommand(r)

\* The process ended, by itself or at its deadline.
FinishCommand ==
  /\ phase = "running"
  /\ \E r \in Outcomes(Applicable(Current)) : EndCommand(r)

\* Clause coverage waits for everything else.
PassOverCoverage ==
  /\ phase = "loop" /\ at <= Len(plan.order) /\ Current = Coverage
  /\ at' = at + 1
  /\ UNCHANGED <<given, phase, evidence, guard, world, events, decision, history>>

EndLoop ==
  /\ phase = "loop" /\ at > Len(plan.order)
  /\ phase' = "inputs" /\ window' = <<world>>
  /\ UNCHANGED <<given, at, evidence, guard, world, events, decision, ran, tainted>>

\* Plausible bugs: the source is not captured again; coverage is computed before
\* the output bounds apply.
After_Trusting == [inputs |-> "manual", manual |-> "provenance", provenance |-> "environment",
                   source |-> "environment", environment |-> "authority", authority |-> "bounds",
                   bounds |-> "coverage", coverage |-> "gate"]

After_CoverageFirst ==
  [inputs |-> "manual", manual |-> "provenance", provenance |-> "source",
   source |-> "environment", environment |-> "authority", authority |-> "coverage",
   coverage |-> "bounds", bounds |-> "gate"]

-----------------------------------------------------------------------------
(* After the checks: what they rested on is read again, in this order.      *)

After == [inputs |-> "manual", manual |-> "provenance", provenance |-> "source",
          source |-> "environment", environment |-> "authority", authority |-> "bounds",
          bounds |-> "coverage", coverage |-> "gate"]

Distrust(why) == invalid' = invalid \cup why

VerifyInputs ==
  /\ phase = "inputs" /\ phase' = After[phase]
  /\ IF guard.exists
       THEN \E ok \in BOOLEAN : Verified(ok) /\ Distrust(IF ok THEN {} ELSE {"inputs"})
       ELSE UNCHANGED <<invalid, guard>>
  /\ UNCHANGED <<given, at, results, holds, world, events, decision, history>>

\* The completed results of one kind whose record no longer verifies are blocked;
\* one that was skipped is left as it is.
Lapse(kind) ==
  [k \in DOMAIN results |->
     IF /\ results[k].id \in Ids /\ Kind(results[k].id) = kind /\ results[k].status = "completed"
        /\ results[k].id \in world.expired
       THEN Block(results[k], "blocked") ELSE results[k]]

\* When the records cannot be shown unchanged, every result that rests on one
\* is blocked and the evaluation is invalid.
LoseRecords ==
  /\ Distrust({"records"})
  /\ results' = [k \in DOMAIN results |->
                   IF results[k].id \in holds THEN Block(results[k], "blocked") ELSE results[k]]

RevalidateManual ==
  /\ phase = "manual"
  /\ \/ /\ ~loaded /\ phase' = After["provenance"] /\ UNCHANGED <<results, invalid>>
     \/ /\ loaded /\ ~world.altered
        /\ results' = Lapse("manual") /\ phase' = After[phase] /\ UNCHANGED invalid
     \/ /\ loaded /\ LoseRecords /\ phase' = After["provenance"]
  /\ UNCHANGED <<given, at, holds, guard, world, events, decision, history>>

RevalidateProvenance ==
  /\ phase = "provenance" /\ phase' = After[phase]
  /\ \/ results' = Lapse("provenance") /\ UNCHANGED invalid
     \/ LoseRecords
  /\ UNCHANGED <<given, at, holds, guard, world, events, decision, history>>

\* A capture that fails distrusts the evaluation as one that differs does.
Recapture ==
  /\ phase = "source" /\ phase' = After[phase]
  /\ \E same \in BOOLEAN :
       /\ same => ~plan.recapture \/ world.source = captured.source
       /\ ~same => plan.recapture
       /\ Distrust(IF same THEN {} ELSE {"source"})
  /\ UNCHANGED <<given, at, results, holds, guard, world, events, decision, history>>

CheckEnvironment ==
  /\ phase = "environment" /\ phase' = After[phase]
  /\ Distrust(IF world.env = captured.env THEN {} ELSE {"environment"})
  /\ UNCHANGED <<given, at, results, holds, guard, world, events, decision, history>>

RevalidateAuthority ==
  /\ phase = "authority" /\ phase' = After[phase]
  /\ \E ok \in BOOLEAN :
       /\ ok => ~(plan.active /\ world.revoked)
       /\ ~ok => plan.active
       /\ Distrust(IF ok THEN {} ELSE {"authority"})
  /\ UNCHANGED <<given, at, results, holds, guard, world, events, decision, history>>

\* Plausible bug: the kept prefix decides the verdict again.
Attach_Completes(r) ==
  IF Len(r.diagnostics) <= MaxRecords THEN r
  ELSE Complete([r EXCEPT !.diagnostics = SubSeq(@, 1, MaxRecords)])

\* diagnostic_budget::attach: with the replay argv bound to each diagnostic the
\* list may no longer fit; what is kept is a prefix, and the result is a gap.
Attach(r) ==
  IF Len(r.diagnostics) <= MaxRecords THEN r
  ELSE Block([r EXCEPT !.diagnostics = SubSeq(@, 1, MaxRecords)],
             IF r.status \in {"completed", "not_run"} THEN "blocked" ELSE r.status)

Bound ==
  /\ phase = "bounds" /\ phase' = After[phase]
  /\ results' = [k \in DOMAIN results |-> Attach(results[k])]
  /\ UNCHANGED <<given, at, holds, invalid, guard, world, events, decision, history>>

\* constraint::execution: what the mapped checks establish of a clause.
Of(i) == {k \in DOMAIN results : results[k].id = i}

CompleteAt(k) == ValidCompleted(results[k]) /\ ~Inconsistent(results[k])

Unestablished(c) ==
  \/ ~c.adopted \/ c.checks = {}
  \/ \E i \in c.checks : Cardinality(Of(i)) # 1
  \/ \E i \in c.checks : \E k \in Of(i) : ~CompleteAt(k) /\ ~ValidSkip(results[k])

FailedClause(c) ==
  ~Unestablished(c) /\ \E i \in c.checks : \E k \in Of(i) : results[k].verdict = "fail"

\* The coverage result: a diagnostic per failed required clause, and a gap when
\* any required clause is not established.
Cover ==
  /\ phase = "coverage" /\ phase' = After[phase]
  /\ LET owed   == {c \in plan.clauses : c.required}
         failed == {c \in owed : FailedClause(c)}
         full   == Complete([Pending(Coverage, owed # {}, "error") EXCEPT
                               !.diagnostics = [k \in 1..Cardinality(failed) |-> ClauseGap]])
         r      == IF \E c \in owed : Unestablished(c) THEN Block(full, "blocked") ELSE full
     IN results' = IF plan.clauses = {} THEN results ELSE Append(results, Attach(r))
  /\ UNCHANGED <<given, at, holds, invalid, guard, world, events, decision, history>>

\* The decision is in the report that is written last.
Gate ==
  /\ phase = "gate" /\ phase' = "done"
  /\ decision' = Decide(results, plan.required, invalid)
  /\ UNCHANGED <<given, at, evidence, guard, world, events, history>>

Halt == phase \in Ended /\ UNCHANGED vars

Execute ==
  \/ Prevent \/ Rule \/ Provenance \/ Manual \/ Isolated \/ Refuse
  \/ StartCommand \/ ProbeCommand \/ FailCommand \/ FinishCommand
  \/ PassOverCoverage \/ EndLoop

Finalize ==
  \/ VerifyInputs \/ RevalidateManual \/ RevalidateProvenance \/ Recapture
  \/ CheckEnvironment \/ RevalidateAuthority \/ Bound \/ Cover \/ Gate

Evaluation == Bail \/ Capture \/ Prepare \/ Materialize \/ Execute \/ Finalize

Environment == Edit \/ SetEnv \/ Write \/ Replace \/ Expire \/ Revoke

Next == Evaluation \/ Environment \/ Halt

Spec == Init /\ [][Next]_vars

-----------------------------------------------------------------------------
\* Whether a diagnostic of check i counts in this scope.
Counts(i, d) == plan.delivery /\ Kind(i) \in {"rule", "provenance"} => d \in Selected

\* A pass is earned by what the checks reported, not by what later stages made
\* of it: each required check ran to completion with no blocking violation in
\* the scope, or explained why it does not apply.  Filtering, blocking and
\* truncation sit between the two.
Earned ==
  decision = "pass" =>
    \A i \in plan.required \ {Coverage} :
      /\ i \in DOMAIN ran
      /\ \/ ValidSkip(ran[i])
         \/ /\ ran[i].status = "completed"
            /\ ran[i].severity = "error" => \A k \in DOMAIN ran[i].diagnostics : ~Counts(i, ran[i].diagnostics[k])

\* Evidence is of the present.  A command that ended after a checked input was
\* written, or after the guard once failed, never counts, even when the write was
\* undone and even when it happened under an earlier command.  And a pass does not
\* rest on the past.  What cannot be taken back had not happened yet, all of it
\* together, when the last check ended: no checked input was written, the active
\* policy stood, and every proof behind a completed result was in force.  What can
\* be put back was read after that, in one order: the signed records as they were
\* loaded, then the source as it was captured, then the environment.  A later read
\* replaced by an earlier one, or dropped, lets the world slip in between.
EvidenceIsCurrent ==
  /\ \A k \in DOMAIN results : results[k].id \in tainted => ~Usable(results[k])
  /\ decision = "pass" =>
       /\ guard.exists => window[1].writes = 0
       /\ plan.active => ~window[1].revoked
       /\ \A k \in DOMAIN results :
            results[k].id \in Signed /\ results[k].status = "completed" => results[k].id \notin window[1].expired
       /\ \E r, s, e \in DOMAIN window :
            /\ r <= s /\ s <= e
            /\ loaded => ~window[r].altered
            /\ plan.recapture => window[s].source = captured.source
            /\ window[e].env = captured.env

\* A check is executed only on the evidence its prerequisites gave: when it has
\* anything but a gap, each prerequisite ran before it, completed, and left no
\* diagnostic that counts.
PrerequisitesRan ==
  \A i \in DOMAIN ran : ran[i].status \notin Gaps =>
    \A j \in plan.check[i].dependsOn :
      /\ j \in DOMAIN ran /\ ran[j].status = "completed"
      /\ \A k \in DOMAIN ran[j].diagnostics : ~Counts(j, ran[j].diagnostics[k])

\* Clause coverage speaks of the results the report shows: it decides a clause
\* only when every check mapped to a required clause is complete there.
CoverageIsFinal ==
  decision # "none" =>
    \A k \in Of(Coverage) : Usable(results[k]) =>
      \A c \in plan.clauses : c.required =>
        /\ c.adopted
        /\ \A i \in c.checks : \E j \in Of(i) : Usable(results[j])

\* What the evaluation took away it never gives back: once a result has no
\* verdict it gets none, and no result leaves the report.
VerdictsOnlyFall ==
  [][\A k \in DOMAIN results :
       /\ k \in DOMAIN results' /\ results'[k].id = results[k].id
       /\ results'[k].verdict \in {results[k].verdict, "none"}]_vars
=============================================================================

---------------------------- MODULE AgentContract ----------------------------
(***************************************************************************)
(* The obligations of a consuming agent: which of the selected policy's    *)
(* bind it, what a projection of them is worth, and what the host may say  *)
(* of each when it authorizes a delivery.                                  *)
(*                                                                         *)
(* An obligation is [id, required, roles, tasks, source, adopted, binding, *)
(* kind, checks, control, events, must, mustNot]; a source says whether    *)
(* the cited section is there with its digest, `adopted' is the binding    *)
(* digest of the adoption record (None without one), and `binding' the     *)
(* digest of the obligation with its checks' definitions as they are.      *)
(***************************************************************************)
EXTENDS CheckResult, Functions

CONSTANTS None, Controls   \* CONTROLS: what this host enforces

Applies(o, role, task) ==
    /\ o.roles = {} \/ role \in o.roles
    /\ o.tasks = {} \/ task \in o.tasks

\* build: the first reason not to rely on an obligation
Bound(o, order) ==
    CASE ~o.source -> "source_invalid"
      [] o.source /\ o.adopted = None -> "unadopted"
      [] o.source /\ o.adopted \notin {None, o.binding} -> "stale_adoption"
      [] o.source /\ o.adopted = o.binding ->
           IF o.kind = "checks" /\ ~(o.checks \subseteq order) THEN "unavailable_check"
           ELSE "ready"

\* conflicts: what one ready obligation demands and another forbids
Conflicting(bound) ==
    \E a, b \in DOMAIN bound :
        /\ bound[a].status = "ready" /\ bound[b].status = "ready"
        /\ bound[a].o.must \cap bound[b].o.mustNot # {}

\* agent_contract::project, the contract of one role and task
Build(obligations, role, task, order, invalid) ==
    LET mine  == {k \in DOMAIN obligations : Applies(obligations[k], role, task)}
        bound == [k \in mine |-> [o |-> obligations[k], status |-> Bound(obligations[k], order)]]
    IN [bound |-> bound, role |-> role, task |-> task,
        ready |-> /\ ~invalid /\ ~Conflicting(bound)
                  /\ \A k \in DOMAIN bound : bound[k].o.required => bound[k].status = "ready"]

\* Plausible bug: a control this host has is taken to cover every event.
Enforces_AnyEvent(o) == o.control \in Controls

\* A control this host enforces, unless it is due before each tool call
Enforces(o) == o.control \in Controls /\ "before_tool" \notin o.events

\* preflight
Injectable(projection) ==
    /\ projection.ready
    /\ \A k \in DOMAIN projection.bound :
           LET b == projection.bound[k] IN
           (b.o.required /\ b.status = "ready" /\ b.o.kind = "host") => Enforces(b.o)

-----------------------------------------------------------------------------
(* constraint::execution: what the results of some checks establish *)

ResultsOf(id, results) == {k \in DOMAIN results : results[k].id = id}

\* Every mapped check has exactly one result; a skip with its explanation
\* is passed over, anything else must be complete evidence.
Execution(ids, results) ==
    LET of(id) == ResultsOf(id, results)
        applicable == {id \in ids : \E k \in of(id) : ~ValidSkip(results[k])}
        gap(id) == \/ \A k \in of(id) : of(id) # {k}
                   \/ \E k \in of(id) : ~ValidSkip(results[k])
                          /\ (~ValidCompleted(results[k]) \/ Inconsistent(results[k]))
        failed(id) == \E k \in of(id) : results[k].verdict = "fail"
    IN IF ids = {} \/ \E id \in ids : gap(id) THEN "pending"
       ELSE IF \E id \in ids : failed(id) THEN "failed"
       ELSE IF applicable # {} THEN "verified" ELSE "not_applicable"

\* authorize: the status of one obligation before the decision is known
Observed(b, results) ==
    IF b.status # "ready" THEN "not_projected"
    ELSE CASE b.o.kind = "instruction" -> "delivered_unverified"
           [] b.o.kind = "checks" ->
                IF Execution(b.o.checks, results) \in {"verified", "not_applicable"}
                THEN "checks_verified" ELSE "evidence_gap_or_violation"
           [] b.o.kind = "host" ->
                IF Enforces(b.o) THEN "host_control_satisfied" ELSE "unsupported_host_control"

Established == {"delivered_unverified", "checks_verified", "host_control_satisfied"}

\* What the host still says of an obligation when it delivers nothing
Downgraded(status) ==
    CASE status = "host_control_satisfied" -> "delivery_blocked"
      [] status = "delivered_unverified"   -> "delivery_not_established"
      [] OTHER -> status

\* `bindings': whether receipt, report, projections and archive are of one
\* subject (AgentHost has their comparison); the gate is computed again.
Authorize(projection, results, required, bindings) ==
    LET seen == [k \in DOMAIN projection.bound |-> Observed(projection.bound[k], results)]
        allowed == /\ Injectable(projection) /\ bindings
                   /\ Decide(results, required, {}) = "pass"
                   /\ \A k \in DOMAIN seen :
                          projection.bound[k].o.required => seen[k] \in Established
    IN [allowed  |-> allowed,
        statuses |-> [k \in DOMAIN seen |-> IF allowed THEN seen[k] ELSE Downgraded(seen[k])]]

-----------------------------------------------------------------------------
\* A delivery is allowed only when each required obligation of this role and
\* task is adopted as it reads now and holds: its checks have one complete
\* result each, without a violation, or the host really has the control.  And a
\* delivery that is refused lets no obligation count as met by the host, whatever
\* made it fail (domain/agent_host.rs:126-187, constraint.rs:79-128).
AllowedIsCovered(obligations, role, task, order, results, required) ==
    LET projection == Build(obligations, role, task, order, FALSE)
        decision == Authorize(projection, results, required, TRUE)
    IN /\ decision.allowed =>
            \A k \in DOMAIN obligations :
                LET o == obligations[k] IN
                (o.required /\ Applies(o, role, task)) =>
                    /\ o.source /\ o.adopted = o.binding
                    /\ o.kind = "checks" =>
                          /\ o.checks \subseteq order /\ o.checks # {}
                          /\ \A id \in o.checks : \E r \in DOMAIN results :
                                /\ ResultsOf(id, results) = {r}
                                /\ results[r].verdict \in {"pass", "skipped"}
                                /\ results[r].diagnostics = <<>>
                    /\ o.kind = "host" => o.control \in Controls /\ "before_tool" \notin o.events
       /\ ~decision.allowed =>
            Range(decision.statuses) \cap {"host_control_satisfied", "delivered_unverified"} = {}
=============================================================================

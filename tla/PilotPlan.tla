----------------------------- MODULE PilotPlan -----------------------------
(***************************************************************************)
(* A pilot trial before it starts: what makes its manifest valid, when its *)
(* plan can be sealed, and what the seal and the two signatures bind.      *)
(*                                                                         *)
(* A manifest is [protocol, assignments, sources, order, observations,     *)
(* seal].  An assignment is one run of one task under one cohort: [id,     *)
(* input, task, kind, cohort, origin, excluded, truth, initial], its       *)
(* cohort [workflow, model, setup, actual]; `setup' stands for everything  *)
(* else a cohort declares, `initial' for the snapshot and report it starts *)
(* from.  Digests are the values they digest; names, sizes and units are   *)
(* left out.                                                               *)
(***************************************************************************)
EXTENDS Naturals, Sequences, FiniteSets, Functions

CONSTANTS
    None,           \* an optional field that is not given
    Unknown,        \* a model whose identity the provider does not report
    Day             \* seconds in a day

Workflows == {"existing_tools", "qualitygate"}
Given(x) == x # None
All(m) == Range(m.assignments)
Inputs(m) == {a.input : a \in All(m)}
\* An observation is [of, at, sequence, attempts], an attempt's `model' is None
\* when it lacks evidence.
Observed(m) == {o.of : o \in Range(m.observations)}
-----------------------------------------------------------------------------
(* validate: the parts of a manifest agree with each other *)

ProtocolValid(p) ==
    /\ p.tasks > 0 /\ p.days > 0 /\ p.attempts > 0 /\ p.seconds > 0
    /\ p.stagnation \in 1..p.attempts
    /\ Given(p.sealed) /\ Given(p.start) => p.sealed <= p.start
    /\ Given(p.start) /\ Given(p.end) => p.start <= p.end

\* Replicas and workflows refer to the same original task.
TaskIdentity(a) == <<a.task, a.kind, a.origin, a.truth>>

AssignmentsValid(m) ==
    /\ IsInjective([i \in DOMAIN m.assignments |-> m.assignments[i].id])
    /\ \A a, b \in All(m) : a.input = b.input => TaskIdentity(a) = TaskIdentity(b)
    /\ \A a, b \in All(m) : a.task = b.task => a.input = b.input
    /\ \A k \in {a.kind : a \in All(m)} \cup DOMAIN m.protocol.mix :
           /\ k \in DOMAIN m.protocol.mix
           /\ m.protocol.mix[k] = Cardinality({a.input : a \in {b \in All(m) : b.kind = k}})

\* One source per independent task, chosen before the seal
SourcesValid(m) ==
    /\ Cardinality(m.sources) = m.protocol.tasks
    /\ \A s \in m.sources : Given(m.protocol.sealed) /\ s.at <= m.protocol.sealed
    /\ \A s, t \in m.sources : s.input = t.input \/ s.name = t.name => s = t
    /\ {s.input : s \in m.sources} = Inputs(m)

Named(m, id) == CHOOSE a \in All(m) : a.id = id
WorkflowAt(m, i) == Named(m, m.order[i]).cohort.workflow

\* The pair of runs of one input under one model, whose order is balanced
Stratum(a) == <<a.kind, a.cohort.model>>
Pair(a) == <<Stratum(a), a.input>>
Position(m, a) == CHOOSE i \in DOMAIN m.order : m.order[i] = a.id
Of(m, pair, workflow) == {a \in All(m) : Pair(a) = pair /\ a.cohort.workflow = workflow}
Leads(m, stratum, workflow) ==
    {a \in All(m) : /\ Stratum(a) = stratum /\ a.cohort.workflow = workflow
                    /\ \A b \in All(m) : Pair(b) = Pair(a) => Position(m, a) <= Position(m, b)}

OrderValid(m) ==
    /\ Len(m.order) = Len(m.assignments)
    /\ IsInjective(m.order) /\ Range(m.order) = {a.id : a \in All(m)}
    /\ \A i \in 2..Len(m.order) : WorkflowAt(m, i) # WorkflowAt(m, i - 1)
    /\ \A a \in All(m), w \in Workflows : Cardinality(Of(m, Pair(a), w)) = 1
    /\ \A s \in {Stratum(a) : a \in All(m)} :
           LET q == Cardinality(Leads(m, s, "qualitygate"))
               e == Cardinality(Leads(m, s, "existing_tools"))
           IN q <= e + 1 /\ e <= q + 1

\* A cohort claims the model its attempts all report, and no other.
Reported(o) == {o.attempts[i].model : i \in DOMAIN o.attempts}
ClaimedModel(o) ==
    IF Cardinality(Reported(o)) = 1 /\ Reported(o) \cap {None, Unknown} = {}
    THEN CHOOSE x \in Reported(o) : TRUE ELSE None

\* Attempts run one after the other inside the window, each as long as its
\* times say (an attempt is [.., from, to, elapsed], the times None without
\* archived evidence).
WithEvidence(o) == SelectSeq(o.attempts, LAMBDA t : Given(t.from))
TimesValid(m, o) ==
    LET timed == WithEvidence(o) IN
    /\ \A i \in DOMAIN timed :
         /\ timed[i].to = timed[i].from + timed[i].elapsed
         /\ Given(m.protocol.start) /\ timed[i].from >= m.protocol.start
         /\ Given(m.protocol.end) /\ timed[i].to <= m.protocol.end
         /\ timed[i].to <= o.at
    /\ \A i \in 2..Len(timed) : timed[i].from >= timed[i-1].to

ObservationsValid(m) ==
    /\ \A i, j \in DOMAIN m.observations :
         i # j => /\ m.observations[i].of # m.observations[j].of
                  /\ m.observations[i].sequence = m.observations[j].sequence =>
                         ~Given(m.observations[i].sequence)
    /\ \A o \in Range(m.observations) :
         /\ \E a \in All(m) : a.id = o.of /\ a.cohort.actual = ClaimedModel(o)
         /\ Given(o.sequence) => o.sequence \in DOMAIN m.order
         /\ TimesValid(m, o)
    /\ \A a \in All(m) : a.id \notin Observed(m) => ~Given(a.cohort.actual)

\* Plausible bug: the run order is not part of the sealed plan.
Plan_Unordered(m) ==
    [protocol |-> m.protocol, sources |-> m.sources,
     assignments |-> [i \in DOMAIN m.assignments |->
                         [m.assignments[i] EXCEPT !.cohort.actual = None]]]

\* plan_digest: providers may disclose the model they routed to only afterwards
Plan(m) ==
    [protocol |-> m.protocol, sources |-> m.sources, order |-> m.order,
     assignments |-> [i \in DOMAIN m.assignments |->
                         [m.assignments[i] EXCEPT !.cohort.actual = None]]]

Valid(m) ==
    /\ ProtocolValid(m.protocol) /\ AssignmentsValid(m) /\ SourcesValid(m)
    /\ OrderValid(m) /\ ObservationsValid(m)
    /\ Given(m.seal) => m.seal = Plan(m)
-----------------------------------------------------------------------------
(* seal, authorization_subject, acceptance *)

Cohort(a) == [a.cohort EXCEPT !.actual = None]
CohortsOf(m, input) == {Cohort(a) : a \in {b \in All(m) : b.input = input}}

WindowReady(p, now) ==
    /\ Given(p.sealed) /\ Given(p.start) /\ Given(p.end)
    /\ p.sealed <= now /\ now <= p.start /\ p.sealed <= p.start
    /\ p.end >= p.start + p.days * Day

Independent(p) == Given(p.owner) /\ Given(p.reviewer) /\ p.owner # p.reviewer

Sealable(m, now) ==
    LET models == {a.cohort.model : a \in All(m)} IN
    /\ Independent(m.protocol) /\ WindowReady(m.protocol, now)
    /\ m.observations = <<>>
    /\ Cardinality(Inputs(m)) = m.protocol.tasks
    /\ \A a \in All(m) : a.origin = "real" /\ ~a.excluded /\ Given(a.truth)
    /\ Cardinality(models) >= 2
    /\ {<<a.cohort.model, a.cohort.workflow>> : a \in All(m)} = models \X Workflows
    /\ \A a, b \in All(m) : a.input = b.input /\ Cohort(a) = Cohort(b) => a = b
    /\ \A i, j \in Inputs(m) : CohortsOf(m, i) = CohortsOf(m, j)

Seal(m, now) ==
    IF Valid(m) /\ Sealable(m, now) THEN [ok |-> TRUE, manifest |-> [m EXCEPT !.seal = Plan(m)]]
    ELSE [ok |-> FALSE]

\* What the owner signs, before anything is observed
Subject(m) ==
    IF Valid(m) /\ Given(m.seal) /\ Independent(m.protocol)
    THEN [plan |-> m.seal, owner |-> m.protocol.owner, reviewer |-> m.protocol.reviewer,
          start |-> m.protocol.start, end |-> m.protocol.end]
    ELSE None

\* The whole manifest, and the records it was signed with
AcceptanceSubject(m, authorization) == [manifest |-> m, authorization |-> authorization]

\* summarize_with_acceptance: the status of a trial, or "error"
Trial(m, authorization, acceptance, complete, ready, met) ==
    LET started == Given(authorization) /\ Subject(m) # None /\ authorization = Subject(m)
    IN CASE ~Valid(m) \/ (Given(authorization) /\ ~started) -> "error"
         [] Valid(m) /\ ~Given(acceptance) /\ (Given(authorization) => started) -> "pending"
         [] OTHER ->
              IF /\ started /\ complete /\ ready
                 /\ acceptance.subject = AcceptanceSubject(m, authorization)
                 /\ acceptance.decision = "accepted" => met
              THEN acceptance.decision ELSE "error"
-----------------------------------------------------------------------------
(* schedule::audit and execution_audit::audit *)

\* Observations without a sequence are missing, whatever the others say.
Schedule(m) ==
    LET told == {o \in Range(m.observations) : Given(o.sequence)}
    IN CASE \E o \in told : m.order[o.sequence] # o.of -> "deviated"
         [] \A o \in told : m.order[o.sequence] = o.of ->
              IF {o.of : o \in told} = Range(m.order) THEN "matched" ELSE "incomplete"

First(o) == o.attempts[1]
\* The runs whose start is archived, and two of them that follow each other
Timed(m) == {o \in Range(m.observations) :
                 Given(o.sequence) /\ o.attempts # <<>> /\ Given(First(o).from)}
Adjacent(m, x, y) ==
    /\ x.sequence < y.sequence
    /\ \A z \in Timed(m) : z.sequence <= x.sequence \/ y.sequence <= z.sequence

Execution(m) ==
    LET early(x, y) == Adjacent(m, x, y) /\ First(y).from <= First(x).from
    IN CASE \E x, y \in Timed(m) : early(x, y) -> "deviated"
         [] \A x, y \in Timed(m) : ~early(x, y) ->
              IF /\ Observed(m) = {a.id : a \in All(m)}
                 /\ \A o \in Range(m.observations) :
                      /\ o.attempts # <<>> /\ Given(o.sequence)
                      /\ \A i \in DOMAIN o.attempts : Given(o.attempts[i].from)
              THEN "matched" ELSE "incomplete"
-----------------------------------------------------------------------------
(* What the plan promises *)

\* A sealed plan compares like with like: every task runs under both workflows
\* with every model, the two in balanced order, and at no moment of the trial
\* has one workflow run two tasks more than the other (validation.rs:73-177, 755-803).
SealedIsBalanced(m, now) ==
    Seal(m, now).ok =>
        /\ \A i \in Inputs(m), w \in Workflows, x \in {a.cohort.model : a \in All(m)} :
               \E a \in All(m) : a.input = i /\ a.cohort.workflow = w /\ a.cohort.model = x
        /\ \A n \in 0..Len(m.order) :
               LET ran(w) == Cardinality({i \in 1..n : WorkflowAt(m, i) = w}) IN
               /\ ran("qualitygate") <= ran("existing_tools") + 1
               /\ ran("existing_tools") <= ran("qualitygate") + 1

\* What a trial may add to a sealed plan: observations and the models they report
Extends(new, m) ==
    /\ new.seal = m.seal
    /\ new.protocol = m.protocol /\ new.sources = m.sources /\ new.order = m.order
    /\ Len(new.assignments) = Len(m.assignments)
    /\ \A i \in DOMAIN m.assignments :
           [new.assignments[i] EXCEPT !.cohort.actual = None] =
               [m.assignments[i] EXCEPT !.cohort.actual = None]

\* Nothing planned is changed after the fact: whatever is edited in a sealed
\* manifest, it stays valid only if observations are all that was added, and a
\* trial is accepted or rejected only as the exact manifest that its owner
\* authorized and its reviewer saw (validation.rs:45-65, 744-753; metrics.rs:567-594).
NothingPostHoc(m, now, new) ==
    LET sealed == Seal(m, now).manifest
        edited == [new EXCEPT !.seal = sealed.seal]
        authorization == Subject(sealed)
        review == [subject |-> AcceptanceSubject(sealed, authorization), decision |-> "accepted"]
    IN Seal(m, now).ok =>
        /\ Valid(edited) => Extends(edited, sealed)
        /\ Trial(edited, authorization, review, TRUE, TRUE, TRUE) = "accepted" => edited = sealed

\* A schedule that is reported as followed was: every run has a position of its
\* own, and where the runs' clocks are archived as well, they start in that
\* order (schedule.rs:5-47; execution_audit.rs:10-90).
FollowedIsFollowed(m) ==
    (Valid(m) /\ Schedule(m) = "matched") =>
        /\ \A i \in DOMAIN m.order : \E o \in Range(m.observations) :
               o.of = m.order[i] /\ o.sequence = i
        /\ Execution(m) = "matched" =>
               \A o, q \in Range(m.observations) :
                   Position(m, Named(m, o.of)) < Position(m, Named(m, q.of)) =>
                       First(o).from < First(q).from
=============================================================================

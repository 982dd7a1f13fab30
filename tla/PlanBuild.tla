----------------------------- MODULE PlanBuild -----------------------------
(***************************************************************************)
(* Plan::build (config/plan.rs): from a repository configuration, an       *)
(* optional task contract and a profile to the checks that run, the order  *)
(* they run in, the ones the gate requires and the ones left to a later    *)
(* full run.  An entry is a rule or a check; entries are named by their    *)
(* position, the rules (a BTreeMap) before the checks (a list), which is   *)
(* the order the code walks them in.  What an entry executes is abstracted.*)
(***************************************************************************)
EXTENDS Naturals, Sequences, Functions

CONSTANTS Configs,   \* the configurations a repository may hold
          Coverage   \* the id of the aggregate constraint check

\* A configuration is [entries, task, profiles]: a list of entries, the ones a
\* task contract adds, and the included entries per profile, <<>> if undeclared.
\* An entry is [rule, enabled, required, dependsOn].  The layout validation has
\* refused unknown ids, and no id of the configuration is the aggregate's.
WellFormed(c) ==
  /\ c.entries \in Seq([rule : BOOLEAN, enabled : BOOLEAN, required : BOOLEAN,
                        dependsOn : SUBSET DOMAIN c.entries])
  /\ c.task \subseteq DOMAIN c.entries
  /\ \A p \in {"quick", "full"} :
       c.profiles[p] = <<>> \/ c.profiles[p][1] \subseteq DOMAIN c.entries
  /\ Coverage \notin DOMAIN c.entries

ConfigsWellFormed == \A c \in Configs : WellFormed(c)

VARIABLES config,     \* the combined configuration
          profile,    \* the profile asked for
          stage,      \* "combine", "close", "order", "done" or "bail"
          needed,     \* the selected ids and the prerequisites found so far
          round,      \* rounds of the closure left
          visit,      \* the entry the round comes to next
          remaining,  \* enabled needed entries not ordered yet
          order,      \* the execution order so far
          required,   \* the ids the gate requires
          pending     \* required ids this profile leaves to a delivery run

vars == <<config, profile, stage, needed, round, visit, remaining, order, required, pending>>

entries == config.entries
All == DOMAIN entries

\* Checks carry no enabled flag; a rule may be switched off.
Enabled(i) == ~entries[i].rule \/ entries[i].enabled

AllRequired == {i \in All : entries[i].required /\ Enabled(i)}

Ordered == Range(order)

Init ==
  /\ config \in Configs /\ profile \in {"quick", "full"}
  /\ stage = "combine" /\ needed = {} /\ round = 0 /\ visit = 1 /\ remaining = {}
  /\ order = <<>> /\ required = {} /\ pending = {}

\* What validation::layout finds by completing entries whose prerequisites have
\* completed (ConfigLayout has its sweeps): in no set of entries does each wait
\* for another of the set.
Acyclic ==
  \A S \in (SUBSET All) \ {{}} : \E i \in S : entries[i].dependsOn \cap S = {}

\* The task's checks join an explicit full profile.
Included(p) ==
  IF config.profiles[p] = <<>> THEN <<>>
  ELSE <<config.profiles[p][1] \cup (IF p = "full" THEN config.task ELSE {})>>

Valid == Acyclic /\ (Included("full") = <<>> \/ AllRequired \subseteq Included("full")[1])

\* Without a declared profile quick takes the rules and full everything.
Selected ==
  IF Included(profile) # <<>> THEN Included(profile)[1]
  ELSE IF profile = "quick" THEN {i \in All : entries[i].rule} ELSE All

Combine ==
  /\ stage = "combine"
  /\ IF Valid
       THEN stage' = "close" /\ needed' = Selected /\ round' = Len(entries)
       ELSE stage' = "bail" /\ UNCHANGED <<needed, round>>
  /\ UNCHANGED <<config, profile, visit, remaining, order, required, pending>>

\* Each round comes to every entry, in order, and adds its prerequisites when
\* it is needed by then.
Gather ==
  /\ needed' = IF visit \in needed THEN needed \cup entries[visit].dependsOn ELSE needed
  /\ UNCHANGED <<config, profile, stage, remaining, order, required, pending>>

\* Plausible bug: one round is taken to be enough.
Close_Once ==
  /\ stage = "close" /\ round > 0 /\ Gather
  /\ IF visit = Len(entries) THEN visit' = 1 /\ round' = 0
                             ELSE visit' = visit + 1 /\ round' = round

Close ==
  /\ stage = "close" /\ round > 0 /\ Gather
  /\ IF visit = Len(entries) THEN visit' = 1 /\ round' = round - 1
                             ELSE visit' = visit + 1 /\ round' = round

\* Only enabled entries are left to order.
StartOrder ==
  /\ stage = "close" /\ round = 0
  /\ stage' = "order" /\ remaining' = {i \in needed : Enabled(i)}
  /\ UNCHANGED <<config, profile, needed, round, visit, order, required, pending>>

\* Plausible bug: a prerequisite that is not in the plan counts as met.
Ready_Absent == {i \in remaining : entries[i].dependsOn \cap remaining = {}}

Ready == {i \in remaining : entries[i].dependsOn \subseteq Ordered}

\* The first entry whose prerequisites are ordered comes next.
Place ==
  /\ stage = "order"
  /\ \E i \in Ready :
       /\ \A j \in Ready : i <= j
       /\ order' = Append(order, i) /\ remaining' = remaining \ {i}
  /\ UNCHANGED <<config, profile, stage, needed, round, visit, required, pending>>

\* "Check depends on a disabled or unavailable prerequisite".
Stuck ==
  /\ stage = "order" /\ remaining # {} /\ Ready = {}
  /\ stage' = "bail"
  /\ UNCHANGED <<config, profile, needed, round, visit, remaining, order, required, pending>>

\* Plausible bug: what the profile left out is dropped, not reported.
Finish_Forgets ==
  /\ stage = "order" /\ remaining = {}
  /\ stage' = "done" /\ pending' = {}
  /\ \E constraints \in {"none", "optional", "required"} :
       /\ order' = IF constraints = "none" THEN order ELSE Append(order, Coverage)
       /\ required' = (AllRequired \cap Ordered)
                        \cup (IF constraints = "required" THEN {Coverage} ELSE {})
  /\ UNCHANGED <<config, profile, needed, round, visit, remaining>>

\* The clause coverage check comes last, whatever the profile.
Finish ==
  /\ stage = "order" /\ remaining = {}
  /\ stage' = "done" /\ pending' = AllRequired \ Ordered
  /\ \E constraints \in {"none", "optional", "required"} :
       /\ order' = IF constraints = "none" THEN order ELSE Append(order, Coverage)
       /\ required' = (AllRequired \cap Ordered)
                        \cup (IF constraints = "required" THEN {Coverage} ELSE {})
  /\ UNCHANGED <<config, profile, needed, round, visit, remaining>>

Ended == stage \in {"done", "bail"} /\ UNCHANGED vars

Next == Combine \/ Close \/ StartOrder \/ Place \/ Stuck \/ Finish \/ Ended

Spec == Init /\ [][Next]_vars

-----------------------------------------------------------------------------
\* The executor blocks a check whose prerequisites have no result yet, so the
\* order must put every prerequisite first, and nothing twice, and it must run
\* no disabled rule.
OrderIsSchedule ==
  \A k \in DOMAIN order : order[k] # Coverage =>
    /\ Enabled(order[k])
    /\ \A i \in entries[order[k]].dependsOn : \E j \in 1..(k - 1) : order[j] = i
    /\ \A j \in 1..(k - 1) : order[j] # order[k]

\* A profile narrows what runs, never what is owed: each required check of the
\* configuration is either required of this run or listed as pending delivery,
\* and a full run owes nothing to a later one.
NothingForgotten ==
  stage = "done" =>
    /\ (required \ {Coverage}) \cup pending = AllRequired
    /\ required \cap pending = {}
    /\ required \subseteq Ordered
    /\ profile = "full" => pending = {}

\* The ids reached from the selection over prerequisites: what is in every set
\* that has the selection and the prerequisites of its members.
Closed(S) == \A i \in S : entries[i].dependsOn \subseteq S
Reachable == {i \in All : \A S \in SUBSET All : Selected \subseteq S /\ Closed(S) => i \in S}

\* The plan runs the enabled entries reached from the selection and no others;
\* it is refused, after the configuration proved valid, only when one of them
\* reaches a disabled rule.
RunsWhatIsReached ==
  /\ stage = "done" => Ordered \ {Coverage} = {i \in Reachable : Enabled(i)}
  /\ stage = "bail" /\ Valid =>
       \E i \in Reachable : Enabled(i) /\ \E j \in entries[i].dependsOn : ~Enabled(j)
=============================================================================

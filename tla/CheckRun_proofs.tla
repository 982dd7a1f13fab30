--------------------------- MODULE CheckRun_proofs ---------------------------
(***************************************************************************)
(* What one evaluation guarantees whatever plan it runs and however often  *)
(* the world moves (CheckRun): evidence is of the present, verdicts only   *)
(* fall, and a pass is earned by what the checks reported.                 *)
(***************************************************************************)
EXTENDS CheckRun, FiniteSetTheorems, TLAPS

IsSeq(s) == s \in Seq(Range(s))

Fields == {"id", "required", "severity", "applicability", "status", "reason", "verdict",
           "diagnostics"}

\* A result that says nothing.
Voided(r) == r.verdict = "none" /\ r.status # "completed"

\* What a stage after the checks may make of a result.
Weakens(r, q) ==
    /\ DOMAIN q = Fields /\ q.id = r.id /\ q.verdict \in {r.verdict, "none"}
    /\ Usable(q) => Usable(r)
    /\ q = r \/ Voided(q)

\* The checks the loop has passed.
Done == {plan.order[j] : j \in 1..(at - 1)} \ {Coverage}

Worlds == [source : {0, 1}, env : {0, 1}, writes : Nat, altered : BOOLEAN, expired : SUBSET Ids,
           revoked : BOOLEAN]

Structure ==
    /\ plan \in Plans /\ world \in Worlds /\ at \in 1..(Len(plan.order) + 1) /\ DOMAIN guard = {"exists", "latched"}
    /\ IsSeq(results) /\ \A k \in 1..Len(results) : DOMAIN results[k] = Fields
    /\ phase \in {"probing", "running"} =>
         at <= Len(plan.order) /\ Current # Coverage /\ Kind(Current) = "command"

\* Results are of checks the loop has passed, so each check has at most one.
Listed ==
    /\ \A k \in 1..Len(results) : results[k].id \in Done \cup {Coverage}
    /\ tainted \subseteq Done

\* A signed check completes only on records that were loaded.
SignedRight ==
    /\ \A i \in Signed : i \in DOMAIN ran /\ ran[i].status = "completed" => loaded
    /\ phase \in {"capture", "prepare"} => ~loaded

TaintedIsNoEvidence ==
    \A k \in 1..Len(results) : results[k].id \in tainted => ~Usable(results[k])

\* The phases after each of the later reads
AfterAuthority  == {"bounds", "coverage", "gate", "done"}
AfterEnv        == {"authority"} \cup AfterAuthority
AfterSource     == {"environment"} \cup AfterEnv
AfterProvenance == {"source"} \cup AfterSource
AfterManual     == {"provenance"} \cup AfterProvenance
AfterInputs     == {"manual"} \cup AfterManual

\* What cannot be taken back: if it had happened in world w, it has in world v.
Precedes(w, v) ==
    /\ v.writes = 0 => w.writes = 0
    /\ w.expired \subseteq v.expired
    /\ w.revoked => v.revoked

\* Since the last check ended the window holds every state of the world, in order.
WindowOpen ==
    /\ IsSeq(window)
    /\ phase \in {"inputs"} \cup AfterInputs =>
         Len(window) > 0 /\ window[Len(window)] = world /\ Precedes(window[1], world)

\* A signed check's proof was in force when the last check ended, or its result
\* is not a completed one.
Lapsed(i) ==
    \/ i \notin window[1].expired
    \/ \A k \in 1..Len(results) : results[k].id = i => results[k].status # "completed"

\* The later reads of what can be put back, up to each of them.
RecordsRead == \E r \in 1..Len(window) : loaded => ~window[r].altered

SourceRead ==
    \E r, s \in 1..Len(window) :
      r <= s /\ (loaded => ~window[r].altered) /\ (plan.recapture => window[s].source = captured.source)

EnvRead ==
    \E r, s, e \in 1..Len(window) :
      /\ r <= s /\ s <= e
      /\ (loaded => ~window[r].altered) /\ (plan.recapture => window[s].source = captured.source)
      /\ window[e].env = captured.env

\* The phases after the read at which the proof of a signed check is looked at.
ReadOf(i) == IF Kind(i) = "manual" THEN AfterManual ELSE AfterProvenance

\* What each of the later reads established, unless it gave a reason not to
\* trust the evaluation.
Established ==
    /\ phase \in AfterInputs /\ guard.exists => window[1].writes = 0
    /\ phase \in AfterManual => RecordsRead
    /\ phase \in AfterSource => SourceRead
    /\ phase \in AfterEnv => EnvRead
    /\ phase \in AfterAuthority /\ plan.active => ~window[1].revoked
    /\ \A i \in Signed :
         phase \in ReadOf(i) /\ i \in DOMAIN ran /\ ran[i].status = "completed" => Lapsed(i)

Decided ==
    decision # "none" => phase = "done" /\ decision = Decide(results, plan.required, invalid)

\* A check that completed says so by the diagnostics it reports.
Sane(r) ==
    /\ DOMAIN r = Fields
    /\ r.status = "completed" =>
         /\ r.diagnostics \in Seq(Diagnostics)
         /\ r.verdict = IF r.diagnostics = <<>> THEN "pass" ELSE "fail"

\* Nothing in what a check reported counts against it.
Clean(r) ==
    r.status = "completed" /\ \A k \in DOMAIN r.diagnostics : ~Counts(r.id, r.diagnostics[k])

\* Each result is what its check reported, settled, or it has no verdict.
Accounted ==
    /\ DOMAIN ran \subseteq Done
    /\ \A i \in DOMAIN ran : ran[i].id = i /\ Sane(ran[i])
    /\ \A k \in 1..Len(results) : results[k].id # Coverage =>
         /\ results[k].id \in DOMAIN ran
         /\ results[k] = Settle(ran[results[k].id]) \/ Voided(results[k])

\* What a check that has anything but a gap rests on, and a command that runs.
Supported ==
    /\ \A i \in DOMAIN ran : ran[i].status \notin Gaps =>
         \A j \in plan.check[i].dependsOn : j \in DOMAIN ran /\ Clean(ran[j])
    /\ phase \in {"probing", "running"} => \A j \in plan.check[Current].dependsOn : Passed(j)

\* A usable coverage result has every required clause established.
Covered ==
    /\ phase \notin {"gate", "done", "error"} => \A k \in 1..Len(results) : results[k].id # Coverage
    /\ \A k \in 1..Len(results) : results[k].id = Coverage /\ Usable(results[k]) =>
         \A c \in plan.clauses : c.required =>
           /\ c.adopted
           /\ \A i \in c.checks : \E j \in 1..Len(results) :
                results[j].id = i /\ Usable(results[j])

Inductive ==
    /\ Structure /\ Listed /\ SignedRight /\ TaintedIsNoEvidence /\ WindowOpen
    /\ invalid = {} => Established
    /\ Decided /\ Accounted /\ Supported /\ Covered

\* What a step may do to the results there are.
Falls ==
    \A k \in DOMAIN results :
      /\ k \in DOMAIN results' /\ results'[k].id = results[k].id
      /\ results'[k].verdict \in {results[k].verdict, "none"}

-----------------------------------------------------------------------------
(* Results *)

LEMMA BlockFacts ==
    ASSUME NEW r, DOMAIN r = Fields, NEW g
    PROVE  /\ DOMAIN Block(r, g) = Fields /\ Block(r, g).id = r.id
           /\ Block(r, g).verdict = "none" /\ Block(r, g).status = g
           /\ ~Usable(Block(r, g)) /\ (g # "completed" => Weakens(r, Block(r, g)))
  <1>1. /\ DOMAIN Block(r, g) = Fields /\ Block(r, g).id = r.id
        /\ Block(r, g).verdict = "none" /\ Block(r, g).status = g
    BY DEF Block, Fields
  <1>2. ~Usable(Block(r, g))  BY <1>1 DEF Usable, ValidCompleted, ValidSkip
  <1> QED  BY <1>1, <1>2 DEF Weakens, Voided

\* Completing makes the verdict what the diagnostics say.
LEMMA CompleteFacts ==
    ASSUME NEW r, DOMAIN r = Fields
    PROVE  /\ DOMAIN Complete(r) = Fields /\ Complete(r).id = r.id
           /\ Complete(r).verdict \in {"pass", "fail"}
           /\ Complete(r).status = "completed" /\ Complete(r).severity = r.severity
           /\ Complete(r).diagnostics = r.diagnostics
           /\ Complete(r).verdict = IF r.diagnostics = <<>> THEN "pass" ELSE "fail"
  BY DEF Complete, Fields

LEMMA PendingFacts ==
    ASSUME NEW i
    PROVE  /\ DOMAIN Fresh(i) = Fields /\ Fresh(i).id = i
           /\ DOMAIN Applicable(i) = Fields /\ Applicable(i).id = i
           /\ DOMAIN Skip(Fresh(i)) = Fields /\ Skip(Fresh(i)).id = i
           /\ Skip(Fresh(i)).status = "not_run"
  BY DEF Fresh, Pending, Fields, Applicable, Skip

LEMMA AttachFacts ==
    ASSUME NEW r, DOMAIN r = Fields
    PROVE  Weakens(r, Attach(r))
  <1> DEFINE q == [r EXCEPT !.diagnostics = SubSeq(@, 1, MaxRecords)]
             g == IF r.status \in {"completed", "not_run"} THEN "blocked" ELSE r.status
  <1>1. CASE Len(r.diagnostics) <= MaxRecords
    BY <1>1 DEF Attach, Weakens
  <1>2. CASE ~(Len(r.diagnostics) <= MaxRecords)
    <2>1. Attach(r) = Block(q, g)  BY <1>2 DEF Attach
    <2>2. DOMAIN q = Fields /\ q.id = r.id /\ g # "completed"
      BY DEF Fields
    <2> HIDE DEF q, g
    <2>3. /\ DOMAIN Attach(r) = Fields /\ Attach(r).id = r.id /\ ~Usable(Attach(r))
          /\ Voided(Attach(r))
      BY <2>1, <2>2, BlockFacts DEF Voided
    <2> QED  BY <2>3 DEF Weakens, Voided
  <1> QED  BY <1>1, <1>2

\* A check that does not complete is as it says.
LEMMA BlockSane == ASSUME NEW r, DOMAIN r = Fields, NEW g \in Gaps  PROVE Sane(Block(r, g))
  BY BlockFacts DEF Sane, Gaps

LEMMA CompleteSane ==
    ASSUME NEW r, DOMAIN r = Fields, r.diagnostics \in Reports
    PROVE  Sane(Complete(r))
  <1>1. r.diagnostics \in Seq(Diagnostics)  BY RunAssumption
  <1> QED  BY <1>1, CompleteFacts DEF Sane

\* What a check reports completes or is a gap.
LEMMA OutcomeFacts ==
    ASSUME NEW p, DOMAIN p = Fields, NEW r \in Outcomes(p)
    PROVE  DOMAIN r = Fields /\ r.id = p.id /\ r.verdict \in {"pass", "fail", "none"} /\ Sane(r)
  <1> DEFINE D(ds) == [p EXCEPT !.diagnostics = ds]
  <1>1. \A ds : DOMAIN D(ds) = Fields /\ D(ds).id = p.id /\ D(ds).diagnostics = ds  BY DEF Fields
  <1>2. \/ \E ds \in Reports : r = Complete(D(ds))
        \/ \E ds \in Reports, g \in Faults : r = Block(D(ds), g)
    BY DEF Outcomes
  <1> HIDE DEF D
  <1>3. ASSUME NEW ds \in Reports, r = Complete(D(ds))
        PROVE  DOMAIN r = Fields /\ r.id = p.id /\ r.verdict \in {"pass", "fail", "none"} /\ Sane(r)
    BY <1>1, <1>3, CompleteFacts, CompleteSane
  <1>4. ASSUME NEW ds \in Reports, NEW g \in Faults, r = Block(D(ds), g)
        PROVE  DOMAIN r = Fields /\ r.id = p.id /\ r.verdict \in {"pass", "fail", "none"} /\ Sane(r)
    BY <1>1, <1>4, BlockFacts, BlockSane, RunAssumption
  <1> QED  BY <1>2, <1>3, <1>4

\* Selecting leaves nothing only of a list that has nothing selected.
LEMMA InScopeFacts ==
    ASSUME NEW ds \in Seq(Diagnostics), InScope(ds) = <<>>
    PROVE  \A k \in DOMAIN ds : ds[k] \notin Selected
  <1> DEFINE places == {k \in DOMAIN ds : ds[k] \in Selected}
  <1>1. Len(ds) \in Nat /\ DOMAIN ds = 1..Len(ds)  OBVIOUS
  <1>2. IsFiniteSet(1..Len(ds))  BY <1>1, FS_Interval
  <1>3. places \in SUBSET (1..Len(ds))  BY <1>1
  <1>4. IsFiniteSet(places)  BY <1>2, <1>3, FS_Subset
  <1>5. Cardinality(places) \in Nat  BY <1>4, FS_CardinalityType
  <1>6. DOMAIN InScope(ds) = 1..Cardinality(places)  BY DEF InScope
  <1>7. 1 \notin 1..Cardinality(places)  BY <1>6
  <1>8. Cardinality(places) = 0  BY <1>5, <1>7
  <1> QED  BY <1>4, <1>8, FS_EmptySet

LEMMA SettleFacts ==
    ASSUME NEW r, DOMAIN r = Fields
    PROVE  /\ DOMAIN Settle(r) = Fields /\ Settle(r).id = r.id
           /\ Settle(r).verdict = "skipped" => r.verdict = "skipped"
           /\ Kind(r.id) \notin {"rule", "provenance"} => Settle(r) = r
  <1> DEFINE q == [r EXCEPT !.diagnostics = InScope(@)]
  <1>1. DOMAIN q = Fields /\ q.id = r.id  BY DEF Fields
  <1>2. Filter(r) = r \/ Filter(r) = Complete(q)  BY DEF Filter
  <1> HIDE DEF q
  <1>3. /\ DOMAIN Filter(r) = Fields /\ Filter(r).id = r.id
        /\ Filter(r).verdict = "skipped" => r.verdict = "skipped"
    BY <1>1, <1>2, CompleteFacts
  <1>4. Settle(r) \in {r, Filter(r), Block(Filter(r), "blocked")}  BY DEF Settle
  <1>5. Kind(r.id) \notin {"rule", "provenance"} => Settle(r) = r  BY DEF Settle
  <1> QED  BY <1>3, <1>4, <1>5, BlockFacts

\* A settled result says no more for the check than what it reported: a pass has
\* nothing that counts against it, a skip was one, a verdict was earned.
LEMMA SettleEarns ==
    ASSUME NEW r, Sane(r)
    PROVE  /\ Settle(r).status = "completed" =>
                r.status = "completed" /\ Settle(r).severity = r.severity
           /\ Settle(r).status = "completed" /\ Settle(r).verdict = "pass" => Clean(r)
           /\ ValidSkip(Settle(r)) => ValidSkip(r)
  <1> DEFINE q == [r EXCEPT !.diagnostics = InScope(@)]
  <1>1. DOMAIN r = Fields  BY DEF Sane
  <1>2. /\ DOMAIN q = Fields /\ q.id = r.id /\ q.severity = r.severity
        /\ q.diagnostics = InScope(r.diagnostics)
    BY <1>1 DEF Fields
  <1>3. \/ Settle(r) = r /\ (plan.delivery => Kind(r.id) \notin {"rule", "provenance"}
                                           \/ r.status # "completed")
        \/ /\ Settle(r) = Complete(q) /\ r.status = "completed"
           /\ plan.delivery /\ Kind(r.id) \in {"rule", "provenance"}
        \/ Settle(r) = Block(Filter(r), "blocked")
    BY DEF Settle, Filter
  <1> HIDE DEF q
  <1>4. CASE Settle(r) = r
    <2>1. r.status = "completed" /\ r.verdict = "pass" => r.diagnostics = <<>>
      BY DEF Sane
    <2>2. DOMAIN <<>> = {}  OBVIOUS
    <2> QED  BY <1>4, <2>1, <2>2 DEF Clean
  <1>5. CASE /\ Settle(r) = Complete(q) /\ r.status = "completed"
             /\ plan.delivery /\ Kind(r.id) \in {"rule", "provenance"}
    <2>1. /\ Complete(q).status = "completed" /\ Complete(q).severity = r.severity
          /\ Complete(q).verdict = IF InScope(r.diagnostics) = <<>> THEN "pass" ELSE "fail"
      BY <1>2, CompleteFacts
    <2>2. ~ValidSkip(Complete(q))  BY <2>1 DEF ValidSkip
    <2>3. ASSUME Complete(q).verdict = "pass"  PROVE Clean(r)
      <3>1. InScope(r.diagnostics) = <<>> /\ r.diagnostics \in Seq(Diagnostics)
        BY <1>5, <2>1, <2>3 DEF Sane
      <3>2. \A k \in DOMAIN r.diagnostics : r.diagnostics[k] \notin Selected
        BY <3>1, InScopeFacts
      <3> QED  BY <1>5, <3>2 DEF Clean, Counts
    <2> QED  BY <1>5, <2>1, <2>2, <2>3
  <1>6. CASE Settle(r) = Block(Filter(r), "blocked")
    <2>1. DOMAIN Filter(r) = Fields
      <3>1. Filter(r) = r \/ Filter(r) = Complete(q)  BY DEF Filter, q
      <3> QED  BY <1>1, <1>2, <3>1, CompleteFacts
    <2>2. Settle(r).status = "blocked"  BY <1>6, <2>1, BlockFacts
    <2> QED  BY <2>2 DEF ValidSkip
  <1> QED  BY <1>3, <1>4, <1>5, <1>6

\* What counts and what settling does depend on the plan alone.
LEMMA SamePlan ==
    ASSUME UNCHANGED plan
    PROVE  /\ \A r : Settle(r)' = Settle(r)
           /\ \A r : Clean(r)' = Clean(r)
  BY DEF Settle, Filter, Kind, Clean, Counts

\* A prerequisite that passed ran, and left nothing that counts.
LEMMA PassedFacts ==
    ASSUME Structure, Accounted, NEW i \in Ids, Coverage \notin Ids, Passed(i)
    PROVE  i \in DOMAIN ran /\ Clean(ran[i])
  <1>1. PICK k \in 1..Len(results) :
          results[k].id = i /\ results[k].status = "completed" /\ results[k].verdict = "pass"
    BY DEF Passed, Structure, IsSeq
  <1>2. i \in DOMAIN ran /\ results[k] = Settle(ran[i])  BY <1>1 DEF Accounted, Voided
  <1> QED  BY <1>1, <1>2, SettleEarns DEF Accounted

LEMMA AppendIsSeq ==
    ASSUME NEW s, IsSeq(s), NEW x
    PROVE  /\ IsSeq(Append(s, x)) /\ Len(Append(s, x)) = Len(s) + 1 /\ Len(s) \in Nat
           /\ DOMAIN s = 1..Len(s)
           /\ \A k \in 1..Len(s) : Append(s, x)[k] = s[k]
           /\ Append(s, x)[Len(s) + 1] = x
  <1> DEFINE S == Range(s) \cup {x}
             t == Append(s, x)
  <1>1. s \in Seq(S) /\ x \in S  BY DEF IsSeq
  <1>2. /\ t \in Seq(S) /\ Len(t) = Len(s) + 1 /\ Len(s) \in Nat
        /\ \A k \in 1..Len(s) : t[k] = s[k]
        /\ t[Len(s) + 1] = x
    BY <1>1
  <1>3. \A k \in 1..Len(t) : t[k] \in Range(t)  BY <1>2 DEF Range
  <1>4. t \in Seq(Range(t))  BY <1>2, <1>3
  <1> QED  BY <1>1, <1>2, <1>4 DEF IsSeq

LEMMA MapIsSeq ==
    ASSUME NEW s, IsSeq(s), NEW t, DOMAIN t = DOMAIN s, t = [k \in DOMAIN t |-> t[k]]
    PROVE  IsSeq(t) /\ Len(t) = Len(s) /\ Len(s) \in Nat /\ DOMAIN s = 1..Len(s)
  <1>1. Len(s) \in Nat /\ DOMAIN s = 1..Len(s)  BY DEF IsSeq
  <1>2. \A k \in 1..Len(s) : t[k] \in Range(t)  BY <1>1 DEF Range
  <1>3. t \in [1..Len(s) -> Range(t)]  BY <1>1, <1>2
  <1>4. t \in Seq(Range(t)) /\ Len(t) = Len(s)  BY <1>1, <1>3
  <1> QED  BY <1>1, <1>4 DEF IsSeq

-----------------------------------------------------------------------------
(* Before and during the checks *)

Early == {"capture", "prepare", "materialize", "loop", "probing", "running", "error"}

\* Until the checks have run nothing has been read again.
LEMMA EarlyIsOpen == phase \in Early /\ IsSeq(window) => WindowOpen /\ Established
  BY DEF Early, WindowOpen, Established, ReadOf, AfterInputs, AfterManual, AfterProvenance, AfterSource,
         AfterEnv, AfterAuthority

LEMMA PlanFacts ==
    ASSUME Structure
    PROVE  /\ plan.order \in Seq(Ids \cup {Coverage}) /\ Len(plan.order) \in Nat /\ at \in Nat
           /\ Scheduled(plan) /\ Done \subseteq Ids /\ Coverage \notin Ids
           /\ DOMAIN plan.order = 1..Len(plan.order)
  <1>1. plan \in Plan /\ Scheduled(plan) /\ Coverage \notin Ids
    BY RunAssumption DEF Structure
  <1>2. plan.order \in Seq(Ids \cup {Coverage})  BY <1>1 DEF Plan
  <1> QED  BY <1>1, <1>2 DEF Structure, Done

\* The loop body ends: the check was not recorded before, and it is no evidence
\* when it ended on inputs that had been written to.
LEMMA RecordKeeps ==
    ASSUME Inductive, phase \in {"loop", "probing", "running"},
           at <= Len(plan.order), Current # Coverage,
           NEW r, NEW signed, Record(r, signed), Sane(r), r.id = Current,
           r.status \notin Gaps => \A j \in plan.check[Current].dependsOn : Passed(j),
           Current \in Signed => (r.status = "completed" => loaded),
           DOMAIN guard' = {"exists", "latched"}, tainted' \subseteq tainted \cup {Current},
           Current \in tainted' => ~Usable(Settle(r))
    PROVE  Inductive' /\ Falls
  <1>1. /\ results' = Append(results, Settle(r)) /\ at' = at + 1 /\ phase' = "loop"
        /\ ran' = [i \in DOMAIN ran \cup {r.id} |-> IF i = r.id THEN r ELSE ran[i]]
        /\ UNCHANGED <<plan, loaded, decision, invalid, window, world>>
    BY DEF Record, given
  <1>2. /\ IsSeq(results') /\ Len(results') = Len(results) + 1 /\ Len(results) \in Nat
        /\ \A k \in 1..Len(results) : results'[k] = results[k]
        /\ results'[Len(results) + 1] = Settle(r)
    BY <1>1, AppendIsSeq DEF Inductive, Structure
  <1>3. DOMAIN Settle(r) = Fields /\ Settle(r).id = Current
    BY SettleFacts DEF Sane
  <1>4. Current \in Ids /\ Current \notin Done /\ Done' = Done \cup {Current}
    BY <1>1, PlanFacts DEF Inductive, Structure, Scheduled, Done, Current
  <1>5. Structure'
    <2>1. at' \in 1..(Len(plan.order) + 1)  BY <1>1, PlanFacts DEF Inductive, Structure
    <2> QED  BY <1>1, <1>2, <1>3, <2>1 DEF Inductive, Structure
  <1>6. Listed'  BY <1>2, <1>3, <1>4 DEF Inductive, Listed
  <1>7. Signed' = Signed  BY <1>1 DEF Signed
  <1>8. SignedRight'
    <2>1. \A i \in Signed : i \in DOMAIN ran' /\ ran'[i].status = "completed" => loaded
      BY <1>1 DEF Inductive, SignedRight
    <2> QED  BY <1>1, <1>7, <2>1 DEF SignedRight
  <1>9. TaintedIsNoEvidence'
    <2>1. ASSUME NEW k \in 1..Len(results), results'[k].id \in tainted'  PROVE ~Usable(results'[k])
      <3>1. results[k].id \in Done \cup {Coverage}  BY DEF Inductive, Listed
      <3>2. results[k].id \in tainted  BY <1>2, <1>4, <2>1, <3>1
      <3> QED  BY <1>2, <3>2 DEF Inductive, TaintedIsNoEvidence
    <2> QED  BY <1>2, <1>3, <2>1 DEF TaintedIsNoEvidence
  <1>10. WindowOpen' /\ Established'
    BY <1>1 DEF Inductive, WindowOpen, Established, ReadOf, AfterInputs, AfterManual, AfterProvenance, AfterSource,
                AfterEnv, AfterAuthority
  <1>11. Decided'
    <2>1. decision = "none"  BY DEF Inductive, Decided
    <2> QED  BY <1>1, <2>1 DEF Decided
  <1>12. Falls  BY <1>2 DEF Inductive, Structure, IsSeq, Falls
  <1>13. /\ DOMAIN ran' = DOMAIN ran \cup {Current} /\ ran'[Current] = r
         /\ \A i \in DOMAIN ran : i # Current /\ ran'[i] = ran[i]
    BY <1>1, <1>4 DEF Inductive, Accounted
  <1>14. Accounted'
    <2>1. \A q : Settle(q)' = Settle(q)  BY <1>1, SamePlan
    <2>2. DOMAIN ran' \subseteq Done'  BY <1>4, <1>13 DEF Inductive, Accounted
    <2>3. \A i \in DOMAIN ran' : ran'[i].id = i /\ Sane(ran'[i])
      BY <1>13 DEF Inductive, Accounted
    <2>4. ASSUME NEW k \in 1..Len(results), results'[k].id # Coverage
          PROVE  /\ results'[k].id \in DOMAIN ran'
                 /\ results'[k] = Settle(ran'[results'[k].id]) \/ Voided(results'[k])
      BY <1>2, <1>13, <2>4 DEF Inductive, Accounted
    <2> QED  BY <1>2, <1>3, <1>13, <2>1, <2>2, <2>3, <2>4 DEF Accounted
  <1>15. Supported'
    <2>1. \A q : Clean(q)' = Clean(q)  BY <1>1, SamePlan
    <2>2. plan.check[Current].dependsOn \subseteq Ids  BY <1>4, RunAssumption DEF Inductive, Structure, Plan, Check
    <2>3. r.status \notin Gaps =>
            \A j \in plan.check[Current].dependsOn : j \in DOMAIN ran /\ Clean(ran[j])
      BY <2>2, PassedFacts, RunAssumption DEF Inductive
    <2>4. \A i \in DOMAIN ran' : ran'[i].status \notin Gaps =>
            \A j \in plan.check[i].dependsOn : j \in DOMAIN ran' /\ Clean(ran'[j])
      BY <1>13, <2>3 DEF Inductive, Supported
    <2> QED  BY <1>1, <2>1, <2>4 DEF Supported
  <1>16. Covered'
    <2>1. \A k \in 1..Len(results) : results[k].id # Coverage  BY DEF Inductive, Covered
    <2> QED  BY <1>2, <1>3, <2>1 DEF Covered
  <1> QED
    BY <1>5, <1>6, <1>8, <1>9, <1>10, <1>11, <1>12, <1>14, <1>15, <1>16 DEF Inductive

\* A check that is not executed is blocked; a rule may skip.
LEMMA UnguardedKeeps ==
    ASSUME Inductive, Prevent \/ Rule \/ Provenance \/ Manual \/ Isolated \/ Refuse
    PROVE  Inductive' /\ Falls
  <1>1. AtCheck /\ phase = "loop" /\ at <= Len(plan.order) /\ Current # Coverage
    BY DEF Prevent, Rule, Provenance, Manual, Isolated, Refuse, AtCheck
  <1>2. UNCHANGED <<guard, tainted>>  BY DEF Prevent, Rule, Provenance, Manual, Isolated, Refuse
  <1>3. Current \notin tainted /\ DOMAIN guard = {"exists", "latched"}
    BY <1>1, PlanFacts DEF Inductive, Structure, Listed, Scheduled, Done, Current
  <1>4. PICK r, signed :
          /\ Record(r, signed) /\ Sane(r) /\ r.id = Current
          /\ r.status \notin Gaps => ~Prevented(Current)
          /\ Current \in Signed => (r.status = "completed" => loaded)
    <2>1. LET b == Block(Fresh(Current), "blocked")
              c == Block(Applicable(Current), "blocked") IN
          /\ Sane(b) /\ b.id = Current /\ b.verdict = "none" /\ b.status = "blocked"
          /\ Sane(c) /\ c.id = Current /\ c.verdict = "none" /\ c.status = "blocked"
          /\ "blocked" \in Gaps
      BY PendingFacts, BlockFacts, BlockSane DEF Gaps
    <2>2. CASE Prevent \/ Refuse  BY <2>1, <2>2 DEF Prevent, Refuse
    <2>3. CASE Rule
      <3>1. PICK r \in Outcomes(Fresh(Current)) \cup {Skip(Fresh(Current))} : Record(r, FALSE)
        BY <2>3 DEF Rule
      <3>2. Sane(r) /\ r.id = Current
        <4>1. CASE r \in Outcomes(Fresh(Current))  BY <4>1, PendingFacts, OutcomeFacts
        <4>2. CASE r = Skip(Fresh(Current))  BY <4>2, PendingFacts DEF Sane
        <4> QED  BY <3>1, <4>1, <4>2
      <3>3. Current \notin Signed /\ ~Prevented(Current)  BY <2>3 DEF Rule, Signed, Kind
      <3> QED  BY <3>1, <3>2, <3>3
    <2>4. CASE Provenance
      <3>1. CASE Record(Block(Fresh(Current), "blocked"), TRUE)  BY <2>1, <3>1
      <3>2. CASE loaded /\ \E r \in Outcomes(Fresh(Current)) \cup {Skip(Fresh(Current))} : Record(r, TRUE)
        <4>1. PICK r \in Outcomes(Fresh(Current)) \cup {Skip(Fresh(Current))} : loaded /\ Record(r, TRUE)
          BY <3>2
        <4>2. Sane(r) /\ r.id = Current
          <5>1. CASE r \in Outcomes(Fresh(Current))  BY <5>1, PendingFacts, OutcomeFacts
          <5>2. CASE r = Skip(Fresh(Current))  BY <5>2, PendingFacts DEF Sane
          <5> QED  BY <4>1, <5>1, <5>2
        <4>3. ~Prevented(Current)  BY <2>4 DEF Provenance
        <4> QED  BY <4>1, <4>2, <4>3
      <3> QED  BY <2>4, <3>1, <3>2 DEF Provenance
    <2>5. CASE Manual
      <3>1. CASE Record(Block(Applicable(Current), "blocked"), TRUE)  BY <2>1, <3>1
      <3>2. ASSUME NEW ds \in Reports, loaded, Record(Complete([Applicable(Current) EXCEPT !.diagnostics = ds]), TRUE)
            PROVE  \E r, signed :
                     /\ Record(r, signed) /\ Sane(r) /\ r.id = Current
                     /\ r.status \notin Gaps => ~Prevented(Current)
                     /\ Current \in Signed => (r.status = "completed" => loaded)
        <4> DEFINE q == [Applicable(Current) EXCEPT !.diagnostics = ds]
        <4>1. DOMAIN q = Fields /\ q.id = Current /\ q.diagnostics = ds
          BY PendingFacts DEF Fields
        <4> HIDE DEF q
        <4>2. PICK r : r = Complete(q)  OBVIOUS
        <4>3. Sane(r) /\ r.id = Current
          BY <4>1, <4>2, CompleteFacts, CompleteSane
        <4>4. Record(r, TRUE)  BY <3>2, <4>2 DEF q
        <4>5. ~Prevented(Current)  BY <2>5 DEF Manual
        <4> QED  BY <3>2, <4>3, <4>4, <4>5
      <3> QED  BY <2>5, <3>1, <3>2 DEF Manual
    <2>6. CASE Isolated
      <3>1. Current \notin Signed /\ ~Prevented(Current)  BY <2>6 DEF Isolated, Signed, Kind
      <3>2. PICK r \in Outcomes(Applicable(Current)) : Record(r, FALSE)  BY <2>6 DEF Isolated
      <3>3. Sane(r) /\ r.id = Current  BY <3>2, PendingFacts, OutcomeFacts
      <3> QED  BY <3>1, <3>2, <3>3
    <2> QED  BY <2>2, <2>3, <2>4, <2>5, <2>6
  <1>5. r.status \notin Gaps => \A j \in plan.check[Current].dependsOn : Passed(j)
    BY <1>4 DEF Prevented
  <1> QED  BY <1>1, <1>2, <1>3, <1>4, <1>5, RecordKeeps

\* The inputs are verified before, between and after: a command that ended on
\* written inputs ends blocked.
LEMMA CommandKeeps ==
    ASSUME Inductive, StartCommand \/ ProbeCommand \/ FailCommand \/ FinishCommand
    PROVE  Inductive' /\ Falls
  <1>1. /\ at <= Len(plan.order) /\ Current # Coverage /\ Kind(Current) = "command"
        /\ phase \in {"loop", "probing", "running"}
    BY DEF StartCommand, ProbeCommand, FailCommand, FinishCommand, AtCheck, Inductive, Structure
  <1>2. /\ Current \notin Signed /\ Current \notin tainted
        /\ DOMAIN guard = {"exists", "latched"}
    BY <1>1, PlanFacts DEF Signed, Kind, Inductive, Structure, Listed, Scheduled, Done, Current
  <1>3. ASSUME NEW ok \in BOOLEAN, Verified(ok)
        PROVE  /\ DOMAIN guard' = {"exists", "latched"}
               /\ ok => ~guard.latched /\ world.writes = 0
    BY <1>2, <1>3 DEF Verified
  <1>4. CASE phase' \in {"probing", "running"}
             /\ UNCHANGED <<given, at, evidence, world, events, decision, history>>
             /\ DOMAIN guard' = {"exists", "latched"}
             /\ \A j \in plan.check[Current].dependsOn : Passed(j)
    <2>1. Structure'
      BY <1>1, <1>4 DEF Inductive, Structure, given, evidence, Current, Kind, Worlds
    <2>2. Listed' /\ TaintedIsNoEvidence' /\ SignedRight'
      BY <1>4 DEF Inductive, Listed, Done, TaintedIsNoEvidence, SignedRight, Signed, given,
                  evidence, history
    <2>3. WindowOpen' /\ Established'
      BY <1>4 DEF Inductive, WindowOpen, Established, ReadOf, AfterInputs, AfterManual,
                  AfterProvenance, AfterSource, AfterEnv, AfterAuthority, history
    <2>4. Decided'  BY <1>1, <1>4 DEF Inductive, Decided
    <2>5. Falls  BY <1>4 DEF Falls, evidence
    <2>6. UNCHANGED <<plan, at, results, ran>>  BY <1>4 DEF given, evidence, history
    <2>7. /\ \A r : Settle(r)' = Settle(r) /\ Clean(r)' = Clean(r)
          /\ \A j : Passed(j)' = Passed(j)
      BY <2>6, SamePlan DEF Passed
    <2>8. Accounted'  BY <2>6, <2>7 DEF Inductive, Accounted, Done
    <2>9. Supported'  BY <1>4, <2>6, <2>7 DEF Inductive, Supported, Current
    <2>10. Covered'  BY <1>1, <2>6 DEF Inductive, Covered
    <2> QED  BY <2>1, <2>2, <2>3, <2>4, <2>5, <2>8, <2>9, <2>10 DEF Inductive
  <1>5. ASSUME NEW r, r \in Outcomes(Applicable(Current)), EndCommand(r),
               phase \in {"probing", "running"}
        PROVE  Inductive' /\ Falls
    <2>1. DOMAIN r = Fields /\ r.id = Current /\ Sane(r)  BY <1>5, PendingFacts, OutcomeFacts
    <2>2. PICK ok \in BOOLEAN :
            /\ Verified(ok) /\ Record(Confirmed(r, ok), FALSE)
            /\ tainted' = tainted \cup (IF guard.latched \/ world.writes > 0 THEN {r.id} ELSE {})
      BY <1>5 DEF EndCommand
    <2>3. PICK q : q = Confirmed(r, ok)  OBVIOUS
    <2>4. Sane(q) /\ q.id = Current
      BY <2>1, <2>3, BlockFacts, BlockSane DEF Confirmed, Gaps
    <2>9. \A j \in plan.check[Current].dependsOn : Passed(j)  BY <1>5 DEF Inductive, Supported
    <2>5. Settle(q) = q  BY <1>1, <2>4 DEF Settle
    <2>6. Current \in tainted' => ~ok  BY <1>2, <1>3, <2>2
    <2>7. ~ok => ~Usable(q)  BY <2>1, <2>3, BlockFacts DEF Confirmed
    <2>8. tainted' \subseteq tainted \cup {Current}  BY <2>1, <2>2
    <2> QED  BY <1>1, <1>2, <1>3, <2>2, <2>3, <2>4, <2>5, <2>6, <2>7, <2>8, <2>9, RecordKeeps
  <1>6. CASE StartCommand
    <2>1. CASE Verified(TRUE) /\ phase' = "probing"
               /\ UNCHANGED <<given, at, evidence, world, events, decision, history>>
      <3>1. \A j \in plan.check[Current].dependsOn : Passed(j)
        BY <1>6 DEF StartCommand, Prevented
      <3> QED  BY <1>3, <1>4, <2>1, <3>1
    <2>2. CASE Verified(FALSE) /\ Record(Block(Fresh(Current), "blocked"), FALSE) /\ UNCHANGED tainted
      <3>1. PICK q : q = Block(Fresh(Current), "blocked")  OBVIOUS
      <3>2. Sane(q) /\ q.id = Current /\ q.status \in Gaps
        BY <3>1, PendingFacts, BlockFacts, BlockSane DEF Gaps
      <3>3. tainted' \subseteq tainted \cup {Current} /\ Current \notin tainted'  BY <1>2, <2>2
      <3> QED  BY <1>1, <1>2, <1>3, <2>2, <3>1, <3>2, <3>3, RecordKeeps
    <2> QED  BY <1>6, <2>1, <2>2 DEF StartCommand
  <1>7. CASE ProbeCommand
    <2>1. \A j \in plan.check[Current].dependsOn : Passed(j)
      BY <1>7 DEF ProbeCommand, Inductive, Supported
    <2> QED  BY <1>3, <1>4, <1>7, <2>1 DEF ProbeCommand
  <1>8. CASE FailCommand  BY <1>5, <1>8 DEF FailCommand
  <1>9. CASE FinishCommand  BY <1>5, <1>9 DEF FinishCommand
  <1> QED  BY <1>6, <1>7, <1>8, <1>9

\* Before the checks, and past the coverage check.
LEMMA SetupKeeps ==
    ASSUME Inductive, Bail \/ Capture \/ Prepare \/ Materialize \/ PassOverCoverage \/ EndLoop
    PROVE  Inductive' /\ Falls
  <1> USE DEF given, evidence, history
  <1>1. /\ UNCHANGED <<plan, results, ran, tainted, decision, world>>
        /\ at' = at \/ PassOverCoverage
        /\ DOMAIN guard' = {"exists", "latched"}
        /\ phase \in {"capture", "prepare", "materialize", "loop", "environment", "bounds",
                     "coverage", "gate"}
        /\ phase' \in {"error", "prepare", "materialize", "loop", "inputs"}
    BY DEF Bail, Capture, Prepare, Materialize, PassOverCoverage, EndLoop, Inductive, Structure
  <1>2. at' \in 1..(Len(plan.order) + 1) /\ Done' = Done
    <2>1. CASE PassOverCoverage
      <3>1. at' = at + 1 /\ at <= Len(plan.order) /\ plan.order[at] = Coverage
        BY <2>1 DEF PassOverCoverage, Current
      <3> QED  BY <1>1, <3>1, PlanFacts DEF Inductive, Structure, Done
    <2> QED  BY <1>1, <2>1 DEF Inductive, Structure, Done
  <1>3. Structure'  BY <1>1, <1>2 DEF Inductive, Structure
  <1>4. Listed' /\ TaintedIsNoEvidence'
    BY <1>1, <1>2 DEF Inductive, Listed, TaintedIsNoEvidence
  <1>5. SignedRight'
    <2>1. loaded => loaded'
      BY DEF Bail, Capture, Prepare, Materialize, PassOverCoverage, EndLoop, Inductive, SignedRight
    <2>2. phase' = "prepare" => ~loaded'
      BY DEF Bail, Capture, Prepare, Materialize, PassOverCoverage, EndLoop, Inductive, SignedRight
    <2>3. Signed' = Signed  BY <1>1 DEF Signed
    <2> QED  BY <1>1, <2>1, <2>2, <2>3 DEF Inductive, SignedRight
  <1>6. WindowOpen' /\ Established'
    <2>1. CASE EndLoop
      <3>1. window' = <<world>> /\ phase' = "inputs"  BY <2>1 DEF EndLoop
      <3>2. IsSeq(window')  BY <3>1 DEF IsSeq, Range
      <3>3. Precedes(world, world)  BY DEF Precedes
      <3>4. Len(window') > 0 /\ window'[Len(window')] = world /\ window'[1] = world  BY <3>1
      <3> QED
        BY <1>1, <3>1, <3>2, <3>3, <3>4 DEF WindowOpen, Precedes, Established, ReadOf, AfterInputs,
           AfterManual, AfterProvenance, AfterSource, AfterEnv, AfterAuthority
    <2>2. CASE ~EndLoop
      <3>1. window' = window /\ phase' \in Early
        BY <1>1, <2>2 DEF Bail, Capture, Prepare, Materialize, PassOverCoverage, Early
      <3> QED
        BY <3>1 DEF Inductive, WindowOpen, Established, ReadOf, Early, AfterInputs, AfterManual,
           AfterProvenance, AfterSource, AfterEnv, AfterAuthority
    <2> QED  BY <2>1, <2>2
  <1>7. Decided'
    <2>1. decision = "none"  BY <1>1 DEF Inductive, Decided
    <2> QED  BY <1>1, <2>1 DEF Decided
  <1>8. Falls  BY <1>1 DEF Falls
  <1>9. Accounted' /\ Supported'
    BY <1>1, <1>2, SamePlan DEF Inductive, Accounted, Supported
  <1>10. Covered'
    <2>1. phase' = "error" \/ phase \notin {"gate", "done", "error"}
      BY DEF Bail, Capture, Prepare, Materialize, PassOverCoverage, EndLoop
    <2> QED  BY <1>1, <2>1 DEF Inductive, Covered
  <1> QED  BY <1>3, <1>4, <1>5, <1>6, <1>7, <1>8, <1>9, <1>10 DEF Inductive

\* The world moves on; what it was stays in the window, and what cannot be taken
\* back stays done.
LEMMA EnvironmentMoves ==
    ASSUME Inductive, Environment
    PROVE  \E w \in Worlds : Move(w) /\ Precedes(world, w)
  <1>1. /\ world \in Worlds /\ Signed \subseteq Ids  BY DEF Inductive, Structure, Signed
  <1>2. CASE Edit
    <2> DEFINE w == [world EXCEPT !.source = 1 - @]
    <2>1. w \in Worlds /\ Precedes(world, w)  BY <1>1 DEF Worlds, Precedes
    <2> QED  BY <1>2, <2>1 DEF Edit
  <1>3. CASE SetEnv
    <2> DEFINE w == [world EXCEPT !.env = 1 - @]
    <2>1. w \in Worlds /\ Precedes(world, w)  BY <1>1 DEF Worlds, Precedes
    <2> QED  BY <1>3, <2>1 DEF SetEnv
  <1>4. CASE Write
    <2> DEFINE w == [world EXCEPT !.writes = @ + 1]
    <2>1. w \in Worlds /\ Precedes(world, w)  BY <1>1 DEF Worlds, Precedes
    <2> QED  BY <1>4, <2>1 DEF Write
  <1>5. CASE Replace
    <2> DEFINE w == [world EXCEPT !.altered = ~@]
    <2>1. w \in Worlds /\ Precedes(world, w)  BY <1>1 DEF Worlds, Precedes
    <2> QED  BY <1>5, <2>1 DEF Replace
  <1>6. CASE Expire
    <2>1. PICK i \in Signed \ world.expired : Move([world EXCEPT !.expired = @ \cup {i}])
      BY <1>6 DEF Expire
    <2> DEFINE w == [world EXCEPT !.expired = @ \cup {i}]
    <2>2. i \in Ids  BY <1>1
    <2>3. w \in Worlds /\ Precedes(world, w)  BY <1>1, <2>2 DEF Worlds, Precedes
    <2> QED  BY <2>1, <2>3
  <1>7. CASE Revoke
    <2> DEFINE w == [world EXCEPT !.revoked = TRUE]
    <2>1. w \in Worlds /\ Precedes(world, w)  BY <1>1 DEF Worlds, Precedes
    <2> QED  BY <1>7, <2>1 DEF Revoke
  <1> QED  BY <1>2, <1>3, <1>4, <1>5, <1>6, <1>7 DEF Environment

\* What was read at some place of the window is there when it grows.
LEMMA WindowGrows ==
    ASSUME IsSeq(window), IsSeq(window'), Len(window) <= Len(window'),
           \A k \in 1..Len(window) : window'[k] = window[k],
           UNCHANGED <<plan, loaded, captured>>
    PROVE  /\ RecordsRead => RecordsRead'
           /\ SourceRead => SourceRead'
           /\ EnvRead => EnvRead'
  <1>1. Len(window) \in Nat /\ Len(window') \in Nat  BY DEF IsSeq
  <1>2. \A k \in 1..Len(window) : k \in 1..Len(window')  BY <1>1
  <1>3. RecordsRead => RecordsRead'  BY <1>2 DEF RecordsRead
  <1>4. SourceRead => SourceRead'  BY <1>2 DEF SourceRead
  <1>5. EnvRead => EnvRead'  BY <1>2 DEF EnvRead
  <1> QED  BY <1>3, <1>4, <1>5

LEMMA MoveKeeps ==
    ASSUME Inductive, NEW w \in Worlds, Move(w), Precedes(world, w)
    PROVE  Inductive' /\ Falls
  <1> USE DEF given, evidence, history
  <1>1. /\ UNCHANGED <<plan, loaded, captured, phase, at, results, invalid, guard, decision, ran, tainted>>
        /\ world' = w
        /\ window' = IF window = <<>> THEN window ELSE Append(window, w)
    BY DEF Move
  <1>2. Structure' /\ Listed' /\ TaintedIsNoEvidence'
    BY <1>1 DEF Inductive, Structure, Listed, TaintedIsNoEvidence, Current, Kind, Done
  <1>3. Signed' = Signed  BY <1>1 DEF Signed
  <1>4. IsSeq(window) /\ Len(window) \in Nat  BY DEF Inductive, WindowOpen, IsSeq
  <1>5. /\ IsSeq(window') /\ Len(window) <= Len(window')
        /\ \A k \in 1..Len(window) : window'[k] = window[k]
        /\ window # <<>> => Len(window') > 0 /\ window'[Len(window')] = w
    <2>1. CASE window = <<>>  BY <1>1, <1>4, <2>1
    <2>2. CASE window # <<>>  BY <1>1, <1>4, <2>2, AppendIsSeq
    <2> QED  BY <2>1, <2>2
  <1>6. Len(window) > 0 => window'[1] = window[1] /\ window # <<>>  BY <1>4, <1>5
  <1>7. WindowOpen'
    <2>1. \A u : Precedes(u, world) => Precedes(u, w)  BY DEF Precedes
    <2> QED  BY <1>1, <1>5, <1>6, <2>1 DEF Inductive, WindowOpen, Precedes
  <1>8. SignedRight' /\ Decided'
    BY <1>1, <1>3 DEF Inductive, SignedRight, Decided
  <1>9. invalid' = {} => Established'
    <2>1. \A i : Kind(i)' = Kind(i)  BY <1>1 DEF Kind
    <2>2. \A i : ReadOf(i)' = ReadOf(i)  BY <2>1 DEF ReadOf, AfterManual, AfterProvenance
    <2>3. CASE phase \in {"inputs"} \cup AfterInputs
      <3>1. window'[1] = window[1]  BY <1>6, <2>3 DEF Inductive, WindowOpen
      <3>2. \A i : Lapsed(i)' = Lapsed(i)  BY <1>1, <3>1 DEF Lapsed
      <3>3. /\ RecordsRead => RecordsRead'
            /\ SourceRead => SourceRead'
            /\ EnvRead => EnvRead'
        BY <1>1, <1>4, <1>5, WindowGrows
      <3> QED  BY <1>1, <1>3, <2>2, <3>1, <3>2, <3>3 DEF Inductive, Established
    <2>4. CASE phase \notin {"inputs"} \cup AfterInputs
      BY <1>1, <2>4 DEF Established, ReadOf, AfterInputs, AfterManual, AfterProvenance, AfterSource,
                        AfterEnv, AfterAuthority
    <2> QED  BY <2>3, <2>4
  <1>10. Falls  BY <1>1 DEF Falls
  <1>11. Accounted' /\ Supported' /\ Covered'
    BY <1>1, SamePlan DEF Inductive, Accounted, Supported, Covered, Passed, Current, Done
  <1> QED  BY <1>2, <1>7, <1>8, <1>9, <1>10, <1>11 DEF Inductive

LEMMA SameKeeps == ASSUME Inductive, UNCHANGED vars  PROVE Inductive' /\ Falls
  <1> USE DEF vars, given, evidence, history
  <1>1. Structure' /\ Listed' /\ SignedRight' /\ TaintedIsNoEvidence'
    BY DEF Inductive, Structure, Listed, SignedRight, TaintedIsNoEvidence, Current, Kind, Done, Signed
  <1>2. WindowOpen' /\ Decided'  BY DEF Inductive, WindowOpen, Decided
  <1>3. invalid' = {} => Established'
    BY DEF Inductive, Established, Lapsed, Signed, Kind, ReadOf, RecordsRead, SourceRead, EnvRead
  <1>4. Accounted' /\ Supported' /\ Covered'
    BY SamePlan DEF Inductive, Accounted, Supported, Covered, Passed, Current, Done
  <1> QED  BY <1>1, <1>2, <1>3, <1>4 DEF Inductive, Falls

-----------------------------------------------------------------------------
(* After the checks *)

Later == {"inputs"} \cup (AfterInputs \ {"done"})

\* What the step to the next phase establishes, when it gives no reason not to
\* trust the evaluation.
Gains ==
    LET Reached(S) == phase' \in S /\ phase \notin S IN
    /\ Reached(AfterInputs) /\ guard.exists => window[1].writes = 0
    /\ Reached(AfterManual) => RecordsRead
    /\ Reached(AfterSource) => SourceRead
    /\ Reached(AfterEnv) => EnvRead
    /\ Reached(AfterAuthority) /\ plan.active => ~window[1].revoked
    /\ \A i \in Signed :
         Reached(ReadOf(i)) /\ i \in DOMAIN ran /\ ran[i].status = "completed" => Lapsed(i)'

\* A stage after the checks keeps what holds of the results and of the reads
\* before it.
LEMMA LaterKeeps ==
    ASSUME Inductive, phase \in Later, phase' \in AfterInputs,
           UNCHANGED <<given, at, world, history>>,
           DOMAIN guard' = {"exists", "latched"}, guard'.exists = guard.exists,
           IsSeq(results'), Len(results) <= Len(results'),
           \A k \in 1..Len(results) : Weakens(results[k], results'[k]),
           \A k \in 1..Len(results') :
              k \notin 1..Len(results) => DOMAIN results'[k] = Fields /\ results'[k].id = Coverage,
           invalid \subseteq invalid', invalid' = {} => Gains,
           Decided', Covered'
    PROVE  Inductive' /\ Falls
  <1> USE DEF given, history
  <1>1. /\ Len(results) \in Nat /\ DOMAIN results = 1..Len(results)
        /\ Len(results') \in Nat /\ DOMAIN results' = 1..Len(results')
        /\ \A k \in 1..Len(results) : k \in 1..Len(results')
    BY DEF Inductive, Structure, IsSeq
  <1>2. Done' = Done /\ Signed' = Signed /\ Coverage \notin Signed /\ Coverage \notin tainted
    BY PlanFacts DEF Done, Signed, Inductive, Listed
  <1>3. phase' \notin {"probing", "running", "capture", "prepare"}
    BY DEF AfterInputs, AfterManual, AfterProvenance, AfterSource, AfterEnv, AfterAuthority
  <1>4. Structure'  BY <1>1, <1>3 DEF Inductive, Structure, Weakens
  <1>5. Listed'
    BY <1>1, <1>2 DEF Inductive, Listed, Weakens
  <1>6. SignedRight'
    BY <1>2, <1>3 DEF Inductive, SignedRight
  <1>7. TaintedIsNoEvidence'
    BY <1>1, <1>2 DEF Inductive, TaintedIsNoEvidence, Weakens
  <1>8. WindowOpen'
    BY DEF Inductive, WindowOpen, Later
  <1>9. \A i \in Signed : Lapsed(i) => Lapsed(i)'
    BY <1>1, <1>2 DEF Lapsed, Weakens, Voided
  <1>10. invalid' = {} => Established'
    <2>1. \A i : Kind(i)' = Kind(i)  BY DEF Kind
    <2>2. \A i : ReadOf(i)' = ReadOf(i)  BY <2>1 DEF ReadOf, AfterManual, AfterProvenance
    <2>3. /\ RecordsRead' = RecordsRead /\ SourceRead' = SourceRead /\ EnvRead' = EnvRead
      BY DEF RecordsRead, SourceRead, EnvRead
    <2> QED  BY <1>2, <1>9, <2>2, <2>3 DEF Inductive, Established, Gains
  <1>11. Falls  BY <1>1 DEF Falls, Weakens
  <1>12. Accounted'
    <2>1. \A r : Settle(r)' = Settle(r)  BY SamePlan
    <2>2. ASSUME NEW k \in 1..Len(results'), results'[k].id # Coverage
          PROVE  /\ results'[k].id \in DOMAIN ran
                 /\ results'[k] = Settle(ran[results'[k].id]) \/ Voided(results'[k])
      <3>1. k \in 1..Len(results) /\ Weakens(results[k], results'[k])  BY <2>2
      <3> QED  BY <2>2, <3>1 DEF Inductive, Accounted, Weakens
    <2> QED  BY <1>2, <2>1, <2>2 DEF Inductive, Accounted
  <1>13. Supported'  BY <1>3, SamePlan DEF Inductive, Supported
  <1> QED  BY <1>4, <1>5, <1>6, <1>7, <1>8, <1>10, <1>11, <1>12, <1>13 DEF Inductive

LEMMA SameIsWeaker == ASSUME NEW r, DOMAIN r = Fields  PROVE Weakens(r, r)
  BY DEF Weakens

\* There is no coverage result before the stage that adds one.
LEMMA NotYetCovered ==
    ASSUME Inductive, phase \in Later \ {"gate"}, Len(results') = Len(results),
           \A k \in 1..Len(results) : Weakens(results[k], results'[k])
    PROVE  Covered'
  <1>1. \A k \in 1..Len(results) : results[k].id # Coverage
    BY DEF Inductive, Covered, Later, AfterInputs, AfterManual, AfterProvenance, AfterSource,
           AfterEnv, AfterAuthority
  <1>2. \A k \in 1..Len(results') : results'[k].id # Coverage  BY <1>1 DEF Weakens
  <1> QED  BY <1>2 DEF Covered

\* The reads that leave the results alone.
LEMMA ReadKeeps ==
    ASSUME Inductive,
           VerifyInputs \/ Recapture \/ CheckEnvironment \/ RevalidateAuthority
    PROVE  Inductive' /\ Falls
  <1> USE DEF given, history
  <1>1. /\ phase \in Later \ {"gate"} /\ phase' \in AfterInputs \ {"done"} /\ phase' = After[phase]
        /\ UNCHANGED <<given, at, world, history, results, decision>>
        /\ invalid \subseteq invalid'
        /\ Len(window) \in Nat /\ Len(window) > 0 /\ window[Len(window)] = world
        /\ Precedes(window[1], world)
    BY DEF VerifyInputs, Recapture, CheckEnvironment, RevalidateAuthority, Later, AfterInputs,
           AfterManual, AfterProvenance, AfterSource, AfterEnv, AfterAuthority, After, Distrust,
           Inductive, WindowOpen, IsSeq
  <1>2. DOMAIN guard' = {"exists", "latched"} /\ guard'.exists = guard.exists
    BY DEF VerifyInputs, Recapture, CheckEnvironment, RevalidateAuthority, Verified, Inductive,
           Structure
  <1>3. ASSUME invalid' = {}  PROVE Gains
    <2>1. CASE VerifyInputs
      <3>1. guard.exists => world.writes = 0
        BY <1>3, <2>1 DEF VerifyInputs, Verified, Distrust
      <3>2. phase = "inputs" /\ phase' = "manual"  BY <2>1 DEF VerifyInputs, After
      <3>3. guard.exists => window[1].writes = 0  BY <1>1, <3>1 DEF Precedes
      <3> QED
        BY <1>1, <3>1, <3>2, <3>3 DEF Gains, ReadOf, AfterInputs, AfterManual, AfterProvenance, AfterSource, AfterEnv, AfterAuthority
    <2>2. CASE Recapture
      <3>1. plan.recapture => world.source = captured.source
        BY <1>3, <2>2 DEF Recapture, Distrust
      <3>2. phase = "source" /\ phase' = "environment"  BY <2>2 DEF Recapture, After
      <3>3. SourceRead
        <4>1. invalid = {} /\ RecordsRead
          BY <1>1, <1>3, <3>2 DEF Inductive, Established, AfterManual, AfterProvenance, AfterSource
        <4>2. PICK r \in 1..Len(window) : loaded => ~window[r].altered  BY <4>1 DEF RecordsRead
        <4>3. r <= Len(window) /\ Len(window) \in 1..Len(window)  BY <1>1, <4>2
        <4> QED  BY <1>1, <3>1, <4>2, <4>3 DEF SourceRead
      <3> QED
        BY <1>1, <3>1, <3>2, <3>3 DEF Gains, ReadOf, AfterInputs, AfterManual, AfterProvenance, AfterSource, AfterEnv, AfterAuthority
    <2>3. CASE CheckEnvironment
      <3>1. world.env = captured.env  BY <1>3, <2>3 DEF CheckEnvironment, Distrust
      <3>2. phase = "environment" /\ phase' = "authority"  BY <2>3 DEF CheckEnvironment, After
      <3>3. EnvRead
        <4>1. invalid = {} /\ SourceRead
          BY <1>1, <1>3, <3>2 DEF Inductive, Established, AfterSource
        <4>2. PICK r, s \in 1..Len(window) :
                r <= s /\ (loaded => ~window[r].altered) /\ (plan.recapture => window[s].source = captured.source)
          BY <4>1 DEF SourceRead
        <4>3. s <= Len(window) /\ Len(window) \in 1..Len(window)  BY <1>1, <4>2
        <4> QED  BY <1>1, <3>1, <4>2, <4>3 DEF EnvRead
      <3> QED
        BY <1>1, <3>1, <3>2, <3>3 DEF Gains, ReadOf, AfterInputs, AfterManual, AfterProvenance, AfterSource, AfterEnv, AfterAuthority
    <2>4. CASE RevalidateAuthority
      <3>1. plan.active => ~world.revoked  BY <1>3, <2>4 DEF RevalidateAuthority, Distrust
      <3>2. phase = "authority" /\ phase' = "bounds"  BY <2>4 DEF RevalidateAuthority, After
      <3>3. plan.active => ~window[1].revoked  BY <1>1, <3>1 DEF Precedes
      <3> QED
        BY <1>1, <3>1, <3>2, <3>3 DEF Gains, ReadOf, AfterInputs, AfterManual, AfterProvenance, AfterSource, AfterEnv, AfterAuthority
    <2> QED  BY <2>1, <2>2, <2>3, <2>4
  <1>4. Decided'
    <2>1. decision = "none"  BY <1>1 DEF Inductive, Decided, Later, AfterInputs
    <2> QED  BY <1>1, <2>1 DEF Decided
  <1>5. \A k \in 1..Len(results) : Weakens(results[k], results'[k])
    BY <1>1, SameIsWeaker DEF Inductive, Structure
  <1>6. IsSeq(results') /\ Len(results') = Len(results) /\ Len(results) \in Nat
    BY <1>1 DEF Inductive, Structure, IsSeq
  <1>7. Covered'  BY <1>1, <1>5, <1>6, NotYetCovered
  <1> QED  BY <1>1, <1>2, <1>3, <1>4, <1>5, <1>6, <1>7, LaterKeeps

\* Whether a completed result is blocked for the record it rests on or for all
\* records at once, it is blocked where it stands.
LEMMA RecordFacts ==
    ASSUME Inductive, results' = results \/ (\E kind : results' = Lapse(kind)) \/ LoseRecords
    PROVE  /\ IsSeq(results') /\ Len(results') = Len(results) /\ Len(results) \in Nat
           /\ \A k \in 1..Len(results) : Weakens(results[k], results'[k])
  <1>1. /\ Len(results) \in Nat /\ DOMAIN results = 1..Len(results)
        /\ \A k \in 1..Len(results) : DOMAIN results[k] = Fields
    BY DEF Inductive, Structure, IsSeq
  <1>2. DOMAIN results' = DOMAIN results /\ results' = [k \in DOMAIN results' |-> results'[k]]
    BY DEF Lapse, LoseRecords, Inductive, Structure, IsSeq
  <1>3. \A k \in 1..Len(results) : results'[k] \in {results[k], Block(results[k], "blocked")}
    BY <1>1 DEF Lapse, LoseRecords
  <1>4. \A k \in 1..Len(results) : Weakens(results[k], results'[k])
    BY <1>1, <1>3, SameIsWeaker, BlockFacts
  <1> QED  BY <1>1, <1>2, <1>4, MapIsSeq DEF Inductive, Structure

\* Each signed result was looked at once more after the last check: its record
\* holds now, or it has lost its verdict.
LEMMA LapseFacts ==
    ASSUME Inductive, Precedes(window[1], world), NEW kind, results' = Lapse(kind), window' = window,
           NEW i \in Signed, Kind(i) = kind
    PROVE  Lapsed(i)'
  <1>1. /\ Len(results) \in Nat /\ DOMAIN results = 1..Len(results)
        /\ \A k \in 1..Len(results) : DOMAIN results[k] = Fields
    BY DEF Inductive, Structure, IsSeq
  <1>2. CASE i \notin world.expired  BY <1>2 DEF Lapsed, Precedes
  <1>3. CASE i \in world.expired
    <2>1. Len(results') = Len(results)  BY RecordFacts
    <2>2. ASSUME NEW k \in 1..Len(results), results'[k].id = i  PROVE results'[k].status # "completed"
      <3>1. results[k].id = i
        BY <1>1, <2>2, BlockFacts DEF Lapse
      <3>2. CASE results[k].status = "completed"
        <4>1. results'[k] = Block(results[k], "blocked")
          BY <1>1, <1>3, <3>1, <3>2 DEF Lapse, Signed
        <4> QED  BY <1>1, <4>1, BlockFacts
      <3>3. CASE results[k].status # "completed"
        <4>1. results'[k] = results[k]  BY <1>1, <3>3 DEF Lapse
        <4> QED  BY <3>3, <4>1
      <3> QED  BY <3>2, <3>3
    <2> QED  BY <2>1, <2>2 DEF Lapsed
  <1> QED  BY <1>2, <1>3

LEMMA RevalidateKeeps ==
    ASSUME Inductive, RevalidateManual \/ RevalidateProvenance
    PROVE  Inductive' /\ Falls
  <1> USE DEF given, history
  <1>1. /\ phase \in {"manual", "provenance"} /\ phase \in Later \ {"gate"}
        /\ phase' \in {"provenance", "source"} /\ phase' \in AfterInputs
        /\ UNCHANGED <<given, at, world, history, guard, decision>>
        /\ DOMAIN guard = {"exists", "latched"} /\ invalid \subseteq invalid'
        /\ Len(window) \in Nat /\ Len(window) > 0 /\ window[Len(window)] = world
        /\ Precedes(window[1], world)
    BY DEF RevalidateManual, RevalidateProvenance, LoseRecords, Distrust, Later, AfterInputs,
           AfterManual, AfterProvenance, AfterSource, AfterEnv, AfterAuthority, After,
           Inductive, Structure, WindowOpen, IsSeq
  <1>2. results' = results \/ (\E kind : results' = Lapse(kind)) \/ LoseRecords
    BY DEF RevalidateManual, RevalidateProvenance
  <1>3. ASSUME invalid' = {}  PROVE Gains
    <2>1. ~LoseRecords  BY <1>3 DEF LoseRecords, Distrust
    <2>2. CASE RevalidateManual /\ ~loaded
      <3>1. \A i \in Signed : ~(i \in DOMAIN ran /\ ran[i].status = "completed")
        BY <2>2 DEF Inductive, SignedRight
      <3>2. phase = "manual" /\ phase' = "source"  BY <2>1, <2>2 DEF RevalidateManual, After
      <3>3. RecordsRead  BY <1>1, <2>2 DEF RecordsRead
      <3> QED
        BY <1>1, <2>2, <3>1, <3>2, <3>3 DEF Gains, ReadOf, AfterInputs, AfterManual, AfterProvenance, AfterSource, AfterEnv, AfterAuthority
    <2>3. CASE RevalidateManual /\ loaded
      <3>1. /\ results' = Lapse("manual") /\ ~world.altered
            /\ phase = "manual" /\ phase' = "provenance"
        BY <2>1, <2>3 DEF RevalidateManual, After
      <3>2. \A i \in Signed : Kind(i) = "manual" => Lapsed(i)'  BY <1>1, <3>1, LapseFacts
      <3>3. RecordsRead  BY <1>1, <3>1 DEF RecordsRead
      <3> QED
        BY <1>1, <3>1, <3>2, <3>3 DEF Gains, ReadOf, AfterInputs, AfterManual, AfterProvenance, AfterSource, AfterEnv, AfterAuthority
    <2>4. CASE RevalidateProvenance
      <3>1. /\ results' = Lapse("provenance")
            /\ phase = "provenance" /\ phase' = "source"
        BY <2>1, <2>4 DEF RevalidateProvenance, After
      <3>2. \A i \in Signed : Kind(i) = "provenance" => Lapsed(i)'  BY <1>1, <3>1, LapseFacts
      <3>3. \A i \in Signed : Kind(i) \in {"manual", "provenance"}  BY DEF Signed, Kind
      <3> QED
        BY <1>1, <3>1, <3>2, <3>3 DEF Gains, ReadOf, AfterInputs, AfterManual, AfterProvenance, AfterSource, AfterEnv, AfterAuthority
    <2> QED  BY <2>2, <2>3, <2>4
  <1>4. Decided'  BY <1>1 DEF Inductive, Decided
  <1>5. Covered'  BY <1>1, <1>2, RecordFacts, NotYetCovered
  <1> QED  BY <1>1, <1>2, <1>3, <1>4, <1>5, RecordFacts, LaterKeeps

\* The output bounds truncate what does not fit and take its verdict; clause
\* coverage joins the results they left.
LEMMA BoundKeeps == ASSUME Inductive, Bound \/ Cover  PROVE Inductive' /\ Falls
  <1> USE DEF given, history
  <1>1. /\ phase \in {"bounds", "coverage"} /\ phase \in Later \ {"gate"}
        /\ phase' \in {"coverage", "gate"} /\ phase' \in AfterInputs
        /\ UNCHANGED <<given, at, world, history, guard, invalid, decision>>
        /\ DOMAIN guard = {"exists", "latched"}
    BY DEF Bound, Cover, Later, AfterInputs, AfterManual, AfterProvenance, AfterSource, AfterEnv,
           AfterAuthority, After, Inductive, Structure
  <1>2. Gains
    BY <1>1 DEF Gains, ReadOf, AfterInputs, AfterManual, AfterProvenance, AfterSource, AfterEnv, AfterAuthority
  <1>3. Decided'  BY <1>1 DEF Inductive, Decided
  <1>4. /\ IsSeq(results) /\ Len(results) \in Nat /\ DOMAIN results = 1..Len(results)
        /\ \A k \in 1..Len(results) : DOMAIN results[k] = Fields
    BY DEF Inductive, Structure, IsSeq
  <1>5. CASE Bound
    <2>1. results' = [k \in DOMAIN results |-> Attach(results[k])]  BY <1>5 DEF Bound
    <2>2. \A k \in 1..Len(results) : Weakens(results[k], results'[k])  BY <1>4, <2>1, AttachFacts
    <2>3. IsSeq(results') /\ Len(results') = Len(results)  BY <1>4, <2>1, MapIsSeq
    <2>4. Covered'  BY <1>1, <2>2, <2>3, NotYetCovered
    <2> QED  BY <1>1, <1>2, <1>3, <1>4, <2>2, <2>3, <2>4, LaterKeeps
  <1>6. CASE Cover /\ results' = results
    <2>1. \A k \in 1..Len(results) : Weakens(results[k], results'[k])
      BY <1>4, <1>6, SameIsWeaker
    <2>2. Covered'  BY <1>1, <1>6, <2>1, NotYetCovered
    <2> QED  BY <1>1, <1>2, <1>3, <1>4, <1>6, <2>1, <2>2, LaterKeeps
  <1>7. CASE Cover /\ results' # results
    <2> DEFINE owed == {c \in plan.clauses : c.required}
               failed == {c \in owed : FailedClause(c)}
               p == [Pending(Coverage, owed # {}, "error") EXCEPT
                       !.diagnostics = [k \in 1..Cardinality(failed) |-> ClauseGap]]
    <2>1. \/ /\ results' = Append(results, Attach(Complete(p)))
             /\ \A c \in owed : ~Unestablished(c)
          \/ results' = Append(results, Attach(Block(Complete(p), "blocked")))
      BY <1>7 DEF Cover
    <2>2. DOMAIN p = Fields /\ p.id = Coverage  BY DEF Pending, Fields
    <2> HIDE DEF p
    <2>4. PICK q : /\ results' = Append(results, Attach(q)) /\ DOMAIN q = Fields /\ q.id = Coverage
                   /\ Usable(q) => \A c \in owed : ~Unestablished(c)
      <3>1. DOMAIN Complete(p) = Fields /\ Complete(p).id = Coverage  BY <2>2, CompleteFacts
      <3>2. PICK b : b = Block(Complete(p), "blocked")  OBVIOUS
      <3>3. DOMAIN b = Fields /\ b.id = Coverage /\ ~Usable(b)  BY <3>1, <3>2, BlockFacts
      <3> QED  BY <2>1, <3>1, <3>2, <3>3
    <2>5. /\ DOMAIN Attach(q) = Fields /\ Attach(q).id = Coverage
          /\ Usable(Attach(q)) => Usable(q)
      BY <2>4, AttachFacts DEF Weakens
    <2>6. /\ IsSeq(results') /\ Len(results') = Len(results) + 1
          /\ \A k \in 1..Len(results) : results'[k] = results[k]
          /\ results'[Len(results) + 1] = Attach(q)
      BY <1>4, <2>4, AppendIsSeq
    <2>7. \A k \in 1..Len(results) : Weakens(results[k], results'[k])
      BY <1>4, <2>6, SameIsWeaker
    <2>8. Covered'
      <3>1. \A k \in 1..Len(results) : results[k].id # Coverage
        BY <1>1 DEF Inductive, Covered
      <3>2. ASSUME Usable(q), NEW c \in plan.clauses, c.required
            PROVE  /\ c.adopted
                   /\ \A i \in c.checks : \E j \in 1..Len(results) :
                        results[j].id = i /\ Usable(results[j])
        <4>1. ~Unestablished(c)  BY <2>4, <3>2
        <4>2. ASSUME NEW i \in c.checks
              PROVE  \E j \in 1..Len(results) : results[j].id = i /\ Usable(results[j])
          <5>1. Cardinality(Of(i)) = 1 /\ \A k \in Of(i) : CompleteAt(k) \/ ValidSkip(results[k])
            BY <4>1 DEF Unestablished
          <5>2. Of(i) # {}  BY <5>1, FS_EmptySet
          <5> QED  BY <1>4, <5>1, <5>2 DEF Of, CompleteAt, Usable
        <4> QED  BY <4>1, <4>2 DEF Unestablished
      <3>3. ASSUME NEW k \in 1..Len(results'), results'[k].id = Coverage, Usable(results'[k]),
                   NEW c \in plan.clauses, c.required
            PROVE  /\ c.adopted
                   /\ \A i \in c.checks : \E j \in 1..Len(results') :
                        results'[j].id = i /\ Usable(results'[j])
        <4>1. k = Len(results) + 1  BY <1>4, <2>6, <3>1, <3>3
        <4>2. Usable(q)  BY <2>5, <2>6, <3>3, <4>1
        <4>3. \A j \in 1..Len(results) : j \in 1..Len(results') /\ results'[j] = results[j]
          BY <1>4, <2>6
        <4> QED  BY <3>2, <3>3, <4>2, <4>3
      <3>4. phase' = "gate" /\ plan' = plan  BY <1>7 DEF Cover, After
      <3> QED  BY <3>3, <3>4 DEF Covered
    <2> QED  BY <1>1, <1>2, <1>3, <1>4, <2>5, <2>6, <2>7, <2>8, LaterKeeps
  <1> QED  BY <1>5, <1>6, <1>7

\* The decision is the gate's, over the results as they are.
LEMMA GateKeeps == ASSUME Inductive, Gate  PROVE Inductive' /\ Falls
  <1> USE DEF given, history, evidence
  <1>1. /\ phase = "gate" /\ phase' = "done" /\ decision' = Decide(results, plan.required, invalid)
        /\ UNCHANGED <<given, at, evidence, guard, world, events, history>>
    BY DEF Gate
  <1>2. Decided' /\ Covered'  BY <1>1 DEF Decided, Inductive, Covered
  <1>3. \A k \in 1..Len(results) : Weakens(results[k], results'[k])
    BY <1>1, SameIsWeaker DEF Inductive, Structure
  <1>4. /\ phase \in Later /\ phase' \in AfterInputs /\ Gains
    BY <1>1 DEF Gains, ReadOf, Later, AfterInputs, AfterManual, AfterProvenance, AfterSource, AfterEnv, AfterAuthority
  <1>5. IsSeq(results') /\ Len(results') = Len(results) /\ Len(results) \in Nat
    BY <1>1 DEF Inductive, Structure, IsSeq
  <1> QED  BY <1>1, <1>2, <1>3, <1>4, <1>5, LaterKeeps DEF Inductive, Structure

-----------------------------------------------------------------------------
(* The theorems *)

LEMMA InitInductive == ASSUME Init  PROVE Inductive
  <1>1. /\ plan \in Plans /\ phase = "capture" /\ at = 1 /\ results = <<>> /\ invalid = {}
        /\ DOMAIN guard = {"exists", "latched"} /\ ~loaded /\ decision = "none"
        /\ DOMAIN ran = {} /\ tainted = {} /\ window = <<>>
    BY DEF Init
  <1>2. Len(results) = 0 /\ IsSeq(results) /\ IsSeq(window)  BY <1>1 DEF IsSeq
  <1>3. Len(plan.order) \in Nat
    BY <1>1, RunAssumption DEF Plan
  <1>4. world \in Worlds
    <2> DEFINE start == [source : {0}, env : 0..1, writes : {0}, altered : {FALSE},
                         expired : {{}}, revoked : {FALSE}]
    <2>1. world \in start  BY Zenon DEF Init
    <2>2. ASSUME NEW w \in start  PROVE w \in Worlds
      <3>0. w.env \in 0..1 /\ w.source = 0 /\ w.writes = 0  OBVIOUS
      <3>1. w.env \in {0, 1} /\ w.source \in {0, 1} /\ w.writes \in Nat  BY <3>0
      <3>4. w.altered \in BOOLEAN /\ w.revoked \in BOOLEAN  BY Zenon
      <3>2. w.expired \in SUBSET Ids  OBVIOUS
      <3>3. w = [source |-> w.source, env |-> w.env, writes |-> w.writes, altered |-> w.altered,
                 expired |-> w.expired, revoked |-> w.revoked]
        OBVIOUS
      <3> QED  BY <3>1, <3>2, <3>3, <3>4, Zenon DEF Worlds
    <2> QED  BY <2>1, <2>2, Zenon
  <1>5. Structure  BY <1>1, <1>2, <1>3, <1>4 DEF Structure
  <1>6. Listed /\ SignedRight /\ TaintedIsNoEvidence /\ Decided
    BY <1>1, <1>2 DEF Listed, SignedRight, TaintedIsNoEvidence, Decided
  <1>7. WindowOpen /\ Established  BY <1>1, <1>2, EarlyIsOpen DEF Early
  <1>8. Accounted /\ Supported /\ Covered  BY <1>1, <1>2 DEF Accounted, Supported, Covered
  <1> QED  BY <1>5, <1>6, <1>7, <1>8 DEF Inductive

LEMMA NextKeeps == ASSUME Inductive, Next  PROVE Inductive' /\ Falls
  <1>1. CASE Prevent \/ Rule \/ Provenance \/ Manual \/ Isolated \/ Refuse
    BY <1>1, UnguardedKeeps
  <1>2. CASE StartCommand \/ ProbeCommand \/ FailCommand \/ FinishCommand  BY <1>2, CommandKeeps
  <1>3. CASE Bail \/ Capture \/ Prepare \/ Materialize \/ PassOverCoverage \/ EndLoop
    BY <1>3, SetupKeeps
  <1>4. CASE VerifyInputs \/ Recapture \/ CheckEnvironment \/ RevalidateAuthority
    BY <1>4, ReadKeeps
  <1>5. CASE RevalidateManual \/ RevalidateProvenance  BY <1>5, RevalidateKeeps
  <1>6. CASE Bound \/ Cover  BY <1>6, BoundKeeps
  <1>7. CASE Gate  BY <1>7, GateKeeps
  <1>8. CASE Environment
    <2>1. PICK w \in Worlds : Move(w) /\ Precedes(world, w)  BY <1>8, EnvironmentMoves
    <2> QED  BY <2>1, MoveKeeps
  <1>9. CASE Halt  BY <1>9, SameKeeps DEF Halt
  <1> QED
    BY <1>1, <1>2, <1>3, <1>4, <1>5, <1>6, <1>7, <1>8, <1>9
       DEF Next, Evaluation, Execute, Finalize

LEMMA Invariance == Spec => []Inductive
  <1>1. Init => Inductive  BY InitInductive
  <1>2. Inductive /\ [Next]_vars => Inductive'  BY NextKeeps, SameKeeps
  <1> QED  BY <1>1, <1>2, PTL DEF Spec

\* A pass names no reason to distrust the evaluation, and a usable result for
\* each required check, none of them a violation that fails the gate.
LEMMA PassFacts ==
    ASSUME Inductive, decision = "pass"
    PROVE  /\ phase = "done" /\ invalid = {}
           /\ \A i \in plan.required :
                \E k \in 1..Len(results) :
                  results[k].id = i /\ Usable(results[k]) /\ ~Violation(results[k])
  <1>1. phase = "done" /\ Decide(results, plan.required, invalid) = "pass"
    BY DEF Inductive, Decided
  <1>2. /\ ~HasGap(results, plan.required, invalid)
        /\ \A k \in DOMAIN results : ~Violation(results[k])
    BY <1>1 DEF Decide
  <1>3. DOMAIN results = 1..Len(results)  BY DEF Inductive, Structure, IsSeq
  <1> QED  BY <1>1, <1>2, <1>3 DEF HasGap, Reported

\* Evidence is of the present, whatever the plan and however often and at
\* whatever moment the world moves: a command that ended on written inputs never
\* counts; when the last check ended no input had been written, the policy stood
\* and the proofs of completed results were in force, all at once; and the records,
\* the source and the environment were read after that, in this order
\* (check_prepared re-reads all of it before the gate).
THEOREM PassIsPresent == Spec => []EvidenceIsCurrent
  <1>1. Inductive => EvidenceIsCurrent
    <2> SUFFICES ASSUME Inductive  PROVE EvidenceIsCurrent
      OBVIOUS
    <2>1. \A k \in DOMAIN results : results[k].id \in tainted => ~Usable(results[k])
      BY DEF Inductive, Structure, IsSeq, TaintedIsNoEvidence
    <2>2. ASSUME decision = "pass"
          PROVE  phase = "done" /\ Established
      BY <2>2, PassFacts DEF Inductive
    <2>3. /\ "done" \in AfterInputs /\ "done" \in AfterManual /\ "done" \in AfterProvenance
          /\ "done" \in AfterSource /\ "done" \in AfterEnv /\ "done" \in AfterAuthority
      BY DEF AfterInputs, AfterManual, AfterProvenance, AfterSource, AfterEnv, AfterAuthority
    <2>4. ASSUME decision = "pass", NEW k \in DOMAIN results, results[k].id \in Signed,
                 results[k].status = "completed"
          PROVE  results[k].id \notin window[1].expired
      <3>1. PICK i : i = results[k].id  OBVIOUS
      <3>2. k \in 1..Len(results)  BY DEF Inductive, Structure, IsSeq
      <3>3. i \in DOMAIN ran /\ ran[i].status = "completed"
        <4>1. i # Coverage  BY <2>4, <3>1, RunAssumption DEF Signed
        <4>2. i \in DOMAIN ran /\ Sane(ran[i]) /\ results[k] = Settle(ran[i])
          BY <2>4, <3>1, <3>2, <4>1 DEF Inductive, Accounted, Voided
        <4> QED  BY <2>4, <4>2, SettleEarns
      <3>4. phase \in ReadOf(i)  BY <2>2, <2>3, <2>4 DEF ReadOf
      <3>5. Lapsed(i)  BY <2>2, <2>4, <3>1, <3>3, <3>4 DEF Established
      <3> QED  BY <2>4, <3>1, <3>2, <3>5 DEF Lapsed
    <2>5. ASSUME decision = "pass"
          PROVE  \E r, s, e \in DOMAIN window :
                   /\ r <= s /\ s <= e
                   /\ loaded => ~window[r].altered
                   /\ plan.recapture => window[s].source = captured.source
                   /\ window[e].env = captured.env
      <3>1. EnvRead  BY <2>2, <2>3, <2>5 DEF Established
      <3>2. DOMAIN window = 1..Len(window)  BY DEF Inductive, WindowOpen, IsSeq
      <3> QED  BY <3>1, <3>2 DEF EnvRead
    <2> QED  BY <2>1, <2>2, <2>3, <2>4, <2>5 DEF EvidenceIsCurrent, Established
  <1> QED  BY <1>1, Invariance, PTL

\* A pass is earned, whatever the plan and the reports: the filter, the blocks and
\* the truncation between a check and the gate (check_prepared, diagnostic_budget)
\* never turn what counted against a required check into a pass.
THEOREM PassIsEarned == Spec => []Earned
  <1>1. Inductive => Earned
    <2> SUFFICES ASSUME Inductive, decision = "pass", NEW i \in plan.required \ {Coverage}
                 PROVE  /\ i \in DOMAIN ran
                        /\ \/ ValidSkip(ran[i])
                           \/ /\ ran[i].status = "completed"
                              /\ ran[i].severity = "error" =>
                                   \A k \in DOMAIN ran[i].diagnostics :
                                     ~Counts(i, ran[i].diagnostics[k])
      BY DEF Earned
    <2>1. PICK k \in 1..Len(results) :
            results[k].id = i /\ Usable(results[k]) /\ ~Violation(results[k])
      BY PassFacts
    <2>2. results[k].verdict # "none"  BY <2>1 DEF Usable, ValidCompleted, ValidSkip
    <2>3. /\ i \in DOMAIN ran /\ ran[i].id = i /\ Sane(ran[i])
          /\ results[k] = Settle(ran[i])
      BY <2>1, <2>2 DEF Inductive, Accounted, Voided
    <2>4. CASE ValidSkip(results[k])  BY <2>3, <2>4, SettleEarns
    <2>5. CASE ValidCompleted(results[k])
      <3>1. ran[i].status = "completed" /\ results[k].severity = ran[i].severity
        BY <2>3, <2>5, SettleEarns DEF ValidCompleted
      <3>2. ran[i].severity = "error" => results[k].verdict = "pass"
        BY <2>1, <2>5, <3>1 DEF Violation, ValidCompleted
      <3>3. ran[i].severity = "error" => Clean(ran[i])
        BY <2>3, <2>5, <3>2, SettleEarns DEF ValidCompleted
      <3> QED  BY <2>3, <3>1, <3>3 DEF Clean
    <2> QED  BY <2>1, <2>3, <2>4, <2>5 DEF Usable
  <1> QED  BY <1>1, Invariance, PTL

\* A check is executed only on the evidence its prerequisites gave, whatever the
\* plan: what the loop looks up in the settled results (prerequisites_passed) is
\* what the prerequisites themselves reported.
THEOREM PrerequisitesHold == Spec => []PrerequisitesRan
  <1>1. Inductive => PrerequisitesRan
    <2> SUFFICES ASSUME Inductive, NEW i \in DOMAIN ran, ran[i].status \notin Gaps,
                        NEW j \in plan.check[i].dependsOn
                 PROVE  /\ j \in DOMAIN ran /\ ran[j].status = "completed"
                        /\ \A k \in DOMAIN ran[j].diagnostics : ~Counts(j, ran[j].diagnostics[k])
      BY DEF PrerequisitesRan
    <2>1. j \in DOMAIN ran /\ Clean(ran[j])  BY DEF Inductive, Supported
    <2> QED  BY <2>1 DEF Clean, Inductive, Accounted
  <1> QED  BY <1>1, Invariance, PTL

\* The coverage a report shows is of the results it shows, whatever the clauses:
\* nothing weakens a result after the coverage was computed from it (check_prepared
\* bounds the output first).
THEOREM CoverageHolds == Spec => []CoverageIsFinal
  <1>1. Inductive => CoverageIsFinal
    <2>1. Inductive => DOMAIN results = 1..Len(results)  BY DEF Inductive, Structure, IsSeq
    <2> QED  BY <2>1 DEF Inductive, Covered, CoverageIsFinal, Of
  <1> QED  BY <1>1, Invariance, PTL

\* What the evaluation took away it never gives back, whatever the plan: each
\* stage after a check may take its verdict and none gives one.
THEOREM VerdictsFall == Spec => VerdictsOnlyFall
  <1>1. Inductive /\ [Next]_vars => [Falls]_vars  BY NextKeeps
  <1> QED  BY <1>1, Invariance, PTL DEF Spec, VerdictsOnlyFall, Falls

=============================================================================

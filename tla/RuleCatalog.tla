---------------------------- MODULE RuleCatalog ----------------------------
(***************************************************************************)
(* The catalog of rules a configuration may use: the packaged rules, each  *)
(* traced through the lifecycle matrix to archived standards, and the      *)
(* project's own rule files, found, read again and parsed.                 *)
(*                                                                         *)
(* A registry is [coverage, sources], coverage a function on Lanes to sets *)
(* of names; a source is [id, organizations, languages, stages, concerns,  *)
(* controls, sound].  An input of the matrix is [id, status, rule, stages, *)
(* languages, concerns, sources, kind, outcome, fresh], `stages' and       *)
(* `organizations' sets of one, `fresh' that its evidence is of the        *)
(* snapshot.  A packaged rule is [id, package, languages, refs, inputs],   *)
(* a ref [source, controls].                                               *)
(***************************************************************************)
EXTENDS Naturals, Sequences, FiniteSets, SequencesExt, FiniteSetsExt, Functions

CONSTANTS
    None,
    Required,        \* the coverage that the bundled archive must declare
    MaxRuleFiles, MaxRuleBytes, MaxEntries

Lanes == {"organizations", "languages", "stages", "concerns"}
IdsOf(seq) == {seq[i].id : i \in DOMAIN seq}
DistinctIds(seq) == Cardinality(IdsOf(seq)) = Len(seq)
-----------------------------------------------------------------------------
(* Dates of review, of the years 2000 to 9999 *)

\* Plausible bug: the century rule is forgotten.
DaysIn_EveryFourth(year, month) ==
    CASE month \in {1, 3, 5, 7, 8, 10, 12} -> 31
      [] month \in {4, 6, 9, 11} -> 30
      [] month = 2 -> IF year % 4 = 0 THEN 29 ELSE 28
      [] OTHER -> 0

DaysIn(year, month) ==
    CASE month \in {1, 3, 5, 7, 8, 10, 12} -> 31
      [] month \in {4, 6, 9, 11} -> 30
      [] month = 2 -> IF year % 4 = 0 /\ (year % 100 # 0 \/ year % 400 = 0) THEN 29 ELSE 28
      [] OTHER -> 0

ValidDate(year, month, day) == year \in 2000..9999 /\ day \in 1..DaysIn(year, month)
-----------------------------------------------------------------------------
(* standards_from *)

SourcesValid(registry) ==
    /\ registry.sources # <<>> /\ DistinctIds(registry.sources)
    /\ \A s \in Range(registry.sources) : s.sound /\ s.controls # {}
    /\ \A lane \in Lanes : \A name \in registry.coverage[lane] :
           \E s \in Range(registry.sources) : name \in s[lane]

OutcomesOf(status) ==
    CASE status = "enforced" -> {"violation", "warning"}
      [] status = "evidence-contract" -> {"incomplete"}
      [] status = "planned" -> {"advisory"}

Enforceable(input) ==
    \/ input.kind \in {"deterministic-static", "semantic-static"}
    \/ input.kind = "external-report" /\ input.fresh

InputValid(input, registry) ==
    /\ input.sources # {} /\ input.sources \subseteq IdsOf(registry.sources)
    /\ input.outcome \in OutcomesOf(input.status)
    /\ input.status = "enforced" <=> input.rule # None
    /\ input.status = "enforced" => Enforceable(input)

SourceOf(registry, id) == registry.sources[CHOOSE i \in DOMAIN registry.sources :
                                              registry.sources[i].id = id]

\* An input that holds for all languages covers none of them.
Covered(registry, inputs, lane) ==
    CASE lane = "organizations" ->
           UNION {SourceOf(registry, id).organizations : id \in UNION {i.sources : i \in inputs}}
      [] lane = "languages" -> UNION {i.languages : i \in inputs} \ {"all"}
      [] OTHER -> UNION {i[lane] : i \in inputs}

StandardsValid(registry, inputs) ==
    /\ SourcesValid(registry) /\ inputs # <<>>
    /\ "all" \notin registry.coverage.languages
    /\ \A i \in Range(inputs) : InputValid(i, registry)
    /\ DistinctIds(inputs)
    /\ \A lane \in Lanes :
           registry.coverage[lane] \subseteq Covered(registry, Range(inputs), lane)

InputOf(inputs, id) == inputs[CHOOSE i \in DOMAIN inputs : inputs[i].id = id]

\* validate_builtin_standards
RuleTraced(rule, registry, inputs) ==
    LET refs == Range(rule.refs)
        mine == {InputOf(inputs, id) : id \in Range(rule.inputs)}
        spoken == UNION {i.languages : i \in mine}
    IN /\ rule.refs # <<>> /\ rule.inputs # <<>>
       /\ Range(rule.inputs) \subseteq IdsOf(inputs)
       /\ \A r \in refs : /\ r.source \in IdsOf(registry.sources) /\ r.controls # {}
                          /\ r.controls \subseteq SourceOf(registry, r.source).controls
       /\ Cardinality({r.source : r \in refs}) = Len(rule.refs)
       /\ IsInjective(rule.inputs)
       /\ \A i \in mine : i.status = "enforced" /\ i.rule = rule.id
       /\ {r.source : r \in refs} = UNION {i.sources : i \in mine}
       /\ rule.languages # {} => "all" \notin spoken /\ rule.languages = spoken

\* Plausible bug: only the rules of the chosen packages are traced.
Traced_Chosen(rulesets, rules, registry, inputs) ==
    /\ \A r \in Range(rules) :
           r.package \in {"core", "shared"} \cup rulesets => RuleTraced(r, registry, inputs)
    /\ \A i \in Range(inputs) : i.status = "enforced" =>
           \E r \in Range(rules) : i.id \in Range(r.inputs)

\* Every packaged rule is traced, chosen or not, and every enforced input has one.
Traced(rulesets, rules, registry, inputs) ==
    /\ \A r \in Range(rules) : RuleTraced(r, registry, inputs)
    /\ \A i \in Range(inputs) : i.status = "enforced" =>
           \E r \in Range(rules) : i.id \in Range(r.inputs)

Chosen(rulesets, rules) ==
    SelectSeq(rules, LAMBDA r : r.package \in {"core", "shared"} \cup rulesets)

\* Catalog::load: a project's rule takes the place of a packaged one of its name.
Loads(rulesets, rules, registry, inputs, project) ==
    /\ registry.coverage = Required /\ StandardsValid(registry, inputs)
    /\ Traced(rulesets, rules, registry, inputs)
    /\ DistinctIds(Chosen(rulesets, rules)) /\ project # None
Entries(rulesets, rules, project) ==
    [id \in IdsOf(Chosen(rulesets, rules)) \cup DOMAIN project |->
        IF id \in DOMAIN project THEN "project" ELSE "packaged"]
-----------------------------------------------------------------------------
(* The project's rule files: a file is [path, kind, yaml, bytes, rule]; what *)
(* is read again is the bytes found then.                                   *)

YamlFiles(found) == SelectSeq(found, LAMBDA f : f.kind # "directory" /\ f.yaml)
Bytes(files) == FoldLeft(LAMBDA n, f : n + f.bytes, 0, files)

Discovered(found) ==
    /\ Len(found) <= MaxEntries
    /\ \A f \in Range(YamlFiles(found)) : f.kind = "file"
    /\ Len(YamlFiles(found)) \in 1..MaxRuleFiles /\ Bytes(YamlFiles(found)) <= MaxRuleBytes

\* Plausible bug: a file may have grown since it was found.
Reads_Grown(found, again) == Discovered(found)

Reads(found, again) ==
    Discovered(found) /\ \A f \in Range(YamlFiles(found)) : again[f.path] = f.bytes

\* The rules by name, None when the inventory is refused
Project(found, again) ==
    LET files == YamlFiles(found)
        ids == {files[i].rule : i \in DOMAIN files}
    IN IF /\ Reads(found, again) /\ None \notin ids
          /\ Cardinality(ids) = Len(files)
       THEN [id \in ids |-> CHOOSE f \in Range(files) : f.rule = id]
       ELSE None
-----------------------------------------------------------------------------
(* What the catalog promises *)

\* In a catalog that loads, every packaged rule says truly which standards it
\* enforces: the sources it names are exactly those of its lifecycle inputs,
\* with controls those sources have; every input declared enforced is enforced
\* by a packaged rule of the name it gives; and everything the archive claims
\* to cover reaches an input (catalog.rs:441-761, 783-837).
TracedToStandards(rulesets, rules, registry, inputs, project) ==
    Loads(rulesets, rules, registry, inputs, project) =>
        /\ \A i \in Range(inputs) : i.status = "enforced" =>
               \E r \in Range(rules) :
                   /\ r.id = i.rule
                   /\ \A s \in i.sources : \E ref \in Range(r.refs) :
                          ref.source = s /\ ref.controls \subseteq SourceOf(registry, s).controls
        /\ \A r \in Range(rules) : \A ref \in Range(r.refs) :
               \E i \in Range(inputs) :
                   i.rule = r.id /\ ref.source \in i.sources /\ i.outcome # "advisory"
        /\ \A lane \in Lanes : \A name \in Required[lane] :
               \E i \in Range(inputs) :
                   name \in IF lane = "organizations"
                            THEN UNION {SourceOf(registry, s).organizations : s \in i.sources}
                            ELSE i[lane]
        /\ \A r \in Range(rules) : r.package = "core" =>
               r.id \in DOMAIN Entries(rulesets, rules, project)

\* What is read never exceeds the budget that was found to be kept, whatever
\* happened to the files in between, and no two files give one rule
\* (project_inventory.rs:11-122).
InventoryWithinBudget(found, again) ==
    LET p == Project(found, again) IN
    p # None =>
        /\ Cardinality(DOMAIN p) = Len(YamlFiles(found))
        /\ FoldLeft(LAMBDA n, f : n + again[f.path], 0, YamlFiles(found)) <= MaxRuleBytes

\* Dates are those of the calendar: of four centuries, 97 years have a day more.
CalendarRight ==
    LET days(y) == Cardinality({md \in (0..13) \X (0..32) : ValidDate(y, md[1], md[2])})
        years == 2000..2399
        leap == {y \in years : days(y) = 366}
    IN  Cardinality(leap) = 97 /\ \A y \in years \ leap : days(y) = 365
=============================================================================

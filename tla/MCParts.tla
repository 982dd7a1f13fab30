------------------------------ MODULE MCParts ------------------------------
(***************************************************************************)
(* What the parts are asked, beside the inputs of MCInputs: RuleCatalog on *)
(* catalogs that differ from one that loads in up to two parts;            *)
(* RuleExpression on expressions of one to three levels; CustomRule on     *)
(* rules about tests, comments, files and commits; ConfigLayout on every   *)
(* small graph of prerequisites over two rules and two commands, on        *)
(* commands with up to two reports or a project, and on lists of arguments *)
(* of an installation; RuleFile with one rule of an optional package, one  *)
(* that is always there and a project rule that may take its name, for two *)
(* writers and one editor.                                                 *)
(***************************************************************************)
EXTENDS MCInputs
LOCAL INSTANCE SequencesExt
LOCAL INSTANCE TLC

CONSTANT Jobs

\* The chunks slice::chunks cuts for Jobs jobs and N items
LOCAL DivCeil(a, b) == (a + b - 1) \div b
LOCAL Chunk == DivCeil(N, Jobs)
MCW == DivCeil(N, Chunk)
MCStart == [w \in 1..(MCW + 1) |-> IF w = MCW + 1 THEN N + 1 ELSE (w - 1) * Chunk + 1]
-----------------------------------------------------------------------------
\* The gate: results as the writers of a result leave them, and the
\* contradictory ones that only a stored report can hold
LOCAL GateResults == INSTANCE CheckResult WITH Diagnostics <- {"d"}
LOCAL Written(p) ==
  LET found == [p EXCEPT !.diagnostics = <<"d">>]
      done == GateResults!Complete(found)
      skipped == GateResults!Skip(p)
  IN {p, GateResults!Complete(p), done, GateResults!Block(p, "blocked"),
      GateResults!Block(done, "blocked"), skipped, GateResults!Block(skipped, "blocked")}
LOCAL Forged(p) ==
  LET done == GateResults!Complete(p)
      skipped == GateResults!Skip(p)
  IN {[done EXCEPT !.diagnostics = <<"d">>], [done EXCEPT !.status = "timed_out"],
      [skipped EXCEPT !.reason = FALSE], [skipped EXCEPT !.diagnostics = <<"d">>],
      [done EXCEPT !.applicability = "not_applicable"]}
LOCAL SmallResults ==
  UNION {LET p == GateResults!Pending(id, r, s) IN Written(p) \cup Forged(p) :
           id \in {"a", "b"}, r \in BOOLEAN, s \in GateResults!Severities}

-----------------------------------------------------------------------------
\* The planner: every configuration of three entries, the first one or two rules,
\* cyclic ones included, with a declared selection of at most one profile and a
\* task that adds at most the last entry
LOCAL Three == 1..3
LOCAL Entries(rules) ==
  {f \in [Three -> [rule : BOOLEAN, enabled : BOOLEAN, required : BOOLEAN, dependsOn : SUBSET Three]] :
     \A i \in Three : /\ f[i].rule = (i <= rules) /\ (f[i].rule \/ f[i].enabled)
                      /\ i \notin f[i].dependsOn}
LOCAL Profiles ==
  {[quick |-> q, full |-> <<>>] : q \in {<<>>, <<{3}>>}}
    \cup {[quick |-> <<>>, full |-> <<1..n>>] : n \in {2, 3}}
LOCAL SmallConfigs ==
  UNION {[entries : Entries(r), task : {{i} : i \in {3} \ 1..r} \cup {{}}, profiles : Profiles] :
           r \in 1..2}
\* RuleCatalog: and inventories of up to three files that change between two readings
LOCAL Covered == [organizations |-> {"acme", "beta"}, languages |-> {"go", "rust"},
                   stages |-> {"review"}, concerns |-> {"testing"}]

Catalogs == INSTANCE RuleCatalog WITH Required <- Covered, MaxRuleFiles <- 2,
                                      MaxRuleBytes <- 3, MaxEntries <- 3

LOCAL Standard(id, org) ==
    [id |-> id, organizations |-> {org}, languages |-> {"go", "rust"}, stages |-> {"review"},
     concerns |-> {"testing"}, controls |-> {"c1", "c2"}, sound |-> TRUE]
LOCAL Registry == [coverage |-> Covered, sources |-> <<Standard("s1", "acme"), Standard("s2", "beta")>>]
LOCAL Registries ==
    {Registry, [Registry EXCEPT !.coverage.languages = {"go"}],
     [Registry EXCEPT !.sources[2].id = "s1"], [Registry EXCEPT !.sources[2].organizations = {"acme"}],
     [Registry EXCEPT !.sources[1].controls = {"c2"}], [Registry EXCEPT !.sources[2].sound = FALSE],
     [Registry EXCEPT !.sources = <<Standard("s1", "acme")>>]}

LOCAL MatrixEntry(id, rule, source, language) ==
    [id |-> id, status |-> "enforced", rule |-> rule, stages |-> {"review"},
     languages |-> {language}, concerns |-> {"testing"}, sources |-> {source},
     kind |-> "semantic-static", outcome |-> "violation", fresh |-> FALSE]
LOCAL Matrix == <<MatrixEntry("i1", "r1", "s1", "go"), MatrixEntry("i2", "r2", "s2", "rust"),
                  [MatrixEntry("i3", None, "s1", "all") EXCEPT !.status = "planned", !.outcome = "advisory"]>>
LOCAL Matrices ==
    {Matrix, [Matrix EXCEPT ![3].id = "i1"], [Matrix EXCEPT ![2].languages = {"all"}],
     [Matrix EXCEPT ![2].sources = {"s1"}], [Matrix EXCEPT ![1].sources = {"s1", "s2"}],
     [Matrix EXCEPT ![2].status = "evidence-contract", ![2].outcome = "incomplete", ![2].rule = None],
     [Matrix EXCEPT ![1].kind = "external-report"], [Matrix EXCEPT ![2].rule = "r1"],
     [Matrix EXCEPT ![1].kind = "external-report", ![1].fresh = TRUE],
     [Matrix EXCEPT ![1].outcome = "advisory"], [Matrix EXCEPT ![3].rule = "r1"]}

LOCAL CatalogRule(id, package, source, input, language) ==
    [id |-> id, package |-> package, languages |-> {language},
     refs |-> <<[source |-> source, controls |-> {"c1"}]>>, inputs |-> <<input>>]
LOCAL Rules == <<CatalogRule("r1", "core", "s1", "i1", "go"), CatalogRule("r2", "lang", "s2", "i2", "rust")>>
LOCAL RuleLists ==
    {Rules, SubSeq(Rules, 1, 1), [Rules EXCEPT ![2].refs[1].controls = {"c9"}],
     [Rules EXCEPT ![2].refs = <<>>], [Rules EXCEPT ![2].inputs = <<"i2", "i2">>],
     [Rules EXCEPT ![2].inputs = <<"i3">>], [Rules EXCEPT ![1].languages = {}],
     [Rules EXCEPT ![1].languages = {"rust"}], [Rules EXCEPT ![2].refs[1].source = "s1"],
     [Rules EXCEPT ![1].inputs = <<"i1", "i2">>],
     [Rules EXCEPT ![1].refs = @ \o <<[source |-> "s2", controls |-> {"c2"}]>>],
     Append(Rules, CatalogRule("r1", "lang", "s1", "i1", "go"))}

CatalogCases ==
    {<<registry, inputs, rules>> \in Registries \X Matrices \X RuleLists :
        \/ registry = Registry \/ inputs = Matrix \/ rules = Rules}

LOCAL FilesAt(path) ==
    {[path |-> path, kind |-> k, yaml |-> y, bytes |-> b, rule |-> r] :
        k \in {"file", "directory", "special"}, y \in BOOLEAN, b \in {1, 2, 3}, r \in {"a", "b", None}}
Inventories ==
    {<<f>> : f \in FilesAt("p")}
    \cup {fs \in FilesAt("p") \X FilesAt("q") : fs[1].kind = "file" \/ fs[2].kind = "file"}

CatalogRight(case) ==
    \A rulesets \in {{}, {"lang"}}, project \in {<<>>, [r1 |-> "own"]} :
        Catalogs!TracedToStandards(rulesets, case[3], case[1], case[2], project)
InventoryRight(found) ==
    \A again \in [{"p", "q"} -> 1..4] : Catalogs!InventoryWithinBudget(found, again)
\* What stands for a constant TLC evaluates each time; these two it keeps.
PlanConfigs == SmallConfigs
GateCandidates == SmallResults
-----------------------------------------------------------------------------
\* RuleExpression: expressions, accepted or not
Typed == INSTANCE RuleExpression WITH MaxDepth <- 3, MaxNodes <- 9, FewValues <- 1

LOCAL E(op, name, args, words) == [op |-> op, name |-> name, args |-> args, words |-> words]
LOCAL Letter == Typed!String(<<1>>)
LOCAL Leaves ==
    {E("bool", None, <<>>, <<Typed!Truth(TRUE)>>), E("number", None, <<>>, <<Typed!Number(1)>>),
     E("string", None, <<>>, <<Letter>>), E("entities", None, <<>>, <<>>),
     E("source", "s", <<>>, <<>>), E("source", "t", <<>>, <<>>), E("var", "x", <<>>, <<>>),
     E("field", "name", <<>>, <<>>), E("field", "path", <<>>, <<>>)}
LOCAL Unary(args) ==
    {E(op, None, <<a>>, <<>>) : op \in {"not", "count", "distinct", "and"}, a \in args}
    \cup {E("field", f, <<a>>, <<>>) : f \in {"text", "path"}, a \in args}
    \cup {E("in", None, <<a>>, <<w, w>>) : w \in {Letter, Typed!Number(2)}, a \in args}
    \cup {E("matches", None, <<a>>, <<Letter>>) : a \in args}
    \cup {E("replace", None, <<a>>, <<Letter, Typed!String(w)>>) : a \in args, w \in {<<>>, <<2, 1>>}}
LOCAL Binary(left, right) ==
    {E(op, None, <<a, b>>, <<>>) :
       op \in {"and", "or", "concat", "contains", "subset"}, a \in left, b \in right}
    \cup {E("compare", r, <<a, b>>, <<>>) : r \in {"eq", "lt", "ge"}, a \in left, b \in right}
LOCAL Binding(inputs, bodies) ==
    {E(op, x, <<a, b>>, <<>>) :
       op \in {"all", "filter", "map"}, x \in {None, "x"}, a \in inputs, b \in bodies}
    \cup {E("any", "x", <<a, b>>, <<>>) : a \in inputs, b \in bodies}

LOCAL Entities == E("entities", None, <<>>, <<>>)
LOCAL FromSource == E("source", "s", <<>>, <<>>)
LOCAL Nameds == E("map", "x", <<FromSource, E("field", "name", <<>>, <<>>)>>, <<>>)
LOCAL Texts == E("map", "y", <<Entities, E("field", "text", <<E("var", "y", <<>>, <<>>)>>, <<>>)>>, <<>>)
LOCAL Feeds == {Entities, Nameds, Texts, E("distinct", None, <<Nameds>>, <<>>),
                 E("filter", None, <<FromSource, E("matches", None, <<E("field", "text", <<>>, <<>>)>>,
                                               <<Letter>>)>>, <<>>)}
LOCAL Counts == {E("number", None, <<>>, <<Typed!Number(n)>>) : n \in {1, 3}}
                \cup {E("count", None, <<c>>, <<>>) : c \in Feeds}
LOCAL Once == Unary(Leaves) \cup Binary(Leaves, Leaves)
LOCAL OfItems == {E("field", "name", <<>>, <<>>), E("field", "path", <<>>, <<>>), E("var", "x", <<>>, <<>>)}

(* Expressions of one to three levels, accepted or not.                    *)
Expressions(level) ==
    CASE level = 1 -> Once
      [] level = 2 -> Binding({Entities}, Unary(Leaves) \cup Binary(OfItems, Leaves))
      [] level = 3 -> Binding(Feeds, Leaves) \cup Unary(Feeds) \cup Binary(Feeds, Feeds)
                      \cup Binary(Counts, Counts)
                      \cup Unary(Binding({FromSource}, Leaves))
      [] level = 4 -> Binding({Entities, Nameds}, Binding({FromSource, Texts}, Leaves))

LOCAL Entity(name, text, path) == [name |-> name, text |-> text, path |-> path]
LOCAL FactWorlds ==
    {[entities |-> es, s |-> ss] :
       es \in {<<>>, <<Entity(<<1>>, <<1, 2>>, <<1>>)>>,
               <<Entity(<<1>>, <<2>>, <<2>>), Entity(<<2>>, <<1, 1>>, None), Entity(<<1>>, <<1>>, <<1>>)>>},
       ss \in {<<Entity(<<2>>, <<2, 1>>, <<1>>), Entity(<<1>>, <<1>>, <<2>>)>>,
               <<Entity(<<1>>, <<2>>, None)>>}}

ExpressionRight(e) ==
    \A facts \in FactWorlds, complete \in {{"entities"}, {"entities", "s"}} :
        /\ Typed!WellTypedEvaluates(e, facts, complete)
        /\ Typed!OrderOfFactsIrrelevant(e, facts, complete)
        /\ Typed!LegacyKeepsItsMeaning(e, facts, complete)
Collections == BoundedSeq({Typed!Number(n) : n \in 1..3}, 4)
IndexRight(left) == \A right \in Collections : Typed!IndexRight(left, right)

-----------------------------------------------------------------------------
\* CustomRule: changes of three files, Java, Python and one that no parser reads
LOCAL CustomOrder == <<"a.java", "b.py", "c.txt">>
LOCAL CustomLanguages == ("a.java" :> "java") @@ ("b.py" :> "python") @@ ("c.txt" :> None)
LOCAL Full == {"test_methods", "annotations", "comments", "imports"}
CustomRuleset == INSTANCE CustomRule WITH
    None <- None, Order <- CustomOrder, Language <- CustomLanguages,
    Syntax <- [java |-> Full, python |-> Full, shell |-> {"comments"}],
    Lines <- [good |-> 1, bad |-> 3, odd |-> 2], Words <- [good |-> 1, bad |-> 2, odd |-> 1]

\* Rules.  Patterns: the texts they match.
LOCAL Then(some) == some @@ CustomRuleset!Nothing
LOCAL Based(entity, change, capabilities, then) ==
    [schema |-> 1, expression |-> None, sources |-> << >>, capabilities |-> capabilities, entity |-> entity,
     change |-> change, paths |-> {}, languages |-> {}, then |-> then, marker |-> None, scope |-> None]
LOCAL Asserted ==
    {[name |-> {"good", "odd"}], [forbid |-> {"bad"}], [require |-> {"good"}],
     [minCount |-> 2, name |-> {"good"}], [maxCount |-> 1], [minCount |-> 2, maxCount |-> 1]}
LOCAL Narrowed(rules) ==
    rules \cup {[r EXCEPT !.paths = {"a.java"}] : r \in rules} \cup {[r EXCEPT !.languages = {"python"}] : r \in rules}
LOCAL Sourced(entity, change, scope) ==
    [entity |-> entity, change |-> change, scope |-> scope, paths |-> {}, languages |-> {},
     capabilities |-> {CustomRuleset!EntityCapability[entity]}]
CustomRules(kind) ==
    CASE kind = "tests" ->
           Narrowed({Based("test_method", change, {"test_methods"}, Then(some)) :
                       change \in {None, "modified", "any"}, some \in Asserted})
      [] kind = "markers" ->
           {[Based("test_method", change, {"test_methods", capability}, Then([marker |-> TRUE] @@ some)) EXCEPT
               !.marker = [kind |-> bound, fields |-> fields], !.scope = scope] :
               change \in {None, "any"}, capability \in {"annotations", "commits"}, some \in {<< >>, [forbid |-> {"bad"}]},
               bound \in {"annotation", "git_trailer"}, fields \in {{}, {"owner"}}, scope \in {"all_added_tests", "ai_only"}}
      [] kind = "dependencies" ->
           {[Based("test_method", change, {"test_methods", "annotations"} \cup more,
                  Then([dependency |-> "lib", marker |-> TRUE])) EXCEPT
               !.marker = [kind |-> "annotation", fields |-> {}], !.scope = "all_added_tests"] :
               change \in {None, "any"}, more \in {{}, {"dependency_resolution"}}}
      [] kind = "texts" ->
           Narrowed({Based(entity, change, {"comments", "imports"}, Then(some)) :
                       entity \in {"comment", "import"}, change \in {None, "any", "modified"}, some \in Asserted})
      [] kind = "files" ->
           {Based("file", change, {"files"}, Then(some)) : change \in {None, "all", "any"},
               some \in Asserted \cup {[maxLines |-> 2], [maxWords |-> 3], [minCount |-> 3], [required |-> {"c.txt", "d"}]}}
      [] OTHER ->
           {[Based("comment", None, {"comments"}, Then(<< >>)) EXCEPT
               !.schema = 3, !.sources = [more |-> Sourced(entity, change, scope)],
               !.expression = [entities |-> 1, more |-> 2]] :
               entity \in {"file", "test_method", "commit"}, change \in {None, "all", "any"}, scope \in {None, "ai_only"}}

\* Changes
LOCAL ATest(kind, text, earlier, later, ai) ==
    [id |-> "t", kind |-> kind, text |-> text, earlier |-> earlier, now |-> later, ai |-> ai]
LOCAL Holding(text, tests, comments, before) ==
    [text |-> text, tests |-> tests, comments |-> comments, before |-> before]
LOCAL JavaTests(kind) ==
    IF kind = "texts" THEN {<< >>}
    ELSE {<<ATest("added", text, None, later, ai)>> : text \in {"good", "bad"}, later \in {None, {}, {"owner"}}, ai \in BOOLEAN}
         \cup {<<ATest("unchanged", "good", earlier, later, FALSE)>> : earlier \in {None, {"owner"}}, later \in {None, {}}}
LOCAL JavaComments(kind) ==
    IF kind = "texts"
    THEN {<< >>, <<"bad">>, <<"bad", "good">>, <<"bad", "bad">>, <<"good", "bad", "bad">>} ELSE {<<"bad">>}
LOCAL EarlierComments(kind) == IF kind \in {"texts", "sources"} THEN {<< >>, <<"bad">>} ELSE {<< >>}
CustomChanges(kind) ==
    {[files |-> [p \in {"a.java", "b.py", "c.txt"} |->
         IF p = "a.java" THEN Holding("good", tests, comments, before)
         ELSE IF p = "b.py" THEN Holding("bad", <<ATest("modified", "odd", {"owner"}, {"owner"}, TRUE)>>, <<"odd">>, <<"odd">>)
         ELSE Holding("odd", << >>, << >>, << >>)],
      changes |-> [p \in changed |-> [kind |-> IF p = "a.java" THEN "added" ELSE "modified",
                                      old |-> IF p = "a.java" THEN None ELSE p]],
      delivery |-> delivery, filter |-> {"a.java", "c.txt"}, commits |-> <<"good">>] :
        tests \in JavaTests(kind), comments \in JavaComments(kind), before \in EarlierComments(kind),
        changed \in {{"a.java"}, {"a.java", "b.py"}, {"a.java", "b.py", "c.txt"}}, delivery \in BOOLEAN}

LOCAL Module(path, language, has) == [owns |-> {path}, language |-> language, has |-> has]
LOCAL Projects ==
    {<< >>, <<Module("a.java", "java", {"lib"}), Module("b.py", "python", {})>>, <<Module("a.java", "java", {})>>}
CustomKinds == {"tests", "markers", "dependencies", "texts", "files", "sources"}
CustomRight(rule, change) ==
    \A projects \in Projects :
        LET facts == [provenance |-> TRUE, git |-> TRUE, projects |-> projects]
        IN  /\ CustomRuleset!FindsWhatIsOwed(rule, change, facts)
            /\ CustomRuleset!NarrowingRight(rule, change, facts)
-----------------------------------------------------------------------------
\* ConfigLayout
LOCAL Property(name, value) == [property |-> name, value |-> value]
LOCAL Goal(name) == [property |-> None, value |-> name]
LOCAL Goals == <<Goal("clean"), Goal("test-compile"), Goal("analyze")>>
Layouts == INSTANCE ConfigLayout WITH
    None <- None, Capabilities <- {"doctor"}, Version <- 2, Reserved <- "coverage", Rulesets <- {"core"},
    MavenScopes <- {"compile", "test"}, MavenArgs <- {Property("verbose", "false"), Goal("-N")},
    MavenGoals <- Goals, MavenBans <- {Goal("-q"), Property(None, "file")}

LOCAL Path(names) == [at |-> names, plain |-> TRUE]
LOCAL A == Path(<<"a">>)
LOCAL AOtherwise == [A EXCEPT !.plain = FALSE]
LOCAL B == Path(<<"b">>)
LOCAL Outside == [at |-> None, plain |-> FALSE]
LOCAL Here == [at |-> <<>>, plain |-> FALSE]
LOCAL ReportAt(path, baseline, stdout, mode) ==
    [path |-> path, baseline |-> baseline, stdout |-> stdout, mode |-> mode, format |-> "diagnostics",
     minimumTests |-> None, minimumCoverage |-> None, coveragePaths |-> {}]
LOCAL Pip(args) == [isolated |-> TRUE, args |-> args, probes |-> {"python", "pip"}]
LOCAL Command(id) ==
    [id |-> id, kind |-> "command", required |-> FALSE, dependsOn |-> <<>>, env |-> <<>>, argv |-> <<Goal("run")>>,
     args |-> <<>>, cwd |-> Here, timeout |-> 60, expected |-> 0, findings |-> <<>>, evidence |-> None,
     tools |-> <<[id |-> "tool", timeout |-> 5, inputs |-> <<>>]>>, reports |-> <<>>, projects |-> <<>>,
     pip |-> Pip(<<>>), effectiveness |-> None, compatibility |-> None]

\* Prerequisites
LOCAL Waits == {<<>>, <<"a">>, <<"b">>, <<"c">>, <<"d">>, <<"a", "c">>, <<"c", "c">>, <<"ghost">>}
LayoutGraphs == [1..4 -> Waits]
LOCAL LayoutRule(waits, must) ==
    [enabled |-> TRUE, required |-> must, dependsOn |-> waits, evidence |-> None]
LOCAL LayoutConfig(waits, full, must) ==
    [requires |-> [version |-> 1, capabilities |-> <<"doctor">>], rulesets |-> <<"core">>, customRules |-> None,
     rules |-> [a |-> LayoutRule(waits[1], must), b |-> LayoutRule(waits[2], FALSE)], ruleOrder |-> <<"a", "b">>,
     checks |-> <<[Command("d") EXCEPT !.dependsOn = waits[3]],
                  [Command("c") EXCEPT !.dependsOn = waits[4], !.required = must]>>,
     constraints |-> <<>>, lifecycles |-> {"a"}, reviews |-> [a |-> "first"],
     profiles |-> [full |-> full]]
GraphRight(waits) ==
    \A full \in {<<"a", "c">>, <<"a">>} : Layouts!OrderRight(LayoutConfig(waits, full, TRUE))

\* Reports and projects
LOCAL ReportLists(paths) ==
    {ReportAt(p, b, stdout, mode) : p \in paths, b \in {None, A, B}, stdout \in BOOLEAN,
                                  mode \in {"full", "ratchet"}}
LOCAL Python(root, source, tests, target, report) ==
    [ecosystem |-> "python", root |-> root, source |-> source, tests |-> tests, target |-> target,
     report |-> report, extras |-> <<>>]
LOCAL Maven(root, pom) ==
    [ecosystem |-> "maven", root |-> root, pom |-> pom, dependencies |-> B, usage |-> FALSE]
LOCAL In(root, names) == Path(root.at \o names)
LOCAL Word(word, value) == Layouts!Word(word, value)
LOCAL ArgsFor(project) ==
    <<Word("ignore", None), Word("target", None), Word("path", Layouts!Local(project, project.target).at),
      Word("report", None), Word("path", Layouts!Local(project, project.report).at), Word("here", <<>>)>>
LOCAL Installing(project) ==
    [Command("pip") EXCEPT !.projects = <<project>>, !.cwd = project.root, !.pip = Pip(ArgsFor(project))]
LOCAL Pair(current, baseline) == [current |-> Path(<<current>>), baseline |-> Path(<<baseline>>)]
LayoutChecks(kind) ==
    CASE kind = "reports" ->
           {[Command("c") EXCEPT !.reports = reports, !.findings = findings, !.expected = expected] :
               reports \in {<<r>> : r \in ReportLists({A, AOtherwise, Outside})} \cup
                           {<<q, r>> : q \in ReportLists({A, B}), r \in ReportLists({AOtherwise, B})},
               findings \in {<<>>, <<1>>}, expected \in 0..1}
      [] kind = "projects" ->
           {[Command("c") EXCEPT !.projects = projects, !.reports = reports] :
               projects \in {<<Maven(r, p)>> : r \in {Here, A, AOtherwise}, p \in {A, AOtherwise, B}} \cup
                            {<<Maven(Here, A), Maven(r, Path(<<"x">>))>> : r \in {Here, A}},
               reports \in {<<>>, <<ReportAt(A, None, FALSE, "full")>>, <<ReportAt(Path(<<"r">>), B, FALSE, "full")>>}}
      [] kind = "archives" ->
           {[Command("c") EXCEPT !.compatibility = [artifacts |-> a, classpath |-> c]] :
               a \in {<<Pair("x", "y")>>, <<Pair("x", "y"), Pair("z", "y")>>},
               c \in {<<>>, <<Pair("x", "x")>>, <<Pair("y", "x")>>}}
      [] kind = "python" ->
           {Installing(Python(root, In(root, source), In(root, tests), In(root, target), In(root, report))) :
               root \in {Here, Path(<<"m">>)}, source \in {<<"src">>, <<"lib", "x">>}, tests \in {<<"tests">>, <<"src">>},
               target \in {<<"out">>, <<"lib">>, <<"src", "x">>, <<>>}, report \in {<<"out.json">>, <<"out", "r">>}}
      [] OTHER ->
           {[Command("c") EXCEPT !.argv = <<Goal("mvn")>> \o argv,
                 !.projects = <<[Maven(Here, A) EXCEPT !.usage = TRUE]>>] :
               argv \in {<<Property("verbose", "false"), Goal("-N")>> \o goals :
                           goals \in {Goals, Goals \o <<Goal("clean")>>, Reverse(Goals),
                                      Goals \o <<Property("verbose", "true")>>, Goals \o <<Goal("-q")>>}}}
CheckRight(check) == Layouts!WritesRight(check)

\* Arguments
LOCAL AProject == Python(Here, Path(<<"src">>), Path(<<"tests">>), Path(<<"out">>), Path(<<"out.json">>))
LOCAL Pieces == {<<Word("ignore", None)>>, <<Word("quiet", None)>>, <<Word("here", <<>>)>>, <<Word("here", <<"extra">>)>>,
           <<Word("target", None), Word("path", <<"out">>)>>, <<Word("target", None)>>,
           <<Word("report", None), Word("path", <<"out.json">>)>>, <<Word("index", None)>>}
LayoutArguments == [1..4 -> Pieces]
ArgumentsRight(pieces) ==
    \A last \in Pieces \cup {<<>>} :
        LET check == [Installing(AProject) EXCEPT !.pip = Pip(FlattenSeq(pieces) \o last)]
        IN  Layouts!InstallRight(check, AProject)

-----------------------------------------------------------------------------
\* RuleFile
LOCAL Definition(package, category, must) ==
    [package |-> package, category |-> category, required |-> must]
FileBuiltin == [plain |-> Definition("core", "style", TRUE),
                java |-> Definition("java", "style", FALSE)]
FileProject == [java |-> Definition("custom", "project", TRUE)]

\* The configurations edited one by one: what the labels, the settings and the
\* lifecycle records may be, each with all the others.
LOCAL Setting(enabled, must, parameters) ==
    [enabled |-> enabled, required |-> must, severity |-> "unset",
     parameters |-> parameters]
LOCAL FileConfig(cats, of, rules, packages, custom, life) ==
    [cats |-> cats, of |-> of, rules |-> rules, packages |-> packages, custom |-> custom,
     profiles |-> [fast |-> {"plain"}], life |-> life, notes |-> TRUE]
LOCAL FileCats == {<<>>, [style |-> "style"], [s |-> "style", mine |-> "none"],
             [style |-> "style", project |-> "project", mine |-> "none"]}
LOCAL FileLabels == {<<>>, [java |-> <<"mine">>], [plain |-> <<"style", "mine">>, java |-> <<"s">>]}
LOCAL FileSettings == {Setting(e, r, p) : e \in BOOLEAN, r \in {"unset", "yes"}, p \in BOOLEAN}
LOCAL FileRules == {<<>>} \cup [{"plain"} -> FileSettings] \cup [{"java"} -> FileSettings]
             \cup [{"plain", "java"} -> {Setting(TRUE, "unset", FALSE), Setting(FALSE, "yes", TRUE)}]
LOCAL LifeStates == {"revalidate", "demoted", "deprecated", "retired"}
LOCAL FileLives == {<<>>} \cup [{"plain"} -> LifeStates] \cup [{"java"} -> LifeStates]
FileConfigs ==
    {FileConfig(c, o, r, p, x, <<>>) : c \in FileCats, o \in FileLabels,
        r \in {<<>>, [plain |-> Setting(TRUE, "unset", TRUE)]}, p \in {{}, {"java"}}, x \in BOOLEAN}
    \cup {FileConfig([style |-> "style", mine |-> "none"], [java |-> <<"mine">>], r, p, TRUE, l) :
        r \in FileRules, p \in {{}, {"java"}}, l \in FileLives}

LOCAL FileIds == {"plain", "java", "other"}
LOCAL Asked(op) == [op |-> op]
FileMutations ==
    [op : {"create"}, name : {"mine", "more"}]
    \cup [op : {"rename"}, name : {"style", "mine"}, new : {"s", "more"}]
    \cup [op : {"delete"}, name : {"style", "mine"}, force : BOOLEAN]
    \cup [op : {"assign", "unassign"}, id : FileIds, name : {"mine", "style"}]
    \cup [op : {"enable", "disable"}, id : FileIds]
    \cup [op : {"configure"}, id : FileIds, required : {"unset", "no"},
          severity : {"unset", "warning"}, parameters : BOOLEAN]
    \cup [op : {"lifecycle"}, id : {"plain", "java"}, state : LifeStates \cup {"revoked"}]

\* What the writers of the state machine ask for, of which files
FewFiles == {FileConfig([style |-> "style"], <<>>, <<>>, {}, FALSE, <<>>),
             FileConfig([style |-> "style", mine |-> "none"], [java |-> <<"mine">>],
                    [plain |-> Setting(TRUE, "unset", FALSE)], {}, FALSE, <<>>)}
FewMutations == {[op |-> "create", name |-> "mine"], [op |-> "enable", id |-> "java"],
                 [op |-> "rename", name |-> "mine", new |-> "more"]}
Drafts == [id : {"r", "q"}, text : {"a", "b"}, quotes : {"old", "new"}, op : {"draft"}]

EditRight(c, m) == Rule!EditIsLocal(c, m) /\ Rule!EditTakesEffect(c, m)
-----------------------------------------------------------------------------
\* The computations, with all they are asked

ComputationNames ==
  {"trees", "listings", "sizes", "issues", "coverage", "baseline", "contract", "matching",
   "records", "histories", "orders", "changes", "trials", "metrics", "percentiles", "labels",
   "envelopes", "feedback", "catalog", "inventory", "dates", "expressions", "sets",
   "custom rules", "edits", "layout graphs", "layout checks", "arguments"}

LOCAL Sides == {"commit", "index", "worktree"}
LOCAL Listings ==
  UNION {ViewListings("commit", n[1]) \X ViewListings(s, n[2]) \X {s} :
           s \in Sides, n \in {<<1, 3>>, <<2, 1>>}}
LOCAL CustomCases == UNION {CustomRules(k) \X CustomChanges(k) : k \in CustomKinds}
LOCAL AllExpressions == UNION {Expressions(level) : level \in 1..4}
LOCAL AllLayoutChecks ==
  UNION {LayoutChecks(k) : k \in {"reports", "projects", "archives", "python", "maven"}}

InputsOf(p) ==
  CASE p = "trees" -> ViewTrees \X ViewTrees
    [] p = "listings" -> Listings
    [] p = "sizes" -> ViewSizes
    [] p = "issues" -> IssueLists \X BaseLists
    [] p = "coverage" -> Specs \X Tables
    [] p = "baseline" -> Runs
    [] p = "contract" -> Contracts \X ContractResults
    [] p = "matching" -> LineageTrees(TRUE) \X LineageHeads
    [] p = "records" -> LineageRecords
    [] p = "histories" -> LineageHistories
    [] p = "orders" -> Plans
    [] p = "changes" -> Changes
    [] p = "trials" -> Trials
    [] p = "metrics" -> MetricRuns
    [] p = "percentiles" -> Sorted
    [] p = "labels" -> PilotRuns
    [] p = "envelopes" -> Envelopes
    [] p = "feedback" -> EnvelopeReports
    [] p = "catalog" -> CatalogCases
    [] p = "inventory" -> Inventories
    [] p = "dates" -> {"dates"}
    [] p = "expressions" -> AllExpressions
    [] p = "sets" -> Collections
    [] p = "custom rules" -> CustomCases
    [] p = "edits" -> FileConfigs \X FileMutations
    [] p = "layout graphs" -> LayoutGraphs
    [] p = "layout checks" -> AllLayoutChecks
    [] p = "arguments" -> LayoutArguments

\* None: there is only one circumstance.
SettingsOf(p) ==
  CASE p = "issues" -> Snaps
    [] p = "coverage" -> Snaps \X (SUBSET {"f", "g"}) \X BOOLEAN
    [] p = "baseline" -> BaselineSettings
    [] p = "contract" -> ContractSettings
    [] p = "orders" -> {2}
    [] p = "changes" -> {<<Sealable, 2>>}
    [] p = "metrics" -> {Terms}
    [] p = "labels" -> PilotLabels \X {3}
    [] p = "feedback" -> Rooms \X Severities
    [] OTHER -> {None}
-----------------------------------------------------------------------------
\* What the other computations promise

\* Nothing that reaches the checks is lost, invented or attributed to the wrong
\* side: a snapshot's view accounts for every difference of its two trees, its
\* delivery overlay holds tests only, the listing predicts what the capture
\* holds, and the history of a test is the one its edits and commits show
\* (snapshot/changes.rs, test_overlay.rs,
\* selected_preflight.rs, adapters/entity_changes.rs, provenance.rs, git_trailers.rs).
InputsRight ==
  [][\A x \in chosen' \ chosen :
       CASE part = "trees" -> TreesRight(x[1], x[2])
         [] part = "listings" -> ListingsRight(x[1], x[2], x[3])
         [] part = "sizes" -> View!BatchesCover(x)
         [] part = "matching" -> MatchRight(x[1], x[2])
         [] part = "records" -> RecordRight(x)
         [] part = "histories" -> HistoryRight(x)
         [] OTHER -> TRUE]_partsVars

\* A rule means one thing wherever it is read: a catalog that loads is traced
\* to its standards both ways, an accepted expression evaluates without error
\* and whatever the order of the facts, a custom rule finds what it owes and no
\* more when its inputs are narrowed, an edit of the settings changes only what
\* it names, and an accepted layout has an order and writes apart from what it
\* reads (config/catalog.rs, adapters/operators_v3.rs,
\* adapters/custom_rules, config/rule_management.rs, config/validation.rs).
RulesRight ==
  [][\A x \in chosen' \ chosen :
       CASE part = "catalog" -> CatalogRight(x)
         [] part = "inventory" -> InventoryRight(x)
         [] part = "dates" -> Catalogs!CalendarRight
         [] part = "expressions" -> ExpressionRight(x)
         [] part = "sets" -> IndexRight(x)
         [] part = "custom rules" -> CustomRight(x[1], x[2])
         [] part = "edits" -> EditRight(x[1], x[2])
         [] part = "layout graphs" -> GraphRight(x)
         [] part = "layout checks" -> CheckRight(x)
         [] part = "arguments" -> ArgumentsRight(x)
         [] OTHER -> TRUE]_partsVars
=============================================================================

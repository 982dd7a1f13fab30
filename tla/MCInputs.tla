------------------------------ MODULE MCInputs ------------------------------
\* SnapshotView on every pair of small trees, every listing of few paths and every
\* list of object sizes; ReportGate on short issue lists, small coverage tables
\* and every way one baseline analysis can go; AgentContract on one obligation of
\* every kind beside a fixed second one; TestLineage on small trees of two files of
\* one language and one of another: every pair for the matching; records of three
\* steps by two runs, complete or with a step left out, for the replay; histories
\* with a merge, and work not yet committed, for Git.
\* PilotPlan on trials of one and of two tasks with two models, PilotMetrics on the
\* runs of a pair and JudgmentPilot on pilots of up to three judgments,
\* DecisionEnvelope on reports of up to two checks with the envelopes made of them,
\* and Judgment on a warning under every policy that differs from a calibrated one in
\* one part.
EXTENDS Parts
LOCAL INSTANCE SequencesExt
LOCAL INSTANCE TLC

\* SnapshotView
\* Lexical order: the build file and the fixture come before source and tests.
LOCAL ViewOrder == <<"build", "fixture", "source", "test">>
ViewPaths == ToSet(ViewOrder)
LOCAL Texts == {"A", "B"}

\* The lines text b adds to text a
LOCAL AddedLines == [pair \in (Texts \cup {"none"}) \X Texts |->
                   IF pair[1] = pair[2] THEN {} ELSE IF pair[2] = "A" THEN {1} ELSE {1, 2}]

View == INSTANCE SnapshotView WITH
    Order <- ViewOrder, Diff <- AddedLines, NoText <- "none",
    Sources <- {"source"}, Tests <- {"test"}, Support <- {"fixture"}, Guarded <- {"build"},
    BatchFiles <- 3, BatchBytes <- 4

LOCAL File(t, x) == [text |-> t, executable |-> x]
LOCAL Trees == UNION {[S -> {File("A", FALSE), File("B", FALSE), File("A", TRUE)}] :
                    S \in SUBSET ViewPaths}

\* Pairs of trees that agree on the build file's mode, to halve the number
ViewTrees == {t \in Trees : "build" \in DOMAIN t => ~t["build"].executable}
LOCAL Filters == {ViewPaths, ViewPaths \ {"source"}, ViewPaths \ {"test"}}

\* Sizes and kinds by side; the policy, by path, is the same on both sides.
LOCAL Limits == [files |-> 2, bytes |-> 3, file |-> 2]
LOCAL LeftOuts == {[excluded |-> {"build", "fixture"}, protected |-> {"build"}],
             [excluded |-> ViewPaths \ {"source"}, protected |-> {}]}
LOCAL Entry(bytes, mode, level, object) ==
    [bytes |-> bytes, mode |-> mode, stage |-> level, object |-> object]
LOCAL EntriesOf(side) ==
    {Entry(b, "file", 0, TRUE) : b \in 1..3} \cup {Entry(1, "link", 0, TRUE)}
    \cup (IF side = "index" THEN {Entry(1, "file", 1, TRUE), Entry(1, "file", 0, FALSE)} ELSE {})
    \cup (IF side = "worktree" THEN {Entry(1, "gone", 0, TRUE)} ELSE {})
ViewListings(side, max) ==
    UNION {[S -> EntriesOf(side)] : S \in {T \in SUBSET ViewPaths : Cardinality(T) <= max}}

ViewSizes == UNION {[1..n -> {1, 2, 5}] : n \in 0..6}

\* What the computations on snapshots promise, of one input
ListingsRight(base, target, side) ==
    \A policy \in LeftOuts : View!PredictsCapture(base, target, side, policy, Limits)

TreesRight(base, head) ==
    /\ View!AccountsForDifference(base, head)
    /\ \A filter \in Filters :
          /\ View!SelectsDelivered(base, head, filter)
          /\ \A delivery \in BOOLEAN : View!OverlayIsTestsOnly(base, head, delivery, filter)

-----------------------------------------------------------------------------
\* ReportGate
\* File f was called e, lost a line and gained one; file g is as it was.
LOCAL Snap(delivery) == [delivery |-> delivery, lines |-> [f |-> 2, g |-> 1],
                   added |-> [f |-> {1}], removed |-> [f |-> {2}],
                   base |-> [e |-> 2, g |-> 1], renamed |-> [e |-> "f"]]

Snaps == {Snap(TRUE), Snap(FALSE)}

LOCAL Loc(f, n) == [file |-> f, line |-> n]
LOCAL AnIssue == [rule : {"r", "s"},
           locs : {<<Loc("f", 1)>>, <<Loc("f", 2)>>, <<Loc("f", 0)>>, <<Loc("f", 2), Loc("g", 1)>>,
                   <<Loc(None, 0)>>}]
LOCAL Lists(S, max) == UNION {[1..n -> S] : n \in 0..max}

\* Three issues of one rule, or two of two rules, on up to two of the base
BaseLists == Lists(AnIssue, 2)
IssueLists == Lists({i \in AnIssue : i.rule = "r"}, 3) \cup BaseLists

LOCAL Record(f, line, hits, found, taken, excluded) ==
    [file |-> f, line |-> line, hits |-> hits, found |-> found, taken |-> taken,
     excluded |-> excluded]
LOCAL Records == {Record(f, l, h, n, t, x) :
                f \in {"f"}, l \in 1..2, h \in 0..1, n \in {0, 2}, t \in 0..1, x \in BOOLEAN}
           \cup {Record("g", 1, h, 0, 0, FALSE) : h \in 0..1}
Tables == {{r, s} : r \in Records, s \in {q \in Records : q.taken = 0}}
Specs == [paths : SUBSET {"f", "g"}, mode : {"full", "changed_lines"}, branches : BOOLEAN,
          threshold : {500, 1000}]

LOCAL Exe(path, digest) == [path |-> path, digest |-> digest]
LOCAL Analyzers == {Exe("p", "x"), Exe("p", "y"), Exe("q", "x")}
LOCAL Answered == [timedOut |-> FALSE, captureError |-> FALSE, long |-> FALSE, exit |-> 0, version |-> "1"]
LOCAL ProbeAnswers == [timedOut : BOOLEAN, captureError : BOOLEAN, long : BOOLEAN, exit : 0..1, version : {"1", "2", None}]
LOCAL Moments == [identified : Analyzers, probed : Analyzers, confirmed : Analyzers, ran : Analyzers,
                  verified : Analyzers]
LOCAL Untouched == [s \in {"identified", "probed", "confirmed", "ran", "verified"} |-> Exe("p", "x")]
LOCAL Tool(m, probe) == [id |-> "t", inputs |-> <<>>, probe |-> probe, at |-> m]
LOCAL Now == <<[id |-> "t", version |-> "1", digest |-> "x", inputs |-> <<>>]>>
LOCAL Issue(f, n) == [rule |-> "r", locs |-> <<Loc(f, n)>>]
LOCAL Good == [failed |-> {}, touched |-> {}, tools |-> <<Tool(Untouched, Answered)>>, now |-> Now,
               command |-> Untouched, currentExecutable |-> "x", cut |-> FALSE, exit |-> 1,
               expected |-> {0}, findingsExits |-> {1}, issues |-> <<Issue("e", 2)>>]

\* A good run of the baseline, and those that met something else at one or two stages
Runs ==
    {[Good EXCEPT !.tools = <<Tool(m, Answered)>>] : m \in Moments}
    \cup {[Good EXCEPT !.tools = <<Tool(Untouched, a)>>] : a \in ProbeAnswers}
    \cup {[Good EXCEPT !.tools = ts] :
              ts \in {<<>>, <<[Tool(Untouched, Answered) EXCEPT !.id = "u"]>>,
                      <<[Tool(Untouched, Answered) EXCEPT !.inputs = None]>>,
                      <<[Tool(Untouched, Answered) EXCEPT !.at.identified = None]>>}}
    \cup {[Good EXCEPT !.command = c, !.tools = <<Tool(c, Answered)>>] : c \in Moments}
    \cup {[Good EXCEPT !.failed = x, !.touched = t, !.cut = c, !.exit = e, !.issues = is] :
              x \in {{}, {"preparation"}}, t \in SUBSET {"preparation", "analysis"}, c \in BOOLEAN,
              e \in 0..2, is \in {<<>>, <<Issue("e", 2)>>, <<Issue("g", 1)>>, <<Issue("f", 2)>>,
                                 <<[Issue("e", 2) EXCEPT !.rule = "s"]>>}}
BaselineSettings == {"full", "new_diagnostics", "ratchet"}
                    \X {<<Issue("f", 1)>>, <<Issue("f", 1), Issue("f", 1)>>} \X Snaps

-----------------------------------------------------------------------------
\* AgentContract: results of up to two checks, in every state a result can be in
LOCAL Obligations ==
    [id : {"o"}, required : BOOLEAN, roles : {{}, {"reviewer"}}, tasks : {{}}, source : BOOLEAN,
     adopted : {None, "b", "old"}, binding : {"b"}, kind : {"instruction", "checks", "host"},
     checks : {{"a"}, {"a", "z"}}, control : {"final_full_check", "tool_authorization"},
     events : {{"start"}, {"before_tool"}}, must : {{}}, mustNot : {{}, {"m"}}]

\* With a ready instruction that demands what the first may forbid
LOCAL Second == [id |-> "p", required |-> TRUE, roles |-> {}, tasks |-> {}, source |-> TRUE,
           adopted |-> "b", binding |-> "b", kind |-> "instruction", checks |-> {},
           control |-> None, events |-> {"start"}, must |-> {"m"}, mustNot |-> {}]

Contracts == {<<o, Second>> : o \in Obligations}
ContractSettings == {"implementer"} \X {"t"} \X {{"a"}, {"a", "z"}} \X {{}, {"a"}}

LOCAL StatesOf(id) ==
    LET p == Contract!Pending(id, FALSE, "warning")
        found == [p EXCEPT !.diagnostics = <<"d">>]
    IN {p, Contract!Complete(p), Contract!Complete(found), Contract!Skip(p),
        Contract!Block(Contract!Complete(found), "blocked"),
        [Contract!Complete(p) EXCEPT !.diagnostics = <<"d">>],
        [Contract!Skip(p) EXCEPT !.reason = FALSE]}
ContractResults == {<<>>} \cup {<<r>> : r \in StatesOf("a")}
                   \cup {<<r, s>> : r \in StatesOf("a"), s \in StatesOf("z")}

-----------------------------------------------------------------------------
\* TestLineage
LOCAL Test(symbol, body, form) == [symbol |-> symbol, body |-> body, marks |-> {}, form |-> form]
LOCAL A1 == Test("a", 1, 1)
LOCAL A1Apart == Test("a", 1, 2)     \* the same body in other bytes
LOCAL A2 == Test("a", 2, 1)
LOCAL A1Marked == [A1 EXCEPT !.marks = {"slow"}]
LOCAL B1 == Test("b", 1, 1)
LOCAL C3 == Test("c", 3, 1)

LOCAL LineageTexts == {<<>>, <<A1>>, <<A2>>, <<A1Apart>>, <<A1Marked>>, <<B1>>, <<C3>>, <<A1, B1>>, <<B1, A1>>,
                 <<A1, A1>>, <<A1, A2>>, <<A2, C3>>, <<A2, B1>>, <<A1, C3>>}
Lineage == INSTANCE TestLineage WITH
    Files <- <<"p.py", "q.py", "r.rs">>, Contents <- LineageTexts \cup {<<C3, A2>>, <<B1, A2>>, <<C3, A1>>, <<A2, A1>>}, None <- None,
    Language <- [p \in {"p.py", "q.py", "r.rs"} |-> IF p = "r.rs" THEN "rust" ELSE "python"]

LOCAL Source(text) == [text |-> text, executable |-> FALSE]
LOCAL Tree(p, q) == ("p.py" :> Source(p)) @@ ("q.py" :> Source(q))
LOCAL Only(p) == "p.py" :> Source(p)
LOCAL WithRust(tree) == tree @@ ("r.rs" :> Source(<<A1>>))
LineageTrees(rich) ==
    {Only(p) : p \in LineageTexts} \cup
    {Tree(p, q) : p \in LineageTexts, q \in IF rich THEN LineageTexts ELSE {<<A1>>, <<B1>>, <<A2, C3>>}}
LineageHeads == LineageTrees(FALSE) \cup {WithRust(Only(p)) : p \in {<<>>, <<A1>>, <<A2>>}}

\* Every test of these has a name of its own in its file.
LOCAL Kept == {Only(<<A1>>), Only(<<A1Apart>>), Only(<<A2>>), Only(<<A2, B1>>), Only(<<B1>>), Only(<<A2, C3>>),
               Tree(<<>>, <<A1>>), Tree(<<A2>>, <<A1>>), Tree(<<C3>>, <<A1>>), Tree(<<A1>>, <<A2>>)}
LOCAL Text(tree, p) == IF p \in DOMAIN tree THEN tree[p] ELSE None
LOCAL Step(of, before, after) ==
    [run |-> of, input |-> before, output |-> after,
     edits |-> [p \in {q \in DOMAIN before \cup DOMAIN after : Text(before, q) # Text(after, q)} |->
                  [before |-> Text(before, p), after |-> Text(after, p)]]]
LineageRecords ==
    {s \in [1..4 -> Kept] : s[1] \in {Only(<<A1>>), Only(<<A2, B1>>), Tree(<<>>, <<A1>>),
                                       Tree(<<A2>>, <<A1>>), Tree(<<A1>>, <<A2>>)}}
RecordRight(s) ==
    LET all == <<Step("one", s[1], s[2]), Step("two", s[2], s[3]), Step("one", s[3], s[4])>>
        runs(steps) == {steps[i].run : i \in DOMAIN steps}
    IN  \A steps \in {all, <<all[1], all[3]>>} : Lineage!ReplayRight(steps, runs(steps), s[1], s[4])

\* Every test of these has a name and a body of its own in its tree.
LOCAL Apart == {Only(<<A1>>), Only(<<A2>>), Only(<<A1, C3>>), Tree(<<C3>>, <<A1>>), Tree(<<A2>>, <<C3>>),
                Tree(<<>>, <<A1>>), Only(<<A1Apart>>)}
LOCAL Commit(oid, parents, tree) == [oid |-> oid, parents |-> parents, tree |-> tree]
LineageHistories == [1..4 -> Apart]
LOCAL Says == {<<>>, <<"full">>, <<"part">>, <<"blank">>, <<"full", "full">>}
HistoryRight(trees) ==
    LET commits == <<Commit(1, {}, trees[1]), Commit(2, {1}, trees[2]), Commit(3, {1}, trees[3]),
                     Commit(4, {2, 3}, trees[4])>>
        sayings == {[c \in 1..4 |-> IF c = odd THEN said ELSE <<"full">>] : odd \in 1..4, said \in Says}
    IN  Lineage!GitRight(commits, {trees[2], Tree(<<C3>>, <<A1>>), Only(<<A1, C3>>)}, sayings)
MatchRight(before, after) == Lineage!MatchingRight(before, after)

-----------------------------------------------------------------------------
\* PilotPlan: every order, one change at a time to a plan that can be sealed, and
\* every way its four runs may be observed
LOCAL Wfs == <<"existing_tools", "qualitygate">>
LOCAL Assigned(input, model, workflow) ==
    [id |-> <<input, model, workflow>>, input |-> input, task |-> input, kind |-> "fix",
     cohort |-> [workflow |-> workflow, model |-> model, setup |-> "s", actual |-> None],
     origin |-> "real", excluded |-> FALSE, truth |-> "known", initial |-> input]
LOCAL RunsOf(tasks) ==
    [n \in 1..4 * tasks |-> Assigned((n + 3) \div 4, ((n + 1) \div 2) % 2, Wfs[1 + (n % 2)])]

LOCAL Protocol(tasks) ==
    [tasks |-> tasks, days |-> 1, attempts |-> 2, seconds |-> 9, stagnation |-> 1,
     sealed |-> 1, start |-> 2, end |-> 9, owner |-> "o", reviewer |-> "r",
     mix |-> [fix |-> tasks]]
LOCAL Draft(tasks, places) ==
    [protocol |-> Protocol(tasks), assignments |-> RunsOf(tasks),
     sources |-> {[input |-> i, name |-> i, at |-> 1] : i \in 1..tasks},
     order |-> [n \in DOMAIN places |-> RunsOf(tasks)[places[n]].id],
     observations |-> <<>>, seal |-> None]

LOCAL Orders == [1..4 -> 1..4]
LOCAL LongOrders == {<<1, 2, 3, 4, 5, 6, 7, 8>>, <<1, 2, 3, 4, 6, 5, 8, 7>>, <<2, 1, 3, 4, 5, 6, 8, 7>>,
               <<1, 2, 4, 3, 7, 8, 6, 5>>, <<2, 1, 4, 3, 6, 5, 8, 7>>, <<1, 6, 5, 2, 3, 8, 7, 4>>,
               <<1, 6, 5, 2, 7, 4, 3, 8>>}
Plans == {Draft(1, places) : places \in Orders} \cup {Draft(2, places) : places \in LongOrders}

Sealable == Draft(1, <<2, 1, 4, 3>>)
LOCAL Attempt(model, from, to) == [model |-> model, from |-> from, to |-> to, elapsed |-> 1]
LOCAL Observation(id, sequence, attempts) ==
    [of |-> id, at |-> 9, sequence |-> sequence, attempts |-> attempts]
LOCAL Seen(m, o, model) ==
    [m EXCEPT !.observations = <<o>>,
              !.assignments = [n \in DOMAIN @ |->
                  IF @[n].id = o.of THEN [@[n] EXCEPT !.cohort.actual = model] ELSE @[n]]]

\* One edit of a plan, or of what was observed under it
LOCAL PlanEdits(m) ==
    {[m EXCEPT !.protocol.days = 2], [m EXCEPT !.protocol.end = 8],
     [m EXCEPT !.protocol.sealed = 0], [m EXCEPT !.protocol.start = 0],
     [m EXCEPT !.protocol.reviewer = "o"], [m EXCEPT !.protocol.mix = [add |-> 1]],
     [m EXCEPT !.protocol.tasks = 2], [m EXCEPT !.protocol.stagnation = 2],
     [m EXCEPT !.assignments[1].cohort.setup = "t"], [m EXCEPT !.assignments[2].excluded = TRUE],
     [m EXCEPT !.assignments[1].truth = None], [m EXCEPT !.assignments[3].cohort.model = 2],
     [m EXCEPT !.assignments[4].cohort.workflow = "qualitygate"],
     [m EXCEPT !.assignments[1].initial = 2], [m EXCEPT !.assignments[1].origin = "injected"],
     [m EXCEPT !.sources = {[input |-> 1, name |-> 2, at |-> 1]}],
     [m EXCEPT !.sources = {[input |-> 1, name |-> 1, at |-> 2]}],
     [m EXCEPT !.order = <<@[2], @[1], @[4], @[3]>>], [m EXCEPT !.order = <<@[3], @[4], @[1], @[2]>>],
     [m EXCEPT !.assignments[1].cohort.actual = "x"]}
    \cup {Seen(m, Observation(m.assignments[n].id, n, <<Attempt(model, 3, 4), Attempt(again, 4, 5)>>),
               claim) :
              n \in 1..2, model \in {"x", None}, again \in {"x", "y", Unknown},
              claim \in {"x", None}}
Changes == PlanEdits(Sealable) \cup UNION {PlanEdits(m) : m \in PlanEdits(Sealable)} \cup {Sealable}

\* The four runs observed, or three of them, each in some place of the order
LOCAL Started(times, places, n) ==
    [Sealable EXCEPT !.observations =
        [k \in 1..n |-> Observation(Sealable.order[k], places[k],
             IF times[k] = 0 THEN <<Attempt(None, None, None)>>
             ELSE <<Attempt(None, times[k] + 1, times[k] + 2)>>)]]
Trials == {Started(times, places, n) :
               times \in [1..4 -> 0..4],
               places \in {<<1, 2, 3, 4>>, <<1, 2, 3, None>>, <<2, 1, 3, 4>>, <<4, 3, 2, 1>>},
               n \in 3..4}

-----------------------------------------------------------------------------
\* PilotMetrics: a pair of runs of one task, and a third that only one workflow had,
\* with up to two attempts, each in one or two ways other than the best
Terms == [attempts |-> 2, seconds |-> 3, stagnation |-> 1, hourly |-> 1, hour |-> 2, cap |-> 6,
          reduction |-> 0, detection |-> 100, falsePositive |-> 50, repair |-> 100,
          completion |-> 100, review |-> 50]

LOCAL Diagnostic(label) == [key |-> "k", issue |-> "i", label |-> label]
LOCAL Result(verdict, done, debt, found) ==
    [decision |-> verdict, complete |-> TRUE, pending |-> FALSE, done |-> done, debt |-> debt,
     found |-> found]
LOCAL Best == [status |-> "completed", full |-> TRUE, elapsed |-> 1, changed |-> TRUE,
         report |-> Result("pass", 1, {}, {Diagnostic("confirmed")}),
         cost |-> [model |-> 1, infra |-> 1]]

LOCAL Worse(t) ==
    {t, [t EXCEPT !.status = "failed"], [t EXCEPT !.full = FALSE], [t EXCEPT !.elapsed = 3],
     [t EXCEPT !.changed = FALSE], [t EXCEPT !.report = None], [t EXCEPT !.report = Unknown],
     [t EXCEPT !.cost = None], [t EXCEPT !.cost = [model |-> 1, infra |-> None]],
     [t EXCEPT !.cost = [model |-> 6, infra |-> 1]]}
    \cup (IF t.report = None THEN {} ELSE
          {[t EXCEPT !.report = Result(d, n, b, f)] :
              d \in {"pass", "fail"}, n \in 0..1, b \in {{}, {"x"}, {"x", "y"}},
              f \in {{}, {Diagnostic(None)}, {Diagnostic("false_positive")},
                     {Diagnostic("confirmed")}}})
LOCAL Attempts == Worse(Best)
LOCAL Later == {Best, [Best EXCEPT !.report = None, !.status = "timed_out"],
          [Best EXCEPT !.report = Result("fail", 1, {"x"}, {})]}

LOCAL Measured(workflow, attempts) ==
    [workflow |-> workflow, task |-> "t", eligible |-> TRUE, excluded |-> FALSE,
     start |-> {"x", "y"}, issues |-> {"i"}, required |-> 1, observed |-> TRUE,
     attempts |-> attempts, review |-> 1]
LOCAL Variants(r) ==
    {r, [r EXCEPT !.eligible = FALSE], [r EXCEPT !.excluded = TRUE],
     [r EXCEPT !.start = None], [r EXCEPT !.issues = None], [r EXCEPT !.issues = {"i", "j"}],
     [r EXCEPT !.review = None], [r EXCEPT !.review = 3]}
LOCAL Tries == {<<>>} \cup {<<t>> : t \in Attempts}
         \cup {<<t, u>> : t \in Attempts, u \in Later} \cup {<<u, t>> : t \in Attempts, u \in Later}

LOCAL Other == Measured("existing_tools", <<Best>>)
MetricRuns ==
    {<<r, Other>> : r \in UNION {Variants(Measured("qualitygate", a)) : a \in Tries}}
    \cup {<<Measured("qualitygate", <<Best>>), r>> :
             r \in UNION {Variants(Measured("existing_tools", a)) : a \in Tries}}
    \cup {<<Measured("qualitygate", a), Other, Measured("qualitygate", <<Best>>)>> : a \in Tries}
    \cup {<<Measured("qualitygate", a)>> : a \in Tries} \cup {<<Other>>, <<>>}

Sorted == {[i \in 1..n |-> (i + d) \div 2] : n \in 1..60, d \in 0..1}

-----------------------------------------------------------------------------
\* JudgmentPilot: runs that differ from a good one in one part, with labels of the
\* same kind
LOCAL DrawnIn == [one |-> 2, two |-> 1, three |-> 3]
Draw(id) == DrawnIn[id]

LOCAL Cal == [scope |-> "here", model |-> "model", until |-> 0, expires |-> 9]
LOCAL Run(id) ==
    [dir |-> id, id |-> id, escapes |-> FALSE, changed |-> FALSE, bytes |-> 1, scope |-> "here",
     started |-> 2, route |-> "prioritize_review", kind |-> "probabilistic", p |-> 8,
     model |-> "model", cal |-> Cal, complete |-> TRUE, threshold |-> 7, rule |-> "lint"]
LOCAL FewRuns(id) ==
    {Run(id), [Run(id) EXCEPT !.p = 4, !.route = "manual_review"], [Run(id) EXCEPT !.kind = "gap"],
     [Run(id) EXCEPT !.p = 9, !.started = 3]}
LOCAL ManyRuns(id) ==
    FewRuns(id) \cup
    {[Run(id) EXCEPT !.escapes = TRUE], [Run(id) EXCEPT !.bytes = 4], [Run(id) EXCEPT !.scope = "there"],
     [Run(id) EXCEPT !.started = 5], [Run(id) EXCEPT !.p = None], [Run(id) EXCEPT !.cal = None],
     [Run(id) EXCEPT !.cal.until = 1], [Run(id) EXCEPT !.cal.expires = 2], [Run(id) EXCEPT !.p = 10],
     [Run(id) EXCEPT !.model = "newer"], [Run(id) EXCEPT !.id = "two"],
     [Run(id) EXCEPT !.kind = "abstained"], [Run(id) EXCEPT !.threshold = None, !.p = 0]}

LOCAL Label(id) == [decision |-> id, valid |-> TRUE, reviewed |-> 3, independent |-> TRUE]
LOCAL LabelsOf(id) ==
    {Label(id), [Label(id) EXCEPT !.valid = FALSE], [Label(id) EXCEPT !.independent = FALSE],
     [Label(id) EXCEPT !.reviewed = 2], [Label(id) EXCEPT !.reviewed = 9]}
LOCAL LabelLists ==
    {<<>>} \cup {<<l>> : l \in LabelsOf("one")}
    \cup (LabelsOf("one") \X (LabelsOf("two") \cup LabelsOf("one")))
    \cup {<<Label("one"), Label("two"), l>> : l \in LabelsOf("three")}

PilotLabels ==
    {[scope |-> "here", model |-> "model", from |-> 1, until |-> 4, fraction |-> f, labels |-> ls] :
        f \in {5, 10}, ls \in LabelLists}
PilotRuns ==
    {<<>>} \cup {<<r>> : r \in ManyRuns("one")}
    \cup (ManyRuns("one") \X FewRuns("two"))
    \cup (FewRuns("one") \X FewRuns("two") \X FewRuns("three"))

-----------------------------------------------------------------------------
\* DecisionEnvelope: envelopes as the program makes them, and those that differ in
\* one part and are sealed again, or keep the identity of the original
LOCAL Check(severity, status, applicable, verdict, diagnostics, artifacts) ==
    [severity |-> severity, status |-> status, applicable |-> applicable,
     verdict |-> verdict, diagnostics |-> diagnostics, artifacts |-> artifacts]

LOCAL Log == [is |-> "log"]
LOCAL Passed == Check("error", "completed", TRUE, "pass", <<>>, <<Log>>)
LOCAL Skipped == Check("error", "not_run", FALSE, "skipped", <<>>, <<>>)
LOCAL Blocked == Check("error", "blocked", TRUE, "none", <<1>>, <<>>)
LOCAL Unsure == Check("warning", "completed", FALSE, "pass", <<>>, <<>>)
LOCAL Failed(severity, sizes) == Check(severity, "completed", TRUE, "fail", sizes, <<Log>>)

LOCAL SomeChecks ==
    {Passed, Skipped, Blocked, Unsure, Failed("error", <<1, 2>>), Failed("warning", <<2, 3>>),
     Failed("warning", <<3>>), Failed("info", <<1>>)}
LOCAL CheckLists == {<<>>} \cup {<<c>> : c \in SomeChecks} \cup (SomeChecks \X SomeChecks)

LOCAL APolicy == [reference |-> "config", digest |-> "policy", trust |-> "reviewed"]

EnvelopeReports ==
    {[is |-> "report", gate |-> [decision |-> d, complete |-> c, blockers |-> n],
      content |-> digest, verified |-> v, task |-> t, policy |-> APolicy, evaluator |-> "evaluator",
      checks |-> cs, pending |-> p, acceptance |-> 2, delivery |-> TRUE,
      verification |-> {"shape"}] :
        d \in {"pass", "fail", "incomplete"}, c \in BOOLEAN, n \in {0, 3}, digest \in {"tree", Unknown},
        v \in {None, "whole"}, t \in {None}, cs \in CheckLists, p \in {0, 1}}

Rooms == {0, 5, 10, 20}
Severities == {None, "warning"}

LOCAL Validations ==
    {[is |-> kind, decision |-> d, complete |-> c, errors |-> n, source |-> [is |-> "files"],
      policy |-> APolicy] :
        kind \in {"rule_validation", "selfcheck"}, d \in {"pass", "fail", "incomplete"},
        c \in BOOLEAN, n \in {0, 1}}
LOCAL Metadata ==
    {[is |-> "metadata", fields |-> f, evidence |-> e, omissions |-> o] :
        f \in UNION {[names -> {"one"}] :
                 names \in {{}, {"snapshot_digest"}, {"policy_digest", "review_trust"},
                            {"snapshot_digest", "policy_digest", "review_trust"}}},
        e \in {<<>>, <<Log>>}, o \in {{}, {"rows"}}}

LOCAL SmallReports == {r \in EnvelopeReports :
    /\ r.gate.blockers = 0 /\ r.content = "tree" /\ r.gate.complete
    /\ Len(r.checks) <= 1 /\ (r.checks # <<>> => r.verified = None /\ r.pending = 0)}

\* Envelopes as the program makes them
LOCAL Made ==
    {Envelope!FromCheck(r) : r \in SmallReports}
    \cup {Envelope!FromFeedback(r, Envelope!Render(r, 10, None)) : r \in SmallReports}
    \cup {Envelope!FromValidation(p) : p \in Validations}
    \cup {Envelope!FromMetadata(kind, p, code) :
             kind \in {"policy_transition", "pilot"}, p \in Metadata, code \in 0..2}

LOCAL EnvelopeEdits(b) ==
    {[b EXCEPT !.kind = k] : k \in Envelope!Kinds \ {"feedback", "check"}}
    \cup {[b EXCEPT !.snapshot = s] : s \in {None, "other", Unknown}}
    \cup {[b EXCEPT !.source = s] : s \in {[is |-> "other"], Unknown}}
    \cup {[b EXCEPT !.evaluator = s] : s \in {None, "other"}}
    \cup (IF b.kind # "feedback" THEN {}
          ELSE {[b EXCEPT !.payload.snapshot = "other", !.snapshot = s] : s \in {b.snapshot, "other"}})
    \cup {[b EXCEPT !.complete = ~@]}
    \cup {[b EXCEPT !.omissions = o] : o \in {{}, {"findings"}}}
    \cup {[b EXCEPT !.gate = Envelope!Routed(d, w, p, n)] :
             d \in {"pass", "fail", "incomplete"}, w \in {0, 1}, p \in {0, 1}, n \in {0, 1}}
    \cup {[b EXCEPT !.gate.route = r] : r \in {"accept", "review", "block", "inspect_gap"}}
    \cup {[b EXCEPT !.evidence = <<>>], [b EXCEPT !.verification = {}]}

LOCAL EnvelopeVariants(e) ==
    {e} \cup {Envelope!Sealed(b) : b \in EnvelopeEdits(e.body)}
        \cup {[id |-> e.id, body |-> b] : b \in EnvelopeEdits(e.body)}
Envelopes == UNION {EnvelopeVariants(e) : e \in Made}

-----------------------------------------------------------------------------
\* Judgment: answers that differ from a good one in one part
LOCAL Question == [id |-> "valid?", choices |-> <<"true", "false">>, positive |-> "true",
                   event |-> "valid"]
LOCAL Bound == [id |-> Question.id, choices |-> Question.choices, positive |-> Question.positive,
                event |-> Question.event, digest |-> Question]
LOCAL Calibration ==
    [id |-> "cal", declared |-> "valid", revoked |-> FALSE, from |-> 0, until |-> 0, expires |-> 1,
     samples |-> 40, labels |-> 40, provider |-> 0, model |-> "model", question |-> Question,
     event |-> "valid", rule |-> "lint", language |-> "rust", risk |-> 1]
LOCAL Policy == [mode |-> "advisory", question |-> Bound, calibration |-> Calibration, threshold |-> 7]

JudgmentPolicies ==
    {Policy, [Policy EXCEPT !.mode = "shadow"], [Policy EXCEPT !.threshold = None],
     [Policy EXCEPT !.calibration = None], [Policy EXCEPT !.question.positive = "maybe"],
     [Policy EXCEPT !.calibration.revoked = TRUE], [Policy EXCEPT !.calibration.labels = 10],
     [Policy EXCEPT !.calibration.rule = "other"], [Policy EXCEPT !.calibration.expires = 0],
     [Policy EXCEPT !.calibration.declared = "stale"]}

LOCAL Calibrated ==
    [kind |-> "probabilistic", question |-> "valid?", evidence |-> "lint", selected |-> "true",
     distribution |-> [c \in {"true", "false"} |-> IF c = "true" THEN 8 ELSE 2], event |-> "valid",
     indomain |-> TRUE, calibration |-> "cal", model |-> "model", boolean |-> TRUE]
JudgmentAnswers ==
    {Calibrated, [Calibrated EXCEPT !.distribution["false"] = 3], [Calibrated EXCEPT !.selected = "false"],
     [Calibrated EXCEPT !.evidence = "other"], [Calibrated EXCEPT !.model = "newer"],
     [Calibrated EXCEPT !.distribution = [c \in {"true", "false"} |-> 5]],
     [kind |-> "abstained", question |-> "valid?", evidence |-> "lint"],
     [kind |-> "deterministic", question |-> "other", evidence |-> "lint"],
     [kind |-> "deterministic", question |-> "valid?", evidence |-> "lint"]}

LOCAL Warning == [check |-> "lint", language |-> "rust"]
JudgmentReports ==
    {[complete |-> TRUE, decision |-> "pass", warnings |-> {Warning}],
     [complete |-> TRUE, decision |-> "fail", warnings |-> {Warning}],
     [complete |-> FALSE, decision |-> "incomplete", warnings |-> {Warning}],
     [complete |-> TRUE, decision |-> "pass", warnings |-> {}]}

=============================================================================

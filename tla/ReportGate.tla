------------------------------ MODULE ReportGate ------------------------------
(***************************************************************************)
(* What a check makes of its tools' reports: a mode decides which of the   *)
(* reported issues count against a delivery, coverage is measured over the *)
(* selected sources, and modes that compare need the same analyzer to have *)
(* run on the base as well.                                                *)
(*                                                                         *)
(* An issue is [rule, locs], its locations a sequence of [file, line];     *)
(* None stands for a location without a file, 0 for one without a line.    *)
(* Messages, symbols and end lines are left out: they only refine the      *)
(* identity and the line range.                                            *)
(***************************************************************************)
EXTENDS Naturals, Sequences, FiniteSets, FiniteSetsExt, Functions

CONSTANT None

\* A snapshot, as the reports see it: [delivery, added, removed, lines, base,
\* renamed], the changed files with their added and removed lines, the length of
\* every file of the tree and of the base, and what became of the base's names.
\* Changes that a path filter leaves out are not in it.
Changed(snap) == DOMAIN snap.added
-----------------------------------------------------------------------------
(* delivery_issue, fingerprint and normalize_issue *)

Locations(issue) == Range(issue.locs)
Identity(issue) == <<issue.rule, {loc.file : loc \in Locations(issue)}>>

\* A current location counts on an added line, a baseline one on a removed
\* line; a location without a file always counts, one without a line counts
\* when its file changed.
LocationSelected(loc, snap, lines) ==
    \/ ~snap.delivery \/ loc.file = None
    \/ loc.file \in Changed(snap) /\ (loc.line = 0 \/ loc.line \in lines[loc.file])

Delivered(issue, snap) ==
    \E loc \in Locations(issue) : LocationSelected(loc, snap, snap.added)
Removed(issue, snap) ==
    \E loc \in Locations(issue) : LocationSelected(loc, snap, snap.removed)
InChangedFile(issue, snap) ==
    ~snap.delivery \/ \E loc \in Locations(issue) : loc.file \in Changed(snap) \cup {None}

\* A location is in a file of its own tree, whose lengths are given.
Mappable(issue, lines) ==
    \A loc \in Locations(issue) :
        loc.file # None => loc.file \in DOMAIN lines /\ loc.line <= lines[loc.file]

\* A baseline issue, once placed, is named as the current tree names its file.
RenamedLocation(loc, snap) ==
    IF loc.file \in DOMAIN snap.renamed THEN [loc EXCEPT !.file = snap.renamed[loc.file]] ELSE loc
Renamed(issue, snap) ==
    [issue EXCEPT !.locs = [i \in DOMAIN issue.locs |-> RenamedLocation(issue.locs[i], snap)]]

-----------------------------------------------------------------------------
(* report_gate::apply: the issues that become diagnostics, by position      *)

Over(a, b) == IF a > b THEN a - b ELSE 0

\* How many of some positions of a list hold an identity, or a rule
Occurrences(issues, S, k) == Cardinality({n \in S : Identity(issues[n]) = k})
OfRule(issues, S, k) == Cardinality({n \in S : issues[n].rule = k})

\* What a delivery retains, and what it is compared with: the base's issues in
\* the changed files, or those it removed
Held(data, snap) == {n \in DOMAIN data : snap.delivery => Delivered(data[n], snap)}
Historical(base, snap) == {n \in DOMAIN base : InChangedFile(base[n], snap)}
Gone(base, snap) == {n \in DOMAIN base : Removed(base[n], snap)}

\* Plausible bug: issues outside the delivery do not use up the baseline.
Credit_Whole(data, base, snap, k) == Occurrences(base, Historical(base, snap), k)

\* Baseline occurrences an identity may be excused by: those in changed files,
\* less the ones that current issues outside the delivery still account for.
Credit(data, base, snap, k) ==
    Over(Occurrences(base, Historical(base, snap), k),
         Occurrences(data, DOMAIN data \ Held(data, snap), k))

\* ratchet::compare: the rules whose count rose
Increased(data, base, snap) ==
    {k \in {data[n].rule : n \in Held(data, snap)} :
        OfRule(data, Held(data, snap), k) > OfRule(base, Gone(base, snap), k)}

\* A location that cannot be placed is an error only when no other matches.
Placed(issue, placeable, matching) ==
    IF placeable \cap matching # {} THEN "in"
    ELSE IF Locations(issue) \subseteq placeable THEN "out" ELSE "error"

\* "in", "out" or "error" for the n-th issue, when it is retained
Include(mode, n, data, base, snap, affected) ==
    LET issue == data[n]
        bool(b) == IF b THEN "in" ELSE "out"
        inFiles == {loc \in Locations(issue) : loc.file # None}
        earlier == Occurrences(data, {m \in Held(data, snap) : m <= n}, Identity(issue))
    IN CASE mode = "full" -> "in"
         [] mode = "changed_lines" ->
              IF snap.delivery THEN "in"
              ELSE LET placeable == {loc \in inFiles : loc.line # 0} IN
                   Placed(issue, placeable,
                          {loc \in placeable : /\ loc.file \in Changed(snap)
                                               /\ loc.line \in snap.added[loc.file]})
         [] mode = "affected_scope" ->
              Placed(issue, inFiles, {loc \in inFiles : loc.file \in affected})
         [] mode = "new_diagnostics" -> bool(earlier > Credit(data, base, snap, Identity(issue)))
         [] mode = "ratchet" -> bool(issue.rule \in Increased(data, base, snap))

NeedsBaseline(mode) == mode \in {"new_diagnostics", "ratchet"}

\* The diagnostics a report yields, or an error; `base' is renamed already, and
\* `affected' None when the analyzer named no affected files.
Apply(mode, data, base, snap, affected) ==
    LET verdict == [n \in Held(data, snap) |-> Include(mode, n, data, base, snap, affected)]
    IN IF \/ \E i \in DOMAIN data : ~Mappable(data[i], snap.lines)
          \/ mode = "affected_scope" /\ (affected = None \/ ~(affected \subseteq DOMAIN snap.lines))
          \/ "error" \in Range(verdict)
       THEN [ok |-> FALSE, issues |-> {}]
       ELSE [ok |-> TRUE, issues |-> {n \in DOMAIN verdict : verdict[n] = "in"}]

-----------------------------------------------------------------------------
(* coverage_gate::apply and coverage::below_threshold *)

\* The threshold is a decimal; a tenth of a percent is the unit here.
BelowThreshold(hit, total, tenths) == total > 0 /\ hit * 1000 < total * tenths

BranchesBelow(counted, tenths) ==
    BelowThreshold(MapThenSumSet(LAMBDA r : r.taken, counted),
                   MapThenSumSet(LAMBDA r : r.found, counted), tenths)

\* A record is [file, line, hits, found, taken, excluded]
ValidRecord(r, snap) ==
    /\ r.line \in 1..snap.lines[r.file] /\ r.taken <= r.found
    /\ r.excluded => r.hits = 0 /\ r.found = 0

\* `branches' says whether the report measured any.
Coverage(spec, records, inventory, branches, snap) ==
    LET mode == IF snap.delivery THEN "changed_lines" ELSE spec.mode
        expected == {f \in spec.paths \cap DOMAIN snap.lines :
                        /\ snap.delivery => f \in Changed(snap)
                        /\ mode = "full" \/ (f \in Changed(snap) /\ snap.added[f] # {})}
        seen == inventory \cup {r.file : r \in records}
        counted == {r \in records : /\ r.file \in expected /\ ~r.excluded
                                    /\ mode = "full" \/ r.line \in snap.added[r.file]}
        hit == Cardinality({r \in counted : r.hits > 0})
        unique == \A r, s \in records : r.file = s.file /\ r.line = s.line => r = s
    IN IF \/ spec.paths = {} \/ mode \notin {"full", "changed_lines"}
          \/ spec.branches /\ ~branches
          \/ ~(seen \subseteq DOMAIN snap.lines)
          \/ ~unique \/ \E r \in records : ~ValidRecord(r, snap)
          \/ ~(expected \subseteq seen)
       THEN [ok |-> FALSE, below |-> FALSE, total |-> 0]
       ELSE [ok |-> TRUE, total |-> Cardinality(counted),
             below |-> \/ BelowThreshold(hit, Cardinality(counted), spec.threshold)
                       \/ spec.branches /\ BranchesBelow(counted, spec.threshold)]

\* The test counts of a report, and of a test runner without one
TestFindings(executed, failures, minimum) ==
    (IF executed < minimum THEN {"test-count"} ELSE {})
    \cup (IF failures > 0 THEN {"test-failures"} ELSE {})

-----------------------------------------------------------------------------
(* generated_reports: the current and the baseline run of one analyzer *)

\* An executable is [path, digest], or None where there is none.  A declared tool
\* is [id, inputs, probe, at]: the digests of its inputs (None when the base has
\* not got them), what its version probe did, and its executable when it was
\* identified, probed and confirmed, when the analysis ran, and when verified.

\* What a version probe concludes from its process (tool_evidence)
Probe(tool) ==
    LET p == tool.probe IN
    CASE p.timedOut -> "probe.timeout"
      [] ~p.timedOut /\ (p.captureError \/ p.long) -> "probe.output_limit"
      [] ~p.timedOut /\ ~p.captureError /\ ~p.long /\ p.exit # 0 -> "probe.exit_code"
      [] OTHER -> IF p.version = None THEN "probe.version_invalid"
                  ELSE IF tool.at.confirmed # tool.at.identified THEN "probe.executable_changed"
                  ELSE "ok"

Identifiable(tool) == tool.inputs # None /\ tool.at.identified # None

\* What is retained of a tool, and compared with what the current run retained
Evidence(tool) ==
    [id |-> tool.id, version |-> tool.probe.version, digest |-> tool.at.identified.digest,
     inputs |-> tool.inputs]

Comparable(now, then) ==
    /\ DOMAIN now = DOMAIN then
    /\ \A i \in DOMAIN now : \A field \in {"id", "version", "digest", "inputs"} :
           now[i][field] = then[i][field]

\* Plausible bug: the tools are not identified again after the analysis.
Verified_Assumed(tools) == TRUE

\* tool_evidence::verify
Verified(tools) == \A i \in DOMAIN tools : tools[i].at.verified = tools[i].at.identified

\* The baseline analysis, in the order of its stages; every one can end it.
\* `run' says what each stage met: `failed' are the stages that could not be done,
\* `touched' those that wrote to the checked inputs.
Baseline(run) ==
    IF \/ run.failed # {}
       \/ \E i \in DOMAIN run.tools :
              ~Identifiable(run.tools[i]) \/ Probe(run.tools[i]) # "ok"
       \/ ~Comparable(run.now, [i \in DOMAIN run.tools |-> Evidence(run.tools[i])])
       \/ "preparation" \in run.touched
       \/ run.command.identified = None
       \/ run.command.identified.digest # run.currentExecutable
       \/ run.command.confirmed # run.command.identified
       \/ ~Verified(run.tools)
       \/ run.touched # {}
       \/ run.cut \/ run.exit \notin run.expected \cup run.findingsExits
       \/ (run.exit \in run.findingsExits /\ run.issues = <<>>)
    THEN [ok |-> FALSE, issues |-> <<>>]
    ELSE [ok |-> TRUE, issues |-> run.issues]

\* collect: the current reports are read and kept whatever the baseline did,
\* but they are compared with nothing else.
Collect(mode, data, run, snap, affected) ==
    LET base == IF NeedsBaseline(mode) THEN Baseline(run) ELSE [ok |-> TRUE, issues |-> <<>>]
        previous == [n \in DOMAIN base.issues |-> Renamed(base.issues[n], snap)]
        result == Apply(mode, data, previous, snap, affected)
        ok == /\ base.ok /\ result.ok
              /\ \A n \in DOMAIN base.issues : Mappable(base.issues[n], snap.base)
    IN [kept |-> TRUE, ok |-> ok, issues |-> IF ok THEN result.issues ELSE {}]

-----------------------------------------------------------------------------
(* What the gates promise *)

MinOf(a, b) == IF a < b THEN a ELSE b

\* No occurrence a delivery adds is excused by a historical one that is still
\* there: of each identity in a changed file, as many issues are reported as
\* the totals grew, as far as the delivery holds that many; whatever order the
\* tool lists them in (report_gate.rs:112-127, 207-213).
NewIsWhatGrew(data, base, snap) ==
    LET got == Apply("new_diagnostics", data, base, snap, {}) IN
    (got.ok /\ snap.delivery) =>
        \A k \in {Identity(data[i]) : i \in DOMAIN data} :
            Occurrences(data, got.issues, k) =
                MinOf(Occurrences(data, Held(data, snap), k),
                      Over(Occurrences(data, DOMAIN data, k),
                           Occurrences(base, Historical(base, snap), k)))

\* A ratchet lets no rule grow behind another: if more issues of a rule are
\* delivered than the delivery removed, every one of them is reported, and
\* otherwise none is (ratchet.rs:28-48).
RatchetIsGrowth(data, base, snap) ==
    LET got == Apply("ratchet", data, base, snap, {})
        new(k) == OfRule(data, Held(data, snap), k)
    IN got.ok => \A k \in {data[i].rule : i \in DOMAIN data} :
           OfRule(data, got.issues, k) =
               IF new(k) > OfRule(base, Gone(base, snap), k) THEN new(k) ELSE 0

\* A report cannot pass by leaving a changed source out, and a changed line no
\* test ran keeps the coverage of the delivery under 100 % (coverage_gate.rs:42-165).
UncoveredIsSeen(spec, records, inventory, branches, snap) ==
    LET got == Coverage(spec, records, inventory, branches, snap)
        missed == {r \in records : /\ r.file \in spec.paths /\ ~r.excluded /\ r.hits = 0
                                   /\ r.file \in Changed(snap) /\ r.line \in snap.added[r.file]}
    IN (got.ok /\ snap.delivery) =>
        /\ \A f \in spec.paths \cap Changed(snap) \cap DOMAIN snap.lines :
               snap.added[f] # {} => f \in inventory \cup {r.file : r \in records}
        /\ (missed # {} /\ spec.threshold = 1000) => got.below

\* Whether an executable was exchanged and put back between two looks at it
PutBack(before, during, after) == after = before /\ during # before

\* Issues are compared only with what the same analyzer found on the base: unless
\* it was put back in time, what answered the version probe and what analyzed the
\* base were the executables of the current run; and an issue is excused only by
\* one that a finished analysis of untouched inputs reported, of the same rule
\* and, issue by issue, of the same identity (generated_reports.rs:66-98, 172-295).
ComparedWithItsOwn(mode, data, run, snap) ==
    LET got == Collect(mode, data, run, snap, {}) IN
    (NeedsBaseline(mode) /\ got.ok) =>
        /\ ~PutBack(run.command.identified, run.command.ran, run.command.confirmed) =>
               run.command.ran.digest = run.currentExecutable
        /\ \A i \in DOMAIN run.tools :
               LET at == run.tools[i].at IN
               /\ ~PutBack(at.identified, at.probed, at.confirmed) =>
                      at.probed.digest = run.now[i].digest
               /\ ~PutBack(at.identified, at.ran, at.verified) =>
                      at.ran.digest = run.now[i].digest
        /\ \A n \in Held(data, snap) \ got.issues :
               /\ run.touched = {} /\ ~run.cut
               /\ \E m \in DOMAIN run.issues :
                      /\ run.issues[m].rule = data[n].rule
                      /\ mode = "new_diagnostics" =>
                             Identity(Renamed(run.issues[m], snap)) = Identity(data[n])
=============================================================================

---------------------------- MODULE ConfigLayout -----------------------------
(***************************************************************************)
(* What a configuration must be before anything in it runs: its checks,    *)
(* the files they write, the facts they may claim, the profiles that name  *)
(* them and the order their prerequisites leave.                           *)
(*                                                                         *)
(* A path is [at, plain]: where it leads below the root (None when it      *)
(* leaves the repository), as a sequence of names, and whether it is       *)
(* written in its normal form.  The root itself is written `.', which is   *)
(* not the normal form of the empty path.  Identifiers, globs, digests and *)
(* texts are well formed; a list with repetitions is a sequence.           *)
(***************************************************************************)
LOCAL INSTANCE Naturals
LOCAL INSTANCE Sequences
LOCAL INSTANCE FiniteSets
LOCAL INSTANCE SequencesExt
LOCAL INSTANCE Functions

CONSTANTS
    None,            \* no path, no baseline, no bound
    Capabilities,    \* what this program offers
    Version,         \* of this program
    Reserved,        \* the check of the constraint inventory
    Rulesets,        \* the packages of rules there are
    MavenScopes,     \* of a dependency
    MavenArgs,       \* the arguments a usage analysis needs,
    MavenGoals,      \* its goals, in order,
    MavenBans        \* and the options that would redirect it

Inside(path) == path.at # None
Dot == [at |-> <<>>, plain |-> FALSE]
Normal(path) == Inside(path) /\ path.plain /\ path.at # <<>>
Root(path) == path = Dot \/ Normal(path)
Distinct(seq) == IsInjective(seq)
Ats(paths) == [i \in DOMAIN paths |-> paths[i].at]
Some(seq, Is(_)) == \E i \in DOMAIN seq : Is(seq[i])
Every(seq, Is(_)) == \A i \in DOMAIN seq : Is(seq[i])
Gather(seq, paths(_)) == FlattenSeq([i \in DOMAIN seq |-> paths(seq[i])])

(* requires and required_env.                                              *)
RequirementsHold(requires) ==
    /\ requires.version \in 0 .. Version
    /\ Distinct(requires.capabilities)
    /\ Every(requires.capabilities, LAMBDA c : c \in Capabilities)

-----------------------------------------------------------------------------
(* The files of a check.  A report printed to standard output has a path   *)
(* that is only a label.                                                   *)
Manual(check) == check.kind = "manual"
ProjectOutputs(project) ==
    IF project.ecosystem = "maven" THEN <<project.pom, project.dependencies>> ELSE <<project.report>>
AllProjectOutputs(check) == Gather(check.projects, ProjectOutputs)
FileOutputs(check, baseline) ==
    LET written == SelectSeq(check.reports, LAMBDA r : ~r.stdout)
        path(r) == IF baseline /\ r.baseline # None THEN r.baseline ELSE r.path
    IN  [i \in DOMAIN written |-> path(written[i])] \o AllProjectOutputs(check)
NeedsBaseline(report) == report.mode \in {"new_diagnostics", "ratchet"}

CoverageFormats == {"lcov", "cobertura", "coverage_py", "jacoco"}
ReportSound(r) ==
    /\ Inside(r.path) /\ (r.baseline # None => Inside(r.baseline))
    /\ r.format = "cargo_clippy" => r.stdout
    /\ r.minimumTests # 0
    /\ r.format \in CoverageFormats \/ r.minimumCoverage # None \/ r.coveragePaths # {} =>
         r.coveragePaths # {} /\ r.mode \in {"full", "changed_lines"}
    /\ r.minimumCoverage \in {None} \cup 0 .. 100
    /\ NeedsBaseline(r) => r.baseline # None
    /\ r.mode = "ratchet" => r.format # "junit" /\ r.minimumTests = None

OutputsApart_InTheHead(check) ==
    LET labels == [i \in DOMAIN check.reports |-> check.reports[i].path]
    IN  /\ Distinct(Ats(AllProjectOutputs(check) \o labels))
        /\ Some(check.reports, NeedsBaseline) => Distinct(Ats(FileOutputs(check, FALSE)))
        /\ Len(SelectSeq(check.reports, LAMBDA r : r.stdout)) <= 1

OutputsApart(check) ==
    LET labels == [i \in DOMAIN check.reports |-> check.reports[i].path]
    IN  /\ Distinct(Ats(AllProjectOutputs(check) \o labels))
        /\ Some(check.reports, NeedsBaseline) => Distinct(Ats(FileOutputs(check, TRUE)))
        /\ Len(SelectSeq(check.reports, LAMBDA r : r.stdout)) <= 1

-----------------------------------------------------------------------------
(* Projects.  A command that claims facts of a project must be seen to      *)
(* produce them.                                                            *)
ProjectsSound(check) ==
    /\ Distinct([i \in DOMAIN check.projects |-> check.projects[i].root.at])
    /\ Every(check.projects, LAMBDA p : Root(p.root) /\ Every(ProjectOutputs(p), Normal))
    /\ check.projects # <<>> =>
         ~Manual(check) /\ check.expected = 0 /\ check.findings = <<>>
           /\ Every(check.reports, LAMBDA r : r.mode = "full")

\* Maven: one value of each property, three goals in order, a log of its own
UsageSound(check) ==
    Some(check.projects, LAMBDA p : p.ecosystem = "maven" /\ p.usage) =>
        /\ Len(check.projects) = 1 /\ check.cwd = check.projects[1].root
        /\ \A required \in MavenArgs :
             /\ Some(check.argv, LAMBDA a : a = required)
             /\ required.property # None =>
                  Len(SelectSeq(check.argv, LAMBDA a : a.property = required.property)) = 1
        /\ SelectSeq(check.argv, LAMBDA a : a \in ToSet(MavenGoals)) = MavenGoals
        /\ ~Some(check.argv, LAMBDA a : a \in MavenBans)

\* Python: what is installed, and where, is what the project says
Overlap(a, b) == IsPrefix(a.at, b.at) \/ IsPrefix(b.at, a.at)
Local(project, path) ==
    [path EXCEPT !.at = SubSeq(path.at, Len(project.root.at) + 1, Len(path.at))]
Below(root, path) == IsStrictPrefix(root.at, path.at)
\* An argument is a word and its value, if any; a path stands by itself.
Word(word, value) == [word |-> word, value |-> value]
InstallArgs(args, wanted) ==
    LET Take(so, a) ==
            CASE so.for # None -> [so EXCEPT ![so.for] = a, !.for = None]
              [] so.for = None /\ a = Word("ignore", None) /\ so.ignore = None -> [so EXCEPT !.ignore = a]
              [] so.for = None /\ a.word \in {"target", "report"} /\ so[a.word] = None ->
                   [so EXCEPT !.for = a.word]
              [] so.for = None /\ a.word = "index" -> [so EXCEPT !.for = "index"]
              [] so.for = None /\ a.word = "quiet" -> so
              [] so.for = None /\ a = wanted /\ so.extras = None -> [so EXCEPT !.extras = a]
              [] OTHER -> [so EXCEPT !.fits = FALSE]
        read == FoldLeft(Take, [fits |-> TRUE, for |-> None, ignore |-> None, extras |-> None,
                                target |-> None, report |-> None, index |-> None], args)
    IN  [read EXCEPT !.fits = @ /\ read.for # "index"]

Installs_AnyTarget(check, project) ==
    LET read == InstallArgs(check.pip.args, Word("here", project.extras))
    IN  /\ check.pip.isolated /\ check.pip.args # <<>>
        /\ read.fits /\ read.ignore # None /\ read.extras # None /\ read.target # None
        /\ read.report = Word("path", Local(project, project.report).at)

Installs(check, project) ==
    LET read == InstallArgs(check.pip.args, Word("here", project.extras))
    IN  /\ check.pip.isolated /\ check.pip.args # <<>>
        /\ read.fits /\ read.ignore # None /\ read.extras # None
        /\ read.target = Word("path", Local(project, project.target).at)
        /\ read.report = Word("path", Local(project, project.report).at)

PythonSound(check) ==
    \A project \in {p \in ToSet(check.projects) : p.ecosystem = "python"} :
        /\ Len(check.projects) = 1 /\ check.cwd = project.root
        /\ \A path \in {project.source, project.tests, project.target} :
             Normal(path) /\ Below(project.root, path)
        /\ ~Overlap(project.source, project.tests)
        /\ \A path \in {project.source, project.tests, project.report} : ~Overlap(path, project.target)
        /\ Distinct(project.extras)
        /\ Below(project.root, project.report)
        /\ Installs(check, project)
        /\ {"python", "pip"} \subseteq check.pip.probes

-----------------------------------------------------------------------------
(* Checks of a special kind, and checks as such.                           *)
EffectivenessSound(check) ==
    check.effectiveness # None =>
        /\ ~Manual(check) /\ check.compatibility = None /\ check.projects = <<>>
        /\ check.tools # <<>> /\ check.expected = 0 /\ check.findings # <<>>
        /\ Len(check.reports) = 1
        /\ LET r == check.reports[1] IN
             /\ r.format = "junit" /\ r.mode = "full" /\ r.baseline = None
             /\ r.minimumCoverage = None /\ r.coveragePaths = {}
        /\ \A group \in {"source", "tests", "support", "failures"} :
             /\ group # "support" => check.effectiveness[group] # <<>>
             /\ Distinct(check.effectiveness[group])

CompatibilitySound(check) ==
    check.compatibility # None =>
        /\ ~Manual(check) /\ check.tools # <<>> /\ check.reports = <<>> /\ check.projects = <<>>
        /\ check.expected = 0 /\ check.findings = <<>>
        /\ check.compatibility.artifacts # <<>>
        /\ \A side \in {"current", "baseline"} :
             LET pairs == check.compatibility.artifacts \o check.compatibility.classpath
                 paths == [i \in DOMAIN pairs |-> pairs[i][side]]
             IN  Distinct(paths) /\ Every(paths, Normal)

CheckSound(check) ==
    /\ Distinct(check.env)
    /\ CompatibilitySound(check) /\ EffectivenessSound(check)
    /\ ~Manual(check) => check.argv # <<>>
    /\ check.evidence # None => Manual(check) /\ Normal(check.evidence)
    /\ Manual(check) =>
         /\ check.argv = <<>> /\ check.env = <<>> /\ check.tools = <<>> /\ check.reports = <<>>
         /\ check.projects = <<>> /\ check.args = <<>> /\ check.findings = <<>>
         /\ check.expected = 0 /\ check.cwd = Dot
    /\ check.timeout \in 1 .. 86400
    /\ Inside(check.cwd)
    /\ ProjectsSound(check) /\ UsageSound(check) /\ PythonSound(check)
    /\ Distinct([i \in DOMAIN check.tools |-> check.tools[i].id])
    /\ Every(check.tools, LAMBDA t : t.timeout \in 1 .. 60 /\ Every(t.inputs, Inside))
    /\ check.findings # <<>> =>
         check.reports # <<>> /\ Distinct(check.findings) /\ check.expected \notin ToSet(check.findings)
    /\ Every(check.reports, ReportSound) /\ OutputsApart(check)

-----------------------------------------------------------------------------
(* The configuration: rules by id, checks in order, clauses, profiles by   *)
(* name.  `resolved' once the rule packages have been expanded.            *)
CheckIds(config) == [i \in DOMAIN config.checks |-> config.checks[i].id]
Ids(config) == DOMAIN config.rules \cup ToSet(CheckIds(config))

ConstraintsSound(config) ==
    LET clauses == config.constraints
        ids == [i \in DOMAIN clauses |-> clauses[i].id]
        adopted == SelectSeq(clauses, LAMBDA c : c.adoption # None)
    IN  /\ Reserved \notin Ids(config)
        /\ Distinct(ids) /\ Distinct([i \in DOMAIN adopted |-> adopted[i].adoption])
        /\ Every(clauses, LAMBDA c : Normal(c.document))
        /\ Every(clauses, LAMBDA c : c.checks # None =>
             /\ c.checks # <<>> /\ Distinct(c.checks)
             /\ ToSet(c.checks) \subseteq Ids(config) \ {Reserved})

Reviewed(config) ==
    /\ config.lifecycles \subseteq DOMAIN config.rules
    /\ DOMAIN config.reviews \subseteq DOMAIN config.rules
    /\ IsInjective(config.reviews)

Required(config) ==
    {id \in DOMAIN config.rules : config.rules[id].enabled /\ config.rules[id].required}
      \cup {c.id : c \in {d \in ToSet(config.checks) : d.required}}

ProfilesSound(config, resolved) ==
    \A name \in DOMAIN config.profiles :
        /\ name \in {"quick", "full"}
        /\ Distinct(config.profiles[name]) /\ ToSet(config.profiles[name]) \subseteq Ids(config)
        /\ name = "full" /\ resolved => Required(config) \subseteq ToSet(config.profiles[name])

\* Rules in the order of their ids, then checks, each with its prerequisites
Nodes(config) ==
    config.ruleOrder \o CheckIds(config)
Prerequisites(config, id) ==
    IF id \in DOMAIN config.rules THEN config.rules[id].dependsOn
    ELSE config.checks[CHOOSE i \in DOMAIN config.checks : config.checks[i].id = id].dependsOn

Round(config, completed) ==
    FoldLeft(LAMBDA so, id :
        IF ToSet(Prerequisites(config, id)) \subseteq so THEN so \cup {id} ELSE so, completed, Nodes(config))

Completed_InOneRound(config) == Round(config, {})

Completed(config) ==
    FoldLeft(LAMBDA so, n : Round(config, so), {}, [n \in 1 .. Len(Nodes(config)) + 1 |-> n])

PrerequisitesSound(config) ==
    /\ \A id \in Ids(config) :
         LET wanted == Prerequisites(config, id)
         IN  Distinct(wanted) /\ ToSet(wanted) \subseteq Ids(config)
    /\ Completed(config) = Ids(config)

\* The parameters of the two rules about a project's modules
ModulesSound(modules) == modules # <<>> /\ Distinct(modules) /\ Every(modules, Root)
BoundarySound(policy) ==
    /\ ModulesSound(policy.modules) /\ policy.forbidden # <<>>
    /\ Every(policy.forbidden, LAMBDA f : Distinct(f.scopes) /\ ToSet(f.scopes) \subseteq MavenScopes)

Layout(config, resolved) ==
    /\ RequirementsHold(config.requires)
    /\ Distinct(config.rulesets) /\ ToSet(config.rulesets) \subseteq Rulesets
    /\ \A id \in DOMAIN config.rules : config.rules[id].evidence # None => Normal(config.rules[id].evidence)
    /\ config.customRules # None => Normal(config.customRules)
    /\ ConstraintsSound(config)
    /\ Reviewed(config)
    /\ Distinct(CheckIds(config)) /\ DOMAIN config.rules \cap ToSet(CheckIds(config)) = {}
    /\ \A check \in ToSet(config.checks) : CheckSound(check)
    /\ ProfilesSound(config, resolved)
    /\ PrerequisitesSound(config)

-----------------------------------------------------------------------------
(* Prerequisites are accepted exactly when some order of the checks has     *)
(* each of them after what it waits for, whatever order the file has; and  *)
(* an edit that only disables a rule never makes a configuration invalid,  *)
(* nor does one that enables a rule before the packages are expanded.      *)
Turned(config, id, enabled) == [config EXCEPT !.rules[id].enabled = enabled]
OrderRight(config) ==
    LET ids == Ids(config)
        known == \A id \in ids : /\ ToSet(Prerequisites(config, id)) \subseteq ids
                                 /\ Distinct(Prerequisites(config, id))
        feasible == \E order \in SetToSeqs(ids) : \A i \in DOMAIN order :
            ToSet(Prerequisites(config, order[i])) \subseteq {order[j] : j \in 1 .. i - 1}
        holds == Required(config) \subseteq ToSet(config.profiles["full"])
    IN  /\ Layout(config, FALSE) = (known /\ feasible)
        /\ Layout(config, TRUE) = (known /\ feasible /\ holds)
        /\ \A id \in DOMAIN config.rules, resolved \in BOOLEAN :
             Layout(config, resolved) =>
               /\ Layout(Turned(config, id, FALSE), resolved)
               /\ resolved \/ Layout(Turned(config, id, TRUE), resolved)

(* Run in the head or in the baseline, an accepted check writes no file     *)
(* twice and none outside the repository; what it installs for a project   *)
(* neither reads nor overwrites what the project keeps; and its exit code   *)
(* says either success or findings.                                         *)
WritesRight(check) ==
    CheckSound(check) =>
        /\ \A baseline \in {FALSE} \cup {Some(check.reports, NeedsBaseline)} :
             LET files == Ats(FileOutputs(check, baseline))
             IN  None \notin ToSet(files) /\ Cardinality(ToSet(files)) = Len(files)
        /\ \A p \in ToSet(check.projects) : p.ecosystem = "python" =>
             \A kept \in {p.source, p.tests, p.report}, below \in {<<>>, <<"x">>} :
                 ~(IsPrefix(p.target.at, kept.at \o below) /\ IsPrefix(kept.at, kept.at \o below))
        /\ \A p, q \in ToSet(check.projects) : p.root.at = q.root.at => p = q
        /\ check.projects # <<>> => {0} = {check.expected} \cup ToSet(check.findings)
        /\ check.compatibility # None => \A side \in {"current", "baseline"} :
             LET pairs == check.compatibility.artifacts \o check.compatibility.classpath
             IN  Cardinality({pairs[i][side].at : i \in DOMAIN pairs}) = Len(pairs)

(* An accepted installation, as pip reads its arguments, puts exactly this *)
(* project where the policy says and reports there.                        *)
RECURSIVE PipReads(_, _)
PipReads(args, seen) ==
    IF args = <<>> THEN seen
    ELSE IF Head(args).word \in {"target", "report", "index"} /\ Len(args) > 1
         THEN PipReads(SubSeq(args, 3, Len(args)), Append(seen, [option |-> Head(args).word, is |-> args[2]]))
         ELSE PipReads(Tail(args), Append(seen, [option |-> "alone", is |-> Head(args)]))
InstallRight(check, project) ==
    Installs(check, project) =>
        LET read == ToSet(PipReads(check.pip.args, <<>>))
            values(option) == {r.is : r \in {s \in read : s.option = option}}
        IN  /\ values("target") = {Word("path", Local(project, project.target).at)}
            /\ values("report") = {Word("path", Local(project, project.report).at)}
            /\ values("alone") \ {Word("quiet", None)} =
                 {Word("ignore", None), Word("here", project.extras)}
=============================================================================

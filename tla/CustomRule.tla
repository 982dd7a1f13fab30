----------------------------- MODULE CustomRule ------------------------------
(***************************************************************************)
(* A rule a project writes for itself: which rules are accepted, which     *)
(* tests, comments, imports, files and commits one selects in a change,    *)
(* what it asserts of them, and which facts it must have.                  *)
(*                                                                         *)
(* A rule is [schema, expression, sources, capabilities, entity, change,   *)
(* paths, languages, then, marker, scope]: `then' its assertions, `marker' *)
(* what binds a declaration to a test.  A source has only what selects.    *)
(* A text is an atom, a pattern the set of texts it matches, a declaration *)
(* the set of fields it fills in, None where there is none.  Which earlier *)
(* test a test was is given with it (TestLineage), and a typed expression  *)
(* is the least number of entities it wants of each collection             *)
(* (RuleExpression has the others).  A budget that runs out blocks the     *)
(* rule, as a missing fact does, and what a blocked rule had found by then *)
(* counts for nothing; both are left out.                                  *)
(***************************************************************************)
LOCAL INSTANCE Naturals
LOCAL INSTANCE Sequences
LOCAL INSTANCE FiniteSets
LOCAL INSTANCE FiniteSetsExt
LOCAL INSTANCE SequencesExt
LOCAL INSTANCE TLC

CONSTANTS
    None,
    Order,        \* the paths, in lexical order
    Language,     \* [paths -> languages]
    Syntax,       \* [languages -> what is known of their texts]
    Lines, Words  \* [texts -> Nat]

EntityCapability == [test_method |-> "test_methods", comment |-> "comments", import |-> "imports",
                     file |-> "files", commit |-> "commits"]
MarkerCapability == [annotation |-> "annotations", comment |-> "comments", git_trailer |-> "commits"]
Known == {"test_methods", "annotations", "comments", "imports", "files", "commits",
          "dependency_resolution", "external_provenance"}
ChangeOf(rule) == IF rule.change = None THEN "added" ELSE rule.change
AllFiles(rule) == rule.entity = "file" /\ ChangeOf(rule) = "all"
Asserts(rule) ==
    \/ rule.expression # None \/ rule.then.marker \/ rule.then.required # {}
    \/ \E a \in {"dependency", "name", "forbid", "require", "minCount", "maxCount", "maxLines", "maxWords"} :
         rule.then[a] # None

(* custom_validation.rs.  A source is a rule's selection under a name.     *)
ChangeValid(rule) ==
    LET change == ChangeOf(rule) IN
    /\ change \in {"added", "modified", "renamed", "any", "all"}
    /\ change = "all" => rule.entity = "file"
    /\ rule.entity = "commit" => change = "added" /\ rule.languages = {} /\ rule.paths = {}
    /\ rule.entity \in {"comment", "import"} => change \in {"added", "any"}
MarkerValid(rule) ==
    IF rule.then.marker
    THEN /\ rule.entity = "test_method" /\ rule.marker # None /\ rule.scope # None
         /\ rule.marker.kind \in DOMAIN MarkerCapability
         /\ MarkerCapability[rule.marker.kind] \in rule.capabilities
    ELSE rule.marker = None /\ rule.scope = None
SelectionValid(rule) ==
    /\ rule.capabilities \subseteq Known
    /\ rule.entity \in DOMAIN EntityCapability
    /\ EntityCapability[rule.entity] \in rule.capabilities
    /\ ChangeValid(rule)
Nothing == [marker |-> FALSE, required |-> {}] @@
    [a \in {"dependency", "name", "forbid", "require", "minCount", "maxCount", "maxLines", "maxWords"} |-> None]
Source(source) ==
    source @@ [schema |-> 2, then |-> Nothing, marker |-> None, sources |-> None, expression |-> None]
Valid(rule) ==
    /\ rule.schema \in 1..3
    /\ (rule.schema = 1) = (rule.expression = None)
    /\ rule.schema # 3 => DOMAIN rule.sources = {}
    /\ SelectionValid(rule)
    /\ \A n \in DOMAIN rule.sources :
         SelectionValid(Source(rule.sources[n])) /\ rule.sources[n].scope = None
    /\ Asserts(rule)
    /\ rule.then.maxLines # None \/ rule.then.maxWords # None \/ rule.then.required # {} => AllFiles(rule)
    /\ rule.then.minCount # None /\ rule.then.maxCount # None => rule.then.minCount <= rule.then.maxCount
    /\ MarkerValid(rule)
    /\ rule.scope \in {None, "all_added_tests", "ai_only"}
    /\ rule.then.dependency # None =>
         rule.entity = "test_method" /\ "dependency_resolution" \in rule.capabilities

-----------------------------------------------------------------------------
(* What a rule needs before it selects anything.  Facts are those of the   *)
(* same snapshot: [provenance, git, projects], a project [owns, language,  *)
(* has].                                                                    *)
SyntaxKnown(language, rule) ==
    rule.capabilities \cap {"test_methods", "annotations", "comments", "imports"} \subseteq Syntax[language]
Requirements(rule, facts) ==
    /\ \A l \in rule.languages : SyntaxKnown(l, rule)
    /\ "external_provenance" \in rule.capabilities \/ rule.scope = "ai_only" => facts.provenance
    /\ rule.marker # None => (rule.marker.kind = "git_trailer" => facts.git)
    /\ "dependency_resolution" \in rule.capabilities => facts.projects # <<>>

(* A snapshot is [files, changes, delivery, filter, commits]; a file is    *)
(* [text, tests, comments, before], `before' the comments of its           *)
(* predecessor; a test [id, text, kind, earlier, now, ai].                 *)
Filtered(s, path) == path \in s.filter
Included(s, path) ==
    /\ s.delivery => path \in DOMAIN s.changes \/ (\E p \in DOMAIN s.changes : s.changes[p].old = path)
    /\ Filtered(s, path)
Matches(rule, path) ==
    /\ rule.paths = {} \/ path \in rule.paths
    /\ rule.languages = {} \/ Language[path] \in rule.languages
Listed(set) == SelectSeq(Order, LAMBDA p : p \in set)
Subject(path, id, text, declaration, triggered) ==
    [path |-> path, id |-> id, text |-> text, declaration |-> declaration, triggered |-> triggered]

Totals(rule) == rule.then.minCount # None \/ rule.then.maxCount # None \/ rule.then.maxWords # None
FileSubjects_Changed(rule, s, independent) ==
    LET change == ChangeOf(rule)
        from == IF change = "all" THEN DOMAIN s.files
                ELSE {p \in DOMAIN s.changes \cap DOMAIN s.files : change \in {"any", s.changes[p].kind}}
        paths == Listed({p \in from : (independent \/ Included(s, p)) /\ Matches(rule, p)})
    IN  [i \in DOMAIN paths |-> Subject(paths[i], paths[i], s.files[paths[i]].text, None, TRUE)]

FileSubjects(rule, s, independent) ==
    LET change == ChangeOf(rule)
        from == IF change = "all" THEN DOMAIN s.files
                ELSE {p \in DOMAIN s.changes \cap DOMAIN s.files : change \in {"any", s.changes[p].kind}}
        in(p) == independent \/ (IF Totals(rule) THEN Filtered(s, p) ELSE Included(s, p))
        paths == Listed({p \in from : in(p) /\ Matches(rule, p)})
    IN  [i \in DOMAIN paths |-> Subject(paths[i], paths[i], s.files[paths[i]].text, None, TRUE)]

CommitSubjects(s) ==
    [i \in DOMAIN s.commits |-> Subject(None, i, s.commits[i], None, TRUE)]

TestSubjects_Triggered(rule, file, path) ==
    LET kept == SelectSeq(file.tests, LAMBDA t :
            ChangeOf(rule) \in {"any", t.kind} /\ (rule.scope = "ai_only" => t.ai))
    IN  [i \in DOMAIN kept |->
           Subject(path, kept[i].id, kept[i].text, IF rule.marker = None THEN None ELSE kept[i].now, TRUE)]

\* A test that was or is declared stays under the rule though it triggers nothing.
TestSubjects(rule, file, path) ==
    LET triggered(t) == ChangeOf(rule) \in {"any", t.kind} /\ (rule.scope = "ai_only" => t.ai)
        earlier(t) == IF rule.marker = None THEN None ELSE t.earlier
        now(t) == IF rule.marker = None THEN None ELSE t.now
        kept == SelectSeq(file.tests, LAMBDA t : triggered(t) \/ earlier(t) # None \/ now(t) # None)
    IN  [i \in DOMAIN kept |-> Subject(path, kept[i].id, kept[i].text, now(kept[i]), triggered(kept[i]))]

\* Of equal comments, as many are new as there are more than before.
TextSubjects_AnyNew(rule, file, path) ==
    LET new == SelectSeq(file.comments, LAMBDA t : t \notin ToSet(file.before))
    IN  [i \in DOMAIN new |-> Subject(path, new[i], new[i], None, TRUE)]

TextSubjects(rule, file, path) ==
    LET count(t) == Cardinality({i \in DOMAIN file.before : file.before[i] = t})
        Take(so, t) ==
            IF ChangeOf(rule) # "any" /\ so.left[t] > 0 THEN [so EXCEPT !.left[t] = @ - 1]
            ELSE [so EXCEPT !.new = Append(@, Subject(path, t, t, None, TRUE))]
    IN  FoldLeft(Take, [left |-> [t \in ToSet(file.comments) |-> count(t)], new |-> <<>>], file.comments).new

Views(rule, s, independent) ==
    Listed({p \in DOMAIN s.changes \cap DOMAIN s.files :
              Language[p] # None /\ (independent \/ Included(s, p)) /\ Matches(rule, p)})
Collect(rule, s, independent) ==
    LET paths == Views(rule, s, independent)
        of(p) == IF rule.entity = "test_method" THEN TestSubjects(rule, s.files[p], p)
                 ELSE TextSubjects(rule, s.files[p], p)
    IN  CASE rule.entity = "commit" -> [known |-> TRUE, subjects |-> CommitSubjects(s)]
          [] rule.entity = "file" -> [known |-> TRUE, subjects |-> FileSubjects(rule, s, independent)]
          [] OTHER -> [known |-> \A p \in ToSet(paths) : SyntaxKnown(Language[p], rule),
                       subjects |-> FlattenSeq([i \in DOMAIN paths |-> of(paths[i])])]

-----------------------------------------------------------------------------
(* The assertions; a finding is [what, path, id].                          *)
Finding(what, path, id) == [what |-> what, path |-> path, id |-> id]
Undeclared(rule, subject) ==
    rule.then.marker /\ (subject.declaration = None \/ ~(rule.marker.fields \subseteq subject.declaration))
Violations(rule, subject) ==
    LET broken == {w \in {"name", "forbid", "require"} :
            /\ subject.triggered /\ rule.then[w] # None
            /\ (subject.text \in rule.then[w]) = (w = "forbid")}
    IN  {Finding(w, subject.path, subject.id) : w \in
            broken \cup (IF Undeclared(rule, subject) THEN {"marker"} ELSE {})}

Inventory(rule, s, subjects) ==
    LET words == FoldLeft(LAMBDA so, subject : so + Words[subject.text], 0, subjects)
        long == {x \in ToSet(subjects) : rule.then.maxLines # None /\ Lines[x.text] > rule.then.maxLines}
    IN  {Finding("maxLines", x.path, x.id) : x \in long}
        \cup {Finding("required", p, p) : p \in rule.then.required \ DOMAIN s.files}
        \cup (IF rule.then.minCount # None /\ Len(subjects) < rule.then.minCount
              THEN {Finding("minCount", None, None)} ELSE {})
        \cup (IF rule.then.maxWords # None /\ words > rule.then.maxWords
              THEN {Finding("maxWords", None, None)} ELSE {})

\* Unchanged tests that are declared need the dependency too.
Owners(path, projects) ==
    {i \in DOMAIN projects : path \in projects[i].owns /\ projects[i].language = Language[path]}
Dependencies(rule, s, subjects, projects) ==
    LET marked == UNION {{[path |-> p, id |-> t.id] : t \in {u \in ToSet(s.files[p].tests) : u.now # None}} :
                        p \in {q \in DOMAIN s.files : rule.marker # None /\ Included(s, q) /\ Matches(rule, q)}}
        needing == {[path |-> x.path, id |-> x.id] : x \in ToSet(subjects)} \cup marked
        has(t) == UNION {projects[i].has : i \in Owners(t.path, projects)}
    IN  [known |-> \A t \in needing : Cardinality(Owners(t.path, projects)) = 1,
         found |-> {Finding("dependency", t.path, t.id) : t \in
                      {u \in needing : rule.then.dependency \notin has(u)}}]

\* An expression is the least number of entities it wants of each collection.
Collections(rule, s, subjects) ==
    [n \in DOMAIN rule.sources \cup {"entities"} |->
       Len(SelectSeq(IF n = "entities" THEN subjects
                     ELSE Collect(Source(rule.sources[n]), s, TRUE).subjects, LAMBDA x : x.triggered))]
Fails(rule, s, subjects) ==
    /\ rule.expression # None
    /\ LET sizes == Collections(rule, s, subjects)
       IN  \E n \in DOMAIN rule.expression : sizes[n] < rule.expression[n]

Run(rule, s, facts) ==
    LET collected == Collect(rule, s, FALSE)
        subjects == collected.subjects
        triggered == Len(SelectSeq(subjects, LAMBDA x : x.triggered))
        depends == rule.then.dependency # None
        needs == Dependencies(rule, s, subjects, facts.projects)
        sources == {Source(rule.sources[n]) : n \in DOMAIN rule.sources}
        ready == /\ Requirements(rule, facts) /\ collected.known
                 /\ \A x \in sources : Requirements(x, facts) /\ Collect(x, s, TRUE).known
        total(what, broken) == IF broken THEN {Finding(what, None, None)} ELSE {}
    IN  IF ~ready \/ (depends /\ ~needs.known) THEN [blocked |-> TRUE, found |-> {}]
        ELSE [blocked |-> FALSE,
              found |-> UNION {Violations(rule, x) : x \in ToSet(subjects)}
                \cup (IF AllFiles(rule) THEN Inventory(rule, s, subjects) ELSE {})
                \cup (IF depends THEN needs.found ELSE {})
                \cup total("minCount", /\ ~AllFiles(rule) /\ rule.then.minCount # None
                                       /\ triggered < rule.then.minCount)
                \cup total("maxCount", rule.then.maxCount # None /\ triggered > rule.then.maxCount)
                \cup total("expression", Fails(rule, s, subjects))]

-----------------------------------------------------------------------------
(* What an accepted rule finds where it is not blocked is what it owes:     *)
(* every test that triggers it, or that was or is declared, every comment   *)
(* in excess of those there were, every file it is about.                  *)
Excess(rule, file, t) ==
    LET count(seq) == Cardinality({i \in DOMAIN seq : seq[i] = t})
    IN  IF ChangeOf(rule) = "any" THEN count(file.comments) > 0 ELSE count(file.comments) > count(file.before)
Owed(rule, s) ==
    LET seen == {p \in DOMAIN s.files : Included(s, p) /\ Matches(rule, p)}
        changed == {p \in seen \cap DOMAIN s.changes : Language[p] # None}
        tests(p) == {t \in ToSet(s.files[p].tests) :
            (ChangeOf(rule) \in {"any", t.kind} /\ (rule.scope = "ai_only" => t.ai))}
        bound(p) == {t \in ToSet(s.files[p].tests) : t \in tests(p) \/ t.earlier # None \/ t.now # None}
        wrong(w, text) == rule.then[w] # None /\ (text \in rule.then[w]) = (w = "forbid")
        of(p) ==
            IF rule.entity = "test_method"
            THEN {Finding(w[1], p, w[2].id) : w \in
                    {v \in {"name", "forbid", "require"} \X tests(p) : wrong(v[1], v[2].text)}}
                   \cup {Finding("marker", p, t.id) : t \in {u \in bound(p) :
                            rule.then.marker /\ (u.now = None \/ ~(rule.marker.fields \subseteq u.now))}}
            ELSE {Finding(w[1], p, w[2]) : w \in
                    {v \in {"name", "forbid", "require"} \X ToSet(s.files[p].comments) :
                       wrong(v[1], v[2]) /\ Excess(rule, s.files[p], v[2])}}
    IN  UNION {of(p) : p \in changed}
OneByOne == {"name", "forbid", "require", "marker"}
FindsWhatIsOwed(rule, s, facts) ==
    LET out == Run(rule, s, facts)
        texts == {f \in out.found : f.what \in OneByOne}
    IN  Valid(rule) /\ ~out.blocked /\ rule.entity \in {"test_method", "comment", "import"} =>
          texts = Owed(rule, s)

(* A run narrowed to some files finds in them what the whole run finds, and *)
(* is not blocked where the whole run is not; a rule on the number or the   *)
(* size of the files there are counts unchanged files too; and a fact that *)
(* is missing never lets a rule through that the fact would stop.          *)
NarrowingRight(rule, s, facts) ==
    LET whole == Run(rule, [s EXCEPT !.filter = ToSet(Order)], facts)
        narrow == Run(rule, s, facts)
        everywhere == Run(rule, [s EXCEPT !.delivery = FALSE], facts)
        less == {[facts EXCEPT !.provenance = FALSE], [facts EXCEPT !.git = FALSE]}
        totals(out) == {f \in out.found : f.what \in {"minCount", "maxCount", "maxWords"}}
        local(out) == {f \in out.found : f.path # None /\ f.what # "required"}
    IN  Valid(rule) =>
          /\ narrow.blocked => whole.blocked
          /\ ~whole.blocked => local(narrow) = {f \in local(whole) : f.path \in s.filter}
          /\ AllFiles(rule) => totals(narrow) = totals(everywhere)
          /\ \A fewer \in less : LET out == Run(rule, s, fewer) IN out.blocked \/ out = narrow
=============================================================================

----------------------------- MODULE TestLineage -----------------------------
(***************************************************************************)
(* Which test became which.  Tests of the changed files are matched across *)
(* a change; from the matching, a signed record of agent runs is replayed  *)
(* into the runs that took part in each test, and a Git history into the   *)
(* commits that last changed its bytes.                                    *)
(*                                                                         *)
(* A tree is as in SnapshotView, a file's text the sequence of its tests,  *)
(* a test a record of its symbol, its body (what the body digest covers),  *)
(* its annotations and its form (the rest of its bytes).  A test's place   *)
(* in its file stands for its lines, equality of trees for that of their   *)
(* digests.  Signatures, formats and budgets are left out.                 *)
(***************************************************************************)
LOCAL INSTANCE Naturals
LOCAL INSTANCE Sequences
LOCAL INSTANCE FiniteSets
LOCAL INSTANCE FiniteSetsExt
LOCAL INSTANCE SequencesExt
LOCAL INSTANCE TLC

CONSTANTS
    Files,       \* the paths in a language the parser knows, in lexical order
    Language,    \* [paths -> languages]; a change is parsed by its new path's language,
                 \* so a move out of these paths takes its earlier tests out too
    Contents,    \* the texts of files
    None         \* no file, no earlier test, no declaration

Trees == INSTANCE SnapshotView WITH
    Order <- Files, NoText <- None, Diff <- [pair \in (Contents \cup {None}) \X Contents |-> {}],
    Sources <- {}, Tests <- {}, Support <- {}, Guarded <- {}, BatchFiles <- 1, BatchBytes <- 1

Empty == [p \in {} |-> None]
Entity(path, at, test) == [path |-> path, at |-> at, test |-> test]
In(tree, paths) ==
    FlattenSeq([i \in DOMAIN Files |->
        IF Files[i] \in paths \cap DOMAIN tree
        THEN [at \in DOMAIN tree[Files[i]].text |-> Entity(Files[i], at, tree[Files[i]].text[at])]
        ELSE <<>>])

-----------------------------------------------------------------------------
(* Matching.  Surviving symbols are reserved first, then tests that moved  *)
(* with their name, then bodies; each takes the first one left.            *)
BySymbol(es) == [n \in DOMAIN es |-> <<Language[es[n].path], es[n].path, es[n].test.symbol>>]
ByNamedBody(es) == [n \in DOMAIN es |-> <<Language[es[n].path], es[n].test.symbol, es[n].test.body>>]
BodyOf(e) == <<Language[e.path], e.test.body>>
ByBody(es) == [n \in DOMAIN es |-> BodyOf(es[n])]

Unmatched == [match |-> <<>>, ambiguous |-> {}]
Pass(keys, olds, found) ==
    FoldLeftDomain(LAMBDA so, n :
        LET used == {so.match[m] : m \in DOMAIN so.match}
            left == {o \in DOMAIN olds \ used : olds[o] = keys[n]}
        IN  IF n \in DOMAIN so.match \/ left = {} THEN so
            ELSE [match |-> (n :> Min(left)) @@ so.match,
                  ambiguous |-> so.ambiguous \cup (IF Cardinality(left) > 1 THEN {n} ELSE {})],
        found, keys)

Kind(new, old, direct) ==
    CASE old = None -> "added"
      [] old # None /\ ~direct -> "renamed"
      [] old # None /\ direct /\ (old.test.body # new.test.body \/ old.test.marks # new.test.marks)
           -> "modified"
      [] OTHER -> "unchanged"

(* The changed files' tests, each with what it was before.                 *)
Olds(before, changes) == In(before, {changes[p].old : p \in DOMAIN changes})
Analyze_MovesFirst(before, after) ==
    LET changes == Trees!Compare(before, after)
        news == In(after, DOMAIN changes)
        olds == Olds(before, changes)
        moved == Pass(ByNamedBody(news), ByNamedBody(olds), Unmatched)
        final == Pass(BySymbol(news), BySymbol(olds), moved)
        old(n) == IF n \in DOMAIN final.match THEN olds[final.match[n]] ELSE None
    IN  [n \in DOMAIN news |->
           [entity |-> news[n], previous |-> old(n), ambiguous |-> n \in final.ambiguous,
            kind |-> Kind(news[n], old(n), n \notin DOMAIN moved.match)]]

Analyze(before, after) ==
    LET changes == Trees!Compare(before, after)
        news == In(after, DOMAIN changes)
        olds == Olds(before, changes)
        surviving == Pass(BySymbol(news), BySymbol(olds), Unmatched)
        moved == Pass(ByNamedBody(news), ByNamedBody(olds), surviving)
        final == Pass(ByBody(news), ByBody(olds), moved)
        old(n) == IF n \in DOMAIN final.match THEN olds[final.match[n]] ELSE None
    IN  [n \in DOMAIN news |->
           [entity |-> news[n], previous |-> old(n), ambiguous |-> n \in final.ambiguous,
            kind |-> Kind(news[n], old(n), n \in DOMAIN surviving.match)]]

-----------------------------------------------------------------------------
(* Replaying a record of runs.  A step is [run, input, edits, output]: the *)
(* trees it claims and, by path, what each file was and became.  A record  *)
(* that does not fit, or whose lineage is ambiguous, is refused: None.     *)
Apply(tree, edits) ==
    [p \in {q \in DOMAIN tree \cup DOMAIN edits : q \in DOMAIN edits => edits[q].after # None} |->
       IF p \in DOMAIN edits THEN edits[p].after ELSE tree[p]]
StepFits(step, runs, state) ==
    /\ step.run \in runs /\ step.input = state /\ step.output = Apply(state, step.edits)
    /\ \A p \in DOMAIN step.edits :
         /\ step.edits[p].before = IF p \in DOMAIN state THEN state[p] ELSE None
         /\ step.edits[p].after # step.edits[p].before

(* Who took part in the tests of the state a step leaves.                  *)
Took(origins, e) == IF e \in DOMAIN origins THEN origins[e] ELSE {}
Edited_Kind(change) == change.kind # "unchanged"

Edited(change) == change.kind # "unchanged" \/ change.previous.test # change.entity.test

Participation(origins, step, state, analysis) ==
    LET kept == {e \in DOMAIN origins : e.path \notin DOMAIN step.edits}
        of(change) ==
            (IF change.previous = None THEN {} ELSE Took(origins, change.previous))
              \cup (IF Edited(change) THEN {step.run} ELSE {})
        changed == {analysis[n].entity : n \in DOMAIN analysis}
        at(e) == CHOOSE n \in DOMAIN analysis : analysis[n].entity = e
    IN  [e \in kept \cup changed |-> IF e \in changed THEN of(analysis[at(e)]) ELSE origins[e]]

Replay(steps, runs, base, head) ==
    LET Next(so, step) ==
            LET analysis == Analyze(so.state, step.output)
            IN  IF \/ ~so.fits \/ ~StepFits(step, runs, so.state)
                   \/ \E n \in DOMAIN analysis : analysis[n].ambiguous
                THEN [so EXCEPT !.fits = FALSE]
                ELSE [fits |-> TRUE, state |-> step.output,
                      origins |-> Participation(so.origins, step, so.state, analysis)]
        end == FoldLeft(Next, [fits |-> TRUE, state |-> base, origins |-> Empty], steps)
    IN  IF end.fits /\ end.state = head /\ {s.run : s \in ToSet(steps)} = runs
        THEN end.origins ELSE None

-----------------------------------------------------------------------------
(* Git.  A commit is [oid, parents, tree]; a test's origins are the commits *)
(* that last changed its bytes, Local for a change not committed.          *)
(* Unchanged gives, by test of a tree, the origins it inherits from one    *)
(* earlier tree, None where it is new or changed there.                    *)
Local == 0
Unchanged(before, after, previous, local) ==
    LET analysis == Analyze(before, after)
        changes == Trees!Compare(before, after)
        kept == {e \in DOMAIN previous : e.path \in DOMAIN after \ DOMAIN changes}
        changed == {analysis[n].entity : n \in DOMAIN analysis}
        at(e) == CHOOSE n \in DOMAIN analysis : analysis[n].entity = e
        of(change) ==
            IF /\ change.previous # None
               /\ ~(local /\ change.kind = "renamed")
               /\ change.previous.test = change.entity.test
            THEN previous[change.previous] ELSE None
    IN  [fits |-> \A n \in DOMAIN analysis : ~analysis[n].ambiguous,
         origins |-> [e \in kept \cup changed |->
                        IF e \in changed THEN of(analysis[at(e)]) ELSE previous[e]]]

Merged_First(commit, earlier) ==
    LET parent == Min(commit.parents)
        inherited == IF commit.parents = {} THEN Unchanged(Empty, commit.tree, Empty, FALSE)
                     ELSE Unchanged(earlier[parent].tree, commit.tree, earlier[parent].origins, FALSE)
    IN  [fits |-> inherited.fits, tree |-> commit.tree,
         origins |-> [e \in DOMAIN inherited.origins |->
                        IF inherited.origins[e] = None THEN {commit.oid} ELSE inherited.origins[e]]]

Merged(commit, earlier) ==
    LET parents == IF commit.parents = {} THEN {[tree |-> Empty, origins |-> Empty]}
                   ELSE {earlier[p] : p \in commit.parents}
        inherited == {Unchanged(p.tree, commit.tree, p.origins, FALSE) : p \in parents}
        sets(e) == {i.origins[e] : i \in {j \in inherited : e \in DOMAIN j.origins}} \ {None}
        tests == UNION {DOMAIN i.origins : i \in inherited}
    IN  [fits |-> \A i \in inherited : i.fits,
         tree |-> commit.tree,
         origins |-> [e \in tests |-> IF sets(e) = {} THEN {commit.oid} ELSE UNION sets(e)]]

(* The commits, in the order given, each after its parents and only once.  *)
History(commits) ==
    FoldLeft(LAMBDA so, commit :
        LET known == so.known
            merged == Merged(commit, known)
        IN  IF ~so.fits \/ ~(commit.parents \subseteq DOMAIN known) \/ commit.oid \in DOMAIN known
            THEN [so EXCEPT !.fits = FALSE]
            ELSE [fits |-> merged.fits, known |-> (commit.oid :> merged) @@ known],
        [fits |-> TRUE, known |-> Empty], commits)

(* The tests checked, and those of the base, with their origins; None when *)
(* the history does not reproduce the two trees of the comparison.         *)
GitFacts(commits, base, baseFiles, head, files, committed) ==
    LET history == History(commits)
        known == history.known
        now == Unchanged(known[head].tree, files, known[head].origins, TRUE)
    IN  IF /\ history.fits /\ {base, head} \subseteq DOMAIN known
           /\ known[base].tree = baseFiles
           /\ committed => known[head].tree = files
           /\ now.fits
        THEN [current |-> [e \in DOMAIN now.origins |->
                             IF now.origins[e] = None THEN {Local} ELSE now.origins[e]],
              baseline |-> known[base].origins]
        ELSE None

(* What the commits behind a test declare: the first that has not one value *)
(* decides; else all of them must be complete.                             *)
Declaration(origins, trailers) ==
    LET values(c) == IF c = Local THEN <<>> ELSE trailers[c]
        open == {c \in origins : Len(values(c)) # 1 \/ values(c) = <<"blank">>}
    IN  CASE open # {} -> IF Len(values(Min(open))) > 1 THEN "refused" ELSE "none"
          [] open = {} /\ (\E c \in origins : values(c) # <<"full">>) -> "incomplete"
          [] OTHER -> "declared"

-----------------------------------------------------------------------------
(* A test is matched once, stays with its own name, and is new only when    *)
(* no earlier test of its language and body is left; and where no match was *)
(* a choice, the order of the tests in the earlier files says nothing.      *)
MatchingRight(before, after) ==
    LET changes == Trees!Compare(before, after)
        analysis == Analyze(before, after)
        olds == ToSet(Olds(before, changes))
        taken == {analysis[n].previous : n \in DOMAIN analysis} \ {None}
        turned == [p \in DOMAIN before |-> [before[p] EXCEPT !.text = Reverse(@)]]
        seen(found) == [n \in DOMAIN found |->
            IF found[n].previous = None THEN <<found[n].kind, None, None>>
            ELSE <<found[n].kind, found[n].previous.path, found[n].previous.test>>]
    IN  /\ taken \subseteq olds
        /\ \A n, m \in DOMAIN analysis : n # m =>
             analysis[n].previous = None \/ analysis[n].previous # analysis[m].previous
        /\ \A n \in DOMAIN analysis : LET new == analysis[n].entity IN
             /\ (\E o \in olds : o.path = new.path /\ o.test.symbol = new.test.symbol
                   /\ ~\E m \in DOMAIN analysis : m # n /\ analysis[m].previous = o)
                => analysis[n].kind \in {"modified", "unchanged"}
             /\ analysis[n].kind = "added" =>
                  ~\E o \in olds \ taken : BodyOf(o) = BodyOf(new)
        /\ (/\ \A n \in DOMAIN analysis : ~analysis[n].ambiguous
            /\ Trees!Compare(turned, after) = changes)
           => seen(Analyze(turned, after)) = seen(analysis)

(* A replayed record credits a test's newest bytes to the run whose step    *)
(* put them there, credits nobody for files no step touched, and, where no  *)
(* test ever changes its file, credits exactly the runs that wrote it since *)
(* it last appeared.                                                        *)
Tests(tree) == ToSet(In(tree, DOMAIN tree))
Places(tree) == {[path |-> e.path, test |-> e.test] : e \in Tests(tree)}
Names(tree) == {<<e.path, e.test.symbol>> : e \in Tests(tree)}
TextOf(tree, name) == {e.test : e \in {d \in Tests(tree) : <<d.path, d.test.symbol>> = name}}
ReplayRight(steps, runs, base, head) ==
    LET origins == Replay(steps, runs, base, head)
        changesAt(i) == Analyze(steps[i].input, steps[i].output)
        settled == \A i \in DOMAIN steps : \A n \in DOMAIN changesAt(i) :
            changesAt(i)[n].kind # "renamed"
        lastSince(e) == {i \in DOMAIN steps :
            [path |-> e.path, test |-> e.test] \in Places(steps[i].output) \ Places(steps[i].input)}
        born(e) == {i \in DOMAIN steps : <<e.path, e.test.symbol>> \notin Names(steps[i].input)}
        from(e) == IF born(e) = {} THEN 1 ELSE Max(born(e))
    IN  origins # None =>
        /\ \A e \in DOMAIN origins :
             \/ lastSince(e) # {} /\ steps[Max(lastSince(e))].run \in origins[e]
             \/ lastSince(e) = {} /\ \E i \in DOMAIN steps : e.path \in DOMAIN steps[i].edits
        /\ Tests(head) \ DOMAIN origins \subseteq Tests(base)
        /\ settled => \A e \in DOMAIN origins :
             LET name == <<e.path, e.test.symbol>>
             IN  origins[e] = {steps[i].run : i \in {j \in from(e) .. Len(steps) :
                                 TextOf(steps[j].input, name) # TextOf(steps[j].output, name)}}

(* In a history a test's origins are the commits that introduced its bytes, *)
(* on every side of a merge that has them; a local change, a move included, *)
(* has no commit; and a test is declared only if each of its commits says   *)
(* so completely.                                                           *)
Texts(tree) == {e.test : e \in Tests(tree)}
GitRight(commits, works, sayings) ==
    LET last == Last(commits)
        history == History(commits)
        facts(files) == GitFacts(commits, commits[1].oid, commits[1].tree, last.oid, files, FALSE)
        commit(oid) == CHOOSE c \in ToSet(commits) : c.oid = oid
        older == [c \in {k.oid : k \in ToSet(commits)} |-> commit(c).parents]
        behind(oid, test) ==     \* through parents that hold the test
            FoldLeft(LAMBDA so, n :
                so \cup {p \in UNION {older[c] : c \in so} : test \in Texts(commit(p).tree)},
                {oid}, commits)
        first(oid, test) == {c \in behind(oid, test) :
            ~\E p \in older[c] : test \in Texts(commit(p).tree)}
    IN  /\ history.fits => \A oid \in DOMAIN history.known :
             LET known == history.known[oid] IN
             /\ DOMAIN known.origins = Tests(known.tree)
             /\ \A e \in DOMAIN known.origins : known.origins[e] = first(oid, e.test)
        /\ \A files \in works : LET found == facts(files) IN
             found # None => \A e \in DOMAIN found.current :
               /\ (Local \in found.current[e]) =
                    ([path |-> e.path, test |-> e.test] \notin Places(last.tree))
               /\ \A trailers \in sayings : Declaration(found.current[e], trailers) = "declared" =>
                    \A c \in found.current[e] : c # Local /\ trailers[c] = <<"full">>
=============================================================================

----------------------------- MODULE SnapshotView -----------------------------
(***************************************************************************)
(* What is computed from a captured pair of trees: the changes between     *)
(* them, the files and diagnostics a scope selects, the overlay of new     *)
(* tests on the old sources, the batches objects are read in, and the      *)
(* metadata preflight that predicts whether a capture fits its budgets.    *)
(*                                                                         *)
(* A tree is a function from some paths to files, a file a record of its   *)
(* text and its executable bit.                                            *)
(***************************************************************************)
EXTENDS Naturals, Sequences, FiniteSets, FiniteSetsExt, SequencesExt, Functions

CONSTANTS
    Order,       \* the paths, in lexical order
    Diff,        \* [<<old, new>> -> set of added lines], the diff library
    NoText,      \* what an absent file is compared as
    Sources,     \* test effectiveness: source_paths,
    Tests,       \*   test_paths,
    Support,     \*   support_paths,
    Guarded,     \*   protected paths and build inputs
    BatchFiles,  \* BATCH_FILES
    BatchBytes   \* BATCH_BYTES

Paths == ToSet(Order)
In(tree) == SelectSeq(Order, LAMBDA p : p \in DOMAIN tree)
Text(tree, p) == IF p \in DOMAIN tree THEN tree[p].text ELSE NoText
Same(a, b, p) == IF p \in DOMAIN a /\ p \in DOMAIN b THEN a[p] = b[p]
                 ELSE p \notin DOMAIN a \cup DOMAIN b
-----------------------------------------------------------------------------
(* changes::compare_until *)

Change(kind, old, added) == [kind |-> kind, old |-> old, added |-> added]

\* The first base-only path, in lexical order, that still has these bytes and
\* that no earlier new file of the head consumed
MovedFrom(base, head, p, taken) ==
    SelectSeq(In(base), LAMBDA q : /\ q \notin DOMAIN head \cup taken
                                   /\ base[q].text = head[p].text)

ChangeOf(base, head, p, taken) ==
    LET moved == MovedFrom(base, head, p, taken) IN
    IF p \in DOMAIN base
    THEN Change("modified", p, Diff[<<base[p].text, head[p].text>>])
    ELSE IF moved # <<>> THEN Change("renamed", Head(moved), {})
    ELSE Change("added", NoText, Diff[<<NoText, head[p].text>>])

\* One pass over the head, in order; `acc' carries the changes so far
Forward(base, head) ==
    LET taken(acc) == {acc[q].old : q \in {r \in DOMAIN acc : acc[r].kind = "renamed"}}
        step(p, acc) == IF Same(base, head, p) THEN acc
                        ELSE acc @@ (p :> ChangeOf(base, head, p, taken(acc)))
    IN FoldSeq(step, [p \in {} |-> NoText], Reverse(In(head)))

Compare(base, head) ==
    LET there == Forward(base, head)
        renamed == {there[p].old : p \in {q \in DOMAIN there : there[q].kind = "renamed"}}
        gone == DOMAIN base \ (DOMAIN head \cup renamed)
    IN there @@ [p \in gone |-> Change("deleted", p, {})]

-----------------------------------------------------------------------------
(* Snapshot::includes, feedback_includes and selects_diagnostic *)

\* `filter' is the set of paths under the path filter
Includes(changes, delivery, filter, p) ==
    /\ delivery => \/ p \in DOMAIN changes
                   \/ \E q \in DOMAIN changes : changes[q].old = p
    /\ p \in filter

\* The change looked up for a file: its own, or the first that came from it
ChangeFor(changes, p) ==
    IF p \in DOMAIN changes THEN changes[p]
    ELSE changes[Head(SelectSeq(In(changes), LAMBDA q : changes[q].old = p))]

SelectsDiagnostic(changes, delivery, filter, p, range) ==
    /\ Includes(changes, delivery, filter, p)
    /\ delivery => (ChangeFor(changes, p).added \cap range # {})

-----------------------------------------------------------------------------
(* test_overlay::prepare: the base with the head's tests and fixtures *)

Overlaid == Tests \cup Support

\* The checks of the loop over every path, any of which refuses the overlay
OverlayRefused(base, head, filter) ==
    LET all == DOMAIN base \cup DOMAIN head IN
    \/ \E p \in all : p \in Sources /\ p \in Overlaid
    \/ \E p \in all : p \in Overlaid \cap Guarded /\ ~Same(base, head, p)
    \/ all \cap Sources \cap filter = {}

Prepare(base, head, delivery, filter) ==
    LET changes == Compare(base, head)
        differs == {p \in DOMAIN base \cup DOMAIN head : ~Same(base, head, p)}
        included(p) == Includes(changes, delivery, filter, p)
        overlay == differs \cap Overlaid
    IN [ok |-> ~OverlayRefused(base, head, filter),
        sourceChanged |-> \E p \in differs \cap Sources \cap filter : included(p),
        tests |-> {p \in Tests \cap DOMAIN head :
                      /\ included(p) /\ p \in DOMAIN changes
                      /\ changes[p].kind # "renamed"
                      /\ Text(head, p) # Text(base, p)},
        overlay |-> overlay,
        files |-> [p \in (DOMAIN base \ overlay) \cup (DOMAIN head \cap overlay) |->
                      IF p \in overlay THEN head[p] ELSE base[p]]]

\* snapshot::baseline: the base, examined as if it were the head
Baseline(base) == [files |-> base, base |-> base, changes |-> [p \in {} |-> NoText]]

-----------------------------------------------------------------------------
(* git::batches *)

RECURSIVE Batches(_, _, _)
Batches(sizes, batch, bytes) ==
    IF sizes = <<>> THEN IF batch = <<>> THEN <<>> ELSE <<batch>>
    ELSE LET size == Head(sizes)
             full == batch # <<>> /\ (Len(batch) = BatchFiles \/ bytes + size > BatchBytes)
         IN IF full THEN <<batch>> \o Batches(Tail(sizes), <<size>>, size)
            ELSE Batches(Tail(sizes), Append(batch, size), bytes + size)

-----------------------------------------------------------------------------
(* The metadata preflights and the listings the capture reads              *)

\* A listed entry is [bytes, mode, stage, object]: a file, a link or gone from
\* the worktree; its stage in the index; whether its object is a blob.  The
\* policy, [excluded, protected], says which paths are left out.

SumOf(f, S) == MapThenSumSet(LAMBDA p : f[p], S)

\* What selected_preflight makes of an entry of each kind of side
Unsupported(entry, side) ==
    CASE side = "commit" -> entry.mode # "file"
      [] side = "index" -> entry.stage # 0 \/ entry.mode # "file" \/ ~entry.object
      [] side = "worktree" -> entry.mode \notin {"file", "gone"}
Weight(entry, side) ==
    CASE side = "commit" -> IF entry.mode = "link" THEN 0 ELSE entry.bytes
      [] side = "index" -> IF entry.object THEN entry.bytes ELSE 0
      [] side = "worktree" -> IF entry.mode = "file" THEN entry.bytes ELSE 0

Summarize(entries, side, policy, limits) ==
    LET names == DOMAIN entries
        kept == names \ policy.excluded
        bytes == [p \in names |-> Weight(entries[p], side)]
    IN [fileCount |-> Cardinality(names),
        totalBytes |-> SumOf(bytes, kept),
        oversized |-> {p \in kept : bytes[p] > limits.file},
        unsupported |-> {p \in kept : Unsupported(entries[p], side)},
        excluded |-> names \ kept,
        protectedExclusions |-> (names \ kept) \cap policy.protected]

\* SnapshotBudget::ready
Ready(budget, limits) ==
    /\ budget.fileCount <= limits.files /\ budget.totalBytes <= limits.bytes
    /\ budget.oversized = {} /\ budget.unsupported = {}
    /\ budget.protectedExclusions = {}

\* Plausible bug: only the entries that are kept count as files.
ListingFits_Kept(entries, side, policy, limits) ==
    LET kept == DOMAIN entries \ policy.excluded
        size(p) == IF entries[p].mode = "gone" THEN 0 ELSE entries[p].bytes
    IN /\ Cardinality(kept) <= limits.files
       /\ \A p \in kept :
             /\ IF side = "worktree" THEN entries[p].mode \in {"file", "gone"}
                ELSE entries[p].mode = "file" /\ entries[p].stage = 0 /\ entries[p].object
             /\ size(p) <= limits.file
       /\ MapThenSumSet(size, kept) <= limits.bytes

\* git::entries, header and batches, worktree::read: every way the capture of
\* one side is refused
ListingFits(entries, side, policy, limits) ==
    LET kept == DOMAIN entries \ policy.excluded
        size(p) == IF entries[p].mode = "gone" THEN 0 ELSE entries[p].bytes
    IN /\ Cardinality(DOMAIN entries) <= limits.files
       /\ \A p \in kept :
             /\ IF side = "worktree" THEN entries[p].mode \in {"file", "gone"}
                ELSE entries[p].mode = "file" /\ entries[p].stage = 0 /\ entries[p].object
             /\ size(p) <= limits.file
       /\ MapThenSumSet(size, kept) <= limits.bytes

\* The inventory of exclusions is shared by both listings and is bounded too;
\* acquisition::validate_excluded then looks for protected paths in it.
CaptureFits(base, target, side, policy, limits) ==
    LET excluded == (DOMAIN base \cup DOMAIN target) \cap policy.excluded IN
    /\ ListingFits(base, "commit", policy, limits)
    /\ ListingFits(target, side, policy, limits)
    /\ Cardinality(excluded) <= limits.files
    /\ excluded \cap policy.protected = {}

\* preflight::inspect_inner, the advice of init: HEAD and the worktree at once,
\* a path by its larger size; total budgets are not looked at.
Advice(head, work, policy, limits) ==
    LET kept(tree) == DOMAIN tree \ policy.excluded
        all == kept(head) \cup kept(work)
        sized(tree, p) == IF p \in kept(tree) /\ tree[p].mode = "file" THEN tree[p].bytes ELSE 0
    IN [ok |-> (DOMAIN head \cup DOMAIN work) \cap policy.excluded \cap policy.protected = {},
        oversized |-> {p \in all : sized(head, p) > limits.file \/ sized(work, p) > limits.file},
        unsupported |-> {p \in kept(head) : head[p].mode # "file"}
                        \cup {p \in kept(work) : work[p].mode \notin {"file", "gone"}}]

-----------------------------------------------------------------------------
(* application::delivery::check and delivery::export *)

\* A check whose input may be exported at all
Exportable(options) ==
    /\ options.profile = "full" /\ options.scope = "delivery"
    /\ ~options.filtered /\ options.selection # "path"

Exported(options, report) ==
    /\ Exportable(options)
    /\ report.complete /\ report.decision = "pass" /\ report.pending = {}
    /\ report.scope \in {"delivery", "task"}

-----------------------------------------------------------------------------
(* What these computations promise *)

Kind(changes, k) == {p \in DOMAIN changes : changes[p].kind = k}

\* The changes account for the whole difference of two trees and nothing else:
\* undoing them turns the head's paths into the base's, a moved file is used
\* once and as often as it can be, and a file appears if and only if its bytes
\* or its mode differ (changes.rs:31-132).
AccountsForDifference(base, head) ==
    LET changes == Compare(base, head)
        renamed == Kind(changes, "renamed")
        from == {changes[p].old : p \in renamed}
        only(a, b, t) == Cardinality({p \in DOMAIN a \ DOMAIN b : a[p].text = t})
    IN /\ DOMAIN changes \ Kind(changes, "deleted") = {p \in DOMAIN head : ~Same(base, head, p)}
       /\ Kind(changes, "deleted") = DOMAIN base \ (DOMAIN head \cup from)
       /\ from \subseteq DOMAIN base \ DOMAIN head
       /\ \A t \in {head[p].text : p \in DOMAIN head} :
             LET moved == {p \in renamed : head[p].text = t} IN
             /\ Cardinality(moved) = Cardinality({changes[p].old : p \in moved})
             /\ Cardinality(moved) =
                   LET new == only(head, base, t) old == only(base, head, t)
                   IN IF new < old THEN new ELSE old
       /\ \A p \in renamed : base[changes[p].old].text = head[p].text

\* In delivery scope a finding counts only on an added line of a file the
\* delivery changed (mod.rs:354-404).
SelectsDelivered(base, head, filter) ==
    LET changes == Compare(base, head) IN
    \A p \in Paths, line \in UNION Range(Diff) :
        SelectsDiagnostic(changes, TRUE, filter, p, {line}) =>
            p \in filter \cap DOMAIN changes /\ line \in changes[p].added

\* The overlay differs from the base in tests and fixtures alone, has the
\* head's version of every one of them, replaces nothing protected, and runs
\* only tests whose text is new (test_overlay.rs:25-133).
OverlayIsTestsOnly(base, head, delivery, filter) ==
    LET ready == Prepare(base, head, delivery, filter) IN
    ready.ok =>
        /\ \A p \in Paths : Same(ready.files, IF p \in Overlaid THEN head ELSE base, p)
        /\ \A p \in Paths \cap Guarded : Same(ready.files, base, p)
        /\ \A p \in ready.tests : /\ Text(ready.files, p) = Text(head, p)
                                  /\ Text(base, p) # Text(head, p)

\* A pair of inventories the preflight calls ready is one the capture accepts,
\* and conversely, but for the inventory of exclusions: only the capture bounds
\* the union of both sides (selected_preflight.rs:253-339, limits.rs:117-134).
\* And a capture of HEAD and the worktree that init's advice finds no obstacle
\* for can fail on nothing but a count or a total (preflight.rs:66-97).
PredictsCapture(base, target, side, policy, limits) ==
    LET ready == /\ Ready(Summarize(base, "commit", policy, limits), limits)
                 /\ Ready(Summarize(target, side, policy, limits), limits)
        excluded == (DOMAIN base \cup DOMAIN target) \cap policy.excluded
        advice == Advice(base, target, policy, limits)
        boundless == [limits EXCEPT !.files = 9, !.bytes = 99]
    IN /\ CaptureFits(base, target, side, policy, limits) <=>
              ready /\ Cardinality(excluded) <= limits.files
       /\ side = "worktree" =>
              (CaptureFits(base, target, side, policy, boundless) <=>
                  advice.ok /\ advice.oversized = {} /\ advice.unsupported = {})

\* The batches read every object once, in order, within the limits of one
\* process; only an object larger than a batch is read alone (git.rs:173-218).
BatchesCover(sizes) ==
    LET cut == Batches(sizes, <<>>, 0)
        sum(s) == FoldSeq(LAMBDA x, y : x + y, 0, s)
    IN /\ FlattenSeq(cut) = sizes
       /\ \A i \in DOMAIN cut :
             /\ Len(cut[i]) \in 1..BatchFiles
             /\ sum(cut[i]) <= BatchBytes \/ Len(cut[i]) = 1
=============================================================================

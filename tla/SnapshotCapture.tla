--------------------------- MODULE SnapshotCapture ---------------------------
(***************************************************************************)
(* How a check acquires its input.  The policy is read first, on its own,  *)
(* because its exclusions decide what the capture may leave out; then the  *)
(* references are resolved, the base and the target are read, and the      *)
(* policy is loaded again, this time from what was captured.  Meanwhile    *)
(* the user edits files, stages them and moves references: none of the     *)
(* reads holds a lock.                                                     *)
(*                                                                         *)
(* A path has one of a few versions.  A version of the configuration       *)
(* stands for a policy, a version of the rule file for the document that   *)
(* rule cites, and every version has a size.  A version larger than        *)
(* MaxFile stands for any entry the readers refuse.                        *)
(***************************************************************************)
EXTENDS Naturals

CONSTANTS
    Commit,      \* commits, immutable
    TreeOf,      \* [Commit -> [Path -> Version]]
    Start,       \* the commit everything is at when the check begins
    Asked,       \* <<selection, policy source, whether a base is expected>>
    PolicyOf,    \* [Version -> policy], the configuration a version parses to
    DocumentOf,  \* [Version -> Path], the document a version of the rule cites
    SizeOf,      \* [Version -> Nat]
    ActiveRule,  \* the version of the rule frozen in the active policy
    ActiveConfig,\* the version of the configuration frozen in it
    Jobs,        \* worktree readers
    MaxFile,     \* --snapshot-max-file-mib
    MaxBytes,    \* --snapshot-max-mib
    MaxEdits     \* bound: edits of the user during one acquisition

Cfg  == "cfg"     \* the configuration
Rule == "rule"    \* the file of the project rules directory
Src  == "src"
Doc  == "doc"     \* the one path with a document suffix
Path == {Cfg, Rule, Src, Doc}
Order == [cfg |-> 1, doc |-> 2, rule |-> 3, src |-> 4]  \* listings are sorted

Absent  == 0
Version == DOMAIN SizeOf
Held    == Version \cup {Absent}
Tree    == [Path -> Held]

ASSUME CaptureAssumption ==
    /\ SizeOf \in [Version -> Nat] /\ Absent \notin Version
    /\ TreeOf \in [Commit -> Tree] /\ Start \in Commit
    /\ Jobs \in Nat /\ MaxFile \in Nat /\ MaxBytes \in Nat

NoBase  == "none"
Idle    == [at |-> "idle"]

VARIABLES
    repo,      \* worktree, index and references, the user's to change
    edits,     \* edits so far
    ask,       \* selection, policy source, expected base and compared heads
    phase,
    boot,      \* the policy the capture was started with
    pins,      \* the resolved base and target
    base,      \* base_files, once read
    pending,   \* names the worktree readers have not taken
    readers,   \* [1..Jobs -> Idle or what the reader does]
    total,     \* bytes claimed by the readers
    stopped,   \* the readers' cancellation flag
    files,     \* the files of the target
    excluded,  \* the exclusion inventory, shared by both listings
    loaded,    \* the policy the check will evaluate
    held       \* ghost: what each path of the target held since the listing

vars == <<repo, edits, ask, phase, boot, pins, base, pending, readers, total,
          stopped, files, excluded, loaded, held>>

Nothing == [p \in {} |-> Absent]
NoPolicy == [policy |-> [exclude |-> {}, enabled |-> FALSE, retain |-> {}, rules |-> FALSE],
             protected |-> {}]
NoPins   == [base |-> NoBase, head |-> NoBase]
Unread   == [read |-> FALSE, files |-> Nothing]
Present(tree) == {p \in Path : tree[p] # Absent}
Size(fs, p) == IF p \in DOMAIN fs THEN SizeOf[fs[p]] ELSE 0
Bytes(fs) == Size(fs, Cfg) + Size(fs, Doc) + Size(fs, Rule) + Size(fs, Src)

-----------------------------------------------------------------------------
(* What a policy protects and what it leaves out *)

\* exclusions::protected_paths and policy::protected_paths
Protected(policy, rule) ==
    {Cfg} \cup (IF policy.rules THEN {Rule} ELSE {})
          \cup (IF policy.rules /\ rule # Absent THEN {DocumentOf[rule]} ELSE {})

LoadedPolicy(policy, rule) ==
    [policy |-> policy, protected |-> Protected(policy, rule)]

\* resource_exclusions::reason, with the default classifier enabled
Reason(p, with) ==
    IF p \in with.policy.exclude THEN "explicit"
    ELSE IF with.policy.enabled /\ p = Doc
            /\ p \notin with.policy.retain \cup with.protected
         THEN "unstructured" ELSE "kept"

Selected(names, with) == {p \in names : Reason(p, with) = "kept"}

\* Plausible bug: the protected paths are taken to follow from the exclusions.
SameExclusions_Lists(a, b) ==
    /\ a.policy.exclude = b.policy.exclude
    /\ a.policy.enabled = b.policy.enabled /\ a.policy.retain = b.policy.retain

\* The exclusion policy of two loaded policies is the same
SameExclusions(a, b) ==
    /\ a.policy.exclude = b.policy.exclude
    /\ a.policy.enabled = b.policy.enabled /\ a.policy.retain = b.policy.retain
    /\ a.protected = b.protected

WithinLimits(fs) ==
    /\ \A p \in DOMAIN fs : SizeOf[fs[p]] <= MaxFile
    /\ Bytes(fs) <= MaxBytes

Keep(tree, with) == [p \in Selected(Present(tree), with) |-> tree[p]]

-----------------------------------------------------------------------------
(* The user, between any two steps of an undecided check *)

Live == edits < MaxEdits /\ phase \notin {"accepted", "failed"}

Edit(p, v) ==
    /\ Live /\ repo.work[p] # v
    /\ repo' = [repo EXCEPT !.work[p] = v]
    /\ edits' = edits + 1
    /\ held' = IF phase \in {"read"} /\ ask.selection = "worktree"
               THEN [held EXCEPT ![p] = @ \cup {v}] ELSE held
    /\ UNCHANGED <<ask, phase, boot, pins, base, pending, readers, total,
                   stopped, files, excluded, loaded>>

Stage(p) ==
    /\ Live /\ repo.index[p] # repo.work[p]
    /\ repo' = [repo EXCEPT !.index[p] = repo.work[p]]
    /\ edits' = edits + 1
    /\ UNCHANGED <<ask, phase, boot, pins, base, pending, readers, total,
                   stopped, files, excluded, loaded, held>>

MoveRef(name, c) ==
    /\ Live /\ repo.refs[name] # c
    /\ repo' = [repo EXCEPT !.refs[name] = c]
    /\ edits' = edits + 1
    /\ UNCHANGED <<ask, phase, boot, pins, base, pending, readers, total,
                   stopped, files, excluded, loaded, held>>

User == \/ \E p \in Path : (\E v \in Held : Edit(p, v)) \/ Stage(p)
        \/ \E name \in DOMAIN repo.refs, c \in Commit : MoveRef(name, c)

-----------------------------------------------------------------------------
(* The bootstrap: acquisition::prepare *)

Fail == phase' = "failed" /\ stopped' = TRUE

\* The tree a bootstrap capture reads its bounded inputs from
BootstrapTree ==
    IF ask.source = "ref" THEN TreeOf[repo.refs.policy]
    ELSE CASE ask.selection = "worktree" -> repo.work
           [] ask.selection = "staged" -> repo.index
           [] ask.selection = "diff" -> TreeOf[repo.refs.head]
           [] ask.selection = "mr" -> TreeOf[IF ask.compared = NoPins
                                             THEN repo.refs.head ELSE ask.compared.head]

\* The first capture of a merge request resolves its comparison; later
\* captures of the same check are given it.
Compared(now) ==
    IF ask.selection = "mr" /\ ask.compared = NoPins
    THEN [base |-> now.base, head |-> now.head] ELSE ask.compared

BootstrapConfig ==
    /\ phase = "policy"
    /\ LET v == IF ask.source = "active" THEN ActiveConfig ELSE BootstrapTree[Cfg]
       IN IF v = Absent \/ Cfg \in PolicyOf[v].exclude
          THEN Fail /\ UNCHANGED <<boot, ask>>
          ELSE /\ boot' = LoadedPolicy(PolicyOf[v], Absent)
               /\ ask' = IF ask.source = "local"
                         THEN [ask EXCEPT !.compared = Compared(repo.refs)] ELSE ask
               /\ phase' = "rules" /\ UNCHANGED stopped
    /\ UNCHANGED <<repo, edits, pins, base, pending, readers, total, files,
                   excluded, loaded, held>>

BootstrapRules ==
    /\ phase = "rules"
    /\ boot' = LoadedPolicy(boot.policy,
                  IF ask.source = "active" THEN ActiveRule ELSE BootstrapTree[Rule])
    /\ phase' = "base"
    /\ UNCHANGED <<repo, edits, ask, pins, base, pending, readers, total, stopped,
                   files, excluded, loaded, held>>

-----------------------------------------------------------------------------
(* The capture: snapshot::capture_inner *)

\* HEAD is resolved first, then the base, then the target: three processes.
\* A worktree's target is the HEAD already resolved, and so are the base and
\* the target of the index.
ResolveBase ==
    /\ phase = "base"
    /\ ask' = [ask EXCEPT !.compared = Compared(repo.refs)]
    /\ pins' = [pins EXCEPT !.base =
                    CASE ask.selection = "mr" -> ask'.compared.base
                      [] ask.selection = "staged" -> repo.refs.HEAD
                      [] OTHER -> repo.refs.base]
    /\ phase' = "target"
    /\ UNCHANGED <<repo, edits, boot, base, pending, readers, total, stopped, files,
                   excluded, loaded, held>>

ResolveTarget ==
    /\ phase = "target"
    /\ pins' = [pins EXCEPT !.head =
                    CASE ask.selection = "mr" -> ask.compared.head
                      [] ask.selection = "staged" -> pins.base
                      [] ask.selection = "diff" -> repo.refs.head
                      [] OTHER -> repo.refs.HEAD]
    /\ phase' = "list"
    /\ UNCHANGED <<repo, edits, ask, boot, base, pending, readers, total, stopped,
                   files, excluded, loaded, held>>

\* git::commit for the base; the objects of a commit do not change
ReadBase ==
    /\ phase \in {"list", "read"} /\ ~base.read
    /\ LET tree == TreeOf[pins.base]
           kept == Keep(tree, boot)
       IN /\ excluded' = excluded \cup (Present(tree) \ DOMAIN kept)
          /\ IF WithinLimits(kept)
             THEN base' = [read |-> TRUE, files |-> kept] /\ UNCHANGED <<phase, stopped>>
             ELSE Fail /\ UNCHANGED base
    /\ UNCHANGED <<repo, edits, ask, boot, pins, pending, readers, total, files,
                   loaded, held>>

\* git::commit or git::read_index for the target: the listing names objects
ReadObjects ==
    /\ phase = "list" /\ ask.selection # "worktree"
    /\ LET tree == IF ask.selection = "staged" THEN repo.index ELSE TreeOf[pins.head]
           kept == Keep(tree, boot)
       IN /\ excluded' = excluded \cup (Present(tree) \ DOMAIN kept)
          /\ held' = [p \in Path |-> {tree[p]}]
          /\ IF WithinLimits(kept)
             THEN files' = kept /\ phase' = "read" /\ UNCHANGED stopped
             ELSE Fail /\ UNCHANGED files
    /\ UNCHANGED <<repo, edits, ask, boot, pins, base, pending, readers, total, loaded>>

\* worktree::read lists tracked and untracked names, then reads them one by
\* one while the user may still write
ListWorktree ==
    /\ phase = "list" /\ ask.selection = "worktree"
    /\ LET names == Present(repo.work) \cup Present(repo.index)
           kept == Selected(names, boot)
       IN /\ excluded' = excluded \cup (names \ kept)
          /\ pending' = kept
    /\ held' = [p \in Path |-> {repo.work[p]}]
    /\ phase' = "read"
    /\ UNCHANGED <<repo, edits, ask, boot, pins, base, readers, total, stopped, files,
                   loaded>>

StartReader(r) ==
    /\ phase = "read" /\ readers[r] = Idle
    /\ \E name \in pending :
         /\ \A p \in pending : Order[name] <= Order[p]
         /\ readers' = [readers EXCEPT ![r] = [at |-> "stat", name |-> name, size |-> 0]]
         /\ pending' = pending \ {name}
    /\ UNCHANGED <<repo, edits, ask, phase, boot, pins, base, total, stopped, files,
                   excluded, loaded, held>>

\* read_file up to the claim of its size on the shared total
Stat(r) ==
    /\ readers[r].at = "stat"
    /\ LET name == readers[r].name
           v == repo.work[name]
           next(at, size) == [readers EXCEPT ![r] = [at |-> at, name |-> name, size |-> size]]
       IN IF stopped THEN readers' = next("error", 0) /\ UNCHANGED total
          ELSE IF v = Absent THEN readers' = next("gone", 0) /\ UNCHANGED total
          ELSE IF SizeOf[v] > MaxFile THEN readers' = next("error", 0) /\ UNCHANGED total
          ELSE /\ total' = total + SizeOf[v]
               /\ readers' = next(IF total' > MaxBytes THEN "error" ELSE "open", SizeOf[v])
    /\ UNCHANGED <<repo, edits, ask, phase, boot, pins, base, pending, stopped, files,
                   excluded, loaded, held>>

\* Plausible bug: the size claimed is not compared with the size read.
Read_Any(r) ==
    /\ readers[r].at = "open"
    /\ LET v == repo.work[readers[r].name]
       IN readers' = [readers EXCEPT ![r] =
              IF v # Absent THEN [at |-> "done", name |-> @.name, bytes |-> v]
                            ELSE [@ EXCEPT !.at = "error"]]
    /\ UNCHANGED <<repo, edits, ask, phase, boot, pins, base, pending, total, stopped,
                   files, excluded, loaded, held>>

\* The file is opened again and at most one byte more than its size is read
Read(r) ==
    /\ readers[r].at = "open"
    /\ LET v == repo.work[readers[r].name]
           same == v # Absent /\ SizeOf[v] = readers[r].size
       IN readers' = [readers EXCEPT ![r] =
              IF same THEN [at |-> "done", name |-> @.name, bytes |-> v]
                      ELSE [@ EXCEPT !.at = "error"]]
    /\ UNCHANGED <<repo, edits, ask, phase, boot, pins, base, pending, total, stopped,
                   files, excluded, loaded, held>>

Join(r) ==
    /\ phase = "read" /\ readers[r].at \in {"done", "gone", "error"}
    /\ readers' = [readers EXCEPT ![r] = Idle]
    /\ IF readers[r].at = "error" THEN Fail /\ UNCHANGED files
       ELSE /\ files' = IF readers[r].at = "gone" THEN files
                        ELSE [p \in DOMAIN files \cup {readers[r].name} |->
                                IF p = readers[r].name THEN readers[r].bytes ELSE files[p]]
            /\ UNCHANGED <<phase, stopped>>
    /\ UNCHANGED <<repo, edits, ask, boot, pins, base, pending, total, excluded,
                   loaded, held>>

\* Both sides are in memory: changes, digests and scope evidence are computed
\* from them alone.
Capture ==
    /\ phase = "read" /\ base.read /\ pending = {}
    /\ \A r \in 1..Jobs : readers[r] = Idle
    /\ phase' = IF ask.expected \notin {NoBase, pins.base} THEN "failed" ELSE "load"
    /\ stopped' = TRUE
    /\ UNCHANGED <<repo, edits, ask, boot, pins, base, pending, readers, total, files,
                   excluded, loaded, held>>

-----------------------------------------------------------------------------
(* The policy of the captured input: policy::load, policy_active::prepare *)

\* Files the policy is parsed from: the capture's own, those of the policy
\* reference (resolved a second time, read under the applied exclusions), or
\* the frozen ones
PolicyFiles ==
    CASE ask.source = "local" -> files
      [] ask.source = "ref" -> Keep(TreeOf[repo.refs.policy], boot)
      [] ask.source = "active" -> [p \in {Cfg, Rule} |->
                                      IF p = Cfg THEN ActiveConfig ELSE ActiveRule]

\* acquisition::validate_config
ValidConfig(with) ==
    /\ SameExclusions(with, boot)
    /\ excluded \cap with.protected = {}

Load ==
    /\ phase = "load"
    /\ LET from == PolicyFiles
           rule == IF Rule \in DOMAIN from THEN from[Rule] ELSE Absent
           with == LoadedPolicy(PolicyOf[from[Cfg]], rule)
       IN IF Cfg \in DOMAIN from /\ ValidConfig(with)
          THEN loaded' = with /\ phase' = "accepted"
          ELSE phase' = "failed" /\ UNCHANGED loaded
    /\ UNCHANGED <<repo, edits, ask, boot, pins, base, pending, readers, total, stopped,
                   files, excluded, held>>

\* Plausible bug: only the bootstrap is under the timeout.
TimeOut_Bootstrap ==
    /\ phase \in {"policy", "rules"}
    /\ Fail
    /\ UNCHANGED <<repo, edits, ask, boot, pins, base, pending, readers, total, files,
                   excluded, loaded, held>>

\* Every acquisition runs under tokio::time::timeout, and every Git process
\* under its own; dropping the future sets the readers' cancellation flag.
TimeOut ==
    /\ phase \in {"policy", "rules", "base", "target", "list", "read"}
    /\ Fail
    /\ UNCHANGED <<repo, edits, ask, boot, pins, base, pending, readers, total, files,
                   excluded, loaded, held>>

-----------------------------------------------------------------------------
Init ==
    /\ repo = [work |-> TreeOf[Start], index |-> TreeOf[Start],
               refs |-> [HEAD |-> Start, base |-> Start, head |-> Start, policy |-> Start]]
    /\ edits = 0
    /\ \E asked \in Asked : ask = [selection |-> asked[1], source |-> asked[2],
            expected |-> IF asked[3] THEN Start ELSE NoBase, compared |-> NoPins]
    /\ phase = "policy" /\ boot = NoPolicy /\ loaded = NoPolicy
    /\ pins = NoPins /\ base = Unread
    /\ pending = {} /\ readers = [r \in 1..Jobs |-> Idle]
    /\ total = 0 /\ stopped = FALSE
    /\ files = Nothing /\ excluded = {} /\ held = [p \in Path |-> {}]

Program ==
    \/ BootstrapConfig \/ BootstrapRules \/ ResolveBase \/ ResolveTarget
    \/ ReadBase \/ ReadObjects \/ ListWorktree
    \/ \E r \in 1..Jobs : StartReader(r) \/ Join(r)
    \/ Capture \/ Load

Reader == \E r \in 1..Jobs : Stat(r) \/ Read(r)

Next == User \/ Program \/ Reader \/ TimeOut

\* The orchestrator runs while it can and its timers fire.  Nothing is assumed
\* of the readers (a read of the file system may hang) or of the user.
Fairness == WF_vars(Program) /\ WF_vars(TimeOut)

Spec == Init /\ [][Next]_vars /\ Fairness
-----------------------------------------------------------------------------
(* What the acquisition promises *)

\* A check evaluates a policy only over a capture made under that policy's own
\* exclusions: the capture left out exactly what the loaded policy leaves out,
\* and nothing that policy protects, whatever was edited, staged or moved
\* between the read of the policy and the capture (acquisition.rs:131-169).
CapturedUnderItsPolicy ==
    phase = "accepted" =>
        /\ \A p \in excluded : Reason(p, loaded) # "kept" /\ p \notin loaded.protected
        /\ \A p \in DOMAIN files \cup DOMAIN base.files : Reason(p, loaded) = "kept"

\* Every captured file has bytes its path held between the listing and the end
\* of the capture, a path nobody touched is captured unless it is excluded,
\* and what is captured fits the budgets (worktree.rs:64-158, git.rs:169-210).
FilesWereThere ==
    phase \in {"load", "accepted"} =>
        /\ WithinLimits(files) /\ WithinLimits(base.files)
        /\ \A p \in DOMAIN files : files[p] \in held[p]
        /\ \A p \in Path : held[p] \in {{v} : v \in Version} =>
                               p \in DOMAIN files \cup excluded

\* Every acquisition is decided, whatever the file system does to the readers.
AcquisitionEnds == <>(phase \in {"accepted", "failed"})
=============================================================================

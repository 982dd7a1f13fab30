----------------------- MODULE SnapshotCapture_proofs -----------------------
(***************************************************************************)
(* What an acquisition promises for every repository, every policy and     *)
(* every number of edits, stagings and moved references (SnapshotCapture): *)
(* the capture was made under the exclusions of the policy it is evaluated *)
(* with, and holds what was there.                                         *)
(***************************************************************************)
EXTENDS SnapshotCapture, TLAPS

Phases == {"policy", "rules", "base", "target", "list", "read", "load", "accepted", "failed"}

Reading ==
    {Idle} \cup [at : {"stat", "open", "gone", "error"}, name : Path, size : Nat]
           \cup [at : {"done"}, name : Path, bytes : Version]

Typed ==
    /\ repo = [work |-> repo.work, index |-> repo.index, refs |-> repo.refs]
    /\ repo.work \in Tree /\ repo.index \in Tree
    /\ ask = [selection |-> ask.selection, source |-> ask.source, expected |-> ask.expected,
              compared |-> ask.compared]
    /\ phase \in Phases
    /\ pending \subseteq Path /\ readers \in [1..Jobs -> Reading] /\ total \in Nat
    /\ DOMAIN files \subseteq Path /\ DOMAIN base.files \subseteq Path /\ excluded \subseteq Path

Early == {"policy", "rules", "base", "target"}

\* Until the references are resolved nothing is captured; until the target is
\* listed nothing of it is.
Untouched ==
    /\ phase \in Early => excluded = {} /\ base = Unread
    /\ phase \in Early \cup {"list"} =>
         pending = {} /\ files = Nothing /\ readers = [r \in 1..Jobs |-> Idle] /\ total = 0

\* The paths somebody works at: their names, and whether their reader found one.
Busy(r) == readers[r] # Idle

AllKept ==
    /\ \A p \in excluded : Reason(p, boot) # "kept"
    /\ \A p \in DOMAIN files \cup DOMAIN base.files \cup pending : Reason(p, boot) = "kept"
    /\ \A r \in 1..Jobs : Busy(r) => Reason(readers[r].name, boot) = "kept"

Agreed ==
    phase = "accepted" => SameExclusions(loaded, boot) /\ excluded \cap loaded.protected = {}

PolicyInvariant == Typed /\ Untouched /\ AllKept /\ Agreed

-----------------------------------------------------------------------------
(* The exclusions                                                           *)

LEMMA SameReason ==
    ASSUME NEW a, NEW b, SameExclusions(a, b), NEW p
    PROVE  Reason(p, a) = Reason(p, b)
  BY DEF SameExclusions, Reason

LEMMA KeepFacts ==
    ASSUME NEW tree, NEW with
    PROVE  /\ DOMAIN Keep(tree, with) = Selected(Present(tree), with)
           /\ Present(tree) \subseteq Path
           /\ \A p \in Path : tree[p] # Absent => p \in Present(tree)
           /\ \A p \in DOMAIN Keep(tree, with) :
                p \in Path /\ Reason(p, with) = "kept" /\ Keep(tree, with)[p] = tree[p]
           /\ \A p \in Present(tree) \ DOMAIN Keep(tree, with) : Reason(p, with) # "kept"
  BY DEF Keep, Selected, Present

LEMMA NothingFacts == DOMAIN Nothing = {}
  BY DEF Nothing

LEMMA PolicyInit == Init => PolicyInvariant
  <1> SUFFICES ASSUME Init  PROVE PolicyInvariant  OBVIOUS
  <1>1. Typed
    <2>1. repo = [work |-> TreeOf[Start], index |-> TreeOf[Start],
                  refs |-> [HEAD |-> Start, base |-> Start, head |-> Start, policy |-> Start]]
      BY DEF Init
    <2>2. repo = [work |-> repo.work, index |-> repo.index, refs |-> repo.refs]
          /\ repo.work \in Tree /\ repo.index \in Tree
      BY <2>1, CaptureAssumption
    <2>3. ask = [selection |-> ask.selection, source |-> ask.source, expected |-> ask.expected,
                 compared |-> ask.compared]
      BY DEF Init
    <2>4. /\ phase \in Phases /\ pending \subseteq Path /\ total \in Nat
          /\ DOMAIN files \subseteq Path /\ DOMAIN base.files \subseteq Path /\ excluded \subseteq Path
      BY NothingFacts DEF Init, Phases, Unread
    <2>5. readers \in [1..Jobs -> Reading]  BY DEF Init, Reading
    <2> QED  BY <2>2, <2>3, <2>4, <2>5 DEF Typed
  <1>2. Untouched  BY DEF Init, Untouched
  <1>3. AllKept
    BY NothingFacts DEF Init, AllKept, Busy, Unread
  <1>4. Agreed  BY DEF Init, Agreed
  <1> QED  BY <1>1, <1>2, <1>3, <1>4 DEF PolicyInvariant

-----------------------------------------------------------------------------
(* The readers                                                              *)

LEMMA ReadingFacts ==
    ASSUME Typed, NEW r \in 1..Jobs, Busy(r)
    PROVE  /\ readers[r].name \in Path
           /\ readers[r].at \in {"stat", "open", "gone", "error", "done"}
           /\ readers[r].at # "done" =>
                readers[r] = [at |-> readers[r].at, name |-> readers[r].name, size |-> readers[r].size]
                /\ readers[r].size \in Nat
           /\ readers[r].at = "done" => readers[r].bytes \in Version
  BY DEF Typed, Reading, Busy

LEMMA BusyFacts ==
    ASSUME Typed, NEW r \in 1..Jobs, readers[r].at \in {"stat", "open", "gone", "error", "done"}
    PROVE  Busy(r)
  BY DEF Busy, Idle

\* What the first half of a read makes of a name.
LEMMA StatFacts ==
    ASSUME Typed, NEW r \in 1..Jobs, Stat(r)
    PROVE  LET name == readers[r].name
               v    == repo.work[name]
           IN /\ Busy(r) /\ readers[r].at = "stat" /\ name \in Path
              /\ \/ /\ readers' = [readers EXCEPT ![r] = [at |-> "error", name |-> name, size |-> 0]]
                    /\ total' = total
                 \/ /\ readers' = [readers EXCEPT ![r] = [at |-> "gone", name |-> name, size |-> 0]]
                    /\ total' = total /\ v = Absent
                 \/ /\ v \in Version /\ SizeOf[v] \in Nat /\ SizeOf[v] <= MaxFile
                    /\ total' = total + SizeOf[v]
                    /\ \/ readers' = [readers EXCEPT ![r] =
                                       [at |-> "error", name |-> name, size |-> SizeOf[v]]]
                       \/ /\ total' <= MaxBytes
                          /\ readers' = [readers EXCEPT ![r] =
                                           [at |-> "open", name |-> name, size |-> SizeOf[v]]]
  <1> DEFINE name == readers[r].name
             v    == repo.work[name]
  <1>1. Busy(r) /\ readers[r].at = "stat"  BY BusyFacts DEF Stat
  <1>2. name \in Path  BY <1>1, ReadingFacts
  <1>3. v \in Held  BY <1>2 DEF Typed, Tree
  <1>4. v # Absent => v \in Version /\ SizeOf[v] \in Nat  BY <1>3, CaptureAssumption DEF Held
  <1>5. total \in Nat /\ MaxFile \in Nat /\ MaxBytes \in Nat  BY CaptureAssumption DEF Typed
  <1>6. IF stopped \/ (v # Absent /\ SizeOf[v] > MaxFile)
        THEN readers' = [readers EXCEPT ![r] = [at |-> "error", name |-> name, size |-> 0]] /\ total' = total
        ELSE IF v = Absent
        THEN readers' = [readers EXCEPT ![r] = [at |-> "gone", name |-> name, size |-> 0]] /\ total' = total
        ELSE total' = total + SizeOf[v]
             /\ readers' = [readers EXCEPT ![r] = [at |-> IF total' > MaxBytes THEN "error" ELSE "open",
                                                  name |-> name, size |-> SizeOf[v]]]
    BY DEF Stat
  <1> HIDE DEF v, name
  <1>7. CASE stopped \/ (v # Absent /\ SizeOf[v] > MaxFile)
    BY <1>1, <1>2, <1>6, <1>7 DEF name, v
  <1>8. CASE ~(stopped \/ (v # Absent /\ SizeOf[v] > MaxFile)) /\ v = Absent
    BY <1>1, <1>2, <1>6, <1>8 DEF name, v
  <1>9. CASE ~(stopped \/ (v # Absent /\ SizeOf[v] > MaxFile)) /\ v # Absent
    <2>1. v \in Version /\ SizeOf[v] \in Nat /\ SizeOf[v] <= MaxFile  BY <1>4, <1>5, <1>9
    <2>2. total' = total + SizeOf[v]  BY <1>6, <1>9
    <2>3. CASE total' > MaxBytes
      BY <1>1, <1>2, <1>6, <1>9, <2>1, <2>2, <2>3 DEF name, v
    <2>4. CASE ~(total' > MaxBytes)
      <3>1. total' <= MaxBytes  BY <1>5, <2>1, <2>2, <2>4
      <3> QED  BY <1>1, <1>2, <1>6, <1>9, <2>1, <2>2, <2>4, <3>1 DEF name, v
    <2> QED  BY <2>3, <2>4
  <1> QED  BY <1>7, <1>8, <1>9

\* What the second half does.
LEMMA ReadFacts ==
    ASSUME Typed, NEW r \in 1..Jobs, Read(r)
    PROVE  LET name == readers[r].name
               v    == repo.work[name]
               size == readers[r].size
           IN /\ Busy(r) /\ readers[r].at = "open" /\ name \in Path /\ size \in Nat
              /\ \/ readers' = [readers EXCEPT ![r] = [at |-> "error", name |-> name, size |-> size]]
                 \/ /\ v \in Version /\ SizeOf[v] = size
                    /\ readers' = [readers EXCEPT ![r] = [at |-> "done", name |-> name, bytes |-> v]]
  <1>1. Busy(r) /\ readers[r].at = "open"  BY BusyFacts DEF Read
  <1>2. readers[r].name \in Path /\ readers[r].size \in Nat
        /\ readers[r] = [at |-> "open", name |-> readers[r].name, size |-> readers[r].size]
    BY <1>1, ReadingFacts
  <1>3. repo.work[readers[r].name] \in Held  BY <1>2 DEF Typed, Tree
  <1>4. CASE repo.work[readers[r].name] # Absent /\ SizeOf[repo.work[readers[r].name]] = readers[r].size
    <2>1. readers' = [readers EXCEPT ![r] =
            [at |-> "done", name |-> readers[r].name, bytes |-> repo.work[readers[r].name]]]
      BY <1>4 DEF Read, Typed
    <2> QED  BY <1>1, <1>2, <1>3, <1>4, <2>1 DEF Held
  <1>5. CASE ~(repo.work[readers[r].name] # Absent /\ SizeOf[repo.work[readers[r].name]] = readers[r].size)
    <2>1. readers' = [readers EXCEPT ![r] = [readers[r] EXCEPT !.at = "error"]]
      BY <1>5 DEF Read, Typed
    <2>2. [readers[r] EXCEPT !.at = "error"] = [at |-> "error", name |-> readers[r].name, size |-> readers[r].size]
      BY <1>2
    <2> QED  BY <1>1, <1>2, <2>1, <2>2
  <1> QED  BY <1>4, <1>5

-----------------------------------------------------------------------------
(* One step of the user, of the program or of a reader                      *)

\* What the user and the reads of files leave alone.
captured == <<ask, phase, boot, pins, base, pending, stopped, files, excluded, loaded>>

LEMMA UserMoves ==
    ASSUME Typed, User
    PROVE  /\ repo' = [work |-> repo'.work, index |-> repo'.index, refs |-> repo'.refs]
           /\ repo'.work \in Tree /\ repo'.index \in Tree
           /\ UNCHANGED <<captured, readers, total>>
           /\ phase \notin {"accepted", "failed"}
           /\ \/ repo'.work = repo.work /\ held' = held
              \/ \E p \in Path, v \in Held :
                   /\ repo'.work = [repo.work EXCEPT ![p] = v] /\ repo.work[p] # v
                   /\ held' = IF phase = "read" /\ ask.selection = "worktree"
                              THEN [held EXCEPT ![p] = @ \cup {v}] ELSE held
  <1> USE DEF captured
  <1>1. ASSUME NEW p \in Path, NEW v \in Held, Edit(p, v)
        PROVE  /\ repo' = [work |-> [repo.work EXCEPT ![p] = v], index |-> repo.index, refs |-> repo.refs]
               /\ UNCHANGED <<captured, readers, total>> /\ phase \notin {"accepted", "failed"}
               /\ repo.work[p] # v
               /\ held' = IF phase = "read" /\ ask.selection = "worktree"
                          THEN [held EXCEPT ![p] = @ \cup {v}] ELSE held
    BY <1>1 DEF Edit, Live, Typed
  <1>2. ASSUME NEW p \in Path, Stage(p)
        PROVE  /\ repo' = [work |-> repo.work, index |-> [repo.index EXCEPT ![p] = repo.work[p]],
                           refs |-> repo.refs]
               /\ UNCHANGED <<captured, readers, total, held>> /\ phase \notin {"accepted", "failed"}
    BY <1>2 DEF Stage, Live, Typed
  <1>3. ASSUME NEW name, NEW c, MoveRef(name, c)
        PROVE  /\ repo' = [work |-> repo.work, index |-> repo.index,
                           refs |-> [repo.refs EXCEPT ![name] = c]]
               /\ UNCHANGED <<captured, readers, total, held>> /\ phase \notin {"accepted", "failed"}
    BY <1>3 DEF MoveRef, Live, Typed
  <1>4. repo.work \in [Path -> Held] /\ repo.index \in [Path -> Held]  BY DEF Typed, Tree
  <1>5. CASE \E p \in Path, v \in Held : Edit(p, v)
    <2>1. PICK p \in Path, v \in Held : Edit(p, v)  BY <1>5
    <2>2. [repo.work EXCEPT ![p] = v] \in Tree  BY <1>4 DEF Tree
    <2>3. /\ repo' = [work |-> [repo.work EXCEPT ![p] = v], index |-> repo.index, refs |-> repo.refs]
          /\ repo.work[p] # v
      BY <1>1, <2>1
    <2>4. /\ repo' = [work |-> repo'.work, index |-> repo'.index, refs |-> repo'.refs]
          /\ repo'.work = [repo.work EXCEPT ![p] = v] /\ repo'.index = repo.index
      BY <2>3
    <2>5. /\ UNCHANGED <<captured, readers, total>> /\ phase \notin {"accepted", "failed"}
          /\ held' = IF phase = "read" /\ ask.selection = "worktree"
                     THEN [held EXCEPT ![p] = @ \cup {v}] ELSE held
      BY <1>1, <2>1
    <2>6. repo'.work \in Tree /\ repo'.index \in Tree  BY <1>4, <2>2, <2>4 DEF Tree
    <2> HIDE DEF captured
    <2> QED  BY <2>3, <2>4, <2>5, <2>6
  <1>6. CASE \E p \in Path : Stage(p)
    <2>1. PICK p \in Path : Stage(p)  BY <1>6
    <2>2. [repo.index EXCEPT ![p] = repo.work[p]] \in [Path -> Held]  BY <1>4
    <2> QED  BY <1>2, <1>4, <2>1, <2>2 DEF Tree
  <1>7. CASE \E name \in DOMAIN repo.refs, c \in Commit : MoveRef(name, c)
    BY <1>3, <1>4, <1>7 DEF Tree
  <1> QED  BY <1>5, <1>6, <1>7 DEF User

\* A reader that goes on with its name.
LEMMA ReaderMoves ==
    ASSUME Typed, Reader
    PROVE  /\ UNCHANGED <<captured, repo, held>>
           /\ total' \in Nat /\ readers' \in [1..Jobs -> Reading]
           /\ \E r \in 1..Jobs : /\ \A q \in 1..Jobs \ {r} : readers'[q] = readers[q]
                                /\ Busy(r) /\ readers'[r] # Idle
                                /\ readers'[r].name = readers[r].name
  <1>1. PICK r \in 1..Jobs : Stat(r) \/ Read(r)  BY DEF Reader
  <1>2. UNCHANGED <<captured, repo, held>>  BY <1>1 DEF Stat, Read, captured
  <1>3. readers \in [1..Jobs -> Reading] /\ total \in Nat  BY DEF Typed
  <1>4. /\ total' \in Nat
        /\ \E x \in Reading : /\ readers' = [readers EXCEPT ![r] = x] /\ x # Idle
                            /\ x.name = readers[r].name /\ Busy(r)
    <2>1. CASE Stat(r)
      <3>1. PICK name, v : name = readers[r].name /\ v = repo.work[readers[r].name]  OBVIOUS
      <3>2. /\ Busy(r) /\ name \in Path
            /\ \/ total' = total
               \/ SizeOf[v] \in Nat /\ total' = total + SizeOf[v]
            /\ \E at \in {"stat", "open", "gone", "error"}, size \in Nat :
                 readers' = [readers EXCEPT ![r] = [at |-> at, name |-> name, size |-> size]]
        BY <2>1, <3>1, StatFacts
      <3>3. total' \in Nat  BY <1>3, <3>2
      <3>4. PICK at \in {"stat", "open", "gone", "error"}, size \in Nat :
              readers' = [readers EXCEPT ![r] = [at |-> at, name |-> name, size |-> size]]
        BY <3>2
      <3>5. PICK x : x = [at |-> at, name |-> name, size |-> size]  OBVIOUS
      <3>6. x.name = name /\ x \in [at : {"stat", "open", "gone", "error"}, name : Path, size : Nat]
        BY <3>2, <3>5
      <3>7. x \in Reading /\ x # Idle  BY <3>5, <3>6 DEF Reading, Idle
      <3> QED  BY <3>1, <3>2, <3>3, <3>4, <3>5, <3>6, <3>7
    <2>2. CASE Read(r)
      <3>1. PICK name, v : name = readers[r].name /\ v = repo.work[readers[r].name]  OBVIOUS
      <3>2. /\ Busy(r) /\ name \in Path
            /\ \/ \E size \in Nat : readers' = [readers EXCEPT ![r] = [at |-> "error", name |-> name, size |-> size]]
               \/ v \in Version /\ readers' = [readers EXCEPT ![r] = [at |-> "done", name |-> name, bytes |-> v]]
        BY <2>2, <3>1, ReadFacts
      <3>3. total' = total  BY <2>2 DEF Read
      <3> QED  BY <1>3, <3>1, <3>2, <3>3 DEF Reading, Idle
    <2> QED  BY <1>1, <2>1, <2>2
  <1> QED  BY <1>2, <1>3, <1>4

LEMMA ReaderPolicy ==
    ASSUME PolicyInvariant, Reader \/ User
    PROVE  PolicyInvariant'
  <1>1. CASE User
    <2>1. /\ repo' = [work |-> repo'.work, index |-> repo'.index, refs |-> repo'.refs]
          /\ repo'.work \in Tree /\ repo'.index \in Tree
          /\ UNCHANGED <<ask, phase, boot, pins, base, pending, stopped, files, excluded, loaded, readers, total>>
      BY <1>1, UserMoves DEF PolicyInvariant, captured
    <2> QED  BY <2>1 DEF PolicyInvariant, Typed, Untouched, AllKept, Agreed, Busy
  <1>2. CASE Reader
    <2>1. PICK r \in 1..Jobs : /\ \A q \in 1..Jobs \ {r} : readers'[q] = readers[q]
                              /\ Busy(r) /\ readers'[r].name = readers[r].name
      BY <1>2, ReaderMoves DEF PolicyInvariant
    <2>2. /\ UNCHANGED <<ask, phase, boot, pins, base, pending, stopped, files, excluded, loaded, repo>>
          /\ total' \in Nat /\ readers' \in [1..Jobs -> Reading]
      BY <1>2, ReaderMoves DEF PolicyInvariant, captured
    <2>3. phase \notin Early \cup {"list"}  BY <2>1 DEF PolicyInvariant, Untouched, Busy
    <2>4. Typed'  BY <2>2 DEF PolicyInvariant, Typed
    <2>5. Untouched' /\ Agreed'  BY <2>2, <2>3 DEF PolicyInvariant, Untouched, Agreed
    <2>6. AllKept'
      BY <2>1, <2>2 DEF PolicyInvariant, AllKept, Busy
    <2> QED  BY <2>4, <2>5, <2>6 DEF PolicyInvariant
  <1> QED  BY <1>1, <1>2

\* The steps before anything is captured.
Resolving == BootstrapConfig \/ BootstrapRules \/ ResolveBase \/ ResolveTarget

LEMMA ResolvingMoves ==
    ASSUME Typed, Resolving
    PROVE  /\ UNCHANGED <<repo, base, pending, readers, total, files, excluded, loaded, held>>
           /\ ask' = [selection |-> ask'.selection, source |-> ask'.source, expected |-> ask'.expected,
                      compared |-> ask'.compared]
           /\ ask'.selection = ask.selection
           /\ phase \in Early /\ phase' \in Early \cup {"list", "failed"}
           /\ phase' = "list" => boot' = boot
  <1>1. UNCHANGED <<repo, base, pending, readers, total, files, excluded, loaded, held>>
    BY DEF Resolving, BootstrapConfig, BootstrapRules, ResolveBase, ResolveTarget
  <1>2. phase \in Early /\ phase' \in Early \cup {"list", "failed"} /\ (phase' = "list" => boot' = boot)
    BY DEF Resolving, BootstrapConfig, BootstrapRules, ResolveBase, ResolveTarget, Early, Fail
  <1>3. ask' = ask \/ \E c : ask' = [ask EXCEPT !.compared = c]
    BY DEF Resolving, BootstrapConfig, BootstrapRules, ResolveBase, ResolveTarget
  <1>4. /\ ask' = [selection |-> ask'.selection, source |-> ask'.source, expected |-> ask'.expected,
                   compared |-> ask'.compared]
        /\ ask'.selection = ask.selection
    BY <1>3 DEF Typed
  <1> QED  BY <1>1, <1>2, <1>4

LEMMA ResolvingPolicy ==
    ASSUME PolicyInvariant, Resolving
    PROVE  PolicyInvariant'
  <1>1. /\ UNCHANGED <<repo, base, pending, readers, total, files, excluded, loaded, held>>
        /\ ask' = [selection |-> ask'.selection, source |-> ask'.source, expected |-> ask'.expected,
                   compared |-> ask'.compared]
        /\ phase \in Early /\ phase' \in Early \cup {"list", "failed"}
    BY ResolvingMoves DEF PolicyInvariant
  <1>2. excluded = {} /\ base = Unread /\ pending = {} /\ files = Nothing /\ readers = [r \in 1..Jobs |-> Idle]
        /\ total = 0
    BY <1>1 DEF PolicyInvariant, Untouched
  <1>3. Typed'  BY <1>1 DEF PolicyInvariant, Typed, Early, Phases
  <1>4. Untouched' /\ Agreed'  BY <1>1, <1>2 DEF Untouched, Agreed, Early
  <1>5. AllKept'  BY <1>1, <1>2, NothingFacts DEF AllKept, Busy, Unread
  <1> QED  BY <1>3, <1>4, <1>5 DEF PolicyInvariant

\* The listings.
LEMMA ListingPolicy ==
    ASSUME PolicyInvariant, ReadBase \/ ReadObjects \/ ListWorktree
    PROVE  PolicyInvariant'
  <1>1. /\ UNCHANGED <<repo, ask, boot, readers, total, loaded>>
        /\ phase \in {"list", "read"} /\ phase' \in {"list", "read", "failed"}
        /\ phase' = "list" => phase = "list" /\ files' = files /\ pending' = pending
    BY DEF ReadBase, ReadObjects, ListWorktree, Fail
  <1>2. \E names \in SUBSET Path, with \in SUBSET Path :
          /\ excluded' = excluded \cup names /\ \A p \in names : Reason(p, boot) # "kept"
          /\ \A p \in with : Reason(p, boot) = "kept"
          /\ \/ UNCHANGED <<base, files, pending>>
             \/ UNCHANGED <<files, pending>> /\ DOMAIN base'.files = with
             \/ UNCHANGED <<base, pending>> /\ DOMAIN files' = with
             \/ UNCHANGED <<base, files>> /\ pending' = with
    <2>1. CASE ReadBase
      <3> DEFINE tree == TreeOf[pins.base]
                 kept == Keep(tree, boot)
      <3>1. /\ Present(tree) \ DOMAIN kept \subseteq Path /\ DOMAIN kept \subseteq Path
            /\ \A p \in Present(tree) \ DOMAIN kept : Reason(p, boot) # "kept"
            /\ \A p \in DOMAIN kept : Reason(p, boot) = "kept"
        BY KeepFacts
      <3>2. /\ excluded' = excluded \cup (Present(tree) \ DOMAIN kept)
            /\ base' = base \/ base'.files = kept
            /\ UNCHANGED <<files, pending>>
        <4>1. /\ excluded' = excluded \cup (Present(tree) \ DOMAIN kept)
              /\ base' = base \/ base' = [read |-> TRUE, files |-> kept]
              /\ UNCHANGED <<files, pending>>
          BY <2>1 DEF ReadBase
        <4> HIDE DEF kept, tree
        <4> QED  BY <4>1
      <3> HIDE DEF kept, tree
      <3> QED  BY <3>1, <3>2
    <2>2. CASE ReadObjects
      <3> DEFINE tree == IF ask.selection = "staged" THEN repo.index ELSE TreeOf[pins.head]
                 kept == Keep(tree, boot)
      <3>1. /\ Present(tree) \ DOMAIN kept \subseteq Path /\ DOMAIN kept \subseteq Path
            /\ \A p \in Present(tree) \ DOMAIN kept : Reason(p, boot) # "kept"
            /\ \A p \in DOMAIN kept : Reason(p, boot) = "kept"
        BY KeepFacts
      <3>2. /\ excluded' = excluded \cup (Present(tree) \ DOMAIN kept)
            /\ files' = files \/ files' = kept
            /\ UNCHANGED <<base, pending>>
        BY <2>2 DEF ReadObjects
      <3> HIDE DEF kept, tree
      <3> QED  BY <3>1, <3>2
    <2>3. CASE ListWorktree
      <3> DEFINE names == Present(repo.work) \cup Present(repo.index)
                 kept == Selected(names, boot)
      <3>1. /\ names \ kept \subseteq Path /\ kept \subseteq Path
            /\ \A p \in names \ kept : Reason(p, boot) # "kept"
            /\ \A p \in kept : Reason(p, boot) = "kept"
        BY DEF Selected, Present
      <3>2. excluded' = excluded \cup (names \ kept) /\ pending' = kept /\ UNCHANGED <<base, files>>
        BY <2>3 DEF ListWorktree
      <3> HIDE DEF kept, names
      <3> QED  BY <3>1, <3>2
    <2> QED  BY <2>1, <2>2, <2>3
  <1>3. Typed'  BY <1>1, <1>2 DEF PolicyInvariant, Typed, Phases
  <1>4. Untouched'  BY <1>1 DEF PolicyInvariant, Untouched, Early
  <1>5. AllKept'  BY <1>1, <1>2 DEF PolicyInvariant, AllKept, Busy
  <1>6. Agreed'  BY <1>1 DEF Agreed
  <1> QED  BY <1>3, <1>4, <1>5, <1>6 DEF PolicyInvariant

\* Handing names to readers and taking what they read.
LEMMA HandingPolicy ==
    ASSUME PolicyInvariant, NEW r \in 1..Jobs, StartReader(r) \/ Join(r)
    PROVE  PolicyInvariant'
  <1>1. readers \in [1..Jobs -> Reading]  BY DEF PolicyInvariant, Typed
  <1>2. CASE StartReader(r)
    <2>1. PICK name \in pending :
            /\ readers' = [readers EXCEPT ![r] = [at |-> "stat", name |-> name, size |-> 0]]
            /\ pending' = pending \ {name}
      BY <1>2 DEF StartReader
    <2>2. phase = "read" /\ UNCHANGED <<repo, ask, phase, boot, base, total, files, excluded, loaded>>
      BY <1>2 DEF StartReader
    <2>3. /\ readers'[r] = [at |-> "stat", name |-> name, size |-> 0]
          /\ \A q \in 1..Jobs \ {r} : readers'[q] = readers[q]
      BY <1>1, <2>1
    <2>4. name \in Path /\ Reason(name, boot) = "kept"  BY DEF PolicyInvariant, Typed, AllKept
    <2>5. readers' \in [1..Jobs -> Reading]  BY <1>1, <2>1, <2>4 DEF Reading
    <2>6. Typed'  BY <2>1, <2>2, <2>5 DEF PolicyInvariant, Typed
    <2>7. Untouched' /\ Agreed'  BY <2>2 DEF Untouched, Agreed, Early
    <2>8. AllKept'
      <3>1. \A q \in 1..Jobs : Busy(q)' => Reason(readers'[q].name, boot) = "kept"
        BY <2>3, <2>4 DEF PolicyInvariant, AllKept, Busy
      <3> QED  BY <2>1, <2>2, <3>1 DEF PolicyInvariant, AllKept
    <2> QED  BY <2>6, <2>7, <2>8 DEF PolicyInvariant
  <1>3. CASE Join(r)
    <2>1. Busy(r) /\ readers[r].name \in Path /\ Reason(readers[r].name, boot) = "kept"
      BY <1>3, BusyFacts, ReadingFacts DEF Join, PolicyInvariant, AllKept
    <2>2. /\ readers' = [readers EXCEPT ![r] = Idle]
          /\ phase = "read" /\ phase' \in {"read", "failed"}
          /\ DOMAIN files' \subseteq DOMAIN files \cup {readers[r].name}
          /\ UNCHANGED <<repo, ask, boot, base, pending, total, excluded, loaded>>
      BY <1>3 DEF Join, Fail
    <2>3. readers'[r] = Idle /\ \A q \in 1..Jobs \ {r} : readers'[q] = readers[q]
      BY <1>1, <2>2
    <2>4. readers' \in [1..Jobs -> Reading]  BY <1>1, <2>2 DEF Reading
    <2>5. Typed'  BY <2>1, <2>2, <2>4 DEF PolicyInvariant, Typed, Phases
    <2>6. Untouched' /\ Agreed'  BY <2>2 DEF Untouched, Agreed, Early
    <2>7. AllKept'
      <3>1. \A q \in 1..Jobs : Busy(q)' => Reason(readers'[q].name, boot) = "kept"
        BY <2>3 DEF PolicyInvariant, AllKept, Busy
      <3> QED  BY <2>1, <2>2, <3>1 DEF PolicyInvariant, AllKept
    <2> QED  BY <2>5, <2>6, <2>7 DEF PolicyInvariant
  <1> QED  BY <1>2, <1>3

\* What ends a capture or a check changes nothing that was captured.
LEMMA EndingPolicy ==
    ASSUME PolicyInvariant, Capture \/ Load \/ TimeOut
    PROVE  PolicyInvariant'
  <1>1. /\ UNCHANGED <<repo, ask, boot, base, pending, readers, total, files, excluded>>
        /\ phase' \in {"load", "accepted", "failed"}
        /\ phase' = "accepted" => ValidConfig(loaded')
    BY DEF Capture, Load, TimeOut, Fail
  <1>2. Typed' /\ Untouched'  BY <1>1 DEF PolicyInvariant, Typed, Untouched, Early, Phases
  <1>3. AllKept'  BY <1>1 DEF PolicyInvariant, AllKept, Busy
  <1>4. Agreed'
    <2> SUFFICES ASSUME phase' = "accepted"
                 PROVE  SameExclusions(loaded', boot') /\ excluded' \cap loaded'.protected = {}
      BY DEF Agreed
    <2>1. SameExclusions(loaded', boot) /\ excluded \cap loaded'.protected = {}
      BY <1>1 DEF ValidConfig
    <2> QED  BY <1>1, <2>1
  <1> QED  BY <1>2, <1>3, <1>4 DEF PolicyInvariant

LEMMA PolicyStep == PolicyInvariant /\ [Next]_vars => PolicyInvariant'
  <1> SUFFICES ASSUME PolicyInvariant, [Next]_vars  PROVE PolicyInvariant'  OBVIOUS
  <1>1. CASE Reader \/ User  BY <1>1, ReaderPolicy
  <1>2. CASE Resolving  BY <1>2, ResolvingPolicy
  <1>3. CASE ReadBase \/ ReadObjects \/ ListWorktree  BY <1>3, ListingPolicy
  <1>4. CASE \E r \in 1..Jobs : StartReader(r) \/ Join(r)  BY <1>4, HandingPolicy
  <1>5. CASE Capture \/ Load \/ TimeOut  BY <1>5, EndingPolicy
  <1>6. CASE UNCHANGED vars
    BY <1>6 DEF vars, PolicyInvariant, Typed, Untouched, AllKept, Agreed, Busy
  <1> QED  BY <1>1, <1>2, <1>3, <1>4, <1>5, <1>6 DEF Next, Program, Resolving

THEOREM PolicyHolds == Spec => []PolicyInvariant
  BY PolicyInit, PolicyStep, PTL DEF Spec

\* Whatever is edited, staged or moved between the reading of the policy and the
\* capture: a check that goes on evaluates a policy over a capture made under
\* that policy's own exclusions, which left out nothing it protects.
THEOREM PolicyOfTheCapture == Spec => []CapturedUnderItsPolicy
  <1>1. PolicyInvariant => CapturedUnderItsPolicy
    <2> SUFFICES ASSUME PolicyInvariant, phase = "accepted"
                 PROVE  /\ \A p \in excluded : Reason(p, loaded) # "kept" /\ p \notin loaded.protected
                        /\ \A p \in DOMAIN files \cup DOMAIN base.files : Reason(p, loaded) = "kept"
      BY DEF CapturedUnderItsPolicy
    <2>1. SameExclusions(loaded, boot) /\ excluded \cap loaded.protected = {}
      BY DEF PolicyInvariant, Agreed
    <2>2. \A p : Reason(p, loaded) = Reason(p, boot)  BY <2>1, SameReason
    <2> QED  BY <2>1, <2>2 DEF PolicyInvariant, AllKept
  <1> QED  BY <1>1, PolicyHolds, PTL

-----------------------------------------------------------------------------
(* The files                                                                *)

\* A name is with one reader, waits for one, or has been read.
Distinct ==
    /\ \A r, q \in 1..Jobs : Busy(r) /\ Busy(q) /\ readers[r].name = readers[q].name => r = q
    /\ \A r \in 1..Jobs : Busy(r) => readers[r].name \notin pending \cup DOMAIN files
    /\ pending \cap DOMAIN files = {}

\* A path that nobody touched since the listing is excluded, read, or still going
\* to be; what was read was there.
There ==
    /\ DOMAIN held = Path
    /\ \A p \in DOMAIN files : files[p] \in held[p]
    /\ \A p \in Path, v \in Version : held[p] = {v} =>
         \/ p \in excluded \cup DOMAIN files \cup pending
         \/ \E r \in 1..Jobs : Busy(r) /\ readers[r].name = p /\ readers[r].at # "gone"

Sum(c) == c[Cfg] + c[Doc] + c[Rule] + c[Src]

\* c is a share of the total for each path: enough for what was read of it and
\* for what its reader is going to read.
Covers(c) ==
    /\ \A p \in DOMAIN files : SizeOf[files[p]] <= c[p]
    /\ \A r \in 1..Jobs :
         /\ readers[r].at = "open" => readers[r].size <= c[readers[r].name]
         /\ readers[r].at = "done" => SizeOf[readers[r].bytes] <= c[readers[r].name]

\* A total that grew too large has left an error with some reader.
Claimed ==
    /\ \E c \in [Path -> Nat] : Covers(c) /\ Sum(c) <= total
    /\ total <= MaxBytes \/ \E r \in 1..Jobs : readers[r].at = "error"
    /\ \A p \in DOMAIN files : files[p] \in Version /\ SizeOf[files[p]] <= MaxFile
    /\ \A r \in 1..Jobs :
         /\ readers[r].at = "open" => readers[r].size <= MaxFile
         /\ readers[r].at = "done" =>
              SizeOf[readers[r].bytes] <= MaxFile /\ readers[r].bytes \in held[readers[r].name]
    /\ \A p \in Path : repo.work[p] \in held[p]

\* Objects are read at once.
ObjectsRead == WithinLimits(files) /\ pending = {} /\ \A r \in 1..Jobs : ~Busy(r)

Worktree == ask.selection = "worktree"

FilesInvariant ==
    /\ WithinLimits(base.files)
    /\ FilesWereThere
    /\ phase = "read" => Distinct /\ There /\ (IF Worktree THEN Claimed ELSE ObjectsRead)

\* Replacing one share makes the sum grow by no more than the new one.
LEMMA ShareFacts ==
    ASSUME NEW c \in [Path -> Nat], NEW p \in Path, NEW k \in Nat, NEW d, d = [c EXCEPT ![p] = k]
    PROVE  /\ d \in [Path -> Nat] /\ d[p] = k /\ \A q \in Path \ {p} : d[q] = c[q]
           /\ Sum(c) \in Nat /\ Sum(d) <= Sum(c) + k
  <1>1. d \in [Path -> Nat] /\ d[p] = k /\ \A q \in Path \ {p} : d[q] = c[q]  OBVIOUS
  <1>2. /\ c[Cfg] \in Nat /\ c[Doc] \in Nat /\ c[Rule] \in Nat /\ c[Src] \in Nat
        /\ Cfg \in Path /\ Doc \in Path /\ Rule \in Path /\ Src \in Path
        /\ p \in {Cfg, Rule, Src, Doc}
        /\ Cfg # Doc /\ Cfg # Rule /\ Cfg # Src /\ Doc # Rule /\ Doc # Src /\ Rule # Src
    BY DEF Path, Cfg, Doc, Rule, Src
  <1>3. Sum(d) <= Sum(c) + k /\ Sum(c) \in Nat
    <2>1. CASE p = Cfg  BY <1>1, <1>2, <2>1 DEF Sum
    <2>2. CASE p = Doc  BY <1>1, <1>2, <2>2 DEF Sum
    <2>3. CASE p = Rule  BY <1>1, <1>2, <2>3 DEF Sum
    <2>4. CASE p = Src  BY <1>1, <1>2, <2>4 DEF Sum
    <2> QED  BY <1>2, <2>1, <2>2, <2>3, <2>4
  <1> QED  BY <1>1, <1>3

\* What the shares cover fits when their sum does.
LEMMA SharesFit ==
    ASSUME NEW c \in [Path -> Nat], NEW fs, DOMAIN fs \subseteq Path,
           \A p \in DOMAIN fs : fs[p] \in Version /\ SizeOf[fs[p]] <= MaxFile /\ SizeOf[fs[p]] <= c[p],
           Sum(c) <= MaxBytes
    PROVE  WithinLimits(fs)
  <1>1. /\ Cfg \in Path /\ Doc \in Path /\ Rule \in Path /\ Src \in Path  BY DEF Path
  <1>2. \A p \in Path : Size(fs, p) \in Nat /\ c[p] \in Nat /\ Size(fs, p) <= c[p]
    BY CaptureAssumption DEF Size
  <1>3. Bytes(fs) \in Nat /\ Sum(c) \in Nat /\ Bytes(fs) <= Sum(c)
    <2>1. /\ Size(fs, Cfg) \in Nat /\ Size(fs, Doc) \in Nat /\ Size(fs, Rule) \in Nat /\ Size(fs, Src) \in Nat
          /\ c[Cfg] \in Nat /\ c[Doc] \in Nat /\ c[Rule] \in Nat /\ c[Src] \in Nat
          /\ Size(fs, Cfg) <= c[Cfg] /\ Size(fs, Doc) <= c[Doc]
          /\ Size(fs, Rule) <= c[Rule] /\ Size(fs, Src) <= c[Src]
      BY <1>1, <1>2
    <2> QED  BY <2>1 DEF Bytes, Sum
  <1>4. Bytes(fs) <= MaxBytes  BY <1>3, CaptureAssumption
  <1> QED  BY <1>4 DEF WithinLimits

LEMMA NothingFits == WithinLimits(Nothing)
  <1>1. \A p : Size(Nothing, p) = 0  BY NothingFacts DEF Size
  <1>2. Bytes(Nothing) = 0  BY <1>1 DEF Bytes
  <1> QED  BY <1>2, NothingFacts, CaptureAssumption DEF WithinLimits

LEMMA FilesInit == Init => FilesInvariant
  BY NothingFits DEF Init, FilesInvariant, FilesWereThere, Unread

LEMMA UserFiles ==
    ASSUME PolicyInvariant, FilesInvariant, User
    PROVE  FilesInvariant'
  <1>1. Typed  BY DEF PolicyInvariant
  <1>2. /\ UNCHANGED <<ask, phase, base, pending, files, excluded, readers, total>>
        /\ \/ repo'.work = repo.work /\ held' = held
           \/ \E p \in Path, v \in Held :
                /\ repo'.work = [repo.work EXCEPT ![p] = v] /\ repo.work[p] # v
                /\ held' = IF phase = "read" /\ ask.selection = "worktree"
                           THEN [held EXCEPT ![p] = @ \cup {v}] ELSE held
    BY <1>1, UserMoves DEF captured
  <1>3. CASE held' = held /\ (repo'.work = repo.work \/ ~(phase = "read" /\ Worktree))
    <2>1. /\ WithinLimits(files)' = WithinLimits(files) /\ WithinLimits(base.files)' = WithinLimits(base.files)
      BY <1>2
    <2>2. FilesWereThere'  BY <1>2, <1>3 DEF FilesInvariant, FilesWereThere
    <2>3. phase = "read" => Distinct' /\ There'
      BY <1>2, <1>3 DEF FilesInvariant, Distinct, There, Busy
    <2>4. phase = "read" /\ Worktree => Claimed'
      BY <1>2, <1>3 DEF FilesInvariant, Claimed, Covers, Worktree
    <2>5. phase = "read" /\ ~Worktree => ObjectsRead'
      BY <1>2 DEF FilesInvariant, ObjectsRead, Busy
    <2>6. Worktree' = Worktree  BY <1>2 DEF Worktree
    <2> QED  BY <1>2, <2>1, <2>2, <2>3, <2>4, <2>5, <2>6 DEF FilesInvariant
  <1>4. CASE /\ phase = "read" /\ Worktree
             /\ \E p \in Path, v \in Held :
                  /\ repo'.work = [repo.work EXCEPT ![p] = v] /\ repo.work[p] # v
                  /\ held' = [held EXCEPT ![p] = @ \cup {v}]
    <2>1. PICK p \in Path, v \in Held :
            /\ repo'.work = [repo.work EXCEPT ![p] = v] /\ repo.work[p] # v
            /\ held' = [held EXCEPT ![p] = @ \cup {v}]
      BY <1>4
    <2>2. Distinct /\ There /\ Claimed  BY <1>4 DEF FilesInvariant
    <2>3. /\ DOMAIN held' = Path /\ held'[p] = held[p] \cup {v}
          /\ \A q \in Path \ {p} : held'[q] = held[q]
          /\ repo'.work[p] = v /\ \A q \in Path \ {p} : repo'.work[q] = repo.work[q]
      BY <1>1, <2>1, <2>2 DEF There, Typed, Tree
    <2>4. repo.work[p] \in held[p] /\ repo.work[p] # v  BY <2>1, <2>2 DEF Claimed
    <2>5. There'
      <3>1. \A q \in DOMAIN files : q \in Path /\ files[q] \in held'[q]
        BY <1>1, <2>2, <2>3 DEF There, Typed
      <3>2. \A q \in Path, w \in Version : held'[q] = {w} => held[q] = {w}
        BY <2>3, <2>4
      <3> QED  BY <1>2, <2>2, <2>3, <3>1, <3>2 DEF There, Busy
    <2>6. Distinct'  BY <1>2, <2>2 DEF Distinct, Busy
    <2>7. Claimed'
      <3>1. \A q \in Path : repo'.work[q] \in held'[q]  BY <2>2, <2>3 DEF Claimed
      <3>2. \A q \in 1..Jobs : readers[q].at = "done" => readers[q].bytes \in held'[readers[q].name]
        <4>1. \A q \in 1..Jobs : readers[q].at = "done" => readers[q].name \in Path
          BY <1>1, BusyFacts, ReadingFacts
        <4> QED  BY <2>2, <2>3, <4>1 DEF Claimed
      <3>3. \E c \in [Path -> Nat] : Covers(c)' /\ Sum(c) <= total
        BY <1>2, <2>2 DEF Claimed, Covers
      <3> QED  BY <1>2, <2>2, <3>1, <3>2, <3>3 DEF Claimed
    <2>8. Worktree' /\ phase' = "read" /\ WithinLimits(base.files)'
      BY <1>2, <1>4 DEF Worktree, FilesInvariant
    <2> QED  BY <2>5, <2>6, <2>7, <2>8 DEF FilesInvariant, FilesWereThere
  <1> QED  BY <1>2, <1>3, <1>4 DEF Worktree
LEMMA ResolvingFiles ==
    ASSUME PolicyInvariant, FilesInvariant, Resolving
    PROVE  FilesInvariant'
  <1>1. base' = base /\ phase' \in Early \cup {"list", "failed"}
    BY ResolvingMoves DEF PolicyInvariant
  <1>2. WithinLimits(base.files)'  BY <1>1 DEF FilesInvariant
  <1> QED  BY <1>1, <1>2 DEF FilesInvariant, FilesWereThere, Early

LEMMA BaseFiles ==
    ASSUME PolicyInvariant, FilesInvariant, ReadBase
    PROVE  FilesInvariant'
  <1>1. /\ UNCHANGED <<repo, ask, pending, readers, total, files, held>>
        /\ phase \in {"list", "read"} /\ phase' \in {phase, "failed"}
        /\ excluded \subseteq excluded'
    BY DEF ReadBase, Fail
  <1>2. WithinLimits(base'.files)
    <2> DEFINE kept == Keep(TreeOf[pins.base], boot)
    <2>1. base' = base \/ (base' = [read |-> TRUE, files |-> kept] /\ WithinLimits(kept))
      BY DEF ReadBase
    <2> HIDE DEF kept
    <2>2. base' = base \/ (base'.files = kept /\ WithinLimits(kept))  BY <2>1
    <2> QED  BY <2>2 DEF FilesInvariant
  <1>3. FilesWereThere'  BY <1>1 DEF FilesWereThere
  <1>4. CASE phase = "read"
    <2>1. Distinct' /\ There'  BY <1>1, <1>4 DEF FilesInvariant, Distinct, There, Busy
    <2>2. Worktree => Claimed'  BY <1>1, <1>4 DEF FilesInvariant, Claimed, Covers
    <2>3. ~Worktree => ObjectsRead'  BY <1>1, <1>4 DEF FilesInvariant, ObjectsRead, Busy
    <2>4. Worktree' = Worktree  BY <1>1 DEF Worktree
    <2> QED  BY <1>2, <1>3, <2>1, <2>2, <2>3, <2>4 DEF FilesInvariant
  <1>5. CASE phase # "read"
    <2>1. phase' # "read"  BY <1>1, <1>5
    <2> QED  BY <1>2, <1>3, <2>1 DEF FilesInvariant
  <1> QED  BY <1>4, <1>5

\* When nobody has read anything, there is nothing to be wrong about.
LEMMA ObjectFiles ==
    ASSUME PolicyInvariant, FilesInvariant, ReadObjects
    PROVE  FilesInvariant'
  <1> DEFINE tree == IF ask.selection = "staged" THEN repo.index ELSE TreeOf[pins.head]
             kept == Keep(tree, boot)
  <1>1. /\ UNCHANGED <<ask, base, pending, readers>> /\ phase = "list" /\ ask.selection # "worktree"
        /\ excluded' = excluded \cup (Present(tree) \ DOMAIN kept)
        /\ held' = [p \in Path |-> {tree[p]}]
        /\ (files' = kept /\ phase' = "read" /\ WithinLimits(kept)) \/ phase' = "failed"
    BY DEF ReadObjects, Fail
  <1>2. pending = {} /\ readers = [r \in 1..Jobs |-> Idle]
    BY <1>1 DEF PolicyInvariant, Untouched
  <1>3. /\ DOMAIN kept \subseteq Path /\ \A p \in DOMAIN kept : kept[p] = tree[p]
        /\ \A p \in Path : tree[p] # Absent => p \in Present(tree)
    BY KeepFacts
  <1> HIDE DEF tree, kept
  <1>4. WithinLimits(base.files)' /\ FilesWereThere'
    BY <1>1 DEF FilesInvariant, FilesWereThere
  <1>5. CASE phase' = "failed"  BY <1>4, <1>5 DEF FilesInvariant
  <1>6. CASE files' = kept /\ phase' = "read" /\ WithinLimits(kept)
    <2>1. \A r \in 1..Jobs : ~Busy(r)'  BY <1>1, <1>2 DEF Busy
    <2>2. Distinct'  BY <1>1, <1>2, <2>1 DEF Distinct
    <2>3. There'
      <3>1. DOMAIN held' = Path /\ \A p \in Path : held'[p] = {tree[p]}  BY <1>1
      <3>2. \A p \in DOMAIN files' : files'[p] \in held'[p]  BY <1>3, <1>6, <3>1
      <3>3. ASSUME NEW p \in Path, NEW v \in Version, held'[p] = {v}
            PROVE  p \in excluded' \cup DOMAIN files'
        <4>1. tree[p] = v /\ v # Absent  BY <3>1, <3>3, CaptureAssumption
        <4> QED  BY <1>1, <1>3, <1>6, <4>1
      <3> QED  BY <3>1, <3>2, <3>3 DEF There
    <2>4. ObjectsRead'  BY <1>1, <1>2, <1>6, <2>1 DEF ObjectsRead
    <2>5. ~Worktree'  BY <1>1 DEF Worktree
    <2> QED  BY <1>4, <2>2, <2>3, <2>4, <2>5 DEF FilesInvariant
  <1> QED  BY <1>1, <1>5, <1>6

LEMMA WorktreeFiles ==
    ASSUME PolicyInvariant, FilesInvariant, ListWorktree
    PROVE  FilesInvariant'
  <1> DEFINE names == Present(repo.work) \cup Present(repo.index)
             kept == Selected(names, boot)
  <1>1. /\ UNCHANGED <<repo, ask, base, readers, total, files>>
        /\ phase = "list" /\ ask.selection = "worktree" /\ phase' = "read"
        /\ excluded' = excluded \cup (names \ kept) /\ pending' = kept
        /\ held' = [p \in Path |-> {repo.work[p]}]
    BY DEF ListWorktree
  <1>2. files = Nothing /\ total = 0 /\ readers = [r \in 1..Jobs |-> Idle]
    BY <1>1 DEF PolicyInvariant, Untouched
  <1>3. \A p \in Path : repo.work[p] # Absent => p \in names  BY DEF Present
  <1> HIDE DEF names, kept
  <1>4. WithinLimits(base.files)' /\ FilesWereThere'
    BY <1>1 DEF FilesInvariant, FilesWereThere
  <1>5. \A r \in 1..Jobs : ~Busy(r)' /\ readers'[r].at = "idle"  BY <1>1, <1>2 DEF Busy, Idle
  <1>6. DOMAIN files' = {}  BY <1>1, <1>2, NothingFacts
  <1>7. Distinct'  BY <1>5, <1>6 DEF Distinct
  <1>8. DOMAIN held' = Path /\ \A p \in Path : held'[p] = {repo.work[p]}  BY <1>1
  <1>9. There'
    <2>1. ASSUME NEW p \in Path, NEW v \in Version, held'[p] = {v}
          PROVE  p \in excluded' \cup pending'
      <3>1. repo.work[p] = v /\ v # Absent  BY <1>8, <2>1, CaptureAssumption
      <3> QED  BY <1>1, <1>3, <3>1
    <2> QED  BY <1>6, <1>8, <2>1 DEF There
  <1>10. Claimed'
    <2> DEFINE none == [p \in Path |-> 0]
    <2>1. none \in [Path -> Nat] /\ Sum(none) = 0
      BY DEF Sum, Path
    <2>2. Covers(none)'  BY <1>5, <1>6 DEF Covers
    <2>3. total' = 0 /\ total' <= MaxBytes  BY <1>1, <1>2, CaptureAssumption
    <2> HIDE DEF none
    <2>4. \E c \in [Path -> Nat] : Covers(c)' /\ Sum(c) <= total'  BY <2>1, <2>2, <2>3
    <2>5. \A p \in Path : repo'.work[p] \in held'[p]  BY <1>1, <1>8
    <2> QED  BY <1>5, <1>6, <2>3, <2>4, <2>5 DEF Claimed
  <1>11. Worktree'  BY <1>1 DEF Worktree
  <1> QED  BY <1>4, <1>7, <1>9, <1>10, <1>11 DEF FilesInvariant

LEMMA EndingFiles ==
    ASSUME PolicyInvariant, FilesInvariant, Capture \/ Load \/ TimeOut
    PROVE  FilesInvariant'
  <1>1. CASE Capture
    <2>1. /\ UNCHANGED <<base, files, excluded, held>> /\ phase' \in {"load", "failed"} /\ phase = "read"
          /\ pending = {} /\ \A r \in 1..Jobs : readers[r] = Idle
      BY <1>1 DEF Capture
    <2>2. \A r \in 1..Jobs : ~Busy(r) /\ readers[r].at # "error"  BY <2>1 DEF Busy, Idle
    <2>3. There  BY <2>1 DEF FilesInvariant
    <2>4. DOMAIN files \subseteq Path  BY DEF PolicyInvariant, Typed
    <2>5. WithinLimits(files)
      <3>1. CASE Worktree
        <4>1. Claimed  BY <2>1, <3>1 DEF FilesInvariant
        <4>2. PICK c \in [Path -> Nat] : Covers(c) /\ Sum(c) <= total  BY <4>1 DEF Claimed
        <4>3. total <= MaxBytes /\ total \in Nat  BY <2>2, <4>1 DEF Claimed, PolicyInvariant, Typed
        <4>4. Sum(c) \in Nat
          BY DEF Sum, Path
        <4>5. Sum(c) <= MaxBytes  BY <4>2, <4>3, <4>4, CaptureAssumption
        <4>6. \A p \in DOMAIN files :
                files[p] \in Version /\ SizeOf[files[p]] <= MaxFile /\ SizeOf[files[p]] <= c[p]
          BY <4>1, <4>2 DEF Claimed, Covers
        <4> QED  BY <2>4, <4>5, <4>6, SharesFit
      <3>2. CASE ~Worktree  BY <2>1, <3>2 DEF FilesInvariant, ObjectsRead
      <3> QED  BY <3>1, <3>2
    <2>6. \A p \in Path : held[p] \in {{v} : v \in Version} => p \in DOMAIN files \cup excluded
      BY <2>1, <2>2, <2>3 DEF There
    <2>7. WithinLimits(files)' /\ WithinLimits(base.files)'  BY <2>1, <2>5 DEF FilesInvariant
    <2>8. FilesWereThere'  BY <2>1, <2>3, <2>6, <2>7 DEF There, FilesWereThere
    <2> QED  BY <2>1, <2>7, <2>8 DEF FilesInvariant
  <1>2. CASE Load
    <2>1. UNCHANGED <<base, files, excluded, held>> /\ phase = "load" /\ phase' \in {"accepted", "failed"}
      BY <1>2 DEF Load
    <2>2. WithinLimits(files)' = WithinLimits(files) /\ WithinLimits(base.files)' = WithinLimits(base.files)
      BY <2>1
    <2> QED  BY <2>1, <2>2 DEF FilesInvariant, FilesWereThere
  <1>3. CASE TimeOut
    <2>1. base' = base /\ phase' = "failed"  BY <1>3 DEF TimeOut, Fail
    <2>2. WithinLimits(base.files)'  BY <2>1 DEF FilesInvariant
    <2> QED  BY <2>1, <2>2 DEF FilesInvariant, FilesWereThere
  <1> QED  BY <1>1, <1>2, <1>3

-----------------------------------------------------------------------------
(* The files of a worktree, read by several readers                         *)

LEMMA StartFiles ==
    ASSUME PolicyInvariant, FilesInvariant, NEW r \in 1..Jobs, StartReader(r)
    PROVE  FilesInvariant'
  <1>1. PICK name \in pending :
          /\ readers' = [readers EXCEPT ![r] = [at |-> "stat", name |-> name, size |-> 0]]
          /\ pending' = pending \ {name}
    BY DEF StartReader
  <1>2. phase = "read" /\ readers[r] = Idle
        /\ UNCHANGED <<repo, ask, phase, base, total, files, excluded, held>>
    BY DEF StartReader
  <1>3. Typed /\ Distinct /\ There  BY <1>2 DEF PolicyInvariant, FilesInvariant
  <1>4. /\ readers'[r] = [at |-> "stat", name |-> name, size |-> 0]
        /\ readers'[r].at = "stat" /\ readers'[r].name = name /\ Busy(r)'
        /\ \A q \in 1..Jobs \ {r} : readers'[q] = readers[q] /\ (Busy(q)' <=> Busy(q))
    BY <1>1, <1>3 DEF Typed, Busy, Idle
  <1>5. Claimed  BY <1>1, <1>2 DEF FilesInvariant, ObjectsRead
  <1>6. Worktree /\ Worktree'  BY <1>1, <1>2 DEF FilesInvariant, ObjectsRead, Worktree
  <1>7. ~Busy(r) /\ readers[r].at = "idle"  BY <1>2 DEF Busy, Idle
  <1>8. Distinct'  BY <1>1, <1>2, <1>3, <1>4 DEF Distinct
  <1>9. There'
    <2>1. ASSUME NEW p \in Path, NEW v \in Version, held[p] = {v}
          PROVE  \/ p \in excluded \cup DOMAIN files \cup pending'
                 \/ \E q \in 1..Jobs : Busy(q)' /\ readers'[q].name = p /\ readers'[q].at # "gone"
      <3>1. CASE p = name  BY <1>4, <3>1
      <3>2. CASE p # name /\ p \in excluded \cup DOMAIN files \cup pending  BY <1>1, <3>2
      <3>3. CASE \E q \in 1..Jobs : Busy(q) /\ readers[q].name = p /\ readers[q].at # "gone"
        BY <1>4, <1>7, <3>3
      <3> QED  BY <1>3, <2>1, <3>1, <3>2, <3>3 DEF There
    <2> QED  BY <1>2, <1>3, <2>1 DEF There
  <1>10. Claimed'
    <2>1. \E c \in [Path -> Nat] : Covers(c)' /\ Sum(c) <= total
      BY <1>2, <1>4, <1>5 DEF Claimed, Covers
    <2>2. total <= MaxBytes \/ \E q \in 1..Jobs : readers'[q].at = "error"
      BY <1>4, <1>5, <1>7 DEF Claimed
    <2> QED  BY <1>2, <1>4, <1>5, <2>1, <2>2 DEF Claimed
  <1>11. WithinLimits(base.files)' /\ FilesWereThere'
    BY <1>2 DEF FilesInvariant, FilesWereThere
  <1> QED  BY <1>6, <1>8, <1>9, <1>10, <1>11 DEF FilesInvariant
\* A reader that goes on with its name disturbs nothing but its own claim, and may
\* only find the name gone when it was.
LEMMA GoingOnFiles ==
    ASSUME PolicyInvariant, FilesInvariant, Reader, NEW r \in 1..Jobs,
           \A q \in 1..Jobs \ {r} : readers'[q] = readers[q],
           Busy(r), readers'[r] # Idle, readers'[r].name = readers[r].name,
           readers'[r].at = "gone" => repo.work[readers[r].name] = Absent,
           phase = "read" /\ Worktree => Claimed'
    PROVE  FilesInvariant'
  <1>1. Typed /\ UNCHANGED <<repo, ask, phase, base, pending, files, excluded, held>>
    BY ReaderMoves DEF PolicyInvariant, captured
  <1>2. WithinLimits(base.files)' /\ FilesWereThere'
    BY <1>1 DEF FilesInvariant, FilesWereThere
  <1>3. CASE phase = "read"
    <2>1. Distinct /\ There /\ Claimed /\ Worktree  BY <1>3 DEF FilesInvariant, ObjectsRead
    <2>2. Worktree'  BY <1>1, <2>1 DEF Worktree
    <2>3. \A q \in 1..Jobs : (Busy(q)' <=> Busy(q)) /\ readers'[q].name = readers[q].name
      BY DEF Busy
    <2>4. Distinct'  BY <1>1, <2>1, <2>3 DEF Distinct
    <2>5. There'
      <3>1. ASSUME NEW p \in Path, NEW v \in Version, held[p] = {v},
                   p \notin excluded \cup DOMAIN files \cup pending
            PROVE  \E q \in 1..Jobs : Busy(q)' /\ readers'[q].name = p /\ readers'[q].at # "gone"
        <4>1. PICK q \in 1..Jobs : Busy(q) /\ readers[q].name = p /\ readers[q].at # "gone"
          BY <2>1, <3>1 DEF There
        <4>2. repo.work[p] # Absent  BY <2>1, <3>1, CaptureAssumption DEF Claimed
        <4>3. readers'[q].at # "gone"  BY <4>1, <4>2
        <4> QED  BY <2>3, <4>1, <4>3
      <3> QED  BY <1>1, <2>1, <3>1 DEF There
    <2> QED  BY <1>1, <1>2, <1>3, <2>1, <2>2, <2>4, <2>5 DEF FilesInvariant
  <1>4. CASE phase # "read"  BY <1>1, <1>2, <1>4 DEF FilesInvariant
  <1> QED  BY <1>3, <1>4

LEMMA StatFiles ==
    ASSUME PolicyInvariant, FilesInvariant, NEW r \in 1..Jobs, Stat(r)
    PROVE  FilesInvariant'
  <1>1. PICK name, v : name = readers[r].name /\ v = repo.work[readers[r].name]  OBVIOUS
  <1>2. Typed  BY DEF PolicyInvariant
  <1>3. /\ Busy(r) /\ readers[r].at = "stat" /\ name \in Path
        /\ \/ /\ readers' = [readers EXCEPT ![r] = [at |-> "error", name |-> name, size |-> 0]]
              /\ total' = total
           \/ /\ readers' = [readers EXCEPT ![r] = [at |-> "gone", name |-> name, size |-> 0]]
              /\ total' = total /\ v = Absent
           \/ /\ v \in Version /\ SizeOf[v] \in Nat /\ SizeOf[v] <= MaxFile
              /\ total' = total + SizeOf[v]
              /\ \/ readers' = [readers EXCEPT ![r] = [at |-> "error", name |-> name, size |-> SizeOf[v]]]
                 \/ /\ total' <= MaxBytes
                    /\ readers' = [readers EXCEPT ![r] = [at |-> "open", name |-> name, size |-> SizeOf[v]]]
    BY <1>1, <1>2, StatFacts
  <1>4. PICK x : /\ readers' = [readers EXCEPT ![r] = x] /\ x = [at |-> x.at, name |-> name, size |-> x.size]
                 /\ x.at \in {"error", "gone", "open"}
                 /\ x.at = "gone" => v = Absent /\ total' = total
                 /\ x.at = "error" => total' = total \/ (SizeOf[v] \in Nat /\ total' = total + SizeOf[v])
                 /\ x.at = "open" => /\ v \in Version /\ SizeOf[v] \in Nat /\ SizeOf[v] <= MaxFile
                                     /\ x.size = SizeOf[v] /\ total' = total + x.size /\ total' <= MaxBytes
    <2>1. PICK at, size :
            /\ at \in {"error", "gone", "open"}
            /\ readers' = [readers EXCEPT ![r] = [at |-> at, name |-> name, size |-> size]]
            /\ at = "gone" => v = Absent /\ total' = total
            /\ at = "error" => total' = total \/ (SizeOf[v] \in Nat /\ total' = total + SizeOf[v])
            /\ at = "open" => /\ v \in Version /\ SizeOf[v] \in Nat /\ SizeOf[v] <= MaxFile
                              /\ size = SizeOf[v] /\ total' = total + size /\ total' <= MaxBytes
      BY <1>3
    <2>2. PICK x : x = [at |-> at, name |-> name, size |-> size]  OBVIOUS
    <2>3. x.at = at /\ x.name = name /\ x.size = size  BY <2>2
    <2> QED  BY <2>1, <2>2, <2>3
  <1>5. /\ UNCHANGED <<repo, phase, files, held>> /\ total \in Nat
    BY <1>2 DEF Stat, Typed
  <1>6. readers'[r] = x /\ \A q \in 1..Jobs \ {r} : readers'[q] = readers[q]
    BY <1>2, <1>4 DEF Typed
  <1>7. x # Idle /\ x.name = name  BY <1>4 DEF Idle
  <1>8. ASSUME phase = "read", Worktree  PROVE Claimed'
    <2>1. Claimed /\ Distinct  BY <1>8 DEF FilesInvariant
    <2>2. PICK c \in [Path -> Nat] : Covers(c) /\ Sum(c) <= total  BY <2>1 DEF Claimed
    <2>3. Sum(c) \in Nat  BY DEF Sum, Path
    <2>4. \E d \in [Path -> Nat] : Covers(d)' /\ Sum(d) <= total'
      <3>1. CASE x.at # "open"
        <4>1. Covers(c)'
          <5>1. \A q \in 1..Jobs : readers'[q].at \in {"open", "done"} => readers'[q] = readers[q]
            BY <1>4, <1>6, <3>1
          <5> QED  BY <1>5, <2>2, <5>1 DEF Covers
        <4>2. Sum(c) <= total'  BY <1>4, <1>5, <2>2, <2>3, <3>1
        <4> QED  BY <4>1, <4>2
      <3>2. CASE x.at = "open"
        <4>1. x.size \in Nat /\ total' = total + x.size  BY <1>4, <3>2
        <4>2. PICK d : d = [c EXCEPT ![name] = x.size]  OBVIOUS
        <4>3. /\ d \in [Path -> Nat] /\ d[name] = x.size /\ \A p \in Path \ {name} : d[p] = c[p]
              /\ Sum(d) <= Sum(c) + x.size
          BY <1>3, <4>1, <4>2, ShareFacts
        <4>4. Sum(d) \in Nat  BY <4>3 DEF Sum, Path
        <4>5. Sum(d) <= total'  BY <1>5, <2>2, <2>3, <4>1, <4>3, <4>4
        <4>6. \A p \in DOMAIN files : p \in Path \ {name}
          BY <1>1, <1>2, <1>3, <2>1 DEF Distinct, Typed
        <4>7. ASSUME NEW q \in 1..Jobs, q # r, readers[q].at \in {"open", "done"}
              PROVE  readers[q].name \in Path \ {name}
          <5>1. Busy(q)  BY <1>2, <4>7, BusyFacts
          <5>2. readers[q].name \in Path  BY <1>2, <5>1, ReadingFacts
          <5> QED  BY <1>1, <1>3, <2>1, <4>7, <5>1, <5>2 DEF Distinct
        <4>8. Covers(d)'
          <5>1. \A p \in DOMAIN files : SizeOf[files[p]] <= d[p]
            BY <2>2, <4>3, <4>6 DEF Covers
          <5>2. ASSUME NEW q \in 1..Jobs
                PROVE  /\ readers'[q].at = "open" => readers'[q].size <= d[readers'[q].name]
                       /\ readers'[q].at = "done" => SizeOf[readers'[q].bytes] <= d[readers'[q].name]
            <6>1. CASE q = r  BY <1>6, <1>7, <3>2, <4>1, <4>3, <6>1
            <6>2. CASE q # r  BY <1>6, <2>2, <4>3, <4>7, <6>2 DEF Covers
            <6> QED  BY <6>1, <6>2
          <5> QED  BY <1>5, <5>1, <5>2 DEF Covers
        <4> QED  BY <4>3, <4>5, <4>8
      <3> QED  BY <3>1, <3>2
    <2>5. total' <= MaxBytes \/ \E q \in 1..Jobs : readers'[q].at = "error"
      <3>1. CASE \E q \in 1..Jobs : readers[q].at = "error"  BY <1>3, <1>6, <3>1
      <3>2. CASE total <= MaxBytes  BY <1>4, <1>6, <3>2
      <3> QED  BY <2>1, <3>1, <3>2 DEF Claimed
    <2>6. \A q \in 1..Jobs :
            /\ readers'[q].at = "open" => readers'[q].size <= MaxFile
            /\ readers'[q].at = "done" =>
                 SizeOf[readers'[q].bytes] <= MaxFile /\ readers'[q].bytes \in held[readers'[q].name]
      BY <1>4, <1>6, <2>1 DEF Claimed
    <2> QED  BY <1>5, <2>1, <2>4, <2>5, <2>6 DEF Claimed
  <1> QED  BY <1>1, <1>3, <1>4, <1>6, <1>7, <1>8, GoingOnFiles DEF Reader

LEMMA ReadFiles ==
    ASSUME PolicyInvariant, FilesInvariant, NEW r \in 1..Jobs, Read(r)
    PROVE  FilesInvariant'
  <1>1. PICK name, v, size : name = readers[r].name /\ v = repo.work[readers[r].name] /\ size = readers[r].size
    OBVIOUS
  <1>2. Typed  BY DEF PolicyInvariant
  <1>3. /\ Busy(r) /\ readers[r].at = "open" /\ name \in Path /\ size \in Nat
        /\ \/ readers' = [readers EXCEPT ![r] = [at |-> "error", name |-> name, size |-> size]]
           \/ /\ v \in Version /\ SizeOf[v] = size
              /\ readers' = [readers EXCEPT ![r] = [at |-> "done", name |-> name, bytes |-> v]]
    BY <1>1, <1>2, ReadFacts
  <1>4. PICK x : /\ readers' = [readers EXCEPT ![r] = x] /\ x.name = name /\ x # Idle
                 /\ x.at = "error" \/ (x.at = "done" /\ x.bytes = v /\ v \in Version /\ SizeOf[v] = size)
    <2>1. CASE readers' = [readers EXCEPT ![r] = [at |-> "error", name |-> name, size |-> size]]
      <3>1. PICK x : x = [at |-> "error", name |-> name, size |-> size]  OBVIOUS
      <3>2. x.at = "error" /\ x.name = name /\ x # Idle  BY <3>1 DEF Idle
      <3> QED  BY <2>1, <3>1, <3>2
    <2>2. CASE /\ v \in Version /\ SizeOf[v] = size
               /\ readers' = [readers EXCEPT ![r] = [at |-> "done", name |-> name, bytes |-> v]]
      <3>1. PICK x : x = [at |-> "done", name |-> name, bytes |-> v]  OBVIOUS
      <3>2. x.at = "done" /\ x.name = name /\ x.bytes = v /\ x # Idle  BY <3>1 DEF Idle
      <3> QED  BY <2>2, <3>1, <3>2
    <2> QED  BY <1>3, <2>1, <2>2
  <1>5. UNCHANGED <<repo, phase, files, held, total>>  BY DEF Read
  <1>6. readers'[r] = x /\ \A q \in 1..Jobs \ {r} : readers'[q] = readers[q]
    BY <1>2, <1>4 DEF Typed
  <1>7. ASSUME phase = "read", Worktree  PROVE Claimed'
    <2>1. Claimed  BY <1>7 DEF FilesInvariant
    <2>2. PICK c \in [Path -> Nat] : Covers(c) /\ Sum(c) <= total  BY <2>1 DEF Claimed
    <2>3. Covers(c)'
      <3>1. size <= c[name]  BY <1>1, <1>3, <2>2 DEF Covers
      <3>2. ASSUME NEW q \in 1..Jobs
            PROVE  /\ readers'[q].at = "open" => readers'[q].size <= c[readers'[q].name]
                   /\ readers'[q].at = "done" => SizeOf[readers'[q].bytes] <= c[readers'[q].name]
        <4>1. CASE q = r  BY <1>4, <1>6, <3>1, <4>1
        <4>2. CASE q # r  BY <1>6, <2>2, <4>2 DEF Covers
        <4> QED  BY <4>1, <4>2
      <3> QED  BY <1>5, <2>2, <3>2 DEF Covers
    <2>4. total <= MaxBytes \/ \E q \in 1..Jobs : readers'[q].at = "error"
      <3>1. ASSUME NEW q \in 1..Jobs, readers[q].at = "error"  PROVE readers'[q].at = "error"
        BY <1>3, <1>6, <3>1
      <3> QED  BY <2>1, <3>1 DEF Claimed
    <2>5. ASSUME NEW q \in 1..Jobs
          PROVE  /\ readers'[q].at = "open" => readers'[q].size <= MaxFile
                 /\ readers'[q].at = "done" =>
                      SizeOf[readers'[q].bytes] <= MaxFile /\ readers'[q].bytes \in held[readers'[q].name]
      <3>1. size <= MaxFile /\ v \in held[name]  BY <1>1, <1>3, <2>1 DEF Claimed
      <3>2. CASE q = r  BY <1>4, <1>6, <3>1, <3>2
      <3>3. CASE q # r  BY <1>6, <2>1, <3>3 DEF Claimed
      <3> QED  BY <3>2, <3>3
    <2>6. \E d \in [Path -> Nat] : Covers(d)' /\ Sum(d) <= total'  BY <1>5, <2>2, <2>3
    <2> QED  BY <1>5, <2>1, <2>4, <2>5, <2>6 DEF Claimed
  <1> QED  BY <1>1, <1>3, <1>4, <1>6, <1>7, GoingOnFiles DEF Reader

LEMMA JoinFiles ==
    ASSUME PolicyInvariant, FilesInvariant, NEW r \in 1..Jobs, Join(r)
    PROVE  FilesInvariant'
  <1>1. /\ phase = "read" /\ readers[r].at \in {"done", "gone", "error"}
        /\ readers' = [readers EXCEPT ![r] = Idle]
        /\ UNCHANGED <<repo, ask, base, pending, total, excluded, held>>
        /\ IF readers[r].at = "error" THEN phase' = "failed" /\ files' = files
           ELSE /\ phase' = phase
                /\ files' = IF readers[r].at = "gone" THEN files
                            ELSE [p \in DOMAIN files \cup {readers[r].name} |->
                                    IF p = readers[r].name THEN readers[r].bytes ELSE files[p]]
    BY DEF Join, Fail
  <1>2. Typed  BY DEF PolicyInvariant
  <1>3. Busy(r)  BY <1>1, <1>2, BusyFacts
  <1>4. /\ Distinct /\ There /\ Claimed /\ Worktree
    BY <1>1, <1>3 DEF FilesInvariant, ObjectsRead
  <1>5. PICK name, bytes : name = readers[r].name /\ bytes = readers[r].bytes  OBVIOUS
  <1>6. name \in Path /\ (readers[r].at = "done" => bytes \in Version)
    BY <1>2, <1>3, <1>5, ReadingFacts
  <1>7. /\ readers'[r] = Idle /\ ~Busy(r)' /\ readers'[r].at = "idle"
        /\ \A q \in 1..Jobs \ {r} : readers'[q] = readers[q] /\ (Busy(q)' <=> Busy(q))
    BY <1>1, <1>2 DEF Typed, Busy, Idle
  <1>8. WithinLimits(base.files)'  BY <1>1 DEF FilesInvariant
  <1>9. CASE readers[r].at = "error"
    BY <1>1, <1>8, <1>9 DEF FilesInvariant, FilesWereThere
  <1>10. CASE readers[r].at # "error"
    <2>1. phase' = "read" /\ Worktree' /\ FilesWereThere'
      BY <1>1, <1>4, <1>10 DEF Worktree, FilesWereThere
    <2>2. /\ DOMAIN files \subseteq DOMAIN files' /\ DOMAIN files' \subseteq DOMAIN files \cup {name}
          /\ \A p \in DOMAIN files : files'[p] = files[p]
          /\ name \in DOMAIN files' => readers[r].at = "done" /\ files'[name] = bytes
          /\ readers[r].at = "done" => name \in DOMAIN files'
      <3>1. name \notin DOMAIN files  BY <1>3, <1>4, <1>5 DEF Distinct
      <3>2. CASE readers[r].at = "gone"  BY <1>1, <3>1, <3>2
      <3>3. CASE readers[r].at = "done"
        <4>1. files' = [p \in DOMAIN files \cup {name} |-> IF p = name THEN bytes ELSE files[p]]
          BY <1>1, <1>5, <3>3
        <4> QED  BY <3>1, <3>3, <4>1
      <3> QED  BY <1>1, <1>10, <3>2, <3>3
    <2>3. Distinct'
      <3>1. ASSUME NEW q \in 1..Jobs, q # r, Busy(q)
            PROVE  readers[q].name \notin pending \cup DOMAIN files'
        BY <1>3, <1>4, <1>5, <2>2, <3>1 DEF Distinct
      <3>2. pending \cap DOMAIN files' = {}
        BY <1>3, <1>4, <1>5, <2>2 DEF Distinct
      <3>3. \A q, w \in 1..Jobs : Busy(q)' /\ Busy(w)' /\ readers'[q].name = readers'[w].name => q = w
        BY <1>4, <1>7 DEF Distinct
      <3> QED  BY <1>1, <1>7, <3>1, <3>2, <3>3 DEF Distinct
    <2>4. readers[r].at = "done" =>
            bytes \in held[name] /\ SizeOf[bytes] <= MaxFile
      BY <1>4, <1>5 DEF Claimed
    <2>5. There'
      <3>1. \A p \in DOMAIN files' : files'[p] \in held[p]  BY <1>4, <2>2, <2>4 DEF There
      <3>2. ASSUME NEW p \in Path, NEW v \in Version, held[p] = {v},
                   p \notin excluded \cup DOMAIN files' \cup pending
            PROVE  \E q \in 1..Jobs : Busy(q)' /\ readers'[q].name = p /\ readers'[q].at # "gone"
        <4>1. PICK q \in 1..Jobs : Busy(q) /\ readers[q].name = p /\ readers[q].at # "gone"
          BY <1>4, <2>2, <3>2 DEF There
        <4>2. q # r  BY <1>1, <1>5, <1>10, <2>2, <3>2, <4>1
        <4> QED  BY <1>7, <4>1, <4>2
      <3> QED  BY <1>1, <1>4, <3>1, <3>2 DEF There
    <2>6. Claimed'
      <3>1. PICK c \in [Path -> Nat] : Covers(c) /\ Sum(c) <= total  BY <1>4 DEF Claimed
      <3>2. Covers(c)'
        <4>1. \A p \in DOMAIN files' : SizeOf[files'[p]] <= c[p]
          BY <1>5, <2>2, <3>1 DEF Covers
        <4>2. \A q \in 1..Jobs :
                /\ readers'[q].at = "open" => readers'[q].size <= c[readers'[q].name]
                /\ readers'[q].at = "done" => SizeOf[readers'[q].bytes] <= c[readers'[q].name]
          BY <1>7, <3>1 DEF Covers
        <4> QED  BY <4>1, <4>2 DEF Covers
      <3>3. total <= MaxBytes \/ \E q \in 1..Jobs : readers'[q].at = "error"
        BY <1>4, <1>7, <1>10 DEF Claimed
      <3>4. \A p \in DOMAIN files' : files'[p] \in Version /\ SizeOf[files'[p]] <= MaxFile
        BY <1>4, <1>6, <2>2, <2>4 DEF Claimed
      <3>5. \A q \in 1..Jobs :
              /\ readers'[q].at = "open" => readers'[q].size <= MaxFile
              /\ readers'[q].at = "done" =>
                   SizeOf[readers'[q].bytes] <= MaxFile /\ readers'[q].bytes \in held[readers'[q].name]
        BY <1>4, <1>7 DEF Claimed
      <3>6. \E d \in [Path -> Nat] : Covers(d)' /\ Sum(d) <= total  BY <3>1, <3>2
      <3> QED  BY <1>1, <1>4, <3>3, <3>4, <3>5, <3>6 DEF Claimed
    <2> QED  BY <1>8, <2>1, <2>3, <2>5, <2>6 DEF FilesInvariant
  <1> QED  BY <1>9, <1>10

-----------------------------------------------------------------------------
(* Every acquisition                                                        *)

LEMMA FilesStep == PolicyInvariant /\ FilesInvariant /\ [Next]_vars => FilesInvariant'
  <1> SUFFICES ASSUME PolicyInvariant, FilesInvariant, [Next]_vars  PROVE FilesInvariant'  OBVIOUS
  <1>1. CASE User  BY <1>1, UserFiles
  <1>2. CASE Resolving  BY <1>2, ResolvingFiles
  <1>3. CASE ReadBase  BY <1>3, BaseFiles
  <1>4. CASE ReadObjects  BY <1>4, ObjectFiles
  <1>5. CASE ListWorktree  BY <1>5, WorktreeFiles
  <1>6. CASE \E r \in 1..Jobs : StartReader(r)  BY <1>6, StartFiles
  <1>7. CASE \E r \in 1..Jobs : Stat(r)  BY <1>7, StatFiles
  <1>8. CASE \E r \in 1..Jobs : Read(r)  BY <1>8, ReadFiles
  <1>9. CASE \E r \in 1..Jobs : Join(r)  BY <1>9, JoinFiles
  <1>10. CASE Capture \/ Load \/ TimeOut  BY <1>10, EndingFiles
  <1>11. CASE UNCHANGED vars
    <2>1. UNCHANGED <<repo, ask, phase, base, pending, readers, total, files, excluded, held>>
      BY <1>11 DEF vars
    <2>2. WithinLimits(base.files)' /\ FilesWereThere'  BY <2>1 DEF FilesInvariant, FilesWereThere
    <2>3. phase = "read" => Distinct' /\ There'  BY <2>1 DEF FilesInvariant, Distinct, There, Busy
    <2>4. phase = "read" /\ Worktree => Claimed'  BY <2>1 DEF FilesInvariant, Claimed, Covers
    <2>5. phase = "read" /\ ~Worktree => ObjectsRead'  BY <2>1 DEF FilesInvariant, ObjectsRead, Busy
    <2>6. Worktree' = Worktree  BY <2>1 DEF Worktree
    <2> QED  BY <2>1, <2>2, <2>3, <2>4, <2>5, <2>6 DEF FilesInvariant
  <1> QED
    BY <1>1, <1>2, <1>3, <1>4, <1>5, <1>6, <1>7, <1>8, <1>9, <1>10, <1>11
    DEF Next, Program, Reader, Resolving

\* However many readers there are and whatever is written meanwhile: every file of
\* a capture has bytes that its path held after the listing, a path that nobody
\* touched is in it unless it is excluded, and the files fit the budgets, because
\* each reader claims the size of a file before it reads it and reads no more.
THEOREM FilesOfTheCapture == Spec => []FilesWereThere
  <1>1. PolicyInvariant /\ FilesInvariant => FilesWereThere  BY DEF FilesInvariant
  <1> QED  BY <1>1, PolicyInit, PolicyStep, FilesInit, FilesStep, PTL DEF Spec
=============================================================================

---------------------------- MODULE PolicyStore ----------------------------
(***************************************************************************)
(* The content-addressed policy archive of config/policy_store.rs: the     *)
(* files .qualitygate/policy/{HEAD, write.lock, objects/*} and the writer  *)
(* processes that run Store::transaction on them.  A writer is any qgate   *)
(* process; a step is one file-system operation, so writers interleave, an *)
(* error may end a transaction at any step and a process may die at any    *)
(* step.                                                                   *)
(*                                                                         *)
(* Abstractions.  A non-index object is its digest.  An index object is    *)
(* its record; its digest is its position in `indexes', and writing a      *)
(* content already there yields the position it has.  All fields of Index  *)
(* that refer to a published object (last_event, active_policy, candidates *)
(* ...) are one field, `current'.  Every index object has the same size.   *)
(* Temporary files are written and synced before they are linked, so only  *)
(* the link is a step.  The 30-second deadline is one of the errors a step *)
(* may return.                                                             *)
(***************************************************************************)
EXTENDS Naturals, Sequences, FiniteSets

CONSTANTS
  Writers,       \* processes that run transactions
  Objects,       \* digests of the non-index objects they may put
  Size,          \* the length of each object
  IndexSize,     \* the length of an index object
  MaxObjects,    \* MAX_OBJECTS
  MaxBytes,      \* MAX_ARCHIVE_BYTES
  MaxSequence,   \* u64::MAX, the last sequence number
  MaxErrors,     \* bound: spontaneous errors in a behaviour
  MaxCrashes,    \* bound: writers that leave their lock, dying or failing to remove it
  LiveRecovery,  \* may the lock of a live writer be removed by hand?
  None

ASSUME StoreAssumption ==
  /\ Size \in [Objects -> Nat]
  /\ IndexSize \in Nat /\ MaxObjects \in Nat /\ MaxBytes \in Nat
  /\ MaxSequence \in Nat /\ MaxErrors \in Nat /\ MaxCrashes \in Nat
  /\ LiveRecovery \in BOOLEAN
  /\ None \notin Writers /\ None \notin Objects /\ None \notin Nat

VARIABLES
  lock,     \* the writer that created write.lock, or None when it is absent
  head,     \* the reference HEAD holds, or None when it is absent
  blobs,    \* the non-index objects on disk
  indexes,  \* the index objects on disk
  pc,       \* where each writer is in Store::transaction
  txn,      \* its Store value: index, initial head and the write in progress
  errors, crashes

vars == <<lock, head, blobs, indexes, pc, txn, errors, crashes>>

References == 1..Len(indexes)

Index == [sequence : 0..MaxSequence, previous : Nat \cup {None},
          inventory : SUBSET Objects, current : Objects \cup {None},
          objects : Nat, bytes : Nat]

(* Store: the index it edits, the HEAD it read, the object or index reference *)
(* it is writing.                                                            *)
Transaction == [index   : Index,
                initial : References \cup {None},
                blob    : Objects \cup {None},
                existed : BOOLEAN,
                ref     : References \cup {None}]

(* Index::default(), the index of an archive that has no HEAD. *)
EmptyIndex == [sequence |-> 0, previous |-> None, inventory |-> {},
               current |-> None, objects |-> 0, bytes |-> 0]

IndexAt(ref) == IF ref = None THEN EmptyIndex ELSE indexes[ref]

Idle == [index |-> EmptyIndex, initial |-> None, blob |-> None,
         existed |-> FALSE, ref |-> None]

Active == {"locked", "operating", "staged", "committing", "indexing",
           "comparing", "publishing", "published"}

Goto(w, label) == pc' = [pc EXCEPT ![w] = label]

(* The bytes of the objects of S, as places in them. *)
BytesOf(S) == UNION {{o} \X (1..Size[o]) : o \in S}

SumOfSizes(S) == Cardinality(BytesOf(S))

-----------------------------------------------------------------------------
(* Guards of the code, each with the error it returns when it is false. *)

(* from_head: the validation of the index that HEAD names. *)
Loads(ref) ==
  ref # None =>
    /\ ref \in References
    /\ LET i == indexes[ref] IN
         /\ i.sequence # 0
         /\ i.objects <= MaxObjects
         /\ i.bytes <= MaxBytes
         /\ Cardinality(i.inventory) <= i.objects
         /\ SumOfSizes(i.inventory) <= i.bytes

(* write_blob: an object the index has published is on disk; one it has not *)
(* published must fit in the budget.                                         *)
CanPut(w, o) ==
  LET i == txn[w].index IN
    IF o \in i.inventory THEN o \in blobs
    ELSE i.objects < MaxObjects /\ i.bytes + Size[o] <= MaxBytes

(* commit: the next index, with the index object itself accounted. *)
NextIndex(w) ==
  [txn[w].index EXCEPT !.sequence = @ + 1,
                       !.previous = txn[w].initial,
                       !.objects  = @ + 1,
                       !.bytes    = @ + IndexSize]

(* Fault: the sequence number is incremented without an overflow check. *)
CanCommit_Wrapping(w) ==
  NextIndex(w).objects <= MaxObjects /\ NextIndex(w).bytes <= MaxBytes

(* Fault: the budget is not checked again for the index object. *)
CanCommit_Unbudgeted(w) == txn[w].index.sequence < MaxSequence

CanCommit(w) ==
  /\ txn[w].index.sequence < MaxSequence
  /\ NextIndex(w).objects <= MaxObjects
  /\ NextIndex(w).bytes <= MaxBytes

-----------------------------------------------------------------------------
Init ==
  /\ lock = None /\ head = None
  /\ blobs = {} /\ indexes = <<>>
  /\ pc = [w \in Writers |-> "idle"]
  /\ txn = [w \in Writers |-> Idle]
  /\ errors = 0 /\ crashes = 0

(* Fault: create instead of create_new. *)
AcquireLock_Shared(w) ==
  /\ pc[w] = "idle"
  /\ lock' = w
  /\ Goto(w, "locked")
  /\ UNCHANGED <<head, blobs, indexes, txn, errors, crashes>>

(* OpenOptions::create_new on write.lock; when it exists the call fails and *)
(* nothing changes.                                                         *)
AcquireLock(w) ==
  /\ pc[w] = "idle" /\ lock = None
  /\ lock' = w
  /\ Goto(w, "locked")
  /\ UNCHANGED <<head, blobs, indexes, txn, errors, crashes>>

ReadHead(w) ==
  /\ pc[w] = "locked" /\ Loads(head)
  /\ txn' = [txn EXCEPT ![w].index = IndexAt(head), ![w].initial = head]
  /\ Goto(w, "operating")
  /\ UNCHANGED <<lock, head, blobs, indexes, errors, crashes>>

(* put_blob, first half: look for the object and check the budget. *)
StageBlob(w, o) ==
  /\ pc[w] = "operating" /\ CanPut(w, o)
  /\ txn' = [txn EXCEPT ![w].blob = o, ![w].existed = o \in blobs]
  /\ Goto(w, "staged")
  /\ UNCHANGED <<lock, head, blobs, indexes, errors, crashes>>

(* Fault: an object found on disk is taken as accounted already. *)
PersistBlob_Uncounted(w) ==
  LET o == txn[w].blob
      i == txn[w].index
  IN
    /\ pc[w] = "staged"
    /\ txn[w].existed \/ o \notin blobs
    /\ blobs' = blobs \cup {o}
    /\ txn' = [txn EXCEPT ![w].blob = None, ![w].existed = FALSE,
                 ![w].index =
                    IF txn[w].existed THEN [i EXCEPT !.inventory = @ \cup {o}]
                    ELSE [i EXCEPT !.inventory = @ \cup {o},
                                   !.objects   = @ + 1,
                                   !.bytes     = @ + Size[o]]]
    /\ Goto(w, "operating")
    /\ UNCHANGED <<lock, head, indexes, errors, crashes>>

(* put_blob, second half: link the object without replacing one, and account *)
(* for it once, whether this transaction or a failed one before wrote it.     *)
PersistBlob(w) ==
  LET o == txn[w].blob
      i == txn[w].index
  IN
    /\ pc[w] = "staged"
    /\ txn[w].existed \/ o \notin blobs
    /\ blobs' = blobs \cup {o}
    /\ txn' = [txn EXCEPT ![w].blob = None, ![w].existed = FALSE,
                 ![w].index =
                    IF o \in i.inventory THEN i
                    ELSE [i EXCEPT !.inventory = @ \cup {o},
                                   !.objects   = @ + 1,
                                   !.bytes     = @ + Size[o]]]
    /\ Goto(w, "operating")
    /\ UNCHANGED <<lock, head, indexes, errors, crashes>>

(* Fault: a reference is recorded before its object is put. *)
PointTo_Dangling(w, o) ==
  /\ pc[w] = "operating"
  /\ txn' = [txn EXCEPT ![w].index.current = o]
  /\ UNCHANGED <<lock, head, blobs, indexes, pc, errors, crashes>>

(* The operation makes the index refer to an object it has put or read. *)
PointTo(w, o) ==
  /\ pc[w] = "operating" /\ o \in txn[w].index.inventory
  /\ txn' = [txn EXCEPT ![w].index.current = o]
  /\ UNCHANGED <<lock, head, blobs, indexes, pc, errors, crashes>>

(* The operation returns; an unchanged index is not committed. *)
FinishOperation(w) ==
  /\ pc[w] = "operating"
  /\ Goto(w, IF txn[w].index = IndexAt(txn[w].initial)
             THEN "published" ELSE "committing")
  /\ UNCHANGED <<lock, head, blobs, indexes, txn, errors, crashes>>

(* commit: number the index, link it to its predecessor, check the budget. *)
PrepareIndex(w) ==
  /\ pc[w] = "committing" /\ CanCommit(w)
  /\ txn' = [txn EXCEPT ![w].index = NextIndex(w)]
  /\ Goto(w, "indexing")
  /\ UNCHANGED <<lock, head, blobs, indexes, errors, crashes>>

(* commit: write_blob(index, account = false). *)
WriteIndex(w) ==
  LET known == {r \in References : indexes[r] = txn[w].index} IN
    /\ pc[w] = "indexing"
    /\ IF known # {}
       THEN /\ txn' = [txn EXCEPT ![w].ref = CHOOSE r \in known : TRUE]
            /\ UNCHANGED indexes
       ELSE /\ txn' = [txn EXCEPT ![w].ref = Len(indexes) + 1]
            /\ indexes' = Append(indexes, txn[w].index)
    /\ Goto(w, "comparing")
    /\ UNCHANGED <<lock, head, blobs, errors, crashes>>

(* commit: HEAD must still hold what the transaction read. *)
CompareHead(w) ==
  /\ pc[w] = "comparing" /\ head = txn[w].initial
  /\ Goto(w, "publishing")
  /\ UNCHANGED <<lock, head, blobs, indexes, txn, errors, crashes>>

(* commit: link the first HEAD without replacing one, rename a later one. *)
PublishHead(w) ==
  /\ pc[w] = "publishing"
  /\ txn[w].initial = None => head = None
  /\ head' = txn[w].ref
  /\ Goto(w, "published")
  /\ UNCHANGED <<lock, blobs, indexes, txn, errors, crashes>>

(* Fault: the lock file is removed on the path of success only. *)
DropLock_OnSuccess(w) ==
  /\ lock' = IF pc[w] = "published" THEN None ELSE lock
  /\ Goto(w, "idle")
  /\ txn' = [txn EXCEPT ![w] = Idle]

(* Lock::drop removes the file at the path, whoever created it.  It ignores *)
(* an error of the removal: that step is Crash, the writer gone and its     *)
(* file still there.                                                        *)
DropLock(w) ==
  /\ lock' = None
  /\ Goto(w, "idle")
  /\ txn' = [txn EXCEPT ![w] = Idle]

Release(w) ==
  /\ pc[w] = "published"
  /\ DropLock(w)
  /\ UNCHANGED <<head, blobs, indexes, errors, crashes>>

(* A guard of the code is false: the transaction returns an error. *)
Refused(w) ==
  \/ pc[w] = "locked" /\ ~Loads(head)
  \/ pc[w] = "operating" /\ \E o \in Objects : ~CanPut(w, o)
  \/ pc[w] = "staged" /\ ~txn[w].existed /\ txn[w].blob \in blobs
  \/ pc[w] = "committing" /\ ~CanCommit(w)
  \/ pc[w] = "comparing" /\ head # txn[w].initial
  \/ pc[w] = "publishing" /\ txn[w].initial = None /\ head # None

Abort(w) ==
  /\ Refused(w)
  /\ DropLock(w)
  /\ UNCHANGED <<head, blobs, indexes, errors, crashes>>

(* An operation or a system call fails, or the deadline expires. *)
Error(w) ==
  /\ pc[w] \in Active \ {"published"} /\ errors < MaxErrors
  /\ errors' = errors + 1
  /\ DropLock(w)
  /\ UNCHANGED <<head, blobs, indexes, crashes>>

(* The process dies, nothing is dropped and the lock file stays; or the    *)
(* transaction ends, whichever way, and its file cannot be removed.        *)
Crash(w) ==
  /\ pc[w] \in Active /\ crashes < MaxCrashes
  /\ crashes' = crashes + 1
  /\ Goto(w, "idle")
  /\ txn' = [txn EXCEPT ![w] = Idle]
  /\ UNCHANGED <<lock, head, blobs, indexes, errors>>

(* Somebody removes write.lock by hand; the error message asks for this *)
(* after a crash, and nothing stops it at another time.                 *)
RecoverLock ==
  /\ lock # None
  /\ LiveRecovery \/ pc[lock] = "idle"
  /\ lock' = None
  /\ UNCHANGED <<head, blobs, indexes, pc, txn, errors, crashes>>

Step(w) ==
  \/ AcquireLock(w) \/ ReadHead(w)
  \/ \E o \in Objects : StageBlob(w, o) \/ PointTo(w, o)
  \/ PersistBlob(w) \/ FinishOperation(w)
  \/ PrepareIndex(w) \/ WriteIndex(w) \/ CompareHead(w) \/ PublishHead(w)
  \/ Release(w) \/ Abort(w)

Next ==
  \/ \E w \in Writers : Step(w) \/ Error(w) \/ Crash(w)
  \/ RecoverLock

Spec == Init /\ [][Next]_vars

(* A transaction is straight-line code that never waits: from the moment it *)
(* holds the lock a live writer keeps stepping, and its operation returns.  *)
Proceed(w) ==
  \/ ReadHead(w) \/ PersistBlob(w) \/ FinishOperation(w) \/ PrepareIndex(w)
  \/ WriteIndex(w) \/ CompareHead(w) \/ PublishHead(w) \/ Release(w)
  \/ Abort(w)

Fairness == \A w \in Writers : SF_vars(FinishOperation(w)) /\ WF_vars(Proceed(w))

FairSpec == Spec /\ Fairness

-----------------------------------------------------------------------------
(* The types of the variables; a reference never dangles by construction. *)
TypeOK ==
  /\ lock \in Writers \cup {None}
  /\ indexes \in Seq(Index)
  /\ head \in References \cup {None}
  /\ blobs \in SUBSET Objects
  /\ pc \in [Writers -> Active \cup {"idle"}]
  /\ txn \in [Writers -> Transaction]
  /\ \A w \in Writers : pc[w] = "staged" => txn[w].blob \in Objects
  /\ errors \in 0..MaxErrors /\ crashes \in 0..MaxCrashes

(* The lock file excludes writers: a writer inside a transaction owns the   *)
(* lock file, through every error, crash and recovery of a dead writer.     *)
WritersExclude == \A w \in Writers : pc[w] \in Active => lock = w

(* Every index object on disk, so HEAD at any time and every state a reader *)
(* or the history walk may hold, resolves: what it lists was written before *)
(* it, also when the writer died or failed in between.                      *)
IndexesResolve ==
  \A r \in References :
    /\ indexes[r].inventory \subseteq blobs
    /\ indexes[r].current \in indexes[r].inventory \cup {None}
    /\ indexes[r].previous = None \/ indexes[r].previous \in 1..(r - 1)

(* The counters of an index are exact: one object per inventory entry and   *)
(* one per committed index, and an object that a failed transaction left on *)
(* disk is counted exactly once when a later one publishes it.              *)
AccountingExact ==
  \A r \in References :
    LET i == indexes[r] IN
      /\ i.objects = Cardinality(i.inventory) + i.sequence
      /\ i.bytes = SumOfSizes(i.inventory) + i.sequence * IndexSize

(* What commit publishes, from_head accepts: a writer at the limits of the  *)
(* archive gets an error, it never leaves an archive nobody can open.       *)
HeadLoads == Loads(head)

(* No update is lost: HEAD only ever moves to an index whose predecessor is *)
(* the index HEAD held, with the next sequence number.                      *)
HeadAdvances ==
  [][head' # head =>
       /\ indexes'[head'].previous = head
       /\ indexes'[head'].sequence = IndexAt(head).sequence + 1]_vars

(* Transactions are atomic: seen through HEAD, the archive is one value     *)
(* replaced by one committed transaction at a time.                         *)
Archive ==
  INSTANCE PolicyArchive
    WITH archive <- [sequence  |-> IndexAt(head).sequence,
                     inventory |-> IndexAt(head).inventory,
                     current   |-> IndexAt(head).current]

Transactional == Archive!Spec

(* A live archive is never wedged: while no writer dies, the lock file goes *)
(* away again on every path out of a transaction, errors included.          *)
LockReleased == (lock # None) ~> (lock = None \/ crashes > 0)
=============================================================================

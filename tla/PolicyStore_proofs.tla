------------------------- MODULE PolicyStore_proofs -------------------------
(***************************************************************************)
(* Theorems about PolicyStore, for every set of writers and objects and    *)
(* every bound.                                                            *)
(***************************************************************************)
EXTENDS PolicyStore, FiniteSetTheorems, TLAPS

(* Index objects are only ever added, so references stay references and keep *)
(* their index.                                                              *)
LEMMA Growing ==
  ASSUME indexes \in Seq(Index), NEW i \in Index, indexes' = Append(indexes, i)
  PROVE  /\ indexes' \in Seq(Index)
         /\ References \subseteq References'
         /\ Len(indexes) + 1 \in References'
         /\ indexes'[Len(indexes) + 1] = i
         /\ \A r \in References : indexes'[r] = indexes[r]
         /\ References' = References \cup {Len(indexes) + 1}
  BY DEF References

LEMMA EmptyIndexType == EmptyIndex \in Index
  BY StoreAssumption DEF EmptyIndex, Index

LEMMA SameTransactions ==
  UNCHANGED indexes => References' = References /\ Transaction' = Transaction
  BY DEF References, Transaction

LEMMA IndexAtType ==
  ASSUME TypeOK, NEW r \in References \cup {None} PROVE IndexAt(r) \in Index
  BY EmptyIndexType, StoreAssumption DEF TypeOK, IndexAt, References

LEMMA NumberedType ==
  ASSUME NEW i \in Index, NEW p \in Nat \cup {None},
         i.sequence + 1 \in 0..MaxSequence
  PROVE  [i EXCEPT !.sequence = @ + 1, !.previous = p, !.objects = @ + 1,
                   !.bytes = @ + IndexSize] \in Index
<1>1. i.objects + 1 \in Nat /\ i.bytes + IndexSize \in Nat
  BY StoreAssumption DEF Index
<1> QED BY <1>1 DEF Index

LEMMA IdleType == Idle \in Transaction
  BY EmptyIndexType DEF Idle, Transaction

(* The state of the store is well typed in every reachable state. *)
THEOREM TypeCorrect == Spec => []TypeOK
<1> USE StoreAssumption
<1>1. Init => TypeOK
  BY IdleType DEF Init, TypeOK
<1>2. TypeOK /\ [Next]_vars => TypeOK'
  <2> SUFFICES ASSUME TypeOK, [Next]_vars PROVE TypeOK'
    OBVIOUS
  <2>t. \A w \in Writers : txn[w] \in Transaction
    BY DEF TypeOK
  <2>1. CASE UNCHANGED vars
    BY <2>1, SameTransactions DEF vars, TypeOK
  <2>2. ASSUME NEW w \in Writers, DropLock(w),
               UNCHANGED <<head, blobs, indexes>>,
               errors' \in 0..MaxErrors, crashes' \in 0..MaxCrashes
        PROVE  TypeOK'
    BY <2>2, IdleType, SameTransactions DEF TypeOK, DropLock, Goto
  <2>3. ASSUME NEW w \in Writers, AcquireLock(w) PROVE TypeOK'
    BY <2>3, SameTransactions DEF TypeOK, AcquireLock, Goto, Active
  <2>4. ASSUME NEW w \in Writers, ReadHead(w) PROVE TypeOK'
    <3>1. [txn[w] EXCEPT !.index = IndexAt(head), !.initial = head]
            \in Transaction
      BY <2>t, IndexAtType DEF TypeOK, Transaction
    <3> QED
      BY <2>4, <3>1, SameTransactions DEF TypeOK, ReadHead, Goto, Active
  <2>5. ASSUME NEW w \in Writers, NEW o \in Objects, StageBlob(w, o)
        PROVE  TypeOK'
    <3> DEFINE e == o \in blobs
    <3>0. e \in BOOLEAN
      OBVIOUS
    <3> HIDE DEF e
    <3>1. [txn[w] EXCEPT !.blob = o, !.existed = e] \in Transaction
      BY <2>t, <3>0 DEF Transaction
    <3> USE DEF e
    <3> QED
      BY <2>5, <3>1, SameTransactions DEF TypeOK, StageBlob, Goto, Active
  <2>6. ASSUME NEW w \in Writers, NEW o \in Objects, PointTo(w, o)
        PROVE  TypeOK'
    <3>1. [txn[w] EXCEPT !.index.current = o] \in Transaction
      BY <2>t DEF Transaction, Index
    <3> QED
      BY <2>6, <3>1, SameTransactions DEF TypeOK, PointTo
  <2>7. ASSUME NEW w \in Writers, PersistBlob(w) PROVE TypeOK'
    <3> DEFINE o == txn[w].blob
               i == txn[w].index
               j == IF o \in i.inventory THEN i
                    ELSE [i EXCEPT !.inventory = @ \cup {o},
                                   !.objects   = @ + 1,
                                   !.bytes     = @ + Size[o]]
    <3>1. o \in Objects /\ i \in Index
      BY <2>7, <2>t DEF PersistBlob, Transaction, TypeOK
    <3>2. j \in Index
      <4>1. CASE o \in i.inventory
        BY <3>1, <4>1
      <4>2. CASE o \notin i.inventory
        <5>1. i.inventory \cup {o} \in SUBSET Objects
          BY <3>1 DEF Index
        <5>2. i.objects + 1 \in Nat /\ i.bytes + Size[o] \in Nat
          BY <3>1 DEF Index
        <5> QED BY <3>1, <4>2, <5>1, <5>2 DEF Index
      <4> QED BY <4>1, <4>2
    <3>3. [txn[w] EXCEPT !.blob = None, !.existed = FALSE, !.index = j]
            \in Transaction
      BY <2>t, <3>2 DEF Transaction
    <3> QED
      BY <2>7, <3>1, <3>3, SameTransactions
      DEF TypeOK, PersistBlob, Goto, Active
  <2>8. ASSUME NEW w \in Writers, FinishOperation(w) PROVE TypeOK'
    BY <2>8, SameTransactions DEF TypeOK, FinishOperation, Goto, Active
  <2>9. ASSUME NEW w \in Writers, PrepareIndex(w) PROVE TypeOK'
    <3> DEFINE i == txn[w].index
    <3>1. i \in Index /\ txn[w].initial \in Nat \cup {None}
      BY <2>t DEF Transaction, References
    <3>2. i.sequence + 1 \in 0..MaxSequence
      BY <2>9, <3>1 DEF PrepareIndex, CanCommit, Index
    <3>3. NextIndex(w) \in Index
      <4> DEFINE n == [i EXCEPT !.sequence = @ + 1,
                                !.previous = txn[w].initial,
                                !.objects  = @ + 1,
                                !.bytes    = @ + IndexSize]
      <4>1. n \in Index
        BY <3>1, <3>2, NumberedType
      <4> QED BY <4>1 DEF NextIndex
    <3>4. [txn[w] EXCEPT !.index = NextIndex(w)] \in Transaction
      BY <2>t, <3>3 DEF Transaction
    <3> QED
      BY <2>9, <3>4, SameTransactions DEF TypeOK, PrepareIndex, Goto, Active
  <2>10. ASSUME NEW w \in Writers, WriteIndex(w) PROVE TypeOK'
    <3> DEFINE known == {r \in References : indexes[r] = txn[w].index}
    <3>1. CASE known # {}
      <4>1. (CHOOSE r \in known : TRUE) \in References
        BY <3>1
      <4>2. [txn[w] EXCEPT !.ref = CHOOSE r \in known : TRUE] \in Transaction
        BY <2>t, <4>1 DEF Transaction
      <4> QED
        BY <2>10, <3>1, <4>2, SameTransactions
        DEF TypeOK, WriteIndex, Goto, Active
    <3>2. CASE known = {}
      <4>1. indexes' = Append(indexes, txn[w].index) /\ txn[w].index \in Index
        BY <2>10, <2>t, <3>2 DEF WriteIndex, Transaction
      <4>2. /\ indexes' \in Seq(Index) /\ References \subseteq References'
            /\ Len(indexes) + 1 \in References'
        BY <4>1, Growing DEF TypeOK
      <4>3. Transaction \subseteq Transaction'
        BY <4>2 DEF Transaction
      <4>4. [txn[w] EXCEPT !.ref = Len(indexes) + 1] \in Transaction'
        BY <2>t, <4>2 DEF Transaction
      <4> QED
        BY <2>10, <3>2, <4>2, <4>3, <4>4 DEF TypeOK, WriteIndex, Goto, Active
    <3> QED BY <3>1, <3>2
  <2>11. ASSUME NEW w \in Writers, CompareHead(w) PROVE TypeOK'
    BY <2>11, SameTransactions DEF TypeOK, CompareHead, Goto, Active
  <2>12. ASSUME NEW w \in Writers, PublishHead(w) PROVE TypeOK'
    <3>1. txn[w].ref \in References \cup {None}
      BY <2>t DEF Transaction
    <3> QED
      BY <2>12, <3>1, SameTransactions DEF TypeOK, PublishHead, Goto, Active
  <2>13. ASSUME NEW w \in Writers, Release(w) \/ Abort(w) PROVE TypeOK'
    BY <2>2, <2>13 DEF TypeOK, Release, Abort
  <2>14. ASSUME NEW w \in Writers, Error(w) PROVE TypeOK'
    <3>1. errors' \in 0..MaxErrors /\ crashes' \in 0..MaxCrashes
      BY <2>14 DEF Error, TypeOK
    <3> QED BY <2>2, <2>14, <3>1 DEF Error
  <2>15. ASSUME NEW w \in Writers, Crash(w) PROVE TypeOK'
    <3>1. crashes' \in 0..MaxCrashes
      BY <2>15 DEF Crash, TypeOK
    <3> QED
      BY <2>15, <3>1, IdleType, SameTransactions DEF TypeOK, Crash, Goto
  <2>16. CASE RecoverLock
    BY <2>16, SameTransactions DEF TypeOK, RecoverLock
  <2> QED
    BY <2>1, <2>3, <2>4, <2>5, <2>6, <2>7, <2>8, <2>9, <2>10, <2>11, <2>12,
       <2>13, <2>14, <2>15, <2>16 DEF Next, Step
<1> QED BY <1>1, <1>2, PTL DEF Spec

-----------------------------------------------------------------------------
(* What an index object on disk may rely on, strengthened to what the        *)
(* transactions in progress hold in memory.                                  *)
TxnResolves(t) ==
  /\ t.index.inventory \subseteq blobs
  /\ t.index.current \in t.index.inventory \cup {None}
  /\ t.index.previous = None \/ t.index.previous \in References

ResolveInv ==
  /\ TypeOK
  /\ IndexesResolve
  /\ \A w \in Writers : TxnResolves(txn[w])

LEMMA IdleResolves == TxnResolves(Idle)
  BY DEF TxnResolves, Idle, EmptyIndex

LEMMA IndexResolves ==
  ASSUME TypeOK, IndexesResolve, NEW r \in References \cup {None}
  PROVE  /\ IndexAt(r).inventory \subseteq blobs
         /\ IndexAt(r).current \in IndexAt(r).inventory \cup {None}
         /\ IndexAt(r).previous = None \/ IndexAt(r).previous \in References
<1>1. CASE r = None
  BY <1>1 DEF IndexAt, EmptyIndex
<1>2. CASE r # None
  <2>1. r \in 1..Len(indexes) /\ IndexAt(r) = indexes[r] /\ Len(indexes) \in Nat
    BY <1>2 DEF References, IndexAt, TypeOK
  <2> QED BY <2>1 DEF IndexesResolve, References
<1> QED BY <1>1, <1>2

LEMMA ResolveStep ==
  TypeOK /\ TypeOK' /\ ResolveInv /\ [Next]_vars => ResolveInv'
<1> USE StoreAssumption
<1> SUFFICES ASSUME TypeOK, TypeOK', ResolveInv, [Next]_vars
             PROVE  ResolveInv'
  OBVIOUS
<1>t. \A w \in Writers : txn[w] \in Transaction
  BY DEF TypeOK
<1>a. ASSUME blobs \subseteq blobs', UNCHANGED indexes
      PROVE  /\ IndexesResolve'
             /\ \A w \in Writers : TxnResolves(txn[w])'
                  <=> LET t == txn'[w] IN
                        /\ t.index.inventory \subseteq blobs'
                        /\ t.index.current \in t.index.inventory \cup {None}
                        /\ \/ t.index.previous = None
                           \/ t.index.previous \in References
  <2>1. References' = References
    BY <1>a DEF References
  <2>2. IndexesResolve'
    BY <1>a, <2>1 DEF ResolveInv, IndexesResolve
  <2> QED BY <2>1, <2>2 DEF TxnResolves
<1>b. ASSUME NEW w \in Writers, NEW t, txn' = [txn EXCEPT ![w] = t],
             UNCHANGED indexes, blobs \subseteq blobs',
             t.index.inventory \subseteq blobs',
             t.index.current \in t.index.inventory \cup {None},
             t.index.previous = None \/ t.index.previous \in References
      PROVE  ResolveInv'
  <2>1. ASSUME NEW v \in Writers PROVE TxnResolves(txn[v])'
    <3>1. CASE v = w
      BY <3>1, <1>a, <1>b DEF TypeOK
    <3>2. CASE v # w
      BY <3>2, <1>a, <1>b DEF TypeOK, ResolveInv, TxnResolves
    <3> QED BY <3>1, <3>2
  <2> QED BY <2>1, <1>a, <1>b DEF ResolveInv
<1>1. CASE UNCHANGED <<blobs, indexes, txn>>
  BY <1>1, <1>a DEF ResolveInv, TxnResolves
<1>2. ASSUME NEW w \in Writers, txn' = [txn EXCEPT ![w] = Idle],
             UNCHANGED <<blobs, indexes>>
      PROVE  ResolveInv'
  BY <1>2, <1>b, IdleResolves DEF TxnResolves
<1>4. ASSUME NEW w \in Writers, ReadHead(w) PROVE ResolveInv'
  <2> DEFINE t == [txn[w] EXCEPT !.index = IndexAt(head), !.initial = head]
  <2>1. t.index = IndexAt(head)
    BY <1>t DEF Transaction
  <2>2. txn' = [txn EXCEPT ![w] = t] /\ UNCHANGED <<blobs, indexes>>
    BY <1>4 DEF ReadHead
  <2>3. head \in References \cup {None}
    BY DEF TypeOK
  <2> QED BY <2>1, <2>2, <2>3, <1>b, IndexResolves DEF ResolveInv
<1>5. ASSUME NEW w \in Writers, NEW o \in Objects, StageBlob(w, o)
      PROVE  ResolveInv'
  <2> DEFINE t == [txn[w] EXCEPT !.blob = o, !.existed = o \in blobs]
  <2>1. t.index = txn[w].index
    BY <1>t DEF Transaction
  <2>2. txn' = [txn EXCEPT ![w] = t] /\ UNCHANGED <<blobs, indexes>>
    BY <1>5 DEF StageBlob
  <2> QED BY <2>1, <2>2, <1>b DEF ResolveInv, TxnResolves
<1>6. ASSUME NEW w \in Writers, NEW o \in Objects, PointTo(w, o)
      PROVE  ResolveInv'
  <2> DEFINE t == [txn[w] EXCEPT !.index.current = o]
  <2>1. /\ t.index.inventory = txn[w].index.inventory
        /\ t.index.previous = txn[w].index.previous
        /\ t.index.current = o
    BY <1>t DEF Transaction, Index
  <2>2. /\ txn' = [txn EXCEPT ![w] = t] /\ UNCHANGED <<blobs, indexes>>
        /\ o \in txn[w].index.inventory
    BY <1>6 DEF PointTo
  <2> HIDE DEF t
  <2> QED BY <2>1, <2>2, <1>b DEF ResolveInv, TxnResolves
<1>7. ASSUME NEW w \in Writers, PersistBlob(w) PROVE ResolveInv'
  <2> DEFINE o == txn[w].blob
             i == txn[w].index
             j == IF o \in i.inventory THEN i
                  ELSE [i EXCEPT !.inventory = @ \cup {o},
                                 !.objects   = @ + 1,
                                 !.bytes     = @ + Size[o]]
             t == [txn[w] EXCEPT !.blob = None, !.existed = FALSE,
                                 !.index = j]
  <2>0. i \in Index
    BY <1>t DEF Transaction
  <2>1. /\ j.inventory = i.inventory \cup {o}
        /\ j.current = i.current /\ j.previous = i.previous
    BY <2>0 DEF Index
  <2>2. t.index = j
    BY <1>t DEF Transaction
  <2>3. txn' = [txn EXCEPT ![w] = t] /\ UNCHANGED indexes
        /\ blobs' = blobs \cup {o}
    BY <1>7 DEF PersistBlob
  <2>4. TxnResolves(txn[w])
    BY DEF ResolveInv
  <2> HIDE DEF t, j
  <2>5. /\ t.index.inventory \subseteq blobs'
        /\ t.index.current \in t.index.inventory \cup {None}
        /\ t.index.previous = None \/ t.index.previous \in References
    BY <2>1, <2>2, <2>3, <2>4 DEF TxnResolves
  <2> QED BY <2>3, <2>5, <1>b
<1>9. ASSUME NEW w \in Writers, PrepareIndex(w) PROVE ResolveInv'
  <2> DEFINE t == [txn[w] EXCEPT !.index = NextIndex(w)]
  <2>1. /\ t.index.inventory = txn[w].index.inventory
        /\ t.index.current = txn[w].index.current
        /\ t.index.previous = txn[w].initial
    BY <1>t DEF Transaction, Index, NextIndex
  <2>2. txn' = [txn EXCEPT ![w] = t] /\ UNCHANGED <<blobs, indexes>>
    BY <1>9 DEF PrepareIndex
  <2>3. txn[w].initial \in References \cup {None}
    BY <1>t DEF Transaction
  <2> HIDE DEF t
  <2> QED BY <2>1, <2>2, <2>3, <1>b DEF ResolveInv, TxnResolves
<1>10. ASSUME NEW w \in Writers, WriteIndex(w) PROVE ResolveInv'
  <2> DEFINE known == {r \in References : indexes[r] = txn[w].index}
  <2>1. CASE known # {}
    <3> DEFINE t == [txn[w] EXCEPT !.ref = CHOOSE r \in known : TRUE]
    <3>1. t.index = txn[w].index
      BY <1>t DEF Transaction
    <3>2. txn' = [txn EXCEPT ![w] = t] /\ UNCHANGED <<blobs, indexes>>
      BY <1>10, <2>1 DEF WriteIndex
    <3> HIDE DEF t
    <3> QED BY <3>1, <3>2, <1>b DEF ResolveInv, TxnResolves
  <2>2. CASE known = {}
    <3>1. /\ indexes' = Append(indexes, txn[w].index)
          /\ txn[w].index \in Index
          /\ txn' = [txn EXCEPT ![w].ref = Len(indexes) + 1]
          /\ UNCHANGED blobs
      BY <1>10, <1>t, <2>2 DEF WriteIndex, Transaction
    <3>2. /\ References' = References \cup {Len(indexes) + 1}
          /\ indexes'[Len(indexes) + 1] = txn[w].index
          /\ \A r \in References : indexes'[r] = indexes[r]
      BY <3>1, Growing DEF TypeOK
    <3>3. \A v \in Writers : txn'[v].index = txn[v].index
      BY <3>1, <1>t DEF Transaction, TypeOK
    <3>4. \A v \in Writers : TxnResolves(txn[v])'
      BY <3>1, <3>2, <3>3 DEF ResolveInv, TxnResolves
    <3>5. IndexesResolve'
      <4> SUFFICES ASSUME NEW r \in References'
                   PROVE  /\ indexes'[r].inventory \subseteq blobs'
                          /\ indexes'[r].current
                               \in indexes'[r].inventory \cup {None}
                          /\ \/ indexes'[r].previous = None
                             \/ indexes'[r].previous \in 1..(r - 1)
        BY DEF IndexesResolve
      <4>1. CASE r \in References
        BY <4>1, <3>1, <3>2 DEF ResolveInv, IndexesResolve
      <4>2. CASE r = Len(indexes) + 1
        <5>1. TxnResolves(txn[w]) /\ References = 1..(r - 1)
          BY <4>2 DEF ResolveInv, References, TypeOK
        <5> QED BY <4>2, <5>1, <3>1, <3>2 DEF TxnResolves
      <4> QED BY <4>1, <4>2, <3>2
    <3> QED BY <3>4, <3>5 DEF ResolveInv
  <2> QED BY <2>1, <2>2
<1> QED
  <2>1. CASE UNCHANGED vars
    BY <2>1, <1>1 DEF vars
  <2>2. ASSUME NEW w \in Writers, Step(w) PROVE ResolveInv'
    BY <2>2, <1>1, <1>2, <1>4, <1>5, <1>6, <1>7, <1>9, <1>10
    DEF Step, AcquireLock, FinishOperation, CompareHead, PublishHead,
        Release, Abort, DropLock
  <2>3. ASSUME NEW w \in Writers, Error(w) \/ Crash(w) PROVE ResolveInv'
    BY <2>3, <1>2 DEF Error, Crash, DropLock
  <2>4. CASE RecoverLock
    BY <2>4, <1>1 DEF RecoverLock
  <2> QED BY <2>1, <2>2, <2>3, <2>4 DEF Next

LEMMA ResolveInvHolds == Spec => []ResolveInv
<1>1. Init /\ TypeOK => ResolveInv
  BY IdleResolves DEF Init, ResolveInv, IndexesResolve, References, TypeOK
<1> QED BY <1>1, ResolveStep, TypeCorrect, PTL DEF Spec

(* Every index object on disk resolves, whatever the writers, their errors,  *)
(* their deaths and the removals of the lock file do.                        *)
THEOREM Resolves == Spec => []IndexesResolve
<1>1. ResolveInv => IndexesResolve
  BY DEF ResolveInv
<1> QED BY <1>1, ResolveInvHolds, PTL

-----------------------------------------------------------------------------
(* The counters of an index: what they count, and what they allow.           *)
Accounted(i) ==
  /\ IsFiniteSet(i.inventory) /\ IsFiniteSet(BytesOf(i.inventory))
  /\ i.objects = Cardinality(i.inventory) + i.sequence
  /\ i.bytes = SumOfSizes(i.inventory) + i.sequence * IndexSize

Fits(i) == i.sequence # 0 /\ i.objects <= MaxObjects /\ i.bytes <= MaxBytes

(* An index that is about to be written has been checked against the limits. *)
CountInv ==
  /\ \A r \in References : Accounted(indexes[r]) /\ Fits(indexes[r])
  /\ \A w \in Writers : /\ Accounted(txn[w].index)
                        /\ pc[w] = "indexing" => Fits(txn[w].index)

(* An object that is not in the inventory adds exactly its own length to it. *)
LEMMA BytesAdded ==
  ASSUME NEW S, IsFiniteSet(S), IsFiniteSet(BytesOf(S)), NEW o \in Objects, o \notin S
  PROVE  /\ IsFiniteSet(S \cup {o}) /\ IsFiniteSet(BytesOf(S \cup {o}))
         /\ Cardinality(S \cup {o}) = Cardinality(S) + 1 /\ Cardinality(S) \in Nat
         /\ SumOfSizes(S \cup {o}) = SumOfSizes(S) + Size[o] /\ SumOfSizes(S) \in Nat
<1>1. PICK n \in Nat : n = Size[o]
  BY StoreAssumption
<1>2. PICK own : own = {o} \X (1..n)
  OBVIOUS
<1>3. IsFiniteSet(own) /\ Cardinality(own) = n
  <2>1. IsFiniteSet({o}) /\ Cardinality({o}) = 1
    BY FS_Singleton
  <2>2. IsFiniteSet(1..n) /\ Cardinality(1..n) = n
    BY FS_Interval
  <2>3. /\ IsFiniteSet({o} \X (1..n))
        /\ Cardinality({o} \X (1..n)) = Cardinality({o}) * Cardinality(1..n)
    BY <2>1, <2>2, FS_Product
  <2>4. Cardinality({o}) * Cardinality(1..n) = n
    BY <2>1, <2>2
  <2> QED BY <1>2, <2>3, <2>4
<1>4. BytesOf(S \cup {o}) = BytesOf(S) \cup own
  BY <1>1, <1>2 DEF BytesOf
<1>5. BytesOf(S) \cap own = {}
  <2>1. ASSUME NEW b \in BytesOf(S), b \in own PROVE FALSE
    <3>1. PICK q \in S : b \in {q} \X (1..Size[q])
      BY DEF BytesOf
    <3>2. b[1] = q /\ b[1] = o
      BY <1>2, <2>1, <3>1
    <3> QED BY <3>2
  <2> QED BY <2>1
<1>6. /\ IsFiniteSet(BytesOf(S) \cup own)
      /\ Cardinality(BytesOf(S) \cup own) = Cardinality(BytesOf(S)) + n - 0
  BY <1>3, <1>5, FS_Union, FS_EmptySet
<1>7. Cardinality(BytesOf(S)) \in Nat /\ Cardinality(S) \in Nat
  BY FS_CardinalityType
<1>8. IsFiniteSet(S \cup {o}) /\ Cardinality(S \cup {o}) = Cardinality(S) + 1
  BY FS_AddElement
<1>9. Cardinality(BytesOf(S \cup {o})) = Cardinality(BytesOf(S)) + Size[o]
  <2>1. PICK c \in Nat : c = Cardinality(BytesOf(S))
    BY <1>7
  <2>2. c + n - 0 = c + n
    OBVIOUS
  <2>3. Cardinality(BytesOf(S) \cup own) = c + n
    BY <1>6, <2>1, <2>2
  <2> QED BY <1>1, <1>4, <2>1, <2>3
<1> QED BY <1>4, <1>6, <1>7, <1>8, <1>9 DEF SumOfSizes

LEMMA EmptyAccounted == Accounted(EmptyIndex)
<1>1. BytesOf({}) = {}
  BY DEF BytesOf
<1>2. IsFiniteSet({}) /\ Cardinality({}) = 0
  BY FS_EmptySet
<1>3. SumOfSizes({}) = 0
  BY <1>1, <1>2 DEF SumOfSizes
<1>4. EmptyIndex.inventory = {} /\ EmptyIndex.objects = 0 /\ EmptyIndex.bytes = 0 /\ EmptyIndex.sequence = 0
  BY DEF EmptyIndex
<1>5. 0 + 0 * IndexSize = 0
  BY StoreAssumption
<1> QED BY <1>1, <1>2, <1>3, <1>4, <1>5 DEF Accounted

LEMMA CountStep == TypeOK /\ CountInv /\ [Next]_vars => CountInv'
<1> USE StoreAssumption
<1> SUFFICES ASSUME TypeOK, CountInv, [Next]_vars PROVE CountInv'
  OBVIOUS
<1>t. \A w \in Writers : txn[w] \in Transaction
  BY DEF TypeOK
<1>a. ASSUME UNCHANGED indexes
      PROVE  \A r \in References' : Accounted(indexes'[r]) /\ Fits(indexes'[r])
  BY <1>a DEF CountInv, References
<1>b. ASSUME NEW w \in Writers, NEW t, NEW label,
             txn' = [txn EXCEPT ![w] = t], pc' = [pc EXCEPT ![w] = label],
             UNCHANGED indexes, Accounted(t.index),
             label = "indexing" => Fits(t.index)
      PROVE  CountInv'
  <2>1. ASSUME NEW v \in Writers
        PROVE  Accounted(txn'[v].index) /\ (pc'[v] = "indexing" => Fits(txn'[v].index))
    <3>1. CASE v = w
      BY <3>1, <1>b DEF TypeOK
    <3>2. CASE v # w
      BY <3>2, <1>b DEF TypeOK, CountInv
    <3> QED BY <3>1, <3>2
  <2>2. \A r \in References' : Accounted(indexes'[r]) /\ Fits(indexes'[r])
    BY <1>a, <1>b
  <2> QED BY <2>1, <2>2 DEF CountInv
<1>c. ASSUME NEW w \in Writers, NEW label \in Active \ {"indexing"},
             UNCHANGED <<indexes, txn>>, Goto(w, label)
      PROVE  CountInv'
  <2>1. txn' = [txn EXCEPT ![w] = txn[w]] /\ Accounted(txn[w].index)
    BY <1>c DEF TypeOK, CountInv
  <2> QED BY <1>b, <1>c, <2>1 DEF Goto
<1>1. CASE UNCHANGED <<indexes, txn, pc>>
  <2>1. \A r \in References' : Accounted(indexes'[r]) /\ Fits(indexes'[r])
    BY <1>1, <1>a
  <2> QED BY <1>1, <2>1 DEF CountInv
<1>2. ASSUME NEW w \in Writers, txn' = [txn EXCEPT ![w] = Idle],
             pc' = [pc EXCEPT ![w] = "idle"], UNCHANGED indexes
      PROVE  CountInv'
  <2>1. Accounted(Idle.index)
    BY EmptyAccounted DEF Idle
  <2> QED BY <1>2, <1>b, <2>1
<1>3. ASSUME NEW w \in Writers, AcquireLock(w) \/ FinishOperation(w) \/ CompareHead(w) \/ PublishHead(w)
      PROVE  CountInv'
  <2>1. /\ UNCHANGED <<indexes, txn>>
        /\ \E label \in Active \ {"indexing"} : Goto(w, label)
    BY <1>3 DEF AcquireLock, FinishOperation, CompareHead, PublishHead, Active
  <2> QED BY <1>c, <2>1
<1>4. ASSUME NEW w \in Writers, ReadHead(w) PROVE CountInv'
  <2> DEFINE t == [txn[w] EXCEPT !.index = IndexAt(head), !.initial = head]
  <2>1. t.index = IndexAt(head)
    BY <1>t DEF Transaction
  <2>2. txn' = [txn EXCEPT ![w] = t] /\ UNCHANGED indexes
        /\ pc' = [pc EXCEPT ![w] = "operating"]
    BY <1>4 DEF ReadHead, Goto
  <2>3. Accounted(IndexAt(head))
    BY EmptyAccounted DEF TypeOK, CountInv, IndexAt
  <2> HIDE DEF t
  <2> QED BY <1>b, <2>1, <2>2, <2>3
<1>5. ASSUME NEW w \in Writers, NEW o \in Objects, StageBlob(w, o) PROVE CountInv'
  <2> DEFINE t == [txn[w] EXCEPT !.blob = o, !.existed = o \in blobs]
  <2>1. t.index = txn[w].index /\ Accounted(txn[w].index)
    BY <1>t DEF Transaction, CountInv
  <2>2. txn' = [txn EXCEPT ![w] = t] /\ UNCHANGED indexes
        /\ pc' = [pc EXCEPT ![w] = "staged"]
    BY <1>5 DEF StageBlob, Goto
  <2> HIDE DEF t
  <2> QED BY <1>b, <2>1, <2>2
<1>6. ASSUME NEW w \in Writers, NEW o \in Objects, PointTo(w, o) PROVE CountInv'
  <2> DEFINE t == [txn[w] EXCEPT !.index.current = o]
  <2>1. /\ t.index.inventory = txn[w].index.inventory
        /\ t.index.sequence = txn[w].index.sequence
        /\ t.index.objects = txn[w].index.objects
        /\ t.index.bytes = txn[w].index.bytes
    BY <1>t DEF Transaction, Index
  <2>2. /\ txn' = [txn EXCEPT ![w] = t] /\ UNCHANGED indexes
        /\ pc' = [pc EXCEPT ![w] = "operating"]
    BY <1>6 DEF PointTo, TypeOK
  <2> HIDE DEF t
  <2>3. Accounted(t.index)
    BY <2>1 DEF CountInv, Accounted
  <2> QED BY <1>b, <2>2, <2>3
<1>7. ASSUME NEW w \in Writers, PersistBlob(w) PROVE CountInv'
  <2> DEFINE o == txn[w].blob
             i == txn[w].index
             j == IF o \in i.inventory THEN i
                  ELSE [i EXCEPT !.inventory = @ \cup {o},
                                 !.objects   = @ + 1,
                                 !.bytes     = @ + Size[o]]
             t == [txn[w] EXCEPT !.blob = None, !.existed = FALSE, !.index = j]
  <2>1. i \in Index /\ o \in Objects /\ Accounted(i)
    BY <1>t, <1>7 DEF Transaction, CountInv, PersistBlob, TypeOK
  <2>2. t.index = j
    BY <1>t DEF Transaction
  <2>3. /\ txn' = [txn EXCEPT ![w] = t] /\ UNCHANGED indexes
        /\ pc' = [pc EXCEPT ![w] = "operating"]
    BY <1>7 DEF PersistBlob, Goto
  <2>4. Accounted(j)
    <3>1. CASE o \in i.inventory
      BY <2>1, <3>1
    <3>2. CASE o \notin i.inventory
      <4>1. /\ j.inventory = i.inventory \cup {o} /\ j.sequence = i.sequence
            /\ j.objects = i.objects + 1 /\ j.bytes = i.bytes + Size[o]
        BY <2>1, <3>2 DEF Index
      <4>2. PICK S : S = i.inventory
        OBVIOUS
      <4> HIDE DEF j
      <4>3. /\ IsFiniteSet(S \cup {o}) /\ IsFiniteSet(BytesOf(S \cup {o}))
            /\ Cardinality(S \cup {o}) = Cardinality(S) + 1 /\ Cardinality(S) \in Nat
            /\ SumOfSizes(S \cup {o}) = SumOfSizes(S) + Size[o] /\ SumOfSizes(S) \in Nat
        BY <2>1, <3>2, <4>2, BytesAdded DEF Accounted
      <4>4. /\ i.sequence \in Nat /\ i.objects \in Nat /\ i.bytes \in Nat /\ Size[o] \in Nat
            /\ i.sequence * IndexSize \in Nat
        BY <2>1 DEF Index
      <4> QED BY <2>1, <4>1, <4>2, <4>3, <4>4 DEF Accounted
    <3> QED BY <3>1, <3>2
  <2> HIDE DEF t, j
  <2> QED BY <1>b, <2>2, <2>3, <2>4
<1>8. ASSUME NEW w \in Writers, PrepareIndex(w) PROVE CountInv'
  <2> DEFINE i == txn[w].index
             t == [txn[w] EXCEPT !.index = NextIndex(w)]
  <2>1. i \in Index /\ Accounted(i)
    BY <1>t DEF Transaction, CountInv
  <2>2. /\ NextIndex(w).inventory = i.inventory
        /\ NextIndex(w).sequence = i.sequence + 1
        /\ NextIndex(w).objects = i.objects + 1
        /\ NextIndex(w).bytes = i.bytes + IndexSize
        /\ t.index = NextIndex(w)
    BY <1>t DEF Transaction, Index, NextIndex
  <2>3. /\ txn' = [txn EXCEPT ![w] = t] /\ UNCHANGED indexes
        /\ pc' = [pc EXCEPT ![w] = "indexing"]
        /\ NextIndex(w).objects <= MaxObjects /\ NextIndex(w).bytes <= MaxBytes
    BY <1>8 DEF PrepareIndex, Goto, CanCommit
  <2>4. i.sequence \in Nat /\ i.objects \in Nat /\ i.bytes \in Nat
    BY <2>1 DEF Index
  <2>5. (i.sequence + 1) * IndexSize = i.sequence * IndexSize + IndexSize
    BY <2>4
  <2>6. Cardinality(i.inventory) \in Nat /\ SumOfSizes(i.inventory) \in Nat
        /\ i.sequence * IndexSize \in Nat
    BY <2>1, <2>4, FS_CardinalityType DEF Accounted, SumOfSizes
  <2> HIDE DEF t
  <2>7. Accounted(t.index)
    BY <2>1, <2>2, <2>4, <2>5, <2>6 DEF Accounted
  <2>8. Fits(t.index)
    BY <2>2, <2>3, <2>4 DEF Fits
  <2> QED BY <1>b, <2>3, <2>7, <2>8
<1>9. ASSUME NEW w \in Writers, WriteIndex(w) PROVE CountInv'
  <2> DEFINE known == {r \in References : indexes[r] = txn[w].index}
  <2>0. pc[w] = "indexing" /\ pc' = [pc EXCEPT ![w] = "comparing"]
    BY <1>9 DEF WriteIndex, Goto
  <2>1. CASE known # {}
    <3> DEFINE t == [txn[w] EXCEPT !.ref = CHOOSE r \in known : TRUE]
    <3>1. t.index = txn[w].index /\ Accounted(txn[w].index)
      BY <1>t DEF Transaction, CountInv
    <3>2. txn' = [txn EXCEPT ![w] = t] /\ UNCHANGED indexes
      BY <1>9, <2>1 DEF WriteIndex
    <3> HIDE DEF t
    <3> QED BY <1>b, <2>0, <3>1, <3>2
  <2>2. CASE known = {}
    <3>1. /\ indexes' = Append(indexes, txn[w].index)
          /\ txn[w].index \in Index
          /\ txn' = [txn EXCEPT ![w].ref = Len(indexes) + 1]
      BY <1>9, <1>t, <2>2 DEF WriteIndex, Transaction
    <3>2. /\ References' = References \cup {Len(indexes) + 1}
          /\ indexes'[Len(indexes) + 1] = txn[w].index
          /\ \A r \in References : indexes'[r] = indexes[r]
      BY <3>1, Growing DEF TypeOK
    <3>3. \A v \in Writers : txn'[v].index = txn[v].index
      BY <3>1, <1>t DEF Transaction, TypeOK
    <3>4. \A v \in Writers : pc'[v] = "indexing" => pc[v] = "indexing"
      BY <2>0 DEF TypeOK
    <3>5. Accounted(txn[w].index) /\ Fits(txn[w].index)
      BY <2>0 DEF CountInv
    <3>6. \A r \in References' : Accounted(indexes'[r]) /\ Fits(indexes'[r])
      BY <3>2, <3>5 DEF CountInv
    <3> QED BY <3>3, <3>4, <3>6 DEF CountInv
  <2> QED BY <2>1, <2>2
<1> QED
  <2>1. CASE UNCHANGED vars
    BY <2>1, <1>1 DEF vars
  <2>2. ASSUME NEW w \in Writers, Step(w) PROVE CountInv'
    BY <2>2, <1>2, <1>3, <1>4, <1>5, <1>6, <1>7, <1>8, <1>9
    DEF Step, Release, Abort, DropLock, Goto
  <2>3. ASSUME NEW w \in Writers, Error(w) \/ Crash(w) PROVE CountInv'
    BY <2>3, <1>2 DEF Error, Crash, DropLock, Goto
  <2>4. CASE RecoverLock
    BY <2>4, <1>1 DEF RecoverLock
  <2> QED BY <2>1, <2>2, <2>3, <2>4 DEF Next

LEMMA CountInvHolds == Spec => []CountInv
<1>1. Init => CountInv
  BY EmptyAccounted DEF Init, CountInv, References, Idle
<1> QED BY <1>1, CountStep, TypeCorrect, PTL DEF Spec

(* The counters of every index on disk are exact, whichever objects failed   *)
(* transactions and dead writers left behind and however often the lock file *)
(* was removed.                                                              *)
THEOREM Exact == Spec => []AccountingExact
<1>1. CountInv => AccountingExact
  BY DEF CountInv, Accounted, AccountingExact
<1> QED BY <1>1, CountInvHolds, PTL

(* An archive that was written can be opened: whatever HEAD names passes the *)
(* validation of its reader, at every limit of the archive.                  *)
THEOREM Loadable == Spec => []HeadLoads
<1>1. TypeOK /\ CountInv => HeadLoads
  <2> SUFFICES ASSUME TypeOK, CountInv, head # None, NEW i, i = indexes[head]
               PROVE  /\ head \in References
                      /\ i.sequence # 0 /\ i.objects <= MaxObjects /\ i.bytes <= MaxBytes
                      /\ Cardinality(i.inventory) <= i.objects
                      /\ SumOfSizes(i.inventory) <= i.bytes
    BY DEF HeadLoads, Loads
  <2>1. head \in References /\ Accounted(i) /\ Fits(i)
    BY DEF TypeOK, CountInv
  <2>2. i \in Index
    BY <2>1 DEF TypeOK, References
  <2>3. /\ Cardinality(i.inventory) \in Nat /\ SumOfSizes(i.inventory) \in Nat
        /\ i.sequence \in Nat /\ i.sequence * IndexSize \in Nat
    BY <2>1, <2>2, FS_CardinalityType, StoreAssumption DEF Accounted, SumOfSizes, Index
  <2> QED BY <2>1, <2>3 DEF Accounted, Fits
<1> QED BY <1>1, CountInvHolds, TypeCorrect, PTL

-----------------------------------------------------------------------------
(* How far the index a transaction edits has moved from the one it read.     *)
Editing == {"operating", "staged", "committing"}
Committing == {"indexing", "comparing", "publishing"}

Changed(i, base) ==
  <<i.inventory, i.current>> # <<base.inventory, base.current>>

At(I, r) == IF r = None THEN EmptyIndex ELSE I[r]

Follows(I, label, t) ==
  LET i == t.index
      base == At(I, t.initial)
  IN
    /\ label \in Editing \cup Committing =>
         base.inventory \subseteq i.inventory
    /\ label \in Editing =>
         /\ i.sequence = base.sequence /\ i.previous = base.previous
         /\ i.inventory = base.inventory =>
              i.objects = base.objects /\ i.bytes = base.bytes
    /\ label = "committing" => Changed(i, base)
    /\ label \in Committing =>
         /\ i.previous = t.initial
         /\ i.sequence = base.sequence + 1
         /\ base.sequence < MaxSequence
         /\ Changed(i, base)
    /\ label \in {"comparing", "publishing"} =>
         t.ref \in 1..Len(I) /\ I[t.ref] = i

(* Under the lock, HEAD stays what the transaction read.                     *)
FollowInv == TypeOK /\ \A w \in Writers : Follows(indexes, pc[w], txn[w])

LEMMA Rest ==
  ASSUME NEW I, NEW label \in {"idle", "locked", "published"}, NEW t
  PROVE  Follows(I, label, t)
  BY DEF Follows, At, IndexAt, Editing, Committing

LEMMA SameRecord ==
  ASSUME NEW i \in Index, NEW j \in Index,
         i.sequence = j.sequence, i.previous = j.previous,
         i.inventory = j.inventory, i.current = j.current,
         i.objects = j.objects, i.bytes = j.bytes
  PROVE  i = j
  BY DEF Index

LEMMA FollowStep == TypeOK /\ TypeOK' /\ FollowInv /\ [Next]_vars => FollowInv'
<1> USE StoreAssumption
<1> SUFFICES ASSUME TypeOK, TypeOK', FollowInv, [Next]_vars PROVE FollowInv'
  OBVIOUS
<1>t. \A w \in Writers : txn[w] \in Transaction
  BY DEF TypeOK
<1>b. ASSUME NEW w \in Writers, UNCHANGED indexes, NEW t, NEW label,
             txn' = [txn EXCEPT ![w] = t], pc' = [pc EXCEPT ![w] = label],
             Follows(indexes, label, t)
      PROVE  FollowInv'
  <2> SUFFICES ASSUME NEW v \in Writers PROVE Follows(indexes', pc'[v], txn'[v])
    BY DEF FollowInv
  <2>1. CASE v = w
    BY <2>1, <1>b DEF TypeOK
  <2>2. CASE v # w
    BY <2>2, <1>b DEF FollowInv, TypeOK
  <2> QED BY <2>1, <2>2
<1>c. ASSUME NEW w \in Writers, UNCHANGED <<indexes, txn>>, NEW label,
             pc' = [pc EXCEPT ![w] = label], Follows(indexes, label, txn[w])
      PROVE  FollowInv'
  <2>1. txn' = [txn EXCEPT ![w] = txn[w]]
    BY <1>c DEF TypeOK
  <2> QED BY <2>1, <1>b, <1>c
<1>1. CASE UNCHANGED <<indexes, txn, pc>>
  <2> SUFFICES ASSUME NEW v \in Writers PROVE Follows(indexes', pc'[v], txn'[v])
    BY DEF FollowInv
  <2> QED BY <1>1 DEF FollowInv
<1>2. ASSUME NEW w \in Writers, txn' = [txn EXCEPT ![w] = Idle],
             pc' = [pc EXCEPT ![w] = "idle"], UNCHANGED indexes
      PROVE  FollowInv'
  BY <1>2, <1>b, Rest
<1>3. ASSUME NEW w \in Writers, AcquireLock(w) PROVE FollowInv'
  BY <1>3, <1>c, Rest DEF AcquireLock, Goto
<1>4. ASSUME NEW w \in Writers, ReadHead(w) PROVE FollowInv'
  <2> DEFINE t == [txn[w] EXCEPT !.index = IndexAt(head), !.initial = head]
  <2>1. t.index = IndexAt(head) /\ t.initial = head
    BY <1>t DEF Transaction
  <2>2. txn' = [txn EXCEPT ![w] = t] /\ UNCHANGED indexes
        /\ pc' = [pc EXCEPT ![w] = "operating"]
    BY <1>4 DEF ReadHead, Goto
  <2> HIDE DEF t
  <2>3. Follows(indexes, "operating", t)
    BY <2>1 DEF Follows, At, IndexAt, Editing, Committing
  <2> QED BY <2>2, <2>3, <1>b
<1>5. ASSUME NEW w \in Writers, NEW o \in Objects, StageBlob(w, o)
      PROVE  FollowInv'
  <2> DEFINE t == [txn[w] EXCEPT !.blob = o, !.existed = o \in blobs]
  <2>1. t.index = txn[w].index /\ t.initial = txn[w].initial
    BY <1>t DEF Transaction
  <2>2. /\ txn' = [txn EXCEPT ![w] = t] /\ UNCHANGED indexes
        /\ pc' = [pc EXCEPT ![w] = "staged"] /\ pc[w] = "operating"
    BY <1>5 DEF StageBlob, Goto
  <2> HIDE DEF t
  <2>3. Follows(indexes, "operating", txn[w])
    BY <2>2 DEF FollowInv
  <2>4. Follows(indexes, "staged", t)
    BY <2>1, <2>3 DEF Follows, At, IndexAt, Editing, Committing
  <2> QED BY <2>2, <2>4, <1>b
<1>6. ASSUME NEW w \in Writers, NEW o \in Objects, PointTo(w, o)
      PROVE  FollowInv'
  <2> DEFINE t == [txn[w] EXCEPT !.index.current = o]
  <2>1. /\ t.index.inventory = txn[w].index.inventory
        /\ t.index.previous = txn[w].index.previous
        /\ t.index.sequence = txn[w].index.sequence
        /\ t.index.objects = txn[w].index.objects
        /\ t.index.bytes = txn[w].index.bytes
        /\ t.initial = txn[w].initial
    BY <1>t DEF Transaction, Index
  <2>2. /\ txn' = [txn EXCEPT ![w] = t] /\ UNCHANGED indexes
        /\ pc' = [pc EXCEPT ![w] = "operating"] /\ pc[w] = "operating"
    BY <1>6 DEF PointTo, TypeOK
  <2> HIDE DEF t
  <2>3. Follows(indexes, "operating", txn[w])
    BY <2>2 DEF FollowInv
  <2>4. Follows(indexes, "operating", t)
    BY <2>1, <2>3 DEF Follows, At, IndexAt, Editing, Committing
  <2> QED BY <2>2, <2>4, <1>b
<1>7. ASSUME NEW w \in Writers, PersistBlob(w) PROVE FollowInv'
  <2> DEFINE o == txn[w].blob
             i == txn[w].index
             j == IF o \in i.inventory THEN i
                  ELSE [i EXCEPT !.inventory = @ \cup {o},
                                 !.objects   = @ + 1,
                                 !.bytes     = @ + Size[o]]
             t == [txn[w] EXCEPT !.blob = None, !.existed = FALSE,
                                 !.index = j]
  <2>1. /\ j.inventory = i.inventory \cup {o}
        /\ j.sequence = i.sequence /\ j.previous = i.previous
        /\ \/ j = i
           \/ o \notin i.inventory
    BY <1>t DEF Transaction, Index
  <2>2. t.index = j /\ t.initial = txn[w].initial
    BY <1>t DEF Transaction
  <2>3. /\ txn' = [txn EXCEPT ![w] = t] /\ UNCHANGED indexes
        /\ pc' = [pc EXCEPT ![w] = "operating"] /\ pc[w] = "staged"
    BY <1>7 DEF PersistBlob, Goto
  <2> HIDE DEF t, j
  <2>4. Follows(indexes, "staged", txn[w])
    BY <2>3 DEF FollowInv
  <2>5. Follows(indexes, "operating", t)
    BY <2>1, <2>2, <2>4 DEF Follows, At, IndexAt, Editing, Committing
  <2> QED BY <2>3, <2>5, <1>b
<1>8. ASSUME NEW w \in Writers, FinishOperation(w) PROVE FollowInv'
  <2>1. /\ UNCHANGED <<indexes, txn>> /\ pc[w] = "operating"
    BY <1>8 DEF FinishOperation
  <2>2. CASE txn[w].index = IndexAt(txn[w].initial)
    BY <1>8, <2>1, <2>2, <1>c, Rest DEF FinishOperation, Goto
  <2>3. CASE txn[w].index # IndexAt(txn[w].initial)
    <3>1. Follows(indexes, "operating", txn[w])
      BY <2>1 DEF FollowInv
    <3>2. txn[w].index \in Index /\ IndexAt(txn[w].initial) \in Index
      BY <1>t, IndexAtType DEF Transaction
    <3>3. Follows(indexes, "committing", txn[w])
      BY <2>3, <3>1, <3>2, SameRecord DEF Follows, At, IndexAt, Editing, Committing,
                                     Changed
    <3> QED BY <1>8, <2>1, <2>3, <3>3, <1>c DEF FinishOperation, Goto
  <2> QED BY <2>2, <2>3
<1>9. ASSUME NEW w \in Writers, PrepareIndex(w) PROVE FollowInv'
  <2> DEFINE t == [txn[w] EXCEPT !.index = NextIndex(w)]
  <2>1. /\ t.index.inventory = txn[w].index.inventory
        /\ t.index.current = txn[w].index.current
        /\ t.index.previous = txn[w].initial
        /\ t.index.sequence = txn[w].index.sequence + 1
        /\ t.initial = txn[w].initial
    BY <1>t DEF Transaction, Index, NextIndex
  <2>2. /\ txn' = [txn EXCEPT ![w] = t] /\ UNCHANGED indexes
        /\ pc' = [pc EXCEPT ![w] = "indexing"] /\ pc[w] = "committing"
        /\ txn[w].index.sequence < MaxSequence
    BY <1>9 DEF PrepareIndex, Goto, CanCommit
  <2> HIDE DEF t
  <2>3. Follows(indexes, "committing", txn[w])
    BY <2>2 DEF FollowInv
  <2>4. Follows(indexes, "indexing", t)
    BY <2>1, <2>2, <2>3 DEF Follows, At, IndexAt, Editing, Committing,
                                     Changed
  <2> QED BY <2>2, <2>4, <1>b
<1>10. ASSUME NEW w \in Writers, WriteIndex(w) PROVE FollowInv'
  <2> DEFINE known == {r \in References : indexes[r] = txn[w].index}
             q == IF known # {} THEN CHOOSE r \in known : TRUE
                  ELSE Len(indexes) + 1
             t == [txn[w] EXCEPT !.ref = q]
  <2>1. /\ \A r \in References : r \in References' /\ indexes'[r] = indexes[r]
        /\ q \in References' /\ indexes'[q] = txn[w].index
    <3>1. CASE known # {}
      <4>1. UNCHANGED indexes
        BY <1>10, <3>1 DEF WriteIndex
      <4>2. (CHOOSE r \in known : TRUE) \in known
        BY <3>1
      <4> QED BY <3>1, <4>1, <4>2 DEF References
    <3>2. CASE known = {}
      <4>1. indexes' = Append(indexes, txn[w].index) /\ txn[w].index \in Index
        BY <1>10, <1>t, <3>2 DEF WriteIndex, Transaction
      <4> QED BY <3>2, <4>1, Growing DEF TypeOK
    <3> QED BY <3>1, <3>2
  <2>2. txn' = [txn EXCEPT ![w] = t] /\ pc' = [pc EXCEPT ![w] = "comparing"]
        /\ pc[w] = "indexing"
    BY <1>10 DEF WriteIndex, Goto
  <2>3. t.index = txn[w].index /\ t.initial = txn[w].initial /\ t.ref = q
    BY <1>t DEF Transaction
  <2> HIDE DEF q, t
  <2>5. \A v \in Writers : /\ txn'[v].initial = txn[v].initial
                           /\ txn[v].initial \in References \cup {None}
    BY <2>2, <2>3, <1>t DEF Transaction, TypeOK
  <2>6. \A r \in References \cup {None} : At(indexes', r) = At(indexes, r)
    BY <2>1 DEF At
  <2>7. ASSUME NEW v \in Writers PROVE Follows(indexes', pc'[v], txn'[v])
    <3>0. Follows(indexes, pc[v], txn[v])
      BY DEF FollowInv
    <3>3. At(indexes', txn'[v].initial) = At(indexes, txn[v].initial)
      BY <2>5, <2>6
    <3>1. CASE v # w
      <4>1. pc'[v] = pc[v] /\ txn'[v] = txn[v]
        BY <2>2, <3>1 DEF TypeOK
      <4> QED BY <2>1, <3>0, <3>3, <4>1 DEF Follows, References
    <3>2. CASE v = w
      <4>1. pc'[v] = "comparing" /\ txn'[v] = t /\ pc[v] = "indexing"
        BY <2>2, <3>2 DEF TypeOK
      <4> QED
        BY <2>1, <2>3, <3>0, <3>2, <3>3, <4>1
        DEF Follows, Editing, Committing, References
    <3> QED BY <3>1, <3>2
  <2> QED BY <2>7 DEF FollowInv
<1>11. ASSUME NEW w \in Writers, CompareHead(w) PROVE FollowInv'
  <2>1. /\ pc[w] = "comparing" /\ UNCHANGED <<indexes, txn>>
        /\ pc' = [pc EXCEPT ![w] = "publishing"]
    BY <1>11 DEF CompareHead, Goto
  <2>2. Follows(indexes, "comparing", txn[w])
    BY <2>1 DEF FollowInv
  <2>3. Follows(indexes, "publishing", txn[w])
    BY <2>2 DEF Follows, At, IndexAt, Editing, Committing
  <2> QED BY <2>1, <2>3, <1>c
<1>12. ASSUME NEW w \in Writers, PublishHead(w) PROVE FollowInv'
  BY <1>12, <1>c, Rest DEF PublishHead, Goto
<1> QED
  <2>1. CASE UNCHANGED vars
    BY <2>1, <1>1 DEF vars
  <2>2. ASSUME NEW w \in Writers, Step(w) PROVE FollowInv'
    BY <2>2, <1>2, <1>3, <1>4, <1>5, <1>6, <1>7, <1>8, <1>9, <1>10, <1>11,
       <1>12 DEF Step, Release, Abort, DropLock, Goto
  <2>3. ASSUME NEW w \in Writers, Error(w) \/ Crash(w) PROVE FollowInv'
    BY <2>3, <1>2 DEF Error, Crash, DropLock, Goto
  <2>4. CASE RecoverLock
    BY <2>4, <1>1 DEF RecoverLock
  <2> QED BY <2>1, <2>2, <2>3, <2>4 DEF Next

-----------------------------------------------------------------------------
(* As long as nobody removes the lock file of a live writer, it excludes     *)
(* writers and HEAD stays what the one transaction in progress has read.     *)
HeadInv ==
  /\ WritersExclude
  /\ \A w \in Writers :
       pc[w] \in Editing \cup Committing => txn[w].initial = head

LEMMA HeadInvStep ==
  LiveRecovery = FALSE /\ TypeOK /\ HeadInv /\ [Next]_vars => HeadInv'
<1> USE StoreAssumption DEF Active, Editing, Committing
<1> SUFFICES ASSUME LiveRecovery = FALSE, TypeOK, HeadInv, [Next]_vars
             PROVE  HeadInv'
  OBVIOUS
<1>t. \A w \in Writers : txn[w] \in Transaction
  BY DEF TypeOK
<1>1. CASE UNCHANGED vars
  BY <1>1 DEF vars, HeadInv, WritersExclude
<1>2. ASSUME NEW w \in Writers, DropLock(w), pc[w] \in Active, UNCHANGED head
      PROVE  HeadInv'
  BY <1>2 DEF DropLock, Goto, HeadInv, WritersExclude, TypeOK
<1>3. ASSUME NEW w \in Writers, AcquireLock(w) PROVE HeadInv'
  BY <1>3 DEF AcquireLock, Goto, HeadInv, WritersExclude, TypeOK
<1>4. ASSUME NEW w \in Writers, ReadHead(w) PROVE HeadInv'
  <2>1. txn'[w].initial = head
    BY <1>4, <1>t DEF ReadHead, TypeOK, Transaction
  <2> QED BY <1>4, <2>1 DEF ReadHead, Goto, HeadInv, WritersExclude, TypeOK
<1>5. ASSUME NEW w \in Writers, UNCHANGED <<lock, head>>, NEW label \in Active,
             pc[w] \in Editing \cup Committing, Goto(w, label),
             txn'[w].initial = txn[w].initial,
             \A v \in Writers \ {w} : txn'[v] = txn[v]
      PROVE  HeadInv'
  BY <1>5 DEF Goto, HeadInv, WritersExclude, TypeOK
<1>6. ASSUME NEW w \in Writers, NEW o \in Objects,
             StageBlob(w, o) \/ PointTo(w, o)
      PROVE  HeadInv'
  <2>1. /\ txn'[w].initial = txn[w].initial
        /\ \A v \in Writers \ {w} : txn'[v] = txn[v]
    BY <1>6, <1>t DEF StageBlob, PointTo, TypeOK, Transaction
  <2>2. Goto(w, "staged") \/ Goto(w, "operating")
    BY <1>6 DEF StageBlob, PointTo, Goto, TypeOK
  <2> QED BY <1>5, <1>6, <2>1, <2>2 DEF StageBlob, PointTo
<1>7. ASSUME NEW w \in Writers, \/ PersistBlob(w) \/ FinishOperation(w)
                                \/ PrepareIndex(w) \/ WriteIndex(w)
                                \/ CompareHead(w)
      PROVE  HeadInv'
  <2>1. /\ txn'[w].initial = txn[w].initial
        /\ \A v \in Writers \ {w} : txn'[v] = txn[v]
    BY <1>7, <1>t DEF PersistBlob, FinishOperation, PrepareIndex, WriteIndex,
                      CompareHead, TypeOK, Transaction
  <2>2. \E label \in Active : Goto(w, label)
    BY <1>7 DEF PersistBlob, FinishOperation, PrepareIndex, WriteIndex,
                CompareHead
  <2>3. pc[w] \in Editing \cup Committing /\ UNCHANGED <<lock, head>>
    BY <1>7 DEF PersistBlob, FinishOperation, PrepareIndex, WriteIndex,
                CompareHead
  <2> QED BY <1>5, <2>1, <2>2, <2>3
<1>8. ASSUME NEW w \in Writers, PublishHead(w) PROVE HeadInv'
  BY <1>8 DEF PublishHead, Goto, HeadInv, WritersExclude, TypeOK
<1>9. ASSUME NEW w \in Writers, Release(w) \/ Abort(w) \/ Error(w)
      PROVE  HeadInv'
  BY <1>2, <1>9 DEF Release, Abort, Error, Refused
<1>10. ASSUME NEW w \in Writers, Crash(w) PROVE HeadInv'
  BY <1>10 DEF Crash, Goto, HeadInv, WritersExclude, TypeOK
<1>11. CASE RecoverLock
  BY <1>11 DEF RecoverLock, HeadInv, WritersExclude, TypeOK
<1> QED
  BY <1>1, <1>3, <1>4, <1>6, <1>7, <1>8, <1>9, <1>10, <1>11 DEF Next, Step

LEMMA InitHolds == Init => TypeOK /\ FollowInv /\ HeadInv
  BY StoreAssumption, IdleType, Rest
  DEF Init, TypeOK, FollowInv, HeadInv, WritersExclude, Active, Editing,
      Committing

(* The lock file excludes writers through every error and crash, provided    *)
(* that a lock file is removed by hand only after its writer died.           *)
THEOREM Exclusion ==
  ASSUME LiveRecovery = FALSE
  PROVE  Spec => []WritersExclude
<1>1. HeadInv => WritersExclude
  BY DEF HeadInv
<1>2. TypeOK /\ HeadInv /\ [Next]_vars => HeadInv'
  BY HeadInvStep
<1> QED
  BY <1>1, <1>2, InitHolds, TypeCorrect, PTL DEF Spec

(* No update is lost, for any number of writers and crashes: HEAD only moves *)
(* to an index that continues the one it held.                               *)
THEOREM Advances ==
  ASSUME LiveRecovery = FALSE
  PROVE  Spec => HeadAdvances
<1>1. TypeOK /\ HeadInv /\ [Next]_vars => HeadInv'
  BY HeadInvStep
<1>2. TypeOK /\ FollowInv /\ HeadInv /\ [Next]_vars
        => [head' # head => /\ indexes'[head'].previous = head
                            /\ indexes'[head'].sequence
                                 = IndexAt(head).sequence + 1]_vars
  <2> SUFFICES ASSUME TypeOK, FollowInv, HeadInv, Next, head' # head
               PROVE  /\ indexes'[head'].previous = head
                      /\ indexes'[head'].sequence = IndexAt(head).sequence + 1
    BY DEF vars
  <2>1. PICK w \in Writers : PublishHead(w)
    BY DEF Next, Step, AcquireLock, ReadHead, StageBlob, PointTo, PersistBlob,
           FinishOperation, PrepareIndex, WriteIndex, CompareHead, Release,
           Abort, Error, Crash, RecoverLock
  <2>2. Follows(indexes, "publishing", txn[w]) /\ txn[w].initial = head
    BY <2>1 DEF PublishHead, FollowInv, HeadInv, Committing
  <2> QED
    BY <2>1, <2>2 DEF PublishHead, Follows, Committing, At, IndexAt
<1> QED
  BY <1>1, <1>2, InitHolds, FollowStep, TypeCorrect, PTL
  DEF Spec, HeadAdvances

-----------------------------------------------------------------------------
ArchiveValue == [sequence  |-> IndexAt(head).sequence,
                 inventory |-> IndexAt(head).inventory,
                 current   |-> IndexAt(head).current]

(* Only a publication changes the archive its users see.                     *)
LEMMA ArchiveStep ==
  ASSUME LiveRecovery = FALSE, TypeOK, TypeOK', ResolveInv, FollowInv, HeadInv,
         [Next]_vars
  PROVE  [Archive!Commit]_ArchiveValue
<1> USE StoreAssumption
<1>t. \A w \in Writers : txn[w] \in Transaction
  BY DEF TypeOK
<1>1. CASE UNCHANGED <<head, indexes>>
  BY <1>1 DEF ArchiveValue, IndexAt
<1>2. ASSUME NEW w \in Writers, WriteIndex(w)
      PROVE  UNCHANGED ArchiveValue
  <2> DEFINE known == {r \in References : indexes[r] = txn[w].index}
  <2>1. CASE known # {}
    BY <1>2, <2>1 DEF WriteIndex, ArchiveValue, IndexAt
  <2>2. CASE known = {}
    <3>1. indexes' = Append(indexes, txn[w].index) /\ txn[w].index \in Index
      BY <1>2, <1>t, <2>2 DEF WriteIndex, Transaction
    <3>2. head # None => indexes'[head] = indexes[head]
      BY <3>1, Growing DEF TypeOK
    <3> QED BY <1>2, <3>2 DEF WriteIndex, ArchiveValue, IndexAt
  <2> QED BY <2>1, <2>2
<1>3. ASSUME NEW w \in Writers, PublishHead(w)
      PROVE  Archive!Commit
  <2> DEFINE i == txn[w].index
  <2>1. Follows(indexes, "publishing", txn[w]) /\ txn[w].initial = head
    BY <1>3 DEF PublishHead, FollowInv, HeadInv, Committing
  <2>2. /\ At(indexes, txn[w].initial) = IndexAt(head)
        /\ IndexAt(head).inventory \subseteq i.inventory
        /\ i.sequence = IndexAt(head).sequence + 1
        /\ IndexAt(head).sequence < MaxSequence
        /\ Changed(i, IndexAt(head))
        /\ txn[w].ref \in 1..Len(indexes) /\ indexes[txn[w].ref] = i
    BY <2>1 DEF Follows, Committing, At, IndexAt
  <2>3. IndexAt(head)' = i
    BY <1>3, <2>2 DEF PublishHead, IndexAt, TypeOK
  <2>4. /\ i.inventory \in SUBSET Objects
        /\ i.current \in Objects \cup {None}
        /\ i.current \in i.inventory \cup {None}
    BY <1>t DEF Transaction, Index, ResolveInv, TxnResolves
  <2> QED BY <2>2, <2>3, <2>4 DEF Archive!Commit, Changed
<1>4. ASSUME NEW w \in Writers, Step(w) \/ Error(w) \/ Crash(w)
      PROVE  [Archive!Commit]_ArchiveValue
  BY <1>1, <1>2, <1>3, <1>4
  DEF Step, AcquireLock, ReadHead, StageBlob, PointTo, PersistBlob,
      FinishOperation, PrepareIndex, CompareHead, Release, Abort, Error, Crash
<1> QED BY <1>1, <1>4 DEF Next, RecoverLock, vars

(* The transactions of PolicyStore are atomic: the archive seen through HEAD *)
(* behaves as PolicyArchive, one value replaced by one commit at a time.     *)
THEOREM Refines ==
  ASSUME LiveRecovery = FALSE
  PROVE  Spec => Transactional
<1>1. Init => Archive!Init
  BY DEF Init, Archive!Init, IndexAt, EmptyIndex
<1>2. TypeOK /\ HeadInv /\ [Next]_vars => HeadInv'
  BY HeadInvStep
<1>3. TypeOK /\ TypeOK' /\ ResolveInv /\ FollowInv /\ HeadInv /\ [Next]_vars
        => [Archive!Commit]_ArchiveValue
  BY ArchiveStep
<1> QED
  BY <1>1, <1>2, <1>3, InitHolds, FollowStep, TypeCorrect, ResolveInvHolds, PTL
  DEF Spec, Transactional, Archive!Spec, ArchiveValue
=============================================================================

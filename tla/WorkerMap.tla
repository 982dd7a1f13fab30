------------------------------ MODULE WorkerMap ------------------------------
(***************************************************************************)
(* The bounded parallel map that snapshot I/O, rule loading and rule       *)
(* analysis share (snapshot/io_workers.rs, config/parallel.rs,             *)
(* adapters/parallel.rs): the items are cut into chunks, one scoped thread *)
(* evaluates each chunk, the caller joins every thread before it looks at  *)
(* any result, and a deadline is checked before each item and at the end.  *)
(*                                                                         *)
(* An item stands for what the operation returns for it.  Fewer items than *)
(* a threshold, or one job, are evaluated by the caller itself: that is    *)
(* the instance with Inline and one chunk.                                 *)
(***************************************************************************)
EXTENDS Naturals, Sequences

CONSTANTS
  N,       \* the number of items
  W,       \* the number of chunks
  Start,   \* the first item of each chunk, and N + 1
  Inline   \* the caller evaluates its only chunk itself

Items == 1..N

Workers == 1..W

\* What slice::chunks guarantees: nonempty chunks, in order, covering all items.
ASSUME ChunksAssumption ==
  /\ N \in Nat /\ W \in Nat /\ Inline \in BOOLEAN
  /\ Start \in [1..(W + 1) -> 1..(N + 1)]
  /\ Start[1] = 1 /\ Start[W + 1] = N + 1
  /\ \A w \in Workers : Start[w] < Start[w + 1]
  /\ Inline => W \in {0, 1}

VARIABLES
  outcome,  \* what evaluating each item comes to
  phase,    \* what the caller is doing
  next,     \* the next worker to spawn, then the next batch to merge
  state,    \* each worker
  got,      \* the values each worker has collected
  expired,  \* whether the deadline has passed
  merged,   \* the values the caller has merged
  result    \* what the caller returned

vars == <<outcome, phase, next, state, got, expired, merged, result>>

Outcomes == {"ok", "bad", "panic"}

\* An error names the item that caused it where the code's error does.
Error(kind, item) == [kind |-> kind, item |-> item, values |-> <<>>]

Returned(values) == [kind |-> "ok", item |-> 0, values |-> values]

Nothing == Error("none", 0)

Init ==
  /\ outcome \in [Items -> Outcomes]
  /\ phase = "spawn" /\ next = 1
  /\ state = [w \in Workers |-> "unborn"] /\ got = [w \in Workers |-> <<>>]
  /\ expired \in BOOLEAN /\ merged = <<>> /\ result = Nothing

\* The item worker w evaluates next.
At(w) == Start[w] + Len(got[w])

Expire ==
  /\ ~expired /\ phase # "done" /\ expired' = TRUE
  /\ UNCHANGED <<outcome, phase, next, state, got, merged, result>>

Spawn ==
  /\ phase = "spawn" /\ next <= W
  /\ state' = [state EXCEPT ![next] = "running"]
  /\ next' = next + 1
  /\ UNCHANGED <<outcome, phase, got, expired, merged, result>>

\* Leaving the scope early still waits for the threads already spawned.
SpawnFails ==
  /\ phase = "spawn" /\ next <= W /\ ~Inline
  /\ phase' = "abandon"
  /\ UNCHANGED <<outcome, next, state, got, expired, merged, result>>

AllSpawned ==
  /\ phase = "spawn" /\ next > W
  /\ phase' = "join"
  /\ UNCHANGED <<outcome, next, state, got, expired, merged, result>>

\* Each item is evaluated only before the deadline; the first error or panic
\* ends the chunk.
Evaluate(w) ==
  /\ state[w] = "running" /\ At(w) < Start[w + 1]
  /\ IF expired
       THEN state' = [state EXCEPT ![w] = "late"] /\ UNCHANGED got
       ELSE IF outcome[At(w)] = "ok"
         THEN got' = [got EXCEPT ![w] = Append(@, At(w))] /\ UNCHANGED state
         ELSE state' = [state EXCEPT ![w] = outcome[At(w)]] /\ UNCHANGED got
  /\ UNCHANGED <<outcome, phase, next, expired, merged, result>>

Collect(w) ==
  /\ state[w] = "running" /\ At(w) = Start[w + 1]
  /\ state' = [state EXCEPT ![w] = "ok"]
  /\ UNCHANGED <<outcome, phase, next, got, expired, merged, result>>

Ended == \A w \in Workers : state[w] # "running"

\* Plausible bug: merging starts while later workers still run.
Join_Early ==
  /\ phase = "join" /\ W > 0 /\ state[1] # "running"
  /\ phase' = "merge" /\ next' = 1
  /\ UNCHANGED <<outcome, state, got, expired, merged, result>>

Join ==
  /\ phase = "join" /\ Ended
  /\ phase' = "merge" /\ next' = 1
  /\ UNCHANGED <<outcome, state, got, expired, merged, result>>

\* A scope that ends with an unjoined panic panics itself.
Abandon ==
  /\ phase = "abandon" /\ Ended
  /\ phase' = "done"
  /\ result' = Error(IF \E w \in Workers : state[w] = "panic" THEN "panic" ELSE "spawn", 0)
  /\ UNCHANGED <<outcome, next, state, got, expired, merged>>

Merge ==
  /\ phase = "merge" /\ next <= W /\ state[next] = "ok"
  /\ merged' = merged \o got[next] /\ next' = next + 1
  /\ UNCHANGED <<outcome, phase, state, got, expired, result>>

\* Plausible bug: any failed batch decides the error.
MergeError_Any ==
  /\ phase = "merge"
  /\ \E w \in Workers :
       /\ state[w] # "ok"
       /\ result' = Error(state[w], IF state[w] = "late" THEN 0 ELSE At(w))
  /\ phase' = "done"
  /\ UNCHANGED <<outcome, next, state, got, expired, merged>>

\* The first batch in input order that failed decides the error.
MergeError ==
  /\ phase = "merge" /\ next <= W /\ state[next] # "ok"
  /\ phase' = "done"
  /\ result' = Error(state[next], IF state[next] = "late" THEN 0 ELSE At(next))
  /\ UNCHANGED <<outcome, next, state, got, expired, merged>>

\* Plausible bug: the deadline is not checked again.
Return_Late ==
  /\ phase = "merge" /\ next > W
  /\ phase' = "done" /\ result' = Returned(merged)
  /\ UNCHANGED <<outcome, next, state, got, expired, merged>>

Return ==
  /\ phase = "merge" /\ next > W
  /\ phase' = "done"
  /\ result' = IF expired THEN Error("late", 0) ELSE Returned(merged)
  /\ UNCHANGED <<outcome, next, state, got, expired, merged>>

Worker(w) == Evaluate(w) \/ Collect(w)

Caller == Spawn \/ SpawnFails \/ AllSpawned \/ Join \/ Abandon \/ Merge \/ MergeError \/ Return

Halt == phase = "done" /\ UNCHANGED vars

Next == Expire \/ Caller \/ (\E w \in Workers : Worker(w)) \/ Halt

Spec == Init /\ [][Next]_vars

-----------------------------------------------------------------------------
Phases == {"spawn", "join", "abandon", "merge", "done"}

States == {"unborn", "running", "ok", "bad", "panic", "late"}

TypeOK ==
  /\ outcome \in [Items -> Outcomes] /\ phase \in Phases /\ next \in 1..(W + 1)
  /\ state \in [Workers -> States] /\ got \in [Workers -> Seq(Items)]
  /\ expired \in BOOLEAN /\ merged \in Seq(Items)
  /\ result.kind \in {"none", "ok", "bad", "panic", "late", "spawn"}
  /\ result.item \in 0..N /\ result.values \in Seq(Items)

\* A result is all of it, in input order, from items that all succeeded, and in
\* time: never partial evidence.
CompleteInOrder ==
  result.kind = "ok" =>
    result.values = [i \in Items |-> i] /\ ~expired /\ \A i \in Items : outcome[i] = "ok"

\* However the threads are scheduled, an error is the one a single thread would
\* have met first: no item before it failed.
SameErrorAsSerial ==
  result.item # 0 => outcome[result.item] = result.kind /\ \A i \in 1..(result.item - 1) : outcome[i] = "ok"

\* The call returns only when no thread it started still runs: what the threads
\* read, a workspace, may be dropped.
NoWorkerLeft == result.kind # "none" => Ended
=============================================================================

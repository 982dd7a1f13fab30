---------------------------- MODULE Parts_proofs ----------------------------
(***************************************************************************)
(* Theorems about the parts that run between the processes, each for every *)
(* value of its constants: the bounded parallel map (WorkerMap), the gate  *)
(* (GateLoop), the planner (PlanBuild), the candidate configuration with   *)
(* the directory of project rules (RuleFile) and the judgment (Judgment),  *)
(* which have a state; the obligations of an agent (AgentContract), the    *)
(* report and coverage gates (ReportGate), the decision envelope           *)
(* (DecisionEnvelope), the plan and the figures of a pilot trial           *)
(* (PilotPlan, PilotMetrics) and the summary of a judgment pilot           *)
(* (JudgmentPilot), which are computed at once.  As in Parts the module's  *)
(* own variables are WorkerMap's and the others are instances; a theorem   *)
(* about an instance leaves its constants parameters.  The last theorems   *)
(* are about all of them side by side (PartsSpec).                         *)
(***************************************************************************)
EXTENDS Parts, FiniteSetTheorems, TLAPS

-----------------------------------------------------------------------------
(* What a worker holds is a prefix of its chunk, and every item of it        *)
(* succeeded.                                                                *)
Prefix ==
  \A w \in Workers :
    /\ Len(got[w]) <= Start[w + 1] - Start[w]
    /\ \A j \in 1..Len(got[w]) :
         got[w][j] = Start[w] + j - 1 /\ outcome[Start[w] + j - 1] = "ok"

(* A worker that ended well evaluated its chunk; one that failed stopped at  *)
(* the item that failed.                                                     *)
Stopped ==
  \A w \in Workers :
    /\ state[w] = "ok" => At(w) = Start[w + 1]
    /\ state[w] \in {"bad", "panic"} => At(w) < Start[w + 1] /\ outcome[At(w)] = state[w]

(* Exactly the chunks already reached have a thread.                         *)
Born ==
  /\ phase = "spawn" => \A w \in Workers : (state[w] # "unborn" <=> w < next)
  /\ phase \in {"join", "merge"} => \A w \in Workers : state[w] # "unborn"

(* The caller merges after every thread ended, and what it has merged is a   *)
(* prefix of the items.                                                      *)
Merging ==
  /\ phase \in {"spawn", "join", "abandon"} => merged = <<>>
  /\ phase = "merge" =>
       /\ Ended
       /\ Len(merged) = Start[next] - 1
       /\ \A i \in 1..Len(merged) : merged[i] = i /\ outcome[i] = "ok"

(* The caller has returned exactly when it is done.                          *)
Answered ==
  /\ IF phase = "done" THEN result.kind # "none" ELSE result = Nothing
  /\ phase = "done" => Ended /\ CompleteInOrder /\ SameErrorAsSerial

Inductive == TypeOK /\ Prefix /\ Stopped /\ Born /\ Merging /\ Answered

-----------------------------------------------------------------------------
(* A chunk's ends are items, or one past the last.                           *)
LEMMA Ends ==
  ASSUME NEW w \in Workers
  PROVE  /\ w \in 1..(W + 1) /\ w + 1 \in 1..(W + 1)
         /\ Start[w] \in 1..(N + 1) /\ Start[w + 1] \in 1..(N + 1)
         /\ Start[w] < Start[w + 1]
  BY ChunksAssumption DEF Workers

LEMMA Initially == Init => Inductive
<1> SUFFICES ASSUME Init PROVE Inductive
  OBVIOUS
<1>1. TypeOK
  BY ChunksAssumption DEF Init, TypeOK, Phases, States, Nothing, Error
<1>2. Prefix
  <2> SUFFICES ASSUME NEW w \in Workers
               PROVE  Len(got[w]) = 0 /\ 0 <= Start[w + 1] - Start[w]
    BY Ends DEF Prefix, Init
  <2> QED BY Ends DEF Init
<1>3. Stopped /\ Born
  BY ChunksAssumption DEF Init, Stopped, Born, Workers
<1>4. Merging /\ Answered
  BY DEF Init, Merging, Answered, Nothing, Error
<1> QED BY <1>1, <1>2, <1>3, <1>4 DEF Inductive

-----------------------------------------------------------------------------
(* Until the caller is done, the conjunct about its answer says nothing.     *)
LEMMA Waiting ==
  ASSUME Inductive, phase # "done", phase' # "done", result' = result
  PROVE  Answered'
  BY DEF Inductive, Answered

LEMMA EvaluateKeeps ==
  ASSUME Inductive, NEW w \in Workers, Evaluate(w) PROVE Inductive'
<1>1. At(w) \in Items /\ got[w] \in Seq(Items) /\ Len(got[w]) \in Nat
      /\ Start[w] \in Nat /\ Start[w + 1] \in Nat
  BY Ends, ChunksAssumption DEF Inductive, TypeOK, Evaluate, At, Items
<1>2. phase # "done" /\ phase # "merge" /\ result' = result /\ phase' = phase
  BY DEF Inductive, Evaluate, Answered, Merging, Ended
<1>3. Born' /\ Merging' /\ Answered'
  <2>1. \A v \in Workers : (state'[v] # "unborn") <=> (state[v] # "unborn")
    <3>1. outcome[At(w)] \in {"ok", "bad", "panic"} /\ state \in [Workers -> States]
      BY <1>1 DEF Inductive, TypeOK, Outcomes
    <3> QED BY <3>1 DEF Evaluate
  <2>2. Answered'
    BY <1>2, Waiting
  <2> QED BY <1>2, <2>1, <2>2 DEF Inductive, Born, Merging, Evaluate
<1>4. CASE expired \/ outcome[At(w)] # "ok"
  <2>1. /\ UNCHANGED <<got, outcome>>
        /\ \E s \in {"late", outcome[At(w)]} :
             /\ state' = [state EXCEPT ![w] = s]
             /\ s \in {"bad", "panic"} => s = outcome[At(w)]
             /\ s \in {"late", "bad", "panic"}
    BY <1>1, <1>4 DEF Evaluate, Inductive, TypeOK, Outcomes
  <2>2. TypeOK'
    BY <2>1 DEF Inductive, TypeOK, Evaluate, States
  <2>3. Prefix'
    BY <2>1 DEF Inductive, Prefix
  <2>4. Stopped'
    BY <2>1, <1>1 DEF Inductive, Stopped, At, Evaluate, TypeOK
  <2> QED BY <1>3, <2>2, <2>3, <2>4 DEF Inductive
<1>5. CASE ~expired /\ outcome[At(w)] = "ok"
  <2>1. /\ UNCHANGED <<state, outcome>> /\ state[w] = "running"
        /\ got' = [got EXCEPT ![w] = Append(@, At(w))]
    BY <1>5 DEF Evaluate
  <2>2. TypeOK'
    <3>1. got' \in [Workers -> Seq(Items)]
      BY <1>1, <2>1 DEF Inductive, TypeOK
    <3> QED BY <3>1, <2>1 DEF Inductive, TypeOK, Evaluate
  <2>3. Prefix'
    <3> SUFFICES ASSUME NEW v \in Workers
                 PROVE  /\ Len(got'[v]) <= Start[v + 1] - Start[v]
                        /\ \A j \in 1..Len(got'[v]) :
                             /\ got'[v][j] = Start[v] + j - 1
                             /\ outcome[Start[v] + j - 1] = "ok"
      BY <2>1 DEF Prefix
    <3>1. CASE v # w
      BY <3>1, <2>1 DEF Inductive, Prefix, TypeOK
    <3>2. CASE v = w
      <4>1. got'[w] = Append(got[w], At(w))
        BY <2>1 DEF Inductive, TypeOK
      <4>2. Len(got'[w]) = Len(got[w]) + 1
        BY <4>1, <1>1
      <4>3. \A j \in 1..Len(got[w]) : got'[w][j] = got[w][j]
        BY <4>1, <1>1
      <4>4. got'[w][Len(got[w]) + 1] = At(w)
        BY <4>1, <1>1
      <4>5. At(w) < Start[w + 1]
        BY DEF Evaluate
      <4>6. At(w) = Start[w] + (Len(got[w]) + 1) - 1
        BY <1>1 DEF At
      <4>7. Len(got'[w]) <= Start[w + 1] - Start[w]
        BY <1>1, <4>2, <4>5 DEF At
      <4>8. \A j \in 1..Len(got'[w]) : j \in 1..Len(got[w]) \/ j = Len(got[w]) + 1
        BY <1>1, <4>2
      <4> QED BY <3>2, <4>3, <4>4, <4>6, <4>7, <4>8, <1>5 DEF Inductive, Prefix
    <3> QED BY <3>1, <3>2
  <2>4. Stopped'
    BY <2>1 DEF Inductive, Stopped, At, TypeOK
  <2> QED BY <1>3, <2>2, <2>3, <2>4 DEF Inductive
<1> QED BY <1>4, <1>5, <1>1 DEF Inductive, TypeOK

LEMMA CollectKeeps ==
  ASSUME Inductive, NEW w \in Workers, Collect(w) PROVE Inductive'
<1>1. phase # "done" /\ phase # "merge" /\ result' = result /\ phase' = phase
  BY DEF Inductive, Collect, Answered, Merging, Ended
<1>2. TypeOK'
  BY DEF Inductive, TypeOK, Collect, States
<1>3. Prefix'
  BY DEF Inductive, Prefix, Collect
<1>4. Stopped'
  BY DEF Inductive, Stopped, Collect, At, TypeOK
<1>5. Born' /\ Merging'
  BY <1>1 DEF Inductive, Born, Merging, Collect, TypeOK
<1>6. Answered'
  BY <1>1, Waiting
<1> QED BY <1>2, <1>3, <1>4, <1>5, <1>6 DEF Inductive

-----------------------------------------------------------------------------
(* The caller's steps before it merges.                                      *)
LEMMA SpawningKeeps ==
  ASSUME Inductive, Spawn \/ SpawnFails \/ AllSpawned PROVE Inductive'
<1>1. phase = "spawn" /\ phase' \in {"spawn", "abandon", "join"}
      /\ result' = result /\ UNCHANGED <<outcome, got, expired, merged>>
  BY DEF Spawn, SpawnFails, AllSpawned
<1>2. TypeOK'
  <2>1. CASE Spawn
    <3>1. next \in Workers /\ next' \in 1..(W + 1) /\ state' = [state EXCEPT ![next] = "running"]
      BY <2>1, ChunksAssumption DEF Inductive, TypeOK, Spawn, Workers
    <3>2. state' \in [Workers -> States]
      BY <3>1 DEF Inductive, TypeOK, States
    <3> QED BY <2>1, <3>1, <3>2 DEF Inductive, TypeOK, Spawn
  <2>2. CASE SpawnFails \/ AllSpawned
    BY <2>2 DEF Inductive, TypeOK, SpawnFails, AllSpawned, Phases
  <2> QED BY <2>1, <2>2
<1>3. Prefix'
  BY <1>1 DEF Inductive, Prefix
<1>4. Stopped'
  BY <1>1 DEF Inductive, Stopped, At, TypeOK, Spawn, SpawnFails, AllSpawned
<1>5. Born'
  <2>0. next \in 1..(W + 1) /\ state \in [Workers -> States] /\ W \in Nat
        /\ \A w \in Workers : (state[w] # "unborn") <=> (w < next)
    BY <1>1, ChunksAssumption DEF Inductive, TypeOK, Born
  <2>1. CASE Spawn
    <3>1. next \in Workers /\ next' = next + 1 /\ state' = [state EXCEPT ![next] = "running"]
          /\ phase' = "spawn"
      BY <2>0, <2>1 DEF Spawn, Workers
    <3>2. \A w \in Workers : (state'[w] # "unborn") <=> (w < next')
      BY <2>0, <3>1 DEF Workers
    <3> QED BY <3>1, <3>2 DEF Born
  <2>2. CASE SpawnFails
    BY <2>2 DEF SpawnFails, Born
  <2>3. CASE AllSpawned
    <3>1. next = W + 1 /\ state' = state /\ phase' = "join"
      BY <2>0, <2>3 DEF AllSpawned
    <3> QED BY <2>0, <3>1 DEF Born, Workers
  <2> QED BY <2>1, <2>2, <2>3
<1>6. Merging' /\ Answered'
  BY <1>1, Waiting DEF Inductive, Merging
<1> QED BY <1>2, <1>3, <1>4, <1>5, <1>6 DEF Inductive

LEMMA JoinKeeps == ASSUME Inductive, Join PROVE Inductive'
<1>1. phase = "join" /\ phase' = "merge" /\ next' = 1 /\ Ended
      /\ UNCHANGED <<outcome, state, got, expired, merged, result>>
  BY DEF Join
<1>2. TypeOK'
  BY <1>1, ChunksAssumption DEF Inductive, TypeOK, Phases
<1>3. Prefix' /\ Stopped' /\ Born'
  BY <1>1 DEF Inductive, Prefix, Stopped, At, Born
<1>4. Merging'
  BY <1>1, ChunksAssumption DEF Inductive, Merging, Ended
<1> QED BY <1>1, <1>2, <1>3, <1>4, Waiting DEF Inductive

-----------------------------------------------------------------------------
(* Merging a batch makes the prefix longer by a whole chunk.                 *)
LEMMA MergeKeeps == ASSUME Inductive, Merge PROVE Inductive'
<1>1. next \in Workers /\ state[next] = "ok" /\ At(next) = Start[next + 1]
      /\ next' = next + 1 /\ merged' = merged \o got[next]
      /\ UNCHANGED <<outcome, phase, state, got, expired, result>> /\ phase = "merge"
  BY ChunksAssumption DEF Inductive, Merge, Stopped, TypeOK, Workers
<1>2. got[next] \in Seq(Items) /\ merged \in Seq(Items) /\ Len(got[next]) \in Nat
      /\ Len(merged) \in Nat /\ next + 1 \in 1..(W + 1)
      /\ Start[next] \in Nat /\ Start[next + 1] \in Nat
  BY <1>1, Ends, ChunksAssumption DEF Inductive, TypeOK
<1>3. Len(got[next]) = Start[next + 1] - Start[next] /\ Len(merged) = Start[next] - 1
  BY <1>1, <1>2 DEF At, Inductive, Merging
<1>4. TypeOK'
  <2>1. merged' \in Seq(Items)
    BY <1>1, <1>2
  <2> QED BY <1>1, <1>2, <2>1 DEF Inductive, TypeOK
<1>5. Prefix' /\ Stopped' /\ Born'
  BY <1>1 DEF Inductive, Prefix, Stopped, At, Born
<1>6. Merging'
  <2>1. Len(merged') = Len(merged) + Len(got[next])
    BY <1>1, <1>2
  <2>3. Len(merged') = Start[next + 1] - 1
    BY <1>2, <1>3, <2>1
  <2>2. ASSUME NEW i \in 1..Len(merged') PROVE merged'[i] = i /\ outcome[i] = "ok"
    <3>1. CASE i <= Len(merged)
      BY <3>1, <1>1, <1>2 DEF Inductive, Merging
    <3>2. CASE i > Len(merged)
      <4> DEFINE j == i - Len(merged)
      <4>0. i \in Nat /\ i <= Len(merged) + Len(got[next])
        BY <1>2, <2>1
      <4>1. j \in 1..Len(got[next]) /\ i = Start[next] + j - 1
        <5>1. PICK m \in Nat, n \in Nat, s \in Nat :
                m = Len(merged) /\ n = Len(got[next]) /\ s = Start[next]
          BY <1>2
        <5>2. i \in Nat /\ i > m /\ i <= m + n /\ m = s - 1
          BY <3>2, <4>0, <5>1, <1>3
        <5>3. i - m \in 1..n /\ i = s + (i - m) - 1
          BY <5>2
        <5> QED BY <5>1, <5>3
      <4>2. merged'[i] = got[next][j]
        BY <3>2, <1>1, <1>2, <4>1
      <4> HIDE DEF j
      <4> QED BY <4>1, <4>2, <1>1 DEF Inductive, Prefix
    <3> QED BY <3>1, <3>2, <1>2
  <2> QED BY <1>1, <2>3, <2>2 DEF Inductive, Merging, Ended
<1> QED BY <1>1, <1>4, <1>5, <1>6, Waiting DEF Inductive

-----------------------------------------------------------------------------
(* The steps that return.                                                    *)
LEMMA MergeErrorKeeps == ASSUME Inductive, MergeError PROVE Inductive'
<1>1. next \in Workers /\ phase = "merge" /\ phase' = "done" /\ Ended
      /\ UNCHANGED <<outcome, next, state, got, expired, merged>>
      /\ state[next] \in {"bad", "panic", "late"}
  BY ChunksAssumption
  DEF Inductive, MergeError, Merging, TypeOK, Born, Ended, States, Workers
<1> DEFINE item == IF state[next] = "late" THEN 0 ELSE At(next)
<1>2. result' = [kind |-> state[next], item |-> item, values |-> <<>>]
  BY DEF MergeError, Error
<1>3. /\ got[next] \in Seq(Items) /\ Len(got[next]) \in Nat
      /\ Start[next] \in 1..(N + 1) /\ Start[next + 1] \in 1..(N + 1)
  BY <1>1, Ends DEF Inductive, TypeOK
<1>4. item # 0 => /\ item \in Items /\ outcome[item] = state[next]
                  /\ \A i \in 1..(item - 1) : outcome[i] = "ok"
  <2> SUFFICES ASSUME state[next] # "late"
               PROVE  /\ At(next) \in Items /\ outcome[At(next)] = state[next]
                      /\ \A i \in 1..(At(next) - 1) : outcome[i] = "ok"
    OBVIOUS
  <2>1. At(next) < Start[next + 1] /\ outcome[At(next)] = state[next]
    BY <1>1 DEF Inductive, Stopped
  <2>2. At(next) \in Items
    BY <1>3, <2>1, ChunksAssumption DEF At, Items
  <2>3. ASSUME NEW i \in 1..(At(next) - 1) PROVE outcome[i] = "ok"
    <3>1. CASE i < Start[next]
      BY <3>1, <1>1, <1>3 DEF Inductive, Merging
    <3>2. CASE i >= Start[next]
      <4> DEFINE j == i - Start[next] + 1
      <4>1. j \in 1..Len(got[next]) /\ i = Start[next] + j - 1
        BY <3>2, <1>3 DEF At
      <4> HIDE DEF j
      <4> QED BY <4>1, <1>1 DEF Inductive, Prefix
    <3> QED BY <3>1, <3>2, <1>3 DEF At
  <2> QED BY <2>1, <2>2, <2>3
<1>5. item \in 0..N
  BY <1>4, ChunksAssumption DEF Items
<1> HIDE DEF item
<1>6. TypeOK'
  BY <1>1, <1>2, <1>5 DEF Inductive, TypeOK, Phases
<1>7. Prefix' /\ Stopped' /\ Born' /\ Merging'
  BY <1>1 DEF Inductive, Prefix, Stopped, At, Born, Merging
<1>8. Answered'
  BY <1>1, <1>2, <1>4 DEF Answered, Ended, CompleteInOrder, SameErrorAsSerial
<1> QED BY <1>6, <1>7, <1>8 DEF Inductive

LEMMA ReturnKeeps == ASSUME Inductive, Return PROVE Inductive'
<1>1. next = W + 1 /\ phase = "merge" /\ phase' = "done" /\ Ended
      /\ UNCHANGED <<outcome, next, state, got, expired, merged>>
  BY ChunksAssumption DEF Inductive, Return, Merging, TypeOK
<1>2. merged \in Seq(Items) /\ Len(merged) = N
      /\ \A i \in Items : merged[i] = i /\ outcome[i] = "ok"
  BY <1>1, ChunksAssumption DEF Inductive, TypeOK, Merging, Items
<1>3. merged = [i \in Items |-> i]
  BY <1>2, ChunksAssumption DEF Items
<1>4. \/ expired /\ result' = [kind |-> "late", item |-> 0, values |-> <<>>]
      \/ ~expired /\ result' = [kind |-> "ok", item |-> 0, values |-> merged]
  BY DEF Return, Error, Returned
<1>5. TypeOK'
  <2>1. /\ result'.kind \in {"late", "ok"} /\ result'.item \in 0..N
        /\ result'.values \in Seq(Items)
    <3>1. CASE expired
      <4>1. result' = [kind |-> "late", item |-> 0, values |-> <<>>]
        BY <3>1, <1>4
      <4>2. <<>> \in Seq(Items)
        OBVIOUS
      <4> QED BY <4>1, <4>2, ChunksAssumption
    <3>2. CASE ~expired
      BY <3>2, <1>2, <1>4, ChunksAssumption
    <3> QED BY <3>1, <3>2
  <2> QED BY <1>1, <2>1, ChunksAssumption DEF Inductive, TypeOK, Phases
<1>6. Prefix' /\ Stopped' /\ Born' /\ Merging'
  BY <1>1 DEF Inductive, Prefix, Stopped, At, Born, Merging
<1>7. Answered'
  <2>1. result'.item = 0 /\ result'.kind \in {"late", "ok"} /\ Ended'
    BY <1>1, <1>4 DEF Ended
  <2>2. CompleteInOrder'
    <3>1. CASE expired
      BY <3>1, <1>4 DEF CompleteInOrder
    <3>2. CASE ~expired
      <4>1. result'.values = merged
        BY <3>2, <1>4
      <4> QED BY <3>2, <4>1, <1>1, <1>2, <1>3 DEF CompleteInOrder
    <3> QED BY <3>1, <3>2
  <2> QED BY <1>1, <2>1, <2>2 DEF Answered, SameErrorAsSerial
<1> QED BY <1>5, <1>6, <1>7 DEF Inductive

LEMMA AbandonKeeps == ASSUME Inductive, Abandon PROVE Inductive'
<1>1. phase = "abandon" /\ phase' = "done" /\ Ended
      /\ UNCHANGED <<outcome, next, state, got, expired, merged>>
  BY DEF Abandon
<1>2. \E kind \in {"panic", "spawn"} : result' = [kind |-> kind, item |-> 0, values |-> <<>>]
  BY DEF Abandon, Error
<1>3. TypeOK'
  BY <1>1, <1>2, ChunksAssumption DEF Inductive, TypeOK, Phases
<1>4. Prefix' /\ Stopped' /\ Born' /\ Merging'
  BY <1>1 DEF Inductive, Prefix, Stopped, At, Born, Merging
<1>5. Answered'
  BY <1>1, <1>2 DEF Answered, Ended, CompleteInOrder, SameErrorAsSerial
<1> QED BY <1>3, <1>4, <1>5 DEF Inductive

LEMMA ExpireKeeps == ASSUME Inductive, Expire PROVE Inductive'
<1>1. phase # "done" /\ expired' = TRUE
      /\ UNCHANGED <<outcome, phase, next, state, got, merged, result>>
  BY DEF Expire
<1>2. TypeOK'
  BY <1>1 DEF Inductive, TypeOK
<1>3. Prefix' /\ Stopped' /\ Born' /\ Merging' /\ Answered'
  BY <1>1 DEF Inductive, Prefix, Stopped, At, Born, Merging, Ended, Answered
<1> QED BY <1>2, <1>3 DEF Inductive

-----------------------------------------------------------------------------
LEMMA Kept == Inductive /\ [Next]_vars => Inductive'
<1> SUFFICES ASSUME Inductive, [Next]_vars PROVE Inductive'
  OBVIOUS
<1>1. CASE Expire
  BY <1>1, ExpireKeeps
<1>2. CASE Spawn \/ SpawnFails \/ AllSpawned
  BY <1>2, SpawningKeeps
<1>3. CASE Join \/ Abandon
  BY <1>3, JoinKeeps, AbandonKeeps
<1>4. CASE Merge
  BY <1>4, MergeKeeps
<1>5. CASE MergeError \/ Return
  BY <1>5, MergeErrorKeeps, ReturnKeeps
<1>6. CASE \E w \in Workers : Worker(w)
  BY <1>6, EvaluateKeeps, CollectKeeps DEF Worker
<1>7. CASE UNCHANGED vars
  BY <1>7 DEF vars, Inductive, TypeOK, Prefix, Stopped, At, Born, Merging, Ended,
              Answered, CompleteInOrder, SameErrorAsSerial
<1> QED BY <1>1, <1>2, <1>3, <1>4, <1>5, <1>6, <1>7 DEF Next, Caller, Halt

(* The invariant holds in every reachable state.                             *)
LEMMA Reachable == Spec => []Inductive
  BY Initially, Kept, PTL DEF Spec

-----------------------------------------------------------------------------
(* The variables keep their types, however many items and chunks there are.  *)
THEOREM TypeCorrect == Spec => []TypeOK
<1>1. Inductive => TypeOK
  BY DEF Inductive
<1> QED BY <1>1, Reachable, PTL

(* What the map in io_workers.rs, parallel.rs returns is every value, in     *)
(* input order, and only when every item succeeded in time.                  *)
THEOREM Complete == Spec => []CompleteInOrder
<1>1. Inductive => CompleteInOrder
  BY DEF Inductive, Answered, CompleteInOrder, Nothing, Error
<1> QED BY <1>1, Reachable, PTL

(* The error it returns does not depend on the threads' interleaving: it is  *)
(* the first one in input order.                                             *)
THEOREM SameError == Spec => []SameErrorAsSerial
<1>1. Inductive => SameErrorAsSerial
  <2> SUFFICES ASSUME Inductive, phase # "done" PROVE SameErrorAsSerial
    BY DEF Inductive, Answered
  <2> QED BY DEF Inductive, Answered, SameErrorAsSerial, Nothing, Error
<1> QED BY <1>1, Reachable, PTL

(* When it returns, no thread it started is still running.                   *)
THEOREM Joined == Spec => []NoWorkerLeft
<1>1. Inductive => NoWorkerLeft
  BY DEF Inductive, Answered, NoWorkerLeft, Nothing, Error
<1> QED BY <1>1, Reachable, PTL

-----------------------------------------------------------------------------
(* The agent's obligations, however many there are and whatever is reported. *)

\* Each check of a list that is verified, or not applicable, has one result, a
\* pass without diagnostics or an explained skip.
LEMMA ExecutionIsEvidence ==
    ASSUME NEW ids, NEW reported,
           Contract!Execution(ids, reported) \in {"verified", "not_applicable"}
    PROVE  /\ ids # {}
           /\ \A id \in ids : \E k \in DOMAIN reported :
                /\ Contract!ResultsOf(id, reported) = {k}
                /\ reported[k].verdict \in {"pass", "skipped"} /\ reported[k].diagnostics = <<>>
  <1> DEFINE of(id)     == Contract!ResultsOf(id, reported)
             gap(id)    == \/ \A k \in of(id) : of(id) # {k}
                           \/ \E k \in of(id) : ~Contract!ValidSkip(reported[k])
                                /\ (~Contract!ValidCompleted(reported[k]) \/ Contract!Inconsistent(reported[k]))
             failed(id) == \E k \in of(id) : reported[k].verdict = "fail"
  <1>1. ids # {} /\ \A id \in ids : ~gap(id) /\ ~failed(id)
    BY Zenon DEF Contract!Execution
  <1>2. ASSUME NEW id \in ids
        PROVE  \E k \in DOMAIN reported :
                 /\ of(id) = {k}
                 /\ reported[k].verdict \in {"pass", "skipped"} /\ reported[k].diagnostics = <<>>
    <2>1. PICK k \in of(id) : of(id) = {k}  BY <1>1
    <2>2. k \in DOMAIN reported  BY DEF Contract!ResultsOf
    <2>3. CASE Contract!ValidSkip(reported[k])  BY <2>1, <2>2, <2>3 DEF Contract!ValidSkip
    <2>4. CASE Contract!ValidCompleted(reported[k]) /\ ~Contract!Inconsistent(reported[k])
      <3>1. reported[k].verdict = "pass"  BY <1>1, <2>1, <2>4 DEF Contract!ValidCompleted
      <3> QED  BY <2>1, <2>2, <2>4, <3>1 DEF Contract!Inconsistent
    <2> QED  BY <1>1, <2>1, <2>3, <2>4
  <1> QED  BY <1>1, <1>2

\* An obligation that is ready is adopted as it reads now, and its checks run.
LEMMA ReadyIsBound ==
    ASSUME NEW o, ObligationTyped(o), NEW ran, Contract!Bound(o, ran) = "ready"
    PROVE  /\ o.source /\ o.adopted = o.binding
           /\ o.kind = "checks" => o.checks \subseteq ran
  <1>1. o.source  BY DEF Contract!Bound, ObligationTyped
  <1>2. o.adopted = o.binding
    <2>1. CASE o.adopted = None  BY <1>1, <2>1 DEF Contract!Bound, ObligationTyped
    <2>2. CASE o.adopted \notin {None, o.binding}  BY <1>1, <2>2 DEF Contract!Bound, ObligationTyped
    <2> QED  BY <2>1, <2>2
  <1>3. o.kind = "checks" => o.checks \subseteq ran
    BY <1>1, <1>2 DEF Contract!Bound, ObligationTyped
  <1> QED  BY <1>1, <1>2, <1>3

\* A delivery is allowed only when each required obligation of the role and task
\* is adopted as it reads now and holds by its checks or by a control of the host,
\* and a refused one counts none as met by the host: for any obligations and
\* results (application/agent_contract.rs, domain/agent_host.rs).
THEOREM DeliveryIsCovered ==
    ASSUME NEW obligations, \A k \in DOMAIN obligations : ObligationTyped(obligations[k]),
           NEW role, NEW task, NEW ran, NEW reported, NEW demanded
    PROVE  Contract!AllowedIsCovered(obligations, role, task, ran, reported, demanded)
  <1> DEFINE projection == Contract!Build(obligations, role, task, ran, FALSE)
             delivery   == Contract!Authorize(projection, reported, demanded, TRUE)
             bound      == projection.bound
  <1>1. /\ DOMAIN bound = {k \in DOMAIN obligations : Contract!Applies(obligations[k], role, task)}
        /\ \A k \in DOMAIN bound : /\ bound[k].o = obligations[k]
                                  /\ bound[k].status = Contract!Bound(obligations[k], ran)
        /\ projection.ready => \A k \in DOMAIN bound : bound[k].o.required => bound[k].status = "ready"
    BY DEF Contract!Build
  <1> HIDE DEF projection
  <1>2. delivery.allowed =>
          /\ projection.ready
          /\ \A k \in DOMAIN bound : bound[k].o.required =>
               Contract!Observed(bound[k], reported) \in Contract!Established
    BY DEF Contract!Authorize, Contract!Injectable
  <1>3. /\ DOMAIN delivery.statuses = DOMAIN bound
        /\ ~delivery.allowed => \A k \in DOMAIN bound :
             delivery.statuses[k] = Contract!Downgraded(Contract!Observed(bound[k], reported))
    BY DEF Contract!Authorize
  <1> HIDE DEF delivery
  <1>4. ASSUME delivery.allowed, NEW k \in DOMAIN obligations, obligations[k].required,
               Contract!Applies(obligations[k], role, task)
        PROVE  LET o == obligations[k] IN
               /\ o.source /\ o.adopted = o.binding
               /\ o.kind = "checks" =>
                    /\ o.checks \subseteq ran /\ o.checks # {}
                    /\ \A id \in o.checks : \E j \in DOMAIN reported :
                         /\ Contract!ResultsOf(id, reported) = {j}
                         /\ reported[j].verdict \in {"pass", "skipped"}
                         /\ reported[j].diagnostics = <<>>
               /\ o.kind = "host" => o.control \in Controls /\ "before_tool" \notin o.events
    <2>1. k \in DOMAIN bound /\ bound[k].o = obligations[k]
          /\ bound[k].status = Contract!Bound(obligations[k], ran)
      BY <1>1, <1>4
    <2>2. /\ Contract!Bound(obligations[k], ran) = "ready" /\ bound[k].status = "ready"
          /\ Contract!Observed(bound[k], reported) \in Contract!Established
      BY <1>1, <1>2, <1>4, <2>1
    <2>3. /\ obligations[k].source /\ obligations[k].adopted = obligations[k].binding
          /\ obligations[k].kind = "checks" => obligations[k].checks \subseteq ran
      BY <2>2, ReadyIsBound
    <2>4. ASSUME obligations[k].kind = "checks"
          PROVE  Contract!Execution(obligations[k].checks, reported) \in {"verified", "not_applicable"}
      BY <2>1, <2>2, <2>4 DEF Contract!Observed, Contract!Established
    <2>5. ASSUME obligations[k].kind = "host"  PROVE Contract!Enforces(obligations[k])
      BY <2>1, <2>2, <2>5 DEF Contract!Observed, Contract!Established
    <2> QED  BY <2>3, <2>4, <2>5, ExecutionIsEvidence DEF Contract!Enforces
  <1>5. ASSUME ~delivery.allowed, NEW k \in DOMAIN bound
        PROVE  delivery.statuses[k] \notin {"host_control_satisfied", "delivered_unverified"}
    BY <1>3, <1>5 DEF Contract!Downgraded
  <1>6. ~delivery.allowed =>
          Contract!Range(delivery.statuses) \cap {"host_control_satisfied", "delivered_unverified"} = {}
    BY <1>3, <1>5 DEF Contract!Range
  <1> QED  BY <1>4, <1>6 DEF Contract!AllowedIsCovered, projection, delivery

-----------------------------------------------------------------------------
(* The plan of a pilot trial, for any number of tasks, models and runs.      *)

\* A set of numbers that is not empty has a least one.
LEMMA Least ==
    ASSUME NEW S, S \subseteq Nat, S # {}
    PROVE  \E n \in S : \A k \in S : n <= k
  <1>1. \E x \in S : \A y \in S : ~(<<y, x>> \in OpToRel(<, Nat))
    BY NatLessThanWellFounded, WFMin, Zenon
  <1>2. PICK x \in S : \A y \in S : ~(<<y, x>> \in OpToRel(<, Nat))  BY <1>1
  <1>3. \A y \in S : ~(y < x)  BY <1>2 DEF OpToRel
  <1> QED  BY <1>3

\* What the order names are the assignments.
LEMMA NamedFacts ==
    ASSUME NEW m, ManifestTyped(m), Pilot!OrderValid(m), NEW i \in 1..Len(m.order)
    PROVE  LET a == Pilot!Named(m, m.order[i])
           IN  /\ a \in Pilot!All(m) /\ a.id = m.order[i]
               /\ Pilot!WorkflowAt(m, i) = a.cohort.workflow
  <1>1. m.order[i] \in Pilot!Range(m.order)  BY DEF ManifestTyped, Pilot!Range
  <1>2. PICK b \in Pilot!All(m) : b.id = m.order[i]  BY <1>1 DEF Pilot!OrderValid
  <1> QED  BY <1>2 DEF Pilot!Named, Pilot!WorkflowAt

-----------------------------------------------------------------------------
(* Alternating between two workflows                                        *)

Ran(f, n, w) == {i \in 1..n : f[i] = w}

Balanced(f, n) ==
    LET q == Cardinality(Ran(f, n, "qualitygate"))
        e == Cardinality(Ran(f, n, "existing_tools"))
    IN  q <= e + 1 /\ e <= q + 1

LEMMA RanFinite ==
    ASSUME NEW f, NEW n \in Nat, NEW w
    PROVE  IsFiniteSet(Ran(f, n, w)) /\ Cardinality(Ran(f, n, w)) \in Nat
           /\ Cardinality(Ran(f, n, w)) <= n
  <1>1. IsFiniteSet(1..n) /\ Cardinality(1..n) = n  BY FS_Interval
  <1>2. Ran(f, n, w) \subseteq 1..n  BY DEF Ran
  <1> QED  BY <1>1, <1>2, FS_Subset, FS_CardinalityType

\* Two further runs are one of each workflow.
LEMMA TwoMore ==
    ASSUME NEW L \in Nat, NEW f \in [1..L -> {"qualitygate", "existing_tools"}],
           NEW n \in 2..L, f[n] # f[n - 1], NEW w \in {"qualitygate", "existing_tools"}
    PROVE  Cardinality(Ran(f, n, w)) = Cardinality(Ran(f, n - 2, w)) + 1
  <1>1. n - 2 \in Nat /\ n \in 1..L /\ n - 1 \in 1..L  OBVIOUS
  <1>2. PICK k \in {n - 1, n} : f[k] = w /\ \A j \in {n - 1, n} : f[j] = w => j = k
    BY <1>1
  <1>3. Ran(f, n, w) = Ran(f, n - 2, w) \cup {k} /\ k \notin Ran(f, n - 2, w)
    <2>1. \A i : i \in 1..n <=> i \in 1..(n - 2) \/ i \in {n - 1, n}  BY <1>1
    <2>2. k \notin 1..(n - 2)  BY <1>1, <1>2
    <2> QED  BY <1>2, <2>1, <2>2 DEF Ran
  <1> QED  BY <1>1, <1>3, RanFinite, FS_AddElement

LEMMA AlternationBalances ==
    ASSUME NEW L \in Nat, NEW f \in [1..L -> {"qualitygate", "existing_tools"}],
           \A i \in 2..L : f[i] # f[i - 1]
    PROVE  \A n \in 0..L : Balanced(f, n)
  <1> SUFFICES ASSUME {n \in 0..L : ~Balanced(f, n)} # {}  PROVE FALSE
    OBVIOUS
  <1> DEFINE Bad == {n \in 0..L : ~Balanced(f, n)}
  <1> HIDE DEF Bad
  <1>0. Bad \subseteq Nat /\ Bad # {}  BY DEF Bad
  <1>1. PICK n \in Bad : \A k \in Bad : n <= k  BY <1>0, Least
  <1>2. CASE n \in {0, 1}
    <2>1. n \in Nat /\ n <= 1  BY <1>2
    <2>2. /\ Cardinality(Ran(f, n, "qualitygate")) \in Nat
          /\ Cardinality(Ran(f, n, "qualitygate")) <= n
          /\ Cardinality(Ran(f, n, "existing_tools")) \in Nat
          /\ Cardinality(Ran(f, n, "existing_tools")) <= n
      BY <2>1, RanFinite
    <2> QED  BY <1>1, <2>1, <2>2 DEF Balanced, Bad
  <1>3. CASE n \notin {0, 1}
    <2>1. n \in 2..L /\ n - 2 \in 0..L /\ n - 2 \in Nat /\ ~(n <= n - 2)  BY <1>1, <1>3 DEF Bad
    <2>2. Balanced(f, n - 2)  BY <1>1, <2>1 DEF Bad
    <2>3. \A w \in {"qualitygate", "existing_tools"} :
            /\ Cardinality(Ran(f, n, w)) = Cardinality(Ran(f, n - 2, w)) + 1
            /\ Cardinality(Ran(f, n - 2, w)) \in Nat
      BY <2>1, TwoMore, RanFinite
    <2> QED  BY <1>1, <2>2, <2>3 DEF Balanced, Bad
  <1> QED  BY <1>2, <1>3

-----------------------------------------------------------------------------
\* However many tasks and models a trial has, a plan that is sealed runs every
\* task under both workflows with every model, and at no moment of the trial has
\* one workflow run two tasks more than the other (domain/pilot/validation.rs).
THEOREM SealBalances ==
    ASSUME NEW m, ManifestTyped(m), NEW when  PROVE Pilot!SealedIsBalanced(m, when)
  <1> SUFFICES ASSUME Pilot!Valid(m), Pilot!Sealable(m, when)
               PROVE  Pilot!SealedIsBalanced(m, when)
    BY DEF Pilot!SealedIsBalanced, Pilot!Seal
  <1> DEFINE models == {a.cohort.model : a \in Pilot!All(m)}
  <1>1. /\ {<<a.cohort.model, a.cohort.workflow>> : a \in Pilot!All(m)} = models \X Pilot!Workflows
        /\ \A i, j \in Pilot!Inputs(m) : Pilot!CohortsOf(m, i) = Pilot!CohortsOf(m, j)
    BY DEF Pilot!Sealable
  <1>2. ASSUME NEW i \in Pilot!Inputs(m), NEW w \in Pilot!Workflows, NEW x \in models
        PROVE  \E a \in Pilot!All(m) :
                 a.input = i /\ a.cohort.workflow = w /\ a.cohort.model = x
    <2>1. PICK b \in Pilot!All(m) : <<b.cohort.model, b.cohort.workflow>> = <<x, w>>
      <3>1. <<x, w>> \in models \X Pilot!Workflows  OBVIOUS
      <3> QED  BY <1>1, <3>1
    <2>2. b.input \in Pilot!Inputs(m) /\ Pilot!Cohort(b) \in Pilot!CohortsOf(m, b.input)
      BY DEF Pilot!Inputs, Pilot!CohortsOf
    <2>3. Pilot!Cohort(b) \in Pilot!CohortsOf(m, i)  BY <1>1, <2>2
    <2>4. PICK a \in Pilot!All(m) : a.input = i /\ Pilot!Cohort(a) = Pilot!Cohort(b)
      BY <2>3 DEF Pilot!CohortsOf
    <2>5. \A c \in {a, b} : /\ Pilot!Cohort(c).workflow = c.cohort.workflow
                            /\ Pilot!Cohort(c).model = c.cohort.model
      BY DEF ManifestTyped, Pilot!Cohort
    <2> QED  BY <2>1, <2>4, <2>5
  <1> DEFINE f == [i \in 1..Len(m.order) |-> Pilot!WorkflowAt(m, i)]
  <1>3. Pilot!OrderValid(m) /\ Len(m.order) \in Nat  BY DEF Pilot!Valid, ManifestTyped
  <1>4. f \in [1..Len(m.order) -> {"qualitygate", "existing_tools"}]
    <2>1. ASSUME NEW a \in Pilot!All(m)  PROVE a.cohort.workflow \in Pilot!Workflows
      <3>1. <<a.cohort.model, a.cohort.workflow>> \in models \X Pilot!Workflows  BY <1>1
      <3> QED  BY <3>1
    <2> QED  BY <1>3, <2>1, NamedFacts DEF Pilot!Workflows
  <1>5. \A i \in 2..Len(m.order) : f[i] # f[i - 1]
    <2>1. \A i \in 2..Len(m.order) : i \in 1..Len(m.order) /\ i - 1 \in 1..Len(m.order)  BY <1>3
    <2> QED  BY <1>3, <2>1 DEF Pilot!OrderValid
  <1>6. \A n \in 0..Len(m.order) : Balanced(f, n)  BY <1>3, <1>4, <1>5, AlternationBalances
  <1>7. \A S : Pilot!Cardinality(S) = Cardinality(S)  BY DEF Pilot!Cardinality, Cardinality
  <1>8. \A n \in 0..Len(m.order) : \A w :
          {i \in 1..n : Pilot!WorkflowAt(m, i) = w} = Ran(f, n, w)
    <2>1. \A n \in 0..Len(m.order) : \A i \in 1..n : i \in 1..Len(m.order)  BY <1>3
    <2> QED  BY <2>1 DEF Ran
  <1>9. \A n \in 0..Len(m.order) :
          LET ran(w) == Pilot!Cardinality({i \in 1..n : Pilot!WorkflowAt(m, i) = w}) IN
          /\ ran("qualitygate") <= ran("existing_tools") + 1
          /\ ran("existing_tools") <= ran("qualitygate") + 1
    BY <1>6, <1>7, <1>8 DEF Balanced
  <1> QED  BY <1>2, <1>9 DEF Pilot!SealedIsBalanced

\* Whatever is edited in a sealed manifest, it stays valid only if observations
\* are all that was added, and it is accepted only as it was authorized
\* (domain/pilot/validation.rs, metrics.rs).
THEOREM SealFreezes ==
    ASSUME NEW m, ManifestTyped(m), NEW when, NEW new, ManifestTyped(new)
    PROVE  Pilot!NothingPostHoc(m, when, new)
  <1> DEFINE sealed == [m EXCEPT !.seal = Pilot!Plan(m)]
             edited == [new EXCEPT !.seal = sealed.seal]
             authorization == Pilot!Subject(sealed)
             review == [subject |-> Pilot!AcceptanceSubject(sealed, authorization),
                        decision |-> "accepted"]
  <1> SUFFICES ASSUME Pilot!Seal(m, when).ok
               PROVE  /\ Pilot!Valid(edited) => Pilot!Extends(edited, sealed)
                      /\ Pilot!Trial(edited, authorization, review, TRUE, TRUE, TRUE) = "accepted"
                           => edited = sealed
    BY DEF Pilot!NothingPostHoc, Pilot!Seal
  <1>1. /\ sealed.seal = Pilot!Plan(m) /\ edited.seal = Pilot!Plan(m)
        /\ sealed.protocol = m.protocol /\ sealed.assignments = m.assignments
        /\ sealed.sources = m.sources /\ sealed.order = m.order
        /\ edited.protocol = new.protocol /\ edited.assignments = new.assignments
        /\ edited.sources = new.sources /\ edited.order = new.order
    BY DEF ManifestTyped
  <1>2. ASSUME Pilot!Valid(edited)  PROVE Pilot!Extends(edited, sealed)
    <2>1. Pilot!Plan(m) = Pilot!Plan(edited)
      BY <1>1, <1>2 DEF ManifestTyped, Pilot!Valid, Pilot!Given
    <2> DEFINE Bare(x) == [x EXCEPT !.cohort.actual = None]
    <2>2. /\ m.protocol = new.protocol /\ m.sources = new.sources /\ m.order = new.order
          /\ [i \in DOMAIN m.assignments |-> Bare(m.assignments[i])] =
               [i \in DOMAIN new.assignments |-> Bare(new.assignments[i])]
      BY <1>1, <2>1 DEF Pilot!Plan
    <2>3. /\ DOMAIN m.assignments = DOMAIN new.assignments
          /\ \A i \in DOMAIN m.assignments : Bare(m.assignments[i]) = Bare(new.assignments[i])
      BY <2>2
    <2>4. Len(m.assignments) = Len(new.assignments)  BY <2>3 DEF ManifestTyped
    <2> QED  BY <1>1, <2>2, <2>3, <2>4 DEF Pilot!Extends
  <1>3. ASSUME Pilot!Trial(edited, authorization, review, TRUE, TRUE, TRUE) = "accepted"
        PROVE  edited = sealed
    <2>1. review.subject = Pilot!AcceptanceSubject(edited, authorization)
      BY <1>3 DEF Pilot!Trial
    <2>2. Pilot!AcceptanceSubject(sealed, authorization) =
            Pilot!AcceptanceSubject(edited, authorization)
      BY <2>1
    <2> QED  BY <2>2 DEF Pilot!AcceptanceSubject
  <1> QED  BY <1>2, <1>3

\* When no two runs that follow each other are early, no two runs are.
LEMMA StartsInOrder ==
    ASSUME NEW m, ObservationsTyped(m),
           \A x, y \in Pilot!Timed(m) :
             Pilot!Adjacent(m, x, y) => ~(Pilot!First(y).from <= Pilot!First(x).from)
    PROVE  \A x, y \in Pilot!Timed(m) :
             x.sequence < y.sequence => Pilot!First(x).from < Pilot!First(y).from
  <1> DEFINE T == Pilot!Timed(m)
             From(x) == Pilot!First(x).from
             Bad == {d \in Nat : \E x, y \in T : /\ x.sequence < y.sequence
                                               /\ ~(From(x) < From(y))
                                               /\ d = y.sequence - x.sequence}
  <1>1. ASSUME NEW x \in T  PROVE x.sequence \in Nat /\ From(x) \in Nat
    <2>1. x.attempts \in Seq(Pilot!Range(x.attempts)) /\ x.attempts # <<>>
      BY DEF Pilot!Timed, ObservationsTyped
    <2>2. 1 \in DOMAIN x.attempts  BY <2>1
    <2> QED  BY <2>2 DEF Pilot!Timed, ObservationsTyped, Pilot!Given, Pilot!First
  <1>2. \A x, y \in T : Pilot!Adjacent(m, x, y) => From(x) < From(y)  BY <1>1
  <1>3. ASSUME Bad # {}  PROVE FALSE
    <2>1. PICK d \in Bad : \A k \in Bad : d <= k  BY <1>3, Least
    <2>2. PICK x \in T, y \in T : /\ x.sequence < y.sequence /\ ~(From(x) < From(y))
                                 /\ d = y.sequence - x.sequence
      BY <2>1
    <2>3. ~Pilot!Adjacent(m, x, y)  BY <1>2, <2>2
    <2>4. PICK z \in T : ~(z.sequence <= x.sequence) /\ ~(y.sequence <= z.sequence)
      BY <2>2, <2>3 DEF Pilot!Adjacent
    <2> HIDE DEF From, T
    <2>5. /\ x.sequence < z.sequence /\ z.sequence < y.sequence
          /\ z.sequence - x.sequence \in Nat /\ ~(d <= z.sequence - x.sequence)
          /\ y.sequence - z.sequence \in Nat /\ ~(d <= y.sequence - z.sequence)
      BY <1>1, <2>2, <2>4
    <2>6. From(x) < From(z) /\ From(z) < From(y)  BY <2>1, <2>5
    <2> QED  BY <1>1, <2>2, <2>6
  <1>4. ASSUME NEW x \in T, NEW y \in T, x.sequence < y.sequence  PROVE From(x) < From(y)
    <2>1. y.sequence - x.sequence \in Nat  BY <1>1, <1>4
    <2> QED  BY <1>3, <1>4, <2>1
  <1> QED  BY <1>4

\* A schedule that is reported as followed was: each place of the order has its
\* run, and where the clocks are archived too, the runs start in that order
\* (domain/pilot/schedule.rs, execution_audit.rs).
THEOREM MatchedIsFollowed ==
    ASSUME NEW m, ManifestTyped(m), ObservationsTyped(m)  PROVE Pilot!FollowedIsFollowed(m)
  <1> DEFINE Seen == Pilot!Range(m.observations)
             told == {o \in Seen : Pilot!Given(o.sequence)}
  <1> SUFFICES ASSUME Pilot!Valid(m), Pilot!Schedule(m) = "matched"
               PROVE  Pilot!FollowedIsFollowed(m)
    BY DEF Pilot!FollowedIsFollowed
  <1>1. /\ Pilot!OrderValid(m) /\ Pilot!ObservationsValid(m)
        /\ \A i, j \in 1..Len(m.order) : m.order[i] = m.order[j] => i = j
    BY DEF Pilot!Valid, Pilot!OrderValid, Pilot!IsInjective, ManifestTyped
  <1>2. /\ \A o \in told : m.order[o.sequence] = o.of
        /\ {o.of : o \in told} = Pilot!Range(m.order)
    BY DEF Pilot!Schedule
  <1>3. \A o \in told : o.sequence \in 1..Len(m.order)
    BY <1>1 DEF Pilot!ObservationsValid, ManifestTyped
  <1>4. ASSUME NEW i \in 1..Len(m.order)
        PROVE  \E o \in Seen : o.of = m.order[i] /\ o.sequence = i
    <2>1. m.order[i] \in Pilot!Range(m.order)  BY DEF ManifestTyped, Pilot!Range
    <2>2. PICK o \in told : o.of = m.order[i]  BY <1>2, <2>1
    <2> QED  BY <1>1, <1>2, <1>3, <2>2
  <1>5. ASSUME Pilot!Execution(m) = "matched", NEW o \in Seen, NEW q \in Seen,
               Pilot!Position(m, Pilot!Named(m, o.of)) < Pilot!Position(m, Pilot!Named(m, q.of))
        PROVE  Pilot!First(o).from < Pilot!First(q).from
    <2>1. /\ \A x, y \in Pilot!Timed(m) :
               ~(Pilot!Adjacent(m, x, y) /\ Pilot!First(y).from <= Pilot!First(x).from)
          /\ \A x \in Seen : /\ x.attempts # <<>> /\ Pilot!Given(x.sequence)
                             /\ \A i \in DOMAIN x.attempts : Pilot!Given(x.attempts[i].from)
      BY <1>5 DEF Pilot!Execution
    <2>2. ASSUME NEW x \in Seen
          PROVE  /\ x \in Pilot!Timed(m)
                 /\ Pilot!Position(m, Pilot!Named(m, x.of)) = x.sequence
      <3>1. x \in told /\ x.sequence \in 1..Len(m.order) /\ m.order[x.sequence] = x.of
        BY <1>2, <1>3, <2>1
      <3>2. Pilot!Named(m, x.of).id = x.of  BY <1>1, <3>1, NamedFacts
      <3>3. Pilot!Position(m, Pilot!Named(m, x.of)) = x.sequence
        BY <1>1, <3>1, <3>2 DEF Pilot!Position, ManifestTyped
      <3>4. x.attempts \in Seq(Pilot!Range(x.attempts)) /\ x.attempts # <<>>
        BY <2>1 DEF ObservationsTyped
      <3>5. 1 \in DOMAIN x.attempts  BY <3>4
      <3> QED  BY <2>1, <3>1, <3>3, <3>4, <3>5 DEF Pilot!Timed, Pilot!First
    <2> QED  BY <1>5, <2>1, <2>2, StartsInOrder
  <1> QED  BY <1>4, <1>5 DEF Pilot!FollowedIsFollowed, ManifestTyped

-----------------------------------------------------------------------------
(* The summary of a judgment pilot, for any number of runs and labels.       *)

LEMMA Greatest ==
    ASSUME NEW n \in Nat, NEW S, S \subseteq 1..n, S # {}
    PROVE  Summary!Max(S) \in S
  <1> DEFINE T == {n - k : k \in S}
  <1>0. \A k \in S : n - k \in Nat  OBVIOUS
  <1>1. T \subseteq Nat /\ T # {}
    <2>1. \A t \in T : t \in Nat  BY <1>0, Zenon
    <2> QED  BY <2>1
  <1>2. PICK t \in T : \A k \in T : t <= k  BY <1>1, Least
  <1>3. PICK m \in S : t = n - m  BY <1>2
  <1>4. \A k \in S : m >= k
    <2>1. \A k \in S : n - m <= n - k /\ k \in Nat /\ m \in Nat  BY <1>2, <1>3
    <2> QED  BY <2>1
  <1> QED  BY <1>4 DEF Summary!Max

\* A label that counts is one of those given, by someone independent, in time.
LEMMA LabelFacts ==
    ASSUME NEW labels, LabelsTyped(labels), NEW id, Summary!LabelOf(labels, id) # None
    PROVE  LET l == Summary!LabelOf(labels, id)
           IN  l.independent /\ l.reviewed \in Nat
  <1> DEFINE own == {i \in DOMAIN labels.labels :
                       Summary!Taken(labels, i) /\ labels.labels[i].decision = id}
  <1>1. own # {} /\ Summary!LabelOf(labels, id) = labels.labels[Summary!Max(own)]
    BY DEF Summary!LabelOf
  <1>2. own \subseteq 1..Len(labels.labels) /\ Len(labels.labels) \in Nat  BY DEF LabelsTyped, ListTyped
  <1> HIDE DEF own
  <1>3. Summary!Max(own) \in own  BY <1>1, <1>2, Greatest
  <1>4. Summary!LabelRight(labels.labels[Summary!Max(own)], labels)
    BY <1>3 DEF own, Summary!Taken
  <1> QED  BY <1>1, <1>4 DEF Summary!LabelRight, LabelsTyped, ListTyped

\* Whatever is drawn, a hurried decision is among those to be audited.
LEMMA SomethingIsAudited ==
    ASSUME NEW runs, RetainedTyped(runs), NEW labels, labels.fraction \in Nat,
           Summary!HighPriority(runs, labels) # {}
    PROVE  Summary!Sample(runs, labels) # {}
  <1> DEFINE high == Summary!HighPriority(runs, labels)
             draws == {Drawn(runs[i].id) : i \in high}
  <1>1. high \subseteq DOMAIN runs  BY DEF Summary!HighPriority, Summary!Probable
  <1>2. draws \subseteq Nat /\ draws # {}  BY <1>1 DEF RetainedTyped, ListTyped
  <1>3. PICK d \in draws : \A k \in draws : d <= k  BY <1>2, Least
  <1>4. PICK i \in high : d = Drawn(runs[i].id)  BY <1>3
  <1>5. {j \in high : Drawn(runs[j].id) < Drawn(runs[i].id)} = {}
    <2>1. ASSUME NEW j \in high  PROVE ~(Drawn(runs[j].id) < Drawn(runs[i].id))
      <3>1. /\ Drawn(runs[j].id) \in Nat /\ Drawn(runs[i].id) \in Nat
            /\ Drawn(runs[i].id) <= Drawn(runs[j].id)
        BY <1>2, <1>3, <1>4
      <3> QED  BY <3>1
    <2> QED  BY <2>1
  <1>6. \A S : Summary!Cardinality(S) = Cardinality(S)  BY DEF Summary!Cardinality, Cardinality
  <1>7. Cardinality(high) \in Nat /\ Cardinality(high) # 0
    <2>1. IsFiniteSet(DOMAIN runs)  BY FS_Interval DEF RetainedTyped, ListTyped
    <2>2. IsFiniteSet(high)  BY <1>1, <2>1, FS_Subset
    <2> QED  BY <2>2, FS_CardinalityType, FS_EmptySet
  <1>8. 0 < Summary!AuditSize(Cardinality(high), labels.fraction)
    <2> DEFINE c == Summary!CeilDiv(Cardinality(high) * labels.fraction, 10)
    <2>1. c \in Nat
      <3>1. Cardinality(high) * labels.fraction \in Nat  BY <1>7
      <3>2. Cardinality(high) * labels.fraction + 10 - 1 \in Nat  BY <3>1
      <3> QED  BY <3>2 DEF Summary!CeilDiv
    <2> HIDE DEF c
    <2>2. \E m \in {c, 1} : \A k \in {c, 1} : m >= k
      <3>1. CASE c >= 1  BY <2>1, <3>1
      <3>2. CASE ~(c >= 1)  BY <2>1, <3>2
      <3> QED  BY <3>1, <3>2
    <2>3. Summary!Max({c, 1}) \in {c, 1} /\ Summary!Max({c, 1}) >= 1  BY <2>2 DEF Summary!Max
    <2>4. Summary!AuditSize(Cardinality(high), labels.fraction) = Summary!Max({c, 1})
      BY <1>7 DEF Summary!AuditSize, c
    <2> QED  BY <2>1, <2>3, <2>4
  <1>9. Cardinality({}) = 0  BY FS_EmptySet
  <1> HIDE DEF high
  <1>10. i \in Summary!Sample(runs, labels)
    BY <1>4, <1>5, <1>6, <1>8, <1>9 DEF Summary!Sample, high
  <1> QED  BY <1>10

\* However many runs and labels a judgment pilot has, a complete summary is of
\* one repository, question and provider, counts only answers that somebody
\* independent labelled after they were given, under calibrations made before
\* the period, and has checked a hurried decision whenever there was one
\* (application/judgment/pilot.rs).
THEOREM SummaryIsIndependent ==
    ASSUME NEW runs, RetainedTyped(runs), NEW labels, LabelsTyped(labels), NEW when
    PROVE  Summary!RestsOnIndependentLabels(runs, labels, when)
  <1> SUFFICES ASSUME Summary!Complete(runs, labels, when)
               PROVE  Summary!RestsOnIndependentLabels(runs, labels, when)
    BY DEF Summary!RestsOnIndependentLabels
  <1>0. Summary!Loads(runs, labels)  BY DEF Summary!Complete
  <1>00. labels.fraction \in 0..10  BY <1>0, Zenon DEF Summary!Loads
  <1>1. labels.fraction \in Nat  BY <1>00
  <1>2. /\ "scope" \notin Summary!Issues(runs, labels, when)
        /\ "gap" \notin Summary!Issues(runs, labels, when)
        /\ "audit" \notin Summary!Issues(runs, labels, when)
        /\ "no_labels" \notin Summary!Issues(runs, labels, when)
    BY DEF Summary!Complete
  <1>3. /\ \A r \in Summary!Range(runs) : r.scope = labels.scope
        /\ \A r \in Summary!Range(runs) : r.kind # "gap"
        /\ \A i \in Summary!Sample(runs, labels) : Summary!LabelOf(labels, runs[i].id) # None
        /\ Summary!Observed(runs, labels) # {}
    <2>1. \A r \in Summary!Range(runs) : r.scope = labels.scope
      BY <1>2 DEF Summary!Issues, Summary!InScope
    <2>2. \A r \in Summary!Range(runs) : r.kind # "gap"  BY <1>2 DEF Summary!Issues
    <2>3. \A i \in Summary!Sample(runs, labels) : Summary!LabelOf(labels, runs[i].id) # None
      BY <1>2 DEF Summary!Issues
    <2>4. Summary!Observed(runs, labels) # {}  BY <1>2 DEF Summary!Issues
    <2> QED  BY <2>1, <2>2, <2>3, <2>4
  <1>4. ASSUME NEW i \in Summary!Observed(runs, labels)
        PROVE  LET l == Summary!LabelOf(labels, runs[i].id)
               IN  /\ l.independent /\ l.reviewed >= runs[i].started
                   /\ runs[i].cal.until < labels.from
    <2>1. /\ Summary!LabelOf(labels, runs[i].id) # None /\ i \in DOMAIN runs
          /\ ~Summary!Predates(runs[i], labels) /\ Summary!CohortRight(runs[i], labels)
      BY DEF Summary!Observed, Summary!Probable
    <2>2. runs[i].started \in Nat  BY <2>1 DEF RetainedTyped, ListTyped
    <2> QED  BY <2>1, <2>2, LabelFacts DEF Summary!Predates, Summary!CohortRight
  <1>5. ASSUME Summary!HighPriority(runs, labels) # {}
        PROVE  Summary!Observed(runs, labels) \cap Summary!HighPriority(runs, labels) # {}
    <2>1. PICK i \in Summary!Sample(runs, labels) : TRUE  BY <1>1, <1>5, SomethingIsAudited
    <2>2. i \in Summary!HighPriority(runs, labels)  BY DEF Summary!Sample
    <2>3. Summary!LabelOf(labels, runs[i].id) # None  BY <1>3
    <2>4. i \in Summary!Probable(runs, labels)  BY <2>2 DEF Summary!HighPriority
    <2>5. "predates" \notin Summary!Issues(runs, labels, when)  BY DEF Summary!Complete
    <2>6. ~Summary!Predates(runs[i], labels)  BY <2>4, <2>5 DEF Summary!Issues
    <2> QED  BY <2>2, <2>3, <2>4, <2>6 DEF Summary!Observed
  <1> QED  BY <1>3, <1>4, <1>5 DEF Summary!RestsOnIndependentLabels
-----------------------------------------------------------------------------
(* The gate: the one-pass loop decides what the declarative one decides,     *)
(* over lists of results of any length.                                      *)

\* The ids of the results before the i-th.
Before(i) == {results[j].id : j \in 1..(i - 1)}

\* What the loop found wrong with the results before at.
Looked == UNION {Gate!Found(results[i], Before(i)) : i \in 1..(at - 1)}

\* While it runs, the loop's accumulators say what the results before at said.
Accumulated ==
    /\ seen = Before(at)
    /\ gaps = {<<"invalid", why>> : why \in invalid} \cup Looked
    /\ failures = {results[i].id : i \in {j \in 1..(at - 1) : Gate!Violation(results[j])}}
    /\ completed \in Nat
    /\ completed = 0 <=> \A i \in 1..(at - 1) : ~Gate!ValidCompleted(results[i])

NotBegun == /\ seen = {} /\ gaps = {} /\ failures = {} /\ completed = 0 /\ decision = "none"

GateInv ==
    /\ results \in Seq(CheckResults) /\ at \in 0..(Len(results) + 1)
    /\ at = 0 => NotBegun
    /\ at # 0 /\ decision = "none" => Accumulated
    /\ decision # "none" => /\ at = Len(results) + 1
                            /\ decision = Gate!Decide(results, required, invalid)

-----------------------------------------------------------------------------
\* The gate is complete exactly when the pass over the results and the closing
\* pass over the required ids found nothing.
LEMMA GapsAreGaps ==
    ASSUME results \in Seq(CheckResults), at = Len(results) + 1, Accumulated
    PROVE  gaps \cup Gate!Closing # {} <=> Gate!HasGap(results, required, invalid)
  <1>1. DOMAIN results = 1..(at - 1) /\ Len(results) \in Nat  OBVIOUS
  <1>2. gaps # {} <=> \/ invalid # {}
                      \/ \E i \in DOMAIN results : Gate!Found(results[i], Before(i)) # {}
    <2>1. Looked # {} <=> \E i \in DOMAIN results : Gate!Found(results[i], Before(i)) # {}
      <3>1. ASSUME NEW g \in Looked
            PROVE  \E i \in DOMAIN results : Gate!Found(results[i], Before(i)) # {}
        BY <1>1 DEF Looked
      <3>2. ASSUME NEW i \in DOMAIN results, NEW g \in Gate!Found(results[i], Before(i))
            PROVE  g \in Looked
        BY <1>1 DEF Looked
      <3> QED  BY <3>1, <3>2
    <2>2. {<<"invalid", why>> : why \in invalid} # {} <=> invalid # {}  OBVIOUS
    <2>3. gaps = {<<"invalid", why>> : why \in invalid} \cup Looked  BY DEF Accumulated
    <2> QED  BY <2>1, <2>2, <2>3
  <1>3. ASSUME NEW i \in DOMAIN results
        PROVE  Gate!Found(results[i], Before(i)) # {} <=>
                 \/ Gate!Inconsistent(results[i])
                 \/ (results[i].required \/ results[i].id \in required) /\ ~Gate!Usable(results[i])
                 \/ \E j \in 1..(i - 1) : results[j].id = results[i].id
    <2> DEFINE r == results[i]
               dup == <<"duplicate", r.id>>
               odd == <<"state", r.id>>
               req == <<"required", r.id>>
    <2>1. dup[1] = "duplicate" /\ odd[1] = "state" /\ req[1] = "required"  OBVIOUS
    <2>2. dup \in Gate!Found(r, Before(i)) <=> r.id \in Before(i)  BY <2>1 DEF Gate!Found
    <2>3. odd \in Gate!Found(r, Before(i)) <=> Gate!Inconsistent(r)  BY <2>1 DEF Gate!Found
    <2>4. req \in Gate!Found(r, Before(i)) <=> (r.required \/ r.id \in required) /\ ~Gate!Usable(r)
      BY <2>1 DEF Gate!Found
    <2>5. Gate!Found(r, Before(i)) \subseteq {dup, odd, req}  BY DEF Gate!Found
    <2>6. r.id \in Before(i) <=> \E j \in 1..(i - 1) : results[j].id = r.id  BY DEF Before
    <2> HIDE DEF dup, odd, req
    <2> QED  BY <2>2, <2>3, <2>4, <2>5, <2>6
  <1>4. Gate!Closing # {} <=> \/ ~(required \subseteq Gate!Reported(results))
                         \/ \A i \in DOMAIN results : ~Gate!ValidCompleted(results[i])
    <2>1. seen = Gate!Reported(results)  BY <1>1 DEF Accumulated, Before, Gate!Reported
    <2>2. completed = 0 <=> \A i \in DOMAIN results : ~Gate!ValidCompleted(results[i])
      BY <1>1 DEF Accumulated
    <2>3. Gate!Closing # {} <=> (\E id \in required : id \notin seen) \/ completed = 0
      BY DEF Gate!Closing
    <2> QED  BY <2>1, <2>2, <2>3
  <1> QED  BY <1>2, <1>3, <1>4 DEF Gate!HasGap

LEMMA GateStep == GateInv /\ [Gate!Next]_(Gate!vars) => GateInv'
  <1> SUFFICES ASSUME GateInv, [Gate!Next]_(Gate!vars)  PROVE GateInv'
    OBVIOUS
  <1>0. results \in Seq(CheckResults) /\ Len(results) \in Nat /\ at \in 0..(Len(results) + 1)
    BY DEF GateInv
  <1>1. CASE Gate!AddResult
    <2>1. PICK r \in CheckResults : results' = Append(results, r)  BY <1>1 DEF Gate!AddResult
    <2>2. /\ results' \in Seq(CheckResults) /\ Len(results') = Len(results) + 1
      BY <1>0, <2>1
    <2> QED  BY <1>0, <1>1, <2>2 DEF Gate!AddResult, GateInv, NotBegun, Gate!acc
  <1>2. CASE Gate!Evaluate
    <2>1. /\ at' = 1 /\ NotBegun /\ decision' = "none" /\ UNCHANGED <<results, required, invalid>>
          /\ seen' = {} /\ failures' = {} /\ completed' = 0
          /\ gaps' = {<<"invalid", why>> : why \in invalid'}
      BY <1>2 DEF Gate!Evaluate, GateInv, NotBegun, Gate!input
    <2>2. Before(at)' = {} /\ Looked' = {} /\ 1..(at' - 1) = {}  BY <2>1 DEF Before, Looked
    <2>3. Accumulated'  BY <2>1, <2>2 DEF Accumulated
    <2> QED  BY <1>0, <2>1, <2>3 DEF GateInv
  <1>3. CASE Gate!Examine
    <2> DEFINE r == results[at]
    <2>1. /\ at \in 1..Len(results) /\ at' = at + 1 /\ decision = "none"
          /\ UNCHANGED <<results, required, invalid, decision>> /\ Accumulated
      BY <1>0, <1>3 DEF Gate!Examine, GateInv, Gate!input
    <2>2. 1..(at' - 1) = 1..(at - 1) \cup {at} /\ at \notin 1..(at - 1)  BY <1>0, <2>1
    <2>3. \A i \in 1..at : Gate!Found(results[i], Before(i))' = Gate!Found(results[i], Before(i))
      BY <2>1 DEF Gate!Found, Before
    <2>4. Before(at)' = Before(at) \cup {r.id}
      BY <2>1, <2>2 DEF Before
    <2>5. seen' = Before(at)'
      BY <1>3, <2>1, <2>4 DEF Gate!Examine, Accumulated
    <2>6. Looked' = Looked \cup Gate!Found(r, Before(at))
      BY <2>2, <2>3 DEF Looked
    <2>7. gaps' = {<<"invalid", why>> : why \in invalid} \cup Looked'
      BY <1>3, <2>1, <2>6 DEF Gate!Examine, Accumulated
    <2>8. failures' = {results[i].id : i \in {j \in 1..(at' - 1) : Gate!Violation(results[j])}}
      BY <1>3, <2>1, <2>2 DEF Gate!Examine, Accumulated
    <2>9. /\ completed' \in Nat
          /\ (completed' = 0 <=> \A i \in 1..(at' - 1) : ~Gate!ValidCompleted(results[i]))
      BY <1>3, <2>1, <2>2 DEF Gate!Examine, Accumulated
    <2>10. Accumulated'
      BY <2>1, <2>5, <2>7, <2>8, <2>9 DEF Accumulated
    <2> QED  BY <1>0, <2>1, <2>10 DEF GateInv
  <1>4. CASE Gate!Conclude
    <2>1. /\ at = Len(results) + 1 /\ at # 0 /\ decision = "none" /\ Accumulated
          /\ UNCHANGED <<results, required, invalid, at>>
      BY <1>0, <1>4 DEF Gate!Conclude, GateInv, Gate!input
    <2>2. failures # {} <=> \E i \in DOMAIN results : Gate!Violation(results[i])
      BY <1>0, <2>1 DEF Accumulated
    <2>3. gaps \cup Gate!Closing # {} <=> Gate!HasGap(results, required, invalid)
      BY <1>0, <2>1, GapsAreGaps
    <2>4. decision' = Gate!Decide(results, required, invalid)
      BY <1>4, <2>2, <2>3 DEF Gate!Conclude, Gate!Decide
    <2>5. /\ decision' # "none"
          /\ Gate!Decide(results, required, invalid)' = Gate!Decide(results, required, invalid)
      BY <2>1, <2>4 DEF Gate!Decide, Gate!HasGap, Gate!Reported
    <2> QED  BY <1>0, <2>1, <2>4, <2>5 DEF GateInv
  <1>5. CASE UNCHANGED Gate!vars
    <2>1. Gate!Decide(results, required, invalid)' = Gate!Decide(results, required, invalid)
      BY <1>5 DEF Gate!vars, Gate!input, Gate!Decide, Gate!HasGap, Gate!Reported
    <2> QED
      BY <1>5, <2>1 DEF Gate!vars, Gate!input, Gate!acc, GateInv, NotBegun, Accumulated, Looked,
                        Before, Gate!Found
  <1> QED  BY <1>1, <1>2, <1>3, <1>4, <1>5 DEF Gate!Next, Gate!Decided

\* The loop's sets and counter are those of the results examined so far
\* (domain/gate.rs).
THEOREM GateInductive == Gate!Spec => []GateInv
  <1>1. Gate!Init => GateInv  BY DEF Gate!Init, GateInv, NotBegun
  <1> QED  BY <1>1, GateStep, PTL DEF Gate!Spec

\* Whatever the list of results holds, in whatever order and with whatever
\* duplicates, the loop of gate::evaluate decides what the declarative gate does
\* (domain/gate.rs).
THEOREM LoopIsGate == Gate!Spec => []Gate!LoopDecides
  <1>1. GateInv => Gate!LoopDecides  BY DEF GateInv, Gate!LoopDecides
  <1> QED  BY <1>1, GateInductive, PTL

\* A gate passes only on evidence: one usable result for every required id, and
\* at least one check that completed; so no plan, however long, passes by
\* running nothing (domain/gate.rs).
THEOREM PassIsEvidence == Gate!Spec => []Gate!PassHasEvidence
  <1>1. ASSUME GateInv  PROVE Gate!PassHasEvidence
    <2> SUFFICES ASSUME decision = "pass"
                 PROVE  /\ \A id \in required :
                             Cardinality({i \in DOMAIN results : results[i].id = id
                                                                 /\ Gate!Usable(results[i])}) = 1
                        /\ \E i \in DOMAIN results : Gate!ValidCompleted(results[i])
      BY DEF Gate!PassHasEvidence, Gate!Cardinality, Cardinality
    <2>1. ~Gate!HasGap(results, required, invalid)  BY <1>1 DEF GateInv, Gate!Decide
    <2>2. \E i \in DOMAIN results : Gate!ValidCompleted(results[i])  BY <2>1 DEF Gate!HasGap
    <2>3. ASSUME NEW id \in required
          PROVE  Cardinality({i \in DOMAIN results : results[i].id = id
                                                       /\ Gate!Usable(results[i])}) = 1
      <3>1. PICK i \in DOMAIN results : results[i].id = id  BY <2>1 DEF Gate!HasGap, Gate!Reported
      <3>2. Gate!Usable(results[i])  BY <2>1, <3>1 DEF Gate!HasGap
      <3>3. ASSUME NEW j \in DOMAIN results, results[j].id = id  PROVE j = i
        <4>1. i \in Nat /\ j \in Nat /\ i >= 1 /\ j >= 1  BY <1>1 DEF GateInv
        <4>2. ~(j \in 1..(i - 1)) /\ ~(i \in 1..(j - 1))  BY <2>1, <3>1, <3>3 DEF Gate!HasGap
        <4> QED  BY <4>1, <4>2
      <3>4. {k \in DOMAIN results : results[k].id = id /\ Gate!Usable(results[k])} = {i}
        BY <3>1, <3>2, <3>3
      <3> QED  BY <3>4, FS_Singleton
    <2> QED  BY <2>2, <2>3
  <1> QED  BY <1>1, GateInductive, PTL

-----------------------------------------------------------------------------
(* The candidate configuration, for every set of writers and of edits they   *)
(* may ask for, and any number of edits made without the lock.               *)

WriterFields == {"at", "ask", "read", "write"}

Editing(w) == writer[w].at \in {"locked", "edited", "checked"}

\* A writer that edits is the one whose lock file is there; so no two edit.
LockNamesEditor ==
    /\ DOMAIN writer = Writer /\ \A w \in Writer : DOMAIN writer[w] = WriterFields
    /\ \A v, w \in lock : v = w
    /\ \A w \in Writer : Editing(w) => w \in lock

RuleFileInv == LockNamesEditor /\ Rule!NothingOverwritten

\* A step of one writer leaves the record of every other.
LEMMA OthersStay ==
    ASSUME LockNamesEditor, NEW w \in Writer, NEW from, NEW record, Rule!Step(w, from, record),
           DOMAIN record = WriterFields
    PROVE  /\ DOMAIN writer' = Writer /\ \A v \in Writer : DOMAIN writer'[v] = WriterFields
           /\ writer'[w] = record /\ writer[w].at = from
           /\ \A v \in Writer \ {w} : writer'[v] = writer[v]
  BY DEF Rule!Step, LockNamesEditor

LEMMA LockTaken == ASSUME RuleFileInv, NEW w \in Writer, Rule!Lock(w)  PROVE RuleFileInv'
  <1>1. PICK m \in Mutations : Rule!Step(w, "idle", [Rule!Idle EXCEPT !.at = "locked", !.ask = m])
    BY DEF Rule!Lock
  <1> DEFINE record == [Rule!Idle EXCEPT !.at = "locked", !.ask = m]
  <1>2. Rule!Step(w, "idle", record) /\ DOMAIN record = WriterFields /\ record.at = "locked"
    BY <1>1 DEF Rule!Idle, WriterFields
  <1> HIDE DEF record
  <1>3. lock = {} /\ lock' = {w} /\ UNCHANGED <<file, alien>>  BY DEF Rule!Lock
  <1>4. LockNamesEditor'
    BY <1>2, <1>3, OthersStay DEF RuleFileInv, LockNamesEditor, Editing
  <1>5. Rule!NothingOverwritten'
    BY <1>2, <1>3, OthersStay DEF RuleFileInv, Rule!NothingOverwritten
  <1> QED  BY <1>4, <1>5 DEF RuleFileInv

\* A writer that stops editing, and one whose step leaves it editing, with the
\* configuration as it is.
LEMMA StepKeeps ==
    ASSUME RuleFileInv, NEW w \in Writer, NEW from, NEW record, Rule!Step(w, from, record),
           DOMAIN record = WriterFields, UNCHANGED file, alien \ {w} \subseteq alien',
           lock' = lock \/ (lock' = lock \ {w} /\ record.at \notin {"locked", "edited", "checked"}),
           record.at \in {"locked", "edited", "checked"} => Editing(w),
           record.at = "checked" => file = record.read
    PROVE  RuleFileInv'
  <1>1. LockNamesEditor'
    BY OthersStay DEF RuleFileInv, LockNamesEditor, Editing
  <1>2. Rule!NothingOverwritten'
    BY OthersStay DEF RuleFileInv, Rule!NothingOverwritten
  <1> QED  BY <1>1, <1>2 DEF RuleFileInv

LEMMA WriterKeeps ==
    ASSUME RuleFileInv, NEW w \in Writer,
           Rule!Read(w) \/ Rule!Recheck(w) \/ Rule!Die(w) \/ Rule!Draft(w) \/ Rule!Persist(w)
    PROVE  RuleFileInv'
  <1>0. LockNamesEditor /\ DOMAIN writer[w] = WriterFields  BY DEF RuleFileInv, LockNamesEditor
  <1> DEFINE ended == [Rule!Idle EXCEPT !.at = "ended"]
  <1>1. DOMAIN ended = WriterFields /\ ended.at = "ended"  BY DEF Rule!Idle, WriterFields
  <1> HIDE DEF ended
  <1>2. CASE Rule!Read(w)
    <2> DEFINE edited == [writer[w] EXCEPT !.at = "edited", !.read = file,
                                           !.write = Rule!Candidate(file, writer[w].ask).config]
    <2>1. DOMAIN edited = WriterFields /\ edited.at = "edited"  BY <1>0 DEF WriterFields
    <2>2. /\ writer[w].at = "locked" /\ UNCHANGED <<file, alien>>
          /\ \/ Rule!Step(w, "locked", edited) /\ lock' = lock
             \/ Rule!Step(w, "locked", ended) /\ lock' = lock \ {w}
      BY <1>2 DEF Rule!Read, Rule!Free, ended
    <2> HIDE DEF edited
    <2> QED  BY <1>1, <2>1, <2>2, StepKeeps DEF Editing
  <1>3. CASE Rule!Recheck(w)
    <2> DEFINE checked == [writer[w] EXCEPT !.at = "checked"]
    <2>1. DOMAIN checked = WriterFields /\ checked.at = "checked" /\ checked.read = writer[w].read
      BY <1>0 DEF WriterFields
    <2>2. /\ UNCHANGED file /\ alien' = alien \ {w}
          /\ \/ file = writer[w].read /\ Rule!Step(w, "edited", checked) /\ lock' = lock
             \/ Rule!Step(w, "edited", ended) /\ lock' = lock \ {w}
      BY <1>3 DEF Rule!Recheck, Rule!Free, ended
    <2>3. Editing(w)  BY <2>2 DEF Rule!Step, Editing
    <2> HIDE DEF checked
    <2> QED  BY <1>1, <2>1, <2>2, <2>3, StepKeeps
  <1>4. CASE Rule!Die(w)
    <2> DEFINE dead == [Rule!Idle EXCEPT !.at = "dead"]
    <2>1. DOMAIN dead = WriterFields /\ dead.at = "dead"  BY DEF Rule!Idle, WriterFields
    <2>2. Rule!Step(w, writer[w].at, dead) /\ UNCHANGED <<file, alien, lock>>  BY <1>4 DEF Rule!Die
    <2> HIDE DEF dead
    <2> QED  BY <2>1, <2>2, StepKeeps
  <1>5. CASE Rule!Draft(w)
    <2>1. PICK r \in NewRules : Rule!Step(w, "idle", [Rule!Idle EXCEPT !.at = "drafted", !.ask = r])
      BY <1>5 DEF Rule!Draft
    <2> DEFINE drafted == [Rule!Idle EXCEPT !.at = "drafted", !.ask = r]
    <2>2. DOMAIN drafted = WriterFields /\ drafted.at = "drafted"  BY DEF Rule!Idle, WriterFields
    <2>3. Rule!Step(w, "idle", drafted) /\ UNCHANGED <<file, alien, lock>>
      BY <1>5, <2>1 DEF Rule!Draft
    <2> HIDE DEF drafted
    <2> QED  BY <2>2, <2>3, StepKeeps
  <1>6. CASE Rule!Persist(w)
    <2>1. Rule!Step(w, "drafted", ended) /\ UNCHANGED <<file, alien, lock>>
      BY <1>6 DEF Rule!Persist, ended
    <2> QED  BY <1>1, <2>1, StepKeeps
  <1> QED  BY <1>2, <1>3, <1>4, <1>5, <1>6

\* The rename changes the file under no other writer that already compared it.
LEMMA PublishKeeps == ASSUME RuleFileInv, NEW w \in Writer, Rule!Publish(w)  PROVE RuleFileInv'
  <1> DEFINE ended == [Rule!Idle EXCEPT !.at = "ended"]
  <1>1. DOMAIN ended = WriterFields /\ ended.at = "ended"  BY DEF Rule!Idle, WriterFields
  <1>2. Rule!Step(w, "checked", ended) /\ lock' = lock \ {w} /\ UNCHANGED alien
    BY DEF Rule!Publish, Rule!Free
  <1> HIDE DEF ended
  <1>3. /\ DOMAIN writer' = Writer /\ \A v \in Writer : DOMAIN writer'[v] = WriterFields
        /\ writer'[w] = ended /\ writer[w].at = "checked"
        /\ \A v \in Writer \ {w} : writer'[v] = writer[v]
    BY <1>1, <1>2, OthersStay DEF RuleFileInv
  <1>4. \A v \in Writer \ {w} : ~Editing(v)
    BY <1>3 DEF RuleFileInv, LockNamesEditor, Editing
  <1>5. LockNamesEditor'
    BY <1>1, <1>2, <1>3, <1>4 DEF RuleFileInv, LockNamesEditor, Editing
  <1>6. Rule!NothingOverwritten'
    BY <1>1, <1>3, <1>4 DEF Rule!NothingOverwritten, Editing
  <1> QED  BY <1>5, <1>6 DEF RuleFileInv

LEMMA RuleFileStep == RuleFileInv /\ [Rule!Next]_(Rule!vars) => RuleFileInv'
  <1> SUFFICES ASSUME RuleFileInv, [Rule!Next]_(Rule!vars)  PROVE RuleFileInv'
    OBVIOUS
  <1>1. ASSUME NEW w \in Writer,
               Rule!Lock(w) \/ Rule!Read(w) \/ Rule!Recheck(w) \/ Rule!Publish(w) \/ Rule!Die(w)
                                 \/ Rule!Draft(w) \/ Rule!Persist(w)
        PROVE  RuleFileInv'
    BY <1>1, LockTaken, WriterKeeps, PublishKeeps
  <1>2. CASE Rule!RemoveLock
    <2>1. PICK w \in lock : writer[w].at = "dead"  BY <1>2 DEF Rule!RemoveLock
    <2>2. \A v \in Writer : ~Editing(v)  BY <2>1 DEF RuleFileInv, LockNamesEditor, Editing
    <2> QED
      BY <1>2, <2>2 DEF Rule!RemoveLock, RuleFileInv, LockNamesEditor, Rule!NothingOverwritten,
                        Editing
  <1>3. CASE Rule!EditFile \/ Rule!EditDocument \/ UNCHANGED Rule!vars
    BY <1>3 DEF Rule!EditFile, Rule!EditDocument, Rule!vars, RuleFileInv, LockNamesEditor,
                Rule!NothingOverwritten, Editing
  <1> QED  BY <1>1, <1>2, <1>3 DEF Rule!Next

\* However many writers edit the configuration and wherever they are killed, the
\* one that renames its temporary file over it replaces what it read, unless an
\* editor that takes no lock came after its comparison (rule_management.rs:60-69,
\* 122-138).
THEOREM NoLostEdit == Rule!Spec => []Rule!NothingOverwritten
  <1>1. Rule!Init => RuleFileInv
    BY DEF Rule!Init, Rule!Idle, WriterFields, RuleFileInv, LockNamesEditor,
           Rule!NothingOverwritten, Editing
  <1>2. RuleFileInv => Rule!NothingOverwritten  BY DEF RuleFileInv
  <1> QED  BY <1>1, <1>2, RuleFileStep, PTL DEF Rule!Spec

\* A rule file, once there, keeps its text, whichever writers generate the same
\* rule at the same time (rule_authoring.rs:225-236).
THEOREM TextsKept == Rule!Spec => Rule!CandidatesKept
  <1> DEFINE TextsStay == \A id \in DOMAIN directory :
                        id \in DOMAIN directory' /\ directory'[id] = directory[id]
  <1>1. ASSUME NEW w \in Writer, Rule!Persist(w)  PROVE TextsStay
    BY <1>1 DEF Rule!Persist, Rule!Put
  <1>2. [Rule!Next]_(Rule!vars) => [TextsStay]_(Rule!vars)
    BY <1>1 DEF Rule!Next, Rule!vars, Rule!Lock, Rule!Read, Rule!Recheck, Rule!Publish, Rule!Die,
                Rule!Draft, Rule!RemoveLock, Rule!EditFile, Rule!EditDocument
  <1> QED  BY <1>2, PTL DEF Rule!Spec, Rule!CandidatesKept

-----------------------------------------------------------------------------
(* The planner, for every configuration whose layout was accepted, however   *)
(* many entries it has.                                                      *)

Count == Len(config.entries)
Wanted(i) == config.entries[i].dependsOn

\* The closure never runs out of rounds: with r rounds left and entry v the next,
\* what is gathered is closed, or it has grown in every round so far, or an entry
\* this round has yet to visit makes it grow.
Growing(S, r, v) ==
    /\ r \in 0..Count /\ (r > 0 => v \in 1..Count)
    /\ \/ Plan!Closed(S)
       \/ Cardinality(S) > Count - r
       \/ /\ Cardinality(S) >= Count - r
          /\ \E i \in S : i >= v /\ ~(Wanted(i) \subseteq S)

Gathering ==
    /\ Plan!Selected \subseteq needed /\ needed \subseteq Plan!Reachable
    /\ Growing(needed, round, visit)

\* What is ordered and what remains are the enabled entries that were gathered.
Ordering ==
    /\ needed = Plan!Reachable /\ Plan!Closed(needed) /\ Plan!Selected \subseteq needed
    /\ order \in Seq(Plan!All) /\ remaining \cap Plan!Ordered = {}
    /\ remaining \cup Plan!Ordered = {i \in needed : Plan!Enabled(i)}

Planned ==
    Plan!OrderIsSchedule /\ Plan!NothingForgotten /\ Plan!RunsWhatIsReached

PlanInv ==
    /\ config \in Configs /\ profile \in {"quick", "full"}
    /\ stage \in {"combine", "close", "order", "done", "bail"}
    /\ stage = "combine" => visit = 1
    /\ stage \in {"combine", "close"} => order = <<>>
    /\ stage \in {"close", "order"} => Plan!Valid
    /\ stage = "close" => Gathering
    /\ stage = "order" => Ordering
    /\ Planned

\* What an accepted layout says of the entries.
LEMMA LayoutFacts ==
    ASSUME Plan!ConfigsWellFormed, config \in Configs, profile \in {"quick", "full"}
    PROVE  /\ Count \in Nat /\ Plan!All = 1..Count
           /\ \A i \in Plan!All : Wanted(i) \subseteq Plan!All
           /\ Plan!Selected \subseteq Plan!All /\ Plan!Reachable \subseteq Plan!All
           /\ Plan!AllRequired \subseteq Plan!All /\ ConstraintCoverage \notin Plan!All
           /\ Plan!Valid /\ profile = "full" => Plan!AllRequired \subseteq Plan!Selected
  <1>1. /\ config.entries \in Seq([rule : BOOLEAN, enabled : BOOLEAN, required : BOOLEAN,
                                   dependsOn : SUBSET DOMAIN config.entries])
        /\ config.task \subseteq DOMAIN config.entries /\ ConstraintCoverage \notin DOMAIN config.entries
        /\ \A p \in {"quick", "full"} :
             config.profiles[p] = <<>> \/ config.profiles[p][1] \subseteq DOMAIN config.entries
    BY DEF Plan!ConfigsWellFormed, Plan!WellFormed
  <1>2. Count \in Nat /\ Plan!All = 1..Count /\ DOMAIN config.entries = 1..Count
    BY <1>1 DEF Count, Plan!All, Plan!entries
  <1>3. \A i \in Plan!All : Wanted(i) \subseteq Plan!All
    <2> SUFFICES ASSUME NEW i \in Plan!All  PROVE Wanted(i) \subseteq Plan!All
      OBVIOUS
    <2>1. config.entries[i] \in [rule : BOOLEAN, enabled : BOOLEAN, required : BOOLEAN,
                            dependsOn : SUBSET DOMAIN config.entries]
      <3> DEFINE E == [rule : BOOLEAN, enabled : BOOLEAN, required : BOOLEAN,
                       dependsOn : SUBSET DOMAIN config.entries]
      <3>1. config.entries \in Seq(E) /\ i \in 1..Len(config.entries)
        BY <1>1, <1>2 DEF Count
      <3> HIDE DEF E
      <3>2. config.entries[i] \in E  BY <3>1
      <3> QED  BY <3>2 DEF E
    <2> QED  BY <2>1 DEF Wanted, Plan!All, Plan!entries
  <1>4. Plan!Selected \subseteq Plan!All
    <2>1. CASE Plan!Included(profile) = <<>>
      BY <2>1 DEF Plan!Selected, Plan!All
    <2>2. CASE Plan!Included(profile) # <<>>
      <3>1. config.profiles[profile] # <<>>  BY <2>2 DEF Plan!Included
      <3>2. config.profiles[profile][1] \subseteq Plan!All
        BY <1>1, <3>1 DEF Plan!All, Plan!entries
      <3>3. Plan!Included(profile)[1]
              = config.profiles[profile][1] \cup (IF profile = "full" THEN config.task ELSE {})
        BY <3>1 DEF Plan!Included
      <3> QED  BY <1>1, <2>2, <3>2, <3>3 DEF Plan!Selected, Plan!All, Plan!entries
    <2> QED  BY <2>1, <2>2
  <1>5. Plan!Valid /\ profile = "full" => Plan!AllRequired \subseteq Plan!Selected
    BY DEF Plan!Valid, Plan!Selected, Plan!AllRequired
  <1> QED
    BY <1>1, <1>2, <1>3, <1>4, <1>5 DEF Plan!Reachable, Plan!AllRequired, Plan!All, Plan!entries

\* Nothing after the start changes what was asked for.
LEMMA LayoutStays ==
    ASSUME UNCHANGED <<config, profile>>
    PROVE  /\ Plan!All' = Plan!All /\ Count' = Count /\ Plan!entries' = Plan!entries
           /\ Plan!AllRequired' = Plan!AllRequired /\ Plan!Valid' = Plan!Valid
           /\ Plan!Selected' = Plan!Selected
           /\ Plan!Reachable' = Plan!Reachable
  <1>1. Plan!All' = Plan!All /\ Count' = Count /\ Plan!entries' = Plan!entries
    BY DEF Plan!All, Plan!entries, Count
  <1>2. Plan!Selected' = Plan!Selected
    BY <1>1 DEF Plan!Selected, Plan!Included, Plan!entries
  <1>3. Plan!AllRequired' = Plan!AllRequired
    BY <1>1 DEF Plan!AllRequired, Plan!Enabled
  <1>4. Plan!Valid' = Plan!Valid
    BY <1>1, <1>3 DEF Plan!Valid, Plan!Acyclic, Plan!Included
  <1>5. Plan!Reachable' = Plan!Reachable
    BY <1>1, <1>2 DEF Plan!Reachable, Plan!Closed
  <1> QED  BY <1>1, <1>2, <1>3, <1>4, <1>5

\* A finite set and one it is a proper part of.
LEMMA GrowsByOne ==
    ASSUME NEW n \in Nat, NEW B \in SUBSET (1..n), NEW A \in SUBSET B
    PROVE  /\ Cardinality(A) \in Nat /\ Cardinality(B) \in Nat
           /\ Cardinality(A) <= Cardinality(B) /\ Cardinality(B) <= n
           /\ A # B => Cardinality(A) + 1 <= Cardinality(B)
           /\ Cardinality(B) >= n => B = 1..n
  <1>1. IsFiniteSet(1..n) /\ Cardinality(1..n) = n  BY FS_Interval
  <1>2. /\ IsFiniteSet(B) /\ Cardinality(B) <= n
        /\ n = Cardinality(B) => B = 1..n
    BY <1>1, FS_Subset
  <1>3. /\ IsFiniteSet(A) /\ Cardinality(A) <= Cardinality(B)
        /\ Cardinality(B) = Cardinality(A) => B = A
    BY <1>2, FS_Subset
  <1>4. Cardinality(A) \in Nat /\ Cardinality(B) \in Nat  BY <1>2, <1>3, FS_CardinalityType
  <1> QED  BY <1>2, <1>3, <1>4

\* A round that is about to begin: either there is nothing to add, or an entry
\* it comes to adds something.
LEMMA RoundBegins ==
    ASSUME Count \in Nat, NEW S \in SUBSET (1..Count), NEW r \in 0..Count,
           Cardinality(S) >= Count - r
    PROVE  Growing(S, r, 1)
  <1>1. \A i \in S : i >= 1  OBVIOUS
  <1>2. ASSUME ~Plan!Closed(S)  PROVE \E i \in S : i >= 1 /\ ~(Wanted(i) \subseteq S)
    <2>1. \E i \in S : ~(Wanted(i) \subseteq S)
      BY <1>2, Zenon DEF Plan!Closed, Wanted, Plan!entries
    <2> QED  BY <1>1, <2>1
  <1> QED  BY <1>2 DEF Growing

\* One visit of a round.
LEMMA VisitGrows ==
    ASSUME Count \in Nat, \A i \in 1..Count : Wanted(i) \subseteq 1..Count,
           NEW S \in SUBSET (1..Count), NEW r \in 1..Count, NEW v \in 1..Count,
           Growing(S, r, v), NEW T, T = IF v \in S THEN S \cup Wanted(v) ELSE S
    PROVE  /\ T \in SUBSET (1..Count)
           /\ v = Count => Growing(T, r - 1, 1)
           /\ v # Count => Growing(T, r, v + 1)
  <1>1. T \in SUBSET (1..Count) /\ S \subseteq T  OBVIOUS
  <1>2. /\ Cardinality(S) \in Nat /\ Cardinality(T) \in Nat /\ Cardinality(S) <= Cardinality(T)
        /\ S # T => Cardinality(S) + 1 <= Cardinality(T)
    BY <1>1, GrowsByOne
  <1>3. CASE Plan!Closed(S)
    <2>1. T = S  BY <1>3 DEF Plan!Closed, Wanted, Plan!entries
    <2>2. Growing(S, r - 1, 1)  BY <1>3 DEF Growing
    <2>3. v # Count => Growing(S, r, v + 1)  BY <1>3 DEF Growing
    <2> QED  BY <1>1, <2>1, <2>2, <2>3
  <1>4. CASE Cardinality(T) > Count - r
    <2>1. v = Count => Growing(T, r - 1, 1)  BY <1>1, <1>2, <1>4, RoundBegins
    <2>2. v # Count => Growing(T, r, v + 1)  BY <1>4 DEF Growing
    <2> QED  BY <1>1, <2>1, <2>2
  <1>5. CASE ~Plan!Closed(S) /\ ~(Cardinality(T) > Count - r)
    <2>1. S = T /\ ~(Cardinality(S) > Count - r)  BY <1>2, <1>5 DEF Growing
    <2>2. PICK i \in S : i >= v /\ ~(Wanted(i) \subseteq S)  BY <1>5, <2>1 DEF Growing
    <2>3. i # v  BY <2>1, <2>2
    <2>4. i >= v + 1 /\ v # Count  BY <2>2, <2>3
    <2> QED  BY <1>1, <1>5, <2>1, <2>2, <2>4 DEF Growing
  <1> QED  BY <1>3, <1>4, <1>5

\* With no round left there is nothing to add.
LEMMA RoundsSuffice ==
    ASSUME Count \in Nat, \A i \in 1..Count : Wanted(i) \subseteq 1..Count,
           NEW S \in SUBSET (1..Count), NEW v, Growing(S, 0, v)
    PROVE  Plan!Closed(S)
  <1>1. SUFFICES ASSUME ~Plan!Closed(S)  PROVE FALSE
    OBVIOUS
  <1>2. Cardinality(S) \in Nat /\ Cardinality(S) <= Count /\ (Cardinality(S) >= Count => S = 1..Count)
    BY GrowsByOne
  <1>3. S = 1..Count  BY <1>1, <1>2 DEF Growing
  <1> QED  BY <1>1, <1>3 DEF Plan!Closed, Wanted, Plan!entries

LEMMA CombineRight ==
    ASSUME Plan!ConfigsWellFormed, PlanInv, Plan!Combine  PROVE PlanInv'
  <1>1. /\ UNCHANGED <<config, profile, visit, remaining, order, owed, pending>>
        /\ stage = "combine" /\ order = <<>>
    BY DEF Plan!Combine, PlanInv
  <1>2. config \in Configs /\ profile \in {"quick", "full"}  BY DEF PlanInv
  <1>3. Plan!Valid' = Plan!Valid /\ Plan!Reachable' = Plan!Reachable /\ Plan!Selected' = Plan!Selected
        /\ Count' = Count /\ Plan!entries' = Plan!entries
    BY <1>1, LayoutStays
  <1>4. Plan!OrderIsSchedule'  BY <1>1 DEF Plan!OrderIsSchedule
  <1>5. CASE ~Plan!Valid
    <2>1. stage' = "bail"  BY <1>5 DEF Plan!Combine
    <2> QED
      BY <1>1, <1>2, <1>3, <1>4, <1>5, <2>1
      DEF PlanInv, Planned, Plan!NothingForgotten, Plan!RunsWhatIsReached
  <1>6. CASE Plan!Valid
    <2>1. stage' = "close" /\ needed' = Plan!Selected /\ round' = Count
      BY <1>6 DEF Plan!Combine, Count, Plan!entries
    <2>2. Planned'
      BY <1>4, <2>1 DEF Planned, Plan!NothingForgotten, Plan!RunsWhatIsReached
    <2>3. Plan!Selected \subseteq Plan!Reachable
      BY <1>2, LayoutFacts DEF Plan!Reachable
    <2>4. Growing(Plan!Selected, Count, 1)
      <3>1. Count \in Nat /\ Plan!Selected \in SUBSET (1..Count)  BY <1>2, LayoutFacts
      <3>2. Cardinality(Plan!Selected) \in Nat  BY <3>1, GrowsByOne
      <3> QED  BY <3>1, <3>2, RoundBegins
    <2>5. Growing(needed, round, visit)'
      BY <1>1, <1>3, <2>1, <2>4 DEF Growing, Plan!Closed, Wanted, PlanInv, Plan!entries
    <2> QED  BY <1>1, <1>2, <1>3, <1>6, <2>1, <2>2, <2>3, <2>5 DEF PlanInv, Gathering
  <1> QED  BY <1>5, <1>6

LEMMA CloseRight ==
    ASSUME Plan!ConfigsWellFormed, PlanInv, Plan!Close  PROVE PlanInv'
  <1>1. /\ UNCHANGED <<config, profile, stage, remaining, order, owed, pending>>
        /\ stage = "close" /\ round > 0 /\ order = <<>> /\ Gathering
        /\ needed' = IF visit \in needed THEN needed \cup Wanted(visit) ELSE needed
        /\ visit' = IF visit = Count THEN 1 ELSE visit + 1
        /\ round' = IF visit = Count THEN round - 1 ELSE round
    BY DEF Plan!Close, Plan!Gather, PlanInv, Wanted, Count, Plan!entries
  <1>2. config \in Configs /\ profile \in {"quick", "full"}  BY DEF PlanInv
  <1>3. Plan!Valid' = Plan!Valid /\ Plan!Reachable' = Plan!Reachable /\ Plan!Selected' = Plan!Selected
        /\ Count' = Count /\ Plan!entries' = Plan!entries
    BY <1>1, LayoutStays
  <1>4. Planned'
    BY <1>1 DEF Planned, Plan!OrderIsSchedule, Plan!NothingForgotten, Plan!RunsWhatIsReached
  <1>5. /\ Count \in Nat /\ \A i \in 1..Count : Wanted(i) \subseteq 1..Count
        /\ needed \in SUBSET (1..Count) /\ Plan!All = 1..Count
    BY <1>1, <1>2, LayoutFacts DEF Gathering
  <1>6. needed' \subseteq Plan!Reachable
    <2>1. CASE visit \notin needed  BY <1>1, <2>1 DEF Gathering
    <2>2. CASE visit \in needed
      <3>1. visit \in Plan!Reachable  BY <1>1, <2>2 DEF Gathering
      <3>2. Wanted(visit) \subseteq Plan!Reachable
        BY <1>5, <2>2, <3>1 DEF Plan!Reachable, Plan!Closed, Wanted, Plan!entries
      <3> QED  BY <1>1, <2>2, <3>2 DEF Gathering
    <2> QED  BY <2>1, <2>2
  <1>7. round \in 1..Count /\ visit \in 1..Count  BY <1>1, <1>5 DEF Gathering, Growing
  <1>8. Growing(needed', round', visit')
    <2>1. Growing(needed, round, visit)  BY <1>1 DEF Gathering
    <2> QED  BY <1>1, <1>5, <1>7, <2>1, VisitGrows
  <1>9. Growing(needed, round, visit)'
    BY <1>3, <1>8 DEF Growing, Plan!Closed, Wanted, Plan!entries
  <1> QED  BY <1>1, <1>2, <1>3, <1>4, <1>6, <1>9 DEF PlanInv, Gathering

LEMMA StartOrderRight ==
    ASSUME Plan!ConfigsWellFormed, PlanInv, Plan!StartOrder  PROVE PlanInv'
  <1>1. /\ UNCHANGED <<config, profile, needed, order>> /\ stage = "close" /\ round = 0
        /\ stage' = "order" /\ remaining' = {i \in needed : Plan!Enabled(i)}
        /\ order = <<>> /\ Gathering
    BY DEF Plan!StartOrder, PlanInv
  <1>2. config \in Configs /\ profile \in {"quick", "full"} /\ Plan!Valid  BY <1>1 DEF PlanInv
  <1>3. Plan!Valid' = Plan!Valid /\ Plan!Reachable' = Plan!Reachable /\ Plan!Selected' = Plan!Selected
        /\ Plan!All' = Plan!All /\ Plan!entries' = Plan!entries
    BY <1>1, LayoutStays
  <1>4. Planned'
    BY <1>1 DEF Planned, Plan!OrderIsSchedule, Plan!NothingForgotten, Plan!RunsWhatIsReached
  <1>5. /\ Count \in Nat /\ \A i \in 1..Count : Wanted(i) \subseteq 1..Count
        /\ needed \in SUBSET (1..Count) /\ Plan!All = 1..Count
    BY <1>1, <1>2, LayoutFacts DEF Gathering
  <1>6. Plan!Closed(needed)
    <2>1. Growing(needed, 0, visit)  BY <1>1 DEF Gathering
    <2> QED  BY <1>5, <2>1, RoundsSuffice
  <1>7. needed = Plan!Reachable /\ Plan!Selected \subseteq needed
    BY <1>1, <1>5, <1>6 DEF Gathering, Plan!Reachable
  <1>8. Plan!Closed(needed)'  BY <1>1, <1>3, <1>6 DEF Plan!Closed
  <1>9. Plan!Ordered' = {} /\ order' \in Seq(Plan!All)'  BY <1>1 DEF Plan!Ordered, Plan!Range
  <1>10. (remaining \cup Plan!Ordered)' = {i \in needed : Plan!Enabled(i)}'
    BY <1>1, <1>3, <1>9 DEF Plan!Enabled
  <1>11. Ordering'  BY <1>1, <1>3, <1>7, <1>8, <1>9, <1>10 DEF Ordering
  <1> QED  BY <1>1, <1>2, <1>3, <1>4, <1>11 DEF PlanInv

\* What an entry appended to an order changes.
LEMMA Appended ==
    ASSUME NEW S, NEW s \in Seq(S), NEW e
    PROVE  LET t == Append(s, e) IN
           /\ Len(s) \in Nat /\ DOMAIN s = 1..Len(s) /\ DOMAIN t = 1..(Len(s) + 1)
           /\ t[Len(s) + 1] = e /\ \A k \in 1..Len(s) : t[k] = s[k]
           /\ Plan!Range(t) = Plan!Range(s) \cup {e}
  <1> DEFINE t == Append(s, e)
  <1>1. s \in Seq(S \cup {e})  OBVIOUS
  <1>2. /\ Len(s) \in Nat /\ DOMAIN s = 1..Len(s) /\ DOMAIN t = 1..(Len(s) + 1)
        /\ t[Len(s) + 1] = e /\ \A k \in 1..Len(s) : t[k] = s[k]
    BY <1>1
  <1> HIDE DEF t
  <1>3. Plan!Range(t) = Plan!Range(s) \cup {e}  BY <1>2 DEF Plan!Range
  <1> QED  BY <1>2, <1>3 DEF t

LEMMA PlaceRight ==
    ASSUME Plan!ConfigsWellFormed, PlanInv, Plan!Place  PROVE PlanInv'
  <1>1. PICK i \in Plan!Ready : order' = Append(order, i) /\ remaining' = remaining \ {i}
    BY DEF Plan!Place
  <1>2. /\ UNCHANGED <<config, profile, stage, needed, round, visit, owed, pending>>
        /\ stage = "order" /\ Ordering /\ Plan!OrderIsSchedule
        /\ config \in Configs /\ profile \in {"quick", "full"} /\ Plan!Valid
    BY DEF Plan!Place, PlanInv, Planned
  <1>3. Plan!Valid' = Plan!Valid /\ Plan!Reachable' = Plan!Reachable /\ Plan!Selected' = Plan!Selected
        /\ Plan!All' = Plan!All /\ Plan!entries' = Plan!entries
    BY <1>2, LayoutStays
  <1>4. /\ i \in remaining /\ Wanted(i) \subseteq Plan!Ordered /\ i \notin Plan!Ordered
        /\ Plan!Enabled(i) /\ i \in needed /\ needed \subseteq Plan!All
    BY <1>1, <1>2, LayoutFacts DEF Plan!Ready, Ordering, Wanted, Plan!entries
  <1>5. order \in Seq(Plan!All)  BY <1>2 DEF Ordering
  <1>6. /\ Len(order) \in Nat /\ DOMAIN order = 1..Len(order)
        /\ DOMAIN order' = 1..(Len(order) + 1)
        /\ order'[Len(order) + 1] = i /\ \A k \in 1..Len(order) : order'[k] = order[k]
        /\ Plan!Range(order') = Plan!Range(order) \cup {i}
    BY <1>1, <1>5, Appended
  <1>7. order' \in Seq(Plan!All)  BY <1>1, <1>4, <1>5
  <1>8. Plan!Ordered' = Plan!Ordered \cup {i}  BY <1>6 DEF Plan!Ordered
  <1>9. Ordering'
    <2>1. Plan!Closed(needed)'  BY <1>2, <1>3 DEF Plan!Closed, Ordering
    <2>2. remaining' \cap Plan!Ordered' = {}  BY <1>1, <1>2, <1>8 DEF Ordering
    <2>3. remaining' \cup Plan!Ordered' = {j \in needed : Plan!Enabled(j)}
      BY <1>1, <1>2, <1>4, <1>8 DEF Ordering
    <2>4. {j \in needed : Plan!Enabled(j)}' = {j \in needed : Plan!Enabled(j)}
      BY <1>2, <1>3 DEF Plan!Enabled
    <2> QED  BY <1>2, <1>3, <1>7, <2>1, <2>2, <2>3, <2>4 DEF Ordering
  <1>10. Plan!OrderIsSchedule'
    <2> SUFFICES ASSUME NEW k \in DOMAIN order', order'[k] # ConstraintCoverage
                 PROVE  /\ Plan!Enabled(order'[k])
                        /\ \A j \in Wanted(order'[k]) : \E m \in 1..(k - 1) : order'[m] = j
                        /\ \A m \in 1..(k - 1) : order'[m] # order'[k]
      BY <1>3 DEF Plan!OrderIsSchedule, Plan!Enabled, Wanted, Plan!entries
    <2>1. CASE k \in 1..Len(order)
      <3>1. order'[k] = order[k] /\ \A m \in 1..(k - 1) : order'[m] = order[m]
        BY <1>6, <2>1
      <3>2. /\ Plan!Enabled(order[k])
            /\ \A j \in Wanted(order[k]) : \E m \in 1..(k - 1) : order[m] = j
            /\ \A m \in 1..(k - 1) : order[m] # order[k]
        BY <1>2, <1>6, <2>1, <3>1 DEF Plan!OrderIsSchedule, Wanted, Plan!entries
      <3> QED  BY <3>1, <3>2
    <2>2. CASE k = Len(order) + 1
      <3>1. order'[k] = i /\ \A m \in 1..(k - 1) : order'[m] = order[m] /\ m \in DOMAIN order
        BY <1>6, <2>2
      <3>2. Plan!Ordered = {order[m] : m \in 1..(k - 1)}
        BY <1>6, <2>2 DEF Plan!Ordered, Plan!Range
      <3> QED  BY <1>4, <3>1, <3>2
    <2> QED  BY <1>6, <2>1, <2>2
  <1>11. Planned'
    BY <1>2, <1>10 DEF Planned, Plan!NothingForgotten, Plan!RunsWhatIsReached
  <1> QED  BY <1>2, <1>3, <1>9, <1>11 DEF PlanInv

\* In no set of entries does each wait for another, so the first of those that
\* remain waits for one that is not there at all.
LEMMA StuckRight ==
    ASSUME Plan!ConfigsWellFormed, PlanInv, Plan!Stuck  PROVE PlanInv'
  <1>1. /\ UNCHANGED <<config, profile, needed, round, visit, remaining, order, owed, pending>>
        /\ stage = "order" /\ Ordering /\ Plan!OrderIsSchedule /\ stage' = "bail"
        /\ config \in Configs /\ profile \in {"quick", "full"} /\ Plan!Valid
    BY DEF Plan!Stuck, PlanInv, Planned
  <1>2. Plan!Valid' = Plan!Valid /\ Plan!Reachable' = Plan!Reachable /\ Plan!entries' = Plan!entries
    BY <1>1, LayoutStays
  <1>3. remaining \in (SUBSET Plan!All) \ {{}}
    <2>1. needed \subseteq Plan!All  BY <1>1, LayoutFacts DEF Ordering
    <2>2. remaining \subseteq needed  BY <1>1 DEF Ordering
    <2> QED  BY <2>1, <2>2 DEF Plan!Stuck
  <1>4. PICK i \in remaining : Wanted(i) \cap remaining = {}
    BY <1>1, <1>3 DEF Plan!Valid, Plan!Acyclic, Wanted, Plan!entries
  <1>5. ~(Wanted(i) \subseteq Plan!Ordered)
    BY <1>4 DEF Plan!Stuck, Plan!Ready, Wanted, Plan!entries
  <1>6. PICK j \in Wanted(i) : j \notin Plan!Ordered  BY <1>5
  <1>7. i \in needed /\ Plan!Enabled(i)  BY <1>1, <1>4 DEF Ordering
  <1>8. j \in needed  BY <1>1, <1>7 DEF Ordering, Plan!Closed, Wanted, Plan!entries
  <1>9. ~Plan!Enabled(j)  BY <1>1, <1>4, <1>6, <1>8 DEF Ordering
  <1>10. i \in Plan!Reachable  BY <1>1, <1>7 DEF Ordering
  <1>11. Plan!RunsWhatIsReached'
    <2>1. Plan!Enabled(i)' /\ ~Plan!Enabled(j)' /\ j \in Plan!entries'[i].dependsOn
      BY <1>2, <1>6, <1>7, <1>9 DEF Plan!Enabled, Wanted, Plan!entries
    <2> QED  BY <1>1, <1>2, <1>10, <2>1 DEF Plan!RunsWhatIsReached
  <1>12. Plan!OrderIsSchedule'
    BY <1>1, <1>2 DEF Plan!OrderIsSchedule, Plan!Enabled, Plan!entries
  <1> QED
    BY <1>1, <1>2, <1>11, <1>12 DEF PlanInv, Planned, Plan!NothingForgotten

LEMMA FinishRight ==
    ASSUME Plan!ConfigsWellFormed, PlanInv, Plan!Finish  PROVE PlanInv'
  <1>1. PICK constraints \in {"none", "optional", "required"} :
          /\ order' = IF constraints = "none" THEN order ELSE Append(order, ConstraintCoverage)
          /\ owed' = (Plan!AllRequired \cap Plan!Ordered)
                       \cup (IF constraints = "required" THEN {ConstraintCoverage} ELSE {})
    BY DEF Plan!Finish
  <1>2. /\ UNCHANGED <<config, profile, needed, round, visit, remaining>>
        /\ stage = "order" /\ Ordering /\ Plan!OrderIsSchedule /\ remaining = {}
        /\ stage' = "done" /\ pending' = Plan!AllRequired \ Plan!Ordered
        /\ config \in Configs /\ profile \in {"quick", "full"} /\ Plan!Valid
    BY DEF Plan!Finish, PlanInv, Planned
  <1>3. /\ Plan!Reachable' = Plan!Reachable /\ Plan!entries' = Plan!entries
        /\ Plan!AllRequired' = Plan!AllRequired
    BY <1>2, LayoutStays
  <1>4. /\ Plan!Ordered = {i \in Plan!Reachable : Plan!Enabled(i)}
        /\ Plan!Selected \subseteq Plan!Reachable /\ order \in Seq(Plan!All)
    BY <1>2 DEF Ordering
  <1>5. /\ ConstraintCoverage \notin Plan!AllRequired /\ ConstraintCoverage \notin Plan!Ordered
        /\ profile = "full" => Plan!AllRequired \subseteq Plan!Selected
    BY <1>2, <1>4, LayoutFacts
  <1>6. \A i \in Plan!AllRequired : Plan!Enabled(i)  BY DEF Plan!AllRequired
  <1>7. /\ Len(order) \in Nat /\ DOMAIN order = 1..Len(order)
        /\ constraints # "none" =>
             /\ DOMAIN order' = 1..(Len(order) + 1)
             /\ order'[Len(order) + 1] = ConstraintCoverage
             /\ \A k \in 1..Len(order) : order'[k] = order[k]
             /\ Plan!Range(order') = Plan!Range(order) \cup {ConstraintCoverage}
    BY <1>1, <1>4, Appended
  <1>8. Plan!Ordered' = Plan!Ordered \cup (IF constraints = "none" THEN {} ELSE {ConstraintCoverage})
    BY <1>1, <1>7 DEF Plan!Ordered
  <1>9. Plan!NothingForgotten'
    <2>1. owed' \subseteq Plan!Ordered'  BY <1>1, <1>8
    <2>2. profile = "full" => pending' = {}  BY <1>2, <1>4, <1>5, <1>6
    <2>3. (owed' \ {ConstraintCoverage}) \cup pending' = Plan!AllRequired /\ owed' \cap pending' = {}
      BY <1>1, <1>2, <1>5
    <2> QED  BY <1>2, <1>3, <2>1, <2>2, <2>3 DEF Plan!NothingForgotten
  <1>10. Plan!RunsWhatIsReached'
    <2>1. Plan!Ordered' \ {ConstraintCoverage} = {i \in Plan!Reachable : Plan!Enabled(i)}
      BY <1>4, <1>5, <1>8
    <2>2. {i \in Plan!Reachable : Plan!Enabled(i)}' = {i \in Plan!Reachable : Plan!Enabled(i)}
      BY <1>3 DEF Plan!Enabled
    <2> QED  BY <1>2, <2>1, <2>2 DEF Plan!RunsWhatIsReached
  <1>11. Plan!OrderIsSchedule'
    <2> SUFFICES ASSUME NEW k \in DOMAIN order', order'[k] # ConstraintCoverage
                 PROVE  /\ Plan!Enabled(order'[k])
                        /\ \A j \in Wanted(order'[k]) : \E m \in 1..(k - 1) : order'[m] = j
                        /\ \A m \in 1..(k - 1) : order'[m] # order'[k]
      BY <1>3 DEF Plan!OrderIsSchedule, Plan!Enabled, Wanted, Plan!entries
    <2>1. k \in 1..Len(order) /\ order'[k] = order[k]
      BY <1>1, <1>7
    <2>2. \A m \in 1..(k - 1) : order'[m] = order[m]  BY <1>1, <1>7, <2>1
    <2> QED
      BY <1>2, <1>7, <2>1, <2>2 DEF Plan!OrderIsSchedule, Wanted, Plan!entries
  <1> QED  BY <1>2, <1>9, <1>10, <1>11 DEF PlanInv, Planned

LEMMA PlanStep ==
    ASSUME Plan!ConfigsWellFormed, PlanInv, [Plan!Next]_(Plan!vars)  PROVE PlanInv'
  <1>1. CASE Plan!Ended \/ UNCHANGED Plan!vars
    <2>1. UNCHANGED <<config, profile, stage, needed, round, visit, remaining, order, owed, pending>>
      BY <1>1 DEF Plan!Ended, Plan!vars
    <2>2. /\ Plan!Valid' = Plan!Valid /\ Plan!Reachable' = Plan!Reachable
          /\ Plan!Selected' = Plan!Selected /\ Plan!AllRequired' = Plan!AllRequired
          /\ Plan!All' = Plan!All /\ Plan!entries' = Plan!entries /\ Count' = Count
      BY <2>1, LayoutStays
    <2>3. Plan!Ordered' = Plan!Ordered /\ (\A i : Plan!Enabled(i)' = Plan!Enabled(i))
      BY <2>1, <2>2 DEF Plan!Ordered, Plan!Enabled
    <2>4. Planned'
      BY <2>1, <2>2, <2>3 DEF PlanInv, Planned, Plan!OrderIsSchedule, Plan!NothingForgotten,
                              Plan!RunsWhatIsReached
    <2>5. Gathering' = Gathering /\ Ordering' = Ordering
      BY <2>1, <2>2, <2>3 DEF Gathering, Growing, Ordering, Plan!Closed, Wanted, Plan!entries
    <2> QED  BY <2>1, <2>2, <2>4, <2>5 DEF PlanInv
  <1> QED
    BY <1>1, CombineRight, CloseRight, StartOrderRight, PlaceRight, StuckRight, FinishRight
    DEF Plan!Next

\* Each stage of planning keeps what the plan rests on.
LEMMA PlanInductive == ASSUME Plan!ConfigsWellFormed  PROVE Plan!Spec => []PlanInv
  <1>1. Plan!Init => PlanInv
    BY DEF Plan!Init, PlanInv, Planned, Plan!OrderIsSchedule, Plan!NothingForgotten,
           Plan!RunsWhatIsReached
  <1>2. PlanInv /\ [Plan!Next]_(Plan!vars) => PlanInv'  BY PlanStep
  <1> QED  BY <1>1, <1>2, PTL DEF Plan!Spec

\* However many entries a configuration has, the order runs no disabled rule,
\* nothing twice, and every prerequisite before its dependents (config/plan.rs).
THEOREM OrderIsRight ==
    ASSUME Plan!ConfigsWellFormed  PROVE Plan!Spec => []Plan!OrderIsSchedule
  <1>1. PlanInv => Plan!OrderIsSchedule  BY DEF PlanInv, Planned
  <1> QED  BY <1>1, PlanInductive, PTL

\* Each required check is required of this run or listed as pending, and a full
\* run leaves none pending (config/plan.rs).
THEOREM NothingLost ==
    ASSUME Plan!ConfigsWellFormed  PROVE Plan!Spec => []Plan!NothingForgotten
  <1>1. PlanInv => Plan!NothingForgotten  BY DEF PlanInv, Planned
  <1> QED  BY <1>1, PlanInductive, PTL

\* The rounds of the closure suffice for every chain of prerequisites: the plan
\* runs exactly the enabled entries the selection reaches, and is refused only
\* when one of them reaches a disabled rule (config/plan.rs).
THEOREM ReachIsRun ==
    ASSUME Plan!ConfigsWellFormed  PROVE Plan!Spec => []Plan!RunsWhatIsReached
  <1>1. PlanInv => Plan!RunsWhatIsReached  BY DEF PlanInv, Planned
  <1> QED  BY <1>1, PlanInductive, PTL

-----------------------------------------------------------------------------
(* The judgment, for every report, policy and answer, any edits of its files *)
(* and any passing of time.                                                  *)

JudgmentFields ==
    {"phase", "seen", "used", "current", "warning", "started", "answer", "outcome"}

\* The files whose version is noted when a phase begins, and those looked at
\* again since the answer.
Noted(p) ==
    CASE p = "begin" -> {}
      [] p = "parse" -> {"report"}
      [] p = "select" -> {"report", "policy"}
      [] p = "identify" -> {"report", "policy", "input"}
      [] OTHER -> Judge!Names

Rechecking == {"provider", "report", "policy", "input", "validate"}

Rechecked(p) ==
    CASE p = "report" -> {"provider"}
      [] p = "policy" -> {"provider", "report"}
      [] p = "input" -> {"provider", "report", "policy"}
      [] p = "validate" -> Judge!Names
      [] OTHER -> {}

\* Versions only grow, so what is noted is no later than what is there.
SeenBefore ==
    \A f \in Noted(run.phase) :
        f \in DOMAIN run.seen /\ run.seen[f] \in Nat /\ run.seen[f] <= files[f]

\* What the provider was given lies between the two.
UsedBetween ==
    /\ DOMAIN run.used = {"input", "provider"}
    /\ \A f \in {"input", "provider"} :
         run.used[f] \in Nat /\ run.seen[f] <= run.used[f] /\ run.used[f] <= files[f]

\* A file that was another when the answer came never is the noted one again.
CurrentThen ==
    /\ run.current \subseteq Judge!Names
    /\ \A f \in Judge!Names \ run.current : run.seen[f] < files[f]

\* A file that is found unchanged after the answer was unchanged all along.
Unchanged(S) ==
    S \subseteq run.current /\ \A f \in S \cap {"input", "provider"} : run.used[f] = run.seen[f]

BoundAnswer ==
    /\ DOMAIN run.used = {"input", "provider"} /\ Unchanged(Judge!Names) /\ run.current = Judge!Names
    /\ Judge!AnswerValid(run.answer, given.policy, Judge!Context)

\* What a decision says of itself.
Told ==
    /\ run.outcome.route = Judge!RouteOf(given.policy, run.answer)
    /\ run.outcome.gate = given.report.decision
    /\ run.outcome.complete = (run.answer.kind # "gap")

JudgmentInv ==
    /\ files \in [Judge!Names -> Nat] /\ now \in Nat
    /\ given.policy \in Policies
    /\ DOMAIN run = JudgmentFields
    /\ run.phase \notin {"begin", "parse", "select", "refused"} => run.started \in Nat
    /\ run.phase \notin {"begin", "refused"} => given.report.decision # "incomplete"
    /\ run.phase # "recorded" => run.outcome = None
    /\ run.phase \in {"begin", "parse", "select", "identify", "ask", "answer"} \cup Rechecking =>
           SeenBefore
    /\ run.phase \in Rechecking \cup {"answer"} => UsedBetween
    /\ run.phase \in Rechecking => CurrentThen /\ Unchanged(Rechecked(run.phase))
    /\ run.phase \in {"conclude", "recorded"} /\ run.answer.kind # "gap" => BoundAnswer
    /\ run.phase = "recorded" => Told

\* The order in which the files are looked at again.
LEMMA AfterEach ==
    /\ Judge!After("provider") = "report" /\ Judge!After("report") = "policy"
    /\ Judge!After("policy") = "input" /\ Judge!After("input") = "validate"
  <1>1. /\ Judge!Order[1] = "provider" /\ Judge!Order[2] = "report"
        /\ Judge!Order[3] = "policy" /\ Judge!Order[4] = "input" /\ Len(Judge!Order) = 4
    BY DEF Judge!Order
  <1>2. Judge!Order[4] = "input"  BY <1>1
  <1> DEFINE step(f) == CHOOSE i \in 2..4 : Judge!Order[i-1] = f
  <1>3. step("provider") = 2  BY <1>1
  <1>4. step("report") = 3  BY <1>1
  <1>5. step("policy") = 4  BY <1>1
  <1> QED  BY <1>1, <1>2, <1>3, <1>4, <1>5 DEF Judge!After

\* A command that ends early leaves no decision.
LEMMA RefuseRight ==
    ASSUME JudgmentInv, Judge!Refuse, UNCHANGED <<files, now, given>>, run.phase # "recorded"
    PROVE  JudgmentInv'
  <1>1. /\ DOMAIN run' = JudgmentFields /\ run'.phase = "refused" /\ run'.outcome = run.outcome
    BY DEF Judge!Refuse, Judge!Goto, JudgmentInv, JudgmentFields
  <1> QED  BY <1>1 DEF JudgmentInv, Rechecking

\* A file that is read is noted at its version.
LEMMA NoteRight ==
    ASSUME JudgmentInv, SeenBefore, UNCHANGED files, NEW f \in Judge!Names,
           run'.seen = Judge!Note(f), Noted(run'.phase) = Noted(run.phase) \cup {f}
    PROVE  SeenBefore'
  <1>1. /\ DOMAIN run'.seen = DOMAIN run.seen \cup {f} /\ run'.seen[f] = files[f]
        /\ \A g \in DOMAIN run.seen \ {f} : run'.seen[g] = run.seen[g]
    BY DEF Judge!Note
  <1>2. files[f] \in Nat  BY DEF JudgmentInv
  <1> QED  BY <1>1, <1>2 DEF SeenBefore

LEMMA ReadsRight ==
    ASSUME JudgmentInv, Judge!ReadReport \/ Judge!ReadPolicy \/ Judge!ReadInput  PROVE JudgmentInv'
  <1>1. CASE Judge!Refuse
    BY <1>1, RefuseRight DEF Judge!ReadReport, Judge!ReadPolicy, Judge!ReadInput
  <1> DEFINE read(from, to, f) ==
        /\ run.phase = from /\ DOMAIN run' = JudgmentFields /\ run'.phase = to
        /\ run'.seen = Judge!Note(f) /\ run'.outcome = run.outcome
        /\ UNCHANGED <<files, now, given>> /\ given.report.decision # "incomplete"
        /\ run'.started = IF to = "identify" THEN now ELSE run.started
  <1>2. CASE ~Judge!Refuse
    <2>1. \/ read("begin", "parse", "report") \/ read("parse", "select", "policy")
          \/ read("select", "identify", "input")
      BY <1>2 DEF Judge!ReadReport, Judge!ReadPolicy, Judge!ReadInput, JudgmentInv, JudgmentFields
    <2> HIDE DEF read
    <2>2. ASSUME NEW from, NEW to, NEW f \in Judge!Names, read(from, to, f),
                 from \in {"begin", "parse", "select"}, to \in {"parse", "select", "identify"},
                 Noted(to) = Noted(from) \cup {f}
          PROVE  JudgmentInv'
      <3>1. SeenBefore'
        BY <2>2, NoteRight DEF read, JudgmentInv
      <3> QED  BY <2>2, <3>1 DEF read, JudgmentInv, Rechecking
    <2>3. /\ Noted("parse") = Noted("begin") \cup {"report"}
          /\ Noted("select") = Noted("parse") \cup {"policy"}
          /\ Noted("identify") = Noted("select") \cup {"input"}
      BY DEF Noted
    <2> QED  BY <2>1, <2>2, <2>3 DEF Judge!Names
  <1> QED  BY <1>1, <1>2

LEMMA GapRight ==
    ASSUME JudgmentInv, Judge!Conclude(Judge!Gap), UNCHANGED <<files, now, given>>,
           run.phase \in {"identify", "ask", "answer"} \cup Rechecking
    PROVE  JudgmentInv'
  <1>1. run' = [run EXCEPT !.phase = "conclude", !.answer = [kind |-> "gap"]]
    BY DEF Judge!Conclude, Judge!Gap
  <1> QED
    BY <1>1 DEF JudgmentInv, JudgmentFields, Rechecking

LEMMA AskRight ==
    ASSUME JudgmentInv, Judge!Identify \/ Judge!Ask  PROVE JudgmentInv'
  <1>1. CASE Judge!Identify /\ ~Judge!Conclude(Judge!Gap)
    <2>1. /\ run.phase = "identify" /\ UNCHANGED <<files, now, given>>
          /\ DOMAIN run' = JudgmentFields /\ run'.phase = "ask" /\ run'.seen = Judge!Note("provider")
          /\ run'.outcome = run.outcome /\ run'.started = run.started
      BY <1>1 DEF Judge!Identify, JudgmentInv, JudgmentFields
    <2>2. Noted("ask") = Noted("identify") \cup {"provider"}  BY DEF Noted, Judge!Names
    <2>3. SeenBefore'
      BY <2>1, <2>2, NoteRight DEF JudgmentInv, Judge!Names
    <2> QED  BY <2>1, <2>3 DEF JudgmentInv, Rechecking
  <1>2. CASE Judge!Ask
    <2>1. SeenBefore /\ run.phase = "ask" /\ Noted("ask") = Judge!Names
      BY <1>2 DEF Judge!Ask, JudgmentInv, Noted
    <2> QED
      BY <1>2, <2>1 DEF Judge!Ask, JudgmentInv, SeenBefore, UsedBetween, Noted, Rechecking,
                  JudgmentFields, Judge!Names
  <1>3. CASE Judge!Identify /\ Judge!Conclude(Judge!Gap)
    BY <1>3, GapRight DEF Judge!Identify
  <1> QED  BY <1>1, <1>2, <1>3

LEMMA AnswerRight == ASSUME JudgmentInv, Judge!Answer  PROVE JudgmentInv'
  <1>1. CASE Judge!Conclude(Judge!Gap)  BY <1>1, GapRight DEF Judge!Answer
  <1>2. CASE ~Judge!Conclude(Judge!Gap)
    <2>1. PICK a \in Answers :
            run' = [run EXCEPT !.phase = "provider", !.answer = a,
                               !.current = {f \in Judge!Names : files[f] = run.seen[f]}]
      BY <1>2 DEF Judge!Answer
    <2>2. /\ run.phase = "answer" /\ UNCHANGED <<files, now, given>>
          /\ SeenBefore /\ UsedBetween /\ Noted("answer") = Judge!Names /\ Noted("provider") = Judge!Names
          /\ Rechecked("provider") = {} /\ DOMAIN run = JudgmentFields
      BY DEF Judge!Answer, JudgmentInv, Noted, Rechecked
    <2>3. /\ DOMAIN run' = JudgmentFields /\ run'.phase = "provider" /\ run'.seen = run.seen
          /\ run'.used = run.used /\ run'.started = run.started /\ run'.outcome = run.outcome
          /\ run'.current = {f \in Judge!Names : files[f] = run.seen[f]}
      BY <2>1, <2>2 DEF JudgmentFields
    <2>4. SeenBefore'  BY <2>2, <2>3 DEF SeenBefore
    <2>5. UsedBetween'  BY <2>2, <2>3 DEF UsedBetween
    <2>6. CurrentThen'
      <3>1. \A f \in Judge!Names : run.seen[f] \in Nat /\ run.seen[f] <= files[f] /\ files[f] \in Nat
        BY <2>2 DEF SeenBefore, JudgmentInv
      <3> QED  BY <2>2, <2>3, <3>1 DEF CurrentThen
    <2>7. Unchanged(Rechecked(run.phase))'  BY <2>2, <2>3 DEF Unchanged, Rechecked
    <2> QED
      BY <2>2, <2>3, <2>4, <2>5, <2>6, <2>7 DEF JudgmentInv, Rechecking
  <1> QED  BY <1>1, <1>2

LEMMA RecheckRight ==
    ASSUME JudgmentInv, NEW f \in Judge!Names, Judge!Recheck(f)  PROVE JudgmentInv'
  <1>1. run.phase = f /\ f \in Rechecking /\ UNCHANGED <<files, now, given>>
    BY DEF Judge!Recheck, Judge!Names, Rechecking
  <1>2. CASE files[f] # run.seen[f]
    BY <1>1, <1>2, GapRight DEF Judge!Recheck
  <1>3. CASE files[f] = run.seen[f]
    <2>1. run' = [run EXCEPT !.phase = Judge!After(f)]
      BY <1>3 DEF Judge!Recheck, Judge!Goto
    <2>2. /\ Judge!After(f) \in Rechecking
          /\ Rechecked(Judge!After(f)) = Rechecked(f) \cup {f}
          /\ Noted(f) = Judge!Names /\ Noted(Judge!After(f)) = Judge!Names
      BY AfterEach DEF Judge!Names, Rechecking, Rechecked, Noted
    <2>3. /\ SeenBefore /\ UsedBetween /\ CurrentThen /\ Unchanged(Rechecked(f))
          /\ DOMAIN run = JudgmentFields
      BY <1>1 DEF JudgmentInv
    <2>4. /\ DOMAIN run' = JudgmentFields /\ run'.phase = Judge!After(f) /\ run'.seen = run.seen
          /\ run'.used = run.used /\ run'.started = run.started /\ run'.outcome = run.outcome
          /\ run'.current = run.current
      BY <2>1, <2>3 DEF JudgmentFields
    <2>5. SeenBefore' /\ UsedBetween' /\ CurrentThen'
      BY <1>1, <2>2, <2>3, <2>4 DEF SeenBefore, UsedBetween, CurrentThen
    <2>6. f \in run.current /\ (f \in {"input", "provider"} => run.used[f] = run.seen[f])
      <3>1. files[f] \in Nat /\ run.seen[f] \in Nat
        BY <1>1, <2>2, <2>3 DEF SeenBefore, JudgmentInv
      <3> QED  BY <1>3, <2>3, <3>1 DEF CurrentThen, UsedBetween
    <2>7. Unchanged(Rechecked(run.phase))'
      BY <2>2, <2>3, <2>4, <2>6 DEF Unchanged, Rechecked
    <2>8. given'.report = given.report /\ run'.phase \notin {"begin", "parse", "select", "refused",
                                                     "conclude", "recorded"}
      BY <1>1, <2>2, <2>4 DEF Rechecking
    <2> QED
      BY <1>1, <2>2, <2>4, <2>5, <2>7, <2>8 DEF JudgmentInv, Rechecking
  <1> QED  BY <1>2, <1>3

LEMMA ValidateRight == ASSUME JudgmentInv, Judge!Validate  PROVE JudgmentInv'
  <1>1. run.phase = "validate" /\ UNCHANGED <<files, now, given>>  BY DEF Judge!Validate
  <1>2. CASE Judge!Conclude(Judge!Gap)
    BY <1>1, <1>2, GapRight DEF Rechecking
  <1>3. CASE ~Judge!Conclude(Judge!Gap)
    <2>1. /\ Judge!AnswerValid(run.answer, given.policy, Judge!Context)
          /\ run' = [run EXCEPT !.phase = "conclude", !.answer = run.answer]
      BY <1>3 DEF Judge!Validate, Judge!Conclude
    <2>2. /\ UsedBetween /\ CurrentThen /\ Unchanged(Judge!Names) /\ DOMAIN run = JudgmentFields
      BY <1>1 DEF JudgmentInv, Rechecking, Rechecked
    <2>3. /\ DOMAIN run' = JudgmentFields /\ run'.phase = "conclude" /\ run'.seen = run.seen
          /\ run'.used = run.used /\ run'.started = run.started /\ run'.outcome = run.outcome
          /\ run'.current = run.current /\ run'.answer = run.answer /\ run'.warning = run.warning
      BY <2>1, <2>2 DEF JudgmentFields
    <2>4. Judge!Context' = Judge!Context  BY <2>3 DEF Judge!Context
    <2>5. Judge!AnswerValid(run.answer, given.policy, Judge!Context)'
      BY <1>1, <2>1, <2>3, <2>4
    <2>6. BoundAnswer'
      BY <2>2, <2>3, <2>5 DEF BoundAnswer, UsedBetween, CurrentThen, Unchanged, Judge!Names
    <2> QED  BY <1>1, <2>3, <2>6 DEF JudgmentInv, Rechecking
  <1> QED  BY <1>2, <1>3

LEMMA RecordRight == ASSUME JudgmentInv, Judge!Record  PROVE JudgmentInv'
  <1>1. run.phase = "conclude" /\ UNCHANGED <<files, now, given>> /\ DOMAIN run = JudgmentFields
    BY DEF Judge!Record, JudgmentInv
  <1>2. CASE Judge!Refuse
    BY <1>1, <1>2, RefuseRight
  <1>3. CASE ~Judge!Refuse
    <2> DEFINE whole == run.answer.kind # "gap"
               told == [route |-> Judge!RouteOf(given.policy, run.answer),
                        complete |-> whole, gate |-> given.report.decision]
    <2>1. run' = [run EXCEPT !.phase = "recorded", !.outcome = told]
      BY <1>3 DEF Judge!Record
    <2> HIDE DEF whole, told
    <2>2. /\ DOMAIN run' = JudgmentFields /\ run'.phase = "recorded" /\ run'.seen = run.seen
          /\ run'.used = run.used /\ run'.started = run.started /\ run'.outcome = told
          /\ run'.current = run.current /\ run'.answer = run.answer /\ run'.warning = run.warning
      BY <1>1, <2>1 DEF JudgmentFields
    <2>3. Judge!Context' = Judge!Context  BY <2>2 DEF Judge!Context
    <2>4. BoundAnswer' = BoundAnswer
      BY <1>1, <2>2, <2>3 DEF BoundAnswer, Unchanged
    <2>5. /\ run'.outcome.route = Judge!RouteOf(given.policy, run.answer)
          /\ run'.outcome.gate = given.report.decision /\ run'.outcome.complete = whole
      BY <2>2 DEF told
    <2>6. Told'  BY <1>1, <2>2, <2>5 DEF Told, whole
    <2> QED  BY <1>1, <2>2, <2>4, <2>6 DEF JudgmentInv, Rechecking
  <1> QED  BY <1>2, <1>3

\* Around the run files only become newer, and time goes on.
LEMMA EnvironmentRight == ASSUME JudgmentInv, Judge!Environment  PROVE JudgmentInv'
  <1>1. /\ UNCHANGED <<given, run>> /\ files' \in [Judge!Names -> Nat] /\ now' \in Nat
        /\ \A f \in Judge!Names : files[f] \in Nat /\ files'[f] \in Nat /\ files[f] <= files'[f]
    BY DEF Judge!Environment, Judge!Edit, Judge!Tick, JudgmentInv
  <1>2. \A p : Noted(p) \subseteq Judge!Names  BY DEF Noted, Judge!Names
  <1>3. SeenBefore => SeenBefore'  BY <1>1, <1>2 DEF SeenBefore
  <1>4. /\ run.phase \in Rechecking \cup {"answer"} =>
             SeenBefore /\ UsedBetween /\ Noted(run.phase) = Judge!Names
    BY DEF JudgmentInv, Noted, Rechecking
  <1>5. UsedBetween => UsedBetween'  BY <1>1 DEF UsedBetween, Judge!Names
  <1>6. run.phase \in Rechecking /\ CurrentThen => CurrentThen'
    BY <1>1, <1>4 DEF CurrentThen, SeenBefore
  <1>7. \A S : Unchanged(S)' = Unchanged(S)  BY <1>1 DEF Unchanged
  <1>8. BoundAnswer' = BoundAnswer /\ Told' = Told /\ Rechecked(run.phase)' = Rechecked(run.phase)
    BY <1>1 DEF BoundAnswer, Told, Unchanged, Judge!Context
  <1> QED  BY <1>1, <1>3, <1>5, <1>6, <1>7, <1>8 DEF JudgmentInv

LEMMA JudgmentStep == JudgmentInv /\ [Judge!Next]_(Judge!judgmentVars) => JudgmentInv'
  <1> SUFFICES ASSUME JudgmentInv, [Judge!Next]_(Judge!judgmentVars)  PROVE JudgmentInv'
    OBVIOUS
  <1>1. CASE UNCHANGED Judge!judgmentVars
    BY <1>1 DEF Judge!judgmentVars, JudgmentInv, SeenBefore, UsedBetween, CurrentThen, Unchanged,
                BoundAnswer, Told, Judge!Context
  <1> QED
    BY <1>1, ReadsRight, AskRight, AnswerRight, RecheckRight, ValidateRight, RecordRight,
       EnvironmentRight
    DEF Judge!Next, Judge!Step

LEMMA JudgmentInductive == Judge!Spec => []JudgmentInv
  <1>1. Judge!Init => JudgmentInv
    BY DEF Judge!Init, Judge!Fresh, JudgmentInv, JudgmentFields, SeenBefore, Noted, Rechecking
  <1> QED  BY <1>1, JudgmentStep, PTL DEF Judge!Spec

\* For all edits of the report, the policy, the inputs and the executable: a
\* complete judgment is of the versions it names, and a probability in it comes
\* with a calibration that covered it when the judgment began
\* (application/judgment.rs:214-301).
THEOREM JudgmentBound ==
    ASSUME Judge!PoliciesWellTyped  PROVE Judge!Spec => []Judge!JudgmentIsBound
  <1>1. ASSUME JudgmentInv  PROVE Judge!JudgmentIsBound
    <2> SUFFICES ASSUME run.outcome # None, run.outcome.complete  PROVE Judge!JudgmentIsBound
      BY DEF Judge!JudgmentIsBound
    <2>1. run.phase = "recorded" /\ run.answer.kind # "gap" /\ BoundAnswer
      <3>1. run.phase = "recorded" /\ Told  BY <1>1 DEF JudgmentInv
      <3>2. run.answer.kind # "gap"  BY <3>1 DEF Told
      <3> QED  BY <1>1, <3>1, <3>2 DEF JudgmentInv
    <2>2. run.current = Judge!Names /\ \A f \in {"input", "provider"} : run.used[f] = run.seen[f]
      BY <2>1 DEF BoundAnswer, Unchanged, Judge!Names
    <2>3. ASSUME run.answer.kind = "probabilistic"
          PROVE  LET c == given.policy.calibration IN
                 /\ c # None /\ ~c.revoked /\ run.started < c.expires
                 /\ c.labels >= Judge!Samples /\ c.model = run.answer.model
                 /\ c.rule = run.warning.check /\ c.provider = run.seen["provider"]
      <3> DEFINE c == given.policy.calibration
      <3>1. /\ c # None
            /\ Judge!Status(c, given.policy.question, run.answer.model, Judge!Context) = "valid"
        BY <2>1, <2>3 DEF BoundAnswer, Judge!AnswerValid
      <3>2. /\ c.revoked \in BOOLEAN /\ c.expires \in Nat /\ c.labels \in Nat /\ run.started \in Nat
        BY <1>1, <2>1, <3>1 DEF JudgmentInv, Judge!PoliciesWellTyped, Judge!WellTyped
      <3>3. /\ Judge!Context.now = run.started /\ Judge!Context.rule = run.warning.check
            /\ Judge!Context.provider = run.seen["provider"]
        BY DEF Judge!Context
      <3> HIDE DEF c
      <3>4. /\ ~c.revoked /\ ~(run.started >= c.expires) /\ ~(c.labels < Judge!Samples)
            /\ c.provider = run.seen["provider"] /\ c.model = run.answer.model
            /\ c.rule = run.warning.check
        BY <3>1, <3>2, <3>3 DEF Judge!Status
      <3> QED  BY <3>1, <3>2, <3>4 DEF c, Judge!Samples
    <2> QED  BY <2>2, <2>3 DEF Judge!JudgmentIsBound
  <1> QED  BY <1>1, JudgmentInductive, PTL

\* A judgment keeps the report's gate, hurries a review only for an answer that
\* is likely enough, and never speaks for a provider that was not asked
\* (application/judgment.rs:298-347).
THEOREM OnlyAttention ==
    ASSUME Judge!PoliciesWellTyped  PROVE Judge!Spec => []Judge!OnlyAddsAttention
  <1>1. ASSUME JudgmentInv  PROVE Judge!OnlyAddsAttention
    <2> SUFFICES ASSUME run.outcome # None  PROVE Judge!OnlyAddsAttention
      BY DEF Judge!OnlyAddsAttention
    <2>1. run.phase = "recorded" /\ given.report.decision # "incomplete" /\ Told
      BY <1>1 DEF JudgmentInv
    <2>2. run.outcome.route = Judge!RouteOf(given.policy, run.answer)
          /\ run.outcome.gate = given.report.decision
          /\ run.outcome.complete = (run.answer.kind # "gap")
      BY <2>1 DEF Told
    <2>3. given.policy.mode \in {"shadow", "advisory"}
      BY <1>1 DEF JudgmentInv, Judge!PoliciesWellTyped, Judge!WellTyped
    <2>4. ASSUME run.outcome.route = "prioritize_review"
          PROVE  /\ run.answer.kind = "probabilistic" /\ given.policy.mode = "advisory"
                 /\ run.outcome.complete
                 /\ run.answer.distribution[given.policy.question.positive] >= given.policy.threshold
      <3>1. /\ run.answer.kind = "probabilistic" /\ given.policy.mode = "advisory"
            /\ run.answer.distribution[given.policy.question.positive] >= given.policy.threshold
        BY <2>2, <2>3, <2>4 DEF Judge!RouteOf
      <3>2. run.answer.kind # "gap"  BY <3>1
      <3> QED  BY <2>2, <3>1, <3>2
    <2>5. run.outcome.complete => run.used # <<>>
      <3>1. run.outcome.complete => DOMAIN run.used = {"input", "provider"}
        BY <1>1, <2>1, <2>2 DEF JudgmentInv, BoundAnswer
      <3> QED  BY <3>1
    <2> QED  BY <2>1, <2>2, <2>4, <2>5 DEF Judge!OnlyAddsAttention
  <1> QED  BY <1>1, JudgmentInductive, PTL
-----------------------------------------------------------------------------
(* Reports: what is new, for lists of issues of any length.                  *)

\* Of the numbers of a set, those with more than c up to them are all but c.
LEMMA RankCount ==
    ASSUME NEW n \in Nat, NEW K \in SUBSET (1..n), NEW c \in Nat
    PROVE  Cardinality({i \in K : Cardinality({j \in K : j <= i}) > c}) =
             IF Cardinality(K) > c THEN Cardinality(K) - c ELSE 0
  <1> DEFINE B(m) == {i \in K : i <= m}
             T(m) == {i \in B(m) : Cardinality(B(i)) > c}
             Right(m) == Cardinality(T(m)) = IF Cardinality(B(m)) > c THEN Cardinality(B(m)) - c ELSE 0
             Wrong == {m \in 0..n : ~Right(m)}
  <1>1. \A m \in 0..n : /\ IsFiniteSet(B(m)) /\ IsFiniteSet(T(m)) /\ Cardinality(B(m)) \in Nat
                       /\ Cardinality(T(m)) \in Nat
    <2> SUFFICES ASSUME NEW m \in 0..n PROVE IsFiniteSet(B(m)) /\ IsFiniteSet(T(m))
      BY FS_CardinalityType
    <2>1. IsFiniteSet(1..n)  BY FS_Interval
    <2> QED  BY <2>1, FS_Subset
  <1>2. ASSUME NEW m \in 1..n, Right(m - 1)  PROVE Right(m)
    <2>0. m - 1 \in 0..n /\ m \in 0..n  OBVIOUS
    <2>00. \A i \in K : i <= m <=> (i <= m - 1 \/ i = m)  OBVIOUS
    <2>000. ~(m <= m - 1)  OBVIOUS
    <2>1. CASE m \notin K
      <3>1. B(m) = B(m - 1)  BY <2>1, <2>00
      <3> QED  BY <3>1, <1>2
    <2>2. CASE m \in K
      <3>1. B(m) = B(m - 1) \cup {m} /\ m \notin B(m - 1)  BY <2>2, <2>00, <2>000
      <3>2. Cardinality(B(m)) = Cardinality(B(m - 1)) + 1
        BY <3>1, <2>0, <1>1, FS_AddElement
      <3>3. CASE Cardinality(B(m)) > c
        <4>1. T(m) = T(m - 1) \cup {m} /\ m \notin T(m - 1)  BY <3>1, <3>3
        <4>2. Cardinality(T(m)) = Cardinality(T(m - 1)) + 1
          BY <4>1, <2>0, <1>1, FS_AddElement
        <4> HIDE DEF B, T
        <4> QED  BY <4>2, <3>2, <3>3, <1>1, <1>2, <2>0
      <3>4. CASE ~(Cardinality(B(m)) > c)
        <4>1. T(m) = T(m - 1)  BY <3>1, <3>4
        <4> HIDE DEF B, T
        <4> QED  BY <4>1, <3>2, <3>4, <1>1, <1>2, <2>0
      <3> QED  BY <3>3, <3>4
    <2> QED  BY <2>1, <2>2
  <1>3. Right(0)
    <2>0. \A i \in K : ~(i <= 0)  OBVIOUS
    <2>1. B(0) = {}  BY <2>0
    <2>2. T(0) = {}  BY <2>1
    <2> HIDE DEF B, T
    <2> QED  BY <2>1, <2>2, FS_EmptySet
  <1>4. Wrong = {}
    <2> HIDE DEF Right
    <2> SUFFICES ASSUME Wrong # {}  PROVE FALSE  OBVIOUS
    <2>0. Wrong \subseteq Nat  OBVIOUS
    <2>1. PICK m \in Wrong : \A k \in Wrong : m <= k  BY <2>0, Least
    <2>2. CASE m = 0  BY <2>1, <2>2, <1>3
    <2>3. CASE m # 0
      <3>1. m - 1 \in 0..n /\ m \in 1..n /\ m - 1 \notin Wrong  BY <2>1, <2>3
      <3> QED  BY <3>1, <2>1, <1>2
    <2> QED  BY <2>2, <2>3
  <1>5. B(n) = K
    <2>1. \A i \in K : i <= n  OBVIOUS
    <2> QED  BY <2>1
  <1>7. T(n) = {i \in K : Cardinality({j \in K : j <= i}) > c}  BY <1>5
  <1>6. Right(n)
    <2> HIDE DEF Right
    <2> QED  BY <1>4
  <1> HIDE DEF B, T
  <1> QED  BY <1>5, <1>6, <1>7

\* What a report yields in a mode that decides issue by issue.
LEMMA AppliedFacts ==
    ASSUME NEW mode, NEW data, NEW base, NEW snap, NEW affected,
           Report!Apply(mode, data, base, snap, affected).ok
    PROVE  Report!Apply(mode, data, base, snap, affected).issues =
             {n \in Report!Held(data, snap) :
                Report!Include(mode, n, data, base, snap, affected) = "in"}
  BY Zenon DEF Report!Apply

\* Whatever two reports hold and in whatever order, of each identity in a changed
\* file as many issues are new as its totals grew, as far as the delivery holds
\* that many: no historical occurrence that is still there excuses one
\* (application/report_gate.rs:112-127, 207-213).
THEOREM NewGrew ==
    ASSUME NEW data, NEW base, ListTyped(data), ListTyped(base), NEW snap
    PROVE  Report!NewIsWhatGrew(data, base, snap)
  <1> DEFINE made  == Report!Apply("new_diagnostics", data, base, snap, {})
             held == Report!Held(data, snap)
             old  == Report!Historical(base, snap)
  <1> SUFFICES ASSUME made.ok, NEW i \in DOMAIN data
               PROVE  LET k == Report!Identity(data[i]) IN
                      Report!Occurrences(data, made.issues, k) =
                        Report!MinOf(Report!Occurrences(data, held, k),
                          Report!Over(Report!Occurrences(data, DOMAIN data, k),
                                      Report!Occurrences(base, old, k)))
    BY Zenon DEF Report!NewIsWhatGrew
  <1> DEFINE k == Report!Identity(data[i])
             K == {n \in held : Report!Identity(data[n]) = k}
             R == {n \in DOMAIN data \ held : Report!Identity(data[n]) = k}
             H == {n \in old : Report!Identity(base[n]) = k}
             c == Report!Credit(data, base, snap, k)
  <1>0. \A S : Report!Cardinality(S) = Cardinality(S)  BY DEF Report!Cardinality, Cardinality
  <1>1. held \subseteq 1..Len(data) /\ old \subseteq 1..Len(base)
        /\ Len(data) \in Nat /\ Len(base) \in Nat /\ DOMAIN data = 1..Len(data)
    BY DEF ListTyped, Report!Held, Report!Historical
  <1>2. /\ IsFiniteSet(K) /\ IsFiniteSet(R) /\ IsFiniteSet(H)
        /\ Cardinality(K) \in Nat /\ Cardinality(R) \in Nat /\ Cardinality(H) \in Nat
    <2>1. IsFiniteSet(1..Len(data)) /\ IsFiniteSet(1..Len(base))  BY <1>1, FS_Interval
    <2>2. K \subseteq 1..Len(data) /\ R \subseteq 1..Len(data) /\ H \subseteq 1..Len(base)  BY <1>1
    <2> HIDE DEF K, R, H
    <2> QED  BY <2>1, <2>2, FS_Subset, FS_CardinalityType
  <1>3. c = IF Cardinality(H) > Cardinality(R) THEN Cardinality(H) - Cardinality(R) ELSE 0
    BY <1>0 DEF Report!Credit, Report!Over, Report!Occurrences
  <1>4. c \in Nat
    <2> HIDE DEF K, R, H, c
    <2> QED  BY <1>2, <1>3
  <1>5. {n \in made.issues : Report!Identity(data[n]) = k} =
          {n \in K : Cardinality({m \in K : m <= n}) > c}
    <2>1. ASSUME NEW n \in K
          PROVE  Report!Include("new_diagnostics", n, data, base, snap, {}) = "in"
                   <=> Cardinality({m \in K : m <= n}) > c
      <3>1. {m \in {p \in held : p <= n} : Report!Identity(data[m]) = Report!Identity(data[n])}
              = {m \in K : m <= n}
        OBVIOUS
      <3>2. Report!Occurrences(data, {p \in held : p <= n}, Report!Identity(data[n]))
              = Cardinality({m \in K : m <= n})
        BY <3>1, <1>0 DEF Report!Occurrences
      <3>3. Report!Credit(data, base, snap, Report!Identity(data[n])) = c  OBVIOUS
      <3> HIDE DEF c, K
      <3> QED  BY <3>2, <3>3 DEF Report!Include
    <2>2. made.issues = {n \in held : Report!Include("new_diagnostics", n, data, base, snap, {}) = "in"}
      BY AppliedFacts
    <2> HIDE DEF made, c
    <2> QED  BY <2>1, <2>2
  <1>6. Cardinality({n \in K : Cardinality({m \in K : m <= n}) > c}) =
          IF Cardinality(K) > c THEN Cardinality(K) - c ELSE 0
    <2>1. K \in SUBSET (1..Len(data))  BY <1>1
    <2> HIDE DEF K, c
    <2> QED  BY <2>1, <1>1, <1>4, RankCount
  <1>7. Cardinality({n \in DOMAIN data : Report!Identity(data[n]) = k}) = Cardinality(K) + Cardinality(R)
    <2>1. {n \in DOMAIN data : Report!Identity(data[n]) = k} = K \cup R /\ K \cap R = {}
      BY <1>1
    <2> HIDE DEF K, R, k, held
    <2>2. Cardinality(K \cap R) = 0  BY <2>1, FS_EmptySet
    <2>3. Cardinality(K \cup R) = Cardinality(K) + Cardinality(R) - Cardinality(K \cap R)
      BY <1>2, FS_Union
    <2>4. Cardinality(K \cup R) = Cardinality(K) + Cardinality(R)  BY <2>2, <2>3, <1>2
    <2> QED  BY <2>1, <2>4
  <1>8. /\ Report!Occurrences(data, held, k) = Cardinality(K)
        /\ Report!Occurrences(base, old, k) = Cardinality(H)
        /\ Report!Occurrences(data, DOMAIN data, k) = Cardinality(K) + Cardinality(R)
        /\ Report!Occurrences(data, made.issues, k) =
             IF Cardinality(K) > c THEN Cardinality(K) - c ELSE 0
    <2>1. /\ Report!Occurrences(data, held, k) = Cardinality(K)
          /\ Report!Occurrences(base, old, k) = Cardinality(H)
      BY <1>0 DEF Report!Occurrences
    <2>2. Report!Occurrences(data, DOMAIN data, k) =
            Cardinality({n \in DOMAIN data : Report!Identity(data[n]) = k})
      BY <1>0 DEF Report!Occurrences
    <2>3. Report!Occurrences(data, made.issues, k) =
            Cardinality({n \in made.issues : Report!Identity(data[n]) = k})
      BY <1>0 DEF Report!Occurrences
    <2> HIDE DEF K, R, H, c, made, k, held, old
    <2> QED  BY <2>1, <2>2, <2>3, <1>5, <1>6, <1>7
  <1> HIDE DEF K, R, H, c, made, k, held, old
  <1> QED  BY <1>2, <1>3, <1>8 DEF Report!MinOf, Report!Over, k

\* Whatever two reports hold, a ratchet reports every issue a delivery has of a
\* rule of which it removed fewer, and none of any other rule (domain/ratchet.rs:28-48).
THEOREM RatchetGrows ==
    ASSUME NEW data, NEW base, NEW snap, ListTyped(data)  PROVE Report!RatchetIsGrowth(data, base, snap)
  <1> DEFINE made  == Report!Apply("ratchet", data, base, snap, {})
             held == Report!Held(data, snap)
             old(k) == Report!OfRule(base, Report!Gone(base, snap), k)
  <1> SUFFICES ASSUME made.ok, NEW i \in DOMAIN data
               PROVE  LET k == data[i].rule
                          new == Report!OfRule(data, held, k)
                      IN  Report!OfRule(data, made.issues, k) = IF new > old(k) THEN new ELSE 0
    BY Zenon DEF Report!RatchetIsGrowth
  <1> DEFINE k == data[i].rule
             K == {n \in held : data[n].rule = k}
  <1>0. \A S : Report!Cardinality(S) = Cardinality(S)  BY DEF Report!Cardinality, Cardinality
  <1>1. made.issues = {n \in held : data[n].rule \in Report!Increased(data, base, snap)}
    <2>1. \A n \in held : Report!Include("ratchet", n, data, base, snap, {}) = "in"
            <=> data[n].rule \in Report!Increased(data, base, snap)
      BY DEF Report!Include
    <2> QED  BY <2>1, AppliedFacts
  <1>2. {n \in made.issues : data[n].rule = k} =
          IF k \in Report!Increased(data, base, snap) THEN K ELSE {}
    <2> HIDE DEF made
    <2> QED  BY <1>1
  <1>3. k \in Report!Increased(data, base, snap) <=> K # {} /\ Cardinality(K) > old(k)
    BY <1>0 DEF Report!Increased, Report!OfRule
  <1>4. Report!OfRule(data, held, k) = Cardinality(K)
        /\ Report!OfRule(data, made.issues, k) = Cardinality({n \in made.issues : data[n].rule = k})
    BY <1>0 DEF Report!OfRule
  <1>5. Cardinality({}) = 0  BY FS_EmptySet
  <1> HIDE DEF made, held, K, old, k
  <1> QED  BY <1>2, <1>3, <1>4, <1>5 DEF k

\* A predecessor is of the same rule, and of the same identity in the mode that
\* decides issue by issue.  What is held and not reported has one.
Precedes(mode, old, new) ==
    old.rule = new.rule /\ (mode = "new_diagnostics" => Report!Identity(old) = Report!Identity(new))
Preceded(mode, new, base) == \E m \in DOMAIN base : Precedes(mode, base[m], new)
Excused(mode, data, base, snap, n) ==
    n \in Report!Held(data, snap) /\ n \notin Report!Apply(mode, data, base, snap, {}).issues

LEMMA ExcusedByTheBase ==
    ASSUME NEW mode, Report!NeedsBaseline(mode), NEW data, ListTyped(data), NEW base, NEW snap,
           Report!Apply(mode, data, base, snap, {}).ok,
           NEW n, Excused(mode, data, base, snap, n)
    PROVE  Preceded(mode, data[n], base)
  <1> DEFINE held == Report!Held(data, snap)
  <1>0. \A S : Report!Cardinality(S) = Cardinality(S)  BY DEF Report!Cardinality, Cardinality
  <1>1. n \in held /\ Report!Include(mode, n, data, base, snap, {}) # "in"  BY AppliedFacts DEF Excused
  <1>2. held \subseteq 1..Len(data) /\ Len(data) \in Nat  BY DEF ListTyped, Report!Held
  <1>3. \A S \in SUBSET held : /\ IsFiniteSet(S) /\ Cardinality(S) \in Nat
                               /\ S # {} => Cardinality(S) > 0
    <2> HIDE DEF held
    <2>1. IsFiniteSet(held)
      <3>1. IsFiniteSet(1..Len(data))  BY <1>2, FS_Interval
      <3> QED  BY <3>1, <1>2, FS_Subset
    <2>2. ASSUME NEW S \in SUBSET held
          PROVE  IsFiniteSet(S) /\ Cardinality(S) \in Nat /\ (S # {} => Cardinality(S) # 0)
      BY <2>1, FS_Subset, FS_CardinalityType, FS_EmptySet
    <2> QED  BY <2>2
  <1>4. Cardinality({}) = 0  BY FS_EmptySet
  <1>5. CASE mode = "new_diagnostics"
    <2> DEFINE k == Report!Identity(data[n])
               S == {m \in {p \in held : p <= n} : Report!Identity(data[m]) = k}
               H == {m \in Report!Historical(base, snap) : Report!Identity(base[m]) = k}
               R == {m \in DOMAIN data \ held : Report!Identity(data[m]) = k}
    <2>1. ~(Cardinality(S) > Report!Credit(data, base, snap, k))
      BY <1>0, <1>1, <1>5 DEF Report!Include, Report!Occurrences
    <2>2. n \in S /\ S \in SUBSET held  BY <1>1, <1>2
    <2>3. Cardinality(S) \in Nat /\ Cardinality(S) > 0
      <3> HIDE DEF S, held
      <3> QED  BY <2>2, <1>3
    <2>4. Cardinality(R) \in Nat
      <3>1. R \subseteq 1..Len(data)  BY DEF ListTyped
      <3>2. IsFiniteSet(1..Len(data))  BY <1>2, FS_Interval
      <3> HIDE DEF R
      <3>3. IsFiniteSet(R)  BY <3>1, <3>2, FS_Subset
      <3> QED  BY <3>3, FS_CardinalityType
    <2>5. Report!Credit(data, base, snap, k) =
            IF Cardinality(H) > Cardinality(R) THEN Cardinality(H) - Cardinality(R) ELSE 0
      BY <1>0 DEF Report!Credit, Report!Over, Report!Occurrences
    <2>6. H # {}
      <3> HIDE DEF S, H, R, k
      <3> QED  BY <2>1, <2>3, <2>4, <2>5, <1>4
    <2>7. PICK m \in H : TRUE  BY <2>6
    <2>8. m \in DOMAIN base /\ Report!Identity(base[m]) = k  BY <2>7 DEF Report!Historical
    <2>9. base[m].rule = data[n].rule  BY <2>8 DEF Report!Identity
    <2> QED  BY <2>8, <2>9 DEF Preceded, Precedes
  <1>6. CASE mode = "ratchet"
    <2> DEFINE k == data[n].rule
               K == {m \in held : data[m].rule = k}
               G == {m \in Report!Gone(base, snap) : base[m].rule = k}
    <2>1. k \notin Report!Increased(data, base, snap)  BY <1>1, <1>6 DEF Report!Include
    <2>2. ~(Cardinality(K) > Cardinality(G))
      BY <1>0, <1>1, <2>1 DEF Report!Increased, Report!OfRule
    <2>3. Cardinality(K) > 0
      <3>1. n \in K /\ K \in SUBSET held  BY <1>1
      <3> HIDE DEF K, held
      <3> QED  BY <3>1, <1>3
    <2>4. G # {}
      <3> HIDE DEF K, G
      <3> QED  BY <2>2, <2>3, <1>4
    <2>5. PICK m \in G : TRUE  BY <2>4
    <2>6. m \in DOMAIN base /\ base[m].rule = k  BY <2>5 DEF Report!Gone
    <2> QED  BY <2>6, <1>6 DEF Preceded, Precedes
  <1> QED  BY <1>5, <1>6 DEF Report!NeedsBaseline

\* Whatever a baseline run met at its stages, and whatever a report holds: what is
\* excused was found by the executables of the current run, unless they were put
\* back between two looks, and each excused issue has a predecessor that a finished
\* analysis of untouched inputs reported (generated_reports.rs:66-98, 172-295).
THEOREM OwnBaseline ==
    ASSUME NEW mode, NEW data, ListTyped(data), NEW trial, NEW snap
    PROVE  Report!ComparedWithItsOwn(mode, data, trial, snap)
  <1> DEFINE made == Report!Collect(mode, data, trial, snap, {})
             previous == [n \in DOMAIN trial.issues |-> Report!Renamed(trial.issues[n], snap)]
             applied == Report!Apply(mode, data, previous, snap, {})
  <1> SUFFICES ASSUME Report!NeedsBaseline(mode), made.ok
               PROVE  /\ ~Report!PutBack(trial.command.identified, trial.command.ran,
                                         trial.command.confirmed) =>
                             trial.command.ran.digest = trial.currentExecutable
                      /\ \A i \in DOMAIN trial.tools :
                             LET tool == trial.tools[i] IN
                             /\ ~Report!PutBack(tool.at.identified, tool.at.probed, tool.at.confirmed) =>
                                    tool.at.probed.digest = trial.now[i].digest
                             /\ ~Report!PutBack(tool.at.identified, tool.at.ran, tool.at.verified) =>
                                    tool.at.ran.digest = trial.now[i].digest
                      /\ \A n \in Report!Held(data, snap) \ made.issues :
                             /\ trial.touched = {} /\ ~trial.cut
                             /\ \E m \in DOMAIN trial.issues :
                                    /\ trial.issues[m].rule = data[n].rule
                                    /\ mode = "new_diagnostics" =>
                                         Report!Identity(Report!Renamed(trial.issues[m], snap))
                                           = Report!Identity(data[n])
    BY Zenon DEF Report!ComparedWithItsOwn
  <1>1. Report!Baseline(trial).ok  BY DEF Report!Collect
  <1>2. /\ \A i \in DOMAIN trial.tools : Report!Probe(trial.tools[i]) = "ok"
        /\ Report!Comparable(trial.now, [i \in DOMAIN trial.tools |-> Report!Evidence(trial.tools[i])])
        /\ trial.command.identified.digest = trial.currentExecutable
        /\ trial.command.confirmed = trial.command.identified
        /\ Report!Verified(trial.tools) /\ trial.touched = {} /\ ~trial.cut
    BY <1>1, Zenon DEF Report!Baseline
  <1>3. Report!Baseline(trial).issues = trial.issues  BY <1>1, Zenon DEF Report!Baseline
  <1>4. applied.ok /\ made.issues = applied.issues  BY <1>3 DEF Report!Collect
  <1>5. ASSUME NEW i \in DOMAIN trial.tools
        PROVE  /\ trial.now[i].digest = trial.tools[i].at.identified.digest
               /\ trial.tools[i].at.confirmed = trial.tools[i].at.identified
               /\ trial.tools[i].at.verified = trial.tools[i].at.identified
    <2>1. trial.now[i]["digest"] = Report!Evidence(trial.tools[i])["digest"]
      BY <1>2 DEF Report!Comparable
    <2>2. trial.tools[i].at.confirmed = trial.tools[i].at.identified  BY <1>2 DEF Report!Probe
    <2> QED  BY <1>2, <2>1, <2>2 DEF Report!Evidence, Report!Verified
  <1>6. ASSUME NEW n \in Report!Held(data, snap) \ made.issues
        PROVE  \E m \in DOMAIN trial.issues :
                 /\ trial.issues[m].rule = data[n].rule
                 /\ mode = "new_diagnostics" =>
                      Report!Identity(Report!Renamed(trial.issues[m], snap)) = Report!Identity(data[n])
    <2>1. PICK m \in DOMAIN previous : Precedes(mode, previous[m], data[n])
      <3>1. Excused(mode, data, previous, snap, n)  BY <1>4 DEF Excused
      <3> HIDE DEF previous, made
      <3>2. Preceded(mode, data[n], previous)  BY <1>4, <3>1, ExcusedByTheBase
      <3> QED  BY <3>2, Zenon DEF Preceded
    <2>2. m \in DOMAIN trial.issues /\ previous[m] = Report!Renamed(trial.issues[m], snap)  OBVIOUS
    <2>3. previous[m].rule = trial.issues[m].rule  BY <2>2 DEF Report!Renamed
    <2> QED  BY <2>1, <2>2, <2>3 DEF Precedes
  <1> QED  BY <1>2, <1>5, <1>6 DEF Report!PutBack

\* However many records a coverage report has, it leaves no changed source out,
\* and a changed line that no test ran keeps the delivery under 100 %
\* (application/coverage_gate.rs:42-165).
THEOREM UncoveredSeen ==
    ASSUME NEW spec, NEW records, NEW inventory, NEW branches, NEW snap, MeasuredTyped(records, snap)
    PROVE  Report!UncoveredIsSeen(spec, records, inventory, branches, snap)
  <1> DEFINE made  == Report!Coverage(spec, records, inventory, branches, snap)
             missed == {r \in records :
                          /\ r.file \in spec.paths /\ ~r.excluded /\ r.hits = 0
                          /\ r.file \in DOMAIN snap.added /\ r.line \in snap.added[r.file]}
             expected == {f \in spec.paths \cap DOMAIN snap.lines :
                            f \in DOMAIN snap.added /\ snap.added[f] # {}}
             counted == {r \in records : /\ r.file \in expected /\ ~r.excluded
                                        /\ r.line \in snap.added[r.file]}
             hit == {r \in counted : r.hits > 0}
  <1> SUFFICES ASSUME made.ok, snap.delivery
               PROVE  /\ expected \subseteq inventory \cup {r.file : r \in records}
                      /\ (missed # {} /\ spec.threshold = 1000) => made.below
    BY DEF Report!UncoveredIsSeen, Report!Changed
  <1>0. \A S : Report!Cardinality(S) = Cardinality(S)  BY DEF Report!Cardinality, Cardinality
  <1>1. /\ expected \subseteq inventory \cup {r.file : r \in records}
        /\ Report!BelowThreshold(Report!Cardinality(hit), Report!Cardinality(counted), spec.threshold)
             => made.below
    BY DEF Report!Coverage, Report!Changed
  <1>2. ASSUME missed # {}, spec.threshold = 1000  PROVE made.below
    <2>1. PICK r \in missed : TRUE  BY <1>2
    <2>2. r \in counted /\ r \notin hit
      <3>1. r.hits = 0  BY <2>1
      <3>2. r.file \in expected  BY <2>1 DEF MeasuredTyped
      <3> QED  BY <2>1, <3>1, <3>2
    <2>3. IsFiniteSet(counted) /\ hit \subseteq counted  BY FS_Subset DEF MeasuredTyped
    <2> HIDE DEF hit, counted, made
    <2>4. Cardinality(hit) < Cardinality(counted)
          /\ Cardinality(hit) \in Nat /\ Cardinality(counted) \in Nat
      <3>1. IsFiniteSet(hit) /\ hit # counted  BY <2>2, <2>3, FS_Subset
      <3> QED  BY <2>3, <3>1, FS_Subset, FS_CardinalityType
    <2>5. Report!BelowThreshold(Report!Cardinality(hit), Report!Cardinality(counted), 1000)
      BY <2>4, <1>0 DEF Report!BelowThreshold
    <2> QED  BY <2>5, <1>1, <1>2
  <1> HIDE DEF made
  <1> QED  BY <1>1, <1>2

-----------------------------------------------------------------------------
(* Computations that go through a list: a recursion over positions has a value. *)

\* A definition by recursion on the numbers up to last means what it says.
Stepwise(step, last, S, x) == x \in S /\ \A n \in 1..last : \A s \in S : step[n][s] \in S

LEMMA Recursion ==
    ASSUME NEW last \in Nat, NEW S, NEW x, NEW step, Stepwise(step, last, S, x)
    PROVE  \E f \in [0..last -> S] : /\ f[0] = x
                                  /\ \A n \in 1..last : f[n] = step[n][f[n - 1]]
  <1>0. x \in S /\ \A n \in 1..last : \A s \in S : step[n][s] \in S  BY DEF Stepwise
  <1> DEFINE Defined(m) == \E f \in [0..m -> S] : /\ f[0] = x
                                               /\ \A n \in 1..m : f[n] = step[n][f[n - 1]]
             Undefined == {m \in 0..last : ~Defined(m)}
  <1>1. Defined(0)
    <2> DEFINE f == [n \in 0..0 |-> x]
    <2>1. f \in [0..0 -> S] /\ f[0] = x /\ \A n \in 1..0 : f[n] = step[n][f[n - 1]]
      BY <1>0
    <2> QED  BY <2>1
  <1>2. ASSUME NEW m \in 1..last, Defined(m - 1)  PROVE Defined(m)
    <2>1. PICK f \in [0..(m - 1) -> S] : /\ f[0] = x
                                        /\ \A n \in 1..(m - 1) : f[n] = step[n][f[n - 1]]
      BY <1>2
    <2> DEFINE g == [n \in 0..m |-> IF n = m THEN step[m][f[m - 1]] ELSE f[n]]
    <2>2. step[m][f[m - 1]] \in S
      <3>1. m - 1 \in 0..(m - 1)  OBVIOUS
      <3>2. f[m - 1] \in S  BY <3>1
      <3> QED  BY <1>0, <3>2
    <2>3. g \in [0..m -> S] /\ g[0] = x  BY <2>1, <2>2
    <2>4. ASSUME NEW n \in 1..m  PROVE g[n] = step[n][g[n - 1]]
      <3>1. n - 1 \in 0..m /\ n - 1 # m /\ n \in 0..m  OBVIOUS
      <3>2. g[n - 1] = f[n - 1]  BY <3>1
      <3>3. CASE n = m  BY <3>2, <3>3
      <3>4. CASE n # m
        <4>1. n \in 1..(m - 1)  BY <3>4
        <4> QED  BY <4>1, <3>1, <3>2, <3>4, <2>1
      <3> QED  BY <3>3, <3>4
    <2> HIDE DEF g
    <2> QED  BY <2>3, <2>4
  <1> HIDE DEF Defined
  <1>3. Undefined = {}
    <2> SUFFICES ASSUME Undefined # {}  PROVE FALSE  OBVIOUS
    <2>0. Undefined \subseteq Nat  OBVIOUS
    <2>1. PICK m \in Undefined : \A k \in Undefined : m <= k  BY <2>0, Least
    <2>2. CASE m = 0  BY <2>1, <2>2, <1>1
    <2>3. CASE m # 0
      <3>1. m - 1 \in 0..last /\ m \in 1..last /\ m - 1 \notin Undefined  BY <2>1, <2>3
      <3> QED  BY <3>1, <2>1, <1>2
    <2> QED  BY <2>2, <2>3
  <1>4. Defined(last)  BY <1>3
  <1> QED  BY <1>4 DEF Defined

\* Of a finite set in some order, at least k have less than k ahead of them.
LEMMA FirstOnes ==
    ASSUME NEW S, IsFiniteSet(S), NEW ahead \in [S -> SUBSET S],
           \A i \in S : i \notin ahead[i],
           \A i \in S : \A j \in ahead[i] : ahead[j] \subseteq ahead[i],
           NEW k \in Nat, k <= Cardinality(S)
    PROVE  k <= Cardinality({i \in S : Cardinality(ahead[i]) < k})
  <1> DEFINE rank(i) == Cardinality(ahead[i])
             T == {i \in S : rank(i) < k}
             ranks == {rank(i) : i \in S \ T}
  <1>1. \A i \in S : IsFiniteSet(ahead[i]) /\ rank(i) \in Nat
    <2> SUFFICES ASSUME NEW i \in S  PROVE IsFiniteSet(ahead[i])  BY FS_CardinalityType
    <2> QED  BY FS_Subset
  <1>2. IsFiniteSet(T) /\ Cardinality(T) \in Nat /\ Cardinality(S) \in Nat
    <2>1. T \subseteq S  OBVIOUS
    <2> QED  BY <2>1, FS_Subset, FS_CardinalityType
  <1> SUFFICES ASSUME ~(k <= Cardinality(T))  PROVE FALSE  OBVIOUS
  <1>3. S \ T # {}
    <2>1. S # T
      <3> HIDE DEF T
      <3> QED  BY <1>2
    <2> QED  BY <2>1
  <1>4. ranks \subseteq Nat /\ ranks # {}  BY <1>1, <1>3
  <1>5. PICK r \in ranks : \A q \in ranks : r <= q  BY <1>4, Least
  <1>6. PICK m \in S \ T : r = rank(m)  BY <1>5
  <1>7. ASSUME NEW j \in ahead[m]  PROVE j \in T
    <2>1. j \in S /\ ahead[j] \subseteq ahead[m] /\ j \notin ahead[j]  BY <1>6
    <2>2. rank(j) < rank(m)
      <3>1. IsFiniteSet(ahead[m]) /\ ahead[j] # ahead[m]  BY <2>1, <1>1, <1>6
      <3> QED  BY <3>1, <2>1, FS_Subset, <1>1
    <2>3. CASE j \notin T
      <3>1. rank(j) \in ranks  BY <2>1, <2>3
      <3> HIDE DEF ranks, T
      <3> QED  BY <3>1, <2>2, <1>5, <1>6, <1>1, <2>1
    <2> QED  BY <2>3
  <1>8. rank(m) <= Cardinality(T)  BY <1>7, <1>2, FS_Subset
  <1>9. rank(m) < k
    <2> HIDE DEF T
    <2> QED  BY <1>8, <1>2, <1>1, <1>6
  <1> QED  BY <1>9, <1>6

-----------------------------------------------------------------------------
(* The summary of a judgment pilot again: its figures are of the same runs.  *)

\* A sum of numbers added up one after the other is 0 exactly when each is.
LEMMA SumIsZero ==
    ASSUME NEW last \in Nat, NEW g, NEW add \in [1..last -> Nat],
           g[0] = 0, \A n \in 1..last : g[n] = g[n - 1] + add[n]
    PROVE  g[last] = 0 <=> \A n \in 1..last : add[n] = 0
  <1> DEFINE Right(m) == /\ g[m] \in Nat
                         /\ g[m] = 0 <=> \A n \in 1..m : add[n] = 0
             Wrong == {m \in 0..last : ~Right(m)}
  <1>1. Right(0)  OBVIOUS
  <1>2. ASSUME NEW m \in 1..last, Right(m - 1)  PROVE Right(m)
    <2>1. add[m] \in Nat /\ g[m] = g[m - 1] + add[m]  OBVIOUS
    <2>2. g[m] \in Nat /\ (g[m] = 0 <=> g[m - 1] = 0 /\ add[m] = 0)
      <3> HIDE DEF Wrong
      <3> QED  BY <2>1, <1>2
    <2>3. \A n \in 1..m : n \in 1..(m - 1) \/ n = m  OBVIOUS
    <2>4. \A n \in 1..(m - 1) : n \in 1..m  OBVIOUS
    <2>5. m \in 1..m  OBVIOUS
    <2> QED  BY <1>2, <2>2, <2>3, <2>4, <2>5
  <1> HIDE DEF Right
  <1>3. Wrong = {}
    <2> SUFFICES ASSUME Wrong # {}  PROVE FALSE  OBVIOUS
    <2>0. Wrong \subseteq Nat  OBVIOUS
    <2>1. PICK m \in Wrong : \A k \in Wrong : m <= k  BY <2>0, Least
    <2>2. CASE m = 0  BY <2>1, <2>2, <1>1
    <2>3. CASE m # 0
      <3>1. m - 1 \in 0..last /\ m \in 1..last /\ m - 1 \notin Wrong  BY <2>1, <2>3
      <3> QED  BY <3>1, <2>1, <1>2
    <2> QED  BY <2>2, <2>3
  <1>4. Right(last)  BY <1>3
  <1> QED  BY <1>4 DEF Right

\* Brier's score is perfect only when every answer was.
LEMMA BrierZero ==
    ASSUME NEW runs, NEW labels, RetainedTyped(runs)
    PROVE  Summary!Brier(runs, labels) = 0 <=>
             \A i \in Summary!Observed(runs, labels) : runs[i].p = Summary!Truth(labels, runs[i])
  <1> DEFINE last == Len(runs)
             looked == Summary!Observed(runs, labels)
             square(n) == Summary!Error(labels, runs[n]) * Summary!Error(labels, runs[n])
             add(n) == IF n \in looked THEN square(n) ELSE 0
             Is(f) == f = [n \in 0..last |-> IF n = 0 THEN 0 ELSE f[n - 1] + add(n)]
             step == [n \in 1..last |-> [s \in Nat |-> s + add(n)]]
             g == CHOOSE f : Is(f)
  <1>1. Summary!Brier(runs, labels) = g[last]
    BY DEF Summary!Brier
  <1>2. last \in Nat /\ looked \subseteq 1..last /\ \A i \in looked : runs[i].p \in 0..10
    BY DEF RetainedTyped, ListTyped, Summary!Observed, Summary!Probable
  <1>3. ASSUME NEW i \in looked
        PROVE  square(i) \in Nat /\ (square(i) = 0 <=> runs[i].p = Summary!Truth(labels, runs[i]))
    <2>1. runs[i].p \in 0..10 /\ Summary!Truth(labels, runs[i]) \in {0, 10}
      BY <1>2 DEF Summary!Truth
    <2>2. Summary!Error(labels, runs[i]) \in Nat
          /\ (Summary!Error(labels, runs[i]) = 0 <=> runs[i].p = Summary!Truth(labels, runs[i]))
      BY <2>1 DEF Summary!Error, Summary!Diff
    <2>3. \A e \in Nat : e * e \in Nat /\ (e * e = 0 <=> e = 0)  OBVIOUS
    <2> QED  BY <2>2, <2>3
  <1> HIDE DEF square
  <1>4. /\ \A n \in 1..last : add(n) \in Nat
        /\ (\A n \in 1..last : add(n) = 0) <=> \A i \in looked : runs[i].p = Summary!Truth(labels, runs[i])
    <2> HIDE DEF looked
    <2> QED  BY <1>2, <1>3
  <1> HIDE DEF add
  <1>5. \A n \in 1..last : \A s \in Nat : step[n][s] \in Nat  BY <1>4
  <1>6. PICK f \in [0..last -> Nat] : f[0] = 0 /\ \A n \in 1..last : f[n] = step[n][f[n - 1]]
    <2> DEFINE T == Nat
    <2> HIDE DEF step, last
    <2>1. Stepwise(step, last, T, 0) /\ last \in Nat  BY <1>2, <1>5 DEF Stepwise
    <2> HIDE DEF T
    <2>2. \E f \in [0..last -> T] : f[0] = 0 /\ \A n \in 1..last : f[n] = step[n][f[n - 1]]
      BY ONLY <2>1, Recursion
    <2> QED  BY <2>2 DEF T
  <1>7. Is(f)
    <2>1. \A n \in 0..last : n = 0 \/ n \in 1..last  OBVIOUS
    <2>2. \A n \in 1..last : n - 1 \in 0..last /\ n # 0  OBVIOUS
    <2>3. \A n \in 1..last : f[n] = f[n - 1] + add(n)  BY <1>6, <2>2
    <2>4. f = [n \in 0..last |-> f[n]]  OBVIOUS
    <2> QED  BY <1>6, <2>1, <2>2, <2>3, <2>4
  <1>8. Is(g)
    <2> HIDE DEF Is
    <2> QED  BY <1>7
  <1>9. g[0] = 0 /\ \A n \in 1..last : g[n] = g[n - 1] + add(n)
    <2> HIDE DEF g
    <2>1. 0 \in 0..last /\ \A n \in 1..last : n \in 0..last /\ n # 0  BY <1>2
    <2>2. g = [n \in 0..last |-> IF n = 0 THEN 0 ELSE g[n - 1] + add(n)]  BY <1>8
    <2> QED  BY <2>1, <2>2
  <1> HIDE DEF g
  <1>10. g[last] = 0 <=> \A n \in 1..last : add(n) = 0
    <2> DEFINE added == [n \in 1..last |-> add(n)]
    <2>1. added \in [1..last -> Nat] /\ \A n \in 1..last : added[n] = add(n)  BY <1>4
    <2> HIDE DEF added, last
    <2>2. last \in Nat /\ g[0] = 0 /\ \A n \in 1..last : g[n] = g[n - 1] + added[n]  BY <1>2, <1>9, <2>1
    <2>3. g[last] = 0 <=> \A n \in 1..last : added[n] = 0  BY ONLY <2>1, <2>2, SumIsZero
    <2> QED  BY <2>1, <2>3
  <1> QED  BY <1>1, <1>4, <1>10

\* Some of the observed answers, the more confident ones, are kept.
LEMMA KeptFacts ==
    ASSUME NEW runs, NEW labels, RetainedTyped(runs)
    PROVE  LET looked == Summary!Observed(runs, labels)
               kept(q) == Summary!Kept(runs, labels, q)
           IN /\ kept(4) = looked
              /\ \A q \in 1..4 :
                    /\ 4 * Cardinality(kept(q)) >= q * Cardinality(looked)
                    /\ \A i \in kept(q), j \in looked \ kept(q) :
                          Summary!Confidence(runs[i]) >= Summary!Confidence(runs[j])
  <1> DEFINE looked == Summary!Observed(runs, labels)
             n == Cardinality(looked)
             conf(i) == Summary!Confidence(runs[i])
             ahead == [i \in looked |-> Summary!Ahead(runs, labels, i)]
  <1>0. \A S : Summary!Cardinality(S) = Cardinality(S)
    BY DEF Summary!Cardinality, Cardinality
  <1>1. looked \subseteq 1..Len(runs) /\ Len(runs) \in Nat /\ \A i \in looked : runs[i].p \in 0..10
    BY DEF RetainedTyped, ListTyped, Summary!Observed, Summary!Probable
  <1>2. IsFiniteSet(looked) /\ n \in Nat
    <2>1. IsFiniteSet(1..Len(runs))  BY <1>1, FS_Interval
    <2>2. IsFiniteSet(looked)  BY <1>1, <2>1, FS_Subset
    <2> QED  BY <2>2, FS_CardinalityType
  <1>3. \A i \in looked : conf(i) \in Nat
    <2> SUFFICES ASSUME NEW i \in looked  PROVE conf(i) \in Nat  OBVIOUS
    <2> DEFINE p == runs[i].p
    <2>1. p \in 0..10  BY <1>1
    <2>2. {p, 10 - p} \subseteq Nat /\ \E x \in {p, 10 - p} : \A y \in {p, 10 - p} : x >= y
      BY <2>1
    <2> HIDE DEF p
    <2>3. Summary!Max({p, 10 - p}) \in {p, 10 - p}  BY <2>2 DEF Summary!Max
    <2> QED  BY <2>2, <2>3 DEF p, Summary!Confidence
  <1> HIDE DEF conf
  <1>4. \A i \in looked : ahead[i] = {j \in looked : conf(j) > conf(i) \/ (conf(j) = conf(i) /\ j < i)}
    BY DEF Summary!Ahead, conf
  <1> HIDE DEF ahead, looked
  <1>5. /\ ahead \in [looked -> SUBSET looked] /\ \A i \in looked : i \notin ahead[i]
        /\ \A i \in looked : \A j \in ahead[i] : ahead[j] \subseteq ahead[i]
    <2>1. ahead \in [looked -> SUBSET looked]
      <3>1. \A i \in looked : ahead[i] \subseteq looked  BY <1>4
      <3> QED  BY <3>1 DEF ahead
    <2>2. looked \subseteq Nat  BY <1>1
    <2>3. ASSUME NEW i \in looked, NEW j \in ahead[i], NEW k \in ahead[j]  PROVE k \in ahead[i]
      <3>1. j \in looked /\ k \in looked  BY <1>4
      <3>2. conf(j) > conf(i) \/ (conf(j) = conf(i) /\ j < i)  BY <1>4
      <3>3. conf(k) > conf(j) \/ (conf(k) = conf(j) /\ k < j)  BY <1>4, <3>1
      <3>4. conf(k) > conf(i) \/ (conf(k) = conf(i) /\ k < i)
        BY <3>1, <3>2, <3>3, <1>3, <2>2
      <3> QED  BY <3>1, <3>4, <1>4
    <2>4. ASSUME NEW i \in looked  PROVE i \notin ahead[i]  BY <1>3, <1>4, <2>2
    <2> QED  BY <2>1, <2>3, <2>4
  <1>6. ASSUME NEW q \in 1..4
        PROVE  Summary!Kept(runs, labels, q) =
                 {i \in looked : Cardinality(ahead[i]) < Summary!Quarters(n, q)}
    BY <1>0 DEF Summary!Kept, ahead, looked
  <1>7. ASSUME NEW q \in 1..4
        PROVE  /\ Summary!Quarters(n, q) \in Nat /\ Summary!Quarters(n, q) <= n
               /\ 4 * Summary!Quarters(n, q) >= q * n
               /\ Summary!Quarters(n, 4) = n
    <2>1. n * q \in Nat /\ n * q <= 4 * n /\ n * q = q * n
      <3>1. q = 1 \/ q = 2 \/ q = 3 \/ q = 4  OBVIOUS
      <3> HIDE DEF n
      <3> QED  BY <3>1, <1>2
    <2>2. ASSUME NEW m \in Nat, m <= 4 * n
          PROVE  /\ (m + 4 - 1) \div 4 \in Nat /\ (m + 4 - 1) \div 4 <= n
                 /\ 4 * ((m + 4 - 1) \div 4) >= m
      <3> HIDE DEF n
      <3> QED  BY <2>2, <1>2
    <2>3. (n * 4 + 4 - 1) \div 4 = n
      <3> HIDE DEF n
      <3> QED  BY <1>2
    <2> QED  BY <2>1, <2>2, <2>3 DEF Summary!Quarters, Summary!CeilDiv
  <1>8. \A i \in looked : IsFiniteSet(ahead[i]) /\ Cardinality(ahead[i]) \in Nat
    <2>1. \A i \in looked : ahead[i] \subseteq looked  BY <1>4
    <2> QED  BY <2>1, <1>2, FS_Subset, FS_CardinalityType
  <1>9. Summary!Kept(runs, labels, 4) = looked
    <2>0. Summary!Kept(runs, labels, 4) = {i \in looked : Cardinality(ahead[i]) < n}
      <3> HIDE DEF n
      <3>1. 4 \in 1..4 /\ Summary!Quarters(n, 4) = n  BY <1>7
      <3> QED  BY <3>1, <1>6 DEF n
    <2> SUFFICES ASSUME NEW i \in looked  PROVE Cardinality(ahead[i]) < n
      BY <2>0
    <2>1. ahead[i] \subseteq looked /\ ahead[i] # looked  BY <1>4, <1>5
    <2>2. Cardinality(ahead[i]) <= n /\ (Cardinality(ahead[i]) = n => ahead[i] = looked)
      BY <2>1, <1>2, FS_Subset
    <2> QED  BY <2>1, <2>2, <1>2, <1>8
  <1>10. ASSUME NEW q \in 1..4
         PROVE  4 * Cardinality(Summary!Kept(runs, labels, q)) >= q * n
    <2> DEFINE k == Summary!Quarters(n, q)
               kept == Summary!Kept(runs, labels, q)
    <2>1. k \in Nat /\ k <= n /\ 4 * k >= q * n  BY <1>7
    <2> HIDE DEF k
    <2>2. k <= Cardinality({i \in looked : Cardinality(ahead[i]) < k})
      BY <2>1, <1>2, <1>5, FirstOnes
    <2>3. kept = {i \in looked : Cardinality(ahead[i]) < k}  BY <1>6 DEF k
    <2>4. Cardinality(kept) \in Nat
      <3>1. kept \subseteq looked  BY <2>3
      <3> QED  BY <3>1, <1>2, FS_Subset, FS_CardinalityType
    <2>5. q * n \in Nat
      <3>1. q = 1 \/ q = 2 \/ q = 3 \/ q = 4  OBVIOUS
      <3> HIDE DEF n
      <3> QED  BY <3>1, <1>2
    <2> DEFINE qn == q * n
    <2> HIDE DEF kept, qn
    <2>6. k <= Cardinality(kept)  BY <2>2, <2>3
    <2>7. qn \in Nat /\ 4 * k >= qn  BY <2>1, <2>5 DEF qn
    <2>8. 4 * Cardinality(kept) >= qn  BY <2>1, <2>4, <2>6, <2>7
    <2> QED  BY <2>8 DEF kept, qn
  <1>11. ASSUME NEW q \in 1..4, NEW i \in Summary!Kept(runs, labels, q),
                NEW j \in looked \ Summary!Kept(runs, labels, q)
         PROVE  conf(i) >= conf(j)
    <2>1. /\ i \in looked /\ Cardinality(ahead[i]) < Summary!Quarters(n, q)
          /\ ~(Cardinality(ahead[j]) < Summary!Quarters(n, q))
      BY <1>6
    <2> SUFFICES ASSUME ~(conf(i) >= conf(j))  PROVE FALSE  OBVIOUS
    <2>2. ahead[j] \subseteq ahead[i]
      <3>1. j \in ahead[i]  BY <2>1, <1>3, <1>4
      <3> QED  BY <3>1, <2>1, <1>5
    <2>3. Cardinality(ahead[j]) <= Cardinality(ahead[i])  BY <2>1, <2>2, <1>8, FS_Subset
    <2> QED  BY <2>1, <2>3, <1>7, <1>8
  <1> QED  BY <1>9, <1>10, <1>11 DEF looked, conf

\* However many runs and labels, the bins of a summary hold each observed answer
\* once, and what its figures are computed from is what was observed
\* (application/judgment/pilot.rs).
THEOREM FiguresAreOfTheSame ==
    ASSUME NEW runs, NEW labels, RetainedTyped(runs)
    PROVE  Summary!FiguresAgree(runs, labels)
  <1> DEFINE looked == Summary!Observed(runs, labels)
             bins == Summary!Reliability(runs, labels)
  <1>0. \A S : Summary!Cardinality(S) = Cardinality(S)
    BY DEF Summary!Cardinality, Cardinality
  <1>1. \A i \in looked : runs[i].p \in 0..10
    BY DEF RetainedTyped, ListTyped, Summary!Observed, Summary!Probable
  <1>2. ASSUME NEW i \in looked  PROVE Summary!Bin(runs[i]) \in 0..4
    <2> DEFINE b == (runs[i].p * 5) \div 10
    <2>1. b \in Nat  BY <1>1
    <2>2. {b, 4} \subseteq Nat /\ \E x \in {b, 4} : \A y \in {b, 4} : x <= y  BY <2>1
    <2> HIDE DEF b
    <2>3. Summary!Min({b, 4}) \in {b, 4} /\ Summary!Min({b, 4}) <= 4  BY <2>2 DEF Summary!Min
    <2> QED  BY <2>1, <2>3 DEF b, Summary!Bin
  <1>3. UNION Summary!Range(bins) = looked
    <2>1. Summary!Range(bins) = {{i \in looked : Summary!Bin(runs[i]) = b} : b \in 0..4}
      BY DEF Summary!Range, Summary!Reliability
    <2> HIDE DEF looked
    <2> QED  BY <2>1, <1>2
  <1> QED
    BY <1>0, <1>3, KeptFacts, BrierZero DEF Summary!FiguresAgree

-----------------------------------------------------------------------------
(* The figures of a pilot trial, for any number of runs and attempts.        *)

\* The percentile a trial reports is the least value that 95 % of the values do
\* not exceed, for any number of values (domain/pilot/metrics.rs).
THEOREM PercentileIsRight ==
    ASSUME NEW sorted, DOMAIN sorted = 1..Len(sorted), Len(sorted) \in Nat,
           \A i \in DOMAIN sorted : sorted[i] \in Nat,
           \A i, j \in DOMAIN sorted : i <= j => sorted[i] <= sorted[j]
    PROVE  Metrics!PercentileRight(sorted)
  <1> DEFINE n == Len(sorted)
             k == Metrics!CeilDiv(95 * n, 100)
             upTo(v) == Cardinality({i \in DOMAIN sorted : sorted[i] <= v})
  <1>0. \A S : Metrics!Cardinality(S) = Cardinality(S)
    BY DEF Metrics!Cardinality, Cardinality
  <1> SUFFICES ASSUME n # 0
               PROVE  /\ 100 * upTo(sorted[k]) >= 95 * n
                      /\ \A v \in Metrics!Range(sorted) : v < sorted[k] => 100 * upTo(v) < 95 * n
    <2>1. sorted = <<>> => n = 0  OBVIOUS
    <2>2. n = 0 => sorted = <<>>  OBVIOUS
    <2> QED  BY <1>0, <2>1, <2>2 DEF Metrics!PercentileRight, Metrics!P95
  <1>1. k \in 1..n /\ 100 * k >= 95 * n /\ 100 * (k - 1) < 95 * n
    <2> HIDE DEF n
    <2>1. n \in Nat  BY DEF n
    <2> QED  BY <2>1 DEF Metrics!CeilDiv
  <1> HIDE DEF k
  <1>2. \A m \in Nat : Cardinality(1..m) = m /\ IsFiniteSet(1..m)
    BY FS_Interval
  <1>4. ASSUME NEW S, S \subseteq DOMAIN sorted  PROVE IsFiniteSet(S) /\ Cardinality(S) \in Nat
    BY <1>4, <1>2, FS_Subset, FS_CardinalityType
  <1>5. 100 * upTo(sorted[k]) >= 95 * n
    <2> DEFINE S == {i \in DOMAIN sorted : sorted[i] <= sorted[k]}
    <2>1. \A i \in 1..k : i \in S
      <3> SUFFICES ASSUME NEW i \in 1..k  PROVE i \in DOMAIN sorted /\ sorted[i] <= sorted[k]
        OBVIOUS
      <3>1. i \in 1..n /\ i <= k  BY <1>1
      <3> QED  BY <3>1, <1>1
    <2>2. S \subseteq DOMAIN sorted  OBVIOUS
    <2> HIDE DEF S
    <2>3. Cardinality(1..k) <= Cardinality(S)  BY <2>1, <2>2, <1>4, FS_Subset
    <2>4. Cardinality(S) \in Nat /\ k <= Cardinality(S)  BY <2>2, <2>3, <1>1, <1>2, <1>4
    <2>5. upTo(sorted[k]) = Cardinality(S)  BY DEF S
    <2> HIDE DEF upTo, n
    <2>6. n \in Nat  BY DEF n
    <2> QED  BY <2>4, <2>5, <2>6, <1>1
  <1>6. ASSUME NEW v \in Metrics!Range(sorted), v < sorted[k]  PROVE 100 * upTo(v) < 95 * n
    <2> DEFINE S == {i \in DOMAIN sorted : sorted[i] <= v}
    <2>1. v \in Nat  BY DEF Metrics!Range
    <2>2. S \subseteq 1..(k - 1)
      <3> SUFFICES ASSUME NEW i \in DOMAIN sorted, sorted[i] <= v  PROVE i \in 1..(k - 1)
        OBVIOUS
      <3>1. i \in 1..n /\ sorted[i] \in Nat /\ sorted[k] \in Nat  BY <1>1
      <3>2. ~(sorted[k] <= sorted[i])  BY <3>1, <2>1, <1>6
      <3>3. ~(k <= i)  BY <3>1, <3>2, <1>1
      <3> QED  BY <3>1, <3>3, <1>1
    <2>3. S \subseteq DOMAIN sorted  OBVIOUS
    <2> HIDE DEF S
    <2>4. k - 1 \in Nat  BY <1>1
    <2>5. Cardinality(S) <= k - 1
      <3>1. Cardinality(1..(k - 1)) = k - 1 /\ IsFiniteSet(1..(k - 1))  BY <2>4, <1>2
      <3>2. Cardinality(S) <= Cardinality(1..(k - 1))  BY <2>2, <3>1, FS_Subset
      <3> QED  BY <3>1, <3>2
    <2>6. Cardinality(S) \in Nat  BY <2>3, <1>4
    <2>7. upTo(v) = Cardinality(S)  BY DEF S
    <2> HIDE DEF upTo, n
    <2>8. n \in Nat  BY DEF n
    <2> QED  BY <2>4, <2>5, <2>6, <2>7, <2>8, <1>1
  <1> QED  BY <1>5, <1>6

\* A run that is lost, or the last report of one, never makes a trial acceptable
\* and changes no denominator (domain/pilot/metrics.rs:92-247).
THEOREM LossIsNeverABenefit ==
    ASSUME NEW p, NEW runs, MeasuredRuns(runs), NEW i \in DOMAIN runs
    PROVE  Metrics!LossIsNoBenefit(p, runs, i)
  <1> DEFINE r == runs[i]
             lost == Metrics!Lost(r)
             cut == Metrics!Cut(r)
  <1>1. RunTyped(r)  BY DEF MeasuredRuns, ListTyped
  <1>2. /\ lost.eligible = r.eligible /\ lost.issues = r.issues /\ lost.attempts = <<>>
        /\ cut.eligible = r.eligible /\ cut.issues = r.issues
        /\ cut.attempts = Metrics!LastReportLost(r.attempts)
    BY <1>1 DEF RunTyped, ListTyped, Metrics!Lost, Metrics!Cut
  <1>3. ASSUME NEW e, e.eligible = r.eligible, e.issues = r.issues
        PROVE  LET changed == [runs EXCEPT ![i] = e] IN
               /\ DOMAIN changed = DOMAIN runs
               /\ Metrics!Repair(p, changed, DOMAIN changed).denominator =
                    Metrics!Repair(p, runs, DOMAIN runs).denominator
               /\ Metrics!FirstSuccess(p, changed, DOMAIN changed).denominator =
                    Metrics!FirstSuccess(p, runs, DOMAIN runs).denominator
               /\ Metrics!Detection(changed, DOMAIN changed).denominator =
                    Metrics!Detection(runs, DOMAIN runs).denominator
    <2> DEFINE changed == [runs EXCEPT ![i] = e]
    <2>1. DOMAIN changed = DOMAIN runs
          /\ \A j \in DOMAIN runs : changed[j].eligible = runs[j].eligible
                                    /\ changed[j].issues = runs[j].issues
      BY <1>3
    <2> HIDE DEF changed
    <2>2. {j \in DOMAIN changed : changed[j].eligible} = {j \in DOMAIN runs : runs[j].eligible}
      BY <2>1
    <2>3. Metrics!IssuesOf(changed, DOMAIN changed) = Metrics!IssuesOf(runs, DOMAIN runs)
      BY <2>1, Zenon DEF Metrics!IssuesOf
    <2>4. \A rs, S : Metrics!Detection(rs, S).denominator = Metrics!Cardinality(Metrics!IssuesOf(rs, S))
      BY DEF Metrics!Detection, Metrics!Rate
    <2>5. /\ Metrics!Repair(p, changed, DOMAIN changed).denominator =
               Metrics!Cardinality({j \in DOMAIN changed : changed[j].eligible})
          /\ Metrics!Repair(p, runs, DOMAIN runs).denominator =
               Metrics!Cardinality({j \in DOMAIN runs : runs[j].eligible})
      BY DEF Metrics!Repair, Metrics!Success, Metrics!Rate
    <2>6. \A rs, S : Metrics!FirstSuccess(p, rs, S).denominator = Metrics!Cardinality(S)
      BY DEF Metrics!FirstSuccess, Metrics!Success, Metrics!Rate
    <2>7. Metrics!Repair(p, changed, DOMAIN changed).denominator =
            Metrics!Repair(p, runs, DOMAIN runs).denominator
      BY <2>2, <2>5
    <2>8. Metrics!FirstSuccess(p, changed, DOMAIN changed).denominator =
            Metrics!FirstSuccess(p, runs, DOMAIN runs).denominator
      BY <2>1, <2>6
    <2>9. Metrics!Detection(changed, DOMAIN changed).denominator =
            Metrics!Detection(runs, DOMAIN runs).denominator
      BY <2>3, <2>4
    <2> QED  BY <2>1, <2>7, <2>8, <2>9 DEF changed
  <1>4. ASSUME NEW e, Metrics!HasGap(e)
        PROVE  ~Metrics!MayBeAccepted(p, [runs EXCEPT ![i] = e])
    <2>1. e \in Metrics!Range([runs EXCEPT ![i] = e])  BY DEF Metrics!Range
    <2> QED  BY <1>4, <2>1 DEF Metrics!MayBeAccepted, Metrics!Ready, Metrics!Complete
  <1>5. Metrics!HasGap(lost)  BY <1>2 DEF Metrics!HasGap
  <1>6. ASSUME r.attempts # <<>>  PROVE Metrics!HasGap(cut)
    <2> DEFINE n == Len(r.attempts)
               last == r.attempts[n]
               after == Metrics!LastReportLost(r.attempts)
    <2>1. n \in DOMAIN r.attempts /\ AttemptTyped(last)
      BY <1>1, <1>6 DEF RunTyped, ListTyped
    <2>2. [last EXCEPT !.report = Unknown].report = Unknown
      <3> HIDE DEF last
      <3> QED  BY <2>1 DEF AttemptTyped
    <2>3. n \in DOMAIN after /\ after[n].report = Unknown
      BY <2>1, <2>2 DEF Metrics!LastReportLost
    <2> HIDE DEF n, last, after
    <2>4. cut.attempts = after  BY <1>2 DEF after
    <2> HIDE DEF cut
    <2> QED  BY <2>3, <2>4 DEF Metrics!HasGap, Metrics!Gaps, Metrics!Gap
  <1>7. Metrics!LossIsNoBenefit(p, runs, i) <=>
          LET l == [runs EXCEPT ![i] = lost]
              c == [runs EXCEPT ![i] = cut]
              denominators(rs) ==
                <<Metrics!Repair(p, rs, DOMAIN rs).denominator,
                  Metrics!FirstSuccess(p, rs, DOMAIN rs).denominator,
                  Metrics!Detection(rs, DOMAIN rs).denominator>>
          IN /\ denominators(l) = denominators(runs) /\ denominators(c) = denominators(runs)
             /\ ~Metrics!MayBeAccepted(p, l)
             /\ runs[i].attempts # <<>> => ~Metrics!MayBeAccepted(p, c)
    BY Zenon DEF Metrics!LossIsNoBenefit
  <1> HIDE DEF lost, cut
  <1> QED  BY <1>2, <1>3, <1>4, <1>5, <1>6, <1>7

\* Attempts without progress that end with the n-th, as the audit counts them
LEMMA StagnantCounts ==
    ASSUME NEW trial, Len(trial.attempts) \in Nat
    PROVE  LET s == Metrics!Stagnant(trial) IN
           \A n \in 0..Len(trial.attempts) :
             /\ s[n] \in Nat
             /\ s[n] = IF n = 0 \/ Metrics!Progress(trial, n) THEN 0 ELSE s[n - 1] + 1
  <1> DEFINE last == Len(trial.attempts)
             Is(f) == f = [n \in 0..last |-> IF n = 0 \/ Metrics!Progress(trial, n) THEN 0
                                          ELSE f[n - 1] + 1]
             step == [n \in 1..last |-> [k \in Nat |-> IF Metrics!Progress(trial, n) THEN 0 ELSE k + 1]]
             s == CHOOSE f : Is(f)
  <1>1. Metrics!Stagnant(trial) = s  BY DEF Metrics!Stagnant
  <1>2. PICK f \in [0..last -> Nat] : f[0] = 0 /\ \A n \in 1..last : f[n] = step[n][f[n - 1]]
    <2> DEFINE T == Nat
    <2>1. Stepwise(step, last, T, 0) /\ last \in Nat  BY DEF Stepwise
    <2> HIDE DEF step, last, T
    <2>2. \E f \in [0..last -> T] : f[0] = 0 /\ \A n \in 1..last : f[n] = step[n][f[n - 1]]
      BY ONLY <2>1, Recursion
    <2> QED  BY <2>2 DEF T
  <1>3. Is(f)
    <2>1. \A n \in 0..last : n = 0 \/ n \in 1..last  OBVIOUS
    <2>2. \A n \in 1..last : n - 1 \in 0..last /\ n # 0  OBVIOUS
    <2>3. \A n \in 1..last : f[n] = IF Metrics!Progress(trial, n) THEN 0 ELSE f[n - 1] + 1
      BY <1>2, <2>2
    <2>4. f = [n \in 0..last |-> f[n]]  OBVIOUS
    <2> QED  BY <1>2, <2>1, <2>2, <2>3, <2>4
  <1>4. Is(s)
    <2> HIDE DEF Is
    <2> QED  BY <1>3
  <1>5. \A n \in 0..last : s[n] = IF n = 0 \/ Metrics!Progress(trial, n) THEN 0 ELSE s[n - 1] + 1
    <2> HIDE DEF s
    <2>1. s = [n \in 0..last |-> IF n = 0 \/ Metrics!Progress(trial, n) THEN 0 ELSE s[n - 1] + 1]
      BY <1>4
    <2> QED  BY <2>1
  <1> HIDE DEF s
  <1>6. {n \in 0..last : s[n] \notin Nat} = {}
    <2> DEFINE Wrong == {n \in 0..last : s[n] \notin Nat}
    <2> SUFFICES ASSUME Wrong # {}  PROVE FALSE  OBVIOUS
    <2>1. Wrong \subseteq Nat  OBVIOUS
    <2>2. PICK m \in Wrong : \A k \in Wrong : m <= k  BY <2>1, Least
    <2>3. m \in 0..last /\ m # 0 /\ ~Metrics!Progress(trial, m)  BY <1>5, <2>2
    <2>4. m - 1 \in 0..last /\ m - 1 \notin Wrong  BY <2>2, <2>3
    <2> QED  BY <2>2, <2>3, <2>4, <1>5
  <1> QED  BY <1>1, <1>5, <1>6

\* As long as nothing made progress, the count grows.
LEMMA StagnantGrows ==
    ASSUME NEW trial, Len(trial.attempts) \in Nat, NEW n \in 0..Len(trial.attempts), NEW k \in 0..n,
           \A m \in (n - k + 1)..n : ~Metrics!Progress(trial, m)
    PROVE  Metrics!Stagnant(trial)[n] >= k
  <1> DEFINE s == Metrics!Stagnant(trial)
             from == n - k
             Wrong == {m \in from..n : ~(s[m] >= m - from)}
  <1>1. \A m \in 0..Len(trial.attempts) :
          s[m] \in Nat /\ s[m] = IF m = 0 \/ Metrics!Progress(trial, m) THEN 0 ELSE s[m - 1] + 1
    BY StagnantCounts
  <1> HIDE DEF s
  <1>2. Wrong = {}
    <2> SUFFICES ASSUME Wrong # {}  PROVE FALSE  OBVIOUS
    <2>1. Wrong \subseteq Nat  OBVIOUS
    <2>2. PICK m \in Wrong : \A j \in Wrong : m <= j  BY <2>1, Least
    <2>3. m \in from..n /\ ~(s[m] >= m - from) /\ m \in 0..Len(trial.attempts)  BY <2>2
    <2>4. m # from  BY <2>3, <1>1
    <2>5. m - 1 \in from..n /\ m - 1 \in 0..Len(trial.attempts) /\ m - 1 \notin Wrong /\ m # 0
          /\ ~Metrics!Progress(trial, m)
      BY <2>2, <2>3, <2>4
    <2>6. s[m - 1] >= (m - 1) - from /\ s[m - 1] \in Nat /\ s[m] = s[m - 1] + 1
      BY <2>3, <2>5, <1>1
    <2> QED  BY <2>3, <2>6
  <1>3. n \notin Wrong /\ n \in from..n  BY <1>2
  <1>4. s[n] >= n - from  BY <1>3
  <1> QED  BY <1>1, <1>4 DEF s

\* Who keeps to the stop rule made progress within its limit.
LEMMA StopRuleKept ==
    ASSUME NEW p, p.stagnation \in Nat \ {0}, NEW trial, Len(trial.attempts) \in Nat,
           DOMAIN trial.attempts = 1..Len(trial.attempts),
           ~Metrics!Deviates(p, trial), NEW n \in DOMAIN trial.attempts, n > p.stagnation
    PROVE  \E k \in (n - p.stagnation)..(n - 1) : Metrics!Progress(trial, k)
  <1> DEFINE last == Len(trial.attempts)
             late == {m \in DOMAIN trial.attempts : Metrics!Stagnant(trial)[m] >= p.stagnation}
  <1> SUFFICES ASSUME \A k \in (n - p.stagnation)..(n - 1) : ~Metrics!Progress(trial, k)
               PROVE  FALSE
    OBVIOUS
  <1>1. n - 1 \in 0..last /\ p.stagnation \in 0..(n - 1) /\ (n - 1) - p.stagnation + 1 = n - p.stagnation
    OBVIOUS
  <1>2. Metrics!Stagnant(trial)[n - 1] >= p.stagnation
    <2>1. \A m \in ((n - 1) - p.stagnation + 1)..(n - 1) : ~Metrics!Progress(trial, m)  BY <1>1
    <2> QED  BY <1>1, <2>1, StagnantGrows
  <1>3. n - 1 \in late  BY <1>1, <1>2
  <1>4. late \subseteq Nat  OBVIOUS
  <1>5. PICK m \in late : \A k \in late : m <= k  BY <1>3, <1>4, Least
  <1>6. Metrics!Min(late) \in late /\ Metrics!Min(late) <= n - 1
    <2> HIDE DEF late
    <2> QED  BY <1>3, <1>5 DEF Metrics!Min
  <1>7. Metrics!StopAfter(p, trial) = Metrics!Min(late)
    BY <1>3 DEF Metrics!StopAfter
  <1>8. Metrics!Min(late) \in Nat  BY <1>4, <1>6
  <1> HIDE DEF late
  <1> QED  BY <1>6, <1>7, <1>8, NoneIsApart DEF Metrics!Deviates

\* What is met was measured with nothing unknown.
LEMMA MetIsKnown ==
    ASSUME NEW rate, NEW percent, NEW minimum,
           Metrics!Threshold(rate, percent, minimum) \notin {"unknown", "not_met"}
    PROVE  /\ rate.denominator > 0 /\ rate.unknown = 0
           /\ minimum => 100 * rate.numerator >= percent * rate.denominator
  BY DEF Metrics!Threshold, Metrics!Known

\* When all accepted is all, each is.
LEMMA AllSucceeded ==
    ASSUME NEW S, IsFiniteSet(S), NEW T \in SUBSET S, 
           100 * Cardinality(T) >= 100 * Cardinality(S)
    PROVE  T = S
  <1>1. IsFiniteSet(T) /\ Cardinality(T) \in Nat /\ Cardinality(S) \in Nat
    BY FS_Subset, FS_CardinalityType
  <1>2. Cardinality(T) >= Cardinality(S)  BY <1>1
  <1>3. Cardinality(T) <= Cardinality(S) /\ (Cardinality(T) = Cardinality(S) => T = S)
    BY FS_Subset
  <1> QED  BY <1>1, <1>2, <1>3

\* However many runs and attempts a trial has, it may be accepted only when each
\* of its runs was observed and reviewed, each attempt was within the budget, at
\* a known cost and before the stop rule said stop, and each eligible run under
\* the gate ended in a full pass (domain/pilot/rows.rs:69-233, metrics.rs:92-247).
THEOREM AcceptanceIsEarned ==
    ASSUME NEW p, p.stagnation \in Nat \ {0}, NEW runs, MeasuredRuns(runs)
    PROVE  Metrics!AcceptedIsEarned(p, runs)
  <1> DEFINE S == Metrics!Candidates(runs)
             eligible == {i \in S : runs[i].eligible}
             found == Metrics!FoundIn(runs, S)
  <1>0. \A X : Metrics!Cardinality(X) = Cardinality(X)
    BY DEF Metrics!Cardinality, Cardinality
  <1> SUFFICES ASSUME Metrics!MayBeAccepted(p, runs), NEW trial \in Metrics!Range(runs)
               PROVE  /\ trial.observed /\ trial.attempts # <<>> /\ trial.review # None
                      /\ \A n \in DOMAIN trial.attempts :
                             /\ Metrics!Within(p, trial, n) /\ trial.attempts[n].cost # None
                             /\ n > p.stagnation =>
                                  \E k \in (n - p.stagnation)..(n - 1) : Metrics!Progress(trial, k)
                      /\ trial.workflow = "qualitygate" =>
                             /\ trial.issues # None
                             /\ \A d \in Metrics!Found(trial) : d.label # None
                             /\ (p.repair = 100 /\ trial.eligible) =>
                                  /\ ~trial.excluded
                                  /\ LET t == trial.attempts[Len(trial.attempts)] IN
                                     /\ t.status = "completed" /\ t.full /\ t.changed
                                     /\ t.report.decision = "pass" /\ ~t.report.pending
    BY Zenon DEF Metrics!AcceptedIsEarned
  <1> PICK i \in DOMAIN runs : trial = runs[i]  BY DEF Metrics!Range
  <1>1. /\ RunTyped(trial) /\ trial \in Metrics!Range(runs)
        /\ \A j \in DOMAIN runs : RunTyped(runs[j]) /\ runs[j] \in Metrics!Range(runs)
    BY DEF MeasuredRuns, ListTyped, Metrics!Range
  <1>2. /\ ~Metrics!HasGap(trial) /\ Metrics!EvidenceComplete(trial) /\ ~Metrics!Deviates(p, trial)
        /\ Metrics!Outcome(p, runs) = "met"
    BY <1>1 DEF Metrics!MayBeAccepted, Metrics!Ready, Metrics!Complete, Metrics!Audit
  <1>3. S # {} /\ \A c \in Metrics!Checks(p, runs) : c \notin {"unknown", "not_met"}
    BY <1>2 DEF Metrics!Outcome
  <1>4. Metrics!Budget(p, runs) = "met" /\ ~Metrics!InputsUnknown(trial)
    <2>1. Metrics!Budget(p, runs) \notin {"unknown", "not_met"}
      BY <1>3, Zenon DEF Metrics!Checks
    <2> QED  BY <1>1, <2>1 DEF Metrics!Budget
  <1>5. ASSUME NEW n \in DOMAIN trial.attempts
        PROVE  /\ Metrics!Within(p, trial, n) /\ trial.attempts[n].cost # None
               /\ n > p.stagnation =>
                    \E k \in (n - p.stagnation)..(n - 1) : Metrics!Progress(trial, k)
    <2>1. Metrics!Within(p, trial, n)  BY <1>2 DEF Metrics!Deviates
    <2>2. trial.attempts[n].cost # None  BY <1>4 DEF Metrics!InputsUnknown, Metrics!CostUnknown
    <2>3. ASSUME n > p.stagnation
          PROVE  \E k \in (n - p.stagnation)..(n - 1) : Metrics!Progress(trial, k)
      BY <1>1, <1>2, <2>3, StopRuleKept DEF RunTyped, ListTyped
    <2> QED  BY <2>1, <2>2, <2>3
  <1>6. IsFiniteSet(S) /\ S \subseteq DOMAIN runs
    <2>1. S \subseteq DOMAIN runs  BY DEF Metrics!Candidates
    <2>2. IsFiniteSet(1..Len(runs))  BY FS_Interval DEF MeasuredRuns, ListTyped
    <2> QED  BY <2>1, <2>2, FS_Subset DEF MeasuredRuns, ListTyped
  <1>7. IsFiniteSet(found)
    <2>1. \A j \in S : IsFiniteSet(Metrics!Found(runs[j]))  BY <1>1, <1>6 DEF RunTyped, ListTyped
    <2> DEFINE sets == {Metrics!Found(runs[j]) : j \in S}
    <2>2. IsFiniteSet(sets)
      <3> DEFINE f == [j \in S |-> Metrics!Found(runs[j])]
      <3>1. f \in Surjection(S, sets)  BY DEF Surjection
      <3> QED  BY <3>1, <1>6, FS_Surjection DEF ExistsSurjection
    <2>3. \A X \in sets : IsFiniteSet(X)  BY <2>1
    <2>4. IsFiniteSet(UNION sets)  BY <2>2, <2>3, FS_UNION
    <2> QED  BY <2>4 DEF Metrics!FoundIn
  <1>8. ASSUME trial.workflow = "qualitygate"
        PROVE  trial.issues # None /\ \A d \in Metrics!Found(trial) : d.label # None
    <2> DEFINE unknown == Metrics!TruthUnknown(runs, S)
               reviewed == Metrics!Reviewed(found)
    <2>1. i \in S  BY <1>8 DEF Metrics!Candidates
    <2>2. Cardinality(unknown) + Cardinality(found) - Cardinality(reviewed) = 0
      <3>1. Metrics!Threshold(Metrics!Detection(runs, S), p.detection, TRUE) \notin {"unknown", "not_met"}
        BY <1>3, Zenon DEF Metrics!Checks
      <3>2. Metrics!Detection(runs, S).unknown = 0
        <4> HIDE DEF S
        <4> QED  BY <3>1, MetIsKnown
      <3> QED  BY <3>2, <1>0 DEF Metrics!Detection, Metrics!Rate
    <2>3. unknown \subseteq S /\ reviewed \subseteq found
      BY DEF Metrics!TruthUnknown, Metrics!Reviewed
    <2>4. /\ IsFiniteSet(unknown) /\ Cardinality(unknown) \in Nat
          /\ IsFiniteSet(reviewed) /\ Cardinality(reviewed) \in Nat /\ Cardinality(found) \in Nat
          /\ Cardinality(reviewed) <= Cardinality(found)
          /\ (Cardinality(reviewed) = Cardinality(found) => reviewed = found)
      <3> HIDE DEF unknown, reviewed, found, S
      <3> QED  BY <2>3, <1>6, <1>7, FS_Subset, FS_CardinalityType
    <2>5. Cardinality(unknown) = 0 /\ reviewed = found
      <3> HIDE DEF unknown, reviewed, found
      <3> QED  BY <2>2, <2>4
    <2>6. unknown = {}
      <3> HIDE DEF unknown
      <3> QED  BY <2>4, <2>5, FS_EmptySet
    <2>7. trial.issues # None  BY <2>1, <2>6 DEF Metrics!TruthUnknown
    <2>8. Metrics!Found(trial) \subseteq found  BY <2>1 DEF Metrics!FoundIn
    <2> QED  BY <2>5, <2>7, <2>8 DEF Metrics!Reviewed
  <1>9. ASSUME trial.workflow = "qualitygate", p.repair = 100, trial.eligible
        PROVE  Metrics!Accepted(p, trial) = TRUE
    <2> DEFINE accepted == {j \in eligible : Metrics!Accepted(p, runs[j]) = TRUE}
    <2>1. i \in eligible  BY <1>9 DEF Metrics!Candidates
    <2>2. Metrics!Threshold(Metrics!Repair(p, runs, S), 100, TRUE) \notin {"unknown", "not_met"}
      BY <1>3, <1>9, Zenon DEF Metrics!Checks
    <2>3. Metrics!Repair(p, runs, S).numerator = Cardinality(accepted)
          /\ Metrics!Repair(p, runs, S).denominator = Cardinality(eligible)
      BY <1>0 DEF Metrics!Repair, Metrics!Success, Metrics!Rate
    <2>4. 100 * Cardinality(accepted) >= 100 * Cardinality(eligible)
      <3> HIDE DEF S, accepted, eligible
      <3> QED  BY <2>2, <2>3, MetIsKnown
    <2>5. IsFiniteSet(eligible)  BY <1>6, FS_Subset
    <2>6. accepted = eligible
      <3>1. accepted \in SUBSET eligible  OBVIOUS
      <3> HIDE DEF accepted, eligible
      <3> QED  BY <2>4, <2>5, <3>1, AllSucceeded
    <2> QED  BY <2>1, <2>6
  <1>10. ASSUME Metrics!Accepted(p, trial) = TRUE, trial.eligible
         PROVE  /\ ~trial.excluded
                /\ LET t == trial.attempts[Len(trial.attempts)] IN
                   /\ t.status = "completed" /\ t.full /\ t.changed
                   /\ t.report.decision = "pass" /\ ~t.report.pending
    <2> DEFINE t == trial.attempts[Len(trial.attempts)]
    <2>1. ~trial.excluded /\ Metrics!State(p, trial, Len(trial.attempts)) = TRUE
      BY <1>10, <1>2, <1>1 DEF Metrics!Accepted, RunTyped, ListTyped
    <2>2. None # TRUE  BY NoneIsApart
    <2>3. t.report # Unknown /\ t.report # None
      BY <2>1, <2>2 DEF Metrics!State
    <2>4. /\ t.status = "completed" /\ t.full
          /\ t.report.decision = "pass" /\ ~t.report.pending /\ (trial.eligible => t.changed)
      BY <2>1, <2>3 DEF Metrics!State
    <2> QED  BY <2>1, <2>4, <1>10
  <1> QED
    BY <1>4, <1>5, <1>8, <1>9, <1>10 DEF Metrics!InputsUnknown

-----------------------------------------------------------------------------
(* The envelope and the view of a report, for any number of checks.          *)

Rooms == [left : Nat, shown : Nat]

\* Positions one after the other: what is filled, what is shown, what is added up
Fills(g, checks, S, share) ==
  /\ g \in [0..Len(checks) -> Rooms] /\ g[0] = [left |-> share, shown |-> 0]
  /\ g[Len(checks)].shown = Envelope!Filled(checks, S, share)
  /\ \A n \in 1..Len(checks) :
       g[n] = IF n \in S THEN Envelope!Fill(g[n - 1], checks[n]) ELSE g[n - 1]

Shows(g, checks, S, share) ==
  /\ g \in [0..Len(checks) -> Rooms] /\ g[0] = [left |-> share, shown |-> 0]
  /\ g[Len(checks)].shown = Envelope!Shown(checks, S, share)
  /\ \A n \in 1..Len(checks) :
       g[n] = IF n \in S THEN Envelope!ShowCheck(g[n - 1], checks[n]) ELSE g[n - 1]

Adds(g, checks, S) ==
  /\ g \in [0..Len(checks) -> Nat] /\ g[0] = 0
  /\ g[Len(checks)] = Envelope!Findings(checks, S)
  /\ \A n \in 1..Len(checks) :
       g[n] = g[n - 1] + (IF n \in S THEN Len(checks[n].diagnostics) ELSE 0)

\* What is left of the room stays a number.
LEMMA ShowStays ==
    ASSUME NEW s \in Rooms, NEW size \in Nat
    PROVE  Envelope!Show(s, size) \in Rooms /\ Envelope!Show(s, size).shown <= s.shown + 1
  BY DEF Envelope!Show, Rooms

\* What is filled, diagnostic by diagnostic
LEMMA FillUnfolds ==
    ASSUME NEW check, CheckTyped(check), NEW room \in Rooms
    PROVE  \E g \in [0..Len(check.diagnostics) -> Rooms] :
             /\ g[0] = room /\ g[Len(check.diagnostics)] = Envelope!Fill(room, check)
             /\ \A n \in 1..Len(check.diagnostics) :
                  g[n] = Envelope!Show(g[n - 1], check.diagnostics[n])
  <1> DEFINE last == Len(check.diagnostics)
             take(n, s) == Envelope!Show(s, check.diagnostics[n])
             Is(f) == f = [n \in 0..last |-> IF n = 0 THEN room ELSE take(n, f[n - 1])]
             step == [n \in 1..last |-> [s \in Rooms |-> take(n, s)]]
             g == CHOOSE f : Is(f)
  <1>1. Envelope!Fill(room, check) = g[last]  BY DEF Envelope!Fill
  <1>2. last \in Nat /\ \A n \in 1..last : \A s \in Rooms : take(n, s) \in Rooms
    BY ShowStays DEF CheckTyped, ListTyped
  <1> HIDE DEF take
  <1>3. PICK f \in [0..last -> Rooms] : f[0] = room /\ \A n \in 1..last : f[n] = step[n][f[n - 1]]
    <2>1. Stepwise(step, last, Rooms, room) /\ last \in Nat  BY <1>2 DEF Stepwise
    <2> HIDE DEF step, last
    <2> QED  BY ONLY <2>1, Recursion
  <1>4. \A n \in 1..last : f[n] = take(n, f[n - 1])
    <2>1. \A n \in 1..last : n - 1 \in 0..last  BY <1>2
    <2> QED  BY <1>3, <2>1
  <1>5. Is(f)
    <2>1. \A n \in 0..last : n = 0 \/ n \in 1..last  BY <1>2
    <2>2. f = [n \in 0..last |-> f[n]]  OBVIOUS
    <2> QED  BY <1>3, <1>4, <2>1, <2>2
  <1>6. Is(g)
    <2> HIDE DEF Is
    <2> QED  BY <1>5
  <1>7. /\ g = [n \in 0..last |-> IF n = 0 THEN room ELSE take(n, g[n - 1])]
        /\ g[0] = room /\ \A n \in 1..last : g[n] = take(n, g[n - 1])
    <2> HIDE DEF g
    <2>1. g = [n \in 0..last |-> IF n = 0 THEN room ELSE take(n, g[n - 1])]  BY <1>6
    <2>2. 0 \in 0..last /\ \A n \in 1..last : n \in 0..last /\ n # 0  BY <1>2
    <2> QED  BY <2>1, <2>2
  <1> HIDE DEF g, Is
  <1>8. {n \in 0..last : g[n] \notin Rooms} = {}
    <2> DEFINE Wrong == {n \in 0..last : g[n] \notin Rooms}
    <2> SUFFICES ASSUME Wrong # {}  PROVE FALSE  OBVIOUS
    <2>0. last \in Nat  BY <1>2
    <2>1. Wrong \subseteq Nat  BY <2>0
    <2>2. PICK m \in Wrong : \A k \in Wrong : m <= k  BY <2>1, Least
    <2>3. m \in 0..last /\ m # 0  BY <1>7, <2>2
    <2>4. m \in 1..last /\ m - 1 \in 0..last /\ m - 1 \notin Wrong  BY <2>0, <2>2, <2>3
    <2>5. g[m - 1] \in Rooms  BY <2>4
    <2> QED  BY <1>2, <1>7, <2>2, <2>4, <2>5
  <1>9. g \in [0..last -> Rooms]  BY <1>7, <1>8
  <1> QED  BY <1>1, <1>7, <1>9 DEF take

\* What is shown of a check, diagnostic by diagnostic
LEMMA GivingUpUnfolds ==
    ASSUME NEW check, CheckTyped(check), NEW room \in Rooms
    PROVE  \E g \in [0..Len(check.diagnostics) -> Rooms] :
             /\ g[0] = room /\ g[Len(check.diagnostics)] = Envelope!ShowCheck(room, check)
             /\ \A n \in 1..Len(check.diagnostics) : g[n] = IF g[n - 1].left < Envelope!Min(Envelope!Range(check.diagnostics)) THEN g[n - 1]
                         ELSE Envelope!Show(g[n - 1], check.diagnostics[n])
  <1> DEFINE last == Len(check.diagnostics)
             take(n, s) == IF s.left < Envelope!Min(Envelope!Range(check.diagnostics)) THEN s
                           ELSE Envelope!Show(s, check.diagnostics[n])
             Is(f) == f = [n \in 0..last |-> IF n = 0 THEN room ELSE take(n, f[n - 1])]
             step == [n \in 1..last |-> [s \in Rooms |-> take(n, s)]]
             g == CHOOSE f : Is(f)
  <1>1. Envelope!ShowCheck(room, check) = g[last]  BY DEF Envelope!ShowCheck
  <1>2. last \in Nat /\ room \in Rooms /\ \A n \in 1..last : \A s \in Rooms : take(n, s) \in Rooms
    BY ShowStays DEF CheckTyped, ListTyped
  <1> HIDE DEF take
  <1>3. PICK f \in [0..last -> Rooms] : f[0] = room /\ \A n \in 1..last : f[n] = step[n][f[n - 1]]
    <2>1. Stepwise(step, last, Rooms, room) /\ last \in Nat  BY <1>2 DEF Stepwise
    <2> HIDE DEF step, last
    <2> QED  BY ONLY <2>1, Recursion
  <1>4. \A n \in 1..last : f[n] = take(n, f[n - 1])
    <2>1. \A n \in 1..last : n - 1 \in 0..last  BY <1>2
    <2> QED  BY <1>3, <2>1
  <1>5. Is(f)
    <2>1. \A n \in 0..last : n = 0 \/ n \in 1..last  BY <1>2
    <2>2. f = [n \in 0..last |-> f[n]]  OBVIOUS
    <2> QED  BY <1>3, <1>4, <2>1, <2>2
  <1>6. Is(g)
    <2> HIDE DEF Is
    <2> QED  BY <1>5
  <1>7. /\ g = [n \in 0..last |-> IF n = 0 THEN room ELSE take(n, g[n - 1])]
        /\ g[0] = room /\ \A n \in 1..last : g[n] = take(n, g[n - 1])
    <2> HIDE DEF g
    <2>1. g = [n \in 0..last |-> IF n = 0 THEN room ELSE take(n, g[n - 1])]  BY <1>6
    <2>2. 0 \in 0..last /\ \A n \in 1..last : n \in 0..last /\ n # 0  BY <1>2
    <2> QED  BY <2>1, <2>2
  <1> HIDE DEF g, Is
  <1>8. {n \in 0..last : g[n] \notin Rooms} = {}
    <2> DEFINE Wrong == {n \in 0..last : g[n] \notin Rooms}
    <2> SUFFICES ASSUME Wrong # {}  PROVE FALSE  OBVIOUS
    <2>0. last \in Nat  BY <1>2
    <2>1. Wrong \subseteq Nat  BY <2>0
    <2>2. PICK m \in Wrong : \A k \in Wrong : m <= k  BY <2>1, Least
    <2>3. m \in 0..last /\ m # 0  BY <1>2, <1>7, <2>2
    <2>4. m \in 1..last /\ m - 1 \in 0..last /\ m - 1 \notin Wrong  BY <2>0, <2>2, <2>3
    <2>5. g[m - 1] \in Rooms  BY <2>4
    <2> QED  BY <1>2, <1>7, <2>2, <2>4, <2>5
  <1>9. g \in [0..last -> Rooms]  BY <1>7, <1>8
  <1> QED  BY <1>1, <1>7, <1>9 DEF take

\* Giving a check up loses nothing that would have fitted.
LEMMA GivingUpLosesNothing ==
    ASSUME NEW check, CheckTyped(check), NEW room \in Rooms
    PROVE  /\ Envelope!ShowCheck(room, check) = Envelope!Fill(room, check)
           /\ Envelope!Fill(room, check) \in Rooms
           /\ Envelope!Fill(room, check).shown <= room.shown + Len(check.diagnostics)
  <1> DEFINE last == Len(check.diagnostics)
             size(n) == check.diagnostics[n]
             smallest == Envelope!Min(Envelope!Range(check.diagnostics))
  <1>1. last \in Nat /\ \A n \in 1..last : size(n) \in Nat  BY DEF CheckTyped, ListTyped
  <1>2. \A n \in 1..last : smallest \in Nat /\ smallest <= size(n)
    <2> SUFFICES ASSUME NEW n \in 1..last  PROVE smallest \in Nat /\ smallest <= size(n)  OBVIOUS
    <2> DEFINE sizes == Envelope!Range(check.diagnostics)
    <2>1. size(n) \in sizes /\ sizes \subseteq Nat  BY DEF CheckTyped, ListTyped, Envelope!Range
    <2> HIDE DEF sizes
    <2>2. \E x \in sizes : \A y \in sizes : x <= y  BY <2>1, Least
    <2> QED  BY <2>1, <2>2 DEF Envelope!Min, sizes
  <1>3. PICK g \in [0..last -> Rooms] :
          /\ g[0] = room /\ g[last] = Envelope!Fill(room, check)
          /\ \A n \in 1..last : g[n] = Envelope!Show(g[n - 1], size(n))
    BY FillUnfolds
  <1>4. PICK h \in [0..last -> Rooms] :
          /\ h[0] = room /\ h[last] = Envelope!ShowCheck(room, check)
          /\ \A n \in 1..last : h[n] = IF h[n - 1].left < smallest THEN h[n - 1]
                                     ELSE Envelope!Show(h[n - 1], size(n))
    BY GivingUpUnfolds
  <1> HIDE DEF smallest, size, last
  <1> DEFINE Right(n) == h[n] = g[n] /\ g[n].shown <= room.shown + n
             Wrong == {n \in 0..last : ~Right(n)}
  <1>5. Wrong = {}
    <2> SUFFICES ASSUME Wrong # {}  PROVE FALSE  OBVIOUS
    <2>1. Wrong \subseteq Nat  BY <1>1
    <2>2. PICK m \in Wrong : \A k \in Wrong : m <= k  BY <2>1, Least
    <2>3. m \in 0..last /\ m # 0  BY <1>1, <1>3, <1>4, <2>2 DEF Rooms
    <2>4. m \in 1..last /\ m - 1 \in 0..last /\ m - 1 \notin Wrong  BY <1>1, <2>2, <2>3
    <2>5. h[m - 1] = g[m - 1] /\ g[m - 1].shown <= room.shown + (m - 1)  BY <2>4
    <2>6. g[m] = Envelope!Show(g[m - 1], size(m)) /\ g[m - 1] \in Rooms  BY <1>3, <2>4
    <2>7. h[m] = g[m]
      <3>1. CASE g[m - 1].left < smallest
        <4>1. /\ g[m - 1].left \in Nat /\ smallest \in Nat /\ size(m) \in Nat
              /\ smallest <= size(m)
          BY <1>1, <1>2, <2>4, <2>6 DEF Rooms
        <4>2. ~(size(m) <= g[m - 1].left)  BY <3>1, <4>1
        <4>3. g[m] = g[m - 1]  BY <4>2, <2>6 DEF Envelope!Show
        <4> QED  BY <3>1, <4>3, <1>4, <2>4, <2>5
      <3>2. CASE ~(g[m - 1].left < smallest)
        BY <3>2, <1>4, <2>4, <2>5, <2>6
      <3> QED  BY <3>1, <3>2
    <2>8. g[m].shown <= room.shown + m
      <3>1. g[m].shown <= g[m - 1].shown + 1 /\ g[m] \in Rooms  BY <1>1, <2>4, <2>6, ShowStays
      <3> QED  BY <3>1, <2>4, <2>5, <2>6 DEF Rooms
    <2> QED  BY <2>2, <2>7, <2>8
  <1>6. last \in 0..last /\ Right(last)  BY <1>1, <1>5
  <1> QED  BY <1>3, <1>4, <1>6 DEF last

\* What is filled, check by check
LEMMA FilledUnfolds ==
    ASSUME NEW checks, ChecksTyped(checks), NEW S, NEW share \in Nat
    PROVE  \E g : Fills(g, checks, S, share)
  <1> DEFINE last == Len(checks)
             take(n, s) == IF n \in S THEN Envelope!Fill(s, checks[n]) ELSE s
             Is(f) == f = [n \in 0..last |-> IF n = 0 THEN [left |-> share, shown |-> 0] ELSE take(n, f[n - 1])]
             step == [n \in 1..last |-> [s \in Rooms |-> take(n, s)]]
             g == CHOOSE f : Is(f)
  <1>1. Envelope!Filled(checks, S, share) = g[last].shown  BY DEF Envelope!Filled
  <1>2. last \in Nat /\ [left |-> share, shown |-> 0] \in Rooms /\ \A n \in 1..last : \A s \in Rooms : take(n, s) \in Rooms
    BY GivingUpLosesNothing DEF ChecksTyped, ListTyped, Rooms
  <1> HIDE DEF take
  <1>3. PICK f \in [0..last -> Rooms] : f[0] = [left |-> share, shown |-> 0] /\ \A n \in 1..last : f[n] = step[n][f[n - 1]]
    <2>1. Stepwise(step, last, Rooms, [left |-> share, shown |-> 0]) /\ last \in Nat  BY <1>2 DEF Stepwise
    <2> HIDE DEF step, last
    <2> QED  BY ONLY <2>1, Recursion
  <1>4. \A n \in 1..last : f[n] = take(n, f[n - 1])
    <2>1. \A n \in 1..last : n - 1 \in 0..last  BY <1>2
    <2> QED  BY <1>3, <2>1
  <1>5. Is(f)
    <2>1. \A n \in 0..last : n = 0 \/ n \in 1..last  BY <1>2
    <2>2. f = [n \in 0..last |-> f[n]]  OBVIOUS
    <2> QED  BY <1>3, <1>4, <2>1, <2>2
  <1>6. Is(g)
    <2> HIDE DEF Is
    <2> QED  BY <1>5
  <1>7. /\ g = [n \in 0..last |-> IF n = 0 THEN [left |-> share, shown |-> 0] ELSE take(n, g[n - 1])]
        /\ g[0] = [left |-> share, shown |-> 0] /\ \A n \in 1..last : g[n] = take(n, g[n - 1])
    <2> HIDE DEF g
    <2>1. g = [n \in 0..last |-> IF n = 0 THEN [left |-> share, shown |-> 0] ELSE take(n, g[n - 1])]  BY <1>6
    <2>2. 0 \in 0..last /\ \A n \in 1..last : n \in 0..last /\ n # 0  BY <1>2
    <2> QED  BY <2>1, <2>2
  <1> HIDE DEF g, Is
  <1>8. {n \in 0..last : g[n] \notin Rooms} = {}
    <2> DEFINE Wrong == {n \in 0..last : g[n] \notin Rooms}
    <2> SUFFICES ASSUME Wrong # {}  PROVE FALSE  OBVIOUS
    <2>0. last \in Nat  BY <1>2
    <2>1. Wrong \subseteq Nat  BY <2>0
    <2>2. PICK m \in Wrong : \A k \in Wrong : m <= k  BY <2>1, Least
    <2>3. m \in 0..last /\ m # 0  BY <1>2, <1>7, <2>2
    <2>4. m \in 1..last /\ m - 1 \in 0..last /\ m - 1 \notin Wrong  BY <2>0, <2>2, <2>3
    <2>5. g[m - 1] \in Rooms  BY <2>4
    <2> QED  BY <1>2, <1>7, <2>2, <2>4, <2>5
  <1>9. g \in [0..last -> Rooms]  BY <1>7, <1>8
  <1> QED  BY <1>1, <1>7, <1>9 DEF take, Fills

\* What is shown, check by check
LEMMA ShownUnfolds ==
    ASSUME NEW checks, ChecksTyped(checks), NEW S, NEW share \in Nat
    PROVE  \E g : Shows(g, checks, S, share)
  <1> DEFINE last == Len(checks)
             take(n, s) == IF n \in S THEN Envelope!ShowCheck(s, checks[n]) ELSE s
             Is(f) == f = [n \in 0..last |-> IF n = 0 THEN [left |-> share, shown |-> 0] ELSE take(n, f[n - 1])]
             step == [n \in 1..last |-> [s \in Rooms |-> take(n, s)]]
             g == CHOOSE f : Is(f)
  <1>1. Envelope!Shown(checks, S, share) = g[last].shown  BY DEF Envelope!Shown
  <1>2. last \in Nat /\ [left |-> share, shown |-> 0] \in Rooms /\ \A n \in 1..last : \A s \in Rooms : take(n, s) \in Rooms
    BY GivingUpLosesNothing DEF ChecksTyped, ListTyped, Rooms
  <1> HIDE DEF take
  <1>3. PICK f \in [0..last -> Rooms] : f[0] = [left |-> share, shown |-> 0] /\ \A n \in 1..last : f[n] = step[n][f[n - 1]]
    <2>1. Stepwise(step, last, Rooms, [left |-> share, shown |-> 0]) /\ last \in Nat  BY <1>2 DEF Stepwise
    <2> HIDE DEF step, last
    <2> QED  BY ONLY <2>1, Recursion
  <1>4. \A n \in 1..last : f[n] = take(n, f[n - 1])
    <2>1. \A n \in 1..last : n - 1 \in 0..last  BY <1>2
    <2> QED  BY <1>3, <2>1
  <1>5. Is(f)
    <2>1. \A n \in 0..last : n = 0 \/ n \in 1..last  BY <1>2
    <2>2. f = [n \in 0..last |-> f[n]]  OBVIOUS
    <2> QED  BY <1>3, <1>4, <2>1, <2>2
  <1>6. Is(g)
    <2> HIDE DEF Is
    <2> QED  BY <1>5
  <1>7. /\ g = [n \in 0..last |-> IF n = 0 THEN [left |-> share, shown |-> 0] ELSE take(n, g[n - 1])]
        /\ g[0] = [left |-> share, shown |-> 0] /\ \A n \in 1..last : g[n] = take(n, g[n - 1])
    <2> HIDE DEF g
    <2>1. g = [n \in 0..last |-> IF n = 0 THEN [left |-> share, shown |-> 0] ELSE take(n, g[n - 1])]  BY <1>6
    <2>2. 0 \in 0..last /\ \A n \in 1..last : n \in 0..last /\ n # 0  BY <1>2
    <2> QED  BY <2>1, <2>2
  <1> HIDE DEF g, Is
  <1>8. {n \in 0..last : g[n] \notin Rooms} = {}
    <2> DEFINE Wrong == {n \in 0..last : g[n] \notin Rooms}
    <2> SUFFICES ASSUME Wrong # {}  PROVE FALSE  OBVIOUS
    <2>0. last \in Nat  BY <1>2
    <2>1. Wrong \subseteq Nat  BY <2>0
    <2>2. PICK m \in Wrong : \A k \in Wrong : m <= k  BY <2>1, Least
    <2>3. m \in 0..last /\ m # 0  BY <1>2, <1>7, <2>2
    <2>4. m \in 1..last /\ m - 1 \in 0..last /\ m - 1 \notin Wrong  BY <2>0, <2>2, <2>3
    <2>5. g[m - 1] \in Rooms  BY <2>4
    <2> QED  BY <1>2, <1>7, <2>2, <2>4, <2>5
  <1>9. g \in [0..last -> Rooms]  BY <1>7, <1>8
  <1> QED  BY <1>1, <1>7, <1>9 DEF take, Shows

\* How many diagnostics there are, check by check
LEMMA FindingsUnfold ==
    ASSUME NEW checks, ChecksTyped(checks), NEW S
    PROVE  \E g : Adds(g, checks, S)
  <1> DEFINE last == Len(checks)
             take(n, s) == s + (IF n \in S THEN Len(checks[n].diagnostics) ELSE 0)
             Is(f) == f = [n \in 0..last |-> IF n = 0 THEN 0 ELSE take(n, f[n - 1])]
             step == [n \in 1..last |-> [s \in Nat |-> take(n, s)]]
             g == CHOOSE f : Is(f)
  <1>1. Envelope!Findings(checks, S) = g[last]  BY DEF Envelope!Findings
  <1>2. last \in Nat /\ 0 \in Nat /\ \A n \in 1..last : \A s \in Nat : take(n, s) \in Nat
    BY DEF ChecksTyped, ListTyped, CheckTyped
  <1> HIDE DEF take
  <1>3. PICK f \in [0..last -> Nat] : f[0] = 0 /\ \A n \in 1..last : f[n] = step[n][f[n - 1]]
    <2> DEFINE T == Nat
    <2>1. Stepwise(step, last, T, 0) /\ last \in Nat  BY <1>2 DEF Stepwise
    <2> HIDE DEF step, last, T
    <2>2. \E f \in [0..last -> T] : f[0] = 0 /\ \A n \in 1..last : f[n] = step[n][f[n - 1]]
      BY ONLY <2>1, Recursion
    <2> QED  BY <2>2 DEF T
  <1>4. \A n \in 1..last : f[n] = take(n, f[n - 1])
    <2>1. \A n \in 1..last : n - 1 \in 0..last  BY <1>2
    <2> QED  BY <1>3, <2>1
  <1>5. Is(f)
    <2>1. \A n \in 0..last : n = 0 \/ n \in 1..last  BY <1>2
    <2>2. f = [n \in 0..last |-> f[n]]  OBVIOUS
    <2> QED  BY <1>3, <1>4, <2>1, <2>2
  <1>6. Is(g)
    <2> HIDE DEF Is
    <2> QED  BY <1>5
  <1>7. /\ g = [n \in 0..last |-> IF n = 0 THEN 0 ELSE take(n, g[n - 1])]
        /\ g[0] = 0 /\ \A n \in 1..last : g[n] = take(n, g[n - 1])
    <2> HIDE DEF g
    <2>1. g = [n \in 0..last |-> IF n = 0 THEN 0 ELSE take(n, g[n - 1])]  BY <1>6
    <2>2. 0 \in 0..last /\ \A n \in 1..last : n \in 0..last /\ n # 0  BY <1>2
    <2> QED  BY <2>1, <2>2
  <1> HIDE DEF g, Is
  <1>8. {n \in 0..last : g[n] \notin Nat} = {}
    <2> DEFINE Wrong == {n \in 0..last : g[n] \notin Nat}
    <2> SUFFICES ASSUME Wrong # {}  PROVE FALSE  OBVIOUS
    <2>0. last \in Nat  BY <1>2
    <2>1. Wrong \subseteq Nat  BY <2>0
    <2>2. PICK m \in Wrong : \A k \in Wrong : m <= k  BY <2>1, Least
    <2>3. m \in 0..last /\ m # 0  BY <1>2, <1>7, <2>2
    <2>4. m \in 1..last /\ m - 1 \in 0..last /\ m - 1 \notin Wrong  BY <2>0, <2>2, <2>3
    <2>5. g[m - 1] \in Nat  BY <2>4
    <2> QED  BY <1>2, <1>7, <2>2, <2>4, <2>5
  <1>9. g \in [0..last -> Nat]  BY <1>7, <1>8
  <1> QED  BY <1>1, <1>7, <1>9 DEF take, Adds

\* Over all checks nothing that fits is lost, and no more is shown than there is.
LEMMA ShownIsWhatFits ==
    ASSUME NEW checks, ChecksTyped(checks), NEW S, NEW share \in Nat
    PROVE  /\ Envelope!Shown(checks, S, share) = Envelope!Filled(checks, S, share)
           /\ Envelope!Shown(checks, S, share) \in Nat
           /\ Envelope!Shown(checks, S, share) <= Envelope!Findings(checks, S)
  <1> DEFINE last == Len(checks)
             size(n) == Len(checks[n].diagnostics)
  <1>1. last \in Nat /\ \A n \in 1..last : size(n) \in Nat /\ CheckTyped(checks[n])
    BY DEF ChecksTyped, ListTyped, CheckTyped
  <1>2. PICK g : Fills(g, checks, S, share)  BY FilledUnfolds
  <1>3. PICK h : Shows(h, checks, S, share)  BY ShownUnfolds
  <1>4. PICK f : Adds(f, checks, S)  BY FindingsUnfold
  <1>5. /\ g \in [0..last -> Rooms] /\ h \in [0..last -> Rooms] /\ f \in [0..last -> Nat]
        /\ g[0] = [left |-> share, shown |-> 0] /\ h[0] = g[0] /\ f[0] = 0
        /\ g[last].shown = Envelope!Filled(checks, S, share)
        /\ h[last].shown = Envelope!Shown(checks, S, share) /\ f[last] = Envelope!Findings(checks, S)
    BY <1>2, <1>3, <1>4 DEF Fills, Shows, Adds
  <1>6. \A n \in 1..last :
          /\ g[n] = IF n \in S THEN Envelope!Fill(g[n - 1], checks[n]) ELSE g[n - 1]
          /\ h[n] = IF n \in S THEN Envelope!ShowCheck(h[n - 1], checks[n]) ELSE h[n - 1]
          /\ f[n] = f[n - 1] + (IF n \in S THEN size(n) ELSE 0)
    BY <1>2, <1>3, <1>4 DEF Fills, Shows, Adds
  <1> HIDE DEF size, last
  <1> DEFINE Right(n) == h[n] = g[n] /\ g[n].shown <= f[n]
             Wrong == {n \in 0..last : ~Right(n)}
  <1>7. Wrong = {}
    <2> SUFFICES ASSUME Wrong # {}  PROVE FALSE  OBVIOUS
    <2>1. Wrong \subseteq Nat  BY <1>1
    <2>2. PICK m \in Wrong : \A k \in Wrong : m <= k  BY <2>1, Least
    <2>3. m \in 0..last /\ m # 0  BY <1>1, <1>5, <2>2
    <2>4. m \in 1..last /\ m - 1 \in 0..last /\ m - 1 \notin Wrong  BY <1>1, <2>2, <2>3
    <2>5. h[m - 1] = g[m - 1] /\ g[m - 1].shown <= f[m - 1] /\ g[m - 1] \in Rooms /\ f[m - 1] \in Nat
      BY <1>5, <2>4
    <2>6. CASE m \notin S
      <3>1. h[m] = g[m] /\ g[m] = g[m - 1] /\ f[m] = f[m - 1] + 0
        BY <2>4, <2>5, <2>6, <1>6
      <3> QED  BY <3>1, <2>2, <2>5 DEF Rooms
    <2>7. CASE m \in S
      <3>1. /\ h[m] = Envelope!ShowCheck(g[m - 1], checks[m])
            /\ g[m] = Envelope!Fill(g[m - 1], checks[m]) /\ f[m] = f[m - 1] + size(m)
        BY <2>4, <2>5, <2>7, <1>6
      <3>2. CheckTyped(checks[m]) /\ size(m) \in Nat  BY <1>1, <2>4
      <3>3. h[m] = g[m] /\ g[m] \in Rooms /\ g[m].shown <= g[m - 1].shown + size(m)
        BY <3>1, <3>2, <2>5, GivingUpLosesNothing DEF size
      <3>4. g[m].shown \in Nat /\ g[m - 1].shown \in Nat  BY <3>3, <2>5 DEF Rooms
      <3>5. g[m].shown <= f[m]  BY <3>1, <3>2, <3>3, <3>4, <2>5
      <3> QED  BY <3>3, <3>5, <2>2
    <2> QED  BY <2>6, <2>7
  <1>8. last \in 0..last /\ Right(last)  BY <1>1, <1>7
  <1> QED  BY <1>8, <1>5 DEF Rooms

\* The diagnostics of some checks are those of one part and those of the others.
LEMMA FindingsAdd ==
    ASSUME NEW checks, ChecksTyped(checks), NEW S, NEW T, T \subseteq S
    PROVE  /\ Envelope!Findings(checks, S) \in Nat /\ Envelope!Findings(checks, T) \in Nat
           /\ Envelope!Findings(checks, S \ T) \in Nat
           /\ Envelope!Findings(checks, S) =
                Envelope!Findings(checks, S \ T) + Envelope!Findings(checks, T)
  <1> DEFINE last == Len(checks)
             size(n) == Len(checks[n].diagnostics)
             D == S \ T
  <1>1. last \in Nat /\ \A n \in 1..last : size(n) \in Nat  BY DEF ChecksTyped, ListTyped, CheckTyped
  <1>2. PICK f : Adds(f, checks, S)  BY FindingsUnfold
  <1>3. PICK g : Adds(g, checks, T)  BY FindingsUnfold
  <1> HIDE DEF D
  <1>4. PICK h : Adds(h, checks, D)  BY FindingsUnfold
  <1>5. /\ f \in [0..last -> Nat] /\ g \in [0..last -> Nat] /\ h \in [0..last -> Nat]
        /\ f[0] = 0 /\ g[0] = 0 /\ h[0] = 0 /\ f[last] = Envelope!Findings(checks, S)
        /\ g[last] = Envelope!Findings(checks, T) /\ h[last] = Envelope!Findings(checks, D)
    BY <1>2, <1>3, <1>4 DEF Adds
  <1>6. \A n \in 1..last :
          /\ f[n] = f[n - 1] + (IF n \in S THEN size(n) ELSE 0)
          /\ g[n] = g[n - 1] + (IF n \in T THEN size(n) ELSE 0)
          /\ h[n] = h[n - 1] + (IF n \in D THEN size(n) ELSE 0)
    BY <1>2, <1>3, <1>4 DEF Adds
  <1> HIDE DEF size, last
  <1> DEFINE Wrong == {n \in 0..last : f[n] # h[n] + g[n]}
  <1>7. Wrong = {}
    <2> SUFFICES ASSUME Wrong # {}  PROVE FALSE  OBVIOUS
    <2>1. Wrong \subseteq Nat  BY <1>1
    <2>2. PICK m \in Wrong : \A k \in Wrong : m <= k  BY <2>1, Least
    <2>3. m \in 0..last /\ m # 0  BY <1>1, <1>5, <2>2
    <2>4. m \in 1..last /\ m - 1 \in 0..last /\ m - 1 \notin Wrong  BY <1>1, <2>2, <2>3
    <2>5. f[m - 1] = h[m - 1] + g[m - 1] /\ f[m - 1] \in Nat /\ g[m - 1] \in Nat /\ h[m - 1] \in Nat
      BY <1>5, <2>4
    <2>6. /\ f[m] = f[m - 1] + (IF m \in S THEN size(m) ELSE 0)
          /\ g[m] = g[m - 1] + (IF m \in T THEN size(m) ELSE 0)
          /\ h[m] = h[m - 1] + (IF m \in D THEN size(m) ELSE 0)
      BY <2>4, <1>6
    <2>7. size(m) \in Nat /\ (m \in T => m \in S) /\ (m \in D <=> m \in S /\ m \notin T)
      BY <1>1, <2>4 DEF D
    <2>8. f[m] = h[m] + g[m]  BY <2>5, <2>6, <2>7
    <2> QED  BY <2>2, <2>8
  <1>8. f[last] = h[last] + g[last]
    <2>1. last \in 0..last  BY <1>1
    <2>2. last \notin Wrong  BY <1>7
    <2> QED  BY <2>1, <2>2
  <1> QED  BY <1>1, <1>8, <1>5 DEF D

\* Where there are no diagnostics, no check has one.
LEMMA NoFindings ==
    ASSUME NEW checks, ChecksTyped(checks), NEW S \in SUBSET DOMAIN checks,
           Envelope!Findings(checks, S) = 0
    PROVE  \A n \in S : checks[n].diagnostics = <<>>
  <1> DEFINE last == Len(checks)
             add == [n \in 1..last |-> IF n \in S THEN Len(checks[n].diagnostics) ELSE 0]
  <1>1. last \in Nat /\ S \subseteq 1..last /\ \A n \in 1..last : CheckTyped(checks[n])  BY DEF ChecksTyped, ListTyped
  <1>2. PICK g : Adds(g, checks, S)  BY FindingsUnfold
  <1>3. add \in [1..last -> Nat]  BY <1>1 DEF CheckTyped, ListTyped
  <1>4. g[0] = 0 /\ g[last] = 0 /\ \A n \in 1..last : g[n] = g[n - 1] + add[n]  BY <1>2 DEF Adds
  <1>5. \A n \in 1..last : add[n] = 0
    <2>1. last \in Nat  BY <1>1
    <2> HIDE DEF add, last
    <2> QED  BY ONLY <2>1, <1>3, <1>4, SumIsZero
  <1>6. ASSUME NEW n \in S  PROVE checks[n].diagnostics = <<>>
    <2>1. n \in 1..last /\ CheckTyped(checks[n])  BY <1>1
    <2>2. Len(checks[n].diagnostics) = 0  BY <2>1, <1>5
    <2> QED  BY <2>1, <2>2 DEF CheckTyped, ListTyped
  <1> QED  BY <1>6

\* Whatever an envelope carries, one that validates states the outcome of its
\* payload; one whose route is to accept passed with no gap and nothing pending,
\* and every check of the report it carries completed or was skipped
\* (domain/decision_envelope.rs).
THEOREM EnvelopeSaysWhatItCarries ==
    ASSUME NEW envelope, EnvelopeTyped(envelope)
    PROVE  Envelope!SaysWhatItCarries(envelope)
  <1> DEFINE b == envelope.body
             checks == b.payload.checks
             own == Envelope!FromCheck(b.payload).body
  <1> SUFFICES ASSUME Envelope!Valid(envelope)
               PROVE  /\ Envelope!Stated(b) = b.gate.outcome
                      /\ b.complete = (b.gate.outcome # "incomplete")
                      /\ b.gate.route = "accept" =>
                             b.gate.outcome = "pass" /\ b.gate.gaps = 0 /\ b.gate.pending = 0
                      /\ b.kind = "check" =>
                             envelope = Envelope!Sealed([own EXCEPT !.source = b.source])
                      /\ b.kind = "feedback" =>
                             /\ b.evidence = <<b.payload.full>>
                             /\ b.payload.snapshot = Envelope!Snapshot(b.payload.full) =>
                                    b.snapshot = Envelope!Snapshot(b.payload.full)
                      /\ (b.kind = "check" /\ b.gate.route = "accept") =>
                             \A c \in Envelope!Range(b.payload.checks) :
                                 /\ c.status = "completed" \/ c.verdict = "skipped"
                                 /\ c.severity = "warning" => c.diagnostics = <<>>
    BY DEF Envelope!SaysWhatItCarries
  <1>1. /\ envelope.id = b /\ b.complete = (b.gate.outcome # "incomplete")
        /\ b.gate.route = Envelope!Route(b.gate.outcome, b.gate.warnings, b.gate.pending, b.gate.gaps)
        /\ b.kind = "check" => Envelope!MatchesReport(b)
        /\ b.kind = "feedback" => Envelope!MatchesView(b)
        /\ b.kind \in {"rule_validation", "selfcheck"} => Envelope!MatchesValidation(b)
    BY DEF Envelope!Valid
  <1>2. b.gate.route = "accept" =>
          /\ b.gate.outcome = "pass" /\ b.gate.warnings = 0 /\ b.gate.gaps = 0 /\ b.gate.pending = 0
    <2>1. b.gate.route = "accept" =>
            b.gate.outcome = "pass" /\ ~(b.gate.warnings + b.gate.pending + b.gate.gaps > 0)
      BY <1>1 DEF Envelope!Route, EnvelopeTyped, Decisions
    <2>2. b.gate.warnings \in Nat /\ b.gate.pending \in Nat /\ b.gate.gaps \in Nat
      BY DEF EnvelopeTyped
    <2> HIDE DEF b
    <2> QED  BY <2>1, <2>2
  <1>3. b.kind = "check" =>
          /\ b.payload.is = "report" /\ b = [own EXCEPT !.source = b.source]
          /\ envelope = Envelope!Sealed([own EXCEPT !.source = b.source])
    <2> HIDE DEF own
    <2>1. b.kind = "check" => b.payload.is = "report" /\ b = [own EXCEPT !.source = b.source]
      BY <1>1 DEF Envelope!MatchesReport, own
    <2>2. envelope = [id |-> b, body |-> b]  BY <1>1 DEF EnvelopeTyped
    <2> HIDE DEF b
    <2> QED  BY <2>1, <2>2 DEF Envelope!Sealed
  <1>4. b.kind = "check" =>
          /\ b.gate.outcome = b.payload.gate.decision
          /\ b.gate.warnings = Envelope!Warnings(b.payload) /\ b.gate.gaps = Envelope!GapCount(b.payload)
    BY <1>3 DEF Envelope!FromCheck, Envelope!Sealed, Envelope!Routed
  <1>5. Envelope!Stated(b) = b.gate.outcome
    BY <1>1, <1>4 DEF Envelope!Stated, Envelope!MatchesView, Envelope!MatchesValidation
  <1>6. b.kind = "feedback" => b.evidence = <<b.payload.full>> /\ b.snapshot = b.payload.snapshot
    BY <1>1 DEF Envelope!MatchesView
  <1>7. ASSUME b.kind = "check", b.gate.route = "accept", NEW n \in DOMAIN checks
        PROVE  /\ checks[n].status = "completed" \/ checks[n].verdict = "skipped"
               /\ checks[n].severity = "warning" => checks[n].diagnostics = <<>>
    <2> DEFINE warned == {k \in DOMAIN checks : checks[k].severity = "warning"}
               holes == {k \in DOMAIN checks : checks[k].status # "completed" /\ checks[k].verdict # "skipped"}
    <2>1. ChecksTyped(checks)  BY <1>3, <1>7 DEF EnvelopeTyped, Decisions
    <2>2. Envelope!Findings(checks, warned) = 0  BY <1>2, <1>4, <1>7 DEF Envelope!Warnings
    <2>3. \A k \in warned : checks[k].diagnostics = <<>>
      <3>1. warned \in SUBSET DOMAIN checks  OBVIOUS
      <3> HIDE DEF warned, checks
      <3> QED  BY <2>1, <2>2, <3>1, NoFindings
    <2>4. holes = {}
      <3>1. Cardinality(holes) = 0
        BY <1>2, <1>4, <1>7 DEF Envelope!GapCount, Envelope!Cardinality, Cardinality
      <3>2. IsFiniteSet(holes)
        <4>1. IsFiniteSet(DOMAIN checks)  BY <2>1, FS_Interval DEF ChecksTyped, ListTyped
        <4> QED  BY <4>1, FS_Subset
      <3> QED  BY <3>1, <3>2, FS_EmptySet
    <2> QED  BY <2>3, <2>4
  <1>8. (b.kind = "check" /\ b.gate.route = "accept") =>
          \A c \in Envelope!Range(b.payload.checks) :
              /\ c.status = "completed" \/ c.verdict = "skipped"
              /\ c.severity = "warning" => c.diagnostics = <<>>
    BY <1>7 DEF Envelope!Range
  <1> QED  BY <1>1, <1>2, <1>3, <1>5, <1>6, <1>8

\* What is shown of a section whose items have size one
LEMMA SmallerOfTwo ==
    ASSUME NEW n \in Nat, NEW share \in Nat
    PROVE  /\ Envelope!Min({n, share}) \in Nat /\ Envelope!Min({n, share}) <= n
           /\ n > 0 /\ share > 0 => Envelope!Min({n, share}) > 0
  <1>1. \E x \in {n, share} : \A y \in {n, share} : x <= y  OBVIOUS
  <1>2. Envelope!Min({n, share}) \in {n, share}  BY <1>1 DEF Envelope!Min
  <1>3. \A y \in {n, share} : Envelope!Min({n, share}) <= y  BY <1>1 DEF Envelope!Min
  <1> QED  BY <1>2, <1>3

\* A section that leaves out what it does not show
Accounted(s) ==
  /\ s = [total |-> s.total, filtered |-> s.filtered, items |-> s.items, omitted |-> s.omitted]
  /\ s.total \in Nat /\ s.filtered \in Nat /\ s.items \in Nat /\ s.omitted \in Nat
  /\ s.total = s.filtered + s.items + s.omitted

LEMMA SectionsAccount ==
    ASSUME NEW total \in Nat, NEW filtered \in Nat, NEW shown \in Nat, filtered + shown <= total
    PROVE  LET s == Envelope!Section(total, filtered, shown) IN
           Accounted(s) /\ s.total = total /\ s.filtered = filtered /\ s.items = shown
  BY DEF Envelope!Section, Accounted

LEMMA GapsAreCounted ==
    ASSUME NEW checks, ChecksTyped(checks)
    PROVE  LET holes == {n \in DOMAIN checks : Envelope!IsGap(checks[n])} IN
           Envelope!Cardinality(holes) \in Nat /\ (holes # {} => Envelope!Cardinality(holes) > 0)
  <1> DEFINE holes == {n \in DOMAIN checks : Envelope!IsGap(checks[n])}
  <1>1. Envelope!Cardinality(holes) = Cardinality(holes)  BY DEF Envelope!Cardinality, Cardinality
  <1>2. IsFiniteSet(holes)
    <2>1. IsFiniteSet(DOMAIN checks)  BY FS_Interval DEF ChecksTyped, ListTyped
    <2> QED  BY <2>1, FS_Subset
  <1>3. Cardinality(holes) \in Nat /\ (Cardinality(holes) = 0 <=> holes = {})
    BY <1>2, FS_CardinalityType, FS_EmptySet
  <1> QED  BY <1>1, <1>3

LEMMA ViewAccounts ==
    ASSUME NEW report, ReportTyped(report), NEW room \in Nat, NEW severity
    PROVE  LET view == Envelope!Render(report, room, severity) IN
           /\ view.sections = [k \in Envelope!Keys |-> view.sections[k]]
           /\ \A k \in Envelope!Keys : Accounted(view.sections[k])
           /\ view.sections["findings"].items =
                Envelope!Shown(report.checks, Envelope!ChosenOf(report.checks, severity), room \div 5)
           /\ view.sections["execution_gaps"] =
                Envelope!Section(Envelope!Cardinality({n \in DOMAIN report.checks : Envelope!IsGap(report.checks[n])}), 0,
                  Envelope!Min({Envelope!Cardinality({n \in DOMAIN report.checks : Envelope!IsGap(report.checks[n])}), room \div 5}))
  <1> DEFINE view == Envelope!Render(report, room, severity)
             checks == report.checks
             share == room \div 5
             plain(n) == Envelope!Section(n, 0, Envelope!Min({n, share}))
             done == Envelope!CompletedOf(checks)
             picked == Envelope!ChosenOf(checks, severity)
             holes == Envelope!Cardinality({n \in DOMAIN checks : Envelope!IsGap(checks[n])})
             findings == Envelope!Section(Envelope!Findings(checks, done), Envelope!Findings(checks, done \ picked),
                               Envelope!Shown(checks, picked, share))
  <1>1. /\ view.sections = [k \in Envelope!Keys |-> view.sections[k]]
        /\ view.sections["findings"] = findings
        /\ view.sections["execution_gaps"] = plain(holes)
        /\ view.sections["blockers"] = plain(report.gate.blockers)
        /\ view.sections["pending_delivery_checks"] = plain(report.pending)
        /\ view.sections["acceptance"] = plain(report.acceptance)
    BY DEF Envelope!Render, Envelope!Keys
  <1>2. share \in Nat /\ ChecksTyped(checks) /\ holes \in Nat /\ report.gate.blockers \in Nat
        /\ report.pending \in Nat /\ report.acceptance \in Nat
    BY GapsAreCounted DEF ReportTyped, Decisions
  <1> HIDE DEF view, checks, share, holes
  <1>3. ASSUME NEW n \in Nat  PROVE Accounted(plain(n))
    <2>1. Envelope!Min({n, share}) \in Nat /\ 0 + Envelope!Min({n, share}) <= n  BY <1>2, SmallerOfTwo
    <2> QED  BY <2>1, SectionsAccount
  <1>4. Accounted(findings) /\ findings.items = Envelope!Shown(checks, picked, share)
    <2> DEFINE all == Envelope!Findings(checks, done)
               filtered == Envelope!Findings(checks, done \ picked)
               shown == Envelope!Shown(checks, picked, share)
    <2>1. picked \subseteq done  BY DEF Envelope!ChosenOf
    <2>2. /\ all \in Nat /\ filtered \in Nat /\ Envelope!Findings(checks, picked) \in Nat
          /\ all = filtered + Envelope!Findings(checks, picked)
      BY <1>2, <2>1, FindingsAdd
    <2>3. shown \in Nat /\ shown <= Envelope!Findings(checks, picked)  BY <1>2, ShownIsWhatFits
    <2> HIDE DEF all, filtered, shown
    <2>4. filtered + shown <= all  BY <2>2, <2>3
    <2>5. Accounted(Envelope!Section(all, filtered, shown)) /\ Envelope!Section(all, filtered, shown).items = shown
      BY <2>2, <2>3, <2>4, SectionsAccount
    <2> QED  BY <2>5 DEF all, filtered, shown
  <1>5. \A k \in Envelope!Keys : Accounted(view.sections[k])
    BY <1>1, <1>2, <1>3, <1>4 DEF Envelope!Keys
  <1> QED  BY <1>1, <1>4, <1>5 DEF view, checks, share, holes

\* However many checks and diagnostics a report has and however small the room,
\* its view counts everything as shown, filtered or omitted, leaves out only
\* what does not fit and never hides that there are gaps (domain/feedback.rs).
THEOREM ViewsAreHonest ==
    ASSUME NEW report, ReportTyped(report), NEW room \in Nat, NEW severity
    PROVE  Envelope!ViewIsHonest(report, room, severity)
  <1> DEFINE view == Envelope!Render(report, room, severity)
             picked == Envelope!ChosenOf(report.checks, severity)
             holes == {n \in DOMAIN report.checks : Envelope!IsGap(report.checks[n])}
  <1>1. ChecksTyped(report.checks) /\ room \div 5 \in Nat /\ (room >= 5 => room \div 5 > 0)
    BY DEF ReportTyped, Decisions
  <1>0. /\ \A k \in Envelope!Keys : Accounted(view.sections[k])
        /\ view.sections["findings"].items = Envelope!Shown(report.checks, picked, room \div 5)
        /\ view.sections["execution_gaps"] =
             Envelope!Section(Envelope!Cardinality(holes), 0, Envelope!Min({Envelope!Cardinality(holes), room \div 5}))
    <2>1. ReportTyped(report) /\ room \in Nat  OBVIOUS
    <2> QED  BY ONLY <2>1, ViewAccounts, Zenon
  <1>2. \A k \in Envelope!Keys :
            /\ view.sections[k].omitted \in Nat
            /\ view.sections[k].total =
                   view.sections[k].filtered + view.sections[k].items + view.sections[k].omitted
    BY <1>0 DEF Accounted
  <1>3. view.sections["findings"].items = Envelope!Filled(report.checks, picked, room \div 5)
    BY <1>0, <1>1, ShownIsWhatFits
  <1>4. (\E n \in DOMAIN report.checks : Envelope!IsGap(report.checks[n])) /\ room >= 5 =>
            view.sections["execution_gaps"].items > 0
    <2> SUFFICES ASSUME holes # {}, room >= 5  PROVE view.sections["execution_gaps"].items > 0
      OBVIOUS
    <2>1. Envelope!Cardinality(holes) \in Nat /\ Envelope!Cardinality(holes) > 0  BY <1>1, GapsAreCounted
    <2>2. Envelope!Min({Envelope!Cardinality(holes), room \div 5}) > 0  BY <1>1, <2>1, SmallerOfTwo
    <2>3. view.sections["execution_gaps"] =
            Envelope!Section(Envelope!Cardinality(holes), 0, Envelope!Min({Envelope!Cardinality(holes), room \div 5}))
      BY <1>0
    <2> QED  BY <2>2, <2>3 DEF Envelope!Section
  <1>5. view.ready => Envelope!Route(report.gate.decision, 0, report.pending, 0) = "accept"
    <2>1. view.ready => report.gate.decision = "pass" /\ report.pending = 0  BY DEF Envelope!Render
    <2> QED  BY <2>1 DEF Envelope!Route
  <1> QED  BY <1>2, <1>3, <1>4, <1>5 DEF Envelope!ViewIsHonest

\* A section whose items are dropped, and a second time
LEMMA EmptiedAccounts ==
    ASSUME NEW s, Accounted(s)
    PROVE  LET e == Envelope!Emptied(s) IN
           /\ Accounted(e) /\ e.items = 0 /\ e.omitted = s.omitted + s.items
           /\ e.total = e.filtered + e.omitted
           /\ Envelope!Emptied(e) = e
  <1>1. ASSUME NEW x, Accounted(x)
        PROVE  Envelope!Emptied(x) = [total |-> x.total, filtered |-> x.filtered, items |-> 0,
                                      omitted |-> x.omitted + x.items]
    <2>1. PICK e : e = Envelope!Emptied(x)  OBVIOUS
    <2>2. /\ e.total = x.total /\ e.filtered = x.filtered /\ e.items = 0
          /\ e.omitted = x.omitted + x.items
          /\ e = [total |-> e.total, filtered |-> e.filtered, items |-> e.items, omitted |-> e.omitted]
      BY <1>1, <2>1 DEF Envelope!Emptied, Accounted
    <2> QED  BY <2>1, <2>2
  <1>2. PICK e : e = Envelope!Emptied(s)  OBVIOUS
  <1>3. e = [total |-> s.total, filtered |-> s.filtered, items |-> 0, omitted |-> s.omitted + s.items]
    BY <1>1, <1>2
  <1>4. Accounted(e) /\ e.items = 0 /\ e.omitted = s.omitted + s.items
        /\ e.total = e.filtered + e.omitted /\ e.omitted + e.items = e.omitted
    BY <1>3 DEF Accounted
  <1>5. Envelope!Emptied(e) = e  BY <1>1, <1>4 DEF Accounted
  <1> QED  BY <1>2, <1>4, <1>5

ViewShape(v) ==
  v = [is |-> v.is, decision |-> v.decision, complete |-> v.complete, snapshot |-> v.snapshot,
       full |-> v.full, sections |-> v.sections, truncated |-> v.truncated, ready |-> v.ready]

BodyShape(b) ==
  b = [kind |-> b.kind, snapshot |-> b.snapshot, task |-> b.task, source |-> b.source,
       policy |-> b.policy, evaluator |-> b.evaluator, complete |-> b.complete,
       omissions |-> b.omissions, gate |-> b.gate, evidence |-> b.evidence,
       verification |-> b.verification, payload |-> b.payload]

\* What compacting makes of a body, part by part
Compacted(b, c) ==
  /\ BodyShape(c) /\ ViewShape(c.payload)
  /\ c.kind = b.kind /\ c.snapshot = b.snapshot /\ c.task = b.task /\ c.source = b.source
  /\ c.policy = b.policy /\ c.evaluator = b.evaluator /\ c.complete = b.complete
  /\ c.gate = b.gate /\ c.evidence = b.evidence /\ c.verification = {}
  /\ c.omissions = b.omissions \cup {k \in Envelope!Keys : b.payload.sections[k].items > 0}
                   \cup (IF b.verification = {} THEN {} ELSE {"verification_shapes"})
  /\ c.payload.is = b.payload.is /\ c.payload.decision = b.payload.decision
  /\ c.payload.complete = b.payload.complete /\ c.payload.snapshot = b.payload.snapshot
  /\ c.payload.full = b.payload.full /\ c.payload.ready = b.payload.ready
  /\ c.payload.truncated = TRUE
  /\ c.payload.sections = [k \in Envelope!Keys |-> Envelope!Emptied(b.payload.sections[k])]

\* What compacting leaves of an envelope
LEMMA CompactingKeeps ==
    ASSUME NEW envelope, BodyShape(envelope.body), ViewShape(envelope.body.payload)
    PROVE  \E c : /\ Envelope!Compact(envelope) = [id |-> c, body |-> c]
                 /\ Compacted(envelope.body, c)
  <1>1. PICK b : b = envelope.body  OBVIOUS
  <1>2. PICK v : v = b.payload  OBVIOUS
  <1> DEFINE sections == [k \in Envelope!Keys |-> Envelope!Emptied(v.sections[k])]
             omissions == b.omissions \cup {k \in Envelope!Keys : v.sections[k].items > 0}
                          \cup (IF b.verification = {} THEN {} ELSE {"verification_shapes"})
             short == [v EXCEPT !.sections = sections, !.truncated = TRUE]
             changed == [b EXCEPT !.payload = short, !.omissions = omissions, !.verification = {}]
  <1>3. Envelope!Compact(envelope) = [id |-> changed, body |-> changed]
    BY <1>1, <1>2 DEF Envelope!Compact, Envelope!Sealed
  <1> HIDE DEF sections, omissions
  <1>4. PICK w : w = short  OBVIOUS
  <1>5. /\ ViewShape(w) /\ w.is = v.is /\ w.decision = v.decision /\ w.complete = v.complete
        /\ w.snapshot = v.snapshot /\ w.full = v.full /\ w.ready = v.ready
        /\ w.sections = sections /\ w.truncated = TRUE
    BY <1>1, <1>2, <1>4 DEF ViewShape
  <1> HIDE DEF short
  <1>6. PICK c : c = changed  OBVIOUS
  <1>7. /\ BodyShape(c) /\ c.kind = b.kind /\ c.snapshot = b.snapshot /\ c.task = b.task
        /\ c.source = b.source /\ c.policy = b.policy /\ c.evaluator = b.evaluator
        /\ c.complete = b.complete /\ c.gate = b.gate /\ c.evidence = b.evidence
        /\ c.verification = {} /\ c.omissions = omissions /\ c.payload = short
    BY <1>1, <1>6 DEF BodyShape
  <1> HIDE DEF changed
  <1>8. Compacted(b, c)
    BY <1>2, <1>4, <1>5, <1>7 DEF Compacted, sections, omissions
  <1> QED  BY <1>1, <1>3, <1>6, <1>8

\* What is already compacted stays as it is.
LEMMA CompactedIsCompact ==
    ASSUME NEW b, NEW c, NEW d, Compacted(b, c), Compacted(c, d),
           \A k \in Envelope!Keys : Accounted(b.payload.sections[k])
    PROVE  d = c
  <1>1. ASSUME NEW k \in Envelope!Keys
        PROVE  /\ c.payload.sections[k].items = 0
               /\ d.payload.sections[k] = c.payload.sections[k]
    BY EmptiedAccounts DEF Compacted
  <1>2. d.payload.sections = c.payload.sections  BY <1>1 DEF Compacted
  <1>3. d.payload = c.payload  BY <1>2 DEF Compacted, ViewShape
  <1>4. {k \in Envelope!Keys : c.payload.sections[k].items > 0} = {}  BY <1>1
  <1>5. d.omissions = c.omissions  BY <1>4 DEF Compacted
  <1> QED  BY <1>3, <1>5 DEF Compacted, BodyShape

\* However large a view is, making room in its envelope leaves the gate, the
\* subject and the evidence, counts what was shown as omitted, and once is enough
\* (domain/decision_envelope.rs:318-382).
THEOREM CompactionKeeps ==
    ASSUME NEW report, ReportTyped(report), NEW room \in Nat, NEW severity
    PROVE  Envelope!CompactionKeepsTheDecision(report, room, severity)
  <1> DEFINE view == Envelope!Render(report, room, severity)
             full == Envelope!FromFeedback(report, view)
             small == Envelope!Compact(full)
             own == Envelope!FromCheck(report).body
             b == full.body
  <1>1. \A k \in Envelope!Keys : Accounted(view.sections[k])  BY ViewAccounts, Zenon
  <1>2. ViewShape(view)  BY DEF Envelope!Render, ViewShape
  <1>3. BodyShape(own)  BY DEF Envelope!FromCheck, Envelope!Sealed, BodyShape
  <1> HIDE DEF view, own
  <1>4. /\ BodyShape(b) /\ b.payload = view /\ b.gate = own.gate /\ b.kind = "feedback"
        /\ b.omissions = Envelope!Omitted(view)
    BY <1>3 DEF Envelope!FromFeedback, Envelope!Sealed, own, BodyShape
  <1> HIDE DEF full
  <1>5. PICK c : small = [id |-> c, body |-> c] /\ Compacted(b, c)  BY <1>2, <1>4, CompactingKeeps
  <1> HIDE DEF small
  <1>6. PICK d : Envelope!Compact(small) = [id |-> d, body |-> d] /\ Compacted(c, d)
    <2>1. small.body = c /\ BodyShape(c) /\ ViewShape(c.payload)  BY <1>5 DEF Compacted
    <2>2. BodyShape(small.body) /\ ViewShape(small.body.payload)  BY <2>1
    <2>3. \E d : Envelope!Compact(small) = [id |-> d, body |-> d] /\ Compacted(small.body, d)
      BY ONLY <2>2, CompactingKeeps
    <2> QED  BY <2>1, <2>3
  <1>7. Envelope!Compact(small) = small  BY <1>1, <1>4, <1>5, <1>6, CompactedIsCompact
  <1>8. ASSUME NEW k \in Envelope!Keys
        PROVE  LET s == c.payload.sections[k] IN
               /\ s.total = s.filtered + s.omitted /\ s.items = 0
               /\ s.omitted > 0 <=> k \in c.omissions
    <2> DEFINE s == view.sections[k]
    <2>1. c.payload.sections[k] = Envelope!Emptied(s)  BY <1>4, <1>5 DEF Compacted
    <2>2. k # "verification_shapes"  BY DEF Envelope!Keys
    <2>3. k \in c.omissions <=> s.omitted > 0 \/ s.items > 0
      BY <1>4, <1>5, <2>2 DEF Compacted, Envelope!Omitted
    <2>4. Accounted(s) /\ s.omitted \in Nat /\ s.items \in Nat  BY <1>1 DEF Accounted
    <2> HIDE DEF s
    <2>5. /\ Envelope!Emptied(s).items = 0 /\ Envelope!Emptied(s).omitted = s.omitted + s.items
          /\ Envelope!Emptied(s).total = Envelope!Emptied(s).filtered + Envelope!Emptied(s).omitted
      BY <2>4, EmptiedAccounts
    <2>6. Envelope!Emptied(s).omitted > 0 <=> s.omitted > 0 \/ s.items > 0  BY <2>4, <2>5
    <2> QED  BY <2>1, <2>3, <2>5, <2>6
  <1>9. ASSUME Envelope!Valid(full)  PROVE Envelope!Valid(small)
    <2>1. /\ b.snapshot # Unknown /\ b.task # Unknown /\ b.source # Unknown /\ b.policy.digest # Unknown
          /\ b.evaluator # Unknown /\ \A i \in DOMAIN b.evidence : b.evidence[i] # Unknown
          /\ b.complete = (b.gate.outcome # "incomplete")
          /\ b.gate.route = Envelope!Route(b.gate.outcome, b.gate.warnings, b.gate.pending, b.gate.gaps)
          /\ Envelope!MatchesView(b)
      BY <1>9, <1>4 DEF Envelope!Valid
    <2>2. c.omissions \cap Envelope!Keys = Envelope!Omitted(c.payload)
      BY <1>8 DEF Envelope!Omitted
    <2>3. Envelope!MatchesView(c)
      BY <1>5, <2>1, <2>2 DEF Envelope!MatchesView, Compacted
    <2>4. small.id = c /\ small.body = c /\ c.kind = "feedback"  BY <1>4, <1>5 DEF Compacted
    <2>5. /\ c.snapshot # Unknown /\ c.task # Unknown /\ c.source # Unknown /\ c.policy.digest # Unknown
          /\ c.evaluator # Unknown /\ \A i \in DOMAIN c.evidence : c.evidence[i] # Unknown
          /\ c.complete = (c.gate.outcome # "incomplete")
          /\ c.gate.route = Envelope!Route(c.gate.outcome, c.gate.warnings, c.gate.pending, c.gate.gaps)
      BY <1>5, <2>1 DEF Compacted
    <2> QED  BY <2>3, <2>4, <2>5 DEF Envelope!Valid
  <1>10. /\ small.body = c /\ c.gate = b.gate /\ c.gate = own.gate
         /\ c.snapshot = b.snapshot /\ c.evidence = b.evidence
    BY <1>4, <1>5 DEF Compacted
  <1> QED  BY <1>7, <1>8, <1>9, <1>10 DEF Envelope!CompactionKeepsTheDecision, full, small, own, view

-----------------------------------------------------------------------------
(* The parts side by side.  A behaviour of PartsSpec is, seen through the     *)
(* variables of any one part, a behaviour of that part, and what is asked of *)
(* a computation is one of its inputs.                                       *)
LEMMA PartsAreParts ==
    PartsSpec => Spec /\ Gate!Spec /\ Plan!Spec /\ Rule!Spec /\ Judge!Spec
  <1>1. PartsInit => Init /\ Gate!Init /\ Plan!Init /\ Rule!Init /\ Judge!Init  BY DEF PartsInit
  <1>2. [PartsNext]_partsVars => [Next]_vars
    BY DEF PartsNext, Compute, AtRest, partsVars
  <1>3. [PartsNext]_partsVars => [Gate!Next]_(Gate!vars)
    BY DEF PartsNext, Compute, AtRest, partsVars, gateVars, Gate!vars, Gate!input, Gate!acc
  <1>4. [PartsNext]_partsVars => [Plan!Next]_(Plan!vars)
    BY DEF PartsNext, Compute, AtRest, partsVars, planVars, Plan!vars
  <1>5. [PartsNext]_partsVars => [Rule!Next]_(Rule!vars)
    BY DEF PartsNext, Compute, AtRest, partsVars, fileVars, Rule!vars
  <1>6. [PartsNext]_partsVars => [Judge!Next]_(Judge!judgmentVars)
    BY DEF PartsNext, Compute, AtRest, partsVars, judgmentVars, Judge!judgmentVars
  <1> QED
    BY <1>1, <1>2, <1>3, <1>4, <1>5, <1>6, PTL
       DEF PartsSpec, Spec, Gate!Spec, Plan!Spec, Rule!Spec, Judge!Spec

\* What is asked is one of the inputs of what is asked about.
Asked == chosen # {} => part \in Computations /\ chosen \subseteq InputsTo(part)

LEMMA AskedAlways == PartsSpec => []Asked
  <1>1. PartsInit => Asked  BY DEF PartsInit, Asked
  <1>2. ASSUME Asked, [PartsNext]_partsVars  PROVE Asked'
    <2>1. CASE Compute
      <3>1. part \in Computations /\ part' = part  BY <2>1 DEF Compute
      <3>2. PICK input \in InputsTo(part) : chosen' = {input}  BY <2>1 DEF Compute
      <3> QED  BY <3>1, <3>2 DEF Asked
    <2>2. CASE part' = part /\ chosen' = chosen  BY <1>2, <2>2 DEF Asked
    <2> QED  BY <1>2, <2>1, <2>2 DEF PartsNext, AtRest, partsVars
  <1> QED  BY <1>1, <1>2, PTL DEF PartsSpec

\* Whatever the computations are asked, a decision rests on the evidence it
\* names: what the one-pass gate, the modes of a report gate, the coverage gate,
\* the comparison with a baseline, the contract of an agent, an envelope, a view
\* of a report and a judgment answer is what EvidenceRight says of them
\* (domain/gate.rs, application/report_gate.rs, coverage_gate.rs, agent_contract.rs,
\* domain/decision_envelope.rs, application/judgment.rs).
THEOREM EvidenceIsRight == PartsSpec => []EvidenceRight
  <1>1. ASSUME Asked, Gate!LoopDecides, Gate!PassHasEvidence, Judge!OnlyAddsAttention
        PROVE  EvidenceRight
    <2> SUFFICES ASSUME NEW x \in chosen, NEW s \in Settings(part)
                 PROVE  CASE part = "issues" ->
                               Report!NewIsWhatGrew(x[1], x[2], s)
                                 /\ Report!RatchetIsGrowth(x[1], x[2], s)
                          [] part = "coverage" ->
                               Report!UncoveredIsSeen(x[1], x[2], s[2], s[3], s[1])
                          [] part = "baseline" ->
                               Report!ComparedWithItsOwn(s[1], s[2], x, s[3])
                          [] part = "contract" ->
                               Contract!AllowedIsCovered(x[1], s[1], s[2], s[3], x[2], s[4])
                          [] part = "envelopes" -> Envelope!SaysWhatItCarries(x)
                          [] part = "feedback" ->
                               Envelope!ViewIsHonest(x, s[1], s[2])
                                 /\ Envelope!CompactionKeepsTheDecision(x, s[1], s[2])
                          [] OTHER -> TRUE
      BY <1>1 DEF EvidenceRight
    <2>0. x \in InputsTo(part)  BY <1>1 DEF Asked
    <2>1. ASSUME part = "issues"
          PROVE  Report!NewIsWhatGrew(x[1], x[2], s) /\ Report!RatchetIsGrowth(x[1], x[2], s)
      <3>1. ListTyped(x[1]) /\ ListTyped(x[2])  BY <2>0, <2>1, InputsAreTyped
      <3> QED  BY <3>1, NewGrew, RatchetGrows
    <2>2. ASSUME part = "coverage"  PROVE Report!UncoveredIsSeen(x[1], x[2], s[2], s[3], s[1])
      <3>1. MeasuredTyped(x[2], s[1])  BY <2>0, <2>2, InputsAreTyped
      <3> QED  BY <3>1, UncoveredSeen
    <2>3. ASSUME part = "baseline"  PROVE Report!ComparedWithItsOwn(s[1], s[2], x, s[3])
      <3>1. ListTyped(s[2])  BY <2>3, InputsAreTyped
      <3> QED  BY <3>1, OwnBaseline
    <2>4. ASSUME part = "contract"
          PROVE  Contract!AllowedIsCovered(x[1], s[1], s[2], s[3], x[2], s[4])
      <3>1. \A k \in DOMAIN x[1] : ObligationTyped(x[1][k])  BY <2>0, <2>4, InputsAreTyped
      <3> QED  BY <3>1, DeliveryIsCovered
    <2>5. ASSUME part = "envelopes"  PROVE Envelope!SaysWhatItCarries(x)
      <3>1. EnvelopeTyped(x)  BY <2>0, <2>5, InputsAreTyped
      <3> QED  BY <3>1, EnvelopeSaysWhatItCarries
    <2>6. ASSUME part = "feedback"
          PROVE  /\ Envelope!ViewIsHonest(x, s[1], s[2])
                 /\ Envelope!CompactionKeepsTheDecision(x, s[1], s[2])
      <3>1. ReportTyped(x) /\ s[1] \in Nat  BY <2>0, <2>6, InputsAreTyped
      <3> QED  BY <3>1, ViewsAreHonest, CompactionKeeps
    <2> QED  BY <2>1, <2>2, <2>3, <2>4, <2>5, <2>6
  <1> QED
    BY <1>1, PartsAreParts, AskedAlways, LoopIsGate, PassIsEvidence, OnlyAttention,
       PoliciesAreTyped, PTL

\* Whatever configuration the layout accepts, its plan is a schedule of exactly
\* what the selection reaches, and what a profile leaves out is owed to a later
\* run (config/plan.rs).
THEOREM PlanIsRight == PartsSpec => []PlanRight
  <1>1. Plan!OrderIsSchedule /\ Plan!NothingForgotten /\ Plan!RunsWhatIsReached => PlanRight
    BY DEF PlanRight
  <1> QED
    BY <1>1, PartsAreParts, PlansAreSound, OrderIsRight, NothingLost, ReachIsRun, PTL

\* Whatever trial or pilot is looked at, its figures are of the runs it sealed
\* and of the labels others gave (domain/pilot/validation.rs, schedule.rs,
\* metrics.rs, rows.rs, application/judgment/pilot.rs).
THEOREM PilotsAreRight == PartsSpec => []PilotsRight
  <1>1. ASSUME Asked  PROVE PilotsRight
    <2> SUFFICES ASSUME NEW x \in chosen, NEW s \in Settings(part)
                 PROVE  CASE part = "orders" -> Pilot!SealedIsBalanced(x, s)
                          [] part = "changes" ->
                               /\ Pilot!NothingPostHoc(s[1], s[2], x)
                               /\ Pilot!NothingPostHoc(x, s[2], s[1])
                               /\ Pilot!SealedIsBalanced(x, s[2])
                          [] part = "trials" -> Pilot!FollowedIsFollowed(x)
                          [] part = "metrics" ->
                               /\ Metrics!AcceptedIsEarned(s, x)
                               /\ \A i \in DOMAIN x : Metrics!LossIsNoBenefit(s, x, i)
                          [] part = "percentiles" -> Metrics!PercentileRight(x)
                          [] part = "labels" ->
                               Summary!RestsOnIndependentLabels(x, s[1], s[2])
                                 /\ Summary!FiguresAgree(x, s[1])
                          [] OTHER -> TRUE
      BY DEF PilotsRight
    <2>0. x \in InputsTo(part)  BY <1>1 DEF Asked
    <2>1. ASSUME part = "orders"  PROVE Pilot!SealedIsBalanced(x, s)
      <3>1. ManifestTyped(x)  BY <2>0, <2>1, InputsAreTyped
      <3> QED  BY <3>1, SealBalances
    <2>2. ASSUME part = "changes"
          PROVE  /\ Pilot!NothingPostHoc(s[1], s[2], x) /\ Pilot!NothingPostHoc(x, s[2], s[1])
                 /\ Pilot!SealedIsBalanced(x, s[2])
      <3>1. ManifestTyped(x) /\ ManifestTyped(s[1])  BY <2>0, <2>2, InputsAreTyped
      <3> QED  BY <3>1, SealBalances, SealFreezes
    <2>3. ASSUME part = "trials"  PROVE Pilot!FollowedIsFollowed(x)
      <3>1. ManifestTyped(x) /\ ObservationsTyped(x)  BY <2>0, <2>3, InputsAreTyped
      <3> QED  BY <3>1, MatchedIsFollowed
    <2>4. ASSUME part = "metrics"
          PROVE  /\ Metrics!AcceptedIsEarned(s, x)
                 /\ \A i \in DOMAIN x : Metrics!LossIsNoBenefit(s, x, i)
      <3>1. MeasuredRuns(x) /\ s.stagnation \in Nat \ {0}  BY <2>0, <2>4, InputsAreTyped
      <3> QED  BY <3>1, AcceptanceIsEarned, LossIsNeverABenefit
    <2>5. ASSUME part = "percentiles"  PROVE Metrics!PercentileRight(x)
      <3>1. SortedTyped(x)  BY <2>0, <2>5, InputsAreTyped
      <3> QED  BY <3>1, PercentileIsRight DEF SortedTyped, ListTyped
    <2>6. ASSUME part = "labels"
          PROVE  Summary!RestsOnIndependentLabels(x, s[1], s[2]) /\ Summary!FiguresAgree(x, s[1])
      <3>1. RetainedTyped(x) /\ LabelsTyped(s[1])  BY <2>0, <2>6, InputsAreTyped
      <3> QED  BY <3>1, SummaryIsIndependent, FiguresAreOfTheSame
    <2> QED  BY <2>1, <2>2, <2>3, <2>4, <2>5, <2>6
  <1> QED  BY <1>1, AskedAlways, PTL

\* What is acted on is what was read: a writer replaces the candidate
\* configuration it read, and a complete judgment is of files that are still what
\* they were (config/rule_management.rs, application/judgment.rs).
THEOREM ActsAreRight == PartsSpec => []ActsOnWhatItRead
  <1>1. Rule!NothingOverwritten /\ Judge!JudgmentIsBound => ActsOnWhatItRead
    BY DEF ActsOnWhatItRead
  <1> QED  BY <1>1, PartsAreParts, NoLostEdit, JudgmentBound, PoliciesAreTyped, PTL

\* Whatever else runs, a rule file keeps its text (config/rule_authoring.rs).
THEOREM CandidatesAreKept == PartsSpec => CandidatesKept
  BY PartsAreParts, TextsKept DEF CandidatesKept
=============================================================================

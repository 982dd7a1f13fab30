------------------------ MODULE ValidationRun_proofs ------------------------
(***************************************************************************)
(* What one validation guarantees for every suite, every number of permits *)
(* and every memory budget (ValidationRun): the cases together never hold  *)
(* more than was authorised, and an answer is about the whole suite.       *)
(***************************************************************************)
EXTENDS ValidationRun, FiniteSetTheorems, TLAPS

HoldsTrees == {"capture", "pair", "late", "aborted"}

States == {"new", "ready", "failed"} \cup HoldsTrees

SideStates == {"none", "waiting", "running"} \cup Ended

Structure ==
    /\ shared \in BOOLEAN
    /\ at \in [Cases -> States] /\ side \in [Cases -> [Sides -> SideStates]]
    /\ next \in Nat /\ pending \subseteq Cases

\* Cases are started in order, so a case is pending at most once; one whose task
\* still works is.
Started ==
    /\ \A c \in pending : c < next
    /\ stage \in {"run", "archive"} => \A c \in Cases : at[c] \in {"capture", "pair"} => c \in pending

\* When both sides capture for themselves they take turns.
Turn(c) ==
    ~shared =>
      /\ at[c] # "capture"
      /\ at[c] = "pair" /\ side[c]["candidate"] # "none" => side[c]["baseline"] \in Ended
      /\ side[c]["baseline"] = "running" => side[c]["candidate"] # "running"

\* The cases that hold trees, and those that may do so without being started.
Holding == {c \in Cases : at[c] \in HoldsTrees}

Busy == pending \cup Holding

\* A case that no longer is pending holds trees only when the run is invalid, and
\* then nothing is started any more.
Budgeted ==
    /\ Cardinality(Busy) <= ParallelCases
    /\ stage \in {"run", "archive"} /\ invalid = {} => Holding \subseteq pending
    /\ Cardinality(Permits) <= Jobs

\* A case whose reports are archived, or about to be, is complete for good.
Archived ==
    /\ \A c \in collected : c \in Cases /\ at[c] = "ready" /\ c \notin pending /\ c < next
    /\ stage = "archive" =>
         archiving \in Cases /\ at[archiving] = "ready" /\ archiving \notin pending /\ archiving < next

\* Each recheck that found nothing speaks of what was stale when the cases ended.
Rechecked ==
    /\ changed \subseteq World /\ stale \subseteq changed
    /\ stage \in {"run", "archive"} => stale = {}
    /\ invalid = {} =>
         /\ stage \in {"environment", "evaluator", "decide"} => "inputs" \notin stale
         /\ stage \in {"evaluator", "decide"} => "environment" \notin stale
         /\ stage = "decide" => "evaluator" \notin stale

Answered ==
    /\ conclusion \in {"pass", "block"} =>
         /\ stage \in {"publish", "done"} /\ invalid = {} /\ stale = {} /\ collected = Cases
         /\ \A c \in Cases : Complete(c)
    /\ outcome \in {"none", "error", conclusion} /\ (stage # "done" => outcome = "none")
    /\ conclusion \in {"none", "pass", "block", "incomplete"}

Inductive ==
    /\ Structure /\ Started /\ (\A c \in Cases : Turn(c)) /\ Budgeted
    /\ Archived /\ Rechecked /\ Answered

-----------------------------------------------------------------------------
(* The budget                                                               *)

LEMMA CasesFacts == /\ IsFiniteSet(Cases) /\ Cases \subseteq Nat
                    /\ Cases = 1..Len(Suite) /\ Len(Suite) \in Nat
  <1>1. Len(Suite) \in Nat /\ Cases = 1..Len(Suite)  BY ValidationAssumption DEF Cases
  <1> QED  BY <1>1, FS_Interval

\* Two trees for each of the cases at a time fit the memory.
LEMMA ParallelFacts == ParallelCases \in Nat /\ 2 * ParallelCases <= Trees
  <1>1. Jobs \in Nat /\ Trees \in Nat  BY ValidationAssumption
  <1>2. Trees \div 2 \in Nat /\ 2 * (Trees \div 2) <= Trees  BY <1>1
  <1>3. PICK m \in {Jobs, Trees \div 2} : \A x \in {Jobs, Trees \div 2} : m <= x
    <2>1. CASE Jobs <= Trees \div 2  BY <1>1, <1>2, <2>1
    <2>2. CASE ~(Jobs <= Trees \div 2)  BY <1>1, <1>2, <2>2
    <2> QED  BY <2>1, <2>2
  <1>4. /\ ParallelCases \in {Jobs, Trees \div 2}
        /\ \A x \in {Jobs, Trees \div 2} : ParallelCases <= x
    BY <1>3 DEF ParallelCases, Min
  <1> QED  BY <1>1, <1>2, <1>4

\* What holds no more than before fits when it fitted before.
LEMMA Fewer ==
    ASSUME NEW S, IsFiniteSet(S), NEW T, T \subseteq S
    PROVE  Cardinality(T) <= Cardinality(S) /\ Cardinality(T) \in Nat /\ Cardinality(S) \in Nat
           /\ IsFiniteSet(T)
  BY FS_Subset, FS_CardinalityType

LEMMA BusyFinite ==
    /\ IsFiniteSet(Holding)
    /\ pending \subseteq Cases => IsFiniteSet(Busy) /\ IsFiniteSet(pending)
    /\ IsFiniteSet(Permits)
  <1>1. IsFiniteSet(Holding)  BY CasesFacts, FS_Subset DEF Holding
  <1>2. pending \subseteq Cases => Busy \subseteq Cases  BY DEF Busy, Holding
  <1>3. pending \subseteq Cases => IsFiniteSet(Busy) /\ IsFiniteSet(pending)
    BY <1>2, CasesFacts, FS_Subset
  <1>4. IsFiniteSet(Sides)
    <2>1. Sides = {"baseline"} \cup {"candidate"}  BY DEF Sides
    <2>2. IsFiniteSet({"baseline"})  BY FS_Singleton
    <2> QED  BY <2>1, <2>2, FS_AddElement
  <1>5. IsFiniteSet(Cases \X Sides)  BY <1>4, CasesFacts, FS_Product
  <1>6. IsFiniteSet(Permits)  BY <1>5, FS_Subset DEF Permits
  <1> QED  BY <1>1, <1>3, <1>6

\* However a case captures, it holds at most a pair of trees at a time.
LEMMA PairsFacts ==
    ASSUME Inductive
    PROVE  Cardinality(Pairs) <= Cardinality(Holding) /\ Cardinality(Pairs) \in Nat
  <1>1. IsFiniteSet(Holding)  BY BusyFinite
  <1>2. CASE shared
    <2>1. Pairs = Holding \X {"both"}  BY <1>2 DEF Pairs, Holding, HoldsTrees
    <2>2. IsFiniteSet({"both"}) /\ Cardinality({"both"}) = 1  BY FS_Singleton
    <2>3. Cardinality(Pairs) = Cardinality(Holding) * 1  BY <1>1, <2>1, <2>2, FS_Product
    <2> QED  BY <1>1, <2>3, FS_CardinalityType
  <1>3. CASE ~shared
    <2> DEFINE f == [p \in Pairs |-> p[1]]
    <2>1. ASSUME NEW p \in Pairs
          PROVE  /\ p = <<p[1], p[2]>> /\ p[1] \in Holding /\ p[2] \in Sides
                 /\ side[p[1]][p[2]] = "running"
      BY <1>3 DEF Pairs, Holding, HoldsTrees
    <2>2. ASSUME NEW p \in Pairs, NEW q \in Pairs, f[p] = f[q]  PROVE p = q
      <3>1. p[1] = q[1]  BY <2>2
      <3>2. Turn(p[1])  BY <2>1 DEF Inductive, Holding
      <3>3. p[2] = q[2]  BY <1>3, <2>1, <3>1, <3>2 DEF Turn, Sides
      <3> QED  BY <2>1, <3>1, <3>3
    <2>3. f \in Injection(Pairs, Holding)
      <3>1. f \in [Pairs -> Holding]  BY <2>1
      <3> HIDE DEF f
      <3> QED  BY <2>2, <3>1 DEF Injection, IsInjective
    <2>4. IsFiniteSet(Pairs) /\ Cardinality(Pairs) <= Cardinality(Holding)
      BY <1>1, <2>3, FS_Injection
    <2> QED  BY <2>4, FS_CardinalityType
  <1> QED  BY <1>2, <1>3

-----------------------------------------------------------------------------
(* One case                                                                 *)

scheduling == <<shared, stage, loop, invalid, changed, stale, result>>

\* What a case does on its own: it is the only one that moves, it had a task, and
\* it holds trees only when it did.
CaseMoves(c) ==
    /\ UNCHANGED scheduling
    /\ at[c] \in {"capture", "pair"} /\ at'[c] \in States \ {"new", "capture"}
    /\ side'[c] \in [Sides -> SideStates]
    /\ at' = [at EXCEPT ![c] = at'[c]] /\ side' = [side EXCEPT ![c] = side'[c]]

LEMMA LeftFacts ==
    ASSUME Structure, NEW c \in Cases
    PROVE  /\ Left(c) \in [Sides -> SideStates]
           /\ \A s \in Sides : Left(c)[s] # "waiting" /\ (Left(c)[s] = "running" => side[c][s] = "running")
  BY DEF Left, SideStates, Structure

\* The turns and the permits are what a case's step has to keep itself.
LEMMA CaseKeeps ==
    ASSUME Inductive, NEW c \in Cases, CaseMoves(c), Turn(c)', Cardinality(Permits') <= Jobs
    PROVE  Inductive'
  <1> USE DEF scheduling, loop, result
  <1>1. /\ at \in [Cases -> States] /\ side \in [Cases -> [Sides -> SideStates]]
        /\ \A d \in Cases \ {c} : at'[d] = at[d] /\ side'[d] = side[d]
        /\ at'[c] \in States \ {"new", "capture"} /\ at[c] \in {"capture", "pair"}
        /\ UNCHANGED <<shared, stage, next, pending, archiving, collected, invalid, changed, stale,
                       conclusion, outcome>>
    BY DEF CaseMoves, Inductive, Structure
  <1>2. Structure'
    BY <1>1 DEF CaseMoves, Inductive, Structure
  <1>3. Started'  BY <1>1 DEF Inductive, Started
  <1>4. \A d \in Cases : Turn(d)'
    <2>1. ASSUME NEW d \in Cases \ {c}  PROVE Turn(d)'  BY <1>1 DEF Inductive, Turn
    <2> QED  BY <2>1
  <1>5. Budgeted'
    <2>1. Holding' \subseteq Holding  BY <1>1 DEF Holding, HoldsTrees
    <2>2. Busy' \subseteq Busy  BY <1>1, <2>1 DEF Busy
    <2>3. Cardinality(Busy') <= Cardinality(Busy) /\ Cardinality(Busy) \in Nat /\ Cardinality(Busy') \in Nat
      BY <2>2, BusyFinite, Fewer DEF Inductive, Structure
    <2>4. Cardinality(Busy)' <= ParallelCases  BY <2>3, ParallelFacts DEF Inductive, Budgeted
    <2> QED  BY <1>1, <2>1, <2>4 DEF Inductive, Budgeted
  <1>6. Archived'
    <2>1. c \notin collected  BY <1>1 DEF Inductive, Archived
    <2>2. stage = "archive" => archiving # c  BY <1>1 DEF Inductive, Archived
    <2> QED  BY <1>1, <2>1, <2>2 DEF Inductive, Archived
  <1>7. Rechecked'  BY <1>1 DEF Inductive, Rechecked
  <1>8. Answered'
    <2>1. conclusion \in {"pass", "block"} => c \in collected  BY DEF Inductive, Answered
    <2>2. c \notin collected  BY <1>1 DEF Inductive, Archived
    <2> QED  BY <1>1, <2>1, <2>2 DEF Inductive, Answered
  <1> QED  BY <1>2, <1>3, <1>4, <1>5, <1>6, <1>7, <1>8 DEF Inductive

\* A step that starts no check run takes no permit.
LEMMA NoPermitTaken ==
    ASSUME Inductive,
           \A c \in Cases, s \in Sides :
             at'[c] = "pair" /\ side'[c][s] = "running" => at[c] = "pair" /\ side[c][s] = "running"
    PROVE  Cardinality(Permits') <= Jobs
  <1>1. Permits' \subseteq Permits  BY DEF Permits
  <1>2. Cardinality(Permits') <= Cardinality(Permits) /\ Cardinality(Permits) \in Nat /\ Cardinality(Permits') \in Nat
    BY <1>1, BusyFinite, Fewer
  <1> QED  BY <1>2, ValidationAssumption DEF Inductive, Budgeted

LEMMA StartKeeps ==
    ASSUME Inductive, NEW c \in Cases, NEW s \in Sides, Start(c, s)
    PROVE  Inductive'
  <1>1. /\ at[c] = "pair" /\ side[c][s] = "waiting" /\ Cardinality(Permits) < Jobs
        /\ side' = [side EXCEPT ![c][s] = "running"] /\ at' = at /\ UNCHANGED scheduling
    BY DEF Start, scheduling
  <1>2. /\ \A d \in Cases \ {c} : side'[d] = side[d]
        /\ side'[c] \in [Sides -> SideStates] /\ side'[c][s] = "running"
        /\ \A t \in Sides \ {s} : side'[c][t] = side[c][t]
    BY <1>1 DEF Inductive, Structure, SideStates
  <1>3. CaseMoves(c)
    BY <1>1, <1>2 DEF CaseMoves, Inductive, Structure, States, HoldsTrees, SideStates
  <1>4. Turn(c)'
    BY <1>1, <1>2 DEF Inductive, Turn, Sides, Ended, scheduling
  <1>5. Cardinality(Permits') <= Jobs
    <2>1. Permits' \subseteq Permits \cup {<<c, s>>}  BY <1>1, <1>2 DEF Permits
    <2>2. IsFiniteSet(Permits \cup {<<c, s>>}) /\ Cardinality(Permits \cup {<<c, s>>}) <= Cardinality(Permits) + 1
      <3>1. IsFiniteSet(Permits) /\ Cardinality(Permits) \in Nat  BY BusyFinite, FS_CardinalityType
      <3>2. PICK p : p = <<c, s>>  OBVIOUS
      <3>3. /\ IsFiniteSet(Permits \cup {p})
            /\ Cardinality(Permits \cup {p}) = Cardinality(Permits)
               \/ Cardinality(Permits \cup {p}) = Cardinality(Permits) + 1
        BY <3>1, FS_AddElement
      <3> HIDE DEF Permits
      <3> QED  BY <3>1, <3>2, <3>3
    <2>3. Cardinality(Permits') <= Cardinality(Permits \cup {<<c, s>>})
          /\ Cardinality(Permits') \in Nat /\ Cardinality(Permits \cup {<<c, s>>}) \in Nat
      BY <2>1, <2>2, Fewer
    <2>4. Cardinality(Permits) \in Nat /\ Jobs \in Nat
      BY BusyFinite, FS_CardinalityType, ValidationAssumption
    <2> QED  BY <1>1, <2>2, <2>3, <2>4
  <1> QED  BY <1>3, <1>4, <1>5, CaseKeeps

LEMMA FinishKeeps ==
    ASSUME Inductive, NEW c \in Cases, NEW s \in Sides, FinishSide(c, s)
    PROVE  Inductive'
  <1>1. PICK how \in Ended :
          side' = [side EXCEPT ![c] = [t \in Sides |-> IF t = s THEN how
                                                     ELSE IF @[t] = "none" THEN "waiting" ELSE @[t]]]
    BY DEF FinishSide, Ended
  <1>2. at[c] = "pair" /\ side[c][s] = "running" /\ at' = at /\ UNCHANGED scheduling
    BY DEF FinishSide, scheduling
  <1>3. /\ \A d \in Cases \ {c} : side'[d] = side[d]
        /\ side'[c] \in [Sides -> SideStates] /\ side'[c][s] = how
        /\ \A t \in Sides \ {s} :
             side'[c][t] = IF side[c][t] = "none" THEN "waiting" ELSE side[c][t]
    BY <1>1 DEF Inductive, Structure, SideStates
  <1>4. CaseMoves(c)
    BY <1>1, <1>2, <1>3 DEF CaseMoves, Inductive, Structure, States, HoldsTrees, SideStates
  <1>5. Turn(c)'
    <2>1. Turn(c)  BY DEF Inductive
    <2> QED  BY <1>1, <1>2, <1>3, <2>1 DEF Turn, Sides, Ended, scheduling
  <1>6. Cardinality(Permits') <= Jobs
    BY <1>2, <1>3, NoPermitTaken DEF Ended
  <1> QED  BY <1>4, <1>5, <1>6, CaseKeeps

LEMMA OtherWorkKeeps ==
    ASSUME Inductive, NEW c \in Cases, CaptureShared(c) \/ Pair(c) \/ LoseCase(c)
    PROVE  Inductive'
  <1>1. /\ at[c] \in {"capture", "pair"} /\ UNCHANGED scheduling
        /\ \E now \in {"pair", "ready", "failed", "late"} : at' = [at EXCEPT ![c] = now]
        /\ \/ side' = side
           \/ side' = [side EXCEPT ![c] = Both] /\ at[c] = "capture"
           \/ side' = [side EXCEPT ![c] = Left(c)]
        /\ at'[c] = "pair" => at[c] = "capture"
    BY DEF CaptureShared, Pair, LoseCase, scheduling, loop, result, Inductive, Structure
  <1>2. Both \in [Sides -> SideStates] /\ \A s \in Sides : Both[s] = "waiting"
    BY DEF Both, SideStates
  <1>3. /\ \A d \in Cases \ {c} : side'[d] = side[d] /\ at'[d] = at[d]
        /\ side'[c] \in [Sides -> SideStates] /\ at'[c] \in {"pair", "ready", "failed", "late"}
        /\ \A s \in Sides : side'[c][s] = "running" => side[c][s] = "running"
        /\ at[c] = "capture" => at'[c] # "pair" \/ side'[c] \in {Both, side[c], Left(c)}
    BY <1>1, <1>2, LeftFacts DEF Inductive, Structure
  <1>4. CaseMoves(c)
    BY <1>1, <1>3 DEF CaseMoves, Inductive, Structure, States, HoldsTrees
  <1>5. Turn(c)'
    <2>1. Turn(c)  BY DEF Inductive
    <2> QED  BY <1>1, <1>3, <2>1 DEF Turn, Sides, scheduling
  <1>6. Cardinality(Permits') <= Jobs
    <2>1. ASSUME at'[c] = "pair"  PROVE \A s \in Sides : side'[c][s] # "running"
      BY <2>1, <1>1, <1>2 DEF CaptureShared, Pair, LoseCase, Inductive, Structure
    <2> QED  BY <1>3, <2>1, NoPermitTaken
  <1> QED  BY <1>4, <1>5, <1>6, CaseKeeps
-----------------------------------------------------------------------------
(* The scheduler                                                            *)

LEMMA SpawnKeeps ==
    ASSUME Inductive, Spawn
    PROVE  Inductive'
  <1> USE DEF loop, result
  <1>1. /\ stage = "run" /\ invalid = {} /\ next \in Cases /\ Cardinality(pending) < ParallelCases
        /\ next' = next + 1 /\ pending' = pending \cup {next}
        /\ at' = [at EXCEPT ![next] = IF shared THEN "capture" ELSE "pair"]
        /\ side' = [side EXCEPT ![next] = IF shared THEN @ ELSE Turns]
        /\ UNCHANGED <<shared, stage, archiving, collected, invalid, changed, stale, conclusion, outcome>>
    BY DEF Spawn, CanSpawn
  <1>2. Turns \in [Sides -> SideStates] /\ Turns["baseline"] = "waiting" /\ Turns["candidate"] = "none"
    BY DEF Turns, Sides, SideStates
  <1>3. /\ \A c \in Cases \ {next} : at'[c] = at[c] /\ side'[c] = side[c]
        /\ at'[next] = (IF shared THEN "capture" ELSE "pair")
        /\ ~shared => side'[next] = Turns
        /\ next \in Nat
    BY <1>1 DEF Inductive, Structure
  <1>4. Structure'
    BY <1>1, <1>2 DEF Inductive, Structure, States, HoldsTrees
  <1>5. Started'
    <2>1. \A c \in pending : c < next /\ c \in Nat  BY CasesFacts DEF Inductive, Started, Structure
    <2>2. \A c \in pending' : c < next'  BY <1>1, <1>3, <2>1
    <2> QED  BY <1>1, <1>3, <2>2 DEF Inductive, Started
  <1>6. \A c \in Cases : Turn(c)'
    <2>1. ASSUME NEW c \in Cases, c # next  PROVE Turn(c)'  BY <1>1, <1>3, <2>1 DEF Inductive, Turn
    <2>2. ASSUME NEW c \in Cases, c = next  PROVE Turn(c)'  BY <1>1, <1>2, <1>3, <2>2 DEF Turn
    <2> QED  BY <2>1, <2>2
  <1>7. Budgeted'
    <2>1. Holding \subseteq pending  BY <1>1 DEF Inductive, Budgeted
    <2>2. Holding' \subseteq pending'  BY <1>1, <1>3, <2>1 DEF Holding
    <2>3. Busy' = pending \cup {next}  BY <1>1, <2>2 DEF Busy
    <2>4. IsFiniteSet(pending) /\ Cardinality(pending) \in Nat
      BY BusyFinite, FS_CardinalityType DEF Inductive, Structure
    <2>5. Cardinality(pending \cup {next}) = Cardinality(pending)
          \/ Cardinality(pending \cup {next}) = Cardinality(pending) + 1
      BY <2>4, FS_AddElement
    <2>6. Cardinality(pending \cup {next}) <= ParallelCases
      BY <1>1, <2>4, <2>5, ParallelFacts
    <2>7. Cardinality(Busy)' <= ParallelCases  BY <2>3, <2>6
    <2>8. Cardinality(Permits') <= Jobs
      <3>1. ASSUME NEW c \in Cases, NEW s \in Sides, at'[c] = "pair", side'[c][s] = "running"
            PROVE  at[c] = "pair" /\ side[c][s] = "running"
        BY <1>2, <1>3, <3>1 DEF Sides
      <3> QED  BY <3>1, NoPermitTaken
    <2> QED  BY <2>2, <2>7, <2>8 DEF Budgeted
  <1>8. Archived'
    <2>1. \A c \in Cases : c < next => c # next /\ c < next + 1  BY <1>3, CasesFacts
    <2>2. collected' = collected /\ stage' = "run"  BY <1>1
    <2>3. \A c \in collected : c \in Cases /\ at'[c] = "ready" /\ c \notin pending' /\ c < next'
      BY <1>1, <1>3, <2>1 DEF Inductive, Archived
    <2> QED  BY <2>2, <2>3 DEF Archived
  <1>9. Rechecked'  BY <1>1 DEF Inductive, Rechecked
  <1>10. Answered'  BY <1>1 DEF Inductive, Answered
  <1> QED  BY <1>4, <1>5, <1>6, <1>7, <1>8, <1>9, <1>10 DEF Inductive

\* A step of the loop that starts nothing and leaves the cases alone.
LEMMA LoopKeeps ==
    ASSUME Inductive, UNCHANGED <<shared, at, side, next>>,
           pending' \subseteq pending, Started',
           stage' \in {"run", "archive"} /\ invalid' = {} => Holding \subseteq pending'
    PROVE  Structure' /\ (\A c \in Cases : Turn(c)') /\ Budgeted'
  <1>1. Structure'  BY DEF Inductive, Structure
  <1>2. \A c \in Cases : Turn(c)'  BY DEF Inductive, Turn
  <1>3. Budgeted'
    <2>1. Holding' = Holding  BY DEF Holding
    <2>2. Busy' \subseteq Busy  BY <2>1 DEF Busy
    <2>3. Cardinality(Busy') <= Cardinality(Busy) /\ Cardinality(Busy) \in Nat /\ Cardinality(Busy') \in Nat
      BY <2>2, BusyFinite, Fewer DEF Inductive, Structure
    <2>4. Cardinality(Busy)' <= ParallelCases  BY <2>3, ParallelFacts DEF Inductive, Budgeted
    <2>5. Cardinality(Permits') <= Jobs  BY NoPermitTaken
    <2> QED  BY <2>1, <2>4, <2>5 DEF Budgeted
  <1> QED  BY <1>1, <1>2, <1>3

LEMMA JoinKeeps ==
    ASSUME Inductive, NEW c \in Cases, Join(c)
    PROVE  Inductive'
  <1> USE DEF loop, result, case
  <1>1. /\ stage = "run" /\ invalid = {} /\ c \in pending /\ pending' = pending \ {c}
        /\ \/ at[c] = "ready" /\ stage' = "archive" /\ archiving' = c
           \/ at[c] \in {"failed", "late"} /\ invalid' = {"cases"} /\ stage' = "run" /\ archiving' = archiving
        /\ UNCHANGED <<shared, at, side, next, collected, changed, stale, conclusion, outcome>>
    BY DEF Join, Waiting
  <1>2. Started'  BY <1>1 DEF Inductive, Started
  <1>3. stage' \in {"run", "archive"} /\ invalid' = {} => Holding \subseteq pending'
    BY <1>1 DEF Inductive, Budgeted, Holding, HoldsTrees
  <1>4. Structure' /\ (\A d \in Cases : Turn(d)') /\ Budgeted'
    BY <1>1, <1>2, <1>3, LoopKeeps
  <1>5. Archived'  BY <1>1 DEF Inductive, Archived, Started
  <1>6. Rechecked'  BY <1>1 DEF Inductive, Rechecked
  <1>7. Answered'  BY <1>1 DEF Inductive, Answered
  <1> QED  BY <1>2, <1>4, <1>5, <1>6, <1>7 DEF Inductive

LEMMA ArchiveKeeps ==
    ASSUME Inductive, Archive
    PROVE  Inductive'
  <1> USE DEF loop, result, case
  <1>1. /\ stage = "archive" /\ stage' = "run"
        /\ \/ collected' = collected \cup {archiving} /\ invalid' = invalid
           \/ invalid' = invalid \cup {"cases"} /\ collected' = collected
        /\ UNCHANGED <<shared, at, side, next, pending, changed, stale, conclusion, outcome>>
    BY DEF Archive
  <1>2. Started'  BY <1>1 DEF Inductive, Started
  <1>3. stage' \in {"run", "archive"} /\ invalid' = {} => Holding \subseteq pending'
    BY <1>1 DEF Inductive, Budgeted
  <1>4. Structure' /\ (\A d \in Cases : Turn(d)') /\ Budgeted'
    BY <1>1, <1>2, <1>3, LoopKeeps
  <1>5. Archived'  BY <1>1 DEF Inductive, Archived
  <1>6. Rechecked'  BY <1>1 DEF Inductive, Rechecked
  <1>7. Answered'  BY <1>1 DEF Inductive, Answered
  <1> QED  BY <1>2, <1>4, <1>5, <1>6, <1>7 DEF Inductive

LEMMA StopKeeps ==
    ASSUME Inductive, Stop
    PROVE  Inductive'
  <1> USE DEF loop, result
  <1>1. /\ stage = "run" /\ stage' = "inputs" /\ pending' = {} /\ stale' = changed
        /\ at' = [c \in Cases |-> IF c \in pending THEN "aborted" ELSE at[c]]
        /\ side' = [c \in Cases |-> IF c \in collected THEN side[c] ELSE Left(c)]
        /\ UNCHANGED <<shared, next, archiving, collected, invalid, changed, conclusion, outcome>>
    BY DEF Stop
  <1>2. \A c \in Cases : at'[c] \notin {"capture", "pair"}
    BY <1>1 DEF Inductive, Started, Structure
  <1>3. \A c \in Cases : /\ side'[c] \in [Sides -> SideStates]
                         /\ \A s \in Sides : side'[c][s] = "running" => side[c][s] = "running"
    BY <1>1, LeftFacts DEF Inductive, Structure
  <1>4. Structure'
    <2>1. at' \in [Cases -> States]  BY <1>1 DEF Inductive, Structure, States, HoldsTrees
    <2>2. side' \in [Cases -> [Sides -> SideStates]]  BY <1>1, <1>3
    <2> QED  BY <1>1, <2>1, <2>2 DEF Inductive, Structure
  <1>5. Started'  BY <1>1 DEF Started
  <1>6. \A c \in Cases : Turn(c)'
    BY <1>1, <1>2, <1>3 DEF Inductive, Turn, Sides
  <1>7. Budgeted'
    <2>1. Busy' \subseteq Busy  BY <1>1 DEF Busy, Holding
    <2>2. Cardinality(Busy') <= Cardinality(Busy) /\ Cardinality(Busy) \in Nat /\ Cardinality(Busy') \in Nat
      BY <2>1, BusyFinite, Fewer DEF Inductive, Structure
    <2>3. Cardinality(Busy)' <= ParallelCases  BY <2>2, ParallelFacts DEF Inductive, Budgeted
    <2>4. Cardinality(Permits') <= Jobs  BY <1>2, NoPermitTaken
    <2> QED  BY <1>1, <2>3, <2>4 DEF Budgeted
  <1>8. Archived'  BY <1>1 DEF Inductive, Archived
  <1>9. Rechecked'  BY <1>1 DEF Inductive, Rechecked
  <1>10. Answered'  BY <1>1 DEF Inductive, Answered
  <1> QED  BY <1>4, <1>5, <1>6, <1>7, <1>8, <1>9, <1>10 DEF Inductive

\* The rest of the run: no case moves and nothing is scheduled.
Aftermath ==
    TotalTimeout \/ Recheck \/ Decide \/ Publish \/ Bail \/ (\E x \in World : Change(x))

LEMMA AftermathKeeps ==
    ASSUME Inductive, Aftermath
    PROVE  Inductive'
  <1> USE DEF loop, result, case
  <1>1. /\ UNCHANGED <<shared, at, side, next, pending, archiving, collected, stale>>
        /\ stage' \in {"run", "archive"} => stage' = stage
        /\ invalid' = {} => invalid = {}
    BY DEF Aftermath, TotalTimeout, Waiting, Recheck, After, Decide, Publish, Bail, Change
  <1>2. Started'  BY <1>1 DEF Inductive, Started
  <1>3. stage' \in {"run", "archive"} /\ invalid' = {} => Holding \subseteq pending'
    BY <1>1 DEF Inductive, Budgeted
  <1>4. Structure' /\ (\A d \in Cases : Turn(d)') /\ Budgeted'
    BY <1>1, <1>2, <1>3, LoopKeeps
  <1>5. Archived'  BY <1>1 DEF Inductive, Archived
  <1>6. Rechecked' /\ Answered'
    <2>1. CASE TotalTimeout
      BY <2>1 DEF TotalTimeout, Waiting, Inductive, Rechecked, Answered
    <2>2. CASE Recheck
      <3>1. /\ \/ stage = "inputs" /\ stage' = "environment"
               \/ stage = "environment" /\ stage' = "evaluator"
               \/ stage = "evaluator" /\ stage' = "decide"
            /\ stage \notin changed \/ invalid' # {}
            /\ invalid' = {} => invalid = {}
            /\ UNCHANGED <<changed, stale, collected, conclusion, outcome>>
        BY <2>2 DEF Recheck, After
      <3>2. Rechecked'  BY <3>1 DEF Inductive, Rechecked
      <3>3. Answered'  BY <3>1 DEF Inductive, Answered
      <3> QED  BY <3>2, <3>3
    <2>3. CASE Decide
      <3>1. PICK verdict \in {Judge(collected, invalid)}, grown \in BOOLEAN :
              conclusion' = IF grown /\ verdict # "incomplete" THEN "block" ELSE verdict
        BY <2>3 DEF Decide
      <3>2. verdict \in {"incomplete", "block", "pass"}
            /\ (verdict # "incomplete" => invalid = {} /\ collected = Cases /\ \A c \in Cases : Complete(c))
        BY DEF Judge
      <3>3. stage = "decide" /\ stage' = "publish" /\ UNCHANGED <<side, invalid, changed, stale, collected, outcome>>
        BY <2>3 DEF Decide
      <3>4. invalid = {} => stale = {}
        BY <3>3, ValidationAssumption DEF Inductive, Rechecked
      <3>5. Rechecked'  BY <3>3 DEF Inductive, Rechecked
      <3>6. outcome = "none"  BY <3>3 DEF Inductive, Answered
      <3>7. (\A c \in Cases : Complete(c)) => (\A c \in Cases : Complete(c)')
        BY <3>3 DEF Complete
      <3>8. Answered'
        BY <3>1, <3>2, <3>3, <3>4, <3>6, <3>7 DEF Answered
      <3> QED  BY <3>5, <3>8
    <2>4. CASE Publish
      <3>1. stage = "publish" /\ stage' = "done" /\ outcome' \in {conclusion, "error"}
            /\ UNCHANGED <<side, invalid, changed, stale, collected, conclusion>>
        BY <2>4 DEF Publish
      <3>2. Answered'  BY <3>1 DEF Inductive, Answered, Complete
      <3> QED  BY <3>1, <3>2 DEF Inductive, Rechecked
    <2>5. CASE Bail
      BY <2>5 DEF Bail, Inductive, Rechecked, Answered
    <2>6. CASE \E x \in World : Change(x)
      BY <2>6 DEF Change, Inductive, Rechecked, Answered, Complete
    <2> QED  BY <2>1, <2>2, <2>3, <2>4, <2>5, <2>6 DEF Aftermath
  <1> QED  BY <1>2, <1>4, <1>5, <1>6 DEF Inductive

-----------------------------------------------------------------------------
(* Every run                                                                *)

LEMMA InitInductive == Init => Inductive
  <1> SUFFICES ASSUME Init  PROVE Inductive  OBVIOUS
  <1>1. Structure
    BY ValidationAssumption DEF Init, Structure, States, SideStates
  <1>2. Started /\ (\A c \in Cases : Turn(c))
    BY DEF Init, Started, Turn, Sides
  <1>3. Budgeted
    <2>1. Holding = {} /\ Busy = {} /\ Permits = {}
      BY DEF Init, Holding, HoldsTrees, Busy, Permits
    <2> QED  BY <2>1, FS_EmptySet, ParallelFacts, ValidationAssumption DEF Budgeted
  <1>4. Archived /\ Rechecked /\ Answered
    BY DEF Init, Archived, Rechecked, Answered
  <1> QED  BY <1>1, <1>2, <1>3, <1>4 DEF Inductive

LEMMA StepKeeps == Inductive /\ [Next]_vars => Inductive'
  <1> SUFFICES ASSUME Inductive, [Next]_vars  PROVE Inductive'  OBVIOUS
  <1>1. CASE Spawn  BY <1>1, SpawnKeeps
  <1>2. CASE \E c \in Cases : Join(c)  BY <1>2, JoinKeeps
  <1>3. CASE Archive  BY <1>3, ArchiveKeeps
  <1>4. CASE Stop  BY <1>4, StopKeeps
  <1>5. CASE Aftermath  BY <1>5, AftermathKeeps
  <1>6. CASE \E c \in Cases, s \in Sides : Start(c, s)  BY <1>6, StartKeeps
  <1>7. CASE \E c \in Cases, s \in Sides : FinishSide(c, s)  BY <1>7, FinishKeeps
  <1>8. CASE \E c \in Cases : CaptureShared(c) \/ Pair(c) \/ LoseCase(c)
    BY <1>8, OtherWorkKeeps
  <1>9. CASE UNCHANGED vars
    <2>1. UNCHANGED <<shared, at, side, next, pending, stage, archiving, collected, invalid, changed,
                      stale, conclusion, outcome>>
      BY <1>9 DEF vars, case, loop, result
    <2>2. Structure' /\ Started' /\ (\A c \in Cases : Turn(c)')
      BY <2>1 DEF Inductive, Structure, Started, Turn
    <2>3. Holding' = Holding /\ Busy' = Busy /\ Permits' = Permits
      BY <2>1 DEF Holding, Busy, Permits
    <2>4. Budgeted'  BY <2>1, <2>3 DEF Inductive, Budgeted
    <2>5. Archived' /\ Rechecked' /\ Answered'
      BY <2>1 DEF Inductive, Archived, Rechecked, Answered, Complete
    <2> QED  BY <2>2, <2>4, <2>5 DEF Inductive
  <1> QED
    BY <1>1, <1>2, <1>3, <1>4, <1>5, <1>6, <1>7, <1>8, <1>9
    DEF Next, Schedule, Work, Done, Aftermath

THEOREM Invariance == Spec => []Inductive
  BY InitInductive, StepKeeps, PTL DEF Spec

\* However many cases there are and whichever of them time out or are given up,
\* what they and the work they left behind hold fits the memory the suite
\* authorised, and no more check runs than permits go on at a time (ParallelCases
\* and Spawn of policy_validation.rs).
THEOREM BudgetKept == Spec => []WithinBudget
  <1>1. Inductive => WithinBudget
    <2> SUFFICES ASSUME Inductive  PROVE WithinBudget  OBVIOUS
    <2>1. Holding \subseteq Busy  BY DEF Busy
    <2>2. Cardinality(Holding) <= Cardinality(Busy) /\ Cardinality(Holding) \in Nat /\ Cardinality(Busy) \in Nat
      BY <2>1, BusyFinite, Fewer DEF Inductive, Structure
    <2>3. Cardinality(Busy) <= ParallelCases  BY DEF Inductive, Budgeted
    <2>4. Trees \in Nat  BY ValidationAssumption
    <2>5. 2 * Cardinality(Pairs) <= Trees
      BY <2>2, <2>3, <2>4, ParallelFacts, PairsFacts
    <2> QED  BY <2>5 DEF WithinBudget, Inductive, Budgeted
  <1> QED  BY <1>1, Invariance, PTL

\* A published answer is about the whole suite and about the inputs that were in
\* place after its last case, whatever was joined, timed out or changed before.
THEOREM AnswersComplete == Spec => []AnswersAreComplete
  <1>1. Inductive => AnswersAreComplete
    BY DEF Inductive, Answered, Archived, AnswersAreComplete
  <1> QED  BY <1>1, Invariance, PTL
=============================================================================

-------------------------- MODULE AgentHost_proofs --------------------------
(***************************************************************************)
(* Theorems about AgentHost, for every set of sources and tasks, whatever  *)
(* the checks say of them, and any number of changes from outside.         *)
(***************************************************************************)
EXTENDS AgentHost, TLAPS

Book(book) ==
    DOMAIN book = {"attempts", "status", "termination", "complete", "delivery", "contract"}

Over == at[1] \in {"ended", "dead"}

\* Until the session ended neither ledger has an ending.
Running ==
    /\ Book(ledger) /\ Book(index)
    /\ at[1] # "ended" => \A book \in {ledger, index} :
                            ~book.complete /\ book.termination = "running"

\* The counters that decide whether another attempt starts.
Bounded ==
    /\ attempt \in 1..MaxAttempts /\ stagnant \in Nat
    /\ ~Over => stagnant < 2

\* While an agent may run, the ledger on disk is the one in memory and names
\* the attempt.
Announced ==
    at[1] = "agent" =>
        /\ index = ledger /\ index.attempts = attempt
        /\ index.status \in {"running", "agent_finished"}

\* From the injection to the delivery the pinned contract is the injected one;
\* a recheck of the pinned evaluator that passed exported what it captured, and
\* what is to be delivered is such an export, of the session's task, of another
\* tree.  The pinned evaluator's projections say what they saw.
Deliverable ==
    /\ DOMAIN archive = {"trees", "altered"}
    /\ at[1] \in {"agent", "recheck", "deliver"} => ledger.contract = injected
    /\ at[1] = "recheck" /\ at[2] = "after" /\ by = "pinned" /\ Verdict[saw.code] = "pass" =>
         saw \in archive.trees
    /\ at[1] = "deliver" =>
         /\ last \in archive.trees /\ last # first /\ last.task = first.task
         /\ judge = "pinned"
    /\ at[1] = "deliver" /\ at[2] = "after" /\ by = "pinned" =>
         /\ says.ready => saw.adopted
         /\ says.contract = Contract(saw) /\ says.asks

Inductive == Running /\ Bounded /\ Announced /\ Deliverable /\ CompleteIsEarned

-----------------------------------------------------------------------------
LEMMA InitInductive == Init => Inductive
  BY HostAssumption DEF Init, Inductive, Running, Book, Bounded, Over, Announced, Deliverable,
     CompleteIsEarned, Ledger

\* Whatever ends a session without completing it keeps the invariant.
LEMMA EndKeeps ==
    ASSUME NEW book, Book(book), ~book.complete, EndAs(book),
           attempt' \in 1..MaxAttempts, stagnant' \in Nat,
           DOMAIN archive' = {"trees", "altered"}
    PROVE  Inductive'
  BY DEF EndAs, Inductive, Running, Book, Bounded, Over, Announced, Deliverable, CompleteIsEarned

\* So do the ends the controller knows, from whatever ledger it holds.
LEMMA StopKeeps ==
    ASSUME NEW book, Book(book), ~book.complete,
           attempt' \in 1..MaxAttempts, stagnant' \in Nat,
           DOMAIN archive' = {"trees", "altered"},
           (\E why : Stop(book, why)) \/ Fail(book) \/ OutOfTime(book)
    PROVE  Inductive'
  <1>1. CASE \E why : Stop(book, why)
    <2>1. PICK why : EndAs([book EXCEPT !.termination = why])  BY <1>1 DEF Stop
    <2>2. /\ Book([book EXCEPT !.termination = why])
          /\ ~[book EXCEPT !.termination = why].complete
      BY DEF Book
    <2> QED  BY <2>1, <2>2, EndKeeps
  <1>2. CASE Fail(book)
    <2>1. EndAs([book EXCEPT !.termination = "execution_incomplete"])  BY <1>2 DEF Fail, Stop
    <2>2. /\ Book([book EXCEPT !.termination = "execution_incomplete"])
          /\ ~[book EXCEPT !.termination = "execution_incomplete"].complete
      BY DEF Book
    <2> QED  BY <2>1, <2>2, EndKeeps
  <1>3. CASE OutOfTime(book)
    <2> DEFINE late == [book EXCEPT !.termination = "time_budget",
                          !.status = IF @ = "running" THEN "budget_exhausted_before_agent" ELSE @]
    <2>1. EndAs(late)  BY <1>3 DEF OutOfTime
    <2>2. Book(late) /\ ~late.complete  BY DEF Book
    <2> HIDE DEF late
    <2> QED  BY <2>1, <2>2, EndKeeps
  <1> QED  BY <1>1, <1>2, <1>3

-----------------------------------------------------------------------------
(* The world outside, and the host's death *)

LEMMA WorldKeeps == Inductive /\ (Edit \/ Commit \/ Rebuild \/ Alter \/ Expire) => Inductive'
  <1> SUFFICES ASSUME Inductive, Edit \/ Commit \/ Rebuild \/ Alter \/ Expire
               PROVE  Inductive'
    OBVIOUS
  <1>1. /\ at[1] # "ended" /\ UNCHANGED <<at, run, session, ledger, index>>
    BY DEF Edit, Commit, Rebuild, Alter, Expire, Outside
  <1>2. archive'.trees = archive.trees /\ DOMAIN archive' = {"trees", "altered"}
    BY DEF Edit, Commit, Rebuild, Alter, Expire, world, Inductive, Deliverable
  <1>3. (Running /\ Bounded /\ Announced)'
    BY <1>1 DEF Inductive, Running, Book, Bounded, Over, Announced, session
  <1>4. Deliverable'
    BY <1>1, <1>2 DEF Inductive, Deliverable, Contract, session, run
  <1>5. CompleteIsEarned'
    BY <1>1 DEF Inductive, Running, CompleteIsEarned
  <1> QED  BY <1>3, <1>4, <1>5 DEF Inductive

\* Nothing on disk is complete before the session ended.
LEMMA DeathKeeps == Inductive /\ Die => Inductive'
  <1> SUFFICES ASSUME Inductive, Die  PROVE Inductive'
    OBVIOUS
  <1>1. /\ at[1] # "ended" /\ at' = <<"dead">> /\ attempt' = 1 /\ stagnant' = 0
        /\ ledger' = index /\ UNCHANGED <<index, archive>>
    BY DEF Die, world
  <1>2. Book(index) /\ ~index.complete /\ index.termination = "running"
    BY <1>1 DEF Inductive, Running
  <1> QED
    BY <1>1, <1>2, HostAssumption
       DEF Inductive, Running, Book, Bounded, Over, Announced, Deliverable, CompleteIsEarned

-----------------------------------------------------------------------------
(* The commands *)

\* What every step of the host starts from.
LEMMA Before ==
    ASSUME Inductive, at[1] \notin {"ended", "dead"}
    PROVE  /\ Book(ledger) /\ Book(index) /\ ~ledger.complete /\ ~index.complete
           /\ ledger.termination = "running" /\ index.termination = "running"
           /\ attempt \in 1..MaxAttempts /\ stagnant \in Nat /\ stagnant < 2
           /\ DOMAIN archive = {"trees", "altered"}
  BY DEF Inductive, Running, Bounded, Over, Deliverable

LEMMA CommandKeeps == Inductive /\ (Launch \/ Settle \/ Cut \/ Distrust) => Inductive'
  <1> SUFFICES ASSUME Inductive, Launch \/ Settle \/ Cut \/ Distrust  PROVE Inductive'
    OBVIOUS
  <1>1. /\ at[1] \in Evaluating /\ UNCHANGED <<archive, session>>
        /\ \/ Fail(ledger) \/ OutOfTime(ledger)
           \/ /\ at[2] # "after" /\ UNCHANGED <<ledger, index>>
              /\ \/ at' = <<at[1], "during">>
                 \/ at[1] \in Projecting /\ at' = <<at[1], "after">> /\ Settle
    BY DEF Launch, Settle, Cut, Distrust, Idle, Keep, world, Projecting, Evaluating
  <1>2. at[1] \notin {"ended", "dead"}  BY <1>1 DEF Evaluating
  <1>3. CASE Fail(ledger) \/ OutOfTime(ledger)
    BY <1>1, <1>2, <1>3, Before, StopKeeps DEF session
  <1>4. CASE ~(Fail(ledger) \/ OutOfTime(ledger))
    <2>1. /\ UNCHANGED <<archive, session, ledger, index>> /\ at'[1] = at[1]
          /\ at[1] # "agent" /\ (at[1] = "recheck" => at'[2] # "after")
      BY <1>1, <1>4 DEF Evaluating, Projecting
    <2>2. (Running /\ Bounded /\ Announced)'
      BY <2>1 DEF Inductive, Running, Book, Bounded, Over, Announced, session
    <2>3. ASSUME at[1] = "deliver", at'[2] = "after", by' = "pinned"
          PROVE  (says'.ready => saw'.adopted) /\ says'.contract = Contract(saw') /\ says'.asks
      <3> DEFINE honest == [ready |-> saw = tree /\ saw.adopted, contract |-> Contract(saw), asks |-> TRUE]
      <3>1. /\ UNCHANGED <<saw, by>>
            /\ says' \in IF by # "pinned" THEN Projections ELSE {honest}
        BY <1>1, <1>4, <2>3 DEF Settle
      <3>2. by = "pinned" /\ saw' = saw  BY <2>3, <3>1
      <3>3. says' = honest  BY <3>1, <3>2, Zenon
      <3>4. /\ honest.contract = Contract(saw) /\ honest.asks /\ (honest.ready => saw.adopted)
        OBVIOUS
      <3> HIDE DEF honest
      <3> QED  BY <3>2, <3>3, <3>4, Zenon DEF Contract
    <2>4. Deliverable'
      BY <2>1, <2>3 DEF Inductive, Deliverable, Contract, session
    <2>5. CompleteIsEarned'
      BY <2>1, <1>2, Before DEF CompleteIsEarned
    <2> QED  BY <2>2, <2>4, <2>5 DEF Inductive
  <1> QED  BY <1>3, <1>4

LEMMA CaptureKeeps == Inductive /\ Capture => Inductive'
  <1> SUFFICES ASSUME Inductive, Capture  PROVE Inductive'
    OBVIOUS
  <1>1. at[1] \in Evaluating /\ at[1] \notin {"ended", "dead"} /\ UNCHANGED session
    BY DEF Capture, Evaluating
  <1>2. CASE Fail(ledger) /\ UNCHANGED archive
    BY <1>1, <1>2, Before, StopKeeps DEF session
  <1>3. ASSUME NEW exports \in Exports,
               archive' = IF exports THEN [archive EXCEPT !.trees = @ \cup {tree}] ELSE archive,
               at' = <<at[1], IF at[1] \in Projecting THEN "settling" ELSE "after">>,
               UNCHANGED <<ledger, index>>
        PROVE  Inductive'
    <2>1. at'[1] = at[1] /\ by' = exe /\ (at[1] = "recheck" => saw' = tree)
      BY <1>3 DEF Capture, Captured, Projecting
    <2>2. (Running /\ Bounded /\ Announced)'
      BY <1>1, <1>3, <2>1 DEF Inductive, Running, Book, Bounded, Over, Announced, session, Evaluating
    <2>3. DOMAIN archive' = {"trees", "altered"} /\ archive.trees \subseteq archive'.trees
      BY <1>3 DEF Inductive, Deliverable
    <2>4. at[1] = "recheck" /\ exe = "pinned" /\ Verdict[tree.code] = "pass" => tree \in archive'.trees
      BY <1>3 DEF Inductive, Deliverable, Exports
    <2>5. at'[2] = "after" => at[1] # "deliver"  BY <1>3 DEF Projecting
    <2>6. Deliverable'
      BY <1>1, <1>3, <2>1, <2>3, <2>4, <2>5 DEF Inductive, Deliverable, session
    <2>7. CompleteIsEarned'
      BY <1>1, <1>3, Before DEF CompleteIsEarned
    <2> QED  BY <2>2, <2>6, <2>7 DEF Inductive
  <1> QED  BY <1>2, <1>3 DEF Capture

-----------------------------------------------------------------------------
(* The session *)

LEMMA InitialKeeps == Inductive /\ Initial => Inductive'
  <1> SUFFICES ASSUME Inductive, Initial  PROVE Inductive'
    OBVIOUS
  <1>1. /\ at = <<"initial", "after">> /\ at[1] \notin {"ended", "dead"}
        /\ UNCHANGED <<archive, attempt, injected, stagnant>>
    BY DEF Initial, Concluded, Idle, world
  <1>2. CASE Stop(ledger, "incomplete_check")
    BY <1>1, <1>2, Before, StopKeeps
  <1>3. CASE at' = <<"project", "before">> /\ UNCHANGED <<ledger, index>>
    BY <1>1, <1>3, Before
       DEF Inductive, Running, Book, Bounded, Over, Announced, Deliverable, CompleteIsEarned
  <1> QED  BY <1>2, <1>3 DEF Initial

LEMMA InjectKeeps == Inductive /\ Inject => Inductive'
  <1> SUFFICES ASSUME Inductive, Inject  PROVE Inductive'
    OBVIOUS
  <1> DEFINE pinned == [ledger EXCEPT !.contract = IF attempt = 1 THEN says.contract ELSE @]
             going == [pinned EXCEPT !.attempts = attempt, !.status = "running"]
  <1>1. /\ at = <<"project", "after">> /\ at[1] \notin {"ended", "dead"}
        /\ UNCHANGED <<archive, saw, attempt, stagnant>>
    BY DEF Inject, Concluded, Idle, world, run
  <1>2. Book(pinned) /\ ~pinned.complete /\ pinned.termination = "running"
    BY <1>1, Before DEF Book
  <1>3. /\ Book(going) /\ ~going.complete /\ going.termination = "running"
        /\ going.contract = pinned.contract /\ going.attempts = attempt /\ going.status = "running"
    BY <1>2 DEF Book
  <1>4. \/ Stop(ledger, "contract_incomplete") \/ Fail(pinned)
        \/ /\ pinned.contract = says.contract /\ injected' = says.contract
           /\ ledger' = going /\ index' = going /\ at' = <<"agent", "during">>
    BY DEF Inject, Save
  <1> HIDE DEF pinned, going
  <1>5. CASE Stop(ledger, "contract_incomplete") \/ Fail(pinned)
    BY <1>1, <1>2, <1>5, Before, StopKeeps
  <1>6. CASE /\ pinned.contract = says.contract /\ injected' = says.contract
             /\ ledger' = going /\ index' = going /\ at' = <<"agent", "during">>
    BY <1>1, <1>3, <1>6, Before
       DEF Inductive, Running, Bounded, Over, Announced, Deliverable, Contract, CompleteIsEarned
  <1> QED  BY <1>4, <1>5, <1>6

LEMMA AgentKeeps == Inductive /\ (AgentEnds \/ AgentTooLate \/ AgentFailed) => Inductive'
  <1> SUFFICES ASSUME Inductive, AgentEnds \/ AgentTooLate \/ AgentFailed  PROVE Inductive'
    OBVIOUS
  <1>1. /\ at[1] = "agent" /\ at[1] \notin {"ended", "dead"}
        /\ UNCHANGED <<archive, saw, session>>
    BY DEF AgentEnds, AgentTooLate, AgentFailed, Idle, Keep, world, run
  <1>2. CASE (\E why : Stop(ledger, why)) \/ Fail(ledger) \/ OutOfTime(ledger)
    BY <1>1, <1>2, Before, StopKeeps DEF session
  <1>3. CASE AgentEnds /\ ~Fail(ledger)
    <2> DEFINE finished == [ledger EXCEPT !.status = "agent_finished"]
    <2>1. /\ ledger' = finished /\ index' = finished /\ at'[1] = "agent"
      BY <1>3 DEF AgentEnds, Save
    <2>2. /\ Book(finished) /\ ~finished.complete /\ finished.termination = "running"
          /\ finished.status = "agent_finished" /\ finished.attempts = ledger.attempts
          /\ finished.contract = ledger.contract
      BY <1>1, Before DEF Book
    <2>3. ledger.attempts = attempt /\ ledger.contract = injected
      BY <1>1 DEF Inductive, Announced, Deliverable
    <2> HIDE DEF finished
    <2> QED
      BY <1>1, <2>1, <2>2, <2>3, Before
         DEF Inductive, Running, Bounded, Over, Announced, Deliverable, Contract,
             CompleteIsEarned, session
  <1> QED  BY <1>2, <1>3 DEF AgentEnds, AgentTooLate, AgentFailed

LEMMA ApplyKeeps == Inductive /\ Apply => Inductive'
  <1> SUFFICES ASSUME Inductive, Apply  PROVE Inductive'
    OBVIOUS
  <1>1. /\ at[1] = "agent" /\ at[1] \notin {"ended", "dead"}
        /\ UNCHANGED <<archive, saw, session>>
    BY DEF Apply, Keep, run
  <1>2. CASE Fail(ledger)
    BY <1>1, <1>2, Before, StopKeeps DEF session
  <1>3. CASE at' = <<"recheck", "before">> /\ UNCHANGED <<ledger, index>>
    BY <1>1, <1>3, Before
       DEF Inductive, Running, Bounded, Over, Announced, Deliverable, Contract,
           CompleteIsEarned, session
  <1> QED  BY <1>2, <1>3 DEF Apply

LEMMA RecheckKeeps == Inductive /\ Recheck => Inductive'
  <1> SUFFICES ASSUME Inductive, Recheck  PROVE Inductive'
    OBVIOUS
  <1>1. /\ at = <<"recheck", "after">> /\ at[1] \notin {"ended", "dead"}
        /\ last' = saw /\ judge' = by /\ by = "pinned" /\ UNCHANGED <<archive, saw, first, injected>>
    BY DEF Recheck, Concluded, Idle, world, run, Trusted
  <1>2. /\ Book(Checked) /\ ~Checked.complete /\ Checked.termination = "running"
        /\ Checked.contract = ledger.contract
    BY <1>1, Before DEF Book, Checked
  <1> DEFINE stuck == IF Progress(debt, Debt[saw.code]) THEN 0 ELSE stagnant + 1
  <1>3. stuck \in Nat  BY <1>1, Before
  <1>4. \/ Fail(Checked) /\ UNCHANGED <<attempt, stagnant>>
        \/ Stop(Checked, "incomplete_check") /\ UNCHANGED <<attempt, stagnant>>
        \/ /\ saw.task = first.task /\ Verdict[saw.code] = "pass" /\ saw # first
           /\ at' = <<"deliver", "before">> /\ ledger' = Checked
           /\ UNCHANGED <<index, attempt, stagnant>>
        \/ stagnant' = stuck /\ (\E why : Stop(Checked, why)) /\ UNCHANGED attempt
        \/ /\ stagnant' = stuck /\ stuck < 2 /\ attempt < MaxAttempts /\ attempt' = attempt + 1
           /\ ledger' = Checked /\ index' = Checked /\ at' = <<"project", "before">>
    BY DEF Recheck, Save
  <1> HIDE DEF stuck
  <1>5. CASE \/ Fail(Checked) /\ UNCHANGED <<attempt, stagnant>>
             \/ Stop(Checked, "incomplete_check") /\ UNCHANGED <<attempt, stagnant>>
             \/ stagnant' = stuck /\ (\E why : Stop(Checked, why)) /\ UNCHANGED attempt
    <2>1. attempt' \in 1..MaxAttempts /\ stagnant' \in Nat /\ DOMAIN archive' = {"trees", "altered"}
      BY <1>1, <1>3, <1>5, Before
    <2>2. (\E why : Stop(Checked, why)) \/ Fail(Checked)  BY <1>5
    <2> QED  BY <1>2, <2>1, <2>2, StopKeeps
  <1>6. CASE /\ saw.task = first.task /\ Verdict[saw.code] = "pass" /\ saw # first
             /\ at' = <<"deliver", "before">> /\ ledger' = Checked
             /\ UNCHANGED <<index, attempt, stagnant>>
    <2>1. saw \in archive.trees /\ ledger.contract = injected
      BY <1>1, <1>6 DEF Inductive, Deliverable
    <2> QED
      BY <1>1, <1>2, <1>6, <2>1, Before
         DEF Inductive, Running, Bounded, Over, Announced, Deliverable, Contract, CompleteIsEarned
  <1>7. CASE /\ stagnant' = stuck /\ stuck < 2 /\ attempt < MaxAttempts /\ attempt' = attempt + 1
             /\ ledger' = Checked /\ index' = Checked /\ at' = <<"project", "before">>
    <2>1. attempt' \in 1..MaxAttempts  BY <1>1, <1>7, Before, HostAssumption
    <2> QED
      BY <1>1, <1>2, <1>3, <1>7, <2>1, Before
         DEF Inductive, Running, Bounded, Over, Announced, Deliverable, CompleteIsEarned
  <1> QED  BY <1>4, <1>5, <1>6, <1>7

\* The one step that may call a ledger complete: what the last check passed and
\* exported is what the delivery's projection saw, under the injected contract.
LEMMA DeliverKeeps == Inductive /\ Deliver => Inductive'
  <1> SUFFICES ASSUME Inductive, Deliver  PROVE Inductive'
    OBVIOUS
  <1>1. /\ at = <<"deliver", "after">> /\ at[1] \notin {"ended", "dead"}
        /\ UNCHANGED <<archive, run, session>>
    BY DEF Deliver, Concluded, Idle, Keep, world
  <1>2. CASE Fail(ledger) \/ OutOfTime(ledger)
    BY <1>1, <1>2, Before, StopKeeps DEF session
  <1>3. CASE /\ Intact
             /\ EndAs([ledger EXCEPT !.termination = IF Authorized THEN "accepted" ELSE "delivery_blocked",
                                     !.complete = Authorized, !.delivery = last])
    <2> DEFINE final == [ledger EXCEPT !.termination = IF Authorized THEN "accepted"
                                                       ELSE "delivery_blocked",
                                       !.complete = Authorized, !.delivery = last]
    <2>1. ledger' = final /\ index' = final /\ at' = <<"ended">>  BY <1>3 DEF EndAs
    <2>2. /\ Book(final) /\ final.complete = Authorized /\ final.delivery = last
          /\ final.contract = ledger.contract
          /\ Authorized => final.termination = "accepted"
      BY <1>1, Before DEF Book
    <2> HIDE DEF final
    <2>3. CASE Authorized
      <3>1. /\ says.ready /\ says.contract = injected /\ saw = last
            /\ Verdict[last.code] = "pass" /\ (says.asks => Verified[last.code])
        BY <2>3 DEF Authorized
      <3>2. /\ ledger.contract = injected /\ last \in archive.trees \ archive.altered
            /\ last # first /\ last.task = first.task /\ judge = "pinned"
        BY <1>1, <1>3 DEF Inductive, Deliverable, Intact
      <3>3. by = "pinned" => injected = Contract(last) /\ last.adopted /\ Verified[last.code]
        BY <1>1, <3>1 DEF Inductive, Deliverable
      <3>4. CompleteIsEarned'
        BY <1>1, <2>1, <2>2, <2>3, <3>1, <3>2, <3>3 DEF CompleteIsEarned, Contract, session, run
      <3>5. (Running /\ Bounded /\ Announced /\ Deliverable)'
        BY <1>1, <2>1, <2>2, Before DEF Running, Bounded, Over, Announced, Deliverable, session
      <3> QED  BY <3>4, <3>5 DEF Inductive
    <2>4. CASE ~Authorized
      BY <1>1, <2>1, <2>2, <2>4, Before
         DEF Inductive, Running, Bounded, Over, Announced, Deliverable, CompleteIsEarned, session
    <2> QED  BY <2>3, <2>4
  <1> QED  BY <1>2, <1>3 DEF Deliver

-----------------------------------------------------------------------------
LEMMA NextInductive == Inductive /\ [Next]_vars => Inductive'
  <1> SUFFICES ASSUME Inductive, [Next]_vars  PROVE Inductive'
    OBVIOUS
  <1>1. CASE UNCHANGED vars
    BY <1>1 DEF Inductive, Running, Book, Bounded, Over, Announced, Deliverable, Contract,
                CompleteIsEarned, vars, world, session, run
  <1>2. CASE Edit \/ Commit \/ Rebuild \/ Alter \/ Expire \/ Die  BY <1>2, WorldKeeps, DeathKeeps
  <1>3. CASE Host
    BY <1>3, CommandKeeps, CaptureKeeps, InitialKeeps, InjectKeeps, AgentKeeps, ApplyKeeps,
       RecheckKeeps, DeliverKeeps DEF Host
  <1> QED  BY <1>1, <1>2, <1>3 DEF Next

THEOREM HostInductive == Spec => []Inductive
  BY InitInductive, NextInductive, PTL DEF Spec

\* Whenever a ledger, in memory or on disk, calls a session complete, what it
\* delivers is an exported and unaltered archive of the very tree that the pinned
\* evaluator itself passed last, under the first task contract, and another tree
\* than the first, whatever changed in between, whichever executable ran and
\* wherever the host died; the contract is what the projections said it was, and
\* that of the delivered tree when the pinned evaluator made the last of them
\* (agent_host.rs:341-400, agent_host_contract.rs:52-107).
THEOREM CompletionEarned == Spec => []CompleteIsEarned
  <1>1. Inductive => CompleteIsEarned  BY DEF Inductive
  <1> QED  BY <1>1, HostInductive, PTL

\* No agent runs that index.json does not name already, none is started after
\* two checks in a row without progress, and none beyond the attempts allowed
\* (agent_host.rs:262-270, 401-413).
THEOREM AgentsAnnounced == Spec => []AnnouncedAndBounded
  <1>1. Inductive => AnnouncedAndBounded
    BY HostAssumption DEF Inductive, Running, Bounded, Over, Announced, AnnouncedAndBounded
  <1> QED  BY <1>1, HostInductive, PTL
=============================================================================

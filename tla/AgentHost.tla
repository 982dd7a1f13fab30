------------------------------ MODULE AgentHost ------------------------------
(***************************************************************************)
(* The consuming-agent controller (application/agent_host.rs): it checks   *)
(* the workspace, projects the agent's contract, lets the agent edit,      *)
(* checks again, and either repairs, gives up, or authorizes the archive   *)
(* its last check exported.  Each command it starts takes time, in which   *)
(* the agent, a user or a build may change the workspace, the checkout's   *)
(* commit, the evaluator's executable or the archive; the host may die.    *)
(* What another executable says under the pinned one's name is anything,   *)
(* but a report carries the digest of the executable that made it.         *)
(***************************************************************************)
EXTENDS Naturals, FiniteSets

CONSTANTS
    Codes, Tasks,   \* versions of the source and of the task contract
    Verdict,        \* [Codes -> "pass", "fail" or "incomplete"]
    Debt,           \* [Codes -> fingerprints of error diagnostics and blockers]
    Verified,       \* [Codes -> do the checks of the agent's obligations verify]
    Proposals,      \* replacement mode: the sources the agent may answer
    Claims,         \* bound: the trees another executable's projection may be about
    MaxAttempts,
    MaxEvents       \* bound: changes of the outside world

\* The obligations' source in the workspace is as adopted, or not
Tree == [code : Codes, task : Tasks, adopted : BOOLEAN]

ASSUME HostAssumption == MaxAttempts \in 1..3 /\ MaxEvents \in Nat /\ Claims \subseteq Tree
None == [code |-> "none"]

VARIABLES
    tree, head, exe,   \* the workspace, its commit moved or not, the executable
    archive,           \* exported archives: the trees under whose digest they lie,
                       \*   and the altered ones
    events,            \* changes of the outside world so far
    expired,           \* the session's deadline passed
    at,                \* <<the command, its stage>>, or <<how the session ended>>
    saw,               \* the tree the command captured
    by,                \* the executable that ran as it
    says,              \* what a projection says: ready or not, its contract, and
                       \*   whether it asks for the evidence of the obligations
    attempt,
    first, last,       \* trees of the initial and of the latest check
    judge,             \* history: the executable that made the latest report
    injected,          \* the contract the agent was given
    proposing,         \* replacement mode: the agent answers with a source
    original,          \* and this was the source before it ran
    debt, stagnant,
    ledger, index      \* the ledger in memory, and index.json

world == <<tree, head, exe, archive>>
session == <<attempt, first, last, judge, injected, proposing, original, debt, stagnant>>
run == <<saw, by, says>>
vars == <<world, events, expired, at, run, session, ledger, index>>

\* What the ledger says: how far the attempt is, how the session ended, whether
\* it is complete and with which archive, and the pinned contract
Ledger == [attempts |-> 0, status |-> "initial", termination |-> "running",
           complete |-> FALSE, delivery |-> None, contract |-> <<>>]

\* The digest of a projection covers the task contract and each obligation's
\* status (application/agent_contract.rs)
Contract(t) == <<t.task, t.adopted>>

Projections == [ready : BOOLEAN, contract : {Contract(t) : t \in Claims}, asks : BOOLEAN]
Silence == [ready |-> FALSE, contract |-> <<>>, asks |-> FALSE]

Init ==
    /\ tree \in {t \in Tree : t.adopted} /\ head = "start" /\ exe = "pinned"
    /\ archive = [trees |-> {}, altered |-> {}]
    /\ events = 0 /\ expired = FALSE
    /\ at = <<"initial", "before">> /\ saw = None /\ by = exe /\ says = Silence
    /\ attempt = 1 /\ first = None /\ last = None /\ judge = "none" /\ injected = <<>>
    /\ proposing \in BOOLEAN /\ original = "none"
    /\ debt = {} /\ stagnant = 0
    /\ ledger = Ledger /\ index = Ledger

-----------------------------------------------------------------------------
(* The world outside the controller *)

Outside == events < MaxEvents /\ events' = events + 1
           /\ at[1] \notin {"ended", "dead"}
           /\ UNCHANGED <<expired, at, run, session, ledger, index>>

Edit == /\ Outside
        /\ \E t \in Tree : /\ Cardinality({f \in DOMAIN t : t[f] # tree[f]}) = 1
                           /\ tree' = t
        /\ UNCHANGED <<head, exe, archive>>

Commit == Outside /\ head' = "moved" /\ UNCHANGED <<tree, exe, archive>>

Rebuild == /\ Outside /\ exe' = IF exe = "pinned" THEN "other" ELSE "pinned"
           /\ UNCHANGED <<tree, head, archive>>

Alter == /\ Outside
         /\ \E t \in archive.trees : archive' = [archive EXCEPT !.altered = @ \cup {t}]
         /\ UNCHANGED <<tree, head, exe>>

Expire == /\ ~expired /\ at[1] \notin {"ended", "dead"} /\ expired' = TRUE
          /\ UNCHANGED <<world, events, at, run, session, ledger, index>>

-----------------------------------------------------------------------------
(* Ends: every path through run_isolated after the first ledger persists the *)
(* ledger once more                                                          *)

EndAs(book) == at' = <<"ended">> /\ ledger' = book /\ index' = book

\* Plausible bug: an early end returns without the last write.
Stop_Unsaved(book, why) ==
    /\ at' = <<"ended">> /\ ledger' = [book EXCEPT !.termination = why] /\ UNCHANGED index

Stop(book, why) == EndAs([book EXCEPT !.termination = why])

\* record_execution_error
Fail(book) == Stop(book, "execution_incomplete")
OutOfTime(book) ==
    EndAs([book EXCEPT !.termination = "time_budget",
                       !.status = IF @ = "running" THEN "budget_exhausted_before_agent" ELSE @])

Idle == UNCHANGED <<world, events, expired>>
Keep == UNCHANGED <<run, session>>

\* Plausible bug: the ledger reaches the disk with the next event only.
Save_Later == UNCHANGED index

\* persist_ledger, with the ledger as it becomes
Save == index' = ledger'

-----------------------------------------------------------------------------
(* Commands: a check or a projection compares the executable before and     *)
(* after, and captures the workspace in between                             *)

Evaluating == {"initial", "project", "recheck", "deliver"}
Projecting == {"project", "deliver"}

Launch ==
    /\ Idle /\ Keep
    /\ at[1] \in Evaluating /\ at[2] = "before"
    /\ \/ exe # "pinned" /\ Fail(ledger)
       \/ exe = "pinned" /\ expired /\ OutOfTime(ledger)
       \/ exe = "pinned" /\ ~expired /\ at' = <<at[1], "during">> /\ UNCHANGED <<ledger, index>>

\* The tree a command says it captured: a projection made by another executable
\* may name any, a check by another one is refused whatever it says.
Captured == IF exe # "pinned" /\ at[1] \in Projecting THEN Claims ELSE {tree}

\* A passing recheck exports what it captured, and refuses to reuse an archive
\* of that name with other bytes.
Exports == IF at[1] # "recheck" THEN {FALSE}
           ELSE IF exe = "pinned" THEN {Verdict[tree.code] = "pass"} ELSE BOOLEAN

Capture ==
    /\ at[1] \in Evaluating /\ at[2] = "during"
    /\ UNCHANGED <<tree, head, exe, events, expired, session>>
    /\ saw' \in Captured /\ by' = exe /\ says' = Silence
    /\ \E exports \in Exports :
         \/ /\ exports /\ tree \in archive.altered
            /\ Fail(ledger) /\ UNCHANGED archive
         \/ /\ exports => tree \notin archive.altered
            /\ archive' = IF exports THEN [archive EXCEPT !.trees = @ \cup {tree}] ELSE archive
            /\ at' = <<at[1], IF at[1] \in Projecting THEN "settling" ELSE "after">>
            /\ UNCHANGED <<ledger, index>>

\* A projection captures again when it is built: it is not ready when the
\* workspace moved meanwhile, nor when an obligation's source is not as adopted.
\* One made by another executable says what it likes.
Settle ==
    /\ at[1] \in Projecting /\ at[2] = "settling" /\ Idle
    /\ says' \in IF by # "pinned" THEN Projections
                 ELSE {[ready |-> saw = tree /\ saw.adopted, contract |-> Contract(saw), asks |-> TRUE]}
    /\ at' = <<at[1], "after">>
    /\ UNCHANGED <<saw, by, session, ledger, index>>

\* The command outlives the deadline, or its capture is incomplete.
Cut ==
    /\ Idle /\ Keep
    /\ at[1] \in Evaluating /\ at[2] \in {"during", "settling", "after"}
    /\ (expired /\ OutOfTime(ledger)) \/ Fail(ledger)

\* Plausible bug: a report is taken from whatever executable made it.
Trusted_Anyone == exe = "pinned"

\* A report names the executable that made it, a projection does not.
Trusted == exe = "pinned" /\ (at[1] \in {"initial", "recheck"} => by = "pinned")

Distrust ==
    /\ Idle /\ Keep
    /\ at[1] \in Evaluating /\ at[2] = "after" /\ ~Trusted /\ Fail(ledger)

Concluded(what) == at = <<what, "after">> /\ Trusted /\ Idle

-----------------------------------------------------------------------------
(* execute *)

\* The initial report is recorded; an incomplete one ends the session at once.
Initial ==
    /\ Concluded("initial")
    /\ first' = saw /\ last' = saw /\ judge' = by /\ debt' = Debt[saw.code]
    /\ UNCHANGED <<run, attempt, injected, proposing, original, stagnant>>
    /\ IF Verdict[saw.code] = "incomplete" THEN Stop(ledger, "incomplete_check")
       ELSE at' = <<"project", "before">> /\ UNCHANGED <<ledger, index>>

\* The prompt is prepared from what was projected, and announced on disk.
Inject ==
    /\ Concluded("project")
    /\ UNCHANGED <<run, attempt, first, last, judge, proposing, debt, stagnant>>
    /\ LET pinned == [ledger EXCEPT !.contract = IF attempt = 1 THEN says.contract ELSE @] IN
       \/ /\ ~says.ready /\ Stop(ledger, "contract_incomplete") /\ UNCHANGED <<injected, original>>
       \/ /\ says.ready /\ (saw # last \/ pinned.contract # says.contract)
          /\ Fail(pinned) /\ UNCHANGED <<injected, original>>
       \/ /\ says.ready /\ saw = last /\ pinned.contract = says.contract
          /\ injected' = says.contract /\ original' = IF proposing THEN tree.code ELSE original
          /\ ledger' = [pinned EXCEPT !.attempts = attempt, !.status = "running"]
          /\ Save /\ at' = <<"agent", "during">>

\* The agent's process ends, and its end is on disk before anything is made of
\* it; it may not have run at all, or its output not be kept.
AgentEnds ==
    /\ at = <<"agent", "during">> /\ Idle /\ Keep
    /\ \/ Fail(ledger)
       \/ /\ ledger' = [ledger EXCEPT !.status = "agent_finished"]
          /\ Save /\ at' \in {<<"agent", "ended">>, <<"agent", "failed">>}

\* No time was left to start it.
AgentTooLate == at = <<"agent", "during">> /\ expired /\ Idle /\ Keep /\ OutOfTime(ledger)

\* What it changed is retained before its exit counts.
AgentFailed ==
    /\ at[1] = "agent" /\ at[2] \in {"ended", "failed"} /\ Idle /\ Keep
    /\ \/ Fail(ledger)
       \/ at[2] = "failed" /\ Stop(ledger, IF expired THEN "time_budget" ELSE "agent_failed")

\* The controller itself edits in replacement mode, only the source the agent
\* was shown, and only by a message that says how (apply_replacement).
Apply ==
    /\ at = <<"agent", "ended">>
    /\ UNCHANGED <<head, exe, archive, events, expired>> /\ Keep
    /\ \/ proposing /\ Fail(ledger) /\ UNCHANGED tree
       \/ /\ proposing /\ tree.code = original
          /\ \E code \in Proposals : tree' = [tree EXCEPT !.code = code]
          /\ Fail(ledger) \/ (at' = <<"recheck", "before">> /\ UNCHANGED <<ledger, index>>)
       \/ /\ ~proposing /\ UNCHANGED <<tree, ledger, index>>
          /\ at' = <<"recheck", "before">>

\* progress: strictly fewer, and none that was not there before
Progress(before, after) == after \subseteq before /\ after # before

Checked == [ledger EXCEPT !.status = "checked"]

Recheck ==
    /\ Concluded("recheck")
    /\ last' = saw /\ judge' = by
    /\ UNCHANGED <<run, first, injected, proposing, original>>
    /\ LET verdict == Verdict[saw.code]
           stuck == IF Progress(debt, Debt[saw.code]) THEN 0 ELSE stagnant + 1
           deliver == verdict = "pass" /\ saw # first
       IN \/ /\ saw.task # first.task \/ head # "start"
             /\ Fail(Checked) /\ UNCHANGED <<attempt, debt, stagnant>>
          \/ /\ saw.task = first.task /\ head = "start" /\ verdict = "incomplete"
             /\ Stop(Checked, "incomplete_check") /\ UNCHANGED <<attempt, debt, stagnant>>
          \/ /\ saw.task = first.task /\ head = "start" /\ deliver
             /\ at' = <<"deliver", "before">> /\ ledger' = Checked
             /\ UNCHANGED <<index, attempt, debt, stagnant>>
          \/ /\ saw.task = first.task /\ head = "start" /\ verdict # "incomplete" /\ ~deliver
             /\ debt' = Debt[saw.code] /\ stagnant' = stuck
             /\ \/ stuck >= 2 /\ Stop(Checked, "no_progress") /\ UNCHANGED attempt
                \/ /\ stuck < 2 /\ attempt = MaxAttempts
                   /\ Stop(Checked, "attempt_budget") /\ UNCHANGED attempt
                \/ /\ stuck < 2 /\ attempt < MaxAttempts
                   /\ attempt' = attempt + 1 /\ ledger' = Checked /\ Save
                   /\ at' = <<"project", "before">>

\* Plausible bug: the projection made for the delivery is not compared.
Authorized_Injected == Verdict[last.code] = "pass" /\ (says.asks => Verified[last.code])

\* authorize: the current projection, the injected contract and the report
Authorized ==
    /\ says.ready /\ says.contract = injected
    /\ Verdict[last.code] = "pass" /\ saw.task = last.task
    /\ saw = last
    /\ says.asks => Verified[last.code]

\* Plausible bug: the archive is taken as the recheck left it.
Intact_Assumed == TRUE

\* The archive is read once more before the decision.
Intact == last \notin archive.altered

Deliver ==
    /\ Concluded("deliver") /\ Keep
    /\ \/ ~Intact /\ Fail(ledger)
       \/ Intact /\ expired /\ OutOfTime(ledger)
       \/ /\ Intact /\ ~expired
          /\ EndAs([ledger EXCEPT !.termination = IF Authorized THEN "accepted"
                                                  ELSE "delivery_blocked",
                                  !.complete = Authorized, !.delivery = last])

\* The host dies and takes with it what it knew; what index.json says stays.
Die ==
    /\ at[1] \notin {"ended", "dead"} /\ at' = <<"dead">>
    /\ saw' = None /\ by' = "pinned" /\ says' = Silence
    /\ attempt' = 1 /\ first' = None /\ last' = None /\ judge' = "none" /\ injected' = <<>>
    /\ original' = "none" /\ debt' = {} /\ stagnant' = 0 /\ ledger' = index
    /\ UNCHANGED <<world, events, expired, proposing, index>>

Host == Launch \/ Capture \/ Settle \/ Cut \/ Distrust \/ Initial \/ Inject \/ AgentEnds \/ AgentTooLate
        \/ AgentFailed \/ Apply \/ Recheck \/ Deliver
Next == Edit \/ Commit \/ Rebuild \/ Alter \/ Expire \/ Host \/ Die

\* Every command the host starts ends by itself or at the deadline.
Spec == Init /\ [][Next]_vars /\ WF_vars(Host)

-----------------------------------------------------------------------------
\* What a ledger calls complete is an archive, unaltered, of the very tree that
\* the pinned evaluator itself passed in the last attempt, under the first task
\* contract, changed against the start of the session, and the contract pinned at
\* the first attempt is the one the last agent was given.  Projections are compared
\* by what they say: when the pinned evaluator made the last one, the contract is
\* that of the delivered tree, its obligations are as adopted and their evidence
\* verifies; an executable exchanged for the time of a projection is not noticed
\* (agent_host.rs:341-400, agent_host_contract.rs:52-107, domain/agent_host.rs:64-194).
\* It holds of the ledger on disk too, wherever the host died.
CompleteIsEarned ==
    \A book \in {ledger, index} : book.complete =>
        /\ book.termination = "accepted" /\ book.delivery = last
        /\ judge = "pinned" /\ Verdict[last.code] = "pass"
        /\ last # first /\ last.task = first.task
        /\ last \in archive.trees \ archive.altered
        /\ book.contract = injected
        /\ by = "pinned" => injected = Contract(last) /\ last.adopted /\ Verified[last.code]

\* No agent runs unannounced: while one may be editing, index.json already names
\* its attempt, so a host that died leaves the edits attributable; and no agent is
\* started after two checks in a row without progress (agent_host.rs:262-270, 401-413).
AnnouncedAndBounded ==
    at[1] = "agent" =>
        /\ index.attempts = attempt /\ index.status \in {"running", "agent_finished"}
        /\ index.termination = "running" /\ ~index.complete
        /\ stagnant < 2 /\ attempt <= MaxAttempts

\* A session that the host survives ends, and its last word is on disk.
SessionEnds == <>(/\ at[1] \in {"ended", "dead"}
                  /\ at[1] = "ended" => index = ledger /\ index.termination # "running")
=============================================================================

--------------------------- MODULE GuardedCommand ---------------------------
(***************************************************************************)
(* Commands that run one after the other on the same materialised files    *)
(* (application/commands.rs execute_until): the guard is created, and each *)
(* command is captured between two verifications.  Whoever is alive writes *)
(* to the files: the command, its descendants, and those that left the     *)
(* group of an earlier command.                                            *)
(***************************************************************************)
EXTENDS InputGuard, ProcessCapture, Sequences

CONSTANT Commands   \* bound: commands on one workspace

ASSUME CommandsAssumption == Commands \in Nat

VARIABLES step,     \* "start", "create", "next", "before", "command", "after", "end"
          given,    \* the commands started or refused so far
          succeeded, \* whether the command that ended last did so by itself
          verdicts, \* of each command: "accepted", "failed" or "blocked"
          tainted   \* history: of each command, the files altered when it had ended

account == <<given, succeeded, verdicts, tainted>>
vars    == <<guardVars, captureVars, step, account>>

Init ==
  /\ GuardInit /\ CaptureInit
  /\ step = "start" /\ given = 0 /\ succeeded = FALSE /\ verdicts = <<>> /\ tainted = <<>>

Goto(to) == step' = to

Answer(verdict, altered) ==
  /\ verdicts' = Append(verdicts, verdict) /\ tainted' = Append(tainted, altered)

CreateGuard ==
  /\ step = "start" /\ Begin("create") /\ Goto("create")
  /\ UNCHANGED <<captureVars, account>>

EndCreate ==
  /\ step = "create"
  /\ (Created /\ Goto("next")) \/ (Unverified /\ Goto("end"))
  /\ UNCHANGED <<captureVars, account>>

NextCommand ==
  /\ step = "next" /\ given < Commands /\ given' = given + 1
  /\ Begin("verify") /\ Goto("before")
  /\ UNCHANGED <<captureVars, succeeded, verdicts, tainted>>

\* The command runs on verified files only, or is answered without running.
Before ==
  /\ step = "before"
  /\ \/ Verified /\ Goto("command") /\ UNCHANGED <<verdicts, tainted>>
     \/ Unverified /\ Goto("next") /\ Answer("blocked", {})
  /\ UNCHANGED <<captureVars, given, succeeded>>

StartCommand ==
  /\ step = "command" /\ Spawn
  /\ UNCHANGED <<guardVars, step, account>>

\* The command is over, refused or run; the files are verified all the same.
EndCommand ==
  /\ step = "command"
  /\ \/ Take /\ succeeded' = Succeeded
     \/ phase = "idle" /\ succeeded' = FALSE /\ UNCHANGED captureVars
  /\ Begin("verify") /\ Goto("after")
  /\ tainted' = Append(tainted, Altered)
  /\ UNCHANGED <<given, verdicts>>

After ==
  /\ step = "after"
  /\ \/ Verified /\ verdicts' = Append(verdicts, IF succeeded THEN "accepted" ELSE "failed")
     \/ Unverified /\ verdicts' = Append(verdicts, "blocked")
  /\ Goto("next")
  /\ UNCHANGED <<captureVars, given, succeeded, tainted>>

\* The evaluation is cancelled while the command runs.
Cancel ==
  /\ step = "command" /\ Drop /\ Goto("end")
  /\ UNCHANGED <<guardVars, account>>

Finish ==
  /\ step = "next" /\ given = Commands /\ Goto("end")
  /\ UNCHANGED <<guardVars, captureVars, account>>

Meddle ==
  /\ alive # {} /\ \E f \in Files : WriteFile(f)
  /\ UNCHANGED <<captureVars, step, account>>

Live == Processes /\ UNCHANGED <<guardVars, step, account>>

Runner ==
  /\ step = "command" /\ Capture
  /\ UNCHANGED <<guardVars, step, account>>

TimeOut ==
  /\ step = "command" /\ Deadline
  /\ UNCHANGED <<guardVars, step, account>>

Guard == Inspect /\ UNCHANGED <<captureVars, step, account>>

Ended == step = "end" /\ UNCHANGED vars

Program ==
  \/ CreateGuard \/ EndCreate \/ NextCommand \/ Before \/ StartCommand \/ EndCommand
  \/ After \/ Finish \/ Runner \/ Guard

Next == Program \/ Live \/ Meddle \/ TimeOut \/ Cancel \/ Ended

Spec == Init /\ [][Next]_vars

\* What process p does by itself in the end: it completes a write that waits
\* for room, and exits.
Proceed(p) ==
  /\ Exit(p) \/ \E s \in Streams : blocked[p] = s /\ pipe[s] < Room /\ Emit(p, s)
  /\ UNCHANGED <<guardVars, step, account>>

\* The runtime polls every future it has; processes get to run and do not live
\* for ever.  No deadline and no cancellation has to come.
Fairness == WF_vars(Program) /\ \A p \in Procs : WF_vars(Proceed(p))

FairSpec == Spec /\ Fairness

-----------------------------------------------------------------------------
\* Evidence of a command is whole and about the snapshot: where it is accepted,
\* no file had been written since the guard was created, not even one restored
\* since, not by this command, by a descendant or by what an earlier command left
\* behind; and a run that counts as successful was captured whole: everything
\* that was ever written to its streams, by whichever process, within the limit,
\* and the whole input was given to it.
EvidenceIsWhole ==
  /\ \A k \in DOMAIN verdicts : verdicts[k] = "accepted" => tainted[k] = {}
  /\ Succeeded => left = 0 /\ \A s \in Streams : out[s] = wrote[s] /\ out[s] <= Limit

\* No process of the group outlives the capture, however it ended: success,
\* failure, deadline or cancellation.
NoStragglers == phase \in {"returned", "dropped"} => alive \subseteq away

\* Processes that exit in the end are captured to their end: a full pipe, an
\* unread input and a long output never wait for each other.
CommandsEnd == <>(step = "end")
=============================================================================

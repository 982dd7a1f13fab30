--------------------------- MODULE ProcessCapture ---------------------------
(***************************************************************************)
(* runner::capture (runner/mod.rs): a child process in a group of its own, *)
(* its two output streams drained and its input fed concurrently, all of   *)
(* it within a deadline; then the group is killed, also after success.     *)
(* The processes are the environment: the child and its descendants write, *)
(* read, fork, leave the group, close their streams and exit as they like. *)
(* Bytes are counted, not kept.                                            *)
(***************************************************************************)
EXTENDS Naturals, FiniteSets

CONSTANTS Child, Kids,   \* the direct child and its possible descendants
          Streams,       \* stdout and stderr
          Limit,         \* MAX_OUTPUT_BYTES
          Room,          \* bytes a pipe holds
          Volume,        \* bound: bytes written to a stream
          Input          \* bytes of standard input to feed

Procs == {Child} \cup Kids

ASSUME CaptureAssumption ==
  /\ Child \notin Kids /\ {Limit, Volume, Input} \subseteq Nat /\ Room \in Nat \ {0}

VARIABLES phase,    \* "idle", "run", "kill", "reap", "returned" or "dropped"
          alive,    \* the processes that run
          away,     \* those that left the group
          open,     \* those that hold the write ends of the streams
          takers,   \* those that hold the read end of the input
          blocked,  \* the stream a process waits to write to, or "no"
          exited,   \* how the child ended: "no", "code" or "signal"
          pipe,     \* bytes in each stream's pipe
          wrote,    \* bytes written to each stream
          out,      \* bytes captured of each stream
          reader,   \* "reading" or "eof"
          left,     \* input not written yet
          inpipe,   \* input written and not read yet
          stdin,    \* "writing" or "closed"
          waited,   \* the child's exit was collected
          how       \* "none", "ok", "error" or "timeout"

procs       == <<alive, away, open, takers, blocked, exited>>
streams     == <<pipe, wrote, out, reader>>
input       == <<left, inpipe, stdin>>
captureVars == <<phase, procs, streams, input, waited, how>>

Each(v) == [s \in Streams |-> v]

CaptureInit ==
  /\ phase = "idle" /\ alive = {} /\ away = {} /\ open = {} /\ takers = {} /\ exited = "no"
  /\ blocked = [p \in Procs |-> "no"]
  /\ pipe = Each(0) /\ wrote = Each(0) /\ out = Each(0) /\ reader = Each("reading")
  /\ left = Input /\ inpipe = 0 /\ stdin = "writing" /\ waited = FALSE /\ how = "none"

\* The output is taken and the pipes are gone.
Take ==
  /\ phase = "returned" /\ phase' = "idle" /\ open' = {} /\ takers' = {} /\ exited' = "no"
  /\ blocked' = [p \in Procs |-> "no"]
  /\ pipe' = Each(0) /\ wrote' = Each(0) /\ out' = Each(0) /\ reader' = Each("reading")
  /\ left' = Input /\ inpipe' = 0 /\ stdin' = "writing" /\ waited' = FALSE /\ how' = "none"
  /\ UNCHANGED <<alive, away>>

\* New pipes and a new group; who left an earlier group may still be alive.
Spawn ==
  /\ phase = "idle" /\ phase' = "run"
  /\ alive' = alive \cup {Child} /\ open' = {Child} /\ takers' = {Child}
  /\ UNCHANGED <<away, blocked, exited, streams, input, waited, how>>

-----------------------------------------------------------------------------
(* The processes.                                                           *)

\* A process that waits in a write does nothing else until there is room.
Stuck(p) == phase = "run" /\ blocked[p] # "no"

Fork(k) ==
  /\ phase = "run" /\ Child \in alive /\ ~Stuck(Child) /\ k \notin alive
  /\ alive' = alive \cup {k}
  /\ open' = IF Child \in open THEN open \cup {k} ELSE open
  /\ takers' = IF Child \in takers THEN takers \cup {k} ELSE takers
  /\ UNCHANGED <<phase, away, blocked, exited, streams, input, waited, how>>

Leave(k) ==
  /\ k \in alive \ away /\ ~Stuck(k) /\ away' = away \cup {k}
  /\ UNCHANGED <<phase, alive, open, takers, blocked, exited, streams, input, waited, how>>

Close(p) ==
  /\ phase = "run" /\ ~Stuck(p)
  /\ \/ p \in open /\ open' = open \ {p} /\ UNCHANGED takers
     \/ p \in takers /\ takers' = takers \ {p} /\ UNCHANGED open
  /\ UNCHANGED <<phase, alive, away, blocked, exited, streams, input, waited, how>>

\* A process whose pipe is full waits in its write.
Emit(p, s) ==
  /\ phase = "run" /\ p \in open /\ blocked[p] \in {"no", s} /\ wrote[s] < Volume
  /\ IF pipe[s] < Room
       THEN /\ pipe' = [pipe EXCEPT ![s] = @ + 1] /\ wrote' = [wrote EXCEPT ![s] = @ + 1]
            /\ blocked' = [blocked EXCEPT ![p] = "no"]
       ELSE blocked' = [blocked EXCEPT ![p] = s] /\ UNCHANGED <<pipe, wrote>>
  /\ UNCHANGED <<phase, alive, away, open, takers, exited, out, reader, input, waited, how>>

Consume(p) ==
  /\ phase = "run" /\ p \in takers /\ ~Stuck(p) /\ inpipe > 0 /\ inpipe' = inpipe - 1
  /\ UNCHANGED <<phase, procs, streams, left, stdin, waited, how>>

Exit(p) ==
  /\ p \in alive /\ ~Stuck(p)
  /\ alive' = alive \ {p} /\ away' = away \ {p}
  /\ open' = open \ {p} /\ takers' = takers \ {p}
  /\ exited' \in IF p = Child THEN {"code", "signal"} ELSE {exited}
  /\ UNCHANGED <<phase, blocked, streams, input, waited, how>>

-----------------------------------------------------------------------------
(* The capture: try_join of waiting, two drains and the feeder.             *)

Wait ==
  /\ phase = "run" /\ Child \notin alive /\ ~waited /\ waited' = TRUE
  /\ UNCHANGED <<phase, procs, streams, input, how>>

\* The rest of the futures is dropped and the result is settled.
Settle(result) == phase' = "kill" /\ how' = result

\* Plausible bug: the second stream is drained when the first one ended.
Drain_InTurn(s) ==
  /\ phase = "run" /\ reader[s] = "reading" /\ pipe[s] > 0
  /\ LET first == CHOOSE t \in Streams : TRUE IN s = first \/ reader[first] = "eof"
  /\ pipe' = [pipe EXCEPT ![s] = @ - 1] /\ out' = [out EXCEPT ![s] = @ + 1]
  /\ IF out'[s] > Limit THEN Settle("error") ELSE UNCHANGED <<phase, how>>
  /\ UNCHANGED <<procs, wrote, reader, input, waited>>

\* One byte over the limit ends the capture.
Drain(s) ==
  /\ phase = "run" /\ reader[s] = "reading" /\ pipe[s] > 0
  /\ pipe' = [pipe EXCEPT ![s] = @ - 1] /\ out' = [out EXCEPT ![s] = @ + 1]
  /\ IF out'[s] > Limit THEN Settle("error") ELSE UNCHANGED <<phase, how>>
  /\ UNCHANGED <<procs, wrote, reader, input, waited>>

\* End of file needs every holder of the stream gone, not only the child.
Eof(s) ==
  /\ phase = "run" /\ reader[s] = "reading" /\ pipe[s] = 0 /\ open = {}
  /\ reader' = [reader EXCEPT ![s] = "eof"]
  /\ UNCHANGED <<phase, procs, pipe, wrote, out, input, waited, how>>

Feed ==
  /\ phase = "run" /\ stdin = "writing" /\ left > 0 /\ takers # {} /\ inpipe < Room
  /\ left' = left - 1 /\ inpipe' = inpipe + 1
  /\ UNCHANGED <<phase, procs, streams, stdin, waited, how>>

CloseInput ==
  /\ phase = "run" /\ stdin = "writing" /\ left = 0 /\ stdin' = "closed"
  /\ UNCHANGED <<phase, procs, streams, left, inpipe, waited, how>>

\* Nobody can read the input any more before all of it was given.
BreakPipe ==
  /\ phase = "run" /\ stdin = "writing" /\ left > 0 /\ takers = {}
  /\ Settle("error")
  /\ UNCHANGED <<procs, streams, input, waited>>

\* Plausible bug: the child's exit is taken for the end of its output.
Joined_OnExit ==
  /\ phase = "run" /\ waited /\ stdin = "closed"
  /\ Settle("ok")
  /\ UNCHANGED <<procs, streams, input, waited>>

Joined ==
  /\ phase = "run" /\ waited /\ stdin = "closed" /\ \A s \in Streams : reader[s] = "eof"
  /\ Settle("ok")
  /\ UNCHANGED <<procs, streams, input, waited>>

Deadline ==
  /\ phase = "run" /\ Settle("timeout")
  /\ UNCHANGED <<procs, streams, input, waited>>

\* SIGKILL to the process group.
KillGroup ==
  /\ alive' = alive \cap away /\ open' = open \cap away /\ takers' = takers \cap away
  /\ UNCHANGED <<away, blocked>>
  /\ exited' = IF Child \in alive THEN "signal" ELSE exited

\* Plausible bug: only failed commands are cleaned up after.
Kill_OnFailure ==
  /\ phase = "kill" /\ phase' = "reap"
  /\ IF how = "ok" THEN UNCHANGED procs ELSE KillGroup
  /\ UNCHANGED <<streams, input, waited, how>>

Kill ==
  /\ phase = "kill" /\ phase' = "reap" /\ KillGroup
  /\ UNCHANGED <<streams, input, waited, how>>

\* The killed child is collected; five seconds are the bound.
Reap ==
  /\ phase = "reap" /\ phase' = "returned"
  /\ UNCHANGED <<procs, streams, input, waited, how>>

\* The caller's own deadline drops the future, whose guard kills the group.
Drop ==
  /\ phase \in {"run", "kill", "reap"} /\ phase' = "dropped" /\ KillGroup
  /\ UNCHANGED <<streams, input, waited, how>>

Processes ==
  \/ \E k \in Kids : Fork(k) \/ Leave(k)
  \/ \E p \in Procs : Close(p) \/ Consume(p) \/ Exit(p) \/ \E s \in Streams : Emit(p, s)

Capture ==
  \/ Wait \/ Feed \/ CloseInput \/ BreakPipe \/ Joined \/ Kill \/ Reap
  \/ \E s \in Streams : Drain(s) \/ Eof(s)

\* What commands.rs takes for a run that ended by itself.
Succeeded == phase = "returned" /\ how = "ok" /\ exited = "code"
=============================================================================

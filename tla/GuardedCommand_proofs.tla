------------------------ MODULE GuardedCommand_proofs ------------------------
(***************************************************************************)
(* Theorems about GuardedCommand: any number of commands, files, writes    *)
(* and descendants, any limits of the pipes, and any output and input.     *)
(***************************************************************************)
EXTENDS GuardedCommand, TLAPS

-----------------------------------------------------------------------------
(* The capture *)

\* Every byte written is captured or in its pipe; a stream that ended has an
\* empty pipe, and nobody is left to write to it while the command runs.
BytesAccounted ==
    /\ pipe \in [Streams -> Nat] /\ wrote \in [Streams -> Nat] /\ out \in [Streams -> Nat]
    /\ reader \in [Streams -> {"reading", "eof"}]
    /\ \A s \in Streams : wrote[s] = out[s] + pipe[s]
    /\ \A s \in Streams : reader[s] = "eof" => pipe[s] = 0 /\ (phase = "run" => open = {})
    /\ phase = "idle" => \A s \in Streams : reader[s] = "reading" /\ out[s] = 0

\* Only a capture that saw every stream to its end and gave all its input is ok.
OkIsWhole ==
    /\ phase \in {"idle", "run"} => how = "none"
    /\ phase = "run" => \A s \in Streams : out[s] <= Limit
    /\ stdin = "closed" => left = 0
    /\ how = "ok" => left = 0 /\ \A s \in Streams : reader[s] = "eof" /\ out[s] <= Limit

\* Between commands nobody is left in a group.
GroupIsGone ==
    phase \in {"idle", "reap", "returned", "dropped"} => alive \subseteq away

CaptureInv == BytesAccounted /\ OkIsWhole /\ GroupIsGone

LEMMA ProcessesKeep == CaptureInv /\ Processes => CaptureInv'
  <1> SUFFICES ASSUME CaptureInv, Processes  PROVE CaptureInv'
    OBVIOUS
  <1>1. /\ UNCHANGED <<phase, out, reader, left, stdin, how>>
        /\ \/ UNCHANGED <<pipe, wrote>> /\ (open' \subseteq open \/ (open # {} /\ phase = "run"))
           \/ \E s \in Streams :
                 /\ phase = "run" /\ open # {} /\ UNCHANGED open
                 /\ pipe' = [pipe EXCEPT ![s] = @ + 1] /\ wrote' = [wrote EXCEPT ![s] = @ + 1]
    BY DEF Processes, Fork, Leave, Close, Consume, Exit, Emit, procs, streams, input
  <1>2. BytesAccounted'
    BY <1>1 DEF CaptureInv, BytesAccounted
  <1>3. OkIsWhole'
    BY <1>1 DEF CaptureInv, OkIsWhole
  <1>4. GroupIsGone'
    BY DEF CaptureInv, GroupIsGone, Processes, Fork, Leave, Close, Consume, Exit, Emit, procs
  <1> QED  BY <1>2, <1>3, <1>4 DEF CaptureInv

LEMMA CaptureKeeps == CaptureInv /\ Capture => CaptureInv'
  <1> SUFFICES ASSUME CaptureInv, Capture  PROVE CaptureInv'
    OBVIOUS
  <1> USE CaptureAssumption
  <1>1. CASE \E s \in Streams : Drain(s)
    <2>1. PICK s \in Streams : Drain(s)  BY <1>1
    <2>2. BytesAccounted'
      BY <2>1 DEF Drain, Settle, CaptureInv, BytesAccounted, procs
    <2>3. OkIsWhole'
      BY <2>1 DEF Drain, Settle, CaptureInv, BytesAccounted, OkIsWhole, input
    <2>4. GroupIsGone'
      BY <2>1 DEF Drain, Settle, CaptureInv, GroupIsGone, procs
    <2> QED  BY <2>2, <2>3, <2>4 DEF CaptureInv
  <1>2. CASE \E s \in Streams : Eof(s)
    BY <1>2 DEF Eof, CaptureInv, BytesAccounted, OkIsWhole, GroupIsGone, procs, input
  <1>3. CASE Wait \/ Feed \/ CloseInput
    BY <1>3 DEF Wait, Feed, CloseInput, CaptureInv, BytesAccounted, OkIsWhole, GroupIsGone,
                procs, streams, input
  <1>4. CASE BreakPipe \/ Joined
    BY <1>4 DEF BreakPipe, Joined, Settle, CaptureInv, BytesAccounted, OkIsWhole, GroupIsGone,
                procs, streams, input
  <1>5. CASE Kill
    BY <1>5 DEF Kill, KillGroup, CaptureInv, BytesAccounted, OkIsWhole, GroupIsGone,
                streams, input
  <1>6. CASE Reap
    BY <1>6 DEF Reap, CaptureInv, BytesAccounted, OkIsWhole, GroupIsGone, procs, streams, input
  <1> QED  BY <1>1, <1>2, <1>3, <1>4, <1>5, <1>6 DEF Capture

LEMMA OthersKeep == CaptureInv /\ (Spawn \/ Take \/ Deadline \/ Drop) => CaptureInv'
  <1> SUFFICES ASSUME CaptureInv, Spawn \/ Take \/ Deadline \/ Drop  PROVE CaptureInv'
    OBVIOUS
  <1> USE CaptureAssumption
  <1>1. CASE Spawn
    BY <1>1 DEF Spawn, CaptureInv, BytesAccounted, OkIsWhole, GroupIsGone, streams, input
  <1>2. CASE Take
    BY <1>2 DEF Take, Each, CaptureInv, BytesAccounted, OkIsWhole, GroupIsGone
  <1>3. CASE Deadline
    BY <1>3 DEF Deadline, Settle, CaptureInv, BytesAccounted, OkIsWhole, GroupIsGone,
                procs, streams, input
  <1>4. CASE Drop
    BY <1>4 DEF Drop, KillGroup, CaptureInv, BytesAccounted, OkIsWhole, GroupIsGone,
                streams, input
  <1> QED  BY <1>1, <1>2, <1>3, <1>4

-----------------------------------------------------------------------------
(* The guard *)

\* Change times only grow, and no stamp is ahead of them.
StampsBehind ==
    /\ writes \in Nat /\ ctime \in [Files -> Nat] /\ stamps \in [Files -> Nat]
    /\ noted \in [Files -> Nat] /\ scan \in [Files -> {"todo", "looked", "read", "done"}]
    /\ \A f \in Files : ctime[f] <= writes /\ stamps[f] <= ctime[f] /\ noted[f] <= ctime[f]
    /\ task = "none" => scan = Untouched
    /\ step = "after" => task = "verify"

Verdicts == {"accepted", "failed", "blocked"}

\* Every command that was answered has a verdict and the files it altered.
Pairs ==
    /\ verdicts \in Seq(Verdicts) /\ tainted \in Seq(SUBSET Files)
    /\ Len(tainted) = Len(verdicts) + IF step = "after" THEN 1 ELSE 0
    /\ \A k \in DOMAIN verdicts : verdicts[k] = "accepted" => tainted[k] = {}

\* A file the command altered stays ahead of its stamp, and the inspection that
\* follows notes it so.
AlteredShows ==
    step = "after" => \A f \in tainted[Len(tainted)] :
        ctime[f] > stamps[f] /\ (scan[f] # "todo" => noted[f] > stamps[f])

GuardInv == StampsBehind /\ Pairs /\ AlteredShows

Inductive == CaptureInv /\ GuardInv

LEMMA InitInductive == Init => Inductive
  <1> USE CaptureAssumption, GuardAssumption
  <1>1. Init => CaptureInv
    BY DEF Init, CaptureInit, Each, CaptureInv, BytesAccounted, OkIsWhole, GroupIsGone
  <1>2. Init => GuardInv
    BY DEF Init, GuardInit, None, Untouched, GuardInv, StampsBehind, Pairs, AlteredShows
  <1> QED  BY <1>1, <1>2 DEF Inductive

\* A write moves the file's change time past every stamp.
LEMMA MeddleKeeps == GuardInv /\ Meddle => GuardInv'
  <1> SUFFICES ASSUME GuardInv, Meddle  PROVE GuardInv'
    OBVIOUS
  <1>1. PICK f \in Files : WriteFile(f)  BY DEF Meddle
  <1>2. /\ writes' = writes + 1 /\ ctime' = [ctime EXCEPT ![f] = writes']
        /\ UNCHANGED <<stamps, task, scan, noted, step, verdicts, tainted>>
    BY <1>1 DEF WriteFile, Meddle, account
  <1>3. StampsBehind'  BY <1>2 DEF GuardInv, StampsBehind, Untouched
  <1>4. Pairs'  BY <1>2 DEF GuardInv, Pairs
  <1>5. AlteredShows'  BY <1>2 DEF GuardInv, StampsBehind, AlteredShows
  <1> QED  BY <1>3, <1>4, <1>5 DEF GuardInv

LEMMA InspectKeeps == GuardInv /\ Guard => GuardInv'
  <1> SUFFICES ASSUME GuardInv, Guard  PROVE GuardInv'
    OBVIOUS
  <1>1. /\ task # "none"
        /\ UNCHANGED <<writes, ctime, stamps, task, step, verdicts, tainted>>
        /\ \E f \in Files :
             \/ scan[f] = "todo" /\ scan' = [scan EXCEPT ![f] = "looked"]
                /\ noted' = [noted EXCEPT ![f] = ctime[f]]
             \/ scan[f] # "todo" /\ UNCHANGED noted
                /\ (scan' = [scan EXCEPT ![f] = "read"] \/ scan' = [scan EXCEPT ![f] = "done"])
    BY DEF Guard, Inspect, Look, ReadBytes, LookAgain, files, account
  <1>2. StampsBehind'  BY <1>1 DEF GuardInv, StampsBehind, Untouched
  <1>3. Pairs'  BY <1>1 DEF GuardInv, Pairs
  <1>4. AlteredShows'
    <2> SUFFICES ASSUME step = "after", NEW f \in tainted[Len(tainted)]
                 PROVE  ctime[f] > stamps[f] /\ (scan'[f] # "todo" => noted'[f] > stamps[f])
      BY <1>1 DEF AlteredShows
    <2>1. /\ ctime[f] > stamps[f] /\ (scan[f] # "todo" => noted[f] > stamps[f])
      BY DEF GuardInv, AlteredShows
    <2>2. f \in Files  BY DEF GuardInv, Pairs
    <2> QED  BY <1>1, <2>1, <2>2 DEF GuardInv, StampsBehind
  <1> QED  BY <1>2, <1>3, <1>4 DEF GuardInv

\* The sequence of steps around the commands; nothing in it runs while a verdict
\* is owed.
LEMMA AroundKeeps ==
    GuardInv /\ (CreateGuard \/ EndCreate \/ NextCommand \/ Before \/ Finish \/ Cancel) => GuardInv'
  <1> SUFFICES ASSUME GuardInv,
                      CreateGuard \/ EndCreate \/ NextCommand \/ Before \/ Finish \/ Cancel
               PROVE  GuardInv'
    OBVIOUS
  <1>1. step # "after" /\ step' # "after"
    BY DEF CreateGuard, EndCreate, NextCommand, Before, Finish, Cancel, Goto
  <1>2. /\ UNCHANGED <<writes, ctime>>
        /\ stamps' \in {stamps, noted}
        /\ \/ noted' = None /\ scan' = Untouched
           \/ UNCHANGED <<noted, scan>> /\ (task' = "none" => task = "none")
    BY DEF CreateGuard, EndCreate, NextCommand, Before, Finish, Cancel, Begin, Created, Verified,
           Unverified, End, files, guardVars
  <1>3. StampsBehind'
    BY <1>1, <1>2 DEF GuardInv, StampsBehind, None, Untouched
  <1>4. \/ UNCHANGED <<verdicts, tainted>>
        \/ verdicts' = Append(verdicts, "blocked") /\ tainted' = Append(tainted, {})
    BY DEF CreateGuard, EndCreate, NextCommand, Before, Finish, Cancel, Answer, account
  <1>5. Pairs'
    <2>1. /\ verdicts \in Seq(Verdicts) /\ tainted \in Seq(SUBSET Files)
          /\ Len(tainted) = Len(verdicts)
          /\ \A k \in DOMAIN verdicts : verdicts[k] = "accepted" => tainted[k] = {}
      BY <1>1 DEF GuardInv, Pairs
    <2>2. CASE UNCHANGED <<verdicts, tainted>>  BY <1>1, <2>1, <2>2 DEF Pairs
    <2>3. CASE verdicts' = Append(verdicts, "blocked") /\ tainted' = Append(tainted, {})
      <3>1. /\ verdicts' \in Seq(Verdicts) /\ tainted' \in Seq(SUBSET Files)
            /\ Len(tainted') = Len(verdicts')
        <4>1. "blocked" \in Verdicts /\ {} \in SUBSET Files  BY DEF Verdicts
        <4> QED  BY <2>1, <2>3, <4>1
      <3>2. ASSUME NEW k \in DOMAIN verdicts', verdicts'[k] = "accepted"  PROVE tainted'[k] = {}
        <4>1. k \in 1..Len(verdicts) \/ k = Len(verdicts) + 1  BY <2>1, <2>3
        <4>2. k # Len(verdicts) + 1  BY <2>1, <2>3, <3>2
        <4>3. verdicts'[k] = verdicts[k] /\ tainted'[k] = tainted[k]  BY <2>1, <2>3, <4>1, <4>2
        <4> QED  BY <2>1, <3>2, <4>1, <4>2, <4>3
      <3> QED  BY <1>1, <3>1, <3>2 DEF Pairs
    <2> QED  BY <1>4, <2>2, <2>3
  <1> QED  BY <1>1, <1>3, <1>5 DEF GuardInv, AlteredShows

LEMMA EndKeeps == GuardInv /\ EndCommand => GuardInv'
  <1> SUFFICES ASSUME GuardInv, EndCommand  PROVE GuardInv'
    OBVIOUS
  <1>1. /\ step = "command" /\ step' = "after" /\ task = "none" /\ task' = "verify"
        /\ UNCHANGED <<writes, ctime, stamps, scan, noted, verdicts>>
        /\ tainted' = Append(tainted, Altered)
    BY DEF EndCommand, Begin, Goto, files
  <1>2. StampsBehind'  BY <1>1 DEF GuardInv, StampsBehind, Untouched
  <1>3. /\ Altered \subseteq Files /\ tainted \in Seq(SUBSET Files) /\ verdicts \in Seq(Verdicts)
        /\ Len(tainted) = Len(verdicts)
    BY <1>1 DEF Altered, GuardInv, Pairs
  <1>4. Pairs'  BY <1>1, <1>3 DEF GuardInv, Pairs
  <1>5. tainted'[Len(tainted')] = Altered  BY <1>1, <1>3
  <1>6. \A f \in Altered : ctime[f] > stamps[f] /\ scan[f] = "todo"
    BY <1>1 DEF Altered, GuardInv, StampsBehind, Untouched
  <1>7. AlteredShows'  BY <1>1, <1>5, <1>6 DEF AlteredShows
  <1> QED  BY <1>2, <1>4, <1>7 DEF GuardInv

\* The comparison that accepts a command finds no file ahead of its stamp.
LEMMA AfterKeeps == GuardInv /\ After => GuardInv'
  <1> SUFFICES ASSUME GuardInv, After  PROVE GuardInv'
    OBVIOUS
  <1>1. /\ step = "after" /\ step' = "next" /\ UNCHANGED <<writes, ctime, stamps, tainted>>
        /\ noted' = None /\ scan' = Untouched
    BY DEF After, Verified, Unverified, End, Goto, files
  <1>2. StampsBehind'  BY <1>1 DEF GuardInv, StampsBehind, None, Untouched
  <1>3. /\ verdicts \in Seq(Verdicts) /\ tainted \in Seq(SUBSET Files)
        /\ Len(tainted) = Len(verdicts) + 1
        /\ \A k \in DOMAIN verdicts : verdicts[k] = "accepted" => tainted[k] = {}
    BY <1>1 DEF GuardInv, Pairs
  <1>4. Verified => tainted[Len(tainted)] = {}
    <2> SUFFICES ASSUME Verified, NEW f \in tainted[Len(tainted)]  PROVE FALSE
      OBVIOUS
    <2>1. f \in Files  BY <1>3
    <2>2. noted[f] > stamps[f]
      BY <1>1, <2>1 DEF Verified, Inspected, GuardInv, AlteredShows
    <2> QED  BY <2>1, <2>2 DEF Verified, Same, GuardInv, StampsBehind
  <1>5. PICK v : /\ v \in Verdicts /\ verdicts' = Append(verdicts, v)
                 /\ v = "accepted" => Verified
    <2>1. CASE Verified /\ verdicts' = Append(verdicts, IF succeeded THEN "accepted" ELSE "failed")
      BY <2>1 DEF Verdicts
    <2>2. CASE verdicts' = Append(verdicts, "blocked")
      BY <2>2 DEF Verdicts
    <2> QED  BY <2>1, <2>2 DEF After
  <1>6. Pairs'
    <2>1. /\ verdicts' \in Seq(Verdicts) /\ Len(tainted) = Len(verdicts')
      BY <1>3, <1>5
    <2>2. ASSUME NEW k \in DOMAIN verdicts', verdicts'[k] = "accepted"  PROVE tainted[k] = {}
      <3>1. CASE k \in 1..Len(verdicts)
        BY <1>3, <1>5, <2>2, <3>1
      <3>2. CASE k = Len(verdicts) + 1
        BY <1>3, <1>4, <1>5, <2>2, <3>2
      <3> QED  BY <1>3, <1>5, <3>1, <3>2
    <2> QED  BY <1>1, <1>3, <2>1, <2>2 DEF Pairs
  <1> QED  BY <1>1, <1>2, <1>6 DEF GuardInv, AlteredShows

LEMMA Inductiveness == Inductive /\ [Next]_vars => Inductive'
  <1> SUFFICES ASSUME Inductive, [Next]_vars  PROVE Inductive'
    OBVIOUS
  <1>1. UNCHANGED captureVars => CaptureInv'
    BY DEF Inductive, CaptureInv, BytesAccounted, OkIsWhole, GroupIsGone, captureVars, procs,
           streams, input
  <1>2. UNCHANGED <<guardVars, step, account>> => GuardInv'
    BY DEF Inductive, GuardInv, StampsBehind, Untouched, Pairs, AlteredShows, guardVars, files, account
  <1>3. CASE CreateGuard \/ EndCreate \/ NextCommand \/ Before \/ Finish
    BY <1>1, <1>3, AroundKeeps
       DEF CreateGuard, EndCreate, NextCommand, Before, Finish, Inductive
  <1>4. CASE StartCommand  BY <1>2, <1>4, OthersKeep DEF StartCommand, Inductive
  <1>5. CASE EndCommand  BY <1>1, <1>5, EndKeeps, OthersKeep DEF EndCommand, Inductive
  <1>6. CASE After  BY <1>1, <1>6, AfterKeeps DEF After, Inductive
  <1>7. CASE Runner  BY <1>2, <1>7, CaptureKeeps DEF Runner, Inductive
  <1>8. CASE Guard  BY <1>1, <1>8, InspectKeeps DEF Guard, Inductive
  <1>9. CASE Live  BY <1>2, <1>9, ProcessesKeep DEF Live, Inductive
  <1>10. CASE Meddle  BY <1>1, <1>10, MeddleKeeps DEF Meddle, Inductive
  <1>11. CASE TimeOut  BY <1>2, <1>11, OthersKeep DEF TimeOut, Inductive
  <1>12. CASE Cancel  BY <1>12, AroundKeeps, OthersKeep DEF Cancel, Inductive
  <1>13. CASE UNCHANGED vars  BY <1>1, <1>2, <1>13 DEF vars, Inductive
  <1> QED
    BY <1>3, <1>4, <1>5, <1>6, <1>7, <1>8, <1>9, <1>10, <1>11, <1>12, <1>13
       DEF Next, Program, Ended

THEOREM CommandsInductive == Spec => []Inductive
  BY InitInductive, Inductiveness, PTL DEF Spec

\* However many commands run on the files, whoever writes to them and whenever:
\* an accepted one altered none, and a successful one was captured whole
\* (snapshot/input_guard.rs, runner/mod.rs, application/commands.rs).
THEOREM WholeEvidence == Spec => []EvidenceIsWhole
  <1>1. ASSUME Inductive  PROVE EvidenceIsWhole
    <2>1. \A k \in DOMAIN verdicts : verdicts[k] = "accepted" => tainted[k] = {}
      BY <1>1 DEF Inductive, GuardInv, Pairs
    <2>2. Succeeded => left = 0 /\ \A s \in Streams : out[s] = wrote[s] /\ out[s] <= Limit
      BY <1>1 DEF Succeeded, Inductive, CaptureInv, BytesAccounted, OkIsWhole
    <2> QED  BY <2>1, <2>2 DEF EvidenceIsWhole
  <1> QED  BY <1>1, CommandsInductive, PTL

\* No process of a command's group outlives its capture, whether the command
\* succeeded, failed, ran out of time or was cancelled (runner/mod.rs).
THEOREM NobodyLeft == Spec => []NoStragglers
  <1>1. Inductive => NoStragglers  BY DEF Inductive, CaptureInv, GroupIsGone, NoStragglers
  <1> QED  BY <1>1, CommandsInductive, PTL
=============================================================================

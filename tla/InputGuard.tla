----------------------------- MODULE InputGuard -----------------------------
(***************************************************************************)
(* The guard over the files a check was given (snapshot/input_guard.rs):   *)
(* it stamps them when it is created and compares them again around every  *)
(* command.  A file is inspected in three steps (its metadata, its bytes,  *)
(* its metadata again), several files at a time, while whoever is alive    *)
(* may write to them.  A stamp is the file's change time, which every      *)
(* write moves forward and nothing sets back, also when the bytes are      *)
(* restored; a deleted or replaced file is a write here.                   *)
(***************************************************************************)
EXTENDS Naturals

CONSTANTS Files,      \* the materialised files
          MaxWrites   \* bound: writes to them

ASSUME GuardAssumption == MaxWrites \in Nat

VARIABLES intact,     \* files whose bytes are the expected ones
          ctime,      \* the change time of each file
          writes,     \* the clock of changes
          stamps,     \* the stamps taken at creation
          task,       \* the inspection that runs: "none", "create" or "verify"
          scan,       \* how far it is with each file
          noted,      \* the stamp it noted of each file
          latched     \* the first failure is permanent

files     == <<intact, ctime, writes>>
guardVars == <<files, stamps, task, scan, noted, latched>>

None      == [f \in Files |-> 0]
Untouched == [f \in Files |-> "todo"]

GuardInit ==
  /\ intact = Files /\ ctime = None /\ writes = 0 /\ stamps = None
  /\ task = "none" /\ scan = Untouched /\ noted = None /\ latched = FALSE

\* A process changes a file, or writes the expected bytes back.
WriteFile(f) ==
  /\ writes < MaxWrites /\ writes' = writes + 1
  /\ ctime' = [ctime EXCEPT ![f] = writes']
  /\ intact' = IF f \in intact THEN intact \ {f} ELSE intact \cup {f}
  /\ UNCHANGED <<stamps, task, scan, noted, latched>>

Begin(kind) ==
  /\ task = "none" /\ task' = kind
  /\ UNCHANGED <<files, stamps, scan, noted, latched>>

\* The inspection is over and forgets what it noted.
End == task' = "none" /\ scan' = Untouched /\ noted' = None

\* The metadata before the bytes are read; after a failure nothing is.
Look(f) ==
  /\ task # "none" /\ ~latched /\ scan[f] = "todo"
  /\ scan' = [scan EXCEPT ![f] = "looked"] /\ noted' = [noted EXCEPT ![f] = ctime[f]]
  /\ UNCHANGED <<files, stamps, task, latched>>

ReadBytes(f) ==
  /\ task # "none" /\ scan[f] = "looked" /\ f \in intact
  /\ scan' = [scan EXCEPT ![f] = "read"]
  /\ UNCHANGED <<files, stamps, task, noted, latched>>

\* The metadata once more.
LookAgain(f) ==
  /\ task # "none" /\ scan[f] = "read" /\ ctime[f] = noted[f]
  /\ scan' = [scan EXCEPT ![f] = "done"]
  /\ UNCHANGED <<files, stamps, task, noted, latched>>

Inspected == \A f \in Files : scan[f] = "done"

\* Plausible bug: equal bytes are taken for unchanged files.
Same_Bytes == TRUE

Same == noted = stamps

Created ==
  /\ task = "create" /\ Inspected
  /\ stamps' = noted /\ End
  /\ UNCHANGED <<files, latched>>

Verified ==
  /\ task = "verify" /\ ~latched /\ Inspected /\ Same
  /\ End
  /\ UNCHANGED <<files, stamps, latched>>

\* A file differs, changes while it is inspected or cannot be read in 30
\* seconds, or the stamps are not those of creation.
Unverified ==
  /\ task # "none"
  /\ End /\ latched' = TRUE
  /\ UNCHANGED <<files, stamps>>

Inspect == \E f \in Files : Look(f) \/ ReadBytes(f) \/ LookAgain(f)

\* Files that were written since the guard was created.
Altered == {f \in Files : ctime[f] # stamps[f]}
=============================================================================

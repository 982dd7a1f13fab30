---------------------------- MODULE ActivePolicy ----------------------------
(***************************************************************************)
(* What the policy lifecycle promises whoever runs a check: the active     *)
(* policy changes only by an authorization somebody signed, each           *)
(* authorization works once and only from the policy it was signed         *)
(* against, a rollback returns to a policy selected before, and the log of *)
(* changes is append-only and accounts for every one of them.              *)
(***************************************************************************)
EXTENDS Naturals

CONSTANT None

VARIABLES signed,  \* the authorizations signed so far
          active,  \* the active policy
          log      \* the changes of the active policy, by their numbers in the history

\* The change an authorization allows.
Source(a) == IF a.kind = "promotion" THEN a.subject.parent ELSE a.subject.from
Target(a) == IF a.kind = "promotion" THEN a.subject.policy ELSE a.subject.to

SelectedBefore(p) == \E k \in DOMAIN log : p \in {log[k].from, log[k].to}

\* An entry with a number above every number so far.
Log(entry) ==
  \E n \in DOMAIN log' :
    /\ \A k \in DOMAIN log : k < n
    /\ log' = [k \in DOMAIN log \cup {n} |-> IF k = n THEN entry ELSE log[k]]

Init == signed = {} /\ active = None /\ DOMAIN log = {}

Sign == signed \subseteq signed' /\ UNCHANGED <<active, log>>

Change ==
  \E a \in signed :
    /\ a.decision = "approved"
    /\ \A k \in DOMAIN log : log[k].by # a
    /\ active = Source(a) \/ (active = None /\ a.kind = "promotion")
    /\ a.kind = "rollback" => Target(a) # active /\ SelectedBefore(Target(a))
    /\ active' = Target(a)
    /\ Log([from |-> Source(a), to |-> Target(a), by |-> a])
    /\ UNCHANGED signed

Next == Sign \/ Change

Spec == Init /\ [][Next]_<<signed, active, log>>
=============================================================================

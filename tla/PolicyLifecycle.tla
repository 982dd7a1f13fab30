-------------------------- MODULE PolicyLifecycle --------------------------
(***************************************************************************)
(* The lifecycle of policies: candidates are created, edited, frozen for   *)
(* validation, approved and promoted; the active policy is rolled back.    *)
(*                                                                         *)
(* Every command that publishes is one transaction of the policy archive,  *)
(* which commits atomically or not at all (PolicyStore implements          *)
(* PolicyArchive), so here it is one action.  Validation, approval,        *)
(* promotion and rollback first read the archive and the external trust,   *)
(* verify signatures or run cases, and only then open their transaction;   *)
(* other sessions run in between, and a session may die at any point.      *)
(*                                                                         *)
(* A revision's reference is its position among the archived revisions,    *)
(* equal revisions sharing one as they share a content address.  Other     *)
(* records are their own references.  Timestamps, reasons and evidence are *)
(* left out, so two candidates one author makes of one parent share their  *)
(* first revision, as they do within one second.                           *)
(***************************************************************************)
EXTENDS Naturals, Sequences, FiniteSets, Functions

CONSTANTS
  Policies,       \* policy digests
  Snapshots,      \* the policies found in Git snapshots
  People,         \* who may sign approvals
  Authors,        \* bound: the people who create, validate and propose
  Trusts,         \* digests of versions of the external trust file
  Baselines,      \* the parents each trust version authorises
  Approvers,      \* the people whose keys each trust version holds
  Sessions,       \* running commands
  None,
  MaxEvents,      \* bound: published transitions
  MaxCandidates,  \* bound: candidates
  MaxEdits,       \* bound: edits of a candidate (256 in the code)
  MaxSigned       \* bound: signatures given

ASSUME LifecycleAssumption ==
  /\ Snapshots \subseteq Policies /\ Authors \subseteq People
  /\ \A t \in Trusts : Baselines[t] \subseteq Policies /\ Approvers[t] \subseteq People
  /\ None \notin Policies \cup People \cup Trusts \cup Nat
  /\ {MaxEvents, MaxCandidates, MaxEdits, MaxSigned} \subseteq Nat

VARIABLES
  revisions,    \* the archived revisions; a reference is a position
  policies,     \* index: the published policy versions
  candidates,   \* index: the current revision of each candidate
  evaluations,  \* index: the published evaluations
  active,       \* index: the active policy and what authorised it
  events,       \* the published transitions, oldest first
  trust,        \* the digest of the external trust file as it is now
  signed,       \* the approvals people have signed
  job           \* what each session is doing

index == <<policies, candidates, evaluations, active, events>>
vars  == <<revisions, index, trust, signed, job>>

Conclusions == {"pass", "block", "incomplete"}

Decisions == {"approved", "rejected"}

\* References to revisions, and to candidates by number.
Reference == 1..Len(revisions)
Ids == DOMAIN candidates

Idle == [at |-> "idle"]

Init ==
  /\ revisions = <<>> /\ policies = {} /\ candidates = [i \in {} |-> 0]
  /\ evaluations = {} /\ events = <<>>
  /\ active = [policy |-> None, approval |-> None, kind |-> None, holder |-> None]
  /\ trust \in Trusts /\ signed = {} /\ job = [s \in Sessions |-> Idle]

-----------------------------------------------------------------------------
(* The archive.                                                             *)

Candidate(i) == revisions[candidates[i]]

\* Plausible bug: a candidate can be edited while it is validated.
Editable_Validating(r) == r.status \in {"candidate", "validating"}

Editable(r) == r.status = "candidate"

\* Content addressing: a revision archived before keeps its reference.
Keep(archive, r) == IF r \in Range(archive) THEN archive ELSE Append(archive, r)

Position(archive, r) == CHOOSE k \in DOMAIN archive : archive[k] = r

Event(action, subject, from, to) ==
  [action |-> action, subject |-> subject, from |-> from, to |-> to]

\* A committed transaction publishes one event.
Publish(event) == Len(events) < MaxEvents /\ events' = Append(events, event)

\* A transition that leaves the active policy alone.
Record(action, subject) == Publish(Event(action, subject, active.policy, active.policy))

\* Revision r becomes the current one of candidate i.
Revise(i, r) ==
  /\ revisions' = Keep(revisions, r)
  /\ candidates' = [k \in Ids \cup {i} |->
                      IF k = i THEN Position(Keep(revisions, r), r) ELSE candidates[k]]

\* The next revision of candidate i names the one before it.
Successor(i) == [Candidate(i) EXCEPT !.previous = candidates[i]]

-----------------------------------------------------------------------------
(* Candidates.                                                              *)

\* A candidate is named after the transition that creates it.  In the code the
\* number is the archive's sequence, which commits without an event advance too.
NextId == Len(events) + 1

\* From a Git snapshot, whose policy is published with it, or from a version
\* already published.
Create(author, parent) ==
  /\ parent \in policies \cup Snapshots
  /\ Cardinality(Ids) < MaxCandidates
  /\ LET r == [parent |-> parent, policy |-> parent, patch |-> <<>>, status |-> "candidate",
               author |-> author, previous |-> 0, evaluation |-> None, approval |-> None]
     IN /\ Revise(NextId, r)
        /\ Record("candidate_created", r)
  /\ policies' = policies \cup {parent}
  /\ UNCHANGED <<evaluations, active, trust, signed, job>>

\* Plausible bug: the edited revision keeps what was found of its predecessor.
Edit_Keeping(i, policy) ==
  /\ Editable(Candidate(i)) /\ policy # Candidate(i).policy
  /\ Len(Candidate(i).patch) < MaxEdits
  /\ LET r == [Successor(i) EXCEPT !.policy = policy, !.patch = Append(@, policy)]
     IN Revise(i, r) /\ Record("candidate_edited", r)
  /\ policies' = policies \cup {policy}
  /\ UNCHANGED <<evaluations, active, trust, signed, job>>

\* An edit that changes nothing publishes nothing.
Edit(i, policy) ==
  /\ Editable(Candidate(i)) /\ policy # Candidate(i).policy
  /\ Len(Candidate(i).patch) < MaxEdits
  /\ LET r == [Successor(i) EXCEPT !.policy = policy, !.patch = Append(@, policy),
                                   !.evaluation = None, !.approval = None]
     IN Revise(i, r) /\ Record("candidate_edited", r)
  /\ policies' = policies \cup {policy}
  /\ UNCHANGED <<evaluations, active, trust, signed, job>>

Retire(i, status, action) ==
  /\ LET r == [Successor(i) EXCEPT !.status = status] IN Revise(i, r) /\ Record(action, r)
  /\ UNCHANGED <<policies, evaluations, active, trust, signed, job>>

Reject(i) == Editable(Candidate(i)) /\ Retire(i, "rejected", "candidate_rejected")

Abandon(i) ==
  /\ Editable(Candidate(i)) \/ Candidate(i).status = "validating"
  /\ Retire(i, "abandoned", "candidate_abandoned")

-----------------------------------------------------------------------------
(* Validation.                                                              *)

\* The session loads the protected inputs and the candidate; the evaluator is
\* authorised, and so are the suite and its baseline, the candidate's parent.
Prepare(s, i, actor) ==
  /\ job[s] = Idle /\ Editable(Candidate(i))
  /\ Candidate(i).parent \in Baselines[trust]
  /\ job' = [job EXCEPT ![s] =
       [at |-> "prepared", author |-> Candidate(i).author,
        attempt |-> [kind |-> "attempt", id |-> i, input |-> candidates[i],
                     policy |-> Candidate(i).policy, parent |-> Candidate(i).parent,
                     trust |-> trust, actor |-> actor]]]
  /\ UNCHANGED <<revisions, index, trust, signed>>

\* The attempt is persisted and the revision frozen before anything runs, if
\* the candidate is still the one that was loaded.
Begin(s) ==
  /\ job[s].at = "prepared"
  /\ LET a == job[s].attempt
         r == [Successor(a.id) EXCEPT !.status = "validating", !.evaluation = a, !.approval = None]
     IN /\ candidates[a.id] = a.input /\ Editable(Candidate(a.id))
        /\ Revise(a.id, r) /\ Record("validation_started", a)
        /\ job' = [job EXCEPT ![s] = [at |-> "running", author |-> @.author, attempt |-> a,
                                      frozen |-> candidates'[a.id]]]
  /\ UNCHANGED <<policies, evaluations, active, trust, signed>>

\* The paired cases ran.  Whatever they say is void once the protected inputs
\* are not what was loaded.
Conclude(s, conclusion) ==
  /\ job[s].at = "running"
  /\ conclusion # "incomplete" => trust = job[s].attempt.trust
  /\ job' = [job EXCEPT ![s] =
       [at |-> "concluded", frozen |-> @.frozen,
        run |-> [kind |-> "evaluation", id |-> @.attempt.id, input |-> @.attempt.input,
                 policy |-> @.attempt.policy, parent |-> @.attempt.parent,
                 trust |-> @.attempt.trust, actor |-> @.attempt.actor,
                 author |-> @.author, conclusion |-> conclusion]]]
  /\ UNCHANGED <<revisions, index, trust, signed>>

\* The run repeats its attempt.
Binds(attempt, run) ==
  \A f \in {"id", "input", "policy", "parent", "trust", "actor"} : attempt[f] = run[f]

\* The conclusion is published only for the revision that was frozen.
Finish(s) ==
  /\ job[s].at = "concluded"
  /\ LET run == job[s].run
         c   == Candidate(run.id)
         r   == [Successor(run.id) EXCEPT
                   !.status = IF run.conclusion = "block" THEN "rejected" ELSE "candidate",
                   !.evaluation = run, !.approval = None]
     IN /\ candidates[run.id] = job[s].frozen /\ c.status = "validating"
        /\ Binds(c.evaluation, run) /\ c.policy = run.policy /\ c.parent = run.parent
        /\ evaluations' = evaluations \cup {run}
        /\ Revise(run.id, r) /\ Record("validation_completed", run)
  /\ job' = [job EXCEPT ![s] = Idle]
  /\ UNCHANGED <<policies, active, trust, signed>>

-----------------------------------------------------------------------------
(* Approval and promotion.                                                  *)

\* The passing evaluation of candidate i, and the chain of revisions that ties
\* it to what was frozen.
Complete(i) ==
  LET c         == Candidate(i)
      run       == c.evaluation
      validated == IF c.status = "approved" THEN revisions[c.previous] ELSE c
      frozen    == revisions[validated.previous]
  IN /\ run \in evaluations
     /\ run.id = i /\ run.conclusion = "pass" /\ run.policy = c.policy
     /\ run.parent = c.parent /\ run.author = c.author
     /\ validated.previous # 0
     /\ frozen.status = "validating" /\ frozen.policy = c.policy /\ frozen.patch = c.patch
     /\ Binds(frozen.evaluation, run)

\* What an approval of candidate i has to name: the revision before approval.
Subject(i, promoting) ==
  LET c == Candidate(i) IN
    [id |-> i, revision |-> IF promoting THEN c.previous ELSE candidates[i],
     policy |-> c.policy, parent |-> c.parent, evaluation |-> c.evaluation,
     trust |-> c.evaluation.trust, author |-> c.author]

Approvable(i) == Editable(Candidate(i)) /\ Complete(i)

Promotable(i) == Candidate(i).status = "approved" /\ Complete(i)

\* The trust is the one validation ran under, and still authorises the parent.
Authorizes(t, subject) == t = subject.trust /\ subject.parent \in Baselines[t]

\* Plausible bug: authors approve their own candidates.
Independent_Self(t, approver, author) == approver \in Approvers[t]

\* An approver's key is trusted and the approver is not the author.
Independent(t, approver, author) == approver \in Approvers[t] /\ approver # author

VerifyApproval(s, a) ==
  /\ job[s] = Idle /\ a \in signed /\ a.kind = "promotion"
  /\ a.subject.id \in Ids /\ Approvable(a.subject.id)
  /\ a.subject = Subject(a.subject.id, FALSE)
  /\ Authorizes(trust, a.subject) /\ Independent(trust, a.approver, a.subject.author)
  /\ job' = [job EXCEPT ![s] = [at |-> "approving", approval |-> a]]
  /\ UNCHANGED <<revisions, index, trust, signed>>

Approve(s) ==
  /\ job[s].at = "approving"
  /\ LET a == job[s].approval
         i == a.subject.id
         r == [Successor(i) EXCEPT !.approval = a,
                 !.status = IF a.decision = "approved" THEN "approved" ELSE "rejected"]
     IN /\ Approvable(i) /\ Subject(i, FALSE) = a.subject
        /\ Revise(i, r) /\ Record("trusted_policy_review", a)
  /\ job' = [job EXCEPT ![s] = Idle]
  /\ UNCHANGED <<policies, evaluations, active, trust, signed>>

VerifyPromotion(s, i) ==
  /\ job[s] = Idle /\ Promotable(i)
  /\ LET a == Candidate(i).approval IN
       /\ Authorizes(trust, Subject(i, TRUE))
       /\ a.subject = Subject(i, TRUE) /\ Independent(trust, a.approver, a.subject.author)
       /\ job' = [job EXCEPT ![s] = [at |-> "promoting", approval |-> a]]
  /\ UNCHANGED <<revisions, index, trust, signed>>

\* Plausible bug: the previous holder keeps its status.
StepDown_Keeps(status) == [revisions |-> revisions, candidates |-> candidates]

\* The revisions and candidates once the active candidate, if any, steps down.
StepDown(status) ==
  IF active.holder = None THEN [revisions |-> revisions, candidates |-> candidates]
  ELSE LET r == [Successor(active.holder) EXCEPT !.status = status] IN
    [revisions  |-> Keep(revisions, r),
     candidates |-> [candidates EXCEPT ![active.holder] = Position(Keep(revisions, r), r)]]

\* Plausible bug: the kind of authorization is not updated.
Activate_SameKind(policy, approval, kind, holder) ==
  active' = [active EXCEPT !.policy = policy, !.approval = approval, !.holder = holder]

Activate(policy, approval, kind, holder) ==
  active' = [policy |-> policy, approval |-> approval, kind |-> kind, holder |-> holder]

\* The active policy must still be the parent the approval was given against.
Promote(s) ==
  /\ job[s].at = "promoting"
  /\ LET a    == job[s].approval
         i    == a.subject.id
         down == StepDown("superseded")
         r    == [Successor(i) EXCEPT !.status = "active"]
     IN /\ Promotable(i) /\ Subject(i, TRUE) = a.subject /\ a.decision = "approved"
        /\ active.policy \in {None, a.subject.parent}
        /\ revisions' = Keep(down.revisions, r)
        /\ candidates' = [down.candidates EXCEPT ![i] = Position(Keep(down.revisions, r), r)]
        /\ Activate(a.subject.policy, r.approval, "policy_approval", i)
        /\ Publish(Event("policy_promoted", r, a.subject.parent, a.subject.policy))
  /\ job' = [job EXCEPT ![s] = Idle]
  /\ UNCHANGED <<policies, evaluations, trust, signed>>

-----------------------------------------------------------------------------
(* Rollback.                                                                *)

Changes == {k \in DOMAIN events : events[k].action \in {"policy_promoted", "policy_rolled_back"}}

\* The policy was in force, or was what the first promotion replaced.
SelectedBefore(p) == \E k \in Changes : p \in {events[k].from, events[k].to}

\* Plausible bug: the active policy is returned to.
Returnable_Active(p) == p \in policies /\ active.policy # None /\ SelectedBefore(p)

Returnable(p) ==
  /\ p \in policies /\ active.policy \notin {None, p}
  /\ SelectedBefore(p)

\* Plausible bug: only the two policies are named.
Return_Loose(p, proposer, t) ==
  [from |-> active.policy, authorization |-> None, to |-> p,
   cursor |-> 0, trust |-> t, proposer |-> proposer]

\* The last event pins the whole history the approval was given on.
Return(p, proposer, t) ==
  [from |-> active.policy, authorization |-> active.approval, to |-> p,
   cursor |-> Len(events), trust |-> t, proposer |-> proposer]

VerifyRollback(s, a) ==
  /\ job[s] = Idle /\ a \in signed /\ a.kind = "rollback"
  /\ Returnable(a.subject.to)
  /\ a.subject = Return(a.subject.to, a.subject.proposer, trust)
  /\ Independent(trust, a.approver, a.subject.proposer) /\ a.decision = "approved"
  /\ job' = [job EXCEPT ![s] = [at |-> "returning", approval |-> a]]
  /\ UNCHANGED <<revisions, index, trust, signed>>

Rollback(s) ==
  /\ job[s].at = "returning"
  /\ LET a    == job[s].approval
         to   == a.subject.to
         down == StepDown("rolled_back")
     IN /\ Returnable(to) /\ Return(to, a.subject.proposer, a.subject.trust) = a.subject
        /\ revisions' = down.revisions /\ candidates' = down.candidates
        /\ Activate(to, a, "policy_rollback", None)
        /\ Publish(Event("policy_rolled_back", a, a.subject.from, to))
  /\ job' = [job EXCEPT ![s] = Idle]
  /\ UNCHANGED <<policies, evaluations, trust, signed>>

-----------------------------------------------------------------------------
(* People and the world.                                                    *)

Sign(approval) ==
  /\ Cardinality(signed) < MaxSigned
  /\ signed' = signed \cup {approval}
  /\ UNCHANGED <<revisions, index, trust, job>>

\* A signature is given on a subject the program prints.
SignPromotion(i, approver, decision) ==
  /\ Approvable(i) /\ Authorizes(trust, Subject(i, FALSE))
  /\ Sign([kind |-> "promotion", subject |-> Subject(i, FALSE), approver |-> approver,
           decision |-> decision])

SignRollback(p, proposer, approver) ==
  /\ Returnable(p)
  /\ Sign([kind |-> "rollback", subject |-> Return(p, proposer, trust), approver |-> approver,
           decision |-> "approved"])

ChangeTrust(t) ==
  /\ trust' = t /\ t # trust
  /\ UNCHANGED <<revisions, index, signed, job>>

\* A command fails, is refused, or dies; what it published stays.
Fail(s) ==
  /\ job[s] # Idle /\ job' = [job EXCEPT ![s] = Idle]
  /\ UNCHANGED <<revisions, index, trust, signed>>

Edits ==
  \/ \E author \in Authors, parent \in Policies : Create(author, parent)
  \/ \E i \in Ids : (\E p \in Policies : Edit(i, p)) \/ Reject(i) \/ Abandon(i)

Validation(s) ==
  \/ \E i \in Ids, actor \in Authors : Prepare(s, i, actor)
  \/ Begin(s) \/ (\E c \in Conclusions : Conclude(s, c)) \/ Finish(s)

Authorization(s) ==
  \/ (\E a \in signed : VerifyApproval(s, a)) \/ Approve(s)
  \/ (\E i \in Ids : VerifyPromotion(s, i)) \/ Promote(s)
  \/ (\E a \in signed : VerifyRollback(s, a)) \/ Rollback(s)

Signatures ==
  \/ \E i \in Ids, p \in People, d \in Decisions : SignPromotion(i, p, d)
  \/ \E q \in Policies, proposer \in Authors, p \in People : SignRollback(q, proposer, p)

Next ==
  \/ Edits \/ Signatures \/ \E t \in Trusts : ChangeTrust(t)
  \/ \E s \in Sessions : Validation(s) \/ Authorization(s) \/ Fail(s)

Spec == Init /\ [][Next]_vars

-----------------------------------------------------------------------------
\* At most one candidate is active: the holder the index names, and it is the
\* candidate whose policy and approval are in force.  Loading the active policy
\* re-derives it from its authorization, the revision that was approved and its
\* evaluation, and refuses to run any check when they do not agree
\* (policy_active::load): no sequence of commands gets there.
ActiveIsOfRecord ==
  /\ {i \in Ids : Candidate(i).status = "active"} = {active.holder} \ {None}
  /\ active.holder # None =>
       /\ Candidate(active.holder).policy = active.policy
       /\ Candidate(active.holder).approval = active.approval
  /\ active.policy # None =>
       /\ active.policy \in policies /\ active.approval \in signed
       /\ LET s == active.approval.subject IN
            IF active.kind = "policy_rollback"
              THEN active.approval.kind = "rollback" /\ s.to = active.policy
              ELSE /\ active.approval.kind = "promotion" /\ s.policy = active.policy
                   /\ s.revision \in Reference
                   /\ LET r == revisions[s.revision] IN
                        /\ r.policy = active.policy /\ r.parent = s.parent
                        /\ r.evaluation = s.evaluation /\ r.author = s.author
                   /\ LET run == s.evaluation IN
                        /\ run.conclusion = "pass" /\ run.id = s.id /\ run.trust = s.trust
                        /\ run.policy = active.policy /\ run.parent = s.parent

\* Evidence is about what it is attached to.  A revision never carries evidence
\* about another policy: whatever was edited, validated or approved meanwhile, its
\* evaluation is of its own policy pair and its approval is of that evaluation.
\* And each promotion in the history was earned: the promoted policy passed a
\* published evaluation against the policy it replaced, and somebody other than
\* its author approved it whose key, like the baseline, was in the trust that
\* evaluation ran under.
EvidenceFits ==
  /\ \A k \in Reference :
       LET r == revisions[k] IN
         /\ r.evaluation # None => r.evaluation.policy = r.policy /\ r.evaluation.parent = r.parent
         /\ r.approval # None =>
              /\ r.approval.subject.policy = r.policy /\ r.approval.subject.parent = r.parent
              /\ r.approval.subject.evaluation = r.evaluation
  /\ \A k \in Changes : events[k].action = "policy_promoted" =>
       LET a == events[k].subject.approval
           run == a.subject.evaluation
       IN /\ a \in signed /\ a.decision = "approved" /\ a.approver # events[k].subject.author
          /\ run \in evaluations /\ run.conclusion = "pass"
          /\ run.policy = events[k].to /\ run.parent = events[k].from
          /\ a.approver \in Approvers[run.trust] /\ events[k].from \in Baselines[run.trust]

\* A revision frozen for validation leaves that state only by being abandoned or
\* by the result of its own attempt, and then with the policy that was frozen.
FrozenIsKept ==
  [][\A i \in Ids : LET old == Candidate(i)
                        new == Candidate(i)'
                    IN old.status = "validating" /\ new # old =>
       \/ new.status = "abandoned"
       \/ /\ new.evaluation \in evaluations' /\ Binds(old.evaluation, new.evaluation)
          /\ new.policy = old.policy /\ new.patch = old.patch]_vars

\* What a reader of the history sees of the changes of the active policy.
Log == [k \in Changes |->
          [from |-> events[k].from, to |-> events[k].to,
           by |-> IF events[k].action = "policy_promoted" THEN events[k].subject.approval
                  ELSE events[k].subject]]

\* The lifecycle implements the abstract one: an authorization works once and
\* only from the policy it was signed against, and the history tells all.
Authority == INSTANCE ActivePolicy WITH active <- active.policy, log <- Log

Authorized == Authority!Spec

\* The same of every step, from whatever archive a command finds.
ChangesAuthorized == [][Authority!Next]_<<signed, active.policy, Log>>
=============================================================================

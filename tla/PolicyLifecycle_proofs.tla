------------------------ MODULE PolicyLifecycle_proofs ------------------------
(***************************************************************************)
(* Theorems about PolicyLifecycle: any policies, people, trusted keys and  *)
(* baselines, any number of sessions, candidates, edits and signatures.    *)
(***************************************************************************)
EXTENDS PolicyLifecycle, TLAPS

IsSeq(s) == s \in Seq(Range(s))

RevisionFields ==
    {"parent", "policy", "patch", "status", "author", "previous", "evaluation", "approval"}

\* The states a candidate never returns to review from.
Past == {"approved", "active", "superseded", "rolled_back"}

\* A revision's evidence is about the revision, and an approval was signed.
Fits(r) ==
    /\ DOMAIN r = RevisionFields
    /\ r.evaluation # None => r.evaluation.policy = r.policy /\ r.evaluation.parent = r.parent
    /\ r.approval # None =>
         /\ r.approval.subject.policy = r.policy /\ r.approval.subject.parent = r.parent
         /\ r.approval.subject.evaluation = r.evaluation
    /\ r.status = "approved" => r.approval \in signed

\* An approved revision is the one under review, approved.
Reviewed(r) ==
    /\ r.approval.kind = "promotion" /\ r.previous \in Reference
    /\ \A f \in {"policy", "parent", "evaluation", "author"} : revisions[r.previous][f] = r[f]

Recorded(r) == r.policy \in policies /\ (r.status = "approved" => Reviewed(r))

Archive ==
    /\ IsSeq(revisions)
    /\ \A k \in Reference : Fits(revisions[k]) /\ Recorded(revisions[k])
    /\ \A i \in Ids : candidates[i] \in Reference
    /\ Ids \subseteq 1..Len(events)
    /\ active.holder # None => active.holder \in Ids

\* A promotion in the history, and what it rested on.
EarnedBy(e) ==
    LET a == e.subject.approval
        run == a.subject.evaluation
    IN /\ a \in signed /\ a.decision = "approved" /\ a.approver # e.subject.author
       /\ run \in evaluations /\ run.conclusion = "pass"
       /\ run.policy = e.to /\ run.parent = e.from
       /\ a.approver \in Approvers[run.trust] /\ e.from \in Baselines[run.trust]

History ==
    /\ IsSeq(events)
    /\ \A k \in 1..Len(events) : events[k].action = "policy_promoted" => EarnedBy(events[k])

\* What a session holds between its checks and its transaction.  The candidate
\* an approval is about to promote is still approved by it, or never again.
Held(a) ==
    /\ a \in signed /\ a.subject.id \in Ids
    /\ a.approver \in Approvers[a.subject.trust] /\ a.approver # a.subject.author
    /\ a.subject.parent \in Baselines[a.subject.trust]
    /\ Candidate(a.subject.id).status \in Past
    /\ Candidate(a.subject.id).status = "approved" => Candidate(a.subject.id).approval = a

JobRight(j) ==
    /\ j.at \in {"prepared", "running"} => j.attempt.id \in Ids
    /\ j.at = "prepared" =>
         /\ j.attempt.input \in Reference
         /\ revisions[j.attempt.input].policy = j.attempt.policy
         /\ revisions[j.attempt.input].parent = j.attempt.parent
    /\ j.at = "concluded" => j.run.id \in Ids
    /\ j.at = "approving" =>
         /\ j.approval \in signed /\ j.approval.subject.id \in Ids
         /\ j.approval.kind = "promotion"
    /\ j.at = "returning" =>
         /\ j.approval \in signed /\ j.approval.kind = "rollback"
         /\ j.approval.decision = "approved"
    /\ j.at = "promoting" => Held(j.approval)

Jobs == DOMAIN job = Sessions /\ \A s \in Sessions : JobRight(job[s])

Inductive == Archive /\ History /\ Jobs

-----------------------------------------------------------------------------
(* The archive of revisions *)

LEMMA AppendIsSeq ==
    ASSUME NEW s, IsSeq(s), NEW x
    PROVE  /\ IsSeq(Append(s, x)) /\ Len(Append(s, x)) = Len(s) + 1 /\ Len(s) \in Nat
           /\ \A k \in 1..Len(s) : Append(s, x)[k] = s[k]
           /\ Append(s, x)[Len(s) + 1] = x
  <1> DEFINE S == Range(s) \cup {x}
             t == Append(s, x)
  <1>1. s \in Seq(S) /\ x \in S  BY DEF IsSeq
  <1>2. /\ t \in Seq(S) /\ Len(t) = Len(s) + 1 /\ Len(s) \in Nat
        /\ \A k \in 1..Len(s) : t[k] = s[k]
        /\ t[Len(s) + 1] = x
    BY <1>1
  <1>3. \A k \in 1..Len(t) : t[k] \in Range(t)  BY <1>2 DEF Range
  <1>4. t \in Seq(Range(t))  BY <1>2, <1>3
  <1> QED  BY <1>2, <1>4 DEF IsSeq

\* Keeping a revision moves no other, and the revision has a position.
LEMMA KeepFacts ==
    ASSUME NEW s, IsSeq(s), NEW r
    PROVE  /\ IsSeq(Keep(s, r)) /\ Len(s) \in Nat /\ Len(Keep(s, r)) \in Nat
           /\ Len(s) <= Len(Keep(s, r))
           /\ \A k \in 1..Len(s) : Keep(s, r)[k] = s[k]
           /\ \A k \in 1..Len(Keep(s, r)) : k \in 1..Len(s) \/ Keep(s, r)[k] = r
           /\ Position(Keep(s, r), r) \in 1..Len(Keep(s, r))
           /\ Keep(s, r)[Position(Keep(s, r), r)] = r
  <1> DEFINE t == Keep(s, r)
  <1>1. /\ IsSeq(t) /\ Len(s) \in Nat /\ Len(s) <= Len(t) /\ Len(t) \in Nat
        /\ \A k \in 1..Len(s) : t[k] = s[k]
        /\ \A k \in 1..Len(t) : k \in 1..Len(s) \/ t[k] = r
        /\ \E k \in 1..Len(t) : t[k] = r
    <2>1. CASE r \in Range(s)
      BY <2>1 DEF Keep, Range, IsSeq
    <2>2. CASE r \notin Range(s)
      BY <2>2, AppendIsSeq DEF Keep
    <2> QED  BY <2>1, <2>2
  <1>2. DOMAIN t = 1..Len(t)  BY <1>1 DEF IsSeq
  <1> HIDE DEF t
  <1>3. Position(t, r) \in DOMAIN t /\ t[Position(t, r)] = r  BY <1>1, <1>2 DEF Position
  <1> QED  BY <1>1, <1>2, <1>3 DEF t

-----------------------------------------------------------------------------
(* What every transaction leaves to the other sessions *)

Grows ==
    /\ Len(revisions) <= Len(revisions') /\ Len(revisions) \in Nat /\ Len(revisions') \in Nat
    /\ \A k \in 1..Len(revisions) : revisions'[k] = revisions[k]
    /\ Ids \subseteq Ids' /\ signed \subseteq signed'
    /\ \A i \in Ids : Candidate(i).status \in Past =>
         /\ Candidate(i)'.status \in Past
         /\ Candidate(i)'.status = "approved" => Candidate(i)' = Candidate(i)

\* A session that waited holds what it held.
LEMMA JobKeeps ==
    ASSUME NEW s \in Sessions, JobRight(job[s]), Grows, job'[s] = job[s]
    PROVE  JobRight(job[s])'
  <1>1. \A i \in Ids : i \in Ids' /\ (Candidate(i).status \in Past =>
                                      /\ Candidate(i)'.status \in Past
                                      /\ Candidate(i)'.status = "approved" => Candidate(i)' = Candidate(i))
    BY DEF Grows
  <1>2. \A k \in Reference : k \in Reference' /\ revisions'[k] = revisions[k]
    BY DEF Grows, Reference
  <1>3. job[s].at = "promoting" => Held(job[s].approval)'
    <2> DEFINE a == job[s].approval
               i == a.subject.id
    <2> SUFFICES ASSUME job[s].at = "promoting"  PROVE Held(a)'
      OBVIOUS
    <2>1. /\ a \in signed /\ i \in Ids
          /\ a.approver \in Approvers[a.subject.trust] /\ a.approver # a.subject.author
          /\ a.subject.parent \in Baselines[a.subject.trust]
          /\ Candidate(i).status \in Past
          /\ Candidate(i).status = "approved" => Candidate(i).approval = a
      BY DEF JobRight, Held
    <2> QED  BY <1>1, <2>1 DEF Held, Grows, Candidate
  <1>4. JobRight(job[s])' <=>
          /\ job[s].at \in {"prepared", "running"} => job[s].attempt.id \in Ids'
          /\ job[s].at = "prepared" =>
               /\ job[s].attempt.input \in Reference'
               /\ revisions'[job[s].attempt.input].policy = job[s].attempt.policy
               /\ revisions'[job[s].attempt.input].parent = job[s].attempt.parent
          /\ job[s].at = "concluded" => job[s].run.id \in Ids'
          /\ job[s].at = "approving" =>
               /\ job[s].approval \in signed' /\ job[s].approval.subject.id \in Ids'
               /\ job[s].approval.kind = "promotion"
          /\ job[s].at = "returning" =>
               /\ job[s].approval \in signed' /\ job[s].approval.kind = "rollback"
               /\ job[s].approval.decision = "approved"
          /\ job[s].at = "promoting" => Held(job[s].approval)'
    BY DEF JobRight, Held, Candidate, Ids
  <1> QED  BY <1>1, <1>2, <1>3, <1>4 DEF JobRight, Grows

LEMMA JobsKeep ==
    ASSUME Jobs, Grows, NEW s \in Sessions, NEW j, job' = [job EXCEPT ![s] = j],
           j = job[s] \/ JobRight(job[s])'
    PROVE  Jobs'
  <1>1. DOMAIN job' = Sessions /\ job'[s] = j /\ \A z \in Sessions \ {s} : job'[z] = job[z]
    BY DEF Jobs
  <1>2. \A z \in Sessions : JobRight(job[z])'
    BY <1>1, JobKeeps DEF Jobs
  <1> QED  BY <1>1, <1>2 DEF Jobs

LEMMA AllJobsKeep == Jobs /\ Grows /\ UNCHANGED job => Jobs'
  <1> SUFFICES ASSUME Jobs, Grows, UNCHANGED job  PROVE Jobs'
    OBVIOUS
  <1>1. \A z \in Sessions : JobRight(job[z])'  BY JobKeeps DEF Jobs
  <1> QED  BY <1>1 DEF Jobs

\* An event that is no promotion.
LEMMA HistoryKeeps ==
    ASSUME History, NEW e, Publish(e), e.action # "policy_promoted" \/ EarnedBy(e)',
           signed \subseteq signed', evaluations \subseteq evaluations'
    PROVE  /\ History' /\ Len(events') = Len(events) + 1 /\ Len(events) \in Nat
           /\ \A k \in 1..Len(events) : events'[k] = events[k]
           /\ events'[Len(events) + 1] = e
  <1>1. events' = Append(events, e)  BY DEF Publish
  <1>2. /\ IsSeq(events') /\ Len(events') = Len(events) + 1 /\ Len(events) \in Nat
        /\ \A k \in 1..Len(events) : events'[k] = events[k]
        /\ events'[Len(events) + 1] = e
    BY <1>1, AppendIsSeq DEF History
  <1>3. ASSUME NEW k \in 1..Len(events'), events'[k].action = "policy_promoted"
        PROVE  EarnedBy(events[k])'
    <2>1. CASE k \in 1..Len(events)
      BY <1>2, <1>3, <2>1 DEF History, EarnedBy
    <2>2. CASE k = Len(events) + 1
      BY <1>2, <1>3, <2>2 DEF EarnedBy
    <2> QED  BY <1>2, <2>1, <2>2
  <1> QED  BY <1>2, <1>3 DEF History

\* The changes in the history, when the event is none.
LEMMA ChangesKeep ==
    ASSUME History, NEW e, Publish(e), e.action \notin {"policy_promoted", "policy_rolled_back"}
    PROVE  Changes' = Changes /\ \A k \in Changes : events'[k] = events[k]
  <1>1. events' = Append(events, e)  BY DEF Publish
  <1>2. /\ IsSeq(events') /\ Len(events') = Len(events) + 1 /\ Len(events) \in Nat
        /\ \A k \in 1..Len(events) : events'[k] = events[k]
        /\ events'[Len(events) + 1] = e
    BY <1>1, AppendIsSeq DEF History
  <1>3. DOMAIN events = 1..Len(events) /\ DOMAIN events' = 1..Len(events')
    BY <1>2 DEF History, IsSeq
  <1> QED  BY <1>2, <1>3 DEF Changes

\* What a revision frozen for validation may be followed by.
Follows(old, new, published) ==
    \/ new.status = "abandoned"
    \/ /\ new.evaluation \in published /\ Binds(old.evaluation, new.evaluation)
       /\ new.policy = old.policy /\ new.patch = old.patch

Kept(i) ==
    Candidate(i).status = "validating" /\ Candidate(i)' # Candidate(i) =>
      Follows(Candidate(i), Candidate(i)', evaluations')

\* What every step but a promotion and a rollback leaves alone.
Quiet ==
    /\ Grows /\ UNCHANGED active /\ policies \subseteq policies'
    /\ \A i \in Ids' : Candidate(i)'.status = "active" => i \in Ids
    /\ \A i \in Ids : /\ Kept(i)
                      /\ \/ Candidate(i)' = Candidate(i)
                         \/ Candidate(i).status \notin Past /\ Candidate(i)'.status # "active"
    /\ Changes' = Changes /\ \A k \in Changes : events'[k] = events[k]

\* What a promotion of candidate i, or a rollback to no candidate, does: the
\* holder steps down and the history gains the change.
Turned(i, e) ==
    /\ Grows /\ UNCHANGED <<policies, evaluations, signed>> /\ Ids' = Ids /\ active'.holder = i
    /\ \A k \in Ids \ {i} : IF k = active.holder
                             THEN Candidate(k)'.status \in {"superseded", "rolled_back"}
                             ELSE Candidate(k)' = Candidate(k)
    /\ Len(events) \in Nat /\ Changes \subseteq 1..Len(events)
    /\ Changes' = Changes \cup {Len(events) + 1} /\ events'[Len(events) + 1] = e
    /\ \A k \in Changes : events'[k] = events[k]

\* The candidate's next revision, as Revise archives it.
LEMMA ReviseKeeps ==
    ASSUME Archive, NEW i, NEW r, Revise(i, r), Fits(r),
           r.policy \in policies', r.status = "approved" => Reviewed(r),
           i \in Ids \/ i = Len(events) + 1,
           i \in Ids => Candidate(i).status \notin Past,
           Len(events') = Len(events) + 1, Len(events) \in Nat,
           UNCHANGED <<active, signed>>, policies \subseteq policies'
    PROVE  /\ Archive' /\ Grows /\ Ids' = Ids \cup {i} /\ Candidate(i)' = r
           /\ \A k \in Ids \ {i} : Candidate(k)' = Candidate(k)
  <1>1. /\ revisions' = Keep(revisions, r) /\ Ids' = Ids \cup {i}
        /\ candidates'[i] = Position(revisions', r)
        /\ \A k \in Ids \ {i} : candidates'[k] = candidates[k]
    BY DEF Revise, Ids
  <1>2. /\ IsSeq(revisions') /\ Len(revisions) \in Nat /\ Len(revisions') \in Nat
        /\ Len(revisions) <= Len(revisions')
        /\ \A k \in 1..Len(revisions) : revisions'[k] = revisions[k]
        /\ \A k \in 1..Len(revisions') : k \in 1..Len(revisions) \/ revisions'[k] = r
        /\ Position(revisions', r) \in 1..Len(revisions')
        /\ revisions'[Position(revisions', r)] = r
    BY <1>1, KeepFacts DEF Archive
  <1>3. \A k \in 1..Len(revisions') : Fits(revisions[k])'
    BY <1>2 DEF Archive, Fits, Reference
  <1>4. \A k \in Ids' : candidates'[k] \in 1..Len(revisions')
    BY <1>1, <1>2 DEF Archive, Reference
  <1>5. \A k \in Ids \ {i} : Candidate(k)' = Candidate(k)
    BY <1>1, <1>2 DEF Archive, Reference, Candidate
  <1>6. Candidate(i)' = r  BY <1>1, <1>2 DEF Candidate
  <1>7. Grows  BY <1>1, <1>2, <1>5 DEF Grows
  <1>8. \A k \in 1..Len(revisions') : Recorded(revisions[k])'
    <2> SUFFICES ASSUME NEW k \in 1..Len(revisions')  PROVE Recorded(revisions[k])'
      OBVIOUS
    <2>1. PICK q : q = revisions'[k]  OBVIOUS
    <2>2. q.policy \in policies' /\ (q.status = "approved" => Reviewed(q))
      BY <1>2, <2>1 DEF Archive, Recorded, Reference
    <2>3. Reviewed(q) => Reviewed(q)'  BY <1>2 DEF Reviewed, Reference
    <2>4. Recorded(q)'  BY <2>2, <2>3 DEF Recorded
    <2> QED  BY <2>1, <2>4 DEF Recorded, Reviewed
  <1>9. Archive'
    <2>1. ASSUME NEW k \in Ids'  PROVE k \in 1..Len(events')
      BY <1>1 DEF Archive
    <2>2. active'.holder # None => active'.holder \in Ids'  BY <1>1 DEF Archive
    <2> QED  BY <1>2, <1>3, <1>4, <1>8, <2>1, <2>2 DEF Archive, Reference
  <1> QED  BY <1>1, <1>5, <1>6, <1>7, <1>9

\* A transaction that revises one candidate and changes no active policy.
LEMMA RevisionStep ==
    ASSUME Inductive, NEW i, NEW r, NEW e, Revise(i, r), Fits(r), r.status # "active",
           r.policy \in policies', r.status = "approved" => Reviewed(r),
           i \in Ids \/ i = Len(events) + 1,
           i \in Ids => /\ Candidate(i).status \notin Past
                        /\ Candidate(i).status = "validating" => Follows(Candidate(i), r, evaluations'),
           Publish(e), e.action \notin {"policy_promoted", "policy_rolled_back"},
           UNCHANGED <<active, signed>>,
           evaluations \subseteq evaluations', policies \subseteq policies'
    PROVE  Archive' /\ History' /\ Quiet /\ Ids' = Ids \cup {i}
  <1>1. History' /\ Len(events') = Len(events) + 1 /\ Len(events) \in Nat
    BY HistoryKeeps DEF Inductive
  <1>2. /\ Archive' /\ Grows /\ Ids' = Ids \cup {i} /\ Candidate(i)' = r
        /\ \A k \in Ids \ {i} : Candidate(k)' = Candidate(k)
    BY <1>1, ReviseKeeps DEF Inductive
  <1>3. Changes' = Changes /\ \A k \in Changes : events'[k] = events[k]
    BY ChangesKeep DEF Inductive
  <1>4. \A k \in Ids : Kept(k)  BY <1>2 DEF Kept
  <1> QED  BY <1>1, <1>2, <1>3, <1>4 DEF Quiet

\* A step that publishes nothing.
LEMMA NothingPublished ==
    ASSUME Inductive, UNCHANGED <<revisions, index>>, signed \subseteq signed'
    PROVE  Archive' /\ History' /\ Quiet
  <1>1. UNCHANGED <<revisions, policies, candidates, evaluations, active, events>>  BY DEF index
  <1>2. Archive'
    BY <1>1 DEF Inductive, Archive, Fits, Recorded, Reviewed, Reference, Ids
  <1>3. History'  BY <1>1 DEF Inductive, History, EarnedBy
  <1>4. Len(revisions) \in Nat  BY DEF Inductive, Archive, IsSeq
  <1>5. Grows  BY <1>1, <1>4 DEF Grows, Ids, Candidate
  <1>6. Quiet  BY <1>1, <1>5 DEF Quiet, Ids, Candidate, Kept, Changes
  <1> QED  BY <1>2, <1>3, <1>6

LEMMA NumbersAreSome == ASSUME Archive, NEW i \in Ids  PROVE i # None
  <1>1. i \in 1..Len(events)  BY DEF Archive
  <1> QED  BY <1>1, LifecycleAssumption

LEMMA SuccessorFits ==
    ASSUME Archive, NEW i \in Ids
    PROVE  /\ candidates[i] \in Reference /\ Fits(Candidate(i)) /\ Candidate(i).policy \in policies
           /\ Successor(i).previous = candidates[i] /\ DOMAIN Successor(i) = RevisionFields
           /\ \A f \in RevisionFields \ {"previous"} : Successor(i)[f] = Candidate(i)[f]
  <1>1. /\ candidates[i] \in Reference /\ Fits(Candidate(i))
        /\ Candidate(i).policy \in policies
    BY DEF Archive, Candidate, Recorded
  <1> QED  BY <1>1 DEF Successor, Fits, RevisionFields

-----------------------------------------------------------------------------
(* Candidates *)

LEMMA CreateKeeps ==
    ASSUME Inductive, NEW author, NEW parent, Create(author, parent)
    PROVE  Inductive' /\ Quiet
  <1> DEFINE r == [parent |-> parent, policy |-> parent, patch |-> <<>>, status |-> "candidate",
                   author |-> author, previous |-> 0, evaluation |-> None, approval |-> None]
  <1>1. /\ Revise(NextId, r) /\ Publish(Event("candidate_created", r, active.policy, active.policy))
        /\ policies' = policies \cup {parent} /\ UNCHANGED <<evaluations, active, signed, job>>
    BY DEF Create, Record
  <1>2. Fits(r) /\ r.status = "candidate" /\ r.policy \in policies'
    BY <1>1 DEF Fits, RevisionFields
  <1>3. Event("candidate_created", r, active.policy, active.policy).action = "candidate_created"
    BY DEF Event
  <1>4. NextId = Len(events) + 1 /\ NextId \notin Ids
    <2>1. Len(events) \in Nat /\ Ids \subseteq 1..Len(events)
      BY DEF Inductive, Archive, History, IsSeq
    <2> QED  BY <2>1 DEF NextId
  <1> HIDE DEF r
  <1>5. Archive' /\ History' /\ Quiet  BY <1>1, <1>2, <1>3, <1>4, RevisionStep
  <1> QED  BY <1>1, <1>5, AllJobsKeep DEF Inductive, Quiet

LEMMA EditKeeps ==
    ASSUME Inductive, NEW i \in Ids, NEW policy, Edit(i, policy)  PROVE Inductive' /\ Quiet
  <1> DEFINE r == [Successor(i) EXCEPT !.policy = policy, !.patch = Append(@, policy),
                                       !.evaluation = None, !.approval = None]
             e == Event("candidate_edited", r, active.policy, active.policy)
  <1>1. /\ Revise(i, r) /\ Publish(e) /\ Candidate(i).status = "candidate"
        /\ policies' = policies \cup {policy} /\ UNCHANGED <<evaluations, active, signed, job>>
    BY DEF Edit, Record, Editable
  <1>2. Fits(r) /\ r.status = "candidate" /\ r.policy \in policies'
    BY <1>1, SuccessorFits DEF Inductive, Fits, RevisionFields
  <1>3. e.action = "candidate_edited"  BY DEF Event
  <1> HIDE DEF r, e
  <1>4. Archive' /\ History' /\ Quiet  BY <1>1, <1>2, <1>3, RevisionStep DEF Past
  <1> QED  BY <1>1, <1>4, AllJobsKeep DEF Inductive, Quiet

LEMMA RetireKeeps ==
    ASSUME Inductive, NEW i \in Ids, NEW status \in {"rejected", "abandoned"}, NEW action,
           action \notin {"policy_promoted", "policy_rolled_back"},
           Candidate(i).status \notin Past, Retire(i, status, action),
           Candidate(i).status = "validating" => status = "abandoned"
    PROVE  Inductive' /\ Quiet
  <1> DEFINE r == [Successor(i) EXCEPT !.status = status]
             e == Event(action, r, active.policy, active.policy)
  <1>1. Revise(i, r) /\ Publish(e) /\ UNCHANGED <<policies, evaluations, active, signed, job>>
    BY DEF Retire, Record
  <1>2. Fits(r) /\ r.status = status /\ r.policy \in policies'
    BY <1>1, SuccessorFits DEF Inductive, Fits, RevisionFields
  <1>3. e.action = action  BY DEF Event
  <1> HIDE DEF r, e
  <1>4. Archive' /\ History' /\ Quiet  BY <1>1, <1>2, <1>3, RevisionStep DEF Follows
  <1> QED  BY <1>1, <1>4, AllJobsKeep DEF Inductive, Quiet

LEMMA EditsKeep == Inductive /\ Edits => Inductive' /\ Quiet
  <1> SUFFICES ASSUME Inductive, Edits  PROVE Inductive' /\ Quiet
    OBVIOUS
  <1>1. ASSUME NEW i \in Ids, Reject(i) \/ Abandon(i)  PROVE Inductive' /\ Quiet
    <2>1. Candidate(i).status \notin Past  BY <1>1 DEF Reject, Abandon, Editable, Past
    <2>2. CASE Reject(i)
      <3>1. Candidate(i).status = "candidate"  BY <2>2 DEF Reject, Editable
      <3> QED  BY <2>1, <2>2, <3>1, RetireKeeps DEF Reject
    <2>3. CASE Abandon(i)  BY <2>1, <2>3, RetireKeeps DEF Abandon
    <2> QED  BY <1>1, <2>2, <2>3
  <1> QED  BY <1>1, CreateKeeps, EditKeeps DEF Edits

-----------------------------------------------------------------------------
(* Validation *)

LEMMA PrepareKeeps ==
    ASSUME Inductive, NEW s \in Sessions, NEW i \in Ids, NEW actor, Prepare(s, i, actor)
    PROVE  Inductive' /\ Quiet
  <1> DEFINE j == [at |-> "prepared", author |-> Candidate(i).author,
                   attempt |-> [kind |-> "attempt", id |-> i, input |-> candidates[i],
                                policy |-> Candidate(i).policy, parent |-> Candidate(i).parent,
                                trust |-> trust, actor |-> actor]]
  <1>1. job' = [job EXCEPT ![s] = j] /\ UNCHANGED <<revisions, index, signed>>
    BY DEF Prepare
  <1>2. Archive' /\ History' /\ Quiet  BY <1>1, NothingPublished
  <1>3. /\ j.at = "prepared" /\ j.attempt.id = i /\ j.attempt.input = candidates[i]
        /\ j.attempt.policy = revisions[candidates[i]].policy
        /\ j.attempt.parent = revisions[candidates[i]].parent
    BY DEF Candidate
  <1> HIDE DEF j
  <1>4. job'[s] = j  BY <1>1 DEF Inductive, Jobs
  <1>5. candidates[i] \in Reference  BY DEF Inductive, Archive
  <1>6. UNCHANGED <<revisions, candidates>>  BY <1>1 DEF index
  <1>7. JobRight(job[s])'  BY <1>3, <1>4, <1>5, <1>6 DEF JobRight, Ids, Reference
  <1> QED  BY <1>1, <1>2, <1>7, JobsKeep DEF Inductive, Quiet

LEMMA BeginKeeps ==
    ASSUME Inductive, NEW s \in Sessions, Begin(s)  PROVE Inductive' /\ Quiet
  <1> DEFINE a == job[s].attempt
             r == [Successor(a.id) EXCEPT !.status = "validating", !.evaluation = a, !.approval = None]
             e == Event("validation_started", a, active.policy, active.policy)
             j == [at |-> "running", author |-> job[s].author, attempt |-> a,
                   frozen |-> candidates'[a.id]]
  <1>1. /\ job[s].at = "prepared" /\ candidates[a.id] = a.input
        /\ Candidate(a.id).status = "candidate" /\ Revise(a.id, r) /\ Publish(e)
        /\ job' = [job EXCEPT ![s] = j]
        /\ UNCHANGED <<policies, evaluations, active, signed>>
    BY DEF Begin, Record, Editable
  <1>2. /\ a.id \in Ids /\ Candidate(a.id).policy = a.policy /\ Candidate(a.id).parent = a.parent
    BY <1>1 DEF Inductive, Jobs, JobRight, Candidate
  <1>3. Fits(r) /\ r.status = "validating" /\ r.policy \in policies'
    BY <1>1, <1>2, SuccessorFits DEF Inductive, Fits, RevisionFields
  <1>4. e.action = "validation_started" /\ j.at = "running" /\ j.attempt.id = a.id  BY DEF Event
  <1> HIDE DEF r, e, j, a
  <1>5. Archive' /\ History' /\ Quiet /\ Ids' = Ids \cup {a.id}
    BY <1>1, <1>2, <1>3, <1>4, RevisionStep DEF Past
  <1>6. job'[s] = j  BY <1>1 DEF Inductive, Jobs
  <1>7. JobRight(job[s])'  BY <1>4, <1>5, <1>6 DEF JobRight
  <1> QED  BY <1>1, <1>5, <1>7, JobsKeep DEF Inductive, Quiet

LEMMA ConcludeKeeps ==
    ASSUME Inductive, NEW s \in Sessions, NEW c, Conclude(s, c)
    PROVE  Inductive' /\ Quiet
  <1> DEFINE j == [at |-> "concluded", frozen |-> job[s].frozen,
                   run |-> [kind |-> "evaluation", id |-> job[s].attempt.id,
                            input |-> job[s].attempt.input,
                            policy |-> job[s].attempt.policy, parent |-> job[s].attempt.parent,
                            trust |-> job[s].attempt.trust, actor |-> job[s].attempt.actor,
                            author |-> job[s].author, conclusion |-> c]]
  <1>1. /\ job[s].at = "running" /\ job' = [job EXCEPT ![s] = j]
        /\ UNCHANGED <<revisions, index, signed>>
    BY DEF Conclude
  <1>2. Archive' /\ History' /\ Quiet  BY <1>1, NothingPublished
  <1>3. j.at = "concluded" /\ j.run.id = job[s].attempt.id  OBVIOUS
  <1> HIDE DEF j
  <1>4. job[s].attempt.id \in Ids /\ job'[s] = j  BY <1>1 DEF Inductive, Jobs, JobRight
  <1>5. Ids' = Ids  BY <1>1 DEF index, Ids
  <1>6. JobRight(job[s])'  BY <1>3, <1>4, <1>5 DEF JobRight
  <1> QED  BY <1>1, <1>2, <1>6, JobsKeep DEF Inductive, Quiet

\* A session that is done, or died.
LEMMA IdleIsRight ==
    ASSUME Jobs, Grows, NEW s \in Sessions, job' = [job EXCEPT ![s] = Idle]  PROVE Jobs'
  <1>1. job'[s] = Idle /\ Idle.at = "idle"  BY DEF Jobs, Idle
  <1>2. JobRight(job[s])'  BY <1>1 DEF JobRight
  <1> QED  BY <1>2, JobsKeep

LEMMA FinishKeeps ==
    ASSUME Inductive, NEW s \in Sessions, Finish(s)  PROVE Inductive' /\ Quiet
  <1> DEFINE run == job[s].run
             r == [Successor(run.id) EXCEPT
                     !.status = IF run.conclusion = "block" THEN "rejected" ELSE "candidate",
                     !.evaluation = run, !.approval = None]
             e == Event("validation_completed", run, active.policy, active.policy)
  <1>1. /\ job[s].at = "concluded" /\ Candidate(run.id).status = "validating"
        /\ Candidate(run.id).policy = run.policy /\ Candidate(run.id).parent = run.parent
        /\ Binds(Candidate(run.id).evaluation, run) /\ evaluations' = evaluations \cup {run}
        /\ Revise(run.id, r) /\ Publish(e)
        /\ job' = [job EXCEPT ![s] = Idle] /\ UNCHANGED <<policies, active, signed>>
    BY DEF Finish, Record
  <1>2. run.id \in Ids  BY <1>1 DEF Inductive, Jobs, JobRight
  <1>3. /\ Fits(r) /\ r.status \in {"rejected", "candidate"} /\ r.policy \in policies'
        /\ r.evaluation = run /\ r.policy = Candidate(run.id).policy
        /\ r.patch = Candidate(run.id).patch
    BY <1>1, <1>2, SuccessorFits DEF Inductive, Fits, RevisionFields
  <1>4. e.action = "validation_completed"  BY DEF Event
  <1> HIDE DEF r, e, run
  <1>5. Follows(Candidate(run.id), r, evaluations')  BY <1>1, <1>3 DEF Follows
  <1>6. Archive' /\ History' /\ Quiet  BY <1>1, <1>2, <1>3, <1>4, <1>5, RevisionStep DEF Past
  <1> QED  BY <1>1, <1>6, IdleIsRight DEF Inductive, Quiet

-----------------------------------------------------------------------------
(* Approval *)

LEMMA VerifyApprovalKeeps ==
    ASSUME Inductive, NEW s \in Sessions, NEW a \in signed, VerifyApproval(s, a)
    PROVE  Inductive' /\ Quiet
  <1> DEFINE j == [at |-> "approving", approval |-> a]
  <1>1. /\ job' = [job EXCEPT ![s] = j] /\ a.subject.id \in Ids /\ a.kind = "promotion"
        /\ UNCHANGED <<revisions, index, signed>>
    BY DEF VerifyApproval
  <1>2. Archive' /\ History' /\ Quiet  BY <1>1, NothingPublished
  <1>3. j.at = "approving" /\ j.approval = a  OBVIOUS
  <1> HIDE DEF j
  <1>4. job'[s] = j /\ Ids' = Ids  BY <1>1 DEF Inductive, Jobs, index, Ids
  <1>5. JobRight(job[s])'  BY <1>1, <1>3, <1>4 DEF JobRight
  <1> QED  BY <1>1, <1>2, <1>5, JobsKeep DEF Inductive, Quiet

\* An approval speaks of the candidate it was given for, and a complete
\* evaluation of the policy the candidate holds.
LEMMA SubjectFacts ==
    ASSUME NEW i, NEW promoting \in BOOLEAN, NEW q, q = Subject(i, promoting)
    PROVE  /\ q.id = i /\ q.evaluation = Candidate(i).evaluation /\ q.author = Candidate(i).author
           /\ q.policy = Candidate(i).policy /\ q.parent = Candidate(i).parent
           /\ q.trust = Candidate(i).evaluation.trust
  BY DEF Subject

LEMMA CompleteFacts ==
    ASSUME NEW i, Complete(i)
    PROVE  /\ Candidate(i).evaluation \in evaluations
           /\ Candidate(i).evaluation.conclusion = "pass"
           /\ Candidate(i).evaluation.policy = Candidate(i).policy
           /\ Candidate(i).evaluation.parent = Candidate(i).parent
  BY DEF Complete

LEMMA ApproveKeeps ==
    ASSUME Inductive, NEW s \in Sessions, Approve(s)  PROVE Inductive' /\ Quiet
  <1> DEFINE a == job[s].approval
             i == a.subject.id
             r == [Successor(i) EXCEPT !.approval = a,
                     !.status = IF a.decision = "approved" THEN "approved" ELSE "rejected"]
             e == Event("trusted_policy_review", a, active.policy, active.policy)
  <1>1. /\ job[s].at = "approving" /\ Candidate(i).status = "candidate" /\ Subject(i, FALSE) = a.subject
        /\ Revise(i, r) /\ Publish(e)
        /\ job' = [job EXCEPT ![s] = Idle] /\ UNCHANGED <<policies, evaluations, active, signed>>
    BY DEF Approve, Approvable, Editable, Record
  <1>2. a \in signed /\ i \in Ids /\ a.kind = "promotion"  BY <1>1 DEF Inductive, Jobs, JobRight
  <1>3. /\ a.subject.policy = Candidate(i).policy /\ a.subject.parent = Candidate(i).parent
        /\ a.subject.evaluation = Candidate(i).evaluation
    <2>1. a.subject = Subject(i, FALSE)  BY <1>1
    <2> QED  BY <2>1, SubjectFacts
  <1> HIDE DEF a, i
  <1>4. /\ Fits(r) /\ r.status \in {"approved", "rejected"} /\ r.policy \in policies'
        /\ r.approval = a /\ r.previous = candidates[i] /\ candidates[i] \in Reference
        /\ \A f \in {"policy", "parent", "evaluation", "author"} : r[f] = Candidate(i)[f]
    BY <1>1, <1>2, <1>3, SuccessorFits DEF Inductive, Fits, RevisionFields
  <1>5. e.action = "trusted_policy_review"  BY DEF Event
  <1> HIDE DEF r, e
  <1>6. Reviewed(r)  BY <1>2, <1>4 DEF Reviewed, Candidate
  <1>7. Archive' /\ History' /\ Quiet  BY <1>1, <1>2, <1>4, <1>5, <1>6, RevisionStep DEF Past
  <1> QED  BY <1>1, <1>7, IdleIsRight DEF Inductive, Quiet

-----------------------------------------------------------------------------
(* Promotion and rollback *)

LEMMA VerifyPromotionKeeps ==
    ASSUME Inductive, NEW s \in Sessions, NEW i \in Ids, VerifyPromotion(s, i)
    PROVE  Inductive' /\ Quiet
  <1> DEFINE a == Candidate(i).approval
             j == [at |-> "promoting", approval |-> a]
  <1>1. /\ job' = [job EXCEPT ![s] = j] /\ Candidate(i).status = "approved"
        /\ a.subject = Subject(i, TRUE) /\ Authorizes(trust, Subject(i, TRUE))
        /\ Independent(trust, a.approver, a.subject.author)
        /\ UNCHANGED <<revisions, index, signed>>
    BY DEF VerifyPromotion, Promotable
  <1>2. Archive' /\ History' /\ Quiet  BY <1>1, NothingPublished
  <1>3. j.at = "promoting" /\ j.approval = a  OBVIOUS
  <1>4. a \in signed  BY <1>1, SuccessorFits DEF Inductive, Fits
  <1>5. a.subject.id = i  BY <1>1 DEF Subject
  <1>6. /\ a.approver \in Approvers[a.subject.trust] /\ a.approver # a.subject.author
        /\ a.subject.parent \in Baselines[a.subject.trust]
    BY <1>1 DEF Authorizes, Independent
  <1>7. Held(a)  BY <1>1, <1>4, <1>5, <1>6 DEF Held, Past
  <1> HIDE DEF j
  <1>8. job'[s] = j  BY <1>1 DEF Inductive, Jobs
  <1>9. UNCHANGED <<revisions, candidates, signed>>  BY <1>1 DEF index
  <1>10. JobRight(job[s])'
    BY <1>3, <1>7, <1>8, <1>9 DEF JobRight, Held, Ids, Candidate
  <1> QED  BY <1>1, <1>2, <1>10, JobsKeep DEF Inductive, Quiet

\* The archive with the active candidate stepped down.
LEMMA StepDownFacts ==
    ASSUME Archive, NEW status \in {"superseded", "rolled_back"}
    PROVE  LET d == StepDown(status) IN
           /\ IsSeq(d.revisions) /\ Len(d.revisions) \in Nat /\ Len(revisions) \in Nat
           /\ Len(revisions) <= Len(d.revisions)
           /\ \A k \in 1..Len(revisions) : d.revisions[k] = revisions[k]
           /\ \A k \in 1..Len(d.revisions) : Fits(d.revisions[k]) /\ Recorded(d.revisions[k])
           /\ DOMAIN d.candidates = Ids
           /\ \A k \in Ids : /\ d.candidates[k] \in 1..Len(d.revisions)
                             /\ IF k = active.holder /\ active.holder # None
                                THEN d.revisions[d.candidates[k]].status = status
                                ELSE d.candidates[k] = candidates[k]
  <1>1. CASE active.holder = None
    <2>1. StepDown(status).revisions = revisions /\ StepDown(status).candidates = candidates
      BY <1>1 DEF StepDown
    <2>2. Len(revisions) \in Nat  BY DEF Archive, IsSeq
    <2> QED  BY <1>1, <2>1, <2>2 DEF Archive, Reference, Ids
  <1>2. CASE active.holder # None
    <2> DEFINE h == active.holder
               r == [Successor(h) EXCEPT !.status = status]
               new == Keep(revisions, r)
               moved == [candidates EXCEPT ![h] = Position(new, r)]
    <2>1. StepDown(status).revisions = new /\ StepDown(status).candidates = moved
      BY <1>2 DEF StepDown
    <2>2. h \in Ids  BY <1>2 DEF Archive
    <2>3. Fits(r) /\ r.status = status /\ Recorded(r)
      BY <2>2, SuccessorFits DEF Fits, RevisionFields, Recorded
    <2> HIDE DEF r
    <2>4. /\ IsSeq(new) /\ Len(revisions) \in Nat /\ Len(new) \in Nat /\ Len(revisions) <= Len(new)
          /\ \A k \in 1..Len(revisions) : new[k] = revisions[k]
          /\ \A k \in 1..Len(new) : k \in 1..Len(revisions) \/ new[k] = r
          /\ Position(new, r) \in 1..Len(new) /\ new[Position(new, r)] = r
      BY KeepFacts DEF Archive
    <2> HIDE DEF new
    <2>5. \A k \in 1..Len(new) : Fits(new[k]) /\ Recorded(new[k])
      BY <2>3, <2>4 DEF Archive, Reference
    <2>6. DOMAIN moved = Ids  BY DEF Ids
    <2>7. \A k \in Ids : /\ moved[k] \in 1..Len(new)
                         /\ IF k = h THEN new[moved[k]].status = status
                            ELSE moved[k] = candidates[k]
      BY <2>2, <2>3, <2>4 DEF Archive, Reference, Ids
    <2> QED  BY <1>2, <2>1, <2>4, <2>5, <2>6, <2>7
  <1> QED  BY <1>1, <1>2

\* The changes in the history, when the event is one.
LEMMA ChangesGrow ==
    ASSUME History, NEW e, Publish(e), e.action \in {"policy_promoted", "policy_rolled_back"}
    PROVE  /\ Len(events) \in Nat /\ Changes \subseteq 1..Len(events)
           /\ Changes' = Changes \cup {Len(events) + 1} /\ events'[Len(events) + 1] = e
           /\ \A k \in Changes : events'[k] = events[k]
  <1>1. events' = Append(events, e)  BY DEF Publish
  <1>2. /\ IsSeq(events') /\ Len(events') = Len(events) + 1 /\ Len(events) \in Nat
        /\ \A k \in 1..Len(events) : events'[k] = events[k]
        /\ events'[Len(events) + 1] = e
    BY <1>1, AppendIsSeq DEF History
  <1>3. DOMAIN events = 1..Len(events) /\ DOMAIN events' = 1..Len(events')
    BY <1>2 DEF History, IsSeq
  <1>4. /\ \A k \in Changes : k \in 1..Len(events)
        /\ \A k \in DOMAIN events' : k \in Changes' <=> k \in Changes \/ k = Len(events) + 1
    BY <1>2, <1>3 DEF Changes
  <1>5. \A k \in Changes' : k \in DOMAIN events'  BY DEF Changes
  <1> QED  BY <1>2, <1>3, <1>4, <1>5

LEMMA PromoteKeeps ==
    ASSUME Inductive, NEW s \in Sessions, Promote(s),
           NEW a, a = job[s].approval, NEW i, i = a.subject.id
    PROVE  LET r == [Successor(i) EXCEPT !.status = "active"]
           IN /\ Inductive'
              /\ Turned(i, Event("policy_promoted", r, a.subject.parent, a.subject.policy))
              /\ Held(a) /\ i \in Ids /\ Candidate(i).status = "approved"
              /\ Fits(r) /\ Candidate(i).approval = a /\ Candidate(i)' = r
  <1> DEFINE d == StepDown("superseded")
             r == [Successor(i) EXCEPT !.status = "active"]
             e == Event("policy_promoted", r, a.subject.parent, a.subject.policy)
  <1>1. /\ job[s].at = "promoting" /\ Candidate(i).status = "approved" /\ Complete(i)
        /\ Subject(i, TRUE) = a.subject /\ a.decision = "approved"
        /\ revisions' = Keep(d.revisions, r)
        /\ candidates' = [d.candidates EXCEPT ![i] = Position(Keep(d.revisions, r), r)]
        /\ active'.holder = i /\ Publish(e)
        /\ job' = [job EXCEPT ![s] = Idle] /\ UNCHANGED <<policies, evaluations, signed>>
    BY DEF Promote, Promotable, Activate
  <1>2. Held(a)  BY <1>1 DEF Inductive, Jobs, JobRight
  <1>3. i \in Ids /\ Candidate(i).approval = a /\ a \in signed  BY <1>1, <1>2 DEF Held
  <1>4. /\ Fits(r) /\ r.status = "active" /\ r.approval = a /\ r.author = Candidate(i).author
        /\ r.policy \in policies
    BY <1>3, SuccessorFits DEF Inductive, Fits, RevisionFields
  <1>5. PICK f : f = e  OBVIOUS
  <1>6. EarnedBy(f)'
    <2>1. /\ f.subject = r /\ f.from = a.subject.parent /\ f.to = a.subject.policy
      BY <1>5 DEF Event
    <2>2. /\ a.subject.evaluation = Candidate(i).evaluation /\ a.subject.author = Candidate(i).author
          /\ a.subject.policy = Candidate(i).policy /\ a.subject.parent = Candidate(i).parent
          /\ a.subject.trust = Candidate(i).evaluation.trust
      <3>1. a.subject = Subject(i, TRUE)  BY <1>1
      <3> QED  BY <3>1 DEF Subject
    <2>3. /\ Candidate(i).evaluation \in evaluations /\ Candidate(i).evaluation.conclusion = "pass"
          /\ Candidate(i).evaluation.policy = Candidate(i).policy
          /\ Candidate(i).evaluation.parent = Candidate(i).parent
      <3>1. Complete(i)  BY <1>1
      <3> QED  BY <3>1, CompleteFacts
    <2>4. /\ a.approver \in Approvers[a.subject.trust] /\ a.approver # a.subject.author
          /\ a.subject.parent \in Baselines[a.subject.trust]
      BY <1>2 DEF Held
    <2> HIDE DEF e, r
    <2>5. EarnedBy(f)
      BY <1>1, <1>3, <1>4, <2>1, <2>2, <2>3, <2>4 DEF EarnedBy
    <2> QED  BY <1>1, <2>5 DEF EarnedBy
  <1>7. /\ IsSeq(d.revisions) /\ Len(d.revisions) \in Nat /\ Len(revisions) \in Nat
        /\ Len(revisions) <= Len(d.revisions)
        /\ \A k \in 1..Len(revisions) : d.revisions[k] = revisions[k]
        /\ \A k \in 1..Len(d.revisions) : Fits(d.revisions[k]) /\ Recorded(d.revisions[k])
        /\ DOMAIN d.candidates = Ids
        /\ \A k \in Ids : /\ d.candidates[k] \in 1..Len(d.revisions)
                          /\ IF k = active.holder /\ active.holder # None
                             THEN d.revisions[d.candidates[k]].status = "superseded"
                             ELSE d.candidates[k] = candidates[k]
    BY StepDownFacts DEF Inductive
  <1>8. History' /\ Len(events') = Len(events) + 1 /\ Len(events) \in Nat
    <2>1. Publish(f)  BY <1>1, <1>5 DEF Publish
    <2> QED  BY <1>1, <1>6, <2>1, HistoryKeeps DEF Inductive
  <1> HIDE DEF d, r, e
  <1>9. /\ IsSeq(revisions') /\ Len(revisions') \in Nat /\ Len(d.revisions) <= Len(revisions')
        /\ \A k \in 1..Len(d.revisions) : revisions'[k] = d.revisions[k]
        /\ \A k \in 1..Len(revisions') : k \in 1..Len(d.revisions) \/ revisions'[k] = r
        /\ Position(revisions', r) \in 1..Len(revisions')
        /\ revisions'[Position(revisions', r)] = r
    BY <1>1, <1>7, KeepFacts
  <1>10. /\ Ids' = Ids /\ candidates'[i] = Position(revisions', r)
        /\ \A k \in Ids \ {i} : candidates'[k] = d.candidates[k]
    BY <1>1, <1>3, <1>7 DEF Ids
  <1>11. Archive'
    <2>1. ASSUME NEW k \in 1..Len(revisions')
          PROVE  Fits(revisions[k])' /\ Recorded(revisions[k])'
      <3>1. PICK q : q = revisions'[k]  OBVIOUS
      <3>2. Fits(q) /\ Recorded(q)  BY <1>4, <1>7, <1>9, <3>1 DEF Recorded
      <3>3. Fits(q)'  BY <1>1, <3>2 DEF Fits
      <3>4. Reviewed(q) => Reviewed(q)'  BY <1>7, <1>9 DEF Reviewed, Reference
      <3>5. Recorded(q)'  BY <1>1, <3>2, <3>4 DEF Recorded
      <3> QED  BY <3>1, <3>3, <3>5 DEF Fits, Recorded, Reviewed
    <2>2. \A k \in Ids' : candidates'[k] \in 1..Len(revisions')
      BY <1>7, <1>9, <1>10
    <2>3. Ids' \subseteq 1..Len(events')
      <3> SUFFICES ASSUME NEW k \in Ids'  PROVE k \in 1..Len(events')
        OBVIOUS
      <3> QED  BY <1>8, <1>10 DEF Inductive, Archive
    <2> QED  BY <1>1, <1>3, <1>9, <1>10, <2>1, <2>2, <2>3 DEF Archive, Reference
  <1>12. Candidate(i)' = r  BY <1>9, <1>10 DEF Candidate
  <1>13. ASSUME NEW k \in Ids \ {i}
         PROVE  IF k = active.holder THEN Candidate(k)'.status = "superseded"
                ELSE Candidate(k)' = Candidate(k)
    <2>1. Candidate(k)' = d.revisions[d.candidates[k]]
      BY <1>7, <1>9, <1>10 DEF Candidate
    <2>2. k # None  BY NumbersAreSome DEF Inductive
    <2>3. candidates[k] \in 1..Len(revisions)  BY DEF Inductive, Archive, Reference
    <2>4. CASE k = active.holder  BY <1>7, <2>1, <2>2, <2>4
    <2>5. CASE k # active.holder
      <3>1. d.candidates[k] = candidates[k]  BY <1>7, <2>5
      <3> QED  BY <1>7, <2>1, <2>3, <2>5, <3>1 DEF Candidate
    <2> QED  BY <2>4, <2>5
  <1>14. Grows
    <2>1. ASSUME NEW k \in Ids, Candidate(k).status \in Past
          PROVE  /\ Candidate(k)'.status \in Past
                 /\ Candidate(k)'.status = "approved" => Candidate(k)' = Candidate(k)
      <3>1. CASE k = i  BY <1>4, <1>12, <3>1 DEF Past
      <3>2. CASE k # i  BY <1>13, <2>1, <3>2 DEF Past
      <3> QED  BY <3>1, <3>2
    <2> QED  BY <1>1, <1>7, <1>9, <1>10, <2>1 DEF Grows
  <1>15. Turned(i, e)
    <2>1. f.action = "policy_promoted" /\ Publish(f)  BY <1>1, <1>5 DEF Event, Publish, e
    <2>2. /\ Len(events) \in Nat /\ Changes \subseteq 1..Len(events)
          /\ Changes' = Changes \cup {Len(events) + 1} /\ events'[Len(events) + 1] = f
          /\ \A k \in Changes : events'[k] = events[k]
      BY <2>1, ChangesGrow DEF Inductive
    <2> QED  BY <1>1, <1>5, <1>10, <1>13, <1>14, <2>2 DEF Turned
  <1>16. Inductive'  BY <1>1, <1>8, <1>11, <1>14, IdleIsRight DEF Inductive
  <1> QED  BY <1>1, <1>2, <1>3, <1>4, <1>12, <1>15, <1>16 DEF r, e

LEMMA VerifyRollbackKeeps ==
    ASSUME Inductive, NEW s \in Sessions, NEW a \in signed, VerifyRollback(s, a)
    PROVE  Inductive' /\ Quiet
  <1> DEFINE j == [at |-> "returning", approval |-> a]
  <1>1. /\ a.kind = "rollback" /\ a.decision = "approved"
        /\ job' = [job EXCEPT ![s] = j] /\ UNCHANGED <<revisions, index, signed>>
    BY DEF VerifyRollback
  <1>2. Archive' /\ History' /\ Quiet  BY <1>1, NothingPublished
  <1>3. j.at = "returning" /\ j.approval = a  OBVIOUS
  <1> HIDE DEF j
  <1>4. job'[s] = j  BY <1>1 DEF Inductive, Jobs
  <1>5. JobRight(job[s])'  BY <1>1, <1>3, <1>4 DEF JobRight
  <1> QED  BY <1>1, <1>2, <1>5, JobsKeep DEF Inductive, Quiet

LEMMA RollbackKeeps ==
    ASSUME Inductive, NEW s \in Sessions, Rollback(s)
    PROVE  LET a == job[s].approval IN
           /\ Inductive'
           /\ Turned(None, Event("policy_rolled_back", a, a.subject.from, a.subject.to))
  <1> DEFINE a == job[s].approval
             d == StepDown("rolled_back")
             e == Event("policy_rolled_back", a, a.subject.from, a.subject.to)
  <1>1. /\ revisions' = d.revisions /\ candidates' = d.candidates /\ active'.holder = None
        /\ Publish(e) /\ job' = [job EXCEPT ![s] = Idle]
        /\ UNCHANGED <<policies, evaluations, signed>>
    BY DEF Rollback, Activate
  <1>2. e.action = "policy_rolled_back"  BY DEF Event
  <1>3. /\ IsSeq(d.revisions) /\ Len(d.revisions) \in Nat /\ Len(revisions) \in Nat
        /\ Len(revisions) <= Len(d.revisions)
        /\ \A k \in 1..Len(revisions) : d.revisions[k] = revisions[k]
        /\ \A k \in 1..Len(d.revisions) : Fits(d.revisions[k]) /\ Recorded(d.revisions[k])
        /\ DOMAIN d.candidates = Ids
        /\ \A k \in Ids : /\ d.candidates[k] \in 1..Len(d.revisions)
                          /\ IF k = active.holder /\ active.holder # None
                             THEN d.revisions[d.candidates[k]].status = "rolled_back"
                             ELSE d.candidates[k] = candidates[k]
    BY StepDownFacts DEF Inductive
  <1> HIDE DEF a, d, e
  <1>4. History' /\ Len(events') = Len(events) + 1 /\ Len(events) \in Nat
    BY <1>1, <1>2, HistoryKeeps DEF Inductive
  <1>5. Ids' = Ids  BY <1>1, <1>3 DEF Ids
  <1>6. Archive'
    <2>1. ASSUME NEW k \in 1..Len(revisions')
          PROVE  Fits(revisions[k])' /\ Recorded(revisions[k])'
      <3>1. PICK q : q = revisions'[k]  OBVIOUS
      <3>2. Fits(q) /\ Recorded(q)  BY <1>1, <1>3, <3>1
      <3>3. Fits(q)'  BY <1>1, <3>2 DEF Fits
      <3>4. Reviewed(q) => Reviewed(q)'  BY <1>1, <1>3 DEF Reviewed, Reference
      <3>5. Recorded(q)'  BY <1>1, <3>2, <3>4 DEF Recorded
      <3> QED  BY <3>1, <3>3, <3>5 DEF Fits, Recorded, Reviewed
    <2>2. \A k \in Ids' : k \in 1..Len(events')  BY <1>4, <1>5 DEF Inductive, Archive
    <2> QED  BY <1>1, <1>3, <1>5, <2>1, <2>2 DEF Archive, Reference
  <1>7. ASSUME NEW k \in Ids
        PROVE  IF k = active.holder THEN Candidate(k)'.status = "rolled_back"
               ELSE Candidate(k)' = Candidate(k)
    BY <1>1, <1>3, NumbersAreSome DEF Inductive, Archive, Reference, Candidate
  <1>8. Grows
    <2>1. ASSUME NEW k \in Ids, Candidate(k).status \in Past
          PROVE  /\ Candidate(k)'.status \in Past
                 /\ Candidate(k)'.status = "approved" => Candidate(k)' = Candidate(k)
      BY <1>7, <2>1 DEF Past
    <2> QED  BY <1>1, <1>3, <1>5, <2>1 DEF Grows
  <1>9. /\ Changes \subseteq 1..Len(events)
        /\ Changes' = Changes \cup {Len(events) + 1} /\ events'[Len(events) + 1] = e
        /\ \A k \in Changes : events'[k] = events[k]
    BY <1>1, <1>2, ChangesGrow DEF Inductive
  <1>10. Turned(None, e)  BY <1>1, <1>4, <1>5, <1>7, <1>8, <1>9 DEF Turned
  <1>11. Inductive'  BY <1>1, <1>4, <1>6, <1>8, IdleIsRight DEF Inductive
  <1> QED  BY <1>10, <1>11 DEF a, e

-----------------------------------------------------------------------------
LEMMA InitInductive == Init => Inductive
  <1> SUFFICES ASSUME Init  PROVE Inductive
    OBVIOUS
  <1>1. revisions = <<>> /\ events = <<>> /\ Ids = {} /\ active.holder = None
    BY DEF Init, Ids
  <1>2. IsSeq(revisions) /\ IsSeq(events) /\ Reference = {} /\ 1..Len(events) = {}
    BY <1>1 DEF IsSeq, Reference
  <1>3. Jobs  BY DEF Init, Idle, Jobs, JobRight
  <1> QED  BY <1>1, <1>2, <1>3 DEF Inductive, Archive, History

LEMMA Steps ==
    ASSUME Inductive, [Next]_vars
    PROVE  /\ Inductive'
           /\ Quiet \/ \E s \in Sessions : Promote(s) \/ Rollback(s)
  <1>1. CASE Signatures \/ (\E t \in Trusts : ChangeTrust(t)) \/ UNCHANGED vars
    <2>1. UNCHANGED <<revisions, index, job>> /\ signed \subseteq signed'
      BY <1>1 DEF Signatures, SignPromotion, SignRollback, Sign, ChangeTrust, vars
    <2> QED  BY <2>1, NothingPublished, AllJobsKeep DEF Inductive, Quiet
  <1>2. ASSUME NEW s \in Sessions, Validation(s)  PROVE Inductive' /\ Quiet
    BY <1>2, PrepareKeeps, BeginKeeps, ConcludeKeeps, FinishKeeps DEF Validation
  <1>3. ASSUME NEW s \in Sessions, Authorization(s)
        PROVE  Inductive' /\ (Quiet \/ Promote(s) \/ Rollback(s))
    BY <1>3, VerifyApprovalKeeps, ApproveKeeps, VerifyPromotionKeeps, PromoteKeeps,
       VerifyRollbackKeeps, RollbackKeeps DEF Authorization
  <1>4. ASSUME NEW s \in Sessions, Fail(s)  PROVE Inductive' /\ Quiet
    <2>1. job' = [job EXCEPT ![s] = Idle] /\ UNCHANGED <<revisions, index, signed>>
      BY <1>4 DEF Fail
    <2> QED  BY <2>1, NothingPublished, IdleIsRight DEF Inductive, Quiet
  <1>5. CASE Edits  BY <1>5, EditsKeep
  <1> QED  BY <1>1, <1>2, <1>3, <1>4, <1>5 DEF Next

THEOREM LifecycleInductive == Spec => []Inductive
  <1>1. Inductive /\ [Next]_vars => Inductive'  BY Steps
  <1> QED  BY <1>1, InitInductive, PTL DEF Spec

\* Whatever sessions interleave or die, and however trust changes: a revision's
\* evidence is of its own policy pair, and every promotion in the history rests
\* on a published pass of that pair and on the approval, by somebody other than
\* the author, of a person whose key was in the trust that pass ran under
\* (application/policy_lifecycle.rs, policy_promotion.rs).
THEOREM EvidenceIsEarned == Spec => []EvidenceFits
  <1>1. ASSUME Inductive  PROVE EvidenceFits
    <2>1. \A k \in Changes : k \in 1..Len(events)
      BY <1>1 DEF Changes, Inductive, History, IsSeq
    <2>2. \A k \in Changes : events[k].action = "policy_promoted" => EarnedBy(events[k])
      BY <1>1, <2>1 DEF Inductive, History
    <2>3. \A k \in Reference : Fits(revisions[k])  BY <1>1 DEF Inductive, Archive
    <2> QED  BY <2>2, <2>3 DEF EvidenceFits, EarnedBy, Fits
  <1> QED  BY <1>1, LifecycleInductive, PTL

-----------------------------------------------------------------------------
(* The active policy, and the changes of it.                                *)

\* What an active policy rests on.
Rests(x) ==
    /\ x.policy \in policies /\ x.approval \in signed
    /\ LET s == x.approval.subject IN
         IF x.kind = "policy_rollback"
           THEN x.approval.kind = "rollback" /\ s.to = x.policy
           ELSE /\ x.approval.kind = "promotion" /\ s.policy = x.policy
                /\ s.revision \in Reference
                /\ LET r == revisions[s.revision] IN
                     /\ r.policy = x.policy /\ r.parent = s.parent
                     /\ r.evaluation = s.evaluation /\ r.author = s.author
                /\ LET run == s.evaluation IN
                     /\ run.conclusion = "pass" /\ run.id = s.id /\ run.trust = s.trust
                     /\ run.policy = x.policy /\ run.parent = s.parent

Holders ==
    /\ \A i \in Ids : Candidate(i).status = "active" <=> i = active.holder
    /\ active.holder # None =>
         /\ Candidate(active.holder).policy = active.policy
         /\ Candidate(active.holder).approval = active.approval

\* An authorization in the history has been used: its candidate has left review,
\* or it named the event it followed.
Used(e, k) ==
    IF e.action = "policy_promoted"
      THEN LET a == e.subject.approval IN
             /\ a.kind = "promotion" /\ a.subject.id \in Ids
             /\ Candidate(a.subject.id).status \in Past \ {"approved"}
      ELSE e.subject.kind = "rollback" /\ e.subject.subject.cursor = k - 1

OfRecord ==
    /\ Holders
    /\ active.policy # None => Rests(active)
    /\ \A k \in Changes : Used(events[k], k)

LEMMA RestsKeeps == ASSUME NEW x, Rests(x), Grows, policies \subseteq policies'  PROVE Rests(x)'
  BY DEF Rests, Grows, Reference

LEMMA QuietOfRecord == ASSUME Inductive, Inductive', OfRecord, Quiet  PROVE OfRecord'
  <1>1. PICK h : h = active.holder  OBVIOUS
  <1>2. UNCHANGED active /\ Grows /\ policies \subseteq policies'  BY DEF Quiet
  <1>3. ASSUME NEW i \in Ids
        PROVE  /\ i \in Ids'
               /\ Candidate(i).status \in Past => Candidate(i)' = Candidate(i)
               /\ Candidate(i)'.status = "active" => Candidate(i)' = Candidate(i)
    BY DEF Quiet, Grows
  <1>4. Holders'
    <2>1. ASSUME NEW i \in Ids'  PROVE Candidate(i)'.status = "active" <=> i = h
      <3>1. CASE i \in Ids
        BY <1>1, <1>3, <3>1 DEF OfRecord, Holders, Past
      <3>2. CASE i \notin Ids
        <4>1. i \in 1..Len(events')  BY DEF Inductive, Archive
        <4>2. i # None  BY <4>1, LifecycleAssumption
        <4>3. i # h  BY <1>1, <3>2, <4>2 DEF Inductive, Archive
        <4> QED  BY <3>2, <4>3 DEF Quiet
      <3> QED  BY <3>1, <3>2
    <2>2. h # None => h \in Ids /\ Candidate(h).status = "active"
      BY <1>1 DEF Inductive, Archive, OfRecord, Holders
    <2>3. h # None => Candidate(h)' = Candidate(h)  BY <1>3, <2>2 DEF Past
    <2>4. h # None => Candidate(h)'.policy = active.policy /\ Candidate(h)'.approval = active.approval
      BY <1>1, <2>3 DEF OfRecord, Holders
    <2> QED  BY <1>1, <1>2, <2>1, <2>4 DEF Holders
  <1>5. active'.policy # None => Rests(active)'
    <2>1. PICK x : x = active  OBVIOUS
    <2>2. x.policy # None => Rests(x)'  BY <1>2, <2>1, RestsKeeps DEF OfRecord
    <2> QED  BY <1>2, <2>1, <2>2 DEF Rests
  <1>6. \A k \in Changes' : Used(events[k], k)'
    <2> SUFFICES ASSUME NEW k \in Changes'  PROVE Used(events[k], k)'
      OBVIOUS
    <2>1. PICK e : e = events[k]  OBVIOUS
    <2>2. k \in Changes /\ events'[k] = e  BY <2>1 DEF Quiet
    <2>3. Used(e, k)  BY <2>1, <2>2 DEF OfRecord
    <2>4. Used(e, k)'  BY <1>3, <2>3 DEF Used, Past
    <2> QED  BY <2>2, <2>4 DEF Used
  <1> QED  BY <1>4, <1>5, <1>6 DEF OfRecord

\* Used authorizations stay used when the active policy changes.
LEMMA TurnedKeepsUsed ==
    ASSUME Inductive, OfRecord, NEW i, NEW f, Turned(i, f), i \in Ids \cup {None},
           i \in Ids => /\ Candidate(i).status = "approved"
                        /\ Candidate(i)'.status \in Past \ {"approved"},
           NEW k \in Changes
    PROVE  Used(events[k], k)'
  <1>1. PICK e : e = events[k]  OBVIOUS
  <1>2. events'[k] = e /\ Used(e, k)  BY <1>1 DEF OfRecord, Turned
  <1>3. ASSUME NEW c \in Ids, Candidate(c).status \in Past \ {"approved"}
        PROVE  c \in Ids' /\ Candidate(c)'.status \in Past \ {"approved"}
    BY <1>3 DEF Turned, Past
  <1>4. Used(e, k)'  BY <1>2, <1>3 DEF Used
  <1> QED  BY <1>2, <1>4 DEF Used

LEMMA PromoteOfRecord ==
    ASSUME Inductive, OfRecord, NEW s \in Sessions, Promote(s)  PROVE OfRecord'
  <1>1. PICK a : a = job[s].approval  OBVIOUS
  <1>2. PICK i : i = a.subject.id  OBVIOUS
  <1> DEFINE r == [Successor(i) EXCEPT !.status = "active"]
  <1>3. /\ Turned(i, Event("policy_promoted", r, a.subject.parent, a.subject.policy))
        /\ Held(a) /\ i \in Ids /\ Candidate(i).status = "approved"
        /\ Fits(r) /\ Candidate(i).approval = a /\ Candidate(i)' = r
    BY <1>1, <1>2, PromoteKeeps
  <1>4. /\ Complete(i) /\ a.subject = Subject(i, TRUE)
        /\ active' = [policy |-> a.subject.policy, approval |-> r.approval,
                      kind |-> "policy_approval", holder |-> i]
    BY <1>1, <1>2 DEF Promote, Promotable, Activate
  <1>5. /\ DOMAIN Successor(i) = RevisionFields
        /\ \A g \in RevisionFields \ {"previous"} : Successor(i)[g] = Candidate(i)[g]
    BY <1>3, SuccessorFits DEF Inductive
  <1>6. /\ r.status = "active" /\ r.approval = a /\ r.policy = Candidate(i).policy
    BY <1>3, <1>5 DEF RevisionFields
  <1>7. /\ a.subject.revision = Candidate(i).previous /\ a.subject.id = i
        /\ a.subject.policy = Candidate(i).policy /\ a.subject.parent = Candidate(i).parent
        /\ a.subject.evaluation = Candidate(i).evaluation
        /\ a.subject.author = Candidate(i).author
        /\ a.subject.trust = Candidate(i).evaluation.trust
    BY <1>4 DEF Subject
  <1>8. PICK c : c = Candidate(i)  OBVIOUS
  <1>9. Recorded(c) /\ c.policy \in policies /\ Reviewed(c)
    BY <1>3, <1>8 DEF Inductive, Archive, Recorded, Candidate
  <1>10. c.evaluation.conclusion = "pass" /\ c.evaluation.id = i
    BY <1>4, <1>8 DEF Complete
  <1>11. c.evaluation.policy = c.policy /\ c.evaluation.parent = c.parent
    BY <1>4, <1>8, CompleteFacts
  <1>12. PICK x : x = active'  OBVIOUS
  <1>13. /\ x.policy = c.policy /\ x.approval = a /\ x.kind = "policy_approval" /\ x.holder = i
    BY <1>4, <1>6, <1>7, <1>8, <1>12
  <1> HIDE DEF r
  <1>14. Rests(x)
    <2>1. a \in signed  BY <1>3 DEF Held
    <2>2. a.kind = "promotion" /\ c.approval = a  BY <1>3, <1>8, <1>9 DEF Reviewed
    <2>3. /\ c.previous \in Reference
          /\ revisions[c.previous].policy = c.policy /\ revisions[c.previous].parent = c.parent
          /\ revisions[c.previous].evaluation = c.evaluation
          /\ revisions[c.previous].author = c.author
      BY <1>9 DEF Reviewed
    <2> QED  BY <1>7, <1>8, <1>9, <1>10, <1>11, <1>13, <2>1, <2>2, <2>3 DEF Rests
  <1>15. Rests(x)'  BY <1>3, <1>14, RestsKeeps DEF Turned
  <1>16. active'.policy # None => Rests(active)'  BY <1>12, <1>15 DEF Rests
  <1>17. Holders'
    <2>1. ASSUME NEW k \in Ids'  PROVE Candidate(k)'.status = "active" <=> k = i
      <3>1. CASE k = i  BY <1>3, <1>6, <3>1
      <3>2. CASE k # i
        <4>1. k \in Ids  BY <1>3 DEF Turned
        <4>2. CASE k = active.holder
          <5>1. Candidate(k)'.status \in {"superseded", "rolled_back"}
            BY <1>3, <3>2, <4>1, <4>2 DEF Turned
          <5> QED  BY <3>2, <5>1
        <4>3. CASE k # active.holder
          <5>1. Candidate(k)' = Candidate(k)  BY <1>3, <3>2, <4>1, <4>3 DEF Turned
          <5> QED  BY <3>2, <4>1, <4>3, <5>1 DEF OfRecord, Holders
        <4> QED  BY <4>2, <4>3
      <3> QED  BY <3>1, <3>2
    <2>2. Candidate(i)'.policy = x.policy /\ Candidate(i)'.approval = x.approval
      BY <1>3, <1>6, <1>8, <1>13
    <2>3. active'.holder = i  BY <1>12, <1>13
    <2> QED  BY <1>12, <2>1, <2>2, <2>3 DEF Holders
  <1>18. \A k \in Changes' : Used(events[k], k)'
    <2> SUFFICES ASSUME NEW k \in Changes'  PROVE Used(events[k], k)'
      OBVIOUS
    <2>1. CASE k \in Changes
      BY <1>3, <1>6, <2>1, TurnedKeepsUsed DEF Past
    <2>2. CASE k = Len(events) + 1
      <3>1. /\ events'[k].action = "policy_promoted" /\ events'[k].subject = r
        BY <1>3, <2>2 DEF Turned, Event
      <3>2. a.kind = "promotion"  BY <1>3, <1>8, <1>9 DEF Reviewed
      <3>3. i \in Ids'  BY <1>3 DEF Turned
      <3>4. events'[k].subject.approval = a  BY <1>6, <3>1
      <3> QED  BY <1>2, <1>3, <1>6, <3>1, <3>2, <3>3, <3>4 DEF Used, Past
    <2> QED  BY <1>3, <2>1, <2>2 DEF Turned
  <1> QED  BY <1>16, <1>17, <1>18 DEF OfRecord

LEMMA RollbackOfRecord ==
    ASSUME Inductive, OfRecord, NEW s \in Sessions, Rollback(s)  PROVE OfRecord'
  <1>1. PICK a : a = job[s].approval  OBVIOUS
  <1>2. Turned(None, Event("policy_rolled_back", a, a.subject.from, a.subject.to))
    BY <1>1, RollbackKeeps
  <1>3. /\ job[s].at = "returning" /\ a.subject.to \in policies
        /\ a.subject = Return(a.subject.to, a.subject.proposer, a.subject.trust)
        /\ active' = [policy |-> a.subject.to, approval |-> a,
                      kind |-> "policy_rollback", holder |-> None]
    BY <1>1 DEF Rollback, Returnable, Activate
  <1>4. a \in signed /\ a.kind = "rollback"
    BY <1>1, <1>3 DEF Inductive, Jobs, JobRight
  <1>5. a.subject.cursor = Len(events)  BY <1>3 DEF Return
  <1>6. PICK x : x = active'  OBVIOUS
  <1>7. x.policy = a.subject.to /\ x.approval = a /\ x.kind = "policy_rollback" /\ x.holder = None
    BY <1>3, <1>6
  <1>8. Rests(x)  BY <1>3, <1>4, <1>7 DEF Rests
  <1>9. Rests(x)'  BY <1>2, <1>8, RestsKeeps DEF Turned
  <1>10. active'.policy # None => Rests(active)'  BY <1>6, <1>9 DEF Rests
  <1>11. Holders'
    <2>1. ASSUME NEW k \in Ids'  PROVE Candidate(k)'.status # "active" /\ k # None
      <3>1. k \in Ids /\ k # None
        BY <1>2, NumbersAreSome DEF Turned, Inductive
      <3>2. CASE k = active.holder
        <4>1. Candidate(k)'.status \in {"superseded", "rolled_back"}
          BY <1>2, <3>1, <3>2 DEF Turned
        <4> QED  BY <3>1, <4>1
      <3>3. CASE k # active.holder
        <4>1. Candidate(k)' = Candidate(k)  BY <1>2, <3>1, <3>3 DEF Turned
        <4> QED  BY <3>1, <3>3, <4>1 DEF OfRecord, Holders
      <3> QED  BY <3>2, <3>3
    <2>2. active'.holder = None  BY <1>6, <1>7
    <2> QED  BY <2>1, <2>2 DEF Holders
  <1>12. \A k \in Changes' : Used(events[k], k)'
    <2> SUFFICES ASSUME NEW k \in Changes'  PROVE Used(events[k], k)'
      OBVIOUS
    <2>1. CASE k \in Changes
      <3>1. None \notin Ids  BY NumbersAreSome DEF Inductive
      <3> QED  BY <1>2, <2>1, <3>1, TurnedKeepsUsed
    <2>2. CASE k = Len(events) + 1
      <3>1. events'[k].action = "policy_rolled_back" /\ events'[k].subject = a
        BY <1>2, <2>2 DEF Turned, Event
      <3>2. Len(events) = k - 1  BY <1>2, <2>2 DEF Turned
      <3> QED  BY <1>4, <1>5, <3>1, <3>2 DEF Used
    <2> QED  BY <1>2, <2>1, <2>2 DEF Turned
  <1> QED  BY <1>10, <1>11, <1>12 DEF OfRecord

LEMMA InitOfRecord == Init => OfRecord
  <1> SUFFICES ASSUME Init  PROVE OfRecord
    OBVIOUS
  <1>1. Ids = {} /\ events = <<>> /\ active.holder = None /\ active.policy = None
    BY DEF Init, Ids
  <1>2. Changes = {}  BY <1>1 DEF Changes
  <1> QED  BY <1>1, <1>2 DEF OfRecord, Holders

THEOREM LifecycleOfRecord == Spec => [](Inductive /\ OfRecord)
  <1>1. Inductive /\ OfRecord /\ [Next]_vars => (Inductive /\ OfRecord)'
    BY Steps, QuietOfRecord, PromoteOfRecord, RollbackOfRecord
  <1> QED  BY <1>1, InitInductive, InitOfRecord, PTL DEF Spec

\* The holder the index names is the only active candidate, its policy and its
\* approval are in force, and what authorised the active policy is a signed
\* approval or rollback that the archive still accounts for, down to the passing
\* evaluation: loading the active policy never finds it out of record, whatever
\* commands ran (application/policy_active.rs).
THEOREM RecordKept == Spec => []ActiveIsOfRecord
  <1>1. ASSUME Inductive, OfRecord  PROVE ActiveIsOfRecord
    <2>1. \A i \in Ids : i # None  BY <1>1, NumbersAreSome DEF Inductive
    <2>2. active.holder # None => active.holder \in Ids  BY <1>1 DEF Inductive, Archive
    <2>3. {i \in Ids : Candidate(i).status = "active"} = {active.holder} \ {None}
      BY <1>1, <2>1, <2>2 DEF OfRecord, Holders
    <2> QED  BY <1>1, <2>3 DEF ActiveIsOfRecord, OfRecord, Holders, Rests
  <1> QED  BY <1>1, LifecycleOfRecord, PTL

\* A revision frozen for validation is only ever abandoned, or concluded by the
\* result of its own attempt with the policy that was frozen, whoever else works
\* on the archive (policy_lifecycle.rs, policy_promotion.rs).
THEOREM FrozenStays == Spec => FrozenIsKept
  <1>1. ASSUME Inductive, OfRecord, [Next]_vars, NEW i \in Ids  PROVE Kept(i)
    <2>1. CASE Quiet  BY <1>1, <2>1 DEF Quiet
    <2>2. ASSUME NEW c \in Ids \cup {None}, NEW e, Turned(c, e),
                 c \in Ids => Candidate(c).status = "approved"
          PROVE  Kept(i)
      <3>1. CASE i = c  BY <1>1, <2>2, <3>1 DEF Kept
      <3>2. CASE i # c /\ i = active.holder
        BY <1>1, <3>2 DEF OfRecord, Holders, Kept
      <3>3. CASE i # c /\ i # active.holder
        BY <1>1, <2>2, <3>3 DEF Turned, Kept
      <3> QED  BY <3>1, <3>2, <3>3
    <2>3. ASSUME NEW s \in Sessions, Promote(s)  PROVE Kept(i)
      <3>1. PICK a : a = job[s].approval  OBVIOUS
      <3>2. PICK c : c = a.subject.id  OBVIOUS
      <3> DEFINE r == [Successor(c) EXCEPT !.status = "active"]
                 e == Event("policy_promoted", r, a.subject.parent, a.subject.policy)
      <3>3. Turned(c, e) /\ c \in Ids /\ Candidate(c).status = "approved"
        BY <1>1, <2>3, <3>1, <3>2, PromoteKeeps
      <3>4. PICK f : f = e  OBVIOUS
      <3> HIDE DEF e
      <3> QED  BY <2>2, <3>3, <3>4
    <2>4. ASSUME NEW s \in Sessions, Rollback(s)  PROVE Kept(i)
      <3>1. None \notin Ids  BY <1>1, NumbersAreSome DEF Inductive
      <3> QED  BY <1>1, <2>2, <2>4, <3>1, RollbackKeeps
    <2> QED  BY <1>1, <2>1, <2>3, <2>4, Steps
  <1>2. Inductive /\ OfRecord /\ [Next]_vars =>
          [\A i \in Ids : LET old == Candidate(i)
                              new == Candidate(i)'
                          IN old.status = "validating" /\ new # old =>
             \/ new.status = "abandoned"
             \/ /\ new.evaluation \in evaluations' /\ Binds(old.evaluation, new.evaluation)
                /\ new.policy = old.policy /\ new.patch = old.patch]_vars
    BY <1>1 DEF Kept, Follows
  <1> QED  BY <1>2, LifecycleOfRecord, PTL DEF FrozenIsKept, Spec

-----------------------------------------------------------------------------
(* The lifecycle implements ActivePolicy.                                    *)

\* A step that makes no change is one in which people sign, or nothing happens.
LEMMA QuietSigns == ASSUME Quiet  PROVE Authority!Sign
  <1>1. signed \subseteq signed' /\ UNCHANGED active.policy  BY DEF Quiet, Grows
  <1>2. Log' = Log  BY DEF Quiet, Log
  <1> QED  BY <1>1, <1>2 DEF Authority!Sign

\* The change a promotion or a rollback logs.
LEMMA TurnedLogs ==
    ASSUME NEW i, NEW e, Turned(i, e)
    PROVE  Authority!Log([from |-> e.from, to |-> e.to,
                          by |-> IF e.action = "policy_promoted" THEN e.subject.approval
                                 ELSE e.subject])
  <1> DEFINE n == Len(events) + 1
  <1>1. /\ n \in Nat /\ \A k \in Changes : k < n /\ k # n
        /\ Changes' = Changes \cup {n} /\ events'[n] = e
        /\ \A k \in Changes : events'[k] = events[k]
    BY DEF Turned
  <1> HIDE DEF n
  <1>2. DOMAIN Log = Changes /\ DOMAIN Log' = Changes \cup {n}  BY <1>1 DEF Log
  <1>3. \A k \in Changes : Log'[k] = Log[k]  BY <1>1 DEF Log
  <1>4. Log'[n] = [from |-> e.from, to |-> e.to,
                   by |-> IF e.action = "policy_promoted" THEN e.subject.approval
                          ELSE e.subject]
    BY <1>1 DEF Log
  <1>5. Log' = [k \in DOMAIN Log' |-> Log'[k]]  BY DEF Log
  <1> QED  BY <1>1, <1>2, <1>3, <1>4, <1>5 DEF Authority!Log

LEMMA PromoteChanges ==
    ASSUME Inductive, OfRecord, NEW s \in Sessions, Promote(s)  PROVE Authority!Change
  <1>1. PICK a : a = job[s].approval  OBVIOUS
  <1>2. PICK i : i = a.subject.id  OBVIOUS
  <1>3. PICK r : r = [Successor(i) EXCEPT !.status = "active"]  OBVIOUS
  <1>4. PICK e : e = Event("policy_promoted", r, a.subject.parent, a.subject.policy)  OBVIOUS
  <1>5. /\ Turned(i, e) /\ Held(a) /\ i \in Ids
        /\ Candidate(i).status = "approved" /\ Candidate(i).approval = a
    BY <1>1, <1>2, <1>3, <1>4, PromoteKeeps
  <1>6. a \in signed  BY <1>5 DEF Held
  <1>7. a.kind = "promotion"
    BY <1>5 DEF Inductive, Archive, Recorded, Reviewed, Candidate
  <1>8. /\ a.decision = "approved" /\ active.policy \in {None, a.subject.parent}
        /\ active'.policy = a.subject.policy
    BY <1>1, <1>2 DEF Promote, Activate
  <1>9. e.action = "policy_promoted" /\ e.from = a.subject.parent /\ e.to = a.subject.policy
    BY <1>4 DEF Event
  <1>10. e.subject.approval = a
    <2>1. e.subject = r  BY <1>4 DEF Event
    <2>2. r.approval = a
      BY <1>3, <1>5, SuccessorFits DEF Inductive, RevisionFields
    <2> QED  BY <2>1, <2>2
  <1>11. \A k \in DOMAIN Log : Log[k].by # a
    <2> SUFFICES ASSUME NEW k \in Changes  PROVE Log[k].by # a
      BY DEF Log
    <2>1. Used(events[k], k)  BY DEF OfRecord
    <2>2. CASE events[k].action = "policy_promoted"
      <3>1. events[k].subject.approval # a  BY <1>2, <1>5, <2>1, <2>2 DEF Used
      <3> QED  BY <2>2, <3>1 DEF Log
    <2>3. CASE events[k].action # "policy_promoted"
      <3>1. events[k].subject # a  BY <1>7, <2>1, <2>3 DEF Used
      <3> QED  BY <2>3, <3>1 DEF Log
    <2> QED  BY <2>2, <2>3
  <1>12. Authority!Log([from |-> a.subject.parent, to |-> a.subject.policy, by |-> a])
    BY <1>5, <1>9, <1>10, TurnedLogs
  <1>13. UNCHANGED signed  BY <1>5 DEF Turned
  <1> QED
    BY <1>6, <1>7, <1>8, <1>11, <1>12, <1>13 DEF Authority!Change, Authority!Source, Authority!Target

LEMMA RollbackChanges ==
    ASSUME Inductive, OfRecord, NEW s \in Sessions, Rollback(s)  PROVE Authority!Change
  <1>1. PICK a : a = job[s].approval  OBVIOUS
  <1>2. PICK e : e = Event("policy_rolled_back", a, a.subject.from, a.subject.to)  OBVIOUS
  <1>3. Turned(None, e)  BY <1>1, <1>2, RollbackKeeps
  <1>4. /\ job[s].at = "returning" /\ Returnable(a.subject.to)
        /\ a.subject = Return(a.subject.to, a.subject.proposer, a.subject.trust)
        /\ active'.policy = a.subject.to
    BY <1>1 DEF Rollback, Activate
  <1>5. a \in signed /\ a.kind = "rollback" /\ a.decision = "approved"
    BY <1>1, <1>4 DEF Inductive, Jobs, JobRight
  <1>6. a.subject.from = active.policy /\ a.subject.cursor = Len(events)
    BY <1>4 DEF Return
  <1>7. /\ e.action = "policy_rolled_back" /\ e.subject = a
        /\ e.from = a.subject.from /\ e.to = a.subject.to
    BY <1>2 DEF Event
  <1>8. \A k \in DOMAIN Log : Log[k].by # a
    <2> SUFFICES ASSUME NEW k \in Changes  PROVE Log[k].by # a
      BY DEF Log
    <2>1. Used(events[k], k)  BY DEF OfRecord
    <2>2. k \in 1..Len(events) /\ Len(events) \in Nat  BY <1>3 DEF Turned
    <2>3. CASE events[k].action = "policy_promoted"
      <3>1. events[k].subject.approval # a  BY <1>5, <2>1, <2>3 DEF Used
      <3> QED  BY <2>3, <3>1 DEF Log
    <2>4. CASE events[k].action # "policy_promoted"
      <3>1. events[k].subject.subject.cursor = k - 1  BY <2>1, <2>4 DEF Used
      <3>2. events[k].subject # a  BY <1>6, <2>2, <3>1
      <3> QED  BY <2>4, <3>2 DEF Log
    <2> QED  BY <2>3, <2>4
  <1>9. a.subject.to # active.policy /\ Authority!SelectedBefore(a.subject.to)
    <2>1. a.subject.to # active.policy  BY <1>4 DEF Returnable
    <2>2. PICK k \in Changes : a.subject.to \in {events[k].from, events[k].to}
      BY <1>4 DEF Returnable, SelectedBefore
    <2>3. /\ k \in DOMAIN Log /\ Log[k].from = events[k].from /\ Log[k].to = events[k].to
      BY DEF Log
    <2> QED  BY <2>1, <2>2, <2>3 DEF Authority!SelectedBefore
  <1>10. Authority!Log([from |-> a.subject.from, to |-> a.subject.to, by |-> a])
    BY <1>3, <1>7, TurnedLogs
  <1>11. UNCHANGED signed  BY <1>3 DEF Turned
  <1> QED
    BY <1>4, <1>5, <1>6, <1>8, <1>9, <1>10, <1>11
    DEF Authority!Change, Authority!Source, Authority!Target

LEMMA StepsAreAuthorized ==
    ASSUME Inductive, OfRecord, [Next]_vars  PROVE Authority!Next
  BY Steps, QuietSigns, PromoteChanges, RollbackChanges DEF Authority!Next

\* The lifecycle implements ActivePolicy: the active policy changes only by an
\* authorization somebody signed, from the policy it was signed against, once,
\* and the history tells every change in order, whatever other sessions did
\* between its checks and its transaction (application/policy_promotion.rs,
\* policy_rollback.rs).
THEOREM ChangesAreAuthorized == Spec => Authorized
  <1>1. Init => Authority!Init
    <2> SUFFICES ASSUME Init  PROVE Authority!Init
      OBVIOUS
    <2>1. events = <<>> /\ signed = {} /\ active.policy = None  BY DEF Init
    <2>2. DOMAIN Log = {}  BY <2>1 DEF Log, Changes
    <2> QED  BY <2>1, <2>2 DEF Authority!Init
  <1>2. Inductive /\ OfRecord /\ [Next]_vars => [Authority!Next]_<<signed, active.policy, Log>>
    BY StepsAreAuthorized
  <1> QED  BY <1>1, <1>2, LifecycleOfRecord, PTL DEF Spec, Authorized, Authority!Spec

\* The same as a statement about every step of the history.
THEOREM StepsAuthorized == Spec => ChangesAuthorized
  <1>1. Inductive /\ OfRecord /\ [Next]_vars => [Authority!Next]_<<signed, active.policy, Log>>
    BY StepsAreAuthorized
  <1> QED  BY <1>1, LifecycleOfRecord, PTL DEF Spec, ChangesAuthorized
=============================================================================

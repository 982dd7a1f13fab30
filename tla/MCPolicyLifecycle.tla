------------------------- MODULE MCPolicyLifecycle -------------------------
\* PolicyLifecycle on two policies, one author, one reviewer whose key only the
\* first trust version holds, and sessions that are alike.
EXTENDS PolicyLifecycle, TLC

CONSTANTS p0, p1, author, reviewer, t1, t2, s1, s2

MCBaselines == (t1 :> {p0, p1}) @@ (t2 :> {p0})

MCApprovers == (t1 :> {author, reviewer}) @@ (t2 :> {author})

(* An archive in which candidate 1, made from p0 and edited to p1, has been *)
(* validated, approved and promoted, with nothing else running: where a     *)
(* second promotion and rollbacks start from.                               *)

Created == [parent |-> p0, policy |-> p0, patch |-> <<>>, status |-> "candidate",
            author |-> author, previous |-> 0, evaluation |-> None, approval |-> None]

Edited == [Created EXCEPT !.policy = p1, !.patch = <<p1>>, !.previous = 1]

Tried == [kind |-> "attempt", id |-> 1, input |-> 2, policy |-> p1, parent |-> p0,
          trust |-> t1, actor |-> author]

Passed == [kind |-> "evaluation", id |-> 1, input |-> 2, policy |-> p1, parent |-> p0,
           trust |-> t1, actor |-> author, author |-> author, conclusion |-> "pass"]

Frozen == [Edited EXCEPT !.status = "validating", !.evaluation = Tried, !.previous = 2]

Validated == [Edited EXCEPT !.evaluation = Passed, !.previous = 3]

Approval == [kind |-> "promotion", approver |-> reviewer, decision |-> "approved",
             subject |-> [id |-> 1, revision |-> 4, policy |-> p1, parent |-> p0,
                          evaluation |-> Passed, trust |-> t1, author |-> author]]

Approved == [Validated EXCEPT !.status = "approved", !.approval = Approval, !.previous = 4]

Promoted == [Approved EXCEPT !.status = "active", !.previous = 5]

PromotedInit ==
  /\ revisions = <<Created, Edited, Frozen, Validated, Approved, Promoted>>
  /\ policies = {p0, p1} /\ candidates = [i \in {1} |-> 6] /\ evaluations = {Passed}
  /\ active = [policy |-> p1, approval |-> Approval, kind |-> "policy_approval", holder |-> 1]
  /\ events = <<Event("candidate_created", Created, None, None),
                Event("candidate_edited", Edited, None, None),
                Event("validation_started", Tried, None, None),
                Event("validation_completed", Passed, None, None),
                Event("trusted_policy_review", Approval, None, None),
                Event("policy_promoted", Promoted, p0, p1)>>
  /\ trust \in Trusts /\ signed = {Approval} /\ job = [s \in Sessions |-> Idle]

PromotedSpec == PromotedInit /\ [][Next]_vars

\* The state above is one the lifecycle reaches.
NotPromoted == ~PromotedInit

SessionSymmetry == Permutations({s1, s2})
=============================================================================

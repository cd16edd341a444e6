---------------------------- MODULE ReleasePlan ----------------------------
(***************************************************************************)
(* Release plans.  An agent drafts a plan, an administrator approves       *)
(* exactly what it shows, and one tool call may use the approval, once.    *)
(* The release it starts is dispatched by whoever comes to it, on the      *)
(* route that was approved or not at all.                                  *)
(***************************************************************************)
EXTENDS Slots

VARIABLE plan   \* table release_plans: status, the approved route, expiry

PlanStatus == {"pending", "approved", "executing", "executed", "execution_failed"}
Used == {"executing", "executed", "execution_failed"}
PlanRow == [status : PlanStatus \cup {"absent"}, route : Route \cup {None}, expired : BOOLEAN]

PlanInit ==
  plan \in [Plan ->
    [status : {"absent", "execution_failed"}, route : {None}, expired : {FALSE}]]

Executing(s) == sess[s].by \in Plan

\* create_release_plan: the snapshot of versions and routes, and its digest.
CreatePlan(p) ==
  /\ plan[p].status = "absent"
  /\ plan' = [plan EXCEPT ![p].status = "pending", ![p].route = route[Of[p]]]
  /\ UNCHANGED slotVars

Expire(p) ==
  /\ plan[p].status \in {"pending", "approved"} /\ ~plan[p].expired
  /\ plan' = [plan EXCEPT ![p].expired = TRUE]
  /\ UNCHANGED slotVars

\* validate_current: in time, and the snapshot taken anew is the same.
Valid(p) == ~plan[p].expired /\ route[Of[p]] = plan[p].route

\* approve: validation, then UPDATE ... WHERE status = 'pending' and in time.
BeginApprove(s, p) ==
  /\ sess[s].pc = "idle"
  /\ plan[p].status # "absent" /\ Valid(p)
  /\ Opens(s, "approve", p)
  /\ UNCHANGED <<plan, route, deployment, posts, copy, asked, edits, visits, moved>>

CommitApprove(s) ==
  LET p == sess[s].by IN
  /\ sess[s].pc = "approve"
  /\ plan' = IF plan[p].status = "pending" /\ ~plan[p].expired
             THEN [plan EXCEPT ![p].status = "approved"] ELSE plan
  /\ Ends(s)
  /\ UNCHANGED <<route, deployment, posts, asked, edits, visits, moved>>

\* promote_to_production: status and validation, on the row as it is read.
BeginPromote(s, p) ==
  /\ sess[s].pc = "idle"
  /\ plan[p].status = "approved" /\ Valid(p)
  /\ Opens(s, "promote", p)
  /\ UNCHANGED <<plan, route, deployment, posts, copy, asked, edits, visits, moved>>

\* The one-use claim: UPDATE ... WHERE status = 'approved' and in time,
\* committed before anything is sent.
ClaimPlan(s) ==
  LET p == sess[s].by IN
  /\ sess[s].pc = "promote"
  /\ plan[p].status = "approved" /\ ~plan[p].expired
  /\ plan' = [plan EXCEPT ![p].status = "executing"]
  /\ Goes(s, "ready")
  /\ UNCHANGED <<route, deployment, posts, copy, asked, edits, visits, moved>>

\* No row was updated: the approval has been consumed, or is out of date.
LosePlan(s) ==
  LET p == sess[s].by IN
  /\ sess[s].pc = "promote"
  /\ plan[p].status # "approved" \/ plan[p].expired
  /\ Ends(s)
  /\ UNCHANGED <<plan, route, deployment, posts, asked, edits, visits, moved>>

\* execute returned, or raised; either is written unconditionally.
EndPlan(s) ==
  /\ Executing(s) /\ sess[s].pc \in {"after", "raised"}
  /\ plan' = [plan EXCEPT ![sess[s].by].status =
                IF sess[s].pc = "after" THEN "executed" ELSE "execution_failed"]
  /\ Ends(s)
  /\ UNCHANGED <<route, deployment, posts, asked, edits, visits, moved>>

\* Mutant: the guard looks at the approval and not at the route.
PlanAllowsUsed(i, seen) == i \in Plan => plan[i].status \in Used

\* verify_planned_deployment: a release that a plan started is dispatched
\* only on the route that was approved, whoever dispatches it.
PlanAllows(i, seen) ==
  i \in Plan => plan[i].status \in Used /\ seen = plan[i].route

PlanStep(s) == CommitApprove(s) \/ ClaimPlan(s) \/ LosePlan(s) \/ EndPlan(s)
PlanNext ==
  \/ \E p \in Plan : CreatePlan(p) \/ Expire(p)
  \/ \E s \in Request, p \in Plan : BeginApprove(s, p)
  \/ \E s \in Agent, p \in Plan : BeginPromote(s, p)
  \/ \E s \in Session : PlanStep(s)

----------------------------------------------------------------------------
PlanTypeOK == plan \in [Plan -> PlanRow]

\* promote_to_production, verify_planned_deployment: whatever is promoted for
\* a plan was approved and claimed first, and goes where the plan said, however
\* late and by whomever it is dispatched.
PlannedAsApproved ==
  /\ \A d \in DOMAIN deployment : deployment[d].by \in Plan =>
       plan[deployment[d].by].status \in Used
  /\ \A n \in DOMAIN posts :
       LET i == deployment[posts[n].dep].by IN i \in Plan => posts[n].route = plan[i].route
=============================================================================

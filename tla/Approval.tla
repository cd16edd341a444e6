------------------------------ MODULE Approval ------------------------------
(***************************************************************************)
(* The v1 approval flow: the row of a release, the BPMN workflow instance  *)
(* kept beside it, and the requests that move both in one transaction.  A  *)
(* release from before the workflows has no instance: the first request    *)
(* that needs one builds it from the status it has read.                   *)
(***************************************************************************)
EXTENDS Naturals, Sequences

CONSTANTS
  Release,   \* releases of the v1 model
  Clerk      \* requests served at the same time

VARIABLES
  release,   \* table releases: the status
  flow,      \* table release_workflows: the task the workflow waits at, or how it ended
  clerk,     \* what each request is doing
  answers    \* history: the transitions that were answered with success

approvalVars == <<release, flow, clerk, answers>>

Transition == {"approve", "reject", "start", "succeed", "fail"}
ReleaseStatus == {"PENDING", "APPROVED", "REJECTED", "DEPLOYING", "SUCCESS", "FAILED"}

\* What the entity requires, and what it then says.
From(t) == CASE t \in {"approve", "reject"} -> "PENDING"
             [] t = "start" -> "APPROVED"
             [] t \in {"succeed", "fail"} -> "DEPLOYING"
Into(t) == CASE t = "approve" -> "APPROVED" [] t = "reject" -> "REJECTED"
             [] t = "start" -> "DEPLOYING"
             [] t = "succeed" -> "SUCCESS" [] t = "fail" -> "FAILED"

\* release_approval.bpmn: the task that a transition completes, and where the
\* engine comes to rest after it.
Task(t) == CASE t \in {"approve", "reject"} -> "approval_gate"
             [] t = "start" -> "start_deployment"
             [] t \in {"succeed", "fail"} -> "execute_deployment"
Rest(t) == CASE t = "approve" -> "start_deployment" [] t = "reject" -> "rejected"
             [] t = "start" -> "execute_deployment"
             [] t = "succeed" -> "success" [] t = "fail" -> "failed"

\* WorkflowStepError unless the workflow waits at the task.
CompleteStep(at, t) == IF at = Task(t) THEN Rest(t) ELSE "error"

\* Mutant: the instance of a release in deployment is built a step short.
RebuiltShort(status) ==
  IF status \in {"APPROVED", "DEPLOYING"} THEN CompleteStep("approval_gate", "approve")
  ELSE "approval_gate"
\* The steps a release of this status has behind it, completed one by one.
Rebuilt(status) ==
  LET gate == IF status = "PENDING" THEN "approval_gate"
              ELSE CompleteStep("approval_gate", IF status = "REJECTED" THEN "reject" ELSE "approve")
      started == IF status \in {"DEPLOYING", "SUCCESS", "FAILED"}
                 THEN CompleteStep(gate, "start") ELSE gate IN
  IF status \in {"SUCCESS", "FAILED"}
  THEN CompleteStep(started, IF status = "SUCCESS" THEN "succeed" ELSE "fail") ELSE started

Free == [pc |-> "idle", release |-> {}, ask |-> "look", seen |-> "ABSENT",
         flow |-> "none", built |-> FALSE]

ApprovalInit ==
  /\ release \in [Release -> ReleaseStatus \cup {"ABSENT"}]
  /\ flow = [r \in Release |-> "none"]
  /\ clerk = [s \in Clerk |-> Free]
  /\ answers = [r \in Release |-> <<>>]

----------------------------------------------------------------------------
\* POST /releases: the row and its instance in one transaction.
CreateRelease(r) ==
  /\ release[r] = "ABSENT"
  /\ release' = [release EXCEPT ![r] = "PENDING"]
  /\ flow' = [flow EXCEPT ![r] = "approval_gate"]
  /\ UNCHANGED <<clerk, answers>>

\* A transition, or GET /releases/{id}/workflow ("look"), reads the release.
ReadRelease(s, r, ask) ==
  /\ clerk[s].pc = "idle" /\ release[r] # "ABSENT"
  /\ clerk' = [clerk EXCEPT ![s] =
       [Free EXCEPT !.pc = "read", !.release = {r}, !.ask = ask, !.seen = release[r]]]
  /\ UNCHANGED <<release, flow, answers>>

\* ensure_for_transition, before the entity is asked.  The request ends if the
\* entity refuses, or if it only looks and nothing had to be built.
EnsureFlow(s, r) ==
  LET built == flow[r] = "none"
      instance == IF built THEN Rebuilt(clerk[s].seen) ELSE flow[r]
      goesOn == IF clerk[s].ask = "look" THEN built
                ELSE clerk[s].seen = From(clerk[s].ask) IN
  /\ clerk[s].pc = "read" /\ r \in clerk[s].release
  /\ clerk' = [clerk EXCEPT ![s] =
       IF goesOn THEN [@ EXCEPT !.pc = "ready", !.flow = instance, !.built = built] ELSE Free]
  /\ UNCHANGED <<release, flow, answers>>

\* get_state commits the instance it has built; one that somebody else has
\* inserted meanwhile makes the primary key refuse it.
CommitLook(s, r) ==
  /\ clerk[s].pc = "ready" /\ r \in clerk[s].release /\ clerk[s].ask = "look"
  /\ flow' = IF flow[r] = "none" THEN [flow EXCEPT ![r] = clerk[s].flow] ELSE flow
  /\ clerk' = [clerk EXCEPT ![s] = Free]
  /\ UNCHANGED <<release, answers>>

Insertable(s, r) == clerk[s].built => flow[r] = "none"
Waiting(s) == CompleteStep(clerk[s].flow, clerk[s].ask) # "error"
\* Mutant: the row is written whatever it says.
WrittenAnyway(s, r) == Waiting(s) /\ Insertable(s, r)
\* UPDATE ... WHERE status = expected hits the row, the workflow waits at the
\* task, and a built instance can be inserted.
Accepted(s, r) ==
  /\ release[r] = From(clerk[s].ask)
  /\ Waiting(s) /\ Insertable(s, r)

\* The row, the workflow and the commit; or a rollback, which leaves nothing.
Answer(s, r) ==
  LET t == clerk[s].ask IN
  /\ clerk[s].pc = "ready" /\ r \in clerk[s].release /\ t # "look"
  /\ IF Accepted(s, r)
     THEN /\ release' = [release EXCEPT ![r] = Into(t)]
          /\ flow' = [flow EXCEPT ![r] = CompleteStep(clerk[s].flow, t)]
          /\ answers' = [answers EXCEPT ![r] = Append(@, t)]
     ELSE UNCHANGED <<release, flow, answers>>
  /\ clerk' = [clerk EXCEPT ![s] = Free]

\* The process ends, or the request fails, before the commit.
LoseRequest(s) ==
  /\ clerk[s].pc # "idle"
  /\ clerk' = [clerk EXCEPT ![s] = Free]
  /\ UNCHANGED <<release, flow, answers>>

ApprovalNext ==
  \/ \E r \in Release : CreateRelease(r)
  \/ \E s \in Clerk, r \in Release :
       \/ \E ask \in Transition \cup {"look"} : ReadRelease(s, r, ask)
       \/ EnsureFlow(s, r) \/ CommitLook(s, r) \/ Answer(s, r)
  \/ \E s \in Clerk : LoseRequest(s)

ApprovalSpec == ApprovalInit /\ [][ApprovalNext]_approvalVars

----------------------------------------------------------------------------
(* Properties                                                              *)

\* The tables and the requests hold what they can hold; a request at the
\* commit has an instance in hand that no missed step has broken.
ApprovalTypeOK ==
  /\ release \in [Release -> ReleaseStatus \cup {"ABSENT"}]
  /\ flow \in [Release -> {"none", "approval_gate", "start_deployment", "execute_deployment",
                           "rejected", "success", "failed"}]
  /\ \A s \in Clerk :
       /\ clerk[s].pc \in {"idle", "read", "ready"}
       /\ clerk[s].pc = "idle" => clerk[s] = Free
       /\ clerk[s].pc = "ready" /\ clerk[s].ask # "look"
            => clerk[s].seen = From(clerk[s].ask)
       /\ clerk[s].pc = "ready" => clerk[s].flow \notin {"none", "error"}

\* The workflow of a release always stands where the row does: built late, built
\* by two requests at once, or advanced while somebody looks (the row and the
\* instance are two tables, written by code that never compares them).
StandsAt == [PENDING |-> "approval_gate", APPROVED |-> "start_deployment",
             REJECTED |-> "rejected", DEPLOYING |-> "execute_deployment",
             SUCCESS |-> "success", FAILED |-> "failed"]
FlowAgrees ==
  \A r \in Release :
    flow[r] # "none" => release[r] # "ABSENT" /\ flow[r] = StandsAt[release[r]]

\* Of requests that race, one is answered: a release is approved or rejected,
\* once; it starts and finishes once, and in this order.
AnsweredOnce ==
  \A r \in Release : \A i, j \in 1..Len(answers[r]) :
    i < j => /\ From(answers[r][i]) # From(answers[r][j])
             /\ j = i + 1 => Into(answers[r][i]) = From(answers[r][j])
=============================================================================

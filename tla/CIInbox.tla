------------------------------ MODULE CIInbox ------------------------------
(***************************************************************************)
(* The CI inbox.  A pipeline asks for the deployment of its own build; the *)
(* worker takes the job under a lease, waits for the source build, records *)
(* the deployment together with the link to it, or adopts the one somebody *)
(* else recorded, and follows it to its end.                               *)
(***************************************************************************)
EXTENDS Slots

VARIABLE job   \* table ci_deployment_requests, and the service token

JobStatus == {"WAITING_SOURCE", "DEPLOYING", "SUCCESS", "FAILED"}
JobTerminal == {"SUCCESS", "FAILED"}
JobRow == [status : JobStatus \cup {"ABSENT"}, route : Route \cup {None}, link : Nat,
           leased : BOOLEAN, due : BOOLEAN, token : BOOLEAN]

JobInit ==
  job \in [Job -> [status : {"ABSENT"}, route : {None}, link : {0},
                   leased : {FALSE}, due : {FALSE}, token : BOOLEAN]]

Advancing(s) == sess[s].by \in Job

\* What ends a pass of the runner: the job's new row, without the lease.
\* (A crash between the two commits is one before the first, or after.)
Leaves(s, row) ==
  /\ job' = [job EXCEPT ![sess[s].by] = [row EXCEPT !.leased = FALSE]]
  /\ Ends(s)
  /\ UNCHANGED <<route, deployment, posts, asked, edits, visits, moved>>
JobOf(s) == job[sess[s].by]
FailJob(s) == Leaves(s, [JobOf(s) EXCEPT !.status = "FAILED"])

\* accept: with an active token, a job is recorded once per component, build
\* and target; asked again, the inbox answers with the job it has.
Accept(j) ==
  /\ job[j].status = "ABSENT" /\ job[j].token
  /\ job' = [job EXCEPT ![j].status = "WAITING_SOURCE", ![j].route = route[Of[j]]]
  /\ UNCHANGED slotVars

\* ci_cli revoke-token, or the token expires; deadline_at passes.
RevokeToken(j) ==
  /\ job[j].token
  /\ job' = [job EXCEPT ![j].token = FALSE]
  /\ UNCHANGED slotVars
DeadlinePasses(j) ==
  /\ job[j].status # "ABSENT" /\ ~job[j].due
  /\ job' = [job EXCEPT ![j].due = TRUE]
  /\ UNCHANGED slotVars

\* lease_until is five minutes away: longer than a pass that is alive.
LeaseLapses(j) ==
  /\ job[j].leased /\ sess[Worker].by # j
  /\ job' = [job EXCEPT ![j].leased = FALSE]
  /\ UNCHANGED slotVars

\* Whose component a pass reads: the job's own, until it follows a deployment.
Followed(j) == IF job[j].link = 0 THEN j ELSE deployment[job[j].link].by

\* _track refreshes a deployment that is not over when it reads it.
Follow(d) == IF deployment[d].status \in {"SUCCESS", "FAILED"} THEN "after" ELSE "recorded"

\* run_one: the conditional claim of the lease, and the rows _advance reads.
Lease(j) ==
  /\ sess[Worker].pc = "idle"
  /\ job[j].status \notin JobTerminal \cup {"ABSENT"} /\ ~job[j].leased
  /\ job' = [job EXCEPT ![j].leased = TRUE]
  /\ sess' = [sess EXCEPT ![Worker] =
       [pc |-> IF job[j].link = 0 THEN "advance" ELSE Follow(job[j].link),
        by |-> j, dep |-> job[j].link, route |-> route[Of[Followed(j)]]]]
  /\ Reads(Worker, IF job[j].link = 0 THEN New ELSE Row(job[j].link))
  /\ UNCHANGED <<route, deployment, posts, asked, edits, visits, moved>>

\* Mutant: nothing looks at the deadline.
AuthorisedLate(j, seen) == job[j].token /\ seen = job[j].route

\* _advance, before Drone is asked: deadline, token, configuration.
Authorised(j, seen) == ~job[j].due /\ job[j].token /\ seen = job[j].route

RejectJob(s) ==
  /\ sess[s].pc = "advance"
  /\ ~Authorised(sess[s].by, sess[s].route)
  /\ FailJob(s)

AskSource(s) ==
  /\ sess[s].pc = "advance"
  /\ Authorised(sess[s].by, sess[s].route)
  /\ Goes(s, "source")
  /\ UNCHANGED <<job, route, deployment, posts, copy, asked, edits, visits, moved>>

\* The source build is not the one that was announced, failed, or lacks a
\* required stage; or the deadline passed while Drone was asked.
RejectSource(s) == sess[s].pc = "source" /\ FailJob(s)

\* It still runs, or Drone is unavailable.
WaitForSource(s) == sess[s].pc = "source" /\ Leaves(s, JobOf(s))

SourcePassed(s) ==
  /\ sess[s].pc = "source"
  /\ ~JobOf(s).due
  /\ Goes(s, "ready")
  /\ UNCHANGED <<job, route, deployment, posts, copy, asked, edits, visits, moved>>

\* The deployment, the link and DEPLOYING, in one commit.
RecordJob(s) ==
  /\ Advancing(s)
  /\ Record(s)
  /\ job' = [job EXCEPT ![sess[s].by].status = "DEPLOYING",
                        ![sess[s].by].link = Len(deployment) + 1]

\* DuplicatePromotionError: the deployment that holds the slot is adopted, and
\* followed through the component it was created against, ...
Adopt(s, d) ==
  /\ sess[s].pc = "adopt"
  /\ deployment[d].route = JobOf(s).route /\ deployment[d].status \in Active
  /\ job' = [job EXCEPT ![sess[s].by].status = "DEPLOYING", ![sess[s].by].link = d]
  /\ sess' = [sess EXCEPT ![s].pc = Follow(d), ![s].dep = d,
                          ![s].route = route[Of[deployment[d].by]]]
  /\ Reads(s, Row(d))
  /\ UNCHANGED <<route, deployment, posts, asked, edits, visits, moved>>

\* ... unless it is of another commit or branch; or the slot is free again.
RejectAdopted(s) == sess[s].pc = "adopt" /\ Taken(JobOf(s).route) /\ FailJob(s)
NoneToAdopt(s) == sess[s].pc = "adopt" /\ ~Taken(JobOf(s).route) /\ Leaves(s, JobOf(s))

\* Mutant: a success on the copy is taken for Drone's.
VerdictUnverified(s) ==
  CASE copy[s].seen.status = "SUCCESS" -> {"SUCCESS", "DEPLOYING"}
    [] copy[s].seen.status = "FAILED"  -> {"FAILED"}
    [] OTHER                           -> {"DEPLOYING"}

\* The build on the copy is, in Drone, a promotion of the job's own build with
\* all the stages its policy requires.
Proven(s) ==
  LET n == copy[s].seen.build IN
  /\ n \in DOMAIN posts /\ posts[n].build = "proven"
  /\ posts[n].route = sess[s].route /\ posts[n].route = JobOf(s).route

\* _track: the verdict on the job, given the session's copy of its deployment.
\* A success is verified once more in Drone, which may not answer.
JobVerdict(s) ==
  CASE copy[s].seen.status = "SUCCESS" ->
         {IF Proven(s) THEN "SUCCESS" ELSE "FAILED"} \cup {"DEPLOYING", "FAILED"}
    [] copy[s].seen.status = "FAILED"  -> {"FAILED"}
    [] OTHER                           -> {"DEPLOYING"}

Track(s) ==
  /\ Advancing(s) /\ sess[s].pc = "after"
  /\ \E v \in JobVerdict(s) : Leaves(s, [JobOf(s) EXCEPT !.status = v])

\* run_one, except: rolled back, to be tried again (CI_WORKER_RETRY).
RetryJob(s) == Advancing(s) /\ sess[s].pc = "raised" /\ Leaves(s, JobOf(s))

\* ci_dispatch_allowed: the one inbox row it looks up, in no given order, among
\* those that follow the deployment.
Followers(d) ==
  IF \E j \in Job : job[j].link = d THEN {j \in Job : job[j].link = d} ELSE {None}

\* A deployment that the row's job asked for itself is dispatched only while its
\* token is active, before its deadline and on the route it was accepted for; the
\* component is read again for it.
Bound(i, d) == i \in Job /\ deployment[d].by = i
CIAllows(i, d, seen) == Bound(i, d) => Authorised(i, seen)
Seen(s, i) == IF Bound(i, sess[s].dep) THEN route[Of[i]] ELSE sess[s].route

JobStep(s) ==
  \/ RejectJob(s) \/ AskSource(s) \/ RejectSource(s) \/ WaitForSource(s) \/ SourcePassed(s)
  \/ RecordJob(s) \/ RejectAdopted(s) \/ NoneToAdopt(s) \/ Track(s) \/ RetryJob(s)
  \/ Advancing(s) /\ Duplicate(s, "adopt") /\ UNCHANGED job
  \/ \E d \in DOMAIN deployment : Adopt(s, d)
JobNext ==
  \/ \E j \in Job : Accept(j) \/ RevokeToken(j) \/ DeadlinePasses(j) \/ LeaseLapses(j) \/ Lease(j)
  \/ \E s \in Session : JobStep(s)

----------------------------------------------------------------------------
JobTypeOK == job \in [Job -> JobRow]

\* _advance, _track: a job says SUCCESS only once Drone has run a promotion of
\* its build, with all the stages it requires, in the repository the job was
\* accepted for, whatever rows and copies said meanwhile; it follows a deployment
\* of that slot; and a deployment recorded for a job is the one the job follows.
JobsTrue ==
  /\ \A j \in Job : job[j].status = "SUCCESS" =>
       /\ job[j].link \in DOMAIN deployment
       /\ deployment[job[j].link].route = job[j].route
       /\ \E n \in DOMAIN posts : posts[n].route = job[j].route /\ posts[n].build = "proven"
  /\ \A d \in DOMAIN deployment : deployment[d].by \in Job =>
       job[deployment[d].by].link = d

\* CIDeploymentRunner: a job that was accepted comes to an end, through lost
\* leases, restarts and an unavailable Drone.
JobsEnd ==
  \A j \in Job : job[j].status \in {"WAITING_SOURCE", "DEPLOYING"} ~> job[j].status \in JobTerminal
=============================================================================

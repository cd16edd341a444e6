------------------------------ MODULE Schedule ------------------------------
(***************************************************************************)
(* Persisted schedules.  The worker and POST /schedules/run-due run what   *)
(* is due: they claim a schedule, record and dispatch its release, and     *)
(* link it in a second commit.  A runner may die in between, and a sweep   *)
(* gives its claim up.                                                     *)
(***************************************************************************)
EXTENDS Slots

VARIABLE schedule   \* table deployment_schedules: status, link, age of the claim

ScheduleStatus == {"PENDING", "RUNNING", "SUCCEEDED", "FAILED", "CANCELLED"}
ScheduleRow == [status : ScheduleStatus \cup {"ABSENT"}, link : Nat, late : BOOLEAN]

ScheduleInit ==
  schedule \in [Schedule ->
    [status : {"ABSENT", "CANCELLED"}, link : {0}, late : {FALSE}]]

Running(s) == sess[s].by \in Schedule

CreateSchedule(i) ==
  /\ schedule[i].status = "ABSENT"
  /\ schedule' = [schedule EXCEPT ![i].status = "PENDING"]
  /\ UNCHANGED slotVars

\* cancel: the status is read and tested; ...
BeginCancel(s, i) ==
  /\ sess[s].pc = "idle"
  /\ schedule[i].status = "PENDING"
  /\ Opens(s, "cancel", i)
  /\ UNCHANGED <<schedule, route, deployment, posts, copy, asked, edits, visits, moved>>

\* ... and CANCELLED is written, whatever it is by then.
CommitCancel(s) ==
  /\ sess[s].pc = "cancel"
  /\ schedule' = [schedule EXCEPT ![sess[s].by].status = "CANCELLED"]
  /\ Ends(s)
  /\ UNCHANGED <<route, deployment, posts, asked, edits, visits, moved>>

\* Mutant: what was due when the list was read is run.
RunDueListed(s, i) ==
  /\ sess[s].pc = "idle"
  /\ schedule[i].status \in {"PENDING", "RUNNING"}
  /\ schedule' = [schedule EXCEPT ![i].status = "RUNNING"]
  /\ Opens(s, "ready", i)
  /\ UNCHANGED <<route, deployment, posts, copy, asked, edits, visits, moved>>

\* run_due, _run_one: UPDATE ... WHERE status = 'PENDING', committed; then the
\* component is read.
RunDue(s, i) ==
  /\ sess[s].pc = "idle"
  /\ schedule[i].status = "PENDING"
  /\ schedule' = [schedule EXCEPT ![i].status = "RUNNING"]
  /\ Opens(s, "ready", i)
  /\ UNCHANGED <<route, deployment, posts, copy, asked, edits, visits, moved>>

\* Mutant: success is reported before the release is linked.
ReportFirst(s) ==
  /\ Running(s) /\ sess[s].pc = "after"
  /\ schedule' = [schedule EXCEPT ![sess[s].by].status = "SUCCEEDED"]
  /\ Ends(s)
  /\ UNCHANGED <<route, deployment, posts, asked, edits, visits, moved>>

\* _run_one: the release is linked, and SUCCEEDED written unconditionally.
LinkRelease(s) ==
  /\ Running(s) /\ sess[s].pc = "after"
  /\ schedule' = [schedule EXCEPT ![sess[s].by].status = "SUCCEEDED",
                                  ![sess[s].by].link = sess[s].dep]
  /\ Ends(s)
  /\ UNCHANGED <<route, deployment, posts, asked, edits, visits, moved>>

\* _run_one, except: FAILED is written, although a release may be recorded.
FailSchedule(s) ==
  /\ Running(s) /\ sess[s].pc = "raised"
  /\ schedule' = [schedule EXCEPT ![sess[s].by].status = "FAILED"]
  /\ Ends(s)
  /\ UNCHANGED <<route, deployment, posts, asked, edits, visits, moved>>

\* schedule_claim_timeout_seconds have passed since the claim.
ClaimTimeout(i) ==
  /\ schedule[i].status = "RUNNING" /\ ~schedule[i].late
  /\ schedule' = [schedule EXCEPT ![i].late = TRUE]
  /\ UNCHANGED slotVars

\* Mutant: only claims whose release is linked are given up.
ReleaseLinkedClaim(i) ==
  /\ sess[Worker].pc = "idle"
  /\ schedule[i].status = "RUNNING" /\ schedule[i].link # 0 /\ schedule[i].late
  /\ schedule' = [schedule EXCEPT ![i].status = "FAILED"]
  /\ UNCHANGED slotVars

\* release_stale_schedule_claims: the claim of a runner that must have died is
\* given up, and not handed to another.
ReleaseStaleClaim(i) ==
  /\ sess[Worker].pc = "idle"
  /\ schedule[i].status = "RUNNING" /\ schedule[i].link = 0 /\ schedule[i].late
  /\ schedule' = [schedule EXCEPT ![i].status = "FAILED"]
  /\ UNCHANGED slotVars

ScheduleStep(s) == CommitCancel(s) \/ LinkRelease(s) \/ FailSchedule(s)
ScheduleNext ==
  \/ \E i \in Schedule : CreateSchedule(i) \/ ClaimTimeout(i) \/ ReleaseStaleClaim(i)
  \/ \E s \in Request, i \in Schedule : BeginCancel(s, i)
  \/ \E s \in Request \cup {Worker}, i \in Schedule : RunDue(s, i)
  \/ \E s \in Session : ScheduleStep(s)

----------------------------------------------------------------------------
ScheduleTypeOK == schedule \in [Schedule -> ScheduleRow]

\* _run_one links and reports in one commit: a schedule that says SUCCEEDED
\* names the release it started, and that release is its own.
SucceededIsLinked ==
  \A i \in Schedule : schedule[i].status = "SUCCEEDED" =>
    schedule[i].link \in DOMAIN deployment /\ deployment[schedule[i].link].by = i

\* release_stale_schedule_claims: a schedule that fell due does not stay
\* PENDING or RUNNING, whatever its runner died of.
SchedulesEnd ==
  \A i \in Schedule : schedule[i].status \in {"PENDING", "RUNNING"}
    ~> schedule[i].status \in {"SUCCEEDED", "FAILED", "CANCELLED"}
=============================================================================

------------------------------- MODULE Launch -------------------------------
(***************************************************************************)
(* Schedules, CI jobs, release plans and users over one table of slots.    *)
(***************************************************************************)
EXTENDS Schedule, CIInbox, ReleasePlan

vars == <<slotVars, schedule, job, plan>>

Init == SlotsInit /\ ScheduleInit /\ JobInit /\ PlanInit

\* promote, once the claim is committed: both guards, for whoever dispatches.
Allowed(s, i) ==
  LET d == sess[s].dep IN
  CIAllows(i, d, Seen(s, i)) /\ PlanAllows(deployment[d].by, Seen(s, i))
Guards(s) ==
  /\ sess[s].pc = "claimed"
  /\ \E i \in Followers(sess[s].dep) :
       IF Allowed(s, i) THEN Clear(s, Seen(s, i)) ELSE Refuse(s)

\* A plan's guard asks Drone, which does not answer, or refuses: the promotion
\* is unconfirmed, or failed, without a request for it.
GuardFails(s) ==
  /\ sess[s].pc = "claimed" /\ deployment[sess[s].dep].by \in Plan
  /\ \E row \in {copy[s].seen, Failed(s)} : Learns(s, row)
  /\ UNCHANGED <<route, deployment, posts, asked, edits, visits, moved>>

Dispatch(s) == Claim(s) \/ LoseClaim(s) \/ Guards(s) \/ GuardFails(s) \/ Post(s)

\* Every caller but the CI inbox gives up when the slot is taken.
Start(s) == sess[s].by \notin Job /\ (Record(s) \/ Duplicate(s, "raised"))

SlotsNext ==
  \/ \E s \in Request, h \in Human : Ask(s, h)
  \/ \E s \in Session :
       Start(s) \/ Dispatch(s) \/ Refresh(s) \/ Flush(s) \/ Raise(s) \/ Return(s) \/ Die(s)
  \/ \E s \in Request \cup {Worker}, d \in DOMAIN deployment : Resume(s, d)
  \/ \E s \in Request, d \in DOMAIN deployment : BeginRetry(s, d)
  \/ \E c \in Component, r \in Route : EditComponent(c, r)

Next ==
  \/ SlotsNext /\ UNCHANGED <<schedule, job, plan>>
  \/ ScheduleNext /\ UNCHANGED <<job, plan>>
  \/ JobNext /\ UNCHANGED <<schedule, plan>>
  \/ PlanNext /\ UNCHANGED <<schedule, job>>

Spec == Init /\ [][Next]_vars

\* The worker's thread keeps running: what it has begun goes on, raises or dies
\* with its process, and it comes round again to all that is due.  A step that
\* it could take again and again is not kept from it every time by an exception
\* or a crash.  Clocks go on: a deployment a job follows passes its timeout.
\* Nothing is assumed of requests, of Drone, or of what the guards find.
WorkerStep ==
  \/ /\ \/ Start(Worker) \/ Dispatch(Worker) \/ Refresh(Worker) \/ Flush(Worker)
        \/ Raise(Worker) \/ Return(Worker) \/ Die(Worker)
     /\ UNCHANGED <<schedule, job, plan>>
  \/ ScheduleStep(Worker) /\ UNCHANGED <<job, plan>>
  \/ JobStep(Worker) /\ UNCHANGED <<schedule, plan>>
Decided(j) ==
  /\ sess[Worker].by = j
  /\ RejectJob(Worker) \/ Track(Worker)
  /\ job'[j].status \in JobTerminal
Fairness ==
  /\ WF_vars(WorkerStep)
  /\ \A i \in Schedule :
       /\ SF_vars((RunDue(Worker, i) \/ ReleaseStaleClaim(i)) /\ UNCHANGED <<job, plan>>)
       /\ WF_vars(ClaimTimeout(i) /\ UNCHANGED <<job, plan>>)
  /\ \A j \in Job :
       /\ SF_vars(Lease(j) /\ UNCHANGED <<schedule, plan>>)
       /\ SF_vars(Decided(j) /\ UNCHANGED <<schedule, plan>>)
       /\ WF_vars(DeadlinePasses(j) /\ UNCHANGED <<schedule, plan>>)
       /\ WF_vars(LeaseLapses(j) /\ UNCHANGED <<schedule, plan>>)
       /\ SF_vars(sess[Worker].by = j /\ TimedOut(Worker) /\ UNCHANGED <<schedule, job, plan>>)
       /\ SF_vars(sess[Worker].by = j /\ Flush(Worker) /\ UNCHANGED <<schedule, job, plan>>)
  /\ SF_vars((Claim(Worker) \/ LoseClaim(Worker)) /\ UNCHANGED <<schedule, job, plan>>)

LiveSpec == Spec /\ Fairness
----------------------------------------------------------------------------
LaunchTypeOK == SlotsTypeOK /\ ScheduleTypeOK /\ JobTypeOK /\ PlanTypeOK
=============================================================================

---------------------------- MODULE LaunchProofs ----------------------------
(***************************************************************************)
(* Theorems about the callers of the deployments table, for every set of   *)
(* schedules, jobs, plans, users, sessions, components and routes.         *)
(***************************************************************************)
EXTENDS Launch, SequenceTheorems, TLAPS

DepRow == [by : Intent, route : Route, status : Status, build : Nat]
Pc == {"idle", "ready", "recorded", "claimed", "cleared", "told", "after", "raised",
       "cancel", "approve", "promote", "advance", "source", "adopt"}
SessRow == [pc : Pc, by : Intent \cup {None}, dep : Nat, route : Route \cup {None}]
PostRow == [dep : Nat, route : Route, build : Verdict \cup {"none"}]

\* What asks for a deployment may do so once: it is spent when it has.
Early == {"ABSENT", "PENDING"}
Spent(i) ==
  /\ i \in Human => i \in asked
  /\ i \in Schedule => schedule[i].status \notin Early
  /\ i \in Plan => plan[i].status \in Used

\* The types, but for the rows that point into the table of deployments.
Rows ==
  /\ route \in [Component -> Route]
  /\ asked \subseteq Human
  /\ edits \in [Component -> 0..MaxEdits]
  /\ moved \subseteq Component
  /\ schedule \in [Schedule -> ScheduleRow]
  /\ job \in [Job -> JobRow]
  /\ plan \in [Plan -> PlanRow]
Table ==
  /\ deployment \in Seq(DepRow)
  /\ posts \in Seq(PostRow)
  /\ sess \in [Session -> SessRow]

Started == {"recorded", "claimed", "cleared", "told"}
Inboxed == {"advance", "source", "adopt"}

\* A session knows whom it acts for, and what it acts on.
SessionOK(s) ==
  /\ sess[s].dep \in 0..Len(deployment)
  /\ sess[s].pc # "idle" => sess[s].route \in Route
  /\ sess[s].pc \in Started => sess[s].dep # 0
  /\ sess[s].pc = "cancel" => sess[s].by \in Schedule
  /\ sess[s].pc \in {"approve", "promote"} => sess[s].by \in Plan
  /\ sess[s].pc \in Inboxed => sess[s].by \in Job
  /\ sess[s].pc \in Inboxed \cup {"ready"} /\ sess[s].by \in Job
       => s = Worker /\ job[sess[s].by].link = 0
  /\ sess[s].pc = "ready" => sess[s].by \in Intent /\ Spent(sess[s].by)
  /\ sess[s].pc \in Started \cup {"after"} /\ sess[s].by \in Schedule
       => sess[s].dep # 0 /\ deployment[sess[s].dep].by = sess[s].by
  /\ sess[s].pc = "cleared" /\ deployment[sess[s].dep].by \in Plan
       => sess[s].route = plan[deployment[sess[s].dep].by].route

\* A deployment is of somebody who is spent.
DeploymentOK(d) ==
  /\ Spent(deployment[d].by)
  /\ deployment[d].by \in Job => job[deployment[d].by].link # 0

PostOK(n) ==
  /\ posts[n].dep \in 1..Len(deployment)
  /\ deployment[posts[n].dep].by \in Plan
       => posts[n].route = plan[deployment[posts[n].dep].by].route

ScheduleOK(i) ==
  schedule[i].status = "SUCCEEDED" =>
    schedule[i].link \in 1..Len(deployment) /\ deployment[schedule[i].link].by = i

\* Whoever is about to record a deployment is alone, and there is none yet.
Fresh(s) ==
  /\ \A d \in 1..Len(deployment) : deployment[d].by # sess[s].by
  /\ \A t \in Session : sess[t].pc = "ready" /\ sess[t].by = sess[s].by => t = s

\* A dispatch is of a row that was read as claimed, and what is told of a row is
\* of one that was read in flight, or is its reset.
CopyOK(s) ==
  /\ copy[s] \in [seen : CopyRow, mine : CopyRow]
  /\ sess[s].pc \in {"claimed", "cleared"} => copy[s].seen.status = "PROMOTING"
  /\ sess[s].pc = "told" =>
       \/ copy[s].seen.status \in InFlight
       \/ copy[s].seen.status = "FAILED" /\ copy[s].mine.status = "WAITING"
CopyInv ==
  /\ copy \in [Session -> [seen : CopyRow, mine : CopyRow]]
  /\ visits \in 0..MaxVisits
  /\ \A s \in Session : CopyOK(s)

LaunchInv ==
  /\ Rows /\ Table
  /\ \A s \in Session : SessionOK(s) /\ (sess[s].pc = "ready" => Fresh(s))
  /\ \A d \in 1..Len(deployment) : DeploymentOK(d)
  /\ \A n \in 1..Len(posts) : PostOK(n)
  /\ \A i \in Schedule : ScheduleOK(i)
  /\ \A j \in Job : job[j].link \in 0..Len(deployment)
  /\ \A d, e \in 1..Len(deployment) : deployment[d].by = deployment[e].by => d = e

----------------------------------------------------------------------------
(* Steps that record no deployment                                         *)

\* Nobody who is spent can ask again.
Keeps ==
  /\ asked \subseteq asked'
  /\ \A i \in Schedule : schedule[i].status \notin Early => schedule'[i].status \notin Early
  /\ \A p \in Plan : plan[p].status \in Used =>
       plan'[p].status \in Used /\ plan'[p].route = plan[p].route
SameDeployments ==
  /\ deployment' \in Seq(DepRow) /\ Len(deployment') = Len(deployment)
  /\ \A d \in 1..Len(deployment) : deployment'[d].by = deployment[d].by

LEMMA ByIntent ==
  ASSUME LaunchInv
  PROVE  \A d \in 1..Len(deployment) : deployment[d] \in DepRow /\ deployment[d].by \in Intent
<1>1. deployment \in Seq(DepRow)
  BY DEF LaunchInv, Table
<1>2. \A d \in 1..Len(deployment) : deployment[d] \in DepRow
  BY <1>1
<1>3. QED
  BY <1>2 DEF DepRow

LEMMA SpentStays == ASSUME Keeps PROVE \A i \in Intent : Spent(i) => Spent(i)'
BY DEF Keeps, Spent

\* A session that does nothing stays right while another one acts.
LEMMA SessionStays ==
  ASSUME LaunchInv, Keeps, SameDeployments, NEW t \in Session, sess'[t] = sess[t],
         \A j \in Job : job'[j].link = job[j].link \/ t # Worker
  PROVE  SessionOK(t)'
<1>1. Len(deployment') = Len(deployment) /\ Len(deployment) \in Nat
  BY DEF Table, SameDeployments, LaunchInv
<1>2. \A d \in 1..Len(deployment) : deployment'[d].by = deployment[d].by /\ deployment[d].by \in Intent
  BY ByIntent DEF SameDeployments
<1>3. SessionOK(t) /\ sess[t] \in SessRow
  BY DEF LaunchInv, Table
<1>4. sess[t].by \in Job /\ t = Worker => job'[sess[t].by].link = job[sess[t].by].link
  OBVIOUS
<1>5. sess[t].pc = "ready" =>
        /\ sess[t].by \in Human => sess[t].by \in asked'
        /\ sess[t].by \in Schedule => schedule'[sess[t].by].status \notin Early
        /\ sess[t].by \in Plan => plan'[sess[t].by].status \in Used
  BY <1>3 DEF SessionOK, Keeps, Spent
<1>6. sess[t].dep # 0 => /\ sess[t].dep \in 1..Len(deployment)
                         /\ deployment'[sess[t].dep].by = deployment[sess[t].dep].by
                         /\ DeploymentOK(sess[t].dep)
  BY <1>1, <1>2, <1>3 DEF SessionOK, LaunchInv
<1>7. sess[t].dep # 0 /\ deployment[sess[t].dep].by \in Plan =>
        plan'[deployment[sess[t].dep].by].route = plan[deployment[sess[t].dep].by].route
  BY <1>6 DEF DeploymentOK, Spent, Keeps
<1>8. QED
  BY <1>1, <1>3, <1>4, <1>5, <1>6, <1>7 DEF SessionOK, Spent, Started

\* What one session's step may do, as long as it records no deployment.
LEMMA OneStep ==
  ASSUME LaunchInv, NEW s \in Session, Rows', Keeps, SameDeployments,
         sess' \in [Session -> SessRow], \A t \in Session : t # s => sess'[t] = sess[t],
         SessionOK(s)', sess'[s].pc = "ready" => Fresh(s)',
         posts' \in Seq(PostRow), \A n \in 1..Len(posts') : PostOK(n)',
         \A i \in Schedule : ScheduleOK(i)',
         \A j \in Job : \/ job'[j].link = job[j].link
                        \/ s = Worker /\ job'[j].link \in 1..Len(deployment)
  PROVE  LaunchInv'
<1>1. Table' /\ Len(deployment') = Len(deployment) /\ Len(deployment) \in Nat
  BY DEF Table, SameDeployments, LaunchInv
<1>2. \A d \in 1..Len(deployment) : deployment'[d].by = deployment[d].by /\ deployment[d].by \in Intent
  BY ByIntent DEF SameDeployments
<1>3. ASSUME NEW d \in 1..Len(deployment) PROVE DeploymentOK(d)'
  <2>1. DeploymentOK(d)
    BY DEF LaunchInv
  <2>2. Spent(deployment[d].by) /\ (deployment[d].by \in Job => job[deployment[d].by].link # 0)
    BY <2>1 DEF DeploymentOK
  <2>3. \A j \in Job : job[j].link # 0 => job'[j].link # 0
    BY <1>1
  <2>4. /\ deployment[d].by \in Human => deployment[d].by \in asked'
        /\ deployment[d].by \in Schedule => schedule'[deployment[d].by].status \notin Early
        /\ deployment[d].by \in Plan => plan'[deployment[d].by].status \in Used
    BY <2>2 DEF Spent, Keeps
  <2>5. QED
    BY <1>2, <2>2, <2>3, <2>4 DEF DeploymentOK, Spent
<1>4. ASSUME NEW t \in Session, t # s PROVE SessionOK(t)'
  <2>1. sess'[t] = sess[t]
    BY <1>4
  <2>2. \A j \in Job : job'[j].link = job[j].link \/ t # Worker
    BY <1>4
  <2>3. QED
    BY <2>1, <2>2, SessionStays
<1>5. ASSUME NEW t \in Session, t # s, sess'[t].pc = "ready" PROVE Fresh(t)'
  <2>1. sess'[t] = sess[t] /\ Fresh(t)
    BY <1>5 DEF LaunchInv
  <2>2. sess'[s].pc = "ready" => sess'[s].by # sess'[t].by
    BY <1>5 DEF Fresh
  <2>3. QED
    BY <1>1, <1>2, <2>1, <2>2 DEF Fresh
<1>6. \A j \in Job : job'[j].link \in 0..Len(deployment)
  BY <1>1 DEF LaunchInv
<1>7. \A d, e \in 1..Len(deployment) : deployment'[d].by = deployment'[e].by => d = e
  BY <1>2 DEF LaunchInv
<1>8. QED
  BY <1>1, <1>3, <1>4, <1>5, <1>6, <1>7 DEF LaunchInv
LEMMA PostsStay ==
  ASSUME LaunchInv, Keeps, SameDeployments, posts' = posts
  PROVE  posts' \in Seq(PostRow) /\ \A n \in 1..Len(posts') : PostOK(n)'
<1>1. posts' \in Seq(PostRow) /\ Len(deployment') = Len(deployment)
  BY DEF LaunchInv, Table, SameDeployments
<1>2. ASSUME NEW n \in 1..Len(posts) PROVE PostOK(n)'
  <2>1. PostOK(n)
    BY DEF LaunchInv
  <2>2. posts[n].dep \in 1..Len(deployment) /\ deployment'[posts[n].dep].by = deployment[posts[n].dep].by
    BY <2>1 DEF PostOK, SameDeployments
  <2>3. DeploymentOK(posts[n].dep)
    BY <2>2 DEF LaunchInv
  <2>4. deployment[posts[n].dep].by \in Plan =>
          plan'[deployment[posts[n].dep].by].route = plan[deployment[posts[n].dep].by].route
    BY <2>3 DEF DeploymentOK, Spent, Keeps
  <2>5. QED
    BY <1>1, <2>1, <2>2, <2>4 DEF PostOK
<1>3. QED
  BY <1>1, <1>2

\* No schedule begins to say SUCCEEDED, and none that does is linked anew.
SameSuccesses ==
  \A i \in Schedule : schedule'[i].status = "SUCCEEDED" =>
    schedule[i].status = "SUCCEEDED" /\ schedule'[i].link = schedule[i].link
SameLinks == \A j \in Job : job'[j].link = job[j].link

LEMMA SchedulesStay ==
  ASSUME LaunchInv, SameDeployments, SameSuccesses
  PROVE  \A i \in Schedule : ScheduleOK(i)'
BY DEF LaunchInv, SameDeployments, SameSuccesses, ScheduleOK

\* Nothing changes but one session, the columns that do not matter here, and
\* the callers' rows as far as Keeps, SameSuccesses and SameLinks allow.
Quiet == Rows' /\ Keeps /\ SameDeployments /\ posts' = posts /\ SameSuccesses /\ SameLinks

LEMMA QuietStep ==
  ASSUME LaunchInv, Quiet, NEW s \in Session,
         sess' \in [Session -> SessRow], \A t \in Session : t # s => sess'[t] = sess[t],
         SessionOK(s)', sess'[s].pc = "ready" => Fresh(s)'
  PROVE  LaunchInv'
<1>1. Rows' /\ Keeps /\ SameDeployments /\ posts' = posts /\ SameSuccesses
  BY DEF Quiet
<1>2. posts' \in Seq(PostRow) /\ \A n \in 1..Len(posts') : PostOK(n)'
  BY <1>1, PostsStay
<1>3. \A i \in Schedule : ScheduleOK(i)'
  BY <1>1, SchedulesStay
<1>4. \A j \in Job : job'[j].link = job[j].link \/ (s = Worker /\ job'[j].link \in 1..Len(deployment))
  BY DEF Quiet, SameLinks
<1>5. QED
  BY <1>1, <1>2, <1>3, <1>4, OneStep

LEMMA WorkerIsASession == Worker \in Session
BY DEF Session

LEMMA SessionlessStep ==
  ASSUME LaunchInv, Quiet, sess' = sess
  PROVE  LaunchInv'
<1>1. sess' \in [Session -> SessRow] /\ \A t \in Session : t # Worker => sess'[t] = sess[t]
  BY DEF LaunchInv, Table
<1>2. Keeps /\ SameDeployments /\ (\A j \in Job : job'[j].link = job[j].link \/ Worker # Worker)
  BY DEF Quiet, SameLinks
<1>3. SessionOK(Worker)'
  BY <1>2, SessionStays, WorkerIsASession
<1>4. sess'[Worker].pc = "ready" => Fresh(Worker)'
  BY <1>2, ByIntent, WorkerIsASession DEF LaunchInv, Fresh, SameDeployments
<1>5. QED
  BY <1>1, <1>3, <1>4, QuietStep, WorkerIsASession

LEMMA NoneIsNobody == None \notin Intent /\ None \notin Schedule /\ None \notin Job /\ None \notin Plan
BY SlotsAssumption DEF Intent

LEMMA IdleRow == Idle \in SessRow
BY DEF Idle, SessRow, Pc

LEMMA EndsStep ==
  ASSUME LaunchInv, Quiet, NEW s \in Session, Ends(s)
  PROVE  LaunchInv'
<1>1. sess' \in [Session -> SessRow] /\ sess'[s] = Idle /\ \A t \in Session : t # s => sess'[t] = sess[t]
  BY IdleRow DEF LaunchInv, Table, Ends
<1>2. Len(deployment') \in Nat
  BY DEF Quiet, SameDeployments
<1>3. SessionOK(s)' /\ sess'[s].pc # "ready"
  BY <1>1, <1>2 DEF SessionOK, Idle, Started, Inboxed
<1>4. QED
  BY <1>1, <1>3, QuietStep

\* A session goes on with the row it has, or raises.
LEMMA GoesStep ==
  ASSUME LaunchInv, Quiet, NEW s \in Session,
         \/ Goes(s, "raised") /\ sess[s].pc # "idle"
         \/ sess[s].pc \in Started /\ \E pc \in Started \cup {"after"} : Goes(s, pc) /\ pc # "cleared"
  PROVE  LaunchInv'
<1>1. sess \in [Session -> SessRow] /\ sess[s] \in SessRow /\ SessionOK(s)
  BY DEF LaunchInv, Table
<1>2. PICK pc \in {"raised", "recorded", "claimed", "told", "after"} :
        Goes(s, pc) /\ sess[s].pc # "idle" /\ (pc # "raised" => sess[s].pc \in Started)
  BY DEF Started
<1>3. sess'[s] = [sess[s] EXCEPT !.pc = pc] /\ \A t \in Session : t # s => sess'[t] = sess[t]
  BY <1>1, <1>2 DEF Goes
<1>4. sess' \in [Session -> SessRow]
  BY <1>1, <1>2 DEF Goes, SessRow, Pc
<1>5. /\ sess'[s].pc = pc /\ sess'[s].dep = sess[s].dep
      /\ sess'[s].by = sess[s].by /\ sess'[s].route = sess[s].route
  BY <1>1, <1>3 DEF SessRow
<1>6. Len(deployment') = Len(deployment)
      /\ \A d \in 1..Len(deployment) : deployment'[d].by = deployment[d].by
  BY DEF Quiet, SameDeployments
<1>7. SessionOK(s)'
  BY <1>1, <1>2, <1>5, <1>6 DEF SessionOK, Started, Inboxed
<1>8. QED
  BY <1>2, <1>3, <1>4, <1>5, <1>7, QuietStep

\* Whoever is not spent has no deployment, and no session is about to record one.
LEMMA Unspent ==
  ASSUME LaunchInv, NEW i \in Intent, ~Spent(i)
  PROVE  /\ \A d \in 1..Len(deployment) : deployment[d].by # i
         /\ \A t \in Session : sess[t].pc = "ready" => sess[t].by # i
<1>1. \A d \in 1..Len(deployment) : Spent(deployment[d].by)
  BY DEF LaunchInv, DeploymentOK
<1>2. \A t \in Session : sess[t].pc = "ready" => Spent(sess[t].by)
  BY DEF LaunchInv, SessionOK
<1>3. QED
  BY <1>1, <1>2 DEF Spent

LEMMA SameTable == ASSUME LaunchInv, deployment' = deployment PROVE SameDeployments
BY DEF LaunchInv, Table, SameDeployments

LEMMA PutStep ==
  ASSUME LaunchInv, \E d \in 1..Len(deployment), row \in CopyRow : Puts(d, row)
  PROVE  SameDeployments
<1>1. PICK d \in 1..Len(deployment), row \in CopyRow : Puts(d, row)
  OBVIOUS
<1>2. deployment \in Seq(DepRow) /\ deployment[d] \in DepRow
  BY ByIntent DEF LaunchInv, Table
<1> DEFINE new == [deployment[d] EXCEPT !.status = row.status, !.build = row.build]
<1>3. deployment' = [deployment EXCEPT ![d] = new]
  BY <1>1 DEF Puts
<1>4. new \in DepRow /\ new.by = deployment[d].by
  BY <1>2 DEF DepRow, CopyRow
<1> HIDE DEF new
<1>5. deployment' \in Seq(DepRow) /\ Len(deployment') = Len(deployment)
  BY <1>2, <1>3, <1>4
<1>6. \A e \in 1..Len(deployment) : deployment'[e].by = deployment[e].by
  BY <1>2, <1>3, <1>4
<1>7. QED
  BY <1>5, <1>6 DEF SameDeployments

LEMMA CallersRest ==
  ASSUME LaunchInv, UNCHANGED <<route, asked, edits, moved, schedule, job, plan>>
  PROVE  Rows' /\ Keeps /\ SameSuccesses /\ SameLinks
<1>1. Rows'
  BY DEF LaunchInv, Rows
<1>2. QED
  BY <1>1 DEF Keeps, SameSuccesses, SameLinks

LEMMA Intents ==
  /\ Schedule \subseteq Intent /\ Job \subseteq Intent /\ Plan \subseteq Intent /\ Human \subseteq Intent
  /\ \A i \in Schedule : i \notin Job /\ i \notin Plan /\ i \notin Human
  /\ \A j \in Job : j \notin Schedule /\ j \notin Plan /\ j \notin Human
  /\ \A p \in Plan : p \notin Schedule /\ p \notin Job /\ p \notin Human
BY SlotsAssumption DEF Intent

\* A session opens for somebody: to record at once, or to do so later.
LEMMA OpensStep ==
  ASSUME LaunchInv, Quiet, deployment' = deployment, NEW s \in Session, NEW i \in Intent,
         \/ Opens(s, "ready", i) /\ i \notin Job /\ ~Spent(i) /\ Spent(i)'
         \/ Opens(s, "cancel", i) /\ i \in Schedule
         \/ (Opens(s, "approve", i) \/ Opens(s, "promote", i)) /\ i \in Plan
  PROVE  LaunchInv'
<1>1. route \in [Component -> Route] /\ Of[i] \in Component /\ sess \in [Session -> SessRow]
  BY SlotsAssumption DEF LaunchInv, Rows, Table
<1>2. PICK pc \in {"ready", "cancel", "approve", "promote"} :
        /\ Opens(s, pc, i)
        /\ pc = "ready" => i \notin Job /\ ~Spent(i) /\ Spent(i)'
        /\ pc = "cancel" => i \in Schedule
        /\ pc \in {"approve", "promote"} => i \in Plan
  OBVIOUS
<1>3. /\ sess'[s] = [pc |-> pc, by |-> i, dep |-> 0, route |-> route[Of[i]]]
      /\ \A t \in Session : t # s => sess'[t] = sess[t]
  BY <1>1, <1>2 DEF Opens
<1>4. sess' \in [Session -> SessRow]
  BY <1>1, <1>2 DEF Opens, SessRow, Pc
<1>5. SessionOK(s)'
  <2>1. Len(deployment') \in Nat
    BY DEF LaunchInv, Table
  <2>2. pc = "ready" => /\ i \in Human => i \in asked'
                        /\ i \in Schedule => schedule'[i].status \notin Early
                        /\ i \in Plan => plan'[i].status \in Used
    BY <1>2 DEF Spent
  <2>3. pc # "ready" => i \notin Job
    BY <1>2, Intents
  <2>4. QED
    BY <1>1, <1>2, <1>3, <2>1, <2>2, <2>3 DEF SessionOK, Started, Inboxed, Spent
<1>6. ASSUME sess'[s].pc = "ready" PROVE Fresh(s)'
  <2>1. ~Spent(i) /\ sess'[s].by = i
    BY <1>2, <1>3, <1>6
  <2>2. /\ \A d \in 1..Len(deployment) : deployment[d].by # i
        /\ \A t \in Session : sess[t].pc = "ready" => sess[t].by # i
    BY <2>1, Unspent
  <2>3. QED
    BY <1>3, <2>1, <2>2 DEF Fresh
<1>7. QED
  BY <1>3, <1>4, <1>5, <1>6, QuietStep

----------------------------------------------------------------------------
(* The steps of Slots                                                      *)

Others == UNCHANGED <<schedule, job, plan>>

LEMMA AskKeeps ==
  ASSUME LaunchInv, NEW s \in Session, NEW h \in Human, Ask(s, h), Others
  PROVE  LaunchInv'
<1>1. Rows' /\ Keeps /\ SameSuccesses /\ SameLinks
  BY DEF Ask, Others, LaunchInv, Rows, Keeps, SameSuccesses, SameLinks
<1>2. Quiet /\ deployment' = deployment
  BY <1>1, SameTable DEF Ask, Quiet
<1>3. h \in Intent /\ h \notin Job /\ ~Spent(h) /\ Spent(h)' /\ Opens(s, "ready", h)
  BY Intents DEF Ask, Spent
<1>4. QED
  BY <1>2, <1>3, OpensStep

LEMMA ResumeKeeps ==
  ASSUME LaunchInv, NEW s \in Session, NEW d \in DOMAIN deployment,
         Resume(s, d) \/ BeginRetry(s, d), Others
  PROVE  LaunchInv'
<1>1. PICK pc \in {"recorded", "told"} : GoesOn(s, pc, d)
  BY DEF Resume, BeginRetry
<1>2. deployment \in Seq(DepRow) /\ d \in 1..Len(deployment) /\ deployment[d].by \in Intent
  BY ByIntent DEF LaunchInv, Table
<1>3. UNCHANGED <<route, deployment, posts, asked, edits, moved>>
  BY DEF Resume, BeginRetry
<1>4. Quiet
  BY <1>3, CallersRest, SameTable DEF Quiet, Others
<1>5. route[Of[deployment[d].by]] \in Route /\ sess \in [Session -> SessRow]
  BY <1>2, SlotsAssumption DEF LaunchInv, Rows, Table
<1>6. sess' = [sess EXCEPT ![s] =
         [pc |-> pc, by |-> None, dep |-> d, route |-> route[Of[deployment[d].by]]]]
  BY <1>1 DEF GoesOn
<1>7. /\ sess' \in [Session -> SessRow] /\ \A t \in Session : t # s => sess'[t] = sess[t]
      /\ sess'[s] = [pc |-> pc, by |-> None, dep |-> d, route |-> route[Of[deployment[d].by]]]
  BY <1>2, <1>5, <1>6 DEF SessRow, Pc
<1>8. SessionOK(s)' /\ sess'[s].pc # "ready"
  BY <1>2, <1>3, <1>5, <1>7, NoneIsNobody DEF SessionOK, Started, Inboxed
<1>9. QED
  BY <1>4, <1>7, <1>8, QuietStep

\* The commit of what a session has learnt.
LEMMA FlushedRow ==
  ASSUME LaunchInv, CopyInv, NEW s \in Session, Flush(s)
  PROVE  /\ sess[s].dep \in 1..Len(deployment)
         /\ \E row \in CopyRow :
              /\ row = Over(Row(sess[s].dep), copy[s].seen, copy[s].mine)
              /\ Puts(sess[s].dep, row)
              /\ Fits(sess[s].dep, row.status)
<1>1. sess[s].dep \in 1..Len(deployment) /\ Len(deployment) \in Nat
  BY DEF Flush, LaunchInv, Table, SessionOK, Started
<1>2. deployment[sess[s].dep].status \in Status /\ deployment[sess[s].dep].build \in Nat
  BY <1>1, ByIntent DEF DepRow
<1>3. copy[s].seen \in CopyRow /\ copy[s].mine \in CopyRow
  BY DEF CopyInv, CopyOK
<1>4. Over(Row(sess[s].dep), copy[s].seen, copy[s].mine) \in CopyRow
  BY <1>2, <1>3 DEF Over, Row, CopyRow
<1>5. QED
  BY <1>1, <1>4 DEF Flush

LEMMA FlushKeeps ==
  ASSUME LaunchInv, CopyInv, NEW s \in Session, Flush(s), Others
  PROVE  LaunchInv'
<1>1. SameDeployments
  BY FlushedRow, PutStep
<1>2. UNCHANGED <<route, posts, asked, edits, moved>>
  BY DEF Flush
<1>3. Quiet
  BY <1>1, <1>2, CallersRest DEF Quiet, Others
<1>4. sess[s].pc \in Started /\ \E pc \in Started \cup {"after"} : Goes(s, pc) /\ pc # "cleared"
  BY DEF Flush, Started
<1>5. QED
  BY <1>3, <1>4, GoesStep

LEMMA EditKeeps ==
  ASSUME LaunchInv, NEW c \in Component, NEW r \in Route, EditComponent(c, r), Others
  PROVE  LaunchInv'
<1>1. Rows'
  BY SlotsAssumption DEF EditComponent, Others, LaunchInv, Rows
<1>2. Keeps /\ SameSuccesses /\ SameLinks /\ SameDeployments
  BY SameTable DEF EditComponent, Others, Keeps, SameSuccesses, SameLinks
<1>3. QED
  BY <1>1, <1>2, SessionlessStep DEF EditComponent, Quiet

\* A session learns what became of its row, and writes nothing yet.
Judges(s) == Refuse(s) \/ GuardFails(s) \/ Refresh(s)

LEMMA Judged ==
  ASSUME NEW s \in Session, Judges(s)
  PROVE  /\ sess[s].pc \in {"recorded", "claimed"}
         /\ Goes(s, "after") \/ Goes(s, "told")
         /\ UNCHANGED <<route, deployment, posts, asked, edits, visits, moved>>
<1>1. CASE Refuse(s) \/ GuardFails(s)
  BY <1>1 DEF Refuse, GuardFails, Learns
<1>2. CASE TimedOut(s) \/ Reconcile(s) \/ PollBuild(s)
  BY <1>2 DEF TimedOut, Reconcile, PollBuild, Learns, Refreshing
<1>3. CASE PollFailure(s)
  BY <1>3 DEF PollFailure, Refreshing
<1>4. QED
  BY <1>1, <1>2, <1>3 DEF Judges, Refresh

LEMMA ClaimedRow ==
  ASSUME LaunchInv, NEW s \in Session, Claim(s)
  PROVE  /\ sess[s].dep \in 1..Len(deployment) /\ deployment[sess[s].dep].status = "WAITING"
         /\ \E row \in CopyRow :
              row.status = "PROMOTING" /\ Puts(sess[s].dep, row) /\ Reads(s, row)
<1>1. sess[s].dep \in 1..Len(deployment) /\ deployment[sess[s].dep].status = "WAITING"
  BY DEF Claim, LaunchInv, Table, SessionOK, Started
<1> DEFINE row == [Row(sess[s].dep) EXCEPT !.status = "PROMOTING"]
<1>2. deployment[sess[s].dep].build \in Nat
  BY <1>1, ByIntent DEF DepRow
<1>3. row \in CopyRow /\ row.status = "PROMOTING"
  BY <1>2 DEF Row, CopyRow, Status, Active
<1>4. Puts(sess[s].dep, row) /\ Reads(s, row)
  BY DEF Claim
<1>5. QED
  BY <1>1, <1>3, <1>4

\* What a session does without any row of the callers.
LEMMA PlainKeeps ==
  ASSUME LaunchInv, NEW s \in Session, Others,
         \/ Duplicate(s, "raised") \/ Raise(s) \/ Die(s) \/ Return(s)
         \/ Claim(s) \/ LoseClaim(s) \/ Judges(s)
  PROVE  LaunchInv'
<1>1. UNCHANGED <<route, asked, edits, moved, schedule, job, plan>> /\ posts' = posts
  BY Judged DEF Duplicate, Raise, Die, Return, Claim, LoseClaim, Others
<1>2. Rows' /\ Keeps /\ SameSuccesses /\ SameLinks
  BY <1>1, CallersRest
<1>3. SameDeployments
  <2>1. CASE Claim(s)
    BY <2>1, ClaimedRow, PutStep
  <2>2. CASE ~Claim(s)
    BY <2>2, SameTable, Judged DEF Duplicate, Raise, Die, Return, LoseClaim
  <2>3. QED
    BY <2>1, <2>2
<1>4. Quiet
  BY <1>1, <1>2, <1>3 DEF Quiet
<1>5. CASE Die(s) \/ Return(s)
  BY <1>4, <1>5, EndsStep DEF Die, Return
<1>6. CASE Duplicate(s, "raised") \/ Raise(s)
  BY <1>4, <1>6, GoesStep DEF Duplicate, Raise
<1>7. CASE Claim(s) \/ LoseClaim(s) \/ Judges(s)
  <2>1. sess[s].pc \in Started /\ \E pc \in {"claimed", "told", "after"} : Goes(s, pc)
    BY <1>7, Judged DEF Claim, LoseClaim, Started
  <2>2. QED
    BY <1>4, <2>1, GoesStep DEF Started
<1>8. QED
  BY <1>5, <1>6, <1>7

\* The guards let a planned deployment through on the planned route only.
LEMMA GuardsKeep ==
  ASSUME LaunchInv, NEW s \in Session, Guards(s), Others
  PROVE  LaunchInv'
<1>1. CASE Refuse(s)
  BY <1>1, PlainKeeps DEF Judges
<1>2. ASSUME NEW i, Allowed(s, i), Clear(s, Seen(s, i)) PROVE LaunchInv'
  <2> DEFINE seen == Seen(s, i)
  <2>1. /\ sess \in [Session -> SessRow] /\ sess[s] \in SessRow /\ SessionOK(s)
        /\ route \in [Component -> Route]
    BY DEF LaunchInv, Table, Rows
  <2>2. /\ sess[s].pc = "claimed" /\ sess[s].dep \in 1..Len(deployment) /\ sess[s].route \in Route
        /\ Len(deployment) \in Nat
    BY <1>2, <2>1 DEF Clear, SessionOK, Started, LaunchInv, Table
  <2>3. deployment[sess[s].dep].by \in Intent
    BY <2>2, ByIntent
  <2>4. seen \in Route
    BY <2>1, <2>2, <2>3, Intents, SlotsAssumption DEF Seen, Bound
  <2>5. deployment[sess[s].dep].by \in Plan => seen = plan[deployment[sess[s].dep].by].route
    BY <1>2 DEF Allowed, PlanAllows
  <2> HIDE DEF seen
  <2>6. sess' = [sess EXCEPT ![s].pc = "cleared", ![s].route = seen]
    BY <1>2 DEF Clear, seen
  <2>7. /\ sess' \in [Session -> SessRow] /\ \A t \in Session : t # s => sess'[t] = sess[t]
        /\ sess'[s].pc = "cleared" /\ sess'[s].dep = sess[s].dep
        /\ sess'[s].by = sess[s].by /\ sess'[s].route = seen
    BY <2>1, <2>4, <2>6 DEF SessRow, Pc
  <2>8. deployment' = deployment /\ plan' = plan
    BY <1>2 DEF Clear, Others
  <2>9. SessionOK(s)' /\ sess'[s].pc # "ready"
    BY <2>1, <2>2, <2>4, <2>5, <2>7, <2>8 DEF SessionOK, Started, Inboxed
  <2>10. Quiet
    BY <1>2, CallersRest, SameTable DEF Clear, Others, Quiet
  <2>11. QED
    BY <2>7, <2>9, <2>10, QuietStep
<1>3. QED
  BY <1>1, <1>2 DEF Guards

LEMMA PostedRow ==
  ASSUME NEW s \in Session, Post(s), sess[s].dep \in Nat, sess[s].route \in Route
  PROVE  /\ Goes(s, "after") \/ Goes(s, "told")
         /\ \E new \in PostRow :
              /\ new.dep = sess[s].dep /\ new.route = sess[s].route
              /\ posts' = Append(posts, new)
<1> DEFINE sent(made) == [dep |-> sess[s].dep, route |-> sess[s].route, build |-> made]
<1>1. \E made \in Verdict \cup {"none"} : posts' = Append(posts, sent(made))
  BY DEF Post
<1>2. \A made \in Verdict \cup {"none"} :
        sent(made) \in PostRow /\ sent(made).dep = sess[s].dep /\ sent(made).route = sess[s].route
  BY DEF PostRow
<1> HIDE DEF sent
<1>3. Goes(s, "after") \/ Goes(s, "told")
  BY ZenonT(60) DEF Post, Learns
<1>4. QED
  BY <1>1, <1>2, <1>3

LEMMA PostKeeps ==
  ASSUME LaunchInv, NEW s \in Session, Post(s), Others
  PROVE  LaunchInv'
<1>1. Rows' /\ Keeps /\ SameSuccesses /\ SameLinks
  BY CallersRest DEF Post, Others
<1>2. sess \in [Session -> SessRow] /\ sess[s] \in SessRow /\ SessionOK(s) /\ Len(deployment) \in Nat
  BY DEF LaunchInv, Table
<1>3. sess[s].pc = "cleared" /\ sess[s].dep \in 1..Len(deployment) /\ sess[s].route \in Route
  BY <1>2 DEF Post, SessionOK, Started
<1>4. SameDeployments
  BY SameTable DEF Post
<1>5. \A i \in Schedule : ScheduleOK(i)'
  BY <1>1, <1>4, SchedulesStay
<1>6. /\ sess' \in [Session -> SessRow] /\ \A t \in Session : t # s => sess'[t] = sess[t]
      /\ sess'[s].pc \in {"after", "told"} /\ sess'[s].dep = sess[s].dep
      /\ sess'[s].by = sess[s].by /\ sess'[s].route = sess[s].route
  <2>1. \A pc \in {"after", "told"} : Goes(s, pc) =>
          /\ sess' \in [Session -> SessRow] /\ \A t \in Session : t # s => sess'[t] = sess[t]
          /\ sess'[s].pc = pc /\ sess'[s].dep = sess[s].dep
          /\ sess'[s].by = sess[s].by /\ sess'[s].route = sess[s].route
    BY <1>2 DEF Goes, SessRow, Pc
  <2>2. Goes(s, "after") \/ Goes(s, "told")
    BY <1>3, PostedRow
  <2>3. QED
    BY <2>1, <2>2
<1>7. SessionOK(s)' /\ sess'[s].pc # "ready"
  BY <1>2, <1>3, <1>4, <1>6 DEF SessionOK, Started, Inboxed, SameDeployments
<1>8. PICK new \in PostRow :
        /\ new.dep = sess[s].dep /\ new.route = sess[s].route
        /\ posts' = Append(posts, new)
  BY <1>2, <1>3, PostedRow
<1>9. /\ posts' \in Seq(PostRow) /\ Len(posts') = Len(posts) + 1 /\ Len(posts) \in Nat
      /\ \A n \in 1..Len(posts) : posts'[n] = posts[n]
      /\ posts'[Len(posts) + 1] = new
  BY <1>8 DEF LaunchInv, Table
<1>10. \A n \in 1..Len(posts) : PostOK(n)
  BY DEF LaunchInv
<1>11. plan' = plan /\ Len(deployment') = Len(deployment)
       /\ \A d \in 1..Len(deployment) : deployment'[d].by = deployment[d].by
  BY <1>4 DEF Post, Others, SameDeployments
<1>12. ASSUME NEW n \in 1..Len(posts') PROVE PostOK(n)'
  <2>1. CASE n \in 1..Len(posts)
    BY <2>1, <1>9, <1>10, <1>11, SMTT(60) DEF PostOK
  <2>2. CASE n = Len(posts) + 1
    <3>1. deployment[sess[s].dep].by \in Plan =>
            sess[s].route = plan[deployment[sess[s].dep].by].route
      BY <1>2, <1>3 DEF SessionOK
    <3>2. posts'[n].dep = sess[s].dep /\ posts'[n].route = sess[s].route
      BY <2>2, <1>8, <1>9
    <3>3. QED
      BY <1>3, <1>11, <3>1, <3>2 DEF PostOK
  <2>3. QED
    BY <1>9, <2>1, <2>2
<1>13. \A j \in Job : job'[j].link = job[j].link \/ (s = Worker /\ job'[j].link \in 1..Len(deployment))
  BY <1>1 DEF SameLinks
<1>14. QED
  BY <1>1, <1>4, <1>5, <1>6, <1>7, <1>9, <1>12, <1>13, OneStep

----------------------------------------------------------------------------
(* The step that records a deployment                                      *)

LEMMA RecordKeeps ==
  ASSUME LaunchInv, NEW s \in Session, Record(s), UNCHANGED <<schedule, plan>>,
         IF sess[s].by \in Job
           THEN job' = [job EXCEPT ![sess[s].by].status = "DEPLOYING",
                                   ![sess[s].by].link = Len(deployment) + 1]
           ELSE job' = job
  PROVE  LaunchInv'
<1> DEFINE by == sess[s].by
           new == Len(deployment) + 1
<1>1. /\ sess \in [Session -> SessRow] /\ sess[s] \in SessRow /\ SessionOK(s) /\ Fresh(s)
      /\ sess[s].pc = "ready" /\ deployment \in Seq(DepRow) /\ Len(deployment) \in Nat
  BY DEF LaunchInv, Table, Record
<1>2. by \in Intent /\ Spent(by) /\ sess[s].route \in Route
  BY <1>1 DEF SessionOK
<1>3. deployment' = Append(deployment,
        [by |-> by, route |-> sess[s].route, status |-> "WAITING", build |-> 0])
  BY DEF Record
<1>4. /\ deployment' \in Seq(DepRow) /\ Len(deployment') = new
      /\ \A d \in 1..Len(deployment) : deployment'[d] = deployment[d]
      /\ deployment'[new].by = by
  BY <1>1, <1>2, <1>3 DEF DepRow, Status, Active
<1>5. /\ sess' \in [Session -> SessRow] /\ \A t \in Session : t # s => sess'[t] = sess[t]
      /\ sess'[s].pc = "recorded" /\ sess'[s].dep = new
      /\ sess'[s].by = by /\ sess'[s].route = sess[s].route
  <2> DEFINE next == [sess[s] EXCEPT !.pc = "recorded", !.dep = new]
  <2>0. new \in Nat
    BY <1>1
  <2>1. next \in SessRow
    <3> HIDE DEF new
    <3>1. QED
      BY <1>1, <2>0 DEF SessRow, Pc
  <2>2. next.pc = "recorded" /\ next.dep = new /\ next.by = by /\ next.route = sess[s].route
    BY <1>1 DEF SessRow
  <2>3. sess' = [sess EXCEPT ![s] = next]
    BY <1>1 DEF Record
  <2> HIDE DEF next
  <2>4. QED
    BY <1>1, <2>1, <2>2, <2>3
<1>6. job \in [Job -> JobRow] /\ \A j \in Job : job[j].link \in 0..Len(deployment)
  BY DEF LaunchInv, Rows
<1>7. /\ job' \in [Job -> JobRow]
      /\ \A j \in Job : job'[j].link = IF j = by THEN new ELSE job[j].link
  BY <1>1, <1>6 DEF JobRow, JobStatus
<1>8. Rows'
  BY <1>7 DEF LaunchInv, Rows, Record
<1>9. Table'
  BY <1>4, <1>5 DEF Table, LaunchInv, Record
<1>10. \A i \in Intent : Spent(i) => Spent(i)'
  BY DEF Record, Spent
<1>11. \A j \in Job : job[j].link # 0 => job'[j].link # 0
  BY <1>1, <1>6, <1>7
<1>12. ASSUME NEW d \in 1..Len(deployment') PROVE DeploymentOK(d)'
  <2>1. CASE d \in 1..Len(deployment)
    BY <2>1, <1>4, <1>10, <1>11, ByIntent DEF LaunchInv, DeploymentOK, Spent
  <2>2. CASE d = new
    BY <2>2, <1>1, <1>2, <1>4, <1>7, <1>10 DEF DeploymentOK, Spent
  <2>3. QED
    BY <1>1, <1>4, <2>1, <2>2
<1>13. SessionOK(s)'
  BY <1>1, <1>2, <1>4, <1>5 DEF SessionOK, Started, Inboxed
<1>14. ASSUME NEW t \in Session, t # s PROVE SessionOK(t)'
  <2>1. sess'[t] = sess[t] /\ SessionOK(t) /\ plan' = plan /\ schedule' = schedule /\ asked' = asked
    BY <1>5, <1>14 DEF LaunchInv, Record
  <2>2. sess[t].dep # 0 => sess[t].dep \in 1..Len(deployment)
    BY <1>1, <2>1 DEF SessionOK
  <2>3. t = Worker /\ sess[t].by \in Job => job'[sess[t].by].link = job[sess[t].by].link
    <3>1. by \in Job => s = Worker
      BY <1>1 DEF SessionOK
    <3>2. QED
      BY <3>1, <1>14, <1>7
  <2>4. QED
    BY <1>1, <1>4, <2>1, <2>2, <2>3, SMTT(60) DEF SessionOK, Spent, Started
<1>15. ASSUME NEW t \in Session, sess'[t].pc = "ready" PROVE Fresh(t)'
  <2>1. t # s /\ sess'[t] = sess[t] /\ Fresh(t) /\ sess[t].by # by
    BY <1>1, <1>5, <1>15 DEF LaunchInv, Fresh
  <2>2. \A d \in 1..Len(deployment') : deployment'[d].by # sess[t].by
    BY <1>1, <1>4, <2>1 DEF Fresh
  <2>3. QED
    BY <1>5, <2>1, <2>2 DEF Fresh
<1>16. \A n \in 1..Len(posts') : PostOK(n)'
  BY <1>1, <1>4 DEF LaunchInv, PostOK, Record
<1>17. ASSUME NEW i \in Schedule PROVE ScheduleOK(i)'
  <2>1. ScheduleOK(i) /\ schedule' = schedule
    BY DEF LaunchInv
  <2>2. QED
    BY <1>1, <1>4, <2>1 DEF ScheduleOK
<1>18. ASSUME NEW j \in Job PROVE job'[j].link \in 0..Len(deployment')
  <2>1. job[j].link \in 0..Len(deployment) /\ job'[j].link \in {new, job[j].link}
    BY <1>6, <1>7
  <2>2. QED
    BY <1>1, <1>4, <2>1
<1>19. \A d, e \in 1..Len(deployment') : deployment'[d].by = deployment'[e].by => d = e
  <2>1. \A d \in 1..Len(deployment) : deployment[d].by # by
    BY <1>1 DEF Fresh
  <2>2. \A d, e \in 1..Len(deployment) : deployment[d].by = deployment[e].by => d = e
    BY DEF LaunchInv
  <2>3. QED
    BY SMTT(60), <1>1, <1>4, <2>1, <2>2
<1>20. QED
  BY <1>8, <1>9, <1>12, <1>13, <1>14, <1>15, <1>16, <1>17, <1>18, <1>19 DEF LaunchInv

----------------------------------------------------------------------------
(* The steps of schedules                                                  *)

\* A schedule's row is rewritten: it does not go back, and does not succeed.
LEMMA ScheduleRowStep ==
  ASSUME LaunchInv, NEW i \in Schedule, NEW row \in ScheduleRow,
         schedule' = [schedule EXCEPT ![i] = row],
         schedule[i].status \notin Early => row.status \notin Early,
         row.status = "SUCCEEDED" => schedule[i].status = "SUCCEEDED" /\ row.link = schedule[i].link,
         UNCHANGED <<route, deployment, posts, asked, edits, moved, job, plan>>
  PROVE  Quiet
<1>1. schedule \in [Schedule -> ScheduleRow]
  BY DEF LaunchInv, Rows
<1>2. schedule' \in [Schedule -> ScheduleRow] /\ schedule'[i] = row
      /\ \A k \in Schedule : k # i => schedule'[k] = schedule[k]
  BY <1>1
<1>3. Rows'
  BY <1>2 DEF LaunchInv, Rows
<1>4. Keeps
  BY <1>2 DEF Keeps
<1>5. SameSuccesses
  BY <1>2 DEF SameSuccesses
<1>6. QED
  BY <1>3, <1>4, <1>5, SameTable DEF Quiet, SameLinks

LEMMA StatusStep ==
  ASSUME LaunchInv, NEW i \in Schedule, NEW to \in ScheduleStatus \ {"SUCCEEDED"},
         schedule' = [schedule EXCEPT ![i].status = to],
         to = "PENDING" => schedule[i].status \in Early,
         UNCHANGED <<route, deployment, posts, asked, edits, moved, job, plan>>
  PROVE  Quiet
<1> DEFINE row == [schedule[i] EXCEPT !.status = to]
<1>1. schedule[i] \in ScheduleRow
  BY DEF LaunchInv, Rows
<1>2. row \in ScheduleRow /\ row.status = to
  BY <1>1 DEF ScheduleRow, ScheduleStatus
<1>3. schedule' = [schedule EXCEPT ![i] = row]
  OBVIOUS
<1> HIDE DEF row
<1>4. schedule[i].status \notin Early => row.status \notin Early
  BY <1>2 DEF Early, ScheduleStatus
<1>5. QED
  BY <1>2, <1>3, <1>4, ScheduleRowStep

LEMMA ScheduleRowsKeep ==
  ASSUME LaunchInv, NEW i \in Schedule, UNCHANGED <<job, plan>>,
         CreateSchedule(i) \/ ClaimTimeout(i) \/ ReleaseStaleClaim(i)
  PROVE  LaunchInv'
<1>1. UNCHANGED <<route, deployment, posts, asked, edits, moved>> /\ sess' = sess
  BY DEF CreateSchedule, ClaimTimeout, ReleaseStaleClaim, slotVars
<1>2. CASE CreateSchedule(i) \/ ReleaseStaleClaim(i)
  <2>1. PICK to \in {"PENDING", "FAILED"} :
          /\ schedule' = [schedule EXCEPT ![i].status = to]
          /\ to = "PENDING" => schedule[i].status \in Early
    BY <1>2 DEF CreateSchedule, ReleaseStaleClaim, Early
  <2>2. to \in ScheduleStatus \ {"SUCCEEDED"}
    BY DEF ScheduleStatus
  <2>3. QED
    BY <1>1, <2>1, <2>2, StatusStep, SessionlessStep
<1>3. CASE ClaimTimeout(i)
  <2> DEFINE row == [schedule[i] EXCEPT !.late = TRUE]
  <2>1. schedule[i] \in ScheduleRow
    BY DEF LaunchInv, Rows
  <2>2. row \in ScheduleRow /\ row.status = schedule[i].status /\ row.link = schedule[i].link
    BY <2>1 DEF ScheduleRow
  <2>3. schedule' = [schedule EXCEPT ![i] = row]
    BY <1>3 DEF ClaimTimeout
  <2> HIDE DEF row
  <2>4. QED
    BY <1>1, <2>2, <2>3, ScheduleRowStep, SessionlessStep
<1>4. QED
  BY <1>2, <1>3

LEMMA CancelBeginKeeps ==
  ASSUME LaunchInv, NEW s \in Session, NEW i \in Schedule, UNCHANGED <<job, plan>>,
         BeginCancel(s, i)
  PROVE  LaunchInv'
<1>1. Quiet /\ deployment' = deployment
  BY CallersRest, SameTable DEF BeginCancel, Quiet
<1>2. QED
  BY <1>1, OpensStep, Intents DEF BeginCancel

LEMMA RunDueKeeps ==
  ASSUME LaunchInv, NEW s \in Session, NEW i \in Schedule, UNCHANGED <<job, plan>>,
         RunDue(s, i)
  PROVE  LaunchInv'
<1>1. schedule' = [schedule EXCEPT ![i].status = "RUNNING"] /\ schedule[i].status = "PENDING"
      /\ UNCHANGED <<route, deployment, posts, asked, edits, moved>> /\ Opens(s, "ready", i)
  BY DEF RunDue
<1>2. Quiet
  BY <1>1, StatusStep DEF ScheduleStatus
<1>3. schedule'[i].status = "RUNNING"
  BY <1>1 DEF LaunchInv, Rows, ScheduleRow
<1>4. i \in Intent /\ i \notin Job /\ i \notin Human /\ i \notin Plan
  BY Intents
<1>5. ~Spent(i) /\ Spent(i)'
  BY <1>1, <1>3, <1>4 DEF Spent, Early
<1>6. QED
  BY <1>1, <1>2, <1>4, <1>5, OpensStep

LEMMA ScheduleSessionKeeps ==
  ASSUME LaunchInv, NEW s \in Session, UNCHANGED <<job, plan>>, CommitCancel(s) \/ FailSchedule(s)
  PROVE  LaunchInv'
<1>1. sess[s].by \in Schedule
  BY DEF CommitCancel, FailSchedule, Running, LaunchInv, SessionOK
<1>2. PICK to \in {"CANCELLED", "FAILED"} : schedule' = [schedule EXCEPT ![sess[s].by].status = to]
  BY DEF CommitCancel, FailSchedule
<1>3. UNCHANGED <<route, deployment, posts, asked, edits, moved>> /\ Ends(s)
  BY DEF CommitCancel, FailSchedule
<1>4. to \in ScheduleStatus \ {"SUCCEEDED"} /\ to # "PENDING"
  BY DEF ScheduleStatus
<1>5. Quiet
  BY <1>1, <1>2, <1>3, <1>4, StatusStep
<1>6. QED
  BY <1>3, <1>5, EndsStep

\* The link and SUCCEEDED are one write, of the deployment the runner has.
LEMMA LinkReleaseKeeps ==
  ASSUME LaunchInv, NEW s \in Session, UNCHANGED <<job, plan>>, LinkRelease(s)
  PROVE  LaunchInv'
<1>0. PICK i \in Schedule : sess[s].by = i
  BY DEF LinkRelease, Running
<1> DEFINE row == [schedule[i] EXCEPT !.status = "SUCCEEDED", !.link = sess[s].dep]
<1>1. SessionOK(s) /\ sess[s].pc = "after" /\ sess[s] \in SessRow
      /\ Len(deployment) \in Nat
  BY DEF LinkRelease, Running, LaunchInv, Table
<1>2. sess[s].dep \in 1..Len(deployment) /\ deployment[sess[s].dep].by = i
  BY <1>0, <1>1 DEF SessionOK
<1>3. UNCHANGED <<route, deployment, posts, asked, edits, moved>> /\ Ends(s)
      /\ schedule' = [schedule EXCEPT ![i] = row]
  BY <1>0 DEF LinkRelease
<1>4. schedule \in [Schedule -> ScheduleRow] /\ schedule[i] \in ScheduleRow
  BY <1>1 DEF LaunchInv, Rows
<1>5. row \in ScheduleRow /\ row.status = "SUCCEEDED" /\ row.link = sess[s].dep
  BY <1>1, <1>4 DEF ScheduleRow, ScheduleStatus, SessRow
<1> HIDE DEF row
<1>6. schedule' \in [Schedule -> ScheduleRow] /\ schedule'[i] = row
      /\ \A k \in Schedule : k # i => schedule'[k] = schedule[k]
  BY <1>1, <1>3, <1>4, <1>5
<1>7. Rows'
  BY <1>3, <1>6 DEF LaunchInv, Rows
<1>8. Keeps
  BY <1>3, <1>5, <1>6 DEF Keeps, Early
<1>9. SameDeployments
  BY <1>3, SameTable
<1>10. \A k \in Schedule : ScheduleOK(k)'
  <2>1. ASSUME NEW k \in Schedule, k # i PROVE ScheduleOK(k)'
    BY <2>1, <1>3, <1>6 DEF LaunchInv, ScheduleOK
  <2>2. ScheduleOK(i)'
    BY <1>2, <1>3, <1>5, <1>6 DEF ScheduleOK
  <2>3. QED
    BY <2>1, <2>2
<1>11. sess' \in [Session -> SessRow] /\ sess'[s] = Idle /\ \A t \in Session : t # s => sess'[t] = sess[t]
  BY <1>3, IdleRow DEF LaunchInv, Table, Ends
<1>12. SessionOK(s)' /\ sess'[s].pc # "ready"
  BY <1>1, <1>3, <1>11 DEF SessionOK, Idle, Started, Inboxed
<1>13. posts' \in Seq(PostRow) /\ \A n \in 1..Len(posts') : PostOK(n)'
  BY <1>3, <1>8, <1>9, PostsStay
<1>14. QED
  BY <1>7, <1>8, <1>9, <1>10, <1>11, <1>12, <1>13, OneStep

----------------------------------------------------------------------------
(* The steps of plans                                                      *)

\* A plan's row is rewritten: it is not used again, and stays what it was.
LEMMA PlanRowStep ==
  ASSUME LaunchInv, NEW p \in Plan, NEW row \in PlanRow, plan' = [plan EXCEPT ![p] = row],
         plan[p].status \in Used => row.status \in Used /\ row.route = plan[p].route,
         UNCHANGED <<route, deployment, posts, asked, edits, moved, schedule, job>>
  PROVE  Quiet
<1>1. plan \in [Plan -> PlanRow]
  BY DEF LaunchInv, Rows
<1>2. plan' \in [Plan -> PlanRow] /\ plan'[p] = row
      /\ \A q \in Plan : q # p => plan'[q] = plan[q]
  BY <1>1
<1>3. Rows'
  BY <1>2 DEF LaunchInv, Rows
<1>4. Keeps
  BY <1>2 DEF Keeps
<1>5. QED
  BY <1>3, <1>4, SameTable DEF Quiet, SameLinks, SameSuccesses

LEMMA PlanStatusStep ==
  ASSUME LaunchInv, NEW p \in Plan, NEW to \in PlanStatus,
         plan' = [plan EXCEPT ![p].status = to],
         plan[p].status \in Used => to \in Used,
         UNCHANGED <<route, deployment, posts, asked, edits, moved, schedule, job>>
  PROVE  Quiet
<1> DEFINE row == [plan[p] EXCEPT !.status = to]
<1>1. plan[p] \in PlanRow
  BY DEF LaunchInv, Rows
<1>2. row \in PlanRow /\ row.status = to /\ row.route = plan[p].route
  BY <1>1 DEF PlanRow
<1>3. plan' = [plan EXCEPT ![p] = row]
  OBVIOUS
<1> HIDE DEF row
<1>4. QED
  BY <1>2, <1>3, PlanRowStep

LEMMA PlanRowsKeep ==
  ASSUME LaunchInv, NEW p \in Plan, UNCHANGED <<schedule, job>>, CreatePlan(p) \/ Expire(p)
  PROVE  LaunchInv'
<1>1. UNCHANGED <<route, deployment, posts, asked, edits, moved>> /\ sess' = sess
  BY DEF CreatePlan, Expire, slotVars
<1>2. plan[p] \in PlanRow /\ route[Of[p]] \in Route
  BY SlotsAssumption, Intents DEF LaunchInv, Rows
<1>3. CASE CreatePlan(p)
  <2> DEFINE row == [plan[p] EXCEPT !.status = "pending", !.route = route[Of[p]]]
  <2>1. row \in PlanRow /\ plan[p].status \notin Used
    BY <1>2, <1>3 DEF PlanRow, PlanStatus, CreatePlan, Used
  <2>2. plan' = [plan EXCEPT ![p] = row]
    BY <1>3 DEF CreatePlan
  <2> HIDE DEF row
  <2>3. QED
    BY <1>1, <2>1, <2>2, PlanRowStep, SessionlessStep
<1>4. CASE Expire(p)
  <2> DEFINE row == [plan[p] EXCEPT !.expired = TRUE]
  <2>1. row \in PlanRow /\ row.status = plan[p].status /\ row.route = plan[p].route
    BY <1>2 DEF PlanRow
  <2>2. plan' = [plan EXCEPT ![p] = row]
    BY <1>4 DEF Expire
  <2> HIDE DEF row
  <2>3. QED
    BY <1>1, <2>1, <2>2, PlanRowStep, SessionlessStep
<1>5. QED
  BY <1>3, <1>4

LEMMA PlanBeginsKeep ==
  ASSUME LaunchInv, NEW s \in Session, NEW p \in Plan, UNCHANGED <<schedule, job>>,
         BeginApprove(s, p) \/ BeginPromote(s, p)
  PROVE  LaunchInv'
<1>1. UNCHANGED <<route, deployment, posts, asked, edits, moved, plan>>
      /\ (Opens(s, "approve", p) \/ Opens(s, "promote", p))
  BY DEF BeginApprove, BeginPromote
<1>2. Quiet
  BY <1>1, CallersRest, SameTable DEF Quiet
<1>3. QED
  BY <1>1, <1>2, OpensStep, Intents

LEMMA PlanSessionKeeps ==
  ASSUME LaunchInv, NEW s \in Session, UNCHANGED <<schedule, job>>,
         CommitApprove(s) \/ LosePlan(s) \/ EndPlan(s)
  PROVE  LaunchInv'
<1>1. UNCHANGED <<route, deployment, posts, asked, edits, moved>> /\ Ends(s)
  BY SMTT(60) DEF CommitApprove, LosePlan, EndPlan
<1>2. PICK p \in Plan : p = sess[s].by
  BY DEF CommitApprove, LosePlan, EndPlan, Executing, LaunchInv, SessionOK
<1>3. CASE plan' = plan
  BY <1>1, <1>3, CallersRest, SameTable, EndsStep DEF Quiet
<1>4. CASE plan' # plan
  <2>1. PICK to \in {"approved", "executed", "execution_failed"} :
          /\ plan' = [plan EXCEPT ![p].status = to]
          /\ to = "approved" => plan[p].status = "pending"
    BY <1>2, <1>4 DEF CommitApprove, LosePlan, EndPlan
  <2>2. to \in PlanStatus /\ (plan[p].status \in Used => to \in Used)
    BY <2>1 DEF PlanStatus, Used
  <2>3. QED
    BY <1>1, <2>1, <2>2, PlanStatusStep, EndsStep
<1>5. QED
  BY <1>3, <1>4

\* The approval is consumed before anything is recorded for it.
LEMMA ClaimPlanKeeps ==
  ASSUME LaunchInv, NEW s \in Session, UNCHANGED <<schedule, job>>, ClaimPlan(s)
  PROVE  LaunchInv'
<1>1. UNCHANGED <<route, deployment, posts, asked, edits, moved>> /\ Goes(s, "ready")
  BY DEF ClaimPlan
<1>2. SessionOK(s) /\ sess[s] \in SessRow /\ sess[s].pc = "promote" /\ sess \in [Session -> SessRow]
  BY DEF ClaimPlan, LaunchInv, Table
<1>3. PICK p \in Plan : p = sess[s].by
  BY <1>2 DEF SessionOK
<1>4. plan' = [plan EXCEPT ![p].status = "executing"] /\ plan[p].status = "approved"
  BY <1>3 DEF ClaimPlan
<1>5. Quiet
  BY <1>1, <1>4, PlanStatusStep DEF PlanStatus, Used
<1>6. plan'[p].status = "executing"
  BY <1>4 DEF LaunchInv, Rows, PlanRow
<1>7. p \in Intent /\ p \notin Job /\ p \notin Schedule /\ p \notin Human
  BY Intents
<1>8. ~Spent(p)
  BY <1>4 DEF Spent, Used
<1>9. /\ \A d \in 1..Len(deployment) : deployment[d].by # p
      /\ \A t \in Session : sess[t].pc = "ready" => sess[t].by # p
  BY <1>7, <1>8, Unspent
<1>10. /\ sess' \in [Session -> SessRow] /\ \A t \in Session : t # s => sess'[t] = sess[t]
       /\ sess'[s].pc = "ready" /\ sess'[s].dep = sess[s].dep
       /\ sess'[s].by = p /\ sess'[s].route = sess[s].route
  BY <1>1, <1>2, <1>3 DEF Goes, SessRow, Pc
<1>11. SessionOK(s)'
  BY <1>1, <1>2, <1>6, <1>7, <1>10 DEF SessionOK, Started, Inboxed, Spent, Used
<1>12. Fresh(s)'
  BY <1>1, <1>9, <1>10 DEF Fresh
<1>13. QED
  BY <1>5, <1>10, <1>11, <1>12, QuietStep

----------------------------------------------------------------------------
(* The steps of CI jobs                                                    *)

\* A job's row is rewritten, and keeps its link.
LEMMA JobRowStep ==
  ASSUME LaunchInv, NEW j \in Job, NEW row \in JobRow, job' = [job EXCEPT ![j] = row],
         row.link = job[j].link,
         UNCHANGED <<route, deployment, posts, asked, edits, moved, schedule, plan>>
  PROVE  Quiet
<1>1. job \in [Job -> JobRow]
  BY DEF LaunchInv, Rows
<1>2. job' \in [Job -> JobRow] /\ \A k \in Job : job'[k].link = job[k].link
  BY <1>1
<1>3. Rows'
  BY <1>2 DEF LaunchInv, Rows
<1>4. QED
  BY <1>2, <1>3, SameTable DEF Quiet, Keeps, SameLinks, SameSuccesses

LEMMA JobRowsKeep ==
  ASSUME LaunchInv, NEW j \in Job, UNCHANGED <<schedule, plan>>,
         Accept(j) \/ RevokeToken(j) \/ DeadlinePasses(j) \/ LeaseLapses(j)
  PROVE  LaunchInv'
<1>1. UNCHANGED <<route, deployment, posts, asked, edits, moved>> /\ sess' = sess
  BY DEF Accept, RevokeToken, DeadlinePasses, LeaseLapses, slotVars
<1>2. job[j] \in JobRow /\ route[Of[j]] \in Route
  BY SlotsAssumption, Intents DEF LaunchInv, Rows
<1>3. CASE Accept(j)
  <2> DEFINE row == [job[j] EXCEPT !.status = "WAITING_SOURCE", !.route = route[Of[j]]]
  <2>1. row \in JobRow /\ row.link = job[j].link
    BY <1>2 DEF JobRow, JobStatus
  <2>2. job' = [job EXCEPT ![j] = row]
    BY <1>3 DEF Accept
  <2> HIDE DEF row
  <2>3. QED
    BY <1>1, <2>1, <2>2, JobRowStep, SessionlessStep
<1>4. CASE RevokeToken(j)
  <2> DEFINE row == [job[j] EXCEPT !.token = FALSE]
  <2>1. row \in JobRow /\ row.link = job[j].link
    BY <1>2 DEF JobRow
  <2>2. job' = [job EXCEPT ![j] = row]
    BY <1>4 DEF RevokeToken
  <2> HIDE DEF row
  <2>3. QED
    BY <1>1, <2>1, <2>2, JobRowStep, SessionlessStep
<1>5. CASE DeadlinePasses(j)
  <2> DEFINE row == [job[j] EXCEPT !.due = TRUE]
  <2>1. row \in JobRow /\ row.link = job[j].link
    BY <1>2 DEF JobRow
  <2>2. job' = [job EXCEPT ![j] = row]
    BY <1>5 DEF DeadlinePasses
  <2> HIDE DEF row
  <2>3. QED
    BY <1>1, <2>1, <2>2, JobRowStep, SessionlessStep
<1>6. CASE LeaseLapses(j)
  <2> DEFINE row == [job[j] EXCEPT !.leased = FALSE]
  <2>1. row \in JobRow /\ row.link = job[j].link
    BY <1>2 DEF JobRow
  <2>2. job' = [job EXCEPT ![j] = row]
    BY <1>6 DEF LeaseLapses
  <2> HIDE DEF row
  <2>3. QED
    BY <1>1, <2>1, <2>2, JobRowStep, SessionlessStep
<1>7. QED
  BY <1>3, <1>4, <1>5, <1>6

LEMMA FollowPc == \A d : Follow(d) \in {"after", "recorded"}
BY DEF Follow

LEMMA LeaseKeeps ==
  ASSUME LaunchInv, NEW j \in Job, UNCHANGED <<schedule, plan>>, Lease(j)
  PROVE  LaunchInv'
<1> DEFINE row == [job[j] EXCEPT !.leased = TRUE]
           next == [pc |-> IF job[j].link = 0 THEN "advance" ELSE Follow(job[j].link),
                    by |-> j, dep |-> job[j].link, route |-> route[Of[Followed(j)]]]
<1>1. /\ UNCHANGED <<route, deployment, posts, asked, edits, moved>>
      /\ job' = [job EXCEPT ![j] = row] /\ sess' = [sess EXCEPT ![Worker] = next]
  BY DEF Lease
<1>2. /\ job \in [Job -> JobRow] /\ job[j] \in JobRow
      /\ job[j].link \in 0..Len(deployment)
      /\ Len(deployment) \in Nat /\ sess \in [Session -> SessRow]
  BY DEF LaunchInv, Rows, Table
<1>0. route[Of[Followed(j)]] \in Route
  <2>1. Followed(j) \in Intent
    BY <1>2, ByIntent, Intents DEF Followed
  <2>2. QED
    BY <2>1, SlotsAssumption DEF LaunchInv, Rows
<1>3. row \in JobRow /\ row.link = job[j].link
  BY <1>2 DEF JobRow
<1>4. j \in Intent /\ j \notin Schedule /\ j \notin Plan
  BY Intents
<1>5. next \in SessRow
  BY <1>0, <1>2, <1>4, FollowPc DEF SessRow, Pc, JobRow
<1>6. /\ next.pc = (IF job[j].link = 0 THEN "advance" ELSE Follow(job[j].link))
      /\ next.by = j /\ next.dep = job[j].link /\ next.route = route[Of[Followed(j)]]
  OBVIOUS
<1> HIDE DEF row, next
<1>7. Quiet
  BY <1>1, <1>3, JobRowStep
<1>8. job'[j].link = job[j].link
  BY <1>1, <1>2, <1>3
<1>9. /\ sess' \in [Session -> SessRow] /\ sess'[Worker] = next
      /\ \A t \in Session : t # Worker => sess'[t] = sess[t]
  BY <1>1, <1>2, <1>5, WorkerIsASession
<1>10. SessionOK(Worker)' /\ sess'[Worker].pc # "ready"
  BY <1>0, <1>1, <1>2, <1>4, <1>6, <1>8, <1>9, FollowPc DEF SessionOK, Started, Inboxed
<1>11. QED
  BY <1>7, <1>9, <1>10, QuietStep, WorkerIsASession

\* A pass of the runner ends, and the row keeps its link.
LEMMA LeavesKeeps ==
  ASSUME LaunchInv, NEW s \in Session, UNCHANGED <<schedule, plan>>, sess[s].by \in Job,
         \E status \in JobStatus : \/ Leaves(s, [JobOf(s) EXCEPT !.status = status])
                                  \/ Leaves(s, JobOf(s))
  PROVE  LaunchInv'
<1>1. PICK j \in Job : j = sess[s].by
  OBVIOUS
<1>2. job[j] \in JobRow
  BY DEF LaunchInv, Rows
<1>3. PICK row : /\ row \in JobRow /\ row.link = job[j].link
                 /\ job' = [job EXCEPT ![j] = row]
  <2>1. PICK status \in JobStatus : \/ Leaves(s, [JobOf(s) EXCEPT !.status = status])
                                   \/ Leaves(s, JobOf(s))
    OBVIOUS
  <2> DEFINE kept == [job[j] EXCEPT !.leased = FALSE]
             new == [[job[j] EXCEPT !.status = status] EXCEPT !.leased = FALSE]
  <2>2. kept \in JobRow /\ new \in JobRow /\ kept.link = job[j].link /\ new.link = job[j].link
    BY <1>2 DEF JobRow
  <2>3. job' = [job EXCEPT ![j] = kept] \/ job' = [job EXCEPT ![j] = new]
    BY <1>1, <2>1 DEF Leaves, JobOf
  <2> HIDE DEF kept, new
  <2>4. QED
    BY <2>2, <2>3
<1>4. UNCHANGED <<route, deployment, posts, asked, edits, moved>> /\ Ends(s)
  BY DEF Leaves
<1>5. Quiet
  BY <1>3, <1>4, JobRowStep
<1>6. QED
  BY <1>4, <1>5, EndsStep

LEMMA RunnerEndsKeeps ==
  ASSUME LaunchInv, NEW s \in Session, UNCHANGED <<schedule, plan>>,
         \/ RejectJob(s) \/ RejectSource(s) \/ WaitForSource(s) \/ RejectAdopted(s)
         \/ NoneToAdopt(s) \/ Track(s) \/ RetryJob(s)
  PROVE  LaunchInv'
<1>1. sess[s].by \in Job
  BY DEF RejectJob, RejectSource, WaitForSource, RejectAdopted, NoneToAdopt, Track, RetryJob,
         Advancing, LaunchInv, SessionOK, Inboxed
<1>2. \E status \in JobStatus : Leaves(s, [JobOf(s) EXCEPT !.status = status]) \/ Leaves(s, JobOf(s))
  <2>1. CASE Track(s)
    BY <2>1 DEF Track, JobVerdict, JobStatus
  <2>2. CASE WaitForSource(s) \/ NoneToAdopt(s) \/ RetryJob(s)
    <3>1. Leaves(s, JobOf(s)) /\ "FAILED" \in JobStatus
      BY <2>2 DEF WaitForSource, NoneToAdopt, RetryJob, JobStatus
    <3>2. QED
      BY <3>1
  <2>3. CASE RejectJob(s) \/ RejectSource(s) \/ RejectAdopted(s)
    <3>1. Leaves(s, [JobOf(s) EXCEPT !.status = "FAILED"]) /\ "FAILED" \in JobStatus
      BY <2>3 DEF RejectJob, RejectSource, RejectAdopted, FailJob, JobStatus
    <3>2. QED
      BY <3>1
  <2>4. QED
    BY <2>1, <2>2, <2>3
<1>3. QED
  BY <1>1, <1>2, LeavesKeeps

\* The runner goes on with a job that is linked to nothing yet.
LEMMA RunnerGoesKeeps ==
  ASSUME LaunchInv, NEW s \in Session, UNCHANGED <<schedule, plan>>,
         AskSource(s) \/ SourcePassed(s) \/ (Advancing(s) /\ Duplicate(s, "adopt") /\ UNCHANGED job)
  PROVE  LaunchInv'
<1>1. PICK pc \in {"source", "ready", "adopt"} : Goes(s, pc)
  BY DEF AskSource, SourcePassed, Duplicate
<1>2. UNCHANGED <<route, deployment, posts, asked, edits, moved, job>>
  BY DEF AskSource, SourcePassed, Duplicate
<1>3. Quiet
  BY <1>2, CallersRest, SameTable DEF Quiet
<1>4. SessionOK(s) /\ sess[s] \in SessRow /\ sess \in [Session -> SessRow]
  BY DEF LaunchInv, Table
<1>5. sess[s].pc \in {"advance", "source", "ready"} /\ sess[s].by \in Job
  BY <1>4 DEF AskSource, SourcePassed, Duplicate, Advancing, SessionOK, Inboxed
<1>6. PICK j \in Job : j = sess[s].by
  BY <1>5
<1>7. s = Worker /\ job[j].link = 0 /\ sess[s].route \in Route
  BY <1>4, <1>5, <1>6 DEF SessionOK, Inboxed
<1>8. /\ sess' \in [Session -> SessRow] /\ \A t \in Session : t # s => sess'[t] = sess[t]
      /\ sess'[s].pc = pc /\ sess'[s].dep = sess[s].dep
      /\ sess'[s].by = j /\ sess'[s].route = sess[s].route
  BY <1>1, <1>4, <1>6 DEF Goes, SessRow, Pc
<1>9. j \in Intent /\ j \notin Plan /\ j \notin Schedule /\ j \notin Human
  BY Intents
<1>10. SessionOK(s)'
  BY <1>2, <1>4, <1>7, <1>8, <1>9 DEF SessionOK, Started, Inboxed, Spent
<1>11. Fresh(s)'
  <2>1. \A d \in 1..Len(deployment) : deployment[d].by # j
    BY <1>7 DEF LaunchInv, DeploymentOK
  <2>2. \A t \in Session : sess[t].pc = "ready" /\ sess[t].by = j => t = s
    BY <1>7 DEF LaunchInv, SessionOK
  <2>3. QED
    BY <1>2, <1>8, <2>1, <2>2 DEF Fresh
<1>12. QED
  BY <1>3, <1>8, <1>10, <1>11, QuietStep

LEMMA AdoptKeeps ==
  ASSUME LaunchInv, NEW s \in Session, NEW d \in DOMAIN deployment, UNCHANGED <<schedule, plan>>,
         Adopt(s, d)
  PROVE  LaunchInv'
<1>1. /\ SessionOK(s) /\ sess[s] \in SessRow /\ sess \in [Session -> SessRow]
      /\ sess[s].pc = "adopt" /\ d \in 1..Len(deployment) /\ Len(deployment) \in Nat
  BY DEF LaunchInv, Table, Adopt
<1>2. PICK j \in Job : j = sess[s].by
  BY <1>1 DEF SessionOK, Inboxed
<1>3. s = Worker /\ sess[s].route \in Route
  BY <1>1, <1>2 DEF SessionOK, Inboxed
<1> DEFINE row == [job[j] EXCEPT !.status = "DEPLOYING", !.link = d]
           home == route[Of[deployment[d].by]]
           pc == Follow(d)
           next == [sess[s] EXCEPT !.pc = pc, !.dep = d, !.route = home]
<1>0. home \in Route
  BY <1>1, ByIntent, SlotsAssumption DEF LaunchInv, Rows
<1>4. /\ UNCHANGED <<route, deployment, posts, asked, edits, moved>>
      /\ job' = [job EXCEPT ![j] = row] /\ sess' = [sess EXCEPT ![s] = next]
  BY <1>2 DEF Adopt
<1>5. job \in [Job -> JobRow] /\ job[j] \in JobRow
  BY DEF LaunchInv, Rows
<1>6. row \in JobRow /\ row.link = d
  <2>1. d \in Nat /\ [job[j] EXCEPT !.status = "DEPLOYING"] \in JobRow
    BY <1>1, <1>5 DEF JobRow, JobStatus
  <2>2. row \in JobRow
    BY <1>5, <2>1 DEF JobRow
  <2>3. QED
    BY <1>5, <2>2 DEF JobRow
<1>7. next \in SessRow /\ next.pc = pc /\ pc \in {"after", "recorded"} /\ next.dep = d
      /\ next.by = j /\ next.route = home
  <2>0. pc \in {"after", "recorded"}
    BY FollowPc
  <2> HIDE DEF home, pc
  <2>1. d \in Nat /\ [sess[s] EXCEPT !.pc = pc] \in SessRow
    BY <1>1, <2>0, SMTT(60) DEF SessRow, Pc
  <2>2. next \in SessRow
    BY <1>0, <1>1, <2>1 DEF SessRow
  <2>3. QED
    BY <1>1, <1>2, <2>0, <2>2 DEF SessRow
<1> HIDE DEF row, next, home, pc
<1>8. /\ job' \in [Job -> JobRow] /\ job'[j].link = d
      /\ \A k \in Job : k # j => job'[k].link = job[k].link
  BY <1>4, <1>5, <1>6
<1>9. Rows'
  BY <1>4, <1>8 DEF LaunchInv, Rows
<1>10. Keeps /\ SameDeployments
  BY <1>4, SameTable DEF Keeps
<1>11. /\ sess' \in [Session -> SessRow] /\ sess'[s] = next
       /\ \A t \in Session : t # s => sess'[t] = sess[t]
  BY <1>1, <1>4, <1>7
<1>12. j \notin Schedule
  BY Intents
<1>13. SessionOK(s)' /\ sess'[s].pc # "ready"
  BY <1>0, <1>1, <1>3, <1>4, <1>7, <1>11, <1>12 DEF SessionOK, Started, Inboxed
<1>14. \A k \in Job : job'[k].link = job[k].link \/ (s = Worker /\ job'[k].link \in 1..Len(deployment))
  BY <1>1, <1>3, <1>8
<1>15. posts' \in Seq(PostRow) /\ \A n \in 1..Len(posts') : PostOK(n)'
  BY <1>4, <1>10, PostsStay
<1>16. SameSuccesses
  BY DEF SameSuccesses
<1>17. \A i \in Schedule : ScheduleOK(i)'
  BY <1>10, <1>16, SchedulesStay
<1>18. QED
  BY <1>9, <1>10, <1>11, <1>13, <1>14, <1>15, <1>17, OneStep

----------------------------------------------------------------------------
(* The theorems                                                            *)

LEMMA SlotsKeep == ASSUME LaunchInv, CopyInv, SlotsNext, Others PROVE LaunchInv'
<1>1. ASSUME NEW s \in Request, NEW h \in Human, Ask(s, h) PROVE LaunchInv'
  BY <1>1, AskKeeps DEF Session
<1>2. ASSUME NEW s \in Session, Start(s) PROVE LaunchInv'
  <2>1. CASE Record(s)
    <3>1. UNCHANGED <<schedule, plan>> /\ sess[s].by \notin Job /\ job' = job
      BY <1>2 DEF Start, Others
    <3>2. QED
      BY <2>1, <3>1, RecordKeeps
  <2>2. CASE Duplicate(s, "raised")
    BY <2>2, PlainKeeps
  <2>3. QED
    BY <1>2, <2>1, <2>2 DEF Start
<1>3. ASSUME NEW s \in Session, Dispatch(s) PROVE LaunchInv'
  BY <1>3, PlainKeeps, GuardsKeep, PostKeeps DEF Dispatch, Judges
<1>4. ASSUME NEW s \in Session, Refresh(s) \/ Raise(s) \/ Return(s) \/ Die(s) PROVE LaunchInv'
  BY <1>4, PlainKeeps DEF Judges
<1>5. ASSUME NEW s \in Session, NEW d \in DOMAIN deployment, Resume(s, d) \/ BeginRetry(s, d)
      PROVE  LaunchInv'
  BY <1>5, ResumeKeeps
<1>6. ASSUME NEW s \in Session, Flush(s) PROVE LaunchInv'
  BY <1>6, FlushKeeps
<1>7. ASSUME NEW c \in Component, NEW r \in Route, EditComponent(c, r) PROVE LaunchInv'
  BY <1>7, EditKeeps
<1>8. QED
  BY <1>1, <1>2, <1>3, <1>4, <1>5, <1>6, <1>7, WorkerIsASession DEF SlotsNext, Session

LEMMA SchedulesKeep == ASSUME LaunchInv, ScheduleNext, UNCHANGED <<job, plan>> PROVE LaunchInv'
<1>1. ASSUME NEW i \in Schedule, CreateSchedule(i) \/ ClaimTimeout(i) \/ ReleaseStaleClaim(i)
      PROVE  LaunchInv'
  BY <1>1, ScheduleRowsKeep
<1>2. ASSUME NEW s \in Session, NEW i \in Schedule, BeginCancel(s, i) PROVE LaunchInv'
  BY <1>2, CancelBeginKeeps
<1>3. ASSUME NEW s \in Session, NEW i \in Schedule, RunDue(s, i) PROVE LaunchInv'
  BY <1>3, RunDueKeeps
<1>4. ASSUME NEW s \in Session, ScheduleStep(s) PROVE LaunchInv'
  BY <1>4, ScheduleSessionKeeps, LinkReleaseKeeps DEF ScheduleStep
<1>5. QED
  BY <1>1, <1>2, <1>3, <1>4, WorkerIsASession DEF ScheduleNext, Session

LEMMA JobsKeep == ASSUME LaunchInv, JobNext, UNCHANGED <<schedule, plan>> PROVE LaunchInv'
<1>1. ASSUME NEW j \in Job, Accept(j) \/ RevokeToken(j) \/ DeadlinePasses(j) \/ LeaseLapses(j)
      PROVE  LaunchInv'
  BY <1>1, JobRowsKeep
<1>2. ASSUME NEW j \in Job, Lease(j) PROVE LaunchInv'
  BY <1>2, LeaseKeeps
<1>3. ASSUME NEW s \in Session, JobStep(s) PROVE LaunchInv'
  <2>1. CASE RecordJob(s)
    <3>1. sess[s].by \in Job /\ Record(s)
          /\ job' = [job EXCEPT ![sess[s].by].status = "DEPLOYING",
                                ![sess[s].by].link = Len(deployment) + 1]
      BY <2>1 DEF RecordJob, Advancing
    <3>2. QED
      BY <3>1, RecordKeeps
  <2>2. CASE \E d \in DOMAIN deployment : Adopt(s, d)
    BY <2>2, AdoptKeeps
  <2>3. CASE \/ RejectJob(s) \/ RejectSource(s) \/ WaitForSource(s) \/ RejectAdopted(s)
             \/ NoneToAdopt(s) \/ Track(s) \/ RetryJob(s)
    BY <2>3, RunnerEndsKeeps
  <2>4. CASE \/ AskSource(s) \/ SourcePassed(s)
             \/ (Advancing(s) /\ Duplicate(s, "adopt") /\ UNCHANGED job)
    BY <2>4, RunnerGoesKeeps
  <2>5. QED
    BY <1>3, <2>1, <2>2, <2>3, <2>4, SMTT(60) DEF JobStep
<1>4. QED
  BY <1>1, <1>2, <1>3 DEF JobNext

LEMMA PlansKeep == ASSUME LaunchInv, PlanNext, UNCHANGED <<schedule, job>> PROVE LaunchInv'
<1>1. ASSUME NEW p \in Plan, CreatePlan(p) \/ Expire(p) PROVE LaunchInv'
  BY <1>1, PlanRowsKeep
<1>2. ASSUME NEW s \in Session, NEW p \in Plan, BeginApprove(s, p) \/ BeginPromote(s, p)
      PROVE  LaunchInv'
  BY <1>2, PlanBeginsKeep
<1>3. ASSUME NEW s \in Session, PlanStep(s) PROVE LaunchInv'
  BY <1>3, PlanSessionKeeps, ClaimPlanKeeps DEF PlanStep
<1>4. QED
  BY <1>1, <1>2, <1>3 DEF PlanNext, Session

LEMMA InitEstablishes == ASSUME Init PROVE LaunchInv
<1>1. /\ deployment = <<>> /\ posts = <<>> /\ Len(deployment) = 0 /\ Len(posts) = 0
      /\ \A s \in Session : sess[s] = Idle
  BY DEF Init, SlotsInit
<1>2. Table
  BY <1>1, IdleRow DEF Init, SlotsInit, Table
<1>3. route \in [Component -> Route] /\ asked \subseteq Human
      /\ edits \in [Component -> 0..MaxEdits] /\ moved \subseteq Component
  BY DEF Init, SlotsInit
<1>4. schedule \in [Schedule -> ScheduleRow] /\ \A i \in Schedule : schedule[i].status # "SUCCEEDED"
  <2> DEFINE S == [status : {"ABSENT", "CANCELLED"}, link : {0}, late : {FALSE}]
  <2>1. ASSUME NEW r \in S PROVE r \in ScheduleRow /\ r.status # "SUCCEEDED"
    <3>1. r.status \in ScheduleStatus \cup {"ABSENT"} /\ r.status # "SUCCEEDED" /\ r.link \in Nat
      BY DEF ScheduleStatus
    <3>2. r.late \in BOOLEAN
      OBVIOUS
    <3>3. r = [status |-> r.status, link |-> r.link, late |-> r.late]
      OBVIOUS
    <3>4. QED
      BY <3>1, <3>2, <3>3, Zenon DEF ScheduleRow
  <2>2. schedule \in [Schedule -> S]
    BY DEF Init, ScheduleInit
  <2> HIDE DEF S
  <2>3. QED
    BY <2>1, <2>2
<1>5. job \in [Job -> JobRow] /\ \A j \in Job : job[j].link = 0
  <2> DEFINE S == [status : {"ABSENT"}, route : {None}, link : {0},
                   leased : {FALSE}, due : {FALSE}, token : BOOLEAN]
  <2>1. ASSUME NEW r \in S PROVE r \in JobRow /\ r.link = 0
    <3>1. /\ r.status \in JobStatus \cup {"ABSENT"} /\ r.route \in Route \cup {None}
          /\ r.link \in Nat /\ r.link = 0
      OBVIOUS
    <3>2. r.leased \in BOOLEAN /\ r.due \in BOOLEAN /\ r.token \in BOOLEAN
      OBVIOUS
    <3>3. r = [status |-> r.status, route |-> r.route, link |-> r.link,
               leased |-> r.leased, due |-> r.due, token |-> r.token]
      OBVIOUS
    <3>4. QED
      BY <3>1, <3>2, <3>3, Zenon DEF JobRow
  <2>2. job \in [Job -> S]
    BY DEF Init, JobInit
  <2> HIDE DEF S
  <2>3. QED
    BY <2>1, <2>2
<1>6. plan \in [Plan -> PlanRow]
  <2> DEFINE S == [status : {"absent", "execution_failed"}, route : {None}, expired : {FALSE}]
  <2>1. \A r \in S : r \in PlanRow
    BY DEF PlanRow, PlanStatus
  <2>2. plan \in [Plan -> S]
    BY DEF Init, PlanInit
  <2> HIDE DEF S
  <2>3. QED
    BY <2>1, <2>2
<1>7. \A s \in Session : SessionOK(s) /\ sess[s].pc # "ready"
  BY <1>1 DEF SessionOK, Idle, Started, Inboxed
<1>8. QED
  BY <1>1, <1>2, <1>3, <1>4, <1>5, <1>6, <1>7 DEF LaunchInv, Rows, ScheduleOK

----------------------------------------------------------------------------
(* The sessions' copies                                                    *)

LEMMA CopyStep ==
  ASSUME CopyInv, NEW s \in Session, NEW c \in [seen : CopyRow, mine : CopyRow],
         copy' = [copy EXCEPT ![s] = c], visits' \in 0..MaxVisits,
         \A t \in Session : t # s => sess'[t] = sess[t],
         sess'[s].pc \in {"claimed", "cleared"} => c.seen.status = "PROMOTING",
         sess'[s].pc = "told" =>
           \/ c.seen.status \in InFlight
           \/ c.seen.status = "FAILED" /\ c.mine.status = "WAITING"
  PROVE  CopyInv'
<1>1. /\ copy' \in [Session -> [seen : CopyRow, mine : CopyRow]] /\ copy'[s] = c
      /\ \A t \in Session : t # s => copy'[t] = copy[t]
  BY DEF CopyInv
<1>2. CopyOK(s)'
  BY <1>1 DEF CopyOK
<1>3. ASSUME NEW t \in Session, t # s PROVE CopyOK(t)'
  BY <1>1, <1>3 DEF CopyInv, CopyOK
<1>4. QED
  BY <1>1, <1>2, <1>3 DEF CopyInv

\* What a session learns of a row it read in flight.
LEMMA LearntStep ==
  ASSUME LaunchInv, CopyInv, NEW s \in Session, NEW row \in CopyRow, Learns(s, row),
         copy[s].seen.status \in InFlight, visits' = visits
  PROVE  CopyInv'
<1> DEFINE c == [copy[s] EXCEPT !.mine = row]
<1>1. c \in [seen : CopyRow, mine : CopyRow] /\ c.seen = copy[s].seen
  BY DEF CopyInv
<1>2. copy' = [copy EXCEPT ![s] = c] /\ visits' \in 0..MaxVisits
  BY DEF Learns, CopyInv
<1>3. sess'[s].pc \in {"after", "told"} /\ \A t \in Session : t # s => sess'[t] = sess[t]
  BY DEF Learns, Goes, LaunchInv, Table, SessRow
<1> HIDE DEF c
<1>4. QED
  BY <1>1, <1>2, <1>3, CopyStep

LEMMA ReadStep ==
  ASSUME CopyInv, NEW s \in Session, NEW row \in CopyRow, Reads(s, row),
         visits' \in 0..MaxVisits, \A t \in Session : t # s => sess'[t] = sess[t],
         sess'[s].pc \in {"claimed", "cleared"} => row.status = "PROMOTING",
         sess'[s].pc # "told"
  PROVE  CopyInv'
<1> DEFINE c == [seen |-> row, mine |-> row]
<1>1. c \in [seen : CopyRow, mine : CopyRow] /\ c.seen = row /\ copy' = [copy EXCEPT ![s] = c]
  BY DEF Reads
<1> HIDE DEF c
<1>2. QED
  BY <1>1, CopyStep

\* The copies rest while a session does something else, or nobody moves.
LEMMA CopyRests ==
  ASSUME CopyInv, copy' = copy, visits' = visits, NEW s \in Session,
         \A t \in Session : t # s => sess'[t] = sess[t],
         \/ sess'[s].pc \notin {"claimed", "cleared", "told"}
         \/ sess'[s] = sess[s]
         \/ sess'[s].pc = "cleared" /\ sess[s].pc = "claimed"
  PROVE  CopyInv'
<1>1. \A t \in Session : CopyOK(t)'
  BY DEF CopyInv, CopyOK
<1>2. QED
  BY <1>1 DEF CopyInv

LEMMA NewRow == New \in CopyRow /\ New.status = "WAITING"
BY DEF New, CopyRow, Status, Active

LEMMA RowTyped == ASSUME LaunchInv, NEW d \in 1..Len(deployment) PROVE Row(d) \in CopyRow
BY ByIntent DEF Row, CopyRow, DepRow

LEMMA CopyEnds ==
  ASSUME LaunchInv, CopyInv, NEW s \in Session, Ends(s), visits' = visits
  PROVE  CopyInv'
<1>1. Unread \in [seen : CopyRow, mine : CopyRow]
  BY NewRow DEF Unread
<1>2. /\ sess'[s] = Idle /\ \A t \in Session : t # s => sess'[t] = sess[t]
      /\ copy' = [copy EXCEPT ![s] = Unread] /\ visits' \in 0..MaxVisits
  BY DEF Ends, LaunchInv, Table, CopyInv
<1>3. sess'[s].pc = "idle"
  BY <1>2 DEF Idle
<1>4. QED
  BY <1>1, <1>2, <1>3, CopyStep

LEMMA CopyGoes ==
  ASSUME LaunchInv, CopyInv, NEW s \in Session, NEW pc, Goes(s, pc),
         pc \notin {"claimed", "cleared", "told"}, copy' = copy, visits' = visits
  PROVE  CopyInv'
<1>1. sess'[s].pc = pc /\ \A t \in Session : t # s => sess'[t] = sess[t]
  BY DEF Goes, LaunchInv, Table, SessRow
<1>2. QED
  BY <1>1, CopyRests

LEMMA CopyOpens ==
  ASSUME LaunchInv, CopyInv, NEW s \in Session, NEW pc, NEW i, Opens(s, pc, i),
         pc \notin {"claimed", "cleared", "told"}, copy' = copy, visits' = visits
  PROVE  CopyInv'
<1>1. sess'[s].pc = pc /\ \A t \in Session : t # s => sess'[t] = sess[t]
  BY DEF Opens, LaunchInv, Table, SessRow
<1>2. QED
  BY <1>1, CopyRests

LEMMA CopyIdle == ASSUME CopyInv, copy' = copy, visits' = visits, sess' = sess PROVE CopyInv'
BY CopyRests, WorkerIsASession

LEMMA JudgesKeepCopy ==
  ASSUME LaunchInv, CopyInv, NEW s \in Session, Judges(s)
  PROVE  CopyInv'
<1>1. visits' = visits /\ copy[s].seen \in CopyRow /\ CopyOK(s)
  BY Judged DEF CopyInv
<1>2. Failed(s) \in CopyRow
  BY <1>1 DEF Failed, CopyRow, Status, Active
<1>3. CASE Refuse(s) \/ GuardFails(s)
  <2>1. copy[s].seen.status \in InFlight
    BY <1>1, <1>3 DEF Refuse, GuardFails, CopyOK, InFlight
  <2>2. PICK row \in {copy[s].seen, Failed(s)} : Learns(s, row)
    BY <1>3 DEF Refuse, GuardFails
  <2>3. QED
    BY <1>1, <1>2, <2>1, <2>2, LearntStep
<1>4. CASE TimedOut(s)
  BY <1>1, <1>2, <1>4, LearntStep DEF TimedOut, Refreshing
<1>5. CASE Reconcile(s)
  <2>1. PICK n \in Made(sess[s].route) : Learns(s, [status |-> "DEPLOYING", build |-> n])
    BY <1>5 DEF Reconcile
  <2>2. n \in Nat
    BY DEF Made, LaunchInv, Table
  <2>3. [status |-> "DEPLOYING", build |-> n] \in CopyRow
    BY <2>2 DEF CopyRow, Status, Active
  <2>4. copy[s].seen.status \in InFlight
    BY <1>5 DEF Reconcile, Refreshing
  <2>5. QED
    BY <1>1, <2>1, <2>3, <2>4, LearntStep
<1>6. CASE PollBuild(s)
  <2>1. PICK status \in {"SUCCESS", "FAILED"} : Learns(s, [copy[s].seen EXCEPT !.status = status])
    BY <1>6 DEF PollBuild, Answers
  <2>2. [copy[s].seen EXCEPT !.status = status] \in CopyRow
    BY <1>1 DEF CopyRow, Status, Active
  <2>3. copy[s].seen.status \in InFlight
    BY <1>6 DEF PollBuild, Refreshing
  <2>4. QED
    BY <1>1, <2>1, <2>2, <2>3, LearntStep
<1>7. CASE PollFailure(s)
  BY <1>1, <1>7, CopyGoes DEF PollFailure
<1>8. QED
  BY <1>3, <1>4, <1>5, <1>6, <1>7 DEF Judges, Refresh

LEMMA PostKeepsCopy ==
  ASSUME LaunchInv, CopyInv, NEW s \in Session, Post(s)
  PROVE  CopyInv'
<1>1. /\ visits' = visits /\ copy[s].seen \in CopyRow /\ copy[s].seen.status \in InFlight
      /\ Len(posts) + 1 \in Nat
  BY DEF Post, CopyInv, CopyOK, InFlight, LaunchInv, Table
<1>2. PICK row \in {copy[s].seen, Failed(s), [status |-> "DEPLOYING", build |-> Len(posts) + 1]} :
        Learns(s, row)
  BY ZenonT(60) DEF Post
<1>3. row \in CopyRow
  BY <1>1, <1>2 DEF Failed, CopyRow, Status, Active
<1>4. QED
  BY <1>1, <1>2, <1>3, LearntStep

LEMMA FlushKeepsCopy ==
  ASSUME LaunchInv, CopyInv, NEW s \in Session, Flush(s)
  PROVE  CopyInv'
<1>1. copy[s].mine \in CopyRow /\ Reads(s, copy[s].mine) /\ visits' \in 0..MaxVisits
  BY DEF Flush, CopyInv
<1>2. sess'[s].pc \in {"recorded", "after"} /\ \A t \in Session : t # s => sess'[t] = sess[t]
  BY DEF Flush, Goes, LaunchInv, Table, SessRow
<1>3. QED
  BY <1>1, <1>2, ReadStep

LEMMA ClaimKeepsCopy ==
  ASSUME LaunchInv, CopyInv, NEW s \in Session, Claim(s) \/ LoseClaim(s)
  PROVE  CopyInv'
<1>1. sess[s].dep \in 1..Len(deployment) /\ visits' \in 0..MaxVisits
  BY DEF Claim, LoseClaim, LaunchInv, Table, SessionOK, Started, CopyInv
<1>2. CASE Claim(s)
  <2>1. PICK row \in CopyRow : row.status = "PROMOTING" /\ Reads(s, row)
    BY <1>2, ClaimedRow
  <2>2. sess'[s].pc = "claimed" /\ \A t \in Session : t # s => sess'[t] = sess[t]
    BY <1>2 DEF Claim, Goes, LaunchInv, Table, SessRow
  <2>3. QED
    BY <1>1, <2>1, <2>2, ReadStep
<1>3. CASE LoseClaim(s)
  <2>1. Reads(s, Row(sess[s].dep)) /\ Row(sess[s].dep) \in CopyRow
    BY <1>1, <1>3, RowTyped DEF LoseClaim
  <2>2. sess'[s].pc = "after" /\ \A t \in Session : t # s => sess'[t] = sess[t]
    BY <1>3 DEF LoseClaim, Goes, LaunchInv, Table, SessRow
  <2>3. QED
    BY <1>1, <2>1, <2>2, ReadStep
<1>4. QED
  BY <1>2, <1>3

LEMMA ResumeKeepsCopy ==
  ASSUME LaunchInv, CopyInv, NEW s \in Session, NEW d \in DOMAIN deployment,
         Resume(s, d) \/ BeginRetry(s, d)
  PROVE  CopyInv'
<1>1. /\ d \in 1..Len(deployment) /\ Row(d) \in CopyRow /\ Row(d).status = deployment[d].status
      /\ visits' \in 0..MaxVisits
  BY SlotsAssumption, RowTyped DEF Resume, BeginRetry, Visit, CopyInv, LaunchInv, Table, Row
<1>2. CASE Resume(s, d)
  <2>1. sess'[s].pc = "recorded" /\ \A t \in Session : t # s => sess'[t] = sess[t]
    BY <1>2 DEF Resume, GoesOn, LaunchInv, Table
  <2>2. QED
    BY <1>1, <1>2, <2>1, ReadStep DEF Resume
<1>3. CASE BeginRetry(s, d)
  <2> DEFINE c == [seen |-> Row(d), mine |-> New]
  <2>1. sess'[s].pc = "told" /\ \A t \in Session : t # s => sess'[t] = sess[t]
    BY <1>3 DEF BeginRetry, GoesOn, LaunchInv, Table
  <2>2. /\ c \in [seen : CopyRow, mine : CopyRow] /\ copy' = [copy EXCEPT ![s] = c]
        /\ c.seen.status = "FAILED" /\ c.mine.status = "WAITING"
    BY <1>1, <1>3, NewRow DEF BeginRetry
  <2> HIDE DEF c
  <2>3. QED
    BY <1>1, <2>1, <2>2, CopyStep
<1>4. QED
  BY <1>2, <1>3

LEMMA RecordKeepsCopy ==
  ASSUME LaunchInv, CopyInv, NEW s \in Session, Record(s)
  PROVE  CopyInv'
<1>1. sess'[s].pc = "recorded" /\ \A t \in Session : t # s => sess'[t] = sess[t]
  BY DEF Record, LaunchInv, Table, SessRow
<1>2. Reads(s, New) /\ visits' \in 0..MaxVisits
  BY DEF Record, CopyInv
<1>3. QED
  BY <1>1, <1>2, NewRow, ReadStep

LEMMA ClearKeepsCopy ==
  ASSUME LaunchInv, CopyInv, NEW s \in Session, NEW seen, Clear(s, seen)
  PROVE  CopyInv'
<1>1. /\ sess'[s].pc = "cleared" /\ sess[s].pc = "claimed"
      /\ \A t \in Session : t # s => sess'[t] = sess[t]
      /\ copy' = copy /\ visits' = visits
  BY DEF Clear, LaunchInv, Table, SessRow
<1>2. QED
  BY <1>1, CopyRests

LEMMA SlotsKeepCopy == ASSUME LaunchInv, CopyInv, SlotsNext PROVE CopyInv'
<1>1. ASSUME NEW s \in Session, NEW h \in Human, Ask(s, h) PROVE CopyInv'
  BY <1>1, CopyOpens DEF Ask
<1>2. ASSUME NEW s \in Session, Start(s) PROVE CopyInv'
  BY <1>2, RecordKeepsCopy, CopyGoes DEF Start, Duplicate
<1>3. ASSUME NEW s \in Session, Dispatch(s) PROVE CopyInv'
  BY <1>3, ClaimKeepsCopy, ClearKeepsCopy, JudgesKeepCopy, PostKeepsCopy DEF Dispatch, Guards, Judges
<1>4. ASSUME NEW s \in Session, Refresh(s) \/ Flush(s) PROVE CopyInv'
  BY <1>4, JudgesKeepCopy, FlushKeepsCopy DEF Judges
<1>5. ASSUME NEW s \in Session, Raise(s) \/ Return(s) \/ Die(s) PROVE CopyInv'
  BY <1>5, CopyGoes, CopyEnds DEF Raise, Return, Die
<1>6. ASSUME NEW c \in Component, NEW r \in Route, EditComponent(c, r) PROVE CopyInv'
  BY <1>6, CopyIdle DEF EditComponent
<1>7. QED
  BY <1>1, <1>2, <1>3, <1>4, <1>5, <1>6, ResumeKeepsCopy, WorkerIsASession DEF SlotsNext, Session

LEMMA SchedulesKeepCopy == ASSUME LaunchInv, CopyInv, ScheduleNext PROVE CopyInv'
<1>1. ASSUME NEW i \in Schedule, CreateSchedule(i) \/ ClaimTimeout(i) \/ ReleaseStaleClaim(i)
      PROVE  CopyInv'
  BY <1>1, CopyIdle DEF CreateSchedule, ClaimTimeout, ReleaseStaleClaim, slotVars
<1>2. ASSUME NEW s \in Session, NEW i \in Schedule, BeginCancel(s, i) \/ RunDue(s, i) PROVE CopyInv'
  BY <1>2, CopyOpens DEF BeginCancel, RunDue
<1>3. ASSUME NEW s \in Session, ScheduleStep(s) PROVE CopyInv'
  BY <1>3, CopyEnds DEF ScheduleStep, CommitCancel, LinkRelease, FailSchedule
<1>4. QED
  BY <1>1, <1>2, <1>3, WorkerIsASession DEF ScheduleNext, Session

LEMMA PlansKeepCopy == ASSUME LaunchInv, CopyInv, PlanNext PROVE CopyInv'
<1>1. ASSUME NEW p \in Plan, CreatePlan(p) \/ Expire(p) PROVE CopyInv'
  BY <1>1, CopyIdle DEF CreatePlan, Expire, slotVars
<1>2. ASSUME NEW s \in Session, NEW p \in Plan, BeginApprove(s, p) \/ BeginPromote(s, p) PROVE CopyInv'
  BY <1>2, CopyOpens DEF BeginApprove, BeginPromote
<1>3. ASSUME NEW s \in Session, CommitApprove(s) \/ LosePlan(s) \/ EndPlan(s) PROVE CopyInv'
  BY <1>3, CopyEnds, ZenonT(60) DEF CommitApprove, LosePlan, EndPlan
<1>4. ASSUME NEW s \in Session, ClaimPlan(s) PROVE CopyInv'
  BY <1>4, CopyGoes DEF ClaimPlan
<1>5. QED
  BY <1>1, <1>2, <1>3, <1>4 DEF PlanNext, PlanStep, Session

LEMMA JobsKeepCopy == ASSUME LaunchInv, CopyInv, JobNext PROVE CopyInv'
<1>1. ASSUME NEW j \in Job, Accept(j) \/ RevokeToken(j) \/ DeadlinePasses(j) \/ LeaseLapses(j)
      PROVE  CopyInv'
  BY <1>1, CopyIdle DEF Accept, RevokeToken, DeadlinePasses, LeaseLapses, slotVars
<1>2. ASSUME NEW s \in Session, NEW d, Follow(d) = sess'[s].pc,
             \A t \in Session : t # s => sess'[t] = sess[t],
             NEW row \in CopyRow, Reads(s, row), visits' = visits
      PROVE  CopyInv'
  <2>1. sess'[s].pc \in {"after", "recorded"} /\ visits' \in 0..MaxVisits
    BY <1>2, FollowPc DEF CopyInv
  <2>2. QED
    BY <1>2, <2>1, ReadStep
<1>3. ASSUME NEW j \in Job, Lease(j) PROVE CopyInv'
  <2>1. /\ sess'[Worker].pc = (IF job[j].link = 0 THEN "advance" ELSE Follow(job[j].link))
        /\ \A t \in Session : t # Worker => sess'[t] = sess[t]
        /\ visits' = visits /\ visits' \in 0..MaxVisits
    BY <1>3, WorkerIsASession DEF Lease, LaunchInv, Table, CopyInv
  <2>2. CASE job[j].link = 0
    BY <1>3, <2>1, <2>2, NewRow, ReadStep, WorkerIsASession DEF Lease
  <2>3. CASE job[j].link # 0
    <3>1. job[j].link \in 1..Len(deployment)
      BY <2>3 DEF LaunchInv, Table
    <3>2. Reads(Worker, Row(job[j].link)) /\ Row(job[j].link) \in CopyRow
      BY <1>3, <2>3, <3>1, RowTyped DEF Lease
    <3>3. QED
      BY <1>2, <2>1, <2>3, <3>2, WorkerIsASession
  <2>4. QED
    BY <2>2, <2>3
<1>4. ASSUME NEW s \in Session,
             \/ RejectJob(s) \/ RejectSource(s) \/ WaitForSource(s) \/ RejectAdopted(s)
             \/ NoneToAdopt(s) \/ Track(s) \/ RetryJob(s)
      PROVE  CopyInv'
  BY <1>4, CopyEnds, ZenonT(60) DEF RejectJob, RejectSource, WaitForSource, RejectAdopted, NoneToAdopt,
     Track, RetryJob, FailJob, Leaves
<1>5. ASSUME NEW s \in Session, AskSource(s) \/ SourcePassed(s) \/ Duplicate(s, "adopt")
      PROVE  CopyInv'
  BY <1>5, CopyGoes DEF AskSource, SourcePassed, Duplicate
<1>6. ASSUME NEW s \in Session, NEW d \in DOMAIN deployment, Adopt(s, d) PROVE CopyInv'
  <2>1. Reads(s, Row(d)) /\ Row(d) \in CopyRow /\ visits' = visits
    BY <1>6, RowTyped DEF Adopt, LaunchInv, Table
  <2>2. sess'[s].pc = Follow(d) /\ \A t \in Session : t # s => sess'[t] = sess[t]
    BY <1>6 DEF Adopt, LaunchInv, Table, SessRow
  <2>3. QED
    BY <1>2, <2>1, <2>2
<1>7. QED
  BY <1>1, <1>3, <1>4, <1>5, <1>6, RecordKeepsCopy DEF JobNext, JobStep, RecordJob

LEMMA CopyInitially == ASSUME Init PROVE CopyInv
<1>1. Unread \in [seen : CopyRow, mine : CopyRow]
  BY NewRow DEF Unread
<1>2. /\ copy = [s \in Session |-> Unread] /\ sess = [s \in Session |-> Idle]
      /\ visits \in 0..MaxVisits
  BY DEF Init, SlotsInit
<1>3. QED
  BY <1>1, <1>2 DEF CopyInv, CopyOK, Idle

\* Whatever the steps of the four callers, of the dispatchers and of whoever
\* repoints a component, all that LaunchInv says of the rows and sessions holds,
\* and all that CopyInv says of the copies.
THEOREM LaunchInvariant == Spec => [](LaunchInv /\ CopyInv)
<1>1. ASSUME LaunchInv, CopyInv, [Next]_vars PROVE LaunchInv' /\ CopyInv'
  <2>1. CASE UNCHANGED vars
    <3>1. UNCHANGED <<route, deployment, posts, asked, edits, moved, schedule, job, plan>>
          /\ sess' = sess /\ copy' = copy /\ visits' = visits
      BY <2>1 DEF vars, slotVars
    <3>2. Quiet
      BY <1>1, <3>1, CallersRest, SameTable DEF Quiet
    <3>3. QED
      BY <1>1, <3>1, <3>2, SessionlessStep, CopyIdle
  <2>2. CASE Next
    <3>1. LaunchInv'
      BY <1>1, <2>2, SlotsKeep, SchedulesKeep, JobsKeep, PlansKeep DEF Next, Others
    <3>2. CopyInv'
      BY <1>1, <2>2, SlotsKeepCopy, SchedulesKeepCopy, JobsKeepCopy, PlansKeepCopy DEF Next
    <3>3. QED
      BY <3>1, <3>2
  <2>3. QED
    BY <1>1, <2>1, <2>2
<1>2. QED
  BY InitEstablishes, CopyInitially, <1>1, PTL DEF Spec

\* The rows of all four callers keep their types, and every pointer into the
\* deployments table points at a row that is there.
THEOREM LaunchTypes == Spec => []LaunchTypeOK
<1>1. ASSUME LaunchInv, CopyInv PROVE LaunchTypeOK
  <2>1. deployment \in Seq(DepRow) /\ DOMAIN deployment = 1..Len(deployment) /\ Len(deployment) \in Nat
    BY <1>1 DEF LaunchInv, Table
  <2>2. posts \in Seq([dep : DOMAIN deployment, route : Route, build : Verdict \cup {"none"}])
    <3> DEFINE S == [dep : DOMAIN deployment, route : Route, build : Verdict \cup {"none"}]
    <3>1. posts \in Seq(PostRow) /\ \A n \in 1..Len(posts) : posts[n].dep \in 1..Len(deployment)
      BY <1>1 DEF LaunchInv, Table, PostOK
    <3>2. ASSUME NEW n \in 1..Len(posts) PROVE posts[n] \in S
      <4>1. posts[n] \in PostRow
        BY <3>1
      <4>2. QED
        BY <2>1, <3>1, <4>1 DEF PostRow
    <3> HIDE DEF S
    <3>3. posts \in [1..Len(posts) -> S] /\ Len(posts) \in Nat
      BY <3>1, <3>2, LenProperties
    <3>4. [1..Len(posts) -> S] \in {[1..n -> S] : n \in Nat}
      BY <3>3
    <3>5. posts \in Seq(S)
      BY <3>3, <3>4, SeqDef, Zenon
    <3>6. QED
      BY <3>5 DEF S
  <2>3. sess \in [Session ->
          [pc : Pc, by : Intent \cup {None}, dep : {0} \cup DOMAIN deployment, route : Route \cup {None}]]
    <3>1. sess \in [Session -> SessRow] /\ \A s \in Session : sess[s].dep \in 0..Len(deployment)
      BY <1>1 DEF LaunchInv, Table, SessionOK
    <3>2. \A s \in Session : sess[s].dep \in {0} \cup DOMAIN deployment
      BY <2>1, <3>1
    <3>3. QED
      BY <3>1, <3>2 DEF SessRow
  <2>4. QED
    BY <1>1, <2>1, <2>2, <2>3
    DEF LaunchInv, CopyInv, Rows, DepRow, Pc, LaunchTypeOK, SlotsTypeOK, ScheduleTypeOK, JobTypeOK, PlanTypeOK
<1>2. QED
  BY LaunchInvariant, <1>1, PTL

\* However many runners, requests and tool calls there are, and wherever each
\* of them dies, a schedule, a CI job, a plan and a user's request each lead to
\* one deployment at most.
THEOREM OneDeploymentEach == Spec => []LaunchedOnce
<1>1. ASSUME LaunchInv PROVE LaunchedOnce
  BY <1>1 DEF LaunchInv, Table, LaunchedOnce
<1>2. QED
  BY LaunchInvariant, <1>1, PTL

\* A schedule that says SUCCEEDED names a release, and the release is its own.
THEOREM SuccessIsLinked == Spec => []SucceededIsLinked
<1>1. ASSUME LaunchInv PROVE SucceededIsLinked
  BY <1>1 DEF LaunchInv, Table, ScheduleOK, SucceededIsLinked
<1>2. QED
  BY LaunchInvariant, <1>1, PTL

\* Nothing is recorded for a plan that was not approved and consumed, and
\* nothing is promoted for it anywhere but where the plan said.
THEOREM PlansAsApproved == Spec => []PlannedAsApproved
<1>1. ASSUME LaunchInv PROVE PlannedAsApproved
  <2>1. /\ DOMAIN deployment = 1..Len(deployment) /\ DOMAIN posts = 1..Len(posts)
        /\ \A d \in 1..Len(deployment) : DeploymentOK(d)
        /\ \A n \in 1..Len(posts) : PostOK(n)
    BY <1>1 DEF LaunchInv, Table
  <2>2. QED
    BY <2>1 DEF DeploymentOK, Spent, PostOK, PlannedAsApproved
<1>2. QED
  BY LaunchInvariant, <1>1, PTL

----------------------------------------------------------------------------
(* One promotion per slot                                                  *)

\* A session's copy of a route is what the component says, unless the component
\* was repointed.
SlotSession(s) ==
  /\ sess[s].pc \in {"promote", "ready", "advance", "source"} =>
       Of[sess[s].by] \in moved \/ sess[s].route = route[Of[sess[s].by]]
  /\ sess[s].pc \in Started =>
       \/ Of[deployment[sess[s].dep].by] \in moved
       \/ sess[s].route = route[Of[deployment[sess[s].dep].by]]

\* So is the slot of a deployment, and what was posted went to that slot.
SlotRow(d) == Settled(d) => deployment[d].route = route[Of[deployment[d].by]]
SlotPost(n) ==
  \/ Of[deployment[posts[n].dep].by] \in moved
  \/ posts[n].route = deployment[posts[n].dep].route

\* One deployment holds a slot.
SlotInv ==
  /\ \A s \in Session : SlotSession(s)
  /\ \A d \in 1..Len(deployment) : SlotRow(d)
  /\ \A n \in 1..Len(posts) : SlotPost(n)
  /\ \A d, e \in 1..Len(deployment) :
       /\ deployment[d].route = deployment[e].route
       /\ deployment[d].status \in Active /\ deployment[e].status \in Active
       => d = e

\* Every step but the edit of a component and the insert of a row.
SameRows ==
  /\ Len(deployment') = Len(deployment)
  /\ \A d \in 1..Len(deployment) :
       deployment'[d].by = deployment[d].by /\ deployment'[d].route = deployment[d].route
  /\ route' = route /\ moved' = moved

\* A deployment that was over takes a slot that nobody holds.
Entitled(d) ==
  deployment'[d].status \in Active =>
    \/ deployment[d].status \in Active
    \/ \A e \in 1..Len(deployment) :
         e # d /\ deployment[e].route = deployment[d].route => deployment'[e].status \notin Active

LEMMA TableFacts ==
  ASSUME LaunchInv
  PROVE  /\ deployment \in Seq(DepRow) /\ Len(deployment) \in Nat
         /\ DOMAIN deployment = 1..Len(deployment)
         /\ sess \in [Session -> SessRow]
         /\ \A s \in Session : sess[s].pc \in Started => sess[s].dep \in 1..Len(deployment)
         /\ \A n \in 1..Len(posts) : posts[n].dep \in 1..Len(deployment)
<1>1. /\ deployment \in Seq(DepRow) /\ Len(deployment) \in Nat
      /\ DOMAIN deployment = 1..Len(deployment) /\ sess \in [Session -> SessRow]
  BY DEF LaunchInv, Table
<1>2. \A s \in Session : sess[s].pc \in Started => sess[s].dep \in 1..Len(deployment)
  BY <1>1 DEF LaunchInv, SessionOK
<1>3. \A n \in 1..Len(posts) : posts[n].dep \in 1..Len(deployment)
  BY DEF LaunchInv, PostOK
<1>4. QED
  BY <1>1, <1>2, <1>3

LEMMA SlotStep ==
  ASSUME LaunchInv, SlotInv, SameRows, \A d \in 1..Len(deployment) : Entitled(d),
         NEW s \in Session, \A t \in Session : t # s => sess'[t] = sess[t], SlotSession(s)',
         \A n \in 1..Len(posts') : SlotPost(n)'
  PROVE  SlotInv'
<1>1. ASSUME NEW t \in Session PROVE SlotSession(t)'
  <2>1. CASE t # s
    <3>1. SlotSession(t) /\ sess'[t] = sess[t] /\ route' = route /\ moved' = moved
      BY <2>1 DEF SlotInv, SameRows
    <3>2. sess[t].pc \in Started =>
            sess[t].dep \in 1..Len(deployment) /\ deployment'[sess[t].dep].by = deployment[sess[t].dep].by
      BY TableFacts DEF SameRows
    <3>3. QED
      BY <2>1, <3>1, <3>2 DEF SlotSession
  <2>2. QED
    BY <2>1
<1>3. \A d \in 1..Len(deployment') : SlotRow(d)'
  BY DEF SlotInv, SameRows, SlotRow, Settled
<1>4. \A d, e \in 1..Len(deployment') :
        /\ deployment'[d].route = deployment'[e].route
        /\ deployment'[d].status \in Active /\ deployment'[e].status \in Active
        => d = e
  <2>1. SUFFICES ASSUME NEW d \in 1..Len(deployment), NEW e \in 1..Len(deployment), d # e,
                        deployment[d].route = deployment[e].route,
                        deployment'[d].status \in Active, deployment'[e].status \in Active
                 PROVE  FALSE
    BY DEF SameRows
  <2>2. deployment[d].status \in Active /\ deployment[e].status \in Active
    BY <2>1 DEF Entitled
  <2>3. QED
    BY <2>1, <2>2 DEF SlotInv
<1>5. QED
  BY <1>1, <1>3, <1>4 DEF SlotInv

LEMMA SlotPostsStay ==
  ASSUME LaunchInv, SlotInv, SameRows, posts' = posts
  PROVE  \A n \in 1..Len(posts') : SlotPost(n)'
BY TableFacts DEF SlotInv, SameRows, SlotPost

SlotsRest == UNCHANGED <<route, moved, deployment, posts>>

LEMMA SlotsRestFrame == ASSUME SlotsRest PROVE SameRows /\ \A d \in 1..Len(deployment) : Entitled(d)
BY DEF SlotsRest, SameRows, Entitled

\* A session does something while the deployments, and the components, rest.
LEMMA SlotRestStep ==
  ASSUME LaunchInv, SlotInv, SlotsRest, NEW s \in Session,
         \A t \in Session : t # s => sess'[t] = sess[t], SlotSession(s)'
  PROVE  SlotInv'
<1>1. SameRows /\ \A d \in 1..Len(deployment) : Entitled(d)
  BY SlotsRestFrame
<1>2. deployment' = deployment /\ \A n \in 1..Len(posts') : SlotPost(n)'
  BY <1>1, SlotPostsStay DEF SlotsRest
<1>3. QED
  BY <1>1, <1>2, SlotStep

LEMMA SlotIdleStep == ASSUME LaunchInv, SlotInv, SlotsRest, sess' = sess PROVE SlotInv'
<1>1. SlotSession(Worker)'
  BY WorkerIsASession DEF SlotInv, SlotsRest, SlotSession
<1>2. QED
  BY <1>1, WorkerIsASession, SlotRestStep

LEMMA SlotEndsStep ==
  ASSUME LaunchInv, SlotInv, SlotsRest, NEW s \in Session, Ends(s)
  PROVE  SlotInv'
<1>1. sess'[s] = Idle /\ \A t \in Session : t # s => sess'[t] = sess[t]
  BY TableFacts DEF Ends
<1>2. SlotSession(s)'
  BY <1>1 DEF SlotSession, Idle, Started
<1>3. QED
  BY <1>1, <1>2, SlotRestStep

LEMMA SlotOpensStep ==
  ASSUME LaunchInv, SlotInv, SlotsRest, NEW s \in Session, NEW i \in Intent,
         NEW pc \in {"ready", "cancel", "approve", "promote"}, Opens(s, pc, i)
  PROVE  SlotInv'
<1>1. /\ sess'[s] = [pc |-> pc, by |-> i, dep |-> 0, route |-> route[Of[i]]]
      /\ \A t \in Session : t # s => sess'[t] = sess[t]
  BY TableFacts DEF Opens
<1>2. SlotSession(s)'
  BY <1>1 DEF SlotSession, Started, SlotsRest
<1>3. QED
  BY <1>1, <1>2, SlotRestStep

LEMMA SlotGoesStep ==
  ASSUME LaunchInv, SlotInv, SlotsRest, NEW s \in Session,
         NEW pc \in {"raised", "after", "told", "adopt", "ready", "source"}, Goes(s, pc),
         pc \in {"ready", "source"} => sess[s].pc \in {"promote", "advance", "source"},
         pc = "told" => sess[s].pc \in Started
  PROVE  SlotInv'
<1>1. /\ sess'[s].pc = pc /\ sess'[s].by = sess[s].by /\ sess'[s].route = sess[s].route
      /\ sess'[s].dep = sess[s].dep /\ \A t \in Session : t # s => sess'[t] = sess[t]
  BY TableFacts DEF Goes, SessRow
<1>2. SlotSession(s) /\ route' = route /\ moved' = moved /\ deployment' = deployment
  BY DEF SlotInv, SlotsRest
<1>3. SlotSession(s)'
  BY <1>1, <1>2 DEF SlotSession, Started
<1>4. QED
  BY <1>1, <1>3, SlotRestStep

\* A session takes up a deployment that is there, with a copy of its component.
LEMMA SlotTakesStep ==
  ASSUME LaunchInv, SlotInv, SlotsRest, NEW s \in Session, NEW i \in Intent, NEW row \in SessRow,
         sess' = [sess EXCEPT ![s] = row], row.route = route[Of[i]],
         row.pc \in {"advance", "recorded", "told", "after"},
         row.pc = "advance" => i = row.by,
         row.pc \in Started => i = deployment[row.dep].by
  PROVE  SlotInv'
<1>1. sess'[s] = row /\ \A t \in Session : t # s => sess'[t] = sess[t]
  BY TableFacts
<1>2. SlotSession(s)'
  BY <1>1 DEF SlotSession, Started, SlotsRest
<1>3. QED
  BY <1>1, <1>2, SlotRestStep

LEMMA PutRows ==
  ASSUME LaunchInv, NEW d \in 1..Len(deployment), NEW row \in CopyRow, Puts(d, row)
  PROVE  /\ Len(deployment') = Len(deployment)
         /\ \A e \in 1..Len(deployment) :
              deployment'[e].by = deployment[e].by /\ deployment'[e].route = deployment[e].route
         /\ deployment'[d].status = row.status
         /\ \A e \in 1..Len(deployment) : e # d => deployment'[e].status = deployment[e].status
<1> DEFINE new == [deployment[d] EXCEPT !.status = row.status, !.build = row.build]
<1>1. deployment \in Seq(DepRow) /\ deployment[d] \in DepRow
  BY ByIntent, TableFacts
<1>2. deployment' = [deployment EXCEPT ![d] = new]
  BY DEF Puts
<1>3. new.by = deployment[d].by /\ new.route = deployment[d].route /\ new.status = row.status
  BY <1>1 DEF DepRow
<1> HIDE DEF new
<1>4. QED
  BY <1>1, <1>2, <1>3

\* A row is written: it held its slot already, or nobody else holds it.
LEMMA SlotPutStep ==
  ASSUME LaunchInv, SlotInv, route' = route, moved' = moved, posts' = posts,
         NEW s \in Session, \A t \in Session : t # s => sess'[t] = sess[t],
         NEW d \in 1..Len(deployment), NEW row \in CopyRow, Puts(d, row),
         deployment[d].status \in Active \/ Fits(d, row.status),
         sess'[s].pc \in Started =>
           /\ sess[s].pc \in Started
           /\ sess'[s].dep = sess[s].dep /\ sess'[s].route = sess[s].route,
         sess'[s].pc \notin {"promote", "ready", "advance", "source"}
  PROVE  SlotInv'
<1>1. SameRows /\ deployment'[d].status = row.status
      /\ \A e \in 1..Len(deployment) : e # d => deployment'[e].status = deployment[e].status
  BY PutRows DEF SameRows
<1>2. ASSUME NEW e \in 1..Len(deployment) PROVE Entitled(e)
  <2>1. CASE e # d
    BY <1>1, <2>1 DEF Entitled
  <2>2. CASE e = d
    <3>1. CASE deployment[d].status \in Active
      BY <2>2, <3>1 DEF Entitled
    <3>2. CASE Fits(d, row.status)
      BY <1>1, <2>2, <3>2, TableFacts DEF Fits, Occupies, Entitled
    <3>3. QED
      BY <3>1, <3>2
  <2>3. QED
    BY <2>1, <2>2
<1>3. \A n \in 1..Len(posts') : SlotPost(n)'
  BY <1>1, SlotPostsStay
<1>4. SlotSession(s)'
  <2>1. SlotSession(s) /\ (sess[s].pc \in Started => sess[s].dep \in 1..Len(deployment))
    BY TableFacts DEF SlotInv
  <2>2. QED
    BY <1>1, <2>1 DEF SlotSession, SameRows
<1>5. QED
  BY <1>1, <1>2, <1>3, <1>4, SlotStep

LEMMA ClaimKeepsSlots ==
  ASSUME LaunchInv, SlotInv, NEW s \in Session, Claim(s)
  PROVE  SlotInv'
<1>1. /\ sess'[s].pc = "claimed" /\ sess'[s].dep = sess[s].dep /\ sess'[s].route = sess[s].route
      /\ \A t \in Session : t # s => sess'[t] = sess[t]
  BY TableFacts DEF Claim, Goes, SessRow
<1>2. /\ sess[s].pc \in Started /\ deployment[sess[s].dep].status \in Active
      /\ route' = route /\ moved' = moved /\ posts' = posts
  BY DEF Claim, Started, Active
<1>3. PICK row \in CopyRow : Puts(sess[s].dep, row)
  BY ClaimedRow
<1>4. sess[s].dep \in 1..Len(deployment)
  BY ClaimedRow
<1>5. QED
  BY <1>1, <1>2, <1>3, <1>4, SlotPutStep

\* What is learnt is written only where it fits.
LEMMA FlushKeepsSlots ==
  ASSUME LaunchInv, CopyInv, SlotInv, NEW s \in Session, Flush(s)
  PROVE  SlotInv'
<1>1. /\ sess'[s].pc \in {"recorded", "after"} /\ sess'[s].dep = sess[s].dep
      /\ sess'[s].route = sess[s].route /\ \A t \in Session : t # s => sess'[t] = sess[t]
  BY TableFacts DEF Flush, Goes, SessRow
<1>2. sess[s].pc \in Started /\ route' = route /\ moved' = moved /\ posts' = posts
  BY DEF Flush, Started
<1>3. PICK row \in CopyRow : Puts(sess[s].dep, row) /\ Fits(sess[s].dep, row.status)
  BY FlushedRow
<1>4. sess[s].dep \in 1..Len(deployment)
  BY FlushedRow
<1>5. QED
  BY <1>1, <1>2, <1>3, <1>4, SlotPutStep

LEMMA JudgesKeepSlots ==
  ASSUME LaunchInv, SlotInv, NEW s \in Session, Judges(s)
  PROVE  SlotInv'
<1>1. SlotsRest /\ sess[s].pc \in Started
  BY Judged DEF SlotsRest, Started
<1>2. PICK pc \in {"after", "told"} : Goes(s, pc)
  BY Judged
<1>3. QED
  BY <1>1, <1>2, SlotGoesStep

\* The request goes where the session's copy says: to the deployment's slot.
LEMMA PostKeepsSlots ==
  ASSUME LaunchInv, SlotInv, NEW s \in Session, Post(s)
  PROVE  SlotInv'
<1>1. sess[s].pc = "cleared" /\ sess[s].pc \in Started
      /\ route' = route /\ moved' = moved /\ deployment' = deployment
  BY DEF Post, Started
<1>2. PICK d \in 1..Len(deployment) : d = sess[s].dep
  BY <1>1, TableFacts
<1>3. sess[s].route \in Route /\ d \in Nat
  BY <1>1, <1>2, TableFacts DEF LaunchInv, SessionOK, Started
<1>4. PICK pc \in {"after", "told"} : Goes(s, pc)
  BY <1>2, <1>3, PostedRow
<1>5. PICK new \in PostRow : new.dep = d /\ new.route = sess[s].route /\ posts' = Append(posts, new)
  BY <1>2, <1>3, PostedRow
<1>6. /\ sess'[s].pc = pc /\ sess'[s].dep = sess[s].dep /\ sess'[s].route = sess[s].route
      /\ \A t \in Session : t # s => sess'[t] = sess[t]
  BY <1>4, TableFacts DEF Goes, SessRow
<1>7. SlotSession(s) /\ SlotRow(d)
      /\ \A n \in 1..Len(posts) : SlotPost(n) /\ posts[n].dep \in 1..Len(deployment)
  BY TableFacts DEF SlotInv
<1>8. SlotSession(s)'
  BY <1>1, <1>6, <1>7 DEF SlotSession
<1>9. /\ Len(posts') = Len(posts) + 1 /\ Len(posts) \in Nat
      /\ \A n \in 1..Len(posts) : posts'[n] = posts[n]
      /\ posts'[Len(posts) + 1] = new
  BY <1>5 DEF LaunchInv, Table
<1>10. Of[deployment[d].by] \in moved \/ sess[s].route = deployment[d].route
  BY <1>1, <1>2, <1>7 DEF SlotSession, SlotRow, Settled
<1>11. ASSUME NEW n \in 1..Len(posts') PROVE SlotPost(n)'
  <2>1. CASE n \in 1..Len(posts)
    BY <1>1, <1>7, <1>9, <2>1, SMTT(60) DEF SlotPost
  <2>2. CASE n = Len(posts) + 1
    BY <1>1, <1>5, <1>9, <1>10, <2>2 DEF SlotPost
  <2>3. QED
    BY <1>9, <2>1, <2>2
<1>12. SameRows /\ \A e \in 1..Len(deployment) : Entitled(e)
  BY <1>1 DEF SameRows, Entitled
<1>13. QED
  BY <1>6, <1>8, <1>11, <1>12, SlotStep

\* Whoever goes on with a row has the route of its component as it is.
LEMMA ResumeKeepsSlots ==
  ASSUME LaunchInv, SlotInv, NEW s \in Session, NEW d \in DOMAIN deployment,
         Resume(s, d) \/ BeginRetry(s, d)
  PROVE  SlotInv'
<1>1. PICK pc \in {"recorded", "told"} : GoesOn(s, pc, d)
  BY DEF Resume, BeginRetry
<1>2. SlotsRest
  BY DEF Resume, BeginRetry, SlotsRest
<1> DEFINE row == [pc |-> pc, by |-> None, dep |-> d, route |-> route[Of[deployment[d].by]]]
<1>3. d \in 1..Len(deployment) /\ d \in Nat /\ deployment[d].by \in Intent
  BY TableFacts, ByIntent
<1>4. route[Of[deployment[d].by]] \in Route
  BY <1>3, SlotsAssumption DEF LaunchInv, Rows
<1>5. row \in SessRow
  BY <1>3, <1>4 DEF SessRow, Pc
<1>6. sess' = [sess EXCEPT ![s] = row]
  BY <1>1 DEF GoesOn
<1>7. row.pc = pc /\ row.dep = d /\ row.route = route[Of[deployment[d].by]]
  OBVIOUS
<1> HIDE DEF row
<1>8. QED
  BY <1>2, <1>3, <1>5, <1>6, <1>7, SlotTakesStep

\* A row is recorded only while nobody holds the slot of the session's copy.
LEMMA RecordKeepsSlots ==
  ASSUME LaunchInv, SlotInv, NEW s \in Session, Record(s)
  PROVE  SlotInv'
<1> DEFINE new == Len(deployment) + 1
<1>1. /\ sess[s].pc = "ready" /\ ~Taken(sess[s].route) /\ sess[s] \in SessRow
      /\ sess[s].by \in Intent /\ sess[s].route \in Route /\ SlotSession(s)
      /\ route' = route /\ moved' = moved /\ posts' = posts
  BY TableFacts DEF Record, LaunchInv, SessionOK, SlotInv
<1>2. deployment' = Append(deployment,
        [by |-> sess[s].by, route |-> sess[s].route, status |-> "WAITING", build |-> 0])
  BY DEF Record
<1>3. /\ Len(deployment) \in Nat /\ Len(deployment') = new
      /\ \A d \in 1..Len(deployment) : deployment'[d] = deployment[d]
      /\ deployment'[new].by = sess[s].by /\ deployment'[new].route = sess[s].route
  BY <1>1, <1>2, TableFacts DEF DepRow, Status, Active
<1>4. /\ sess'[s].pc = "recorded" /\ sess'[s].dep = new /\ sess'[s].route = sess[s].route
      /\ \A t \in Session : t # s => sess'[t] = sess[t]
  BY <1>1, TableFacts DEF Record, SessRow
<1>5. ASSUME NEW t \in Session PROVE SlotSession(t)'
  <2>1. CASE t = s
    BY <1>1, <1>3, <1>4, <2>1 DEF SlotSession, Started
  <2>2. CASE t # s
    <3>1. SlotSession(t) /\ sess'[t] = sess[t]
          /\ (sess[t].pc \in Started => deployment'[sess[t].dep] = deployment[sess[t].dep])
      BY <1>3, <1>4, <2>2, TableFacts DEF SlotInv
    <3>2. QED
      BY <1>1, <3>1 DEF SlotSession, Started
  <2>3. QED
    BY <2>1, <2>2
<1>7. ASSUME NEW d \in 1..new PROVE SlotRow(d)'
  <2>1. CASE d \in 1..Len(deployment)
    BY <1>1, <1>3, <2>1 DEF SlotInv, SlotRow, Settled
  <2>2. CASE d = new
    BY <1>1, <1>3, <2>2 DEF SlotSession, SlotRow, Settled
  <2>3. QED
    BY <1>3, <2>1, <2>2
<1>8. \A n \in 1..Len(posts') : SlotPost(n)'
  BY <1>1, <1>3, TableFacts DEF SlotInv, SlotPost
<1>9. \A d, e \in 1..new :
        /\ deployment'[d].route = deployment'[e].route
        /\ deployment'[d].status \in Active /\ deployment'[e].status \in Active
        => d = e
  <2>1. \A d \in 1..Len(deployment) :
          deployment[d].route = sess[s].route => deployment[d].status \notin Active
    BY <1>1, TableFacts DEF Taken, Occupies
  <2>2. SUFFICES ASSUME NEW d \in 1..new, NEW e \in 1..new, d # e,
                        deployment'[d].route = deployment'[e].route,
                        deployment'[d].status \in Active, deployment'[e].status \in Active
                 PROVE  FALSE
    OBVIOUS
  <2>3. CASE d \in 1..Len(deployment) /\ e \in 1..Len(deployment)
    BY <1>3, <2>2, <2>3 DEF SlotInv
  <2>4. CASE d = new /\ e \in 1..Len(deployment)
    BY <1>3, <2>1, <2>2, <2>4
  <2>5. CASE e = new /\ d \in 1..Len(deployment)
    BY <1>3, <2>1, <2>2, <2>5
  <2>6. QED
    <3>1. \A n \in 1..new : n = new \/ n \in 1..Len(deployment)
      BY <1>3
    <3>2. QED
      BY <2>2, <2>3, <2>4, <2>5, <3>1
<1>10. QED
  BY <1>3, <1>5, <1>7, <1>8, <1>9 DEF SlotInv

\* Nothing is said any more of a component that was repointed.
LEMMA EditKeepsSlots ==
  ASSUME LaunchInv, SlotInv, NEW c \in Component, NEW r \in Route, EditComponent(c, r)
  PROVE  SlotInv'
<1>1. /\ moved' = moved \cup {c} /\ \A k \in Component : k # c => route'[k] = route[k]
      /\ UNCHANGED <<deployment, posts, sess>>
  BY DEF EditComponent, LaunchInv, Rows
<1>2. \A i \in Intent : Of[i] \in Component
  BY SlotsAssumption
<1>3. ASSUME NEW s \in Session PROVE SlotSession(s)'
  <2>1. SlotSession(s) /\ SessionOK(s)
    BY DEF SlotInv, LaunchInv
  <2>2. sess[s].pc \in {"promote", "ready", "advance", "source"} => sess[s].by \in Intent
    BY <2>1, Intents DEF SessionOK, Inboxed
  <2>3. sess[s].pc \in Started => deployment[sess[s].dep].by \in Intent
    BY TableFacts, ByIntent
  <2>4. QED
    BY <1>1, <1>2, <2>1, <2>2, <2>3 DEF SlotSession
<1>4. \A d \in 1..Len(deployment) : SlotRow(d)'
  BY <1>1, <1>2, ByIntent DEF SlotInv, SlotRow, Settled
<1>5. \A n \in 1..Len(posts) : SlotPost(n)'
  BY <1>1 DEF SlotInv, SlotPost
<1>6. QED
  BY <1>1, <1>3, <1>4, <1>5 DEF SlotInv

LEMMA ClearKeepsSlots ==
  ASSUME LaunchInv, SlotInv, NEW s \in Session, NEW i, Clear(s, Seen(s, i))
  PROVE  SlotInv'
<1> DEFINE seen == Seen(s, i)
<1>1. /\ sess[s].pc = "claimed" /\ SlotSession(s) /\ SlotsRest
      /\ sess[s].dep \in 1..Len(deployment)
  BY TableFacts DEF Clear, SlotInv, SlotsRest, Started
<1>2. Of[deployment[sess[s].dep].by] \in moved \/ seen = route[Of[deployment[sess[s].dep].by]]
  BY <1>1 DEF Seen, Bound, SlotSession, Started
<1> HIDE DEF seen
<1>3. sess' = [sess EXCEPT ![s].pc = "cleared", ![s].route = seen]
  BY DEF Clear, seen
<1>4. /\ sess'[s].pc = "cleared" /\ sess'[s].dep = sess[s].dep /\ sess'[s].route = seen
      /\ \A t \in Session : t # s => sess'[t] = sess[t]
  BY <1>3, TableFacts DEF SessRow
<1>5. SlotSession(s)'
  BY <1>1, <1>2, <1>4 DEF SlotSession, SlotsRest, Started
<1>6. QED
  BY <1>1, <1>4, <1>5, SlotRestStep

LEMMA DispatchKeepsSlots ==
  ASSUME LaunchInv, SlotInv, NEW s \in Session, Dispatch(s)
  PROVE  SlotInv'
<1>1. CASE LoseClaim(s)
  BY <1>1, SlotGoesStep DEF LoseClaim, SlotsRest
<1>2. CASE Guards(s) \/ GuardFails(s)
  BY <1>2, ClearKeepsSlots, JudgesKeepSlots DEF Guards, Judges
<1>3. QED
  BY <1>1, <1>2, ClaimKeepsSlots, PostKeepsSlots DEF Dispatch

LEMMA SlotsNextKeepsSlots == ASSUME LaunchInv, CopyInv, SlotInv, SlotsNext PROVE SlotInv'
<1>1. ASSUME NEW s \in Request, NEW h \in Human, Ask(s, h) PROVE SlotInv'
  BY <1>1, SlotOpensStep, Intents DEF Ask, SlotsRest, Session
<1>2. ASSUME NEW s \in Session, Start(s) PROVE SlotInv'
  <2>1. CASE Duplicate(s, "raised")
    BY <2>1, SlotGoesStep DEF Duplicate, SlotsRest
  <2>2. QED
    BY <1>2, <2>1, RecordKeepsSlots DEF Start
<1>3. ASSUME NEW s \in Session, Raise(s) PROVE SlotInv'
  BY <1>3, SlotGoesStep DEF Raise, SlotsRest
<1>4. ASSUME NEW s \in Session, Return(s) \/ Die(s) PROVE SlotInv'
  BY <1>4, SlotEndsStep DEF Return, Die, SlotsRest
<1>5. ASSUME NEW s \in Session, Refresh(s) \/ Flush(s) PROVE SlotInv'
  BY <1>5, JudgesKeepSlots, FlushKeepsSlots DEF Judges
<1>6. ASSUME NEW c \in Component, NEW r \in Route, EditComponent(c, r) PROVE SlotInv'
  BY <1>6, EditKeepsSlots
<1>7. QED
  BY <1>1, <1>2, <1>3, <1>4, <1>5, <1>6, DispatchKeepsSlots, ResumeKeepsSlots, WorkerIsASession
  DEF SlotsNext, Session

LEMMA ScheduleKeepsSlots == ASSUME LaunchInv, SlotInv, ScheduleNext PROVE SlotInv'
<1>1. ASSUME NEW i \in Schedule, CreateSchedule(i) \/ ClaimTimeout(i) \/ ReleaseStaleClaim(i)
      PROVE  SlotInv'
  BY <1>1, SlotIdleStep DEF CreateSchedule, ClaimTimeout, ReleaseStaleClaim, slotVars, SlotsRest
<1>2. ASSUME NEW s \in Session, NEW i \in Schedule, BeginCancel(s, i) \/ RunDue(s, i)
      PROVE  SlotInv'
  BY <1>2, SlotOpensStep, Intents DEF BeginCancel, RunDue, SlotsRest
<1>3. ASSUME NEW s \in Session, ScheduleStep(s) PROVE SlotInv'
  BY <1>3, SlotEndsStep DEF ScheduleStep, CommitCancel, LinkRelease, FailSchedule, SlotsRest
<1>4. QED
  BY <1>1, <1>2, <1>3, WorkerIsASession DEF ScheduleNext, Session

LEMMA PlanKeepsSlots == ASSUME LaunchInv, SlotInv, PlanNext PROVE SlotInv'
<1>1. ASSUME NEW p \in Plan, CreatePlan(p) \/ Expire(p) PROVE SlotInv'
  BY <1>1, SlotIdleStep DEF CreatePlan, Expire, slotVars, SlotsRest
<1>2. ASSUME NEW s \in Session, NEW p \in Plan, BeginApprove(s, p) \/ BeginPromote(s, p)
      PROVE  SlotInv'
  BY <1>2, SlotOpensStep, Intents DEF BeginApprove, BeginPromote, SlotsRest
<1>3. ASSUME NEW s \in Session, CommitApprove(s) \/ LosePlan(s) \/ EndPlan(s) PROVE SlotInv'
  BY <1>3, SlotEndsStep DEF CommitApprove, LosePlan, EndPlan, SlotsRest
<1>4. ASSUME NEW s \in Session, ClaimPlan(s) PROVE SlotInv'
  BY <1>4, SlotGoesStep DEF ClaimPlan, SlotsRest
<1>5. QED
  BY <1>1, <1>2, <1>3, <1>4 DEF PlanNext, PlanStep, Session

\* What the worker takes up is what it follows: its own request, or the
\* deployment that the job was linked to.
LEMMA LeaseRow ==
  ASSUME LaunchInv, NEW j \in Job, Lease(j)
  PROVE  \E row \in SessRow :
           /\ sess' = [sess EXCEPT ![Worker] = row]
           /\ row.pc = (IF job[j].link = 0 THEN "advance" ELSE Follow(job[j].link))
           /\ row.by = j /\ row.dep = job[j].link /\ row.route = route[Of[Followed(j)]]
           /\ Followed(j) \in Intent
<1> DEFINE home == route[Of[Followed(j)]]
           pc == IF job[j].link = 0 THEN "advance" ELSE Follow(job[j].link)
           row == [pc |-> pc, by |-> j, dep |-> job[j].link, route |-> home]
<1>1. job[j].link \in 0..Len(deployment) /\ job[j].link \in Nat /\ j \in Intent
  BY TableFacts, Intents DEF LaunchInv
<1>2. Followed(j) \in Intent
  BY <1>1, ByIntent, TableFacts DEF Followed
<1>3. home \in Route
  BY <1>2, SlotsAssumption DEF LaunchInv, Rows
<1>4. row \in SessRow
  <2>1. pc \in {"advance", "after", "recorded"}
    BY FollowPc
  <2> HIDE DEF home, pc
  <2>2. QED
    BY <1>1, <1>3, <2>1 DEF SessRow, Pc
<1>5. sess' = [sess EXCEPT ![Worker] = row]
  BY DEF Lease
<1>6. QED
  BY <1>2, <1>4, <1>5

LEMMA JobKeepsSlots == ASSUME LaunchInv, SlotInv, JobNext PROVE SlotInv'
<1>1. ASSUME NEW j \in Job, Accept(j) \/ RevokeToken(j) \/ DeadlinePasses(j) \/ LeaseLapses(j)
      PROVE  SlotInv'
  BY <1>1, SlotIdleStep DEF Accept, RevokeToken, DeadlinePasses, LeaseLapses, slotVars, SlotsRest
<1>2. ASSUME NEW j \in Job, Lease(j) PROVE SlotInv'
  <2>1. PICK row \in SessRow :
           /\ sess' = [sess EXCEPT ![Worker] = row]
           /\ row.pc = (IF job[j].link = 0 THEN "advance" ELSE Follow(job[j].link))
           /\ row.by = j /\ row.dep = job[j].link /\ row.route = route[Of[Followed(j)]]
           /\ Followed(j) \in Intent
    BY <1>2, LeaseRow
  <2>2. SlotsRest
    BY <1>2 DEF Lease, SlotsRest
  <2>3. Followed(j) = IF job[j].link = 0 THEN j ELSE deployment[job[j].link].by
    BY SMTT(60) DEF Followed
  <2>4. QED
    <3>1. CASE job[j].link = 0
      BY <2>1, <2>2, <2>3, <3>1, SlotTakesStep, WorkerIsASession DEF Started
    <3>2. CASE job[j].link # 0
      BY <2>1, <2>2, <2>3, <3>2, FollowPc, SlotTakesStep, WorkerIsASession
    <3>3. QED
      BY <3>1, <3>2
<1>3. ASSUME NEW s \in Session,
             \/ RejectJob(s) \/ RejectSource(s) \/ WaitForSource(s) \/ RejectAdopted(s)
             \/ NoneToAdopt(s) \/ Track(s) \/ RetryJob(s)
      PROVE  SlotInv'
  BY <1>3, SlotEndsStep, ZenonT(60) DEF RejectJob, RejectSource, WaitForSource, RejectAdopted, NoneToAdopt,
     Track, RetryJob, FailJob, Leaves, SlotsRest
<1>4. ASSUME NEW s \in Session, AskSource(s) \/ SourcePassed(s) \/ Duplicate(s, "adopt")
      PROVE  SlotInv'
  BY <1>4, SlotGoesStep DEF AskSource, SourcePassed, Duplicate, SlotsRest
<1>5. ASSUME NEW s \in Session, NEW d \in DOMAIN deployment, Adopt(s, d) PROVE SlotInv'
  <2> DEFINE home == route[Of[deployment[d].by]]
  <2>1. SlotsRest /\ sess' = [sess EXCEPT ![s].pc = Follow(d), ![s].dep = d, ![s].route = home]
    BY <1>5 DEF Adopt, SlotsRest
  <2> HIDE DEF home
  <2>2. /\ sess'[s].pc \in {"after", "recorded"} /\ sess'[s].dep = d /\ sess'[s].route = home
        /\ \A t \in Session : t # s => sess'[t] = sess[t]
    BY <2>1, TableFacts, FollowPc DEF SessRow
  <2>3. SlotSession(s)'
    BY <2>1, <2>2 DEF SlotSession, SlotsRest, home
  <2>4. QED
    BY <2>1, <2>2, <2>3, SlotRestStep
<1>6. QED
  BY <1>1, <1>2, <1>3, <1>4, <1>5, RecordKeepsSlots DEF JobNext, JobStep, RecordJob

LEMMA SlotInit == ASSUME Init PROVE SlotInv
<1>1. deployment = <<>> /\ posts = <<>> /\ \A s \in Session : sess[s] = Idle
  BY DEF Init, SlotsInit
<1>2. QED
  BY <1>1 DEF SlotInv, SlotSession, Idle, Started

THEOREM SlotInvariant == Spec => []SlotInv
<1>1. ASSUME LaunchInv, CopyInv, SlotInv, [Next]_vars PROVE SlotInv'
  <2>1. CASE UNCHANGED vars
    BY <1>1, <2>1, SlotIdleStep DEF vars, slotVars, SlotsRest
  <2>2. QED
    BY <1>1, <2>1, SlotsNextKeepsSlots, ScheduleKeepsSlots, JobKeepsSlots, PlanKeepsSlots DEF Next
<1>2. QED
  BY SlotInit, <1>1, LaunchInvariant, PTL DEF Spec

\* However many schedules, jobs, plans, users and sessions there are, of two
\* deployments for which a promote request was sent to one repository one is no
\* longer active, as long as their components are not pointed elsewhere.
THEOREM PromotedOncePerSlot == Spec => []OnePromotionPerSlot
<1>1. ASSUME LaunchInv, SlotInv PROVE OnePromotionPerSlot
  <2>1. DOMAIN posts = 1..Len(posts)
    BY <1>1 DEF LaunchInv, Table
  <2>2. \A n \in 1..Len(posts) : posts[n].dep \in 1..Len(deployment) /\ SlotPost(n)
    BY <1>1, TableFacts DEF SlotInv
  <2>3. QED
    BY <1>1, <2>1, <2>2 DEF SlotInv, SlotPost, OnePromotionPerSlot, Settled
<1>2. QED
  BY LaunchInvariant, SlotInvariant, <1>1, PTL

----------------------------------------------------------------------------
(* What a job says of the deployment it follows                            *)

\* Drone has run a promotion of the build on this route, with all its stages.
Shown(r) == \E n \in 1..Len(posts) : posts[n].route = r /\ posts[n].build = "proven"

JobOK(j) ==
  /\ job[j].status = "ABSENT" => job[j].link = 0
  /\ job[j].link # 0 => deployment[job[j].link].route = job[j].route
  /\ job[j].status = "SUCCESS" => job[j].link # 0 /\ Shown(job[j].route)

\* The worker alone acts for a job that was accepted: on the route it was
\* accepted for until a deployment is recorded, and then on the one it is linked to.
JobSession(s) ==
  sess[s].by \in Job =>
    /\ s = Worker
    /\ job[sess[s].by].status # "ABSENT"
    /\ sess[s].pc \in {"source", "ready"} => sess[s].route = job[sess[s].by].route
    /\ sess[s].pc \in Started \cup {"after"} =>
         sess[s].dep # 0 /\ sess[s].dep = job[sess[s].by].link

JobOwn(d) == deployment[d].by \in Job => job[deployment[d].by].link = d

JobInv ==
  /\ \A j \in Job : JobOK(j)
  /\ \A d \in 1..Len(deployment) : JobOwn(d)
  /\ \A s \in Session : JobSession(s)

\* What Drone has run, it has run.
PostsGrow ==
  /\ Len(posts) \in Nat /\ Len(posts') \in Nat /\ Len(posts) <= Len(posts')
  /\ \A n \in 1..Len(posts) : posts'[n] = posts[n]
SameSlots ==
  /\ Len(deployment') = Len(deployment)
  /\ \A d \in 1..Len(deployment) :
       deployment'[d].by = deployment[d].by /\ deployment'[d].route = deployment[d].route

LEMMA ShownStays == ASSUME PostsGrow, NEW r, Shown(r) PROVE Shown(r)'
<1>1. PICK n \in 1..Len(posts) : posts[n].route = r /\ posts[n].build = "proven"
  BY DEF Shown
<1>2. n \in 1..Len(posts') /\ posts'[n] = posts[n]
  BY DEF PostsGrow
<1>3. QED
  BY <1>1, <1>2 DEF Shown

LEMMA SamePosts == ASSUME LaunchInv, posts' = posts PROVE PostsGrow
BY DEF PostsGrow, LaunchInv, Table

LEMMA SlotsGrow ==
  ASSUME LaunchInv, CopyInv, SlotsNext, \A s \in Session : ~Start(s)
  PROVE  SameSlots /\ PostsGrow
<1>1. CASE deployment' = deployment /\ posts' = posts
  BY <1>1, SamePosts DEF SameSlots
<1>2. ASSUME NEW s \in Session, Claim(s) \/ Flush(s) PROVE SameSlots /\ PostsGrow
  <2>1. PICK row \in CopyRow : Puts(sess[s].dep, row)
    BY <1>2, ClaimedRow, FlushedRow
  <2>2. sess[s].dep \in 1..Len(deployment)
    BY <1>2, ClaimedRow, FlushedRow
  <2>3. posts' = posts
    BY <1>2 DEF Claim, Flush
  <2>4. QED
    BY <2>1, <2>2, <2>3, PutRows, SamePosts DEF SameSlots
<1>3. ASSUME NEW s \in Session, Post(s) PROVE SameSlots /\ PostsGrow
  <2>1. sess[s].dep \in Nat /\ sess[s].route \in Route /\ deployment' = deployment
    BY <1>3, TableFacts DEF Post, LaunchInv, SessionOK, Started, SessRow
  <2>2. PICK new \in PostRow : posts' = Append(posts, new)
    BY <1>3, <2>1, PostedRow
  <2>3. PostsGrow
    BY <2>2 DEF LaunchInv, Table, PostsGrow
  <2>4. QED
    BY <2>1, <2>3 DEF SameSlots
<1>4. CASE \E s \in Session : Judges(s)
  BY <1>1, <1>4, Judged
<1>5. CASE \E s \in Session : Dispatch(s)
  <2>1. CASE \E s \in Session : LoseClaim(s) \/ \E i : Clear(s, Seen(s, i))
    BY <1>1, <2>1 DEF LoseClaim, Clear
  <2>2. QED
    BY <1>2, <1>3, <1>4, <1>5, <2>1 DEF Dispatch, Guards, Judges
<1>6. CASE \E s \in Session : Raise(s) \/ Return(s) \/ Die(s)
  BY <1>1, <1>6 DEF Raise, Return, Die
<1>7. CASE \/ \E s \in Request, h \in Human : Ask(s, h)
           \/ \E s \in Session, d \in DOMAIN deployment : Resume(s, d) \/ BeginRetry(s, d)
           \/ \E c \in Component, r \in Route : EditComponent(c, r)
  BY <1>1, <1>7 DEF Ask, Resume, BeginRetry, EditComponent
<1>8. QED
  BY <1>2, <1>4, <1>5, <1>6, <1>7, WorkerIsASession DEF SlotsNext, Session, Judges

LEMMA JobFacts ==
  ASSUME LaunchInv
  PROVE  /\ job \in [Job -> JobRow]
         /\ \A j \in Job : job[j].link # 0 => job[j].link \in 1..Len(deployment)
BY TableFacts DEF LaunchInv, Rows

\* The jobs rest while a session acts, or nobody does.
LEMMA JobRestStep ==
  ASSUME LaunchInv, JobInv, job' = job, SameSlots, PostsGrow, NEW s \in Session,
         \A t \in Session : t # s => sess'[t] = sess[t], JobSession(s)'
  PROVE  JobInv'
<1>1. \A j \in Job : JobOK(j)'
  BY JobFacts, ShownStays DEF JobInv, JobOK, SameSlots
<1>2. \A d \in 1..Len(deployment') : JobOwn(d)'
  BY DEF JobInv, JobOwn, SameSlots
<1>3. \A t \in Session : JobSession(t)'
  BY DEF JobInv, JobSession
<1>4. QED
  BY <1>1, <1>2, <1>3 DEF JobInv

\* The row of one job changes, and not where it points.
JobMoves(j, row) ==
  /\ job' = [job EXCEPT ![j] = row]
  /\ row.link = job[j].link
  /\ job[j].status # "ABSENT" => row.status # "ABSENT" /\ row.route = job[j].route
  /\ row.status = "ABSENT" => job[j].status = "ABSENT"
  /\ row.status = "SUCCESS" => row.link # 0 /\ Shown(row.route)

LEMMA JobMovesStep ==
  ASSUME LaunchInv, JobInv, deployment' = deployment, posts' = posts,
         NEW j \in Job, NEW row \in JobRow,
         JobMoves(j, row), NEW s \in Session,
         \A t \in Session : t # s => sess'[t] = sess[t],
         sess'[s] # sess[s] => JobSession(s)'
  PROVE  JobInv'
<1>1. /\ job'[j] = row /\ \A k \in Job : k # j => job'[k] = job[k]
      /\ \A k \in Job : job'[k].link = job[k].link
  BY JobFacts DEF JobMoves
<1>2. ASSUME NEW k \in Job PROVE JobOK(k)'
  <2>1. CASE k = j
    BY <1>1, <2>1 DEF JobInv, JobOK, JobMoves, Shown
  <2>2. CASE k # j
    BY <1>1, <2>2 DEF JobInv, JobOK, Shown
  <2>3. QED
    BY <2>1, <2>2
<1>3. \A d \in 1..Len(deployment') : JobOwn(d)'
  BY <1>1 DEF JobInv, JobOwn
<1>4. \A k \in Job : job[k].status # "ABSENT" => job'[k].status # "ABSENT" /\ job'[k].route = job[k].route
  BY <1>1 DEF JobMoves
<1>5. ASSUME NEW t \in Session, sess'[t] = sess[t] PROVE JobSession(t)'
  BY <1>1, <1>4, <1>5 DEF JobInv, JobSession
<1>6. QED
  BY <1>2, <1>3, <1>5 DEF JobInv

LEMMA EndedSession ==
  ASSUME LaunchInv, NEW s \in Session, Ends(s)
  PROVE  JobSession(s)' /\ \A t \in Session : t # s => sess'[t] = sess[t]
<1>1. sess'[s] = Idle /\ \A t \in Session : t # s => sess'[t] = sess[t]
  BY TableFacts DEF Ends
<1>2. QED
  BY <1>1, NoneIsNobody DEF Idle, JobSession

LEMMA OpenedSession ==
  ASSUME LaunchInv, NEW s \in Session, NEW pc, NEW i, i \notin Job, Opens(s, pc, i)
  PROVE  JobSession(s)' /\ \A t \in Session : t # s => sess'[t] = sess[t]
<1>1. sess'[s].by = i /\ \A t \in Session : t # s => sess'[t] = sess[t]
  BY TableFacts DEF Opens
<1>2. QED
  BY <1>1 DEF JobSession

\* A session goes on, for the same job and with the same row.
LEMMA GoneSession ==
  ASSUME LaunchInv, JobInv, job' = job, NEW s \in Session,
         NEW pc \in {"raised", "adopt", "recorded", "claimed", "told", "after", "ready", "source"},
         Goes(s, pc), pc \in Started \cup {"after"} => sess[s].pc \in Started,
         pc \in {"ready", "source"} /\ sess[s].by \in Job =>
           sess[s].route = job[sess[s].by].route
  PROVE  JobSession(s)' /\ \A t \in Session : t # s => sess'[t] = sess[t]
<1>1. /\ sess'[s].pc = pc /\ sess'[s].by = sess[s].by /\ sess'[s].dep = sess[s].dep
      /\ sess'[s].route = sess[s].route /\ \A t \in Session : t # s => sess'[t] = sess[t]
  BY TableFacts DEF Goes, SessRow
<1>2. JobSession(s)
  BY DEF JobInv
<1>3. QED
  BY <1>1, <1>2 DEF JobSession, Started

LEMMA SlotsKeepJobs ==
  ASSUME LaunchInv, CopyInv, JobInv, SlotsNext, job' = job, \A s \in Session : ~Start(s)
  PROVE  JobInv'
<1>1. SameSlots /\ PostsGrow
  BY SlotsGrow
<1>2. ASSUME NEW s \in Session, JobSession(s)', \A t \in Session : t # s => sess'[t] = sess[t]
      PROVE  JobInv'
  BY <1>1, <1>2, JobRestStep
<1>3. ASSUME NEW s \in Request, NEW h \in Human, Ask(s, h) PROVE JobInv'
  BY <1>2, <1>3, OpenedSession, Intents DEF Ask, Session
<1>4. ASSUME NEW s \in Session,
             Claim(s) \/ LoseClaim(s) \/ Judges(s) \/ Flush(s) \/ Post(s) \/ Raise(s)
      PROVE  JobInv'
  <2>1. PICK pc \in {"raised", "recorded", "claimed", "told", "after"} :
          Goes(s, pc) /\ (pc \in Started \cup {"after"} => sess[s].pc \in Started)
    <3>1. CASE Post(s)
      BY <3>1, ZenonT(60) DEF Post, Learns, Started
    <3>2. CASE Judges(s)
      BY <3>2, Judged DEF Started
    <3>3. CASE Claim(s) \/ LoseClaim(s) \/ Flush(s) \/ Raise(s)
      BY <3>3 DEF Claim, LoseClaim, Flush, Raise, Started
    <3>4. QED
      BY <1>4, <3>1, <3>2, <3>3
  <2>2. QED
    BY <1>2, <2>1, GoneSession
<1>5. ASSUME NEW s \in Session, NEW i, Clear(s, Seen(s, i)) PROVE JobInv'
  <2> DEFINE seen == Seen(s, i)
  <2> HIDE DEF seen
  <2>1. sess[s].pc = "claimed" /\ sess' = [sess EXCEPT ![s].pc = "cleared", ![s].route = seen]
    BY <1>5 DEF Clear, seen
  <2>2. /\ sess'[s].pc = "cleared" /\ sess'[s].by = sess[s].by /\ sess'[s].dep = sess[s].dep
        /\ \A t \in Session : t # s => sess'[t] = sess[t]
    BY <2>1, TableFacts DEF SessRow
  <2>3. JobSession(s)
    BY DEF JobInv
  <2>4. JobSession(s)'
    BY <2>1, <2>2, <2>3 DEF JobSession, Started
  <2>5. QED
    BY <1>2, <2>2, <2>4
<1>6. ASSUME NEW s \in Session, Return(s) \/ Die(s) PROVE JobInv'
  BY <1>2, <1>6, EndedSession DEF Return, Die
<1>7. ASSUME NEW s \in Session, NEW d \in DOMAIN deployment, Resume(s, d) \/ BeginRetry(s, d)
      PROVE  JobInv'
  <2>2. sess'[s].by = None /\ \A t \in Session : t # s => sess'[t] = sess[t]
    BY <1>7, TableFacts DEF Resume, BeginRetry, GoesOn
  <2>3. JobSession(s)'
    BY <2>2, NoneIsNobody DEF JobSession
  <2>4. QED
    BY <1>2, <2>2, <2>3
<1>8. CASE sess' = sess
  <2>1. JobSession(Worker)'
    BY <1>8, WorkerIsASession DEF JobInv, JobSession
  <2>2. QED
    BY <1>2, <1>8, <2>1, WorkerIsASession
<1>9. ASSUME NEW s \in Session, Dispatch(s) PROVE JobInv'
  BY <1>4, <1>5, <1>9 DEF Dispatch, Guards, Judges
<1>10. QED
  BY <1>3, <1>4, <1>6, <1>7, <1>8, <1>9, WorkerIsASession
  DEF SlotsNext, EditComponent, Session, Judges

\* What is recorded for a job is linked to it in the same commit, in the slot
\* that the job was accepted for.
LEMMA RecordKeepsJobs ==
  ASSUME LaunchInv, JobInv, NEW s \in Session, Record(s),
         IF sess[s].by \in Job
           THEN job' = [job EXCEPT ![sess[s].by].status = "DEPLOYING",
                                   ![sess[s].by].link = Len(deployment) + 1]
           ELSE job' = job
  PROVE  JobInv'
<1> DEFINE new == Len(deployment) + 1
           by == sess[s].by
<1>1. /\ sess[s].pc = "ready" /\ sess[s] \in SessRow /\ SessionOK(s) /\ JobSession(s)
      /\ by \in Intent /\ sess[s].route \in Route /\ Fresh(s)
  BY TableFacts DEF Record, LaunchInv, SessionOK, JobInv
<1>2. deployment' = Append(deployment,
        [by |-> by, route |-> sess[s].route, status |-> "WAITING", build |-> 0])
  BY DEF Record
<1>3. /\ Len(deployment) \in Nat /\ Len(deployment') = new /\ new \in Nat
      /\ \A d \in 1..Len(deployment) : deployment'[d] = deployment[d]
      /\ deployment'[new].by = by /\ deployment'[new].route = sess[s].route
      /\ posts' = posts
  BY <1>1, <1>2, TableFacts DEF Record, DepRow, Status, Active
<1>4. /\ sess'[s].pc = "recorded" /\ sess'[s].dep = new /\ sess'[s].by = by
      /\ \A t \in Session : t # s => sess'[t] = sess[t]
  BY <1>1, TableFacts DEF Record, SessRow
<1>5. \A j \in Job : j # by => job'[j] = job[j]
  BY JobFacts
<1>6. by \in Job => /\ job'[by].status = "DEPLOYING" /\ job'[by].link = new
                    /\ job'[by].route = job[by].route
                    /\ job[by].link = 0 /\ sess[s].route = job[by].route
  <2>1. SUFFICES ASSUME by \in Job
                 PROVE  /\ job'[by].status = "DEPLOYING" /\ job'[by].link = new
                        /\ job'[by].route = job[by].route
                        /\ job[by].link = 0 /\ sess[s].route = job[by].route
    OBVIOUS
  <2>2. job[by] \in JobRow /\ job[by].link = 0 /\ sess[s].route = job[by].route
    BY <1>1, <2>1, JobFacts DEF SessionOK, JobSession
  <2>3. job' = [job EXCEPT ![by] = [job[by] EXCEPT !.status = "DEPLOYING", !.link = new]]
    BY <2>1
  <2> HIDE DEF new, by
  <2>4. QED
    BY <2>1, <2>2, <2>3, JobFacts DEF JobRow
<1> HIDE DEF by
<1>7. ASSUME NEW j \in Job PROVE JobOK(j)'
  <2>1. JobOK(j) /\ (job[j].link # 0 => job[j].link \in 1..Len(deployment))
    BY JobFacts DEF JobInv
  <2>2. CASE j = by
    BY <1>3, <1>6, <2>2 DEF JobOK
  <2>3. CASE j # by
    BY <1>3, <1>5, <2>1, <2>3 DEF JobOK, Shown
  <2>4. QED
    BY <2>2, <2>3
<1>8. ASSUME NEW d \in 1..Len(deployment') PROVE JobOwn(d)'
  <2>1. CASE d \in 1..Len(deployment)
    <3>1. JobOwn(d) /\ deployment[d].by # by
      BY <1>1, <2>1 DEF JobInv, Fresh, by
    <3>2. QED
      BY <1>3, <1>5, <2>1, <3>1 DEF JobOwn
  <2>2. CASE d = new
    BY <1>3, <1>6, <2>2 DEF JobOwn
  <2>3. QED
    BY <1>3, <2>1, <2>2
<1>9. ASSUME NEW t \in Session PROVE JobSession(t)'
  <2>1. CASE t = s
    BY <1>1, <1>3, <1>4, <1>6, <2>1 DEF JobSession, Started, by
  <2>2. CASE t # s
    <3>1. JobSession(t) /\ sess'[t] = sess[t]
      BY <1>4, <2>2 DEF JobInv
    <3>2. sess[t].by \in Job => sess[t].by # by
      <4>1. by \in Job => s = Worker
        BY <1>1 DEF JobSession, by
      <4>2. QED
        BY <2>2, <3>1, <4>1 DEF JobSession
    <3>3. QED
      BY <1>5, <3>1, <3>2 DEF JobSession
  <2>3. QED
    BY <2>1, <2>2
<1>10. QED
  BY <1>7, <1>8, <1>9, SMTT(60) DEF JobInv

LEMMA StartKeepsJobs ==
  ASSUME LaunchInv, JobInv, NEW s \in Session, Start(s), job' = job
  PROVE  JobInv'
<1>1. CASE Record(s)
  BY <1>1, RecordKeepsJobs DEF Start
<1>2. CASE Duplicate(s, "raised")
  <2>1. SameSlots /\ PostsGrow
    BY <1>2, SamePosts DEF Duplicate, SameSlots
  <2>2. JobSession(s)' /\ \A t \in Session : t # s => sess'[t] = sess[t]
    BY <1>2, GoneSession DEF Duplicate, Started
  <2>3. QED
    BY <2>1, <2>2, JobRestStep
<1>3. QED
  BY <1>1, <1>2 DEF Start

LEMMA CallersKeepJobs ==
  ASSUME LaunchInv, JobInv, ScheduleNext \/ PlanNext, job' = job
  PROVE  JobInv'
<1>1. ASSUME deployment' = deployment, posts' = posts, NEW s \in Session,
             JobSession(s)', \A t \in Session : t # s => sess'[t] = sess[t]
      PROVE  JobInv'
  BY <1>1, JobRestStep, SamePosts DEF SameSlots
<1>2. ASSUME deployment' = deployment, posts' = posts, sess' = sess PROVE JobInv'
  <2>1. JobSession(Worker)'
    BY <1>2, WorkerIsASession DEF JobInv, JobSession
  <2>2. QED
    BY <1>1, <1>2, <2>1, WorkerIsASession
<1>3. CASE \/ \E i \in Schedule : CreateSchedule(i) \/ ClaimTimeout(i) \/ ReleaseStaleClaim(i)
           \/ \E p \in Plan : CreatePlan(p) \/ Expire(p)
  BY <1>2, <1>3 DEF CreateSchedule, ClaimTimeout, ReleaseStaleClaim, CreatePlan, Expire, slotVars
<1>4. ASSUME NEW s \in Session, NEW i \in Schedule, BeginCancel(s, i) \/ RunDue(s, i)
      PROVE  JobInv'
  BY <1>1, <1>4, OpenedSession, Intents DEF BeginCancel, RunDue
<1>5. ASSUME NEW s \in Session, NEW p \in Plan, BeginApprove(s, p) \/ BeginPromote(s, p)
      PROVE  JobInv'
  BY <1>1, <1>5, OpenedSession, Intents DEF BeginApprove, BeginPromote
<1>6. ASSUME NEW s \in Session,
             \/ CommitCancel(s) \/ LinkRelease(s) \/ FailSchedule(s)
             \/ CommitApprove(s) \/ LosePlan(s) \/ EndPlan(s)
      PROVE  JobInv'
  BY <1>1, <1>6, EndedSession
  DEF CommitCancel, LinkRelease, FailSchedule, CommitApprove, LosePlan, EndPlan
<1>7. ASSUME NEW s \in Session, ClaimPlan(s) PROVE JobInv'
  <2>1. sess[s].by \in Plan /\ sess[s].by \notin Job
    BY <1>7, Intents DEF ClaimPlan, LaunchInv, SessionOK
  <2>2. JobSession(s)' /\ \A t \in Session : t # s => sess'[t] = sess[t]
    BY <1>7, <2>1, GoneSession DEF ClaimPlan, Started
  <2>3. QED
    BY <1>1, <1>7, <2>2 DEF ClaimPlan
<1>8. QED
  BY <1>3, <1>4, <1>5, <1>6, <1>7, WorkerIsASession
  DEF ScheduleNext, ScheduleStep, PlanNext, PlanStep, Session

\* Somebody else writes the job's row: the endpoint, the administrator, a clock.
LEMMA JobRowsKeepJobs ==
  ASSUME LaunchInv, JobInv, NEW j \in Job,
         Accept(j) \/ RevokeToken(j) \/ DeadlinePasses(j) \/ LeaseLapses(j)
  PROVE  JobInv'
<1>1. /\ deployment' = deployment /\ posts' = posts /\ sess' = sess
      /\ job[j] \in JobRow /\ JobOK(j) /\ route[Of[j]] \in Route
  BY JobFacts, SlotsAssumption, Intents
  DEF Accept, RevokeToken, DeadlinePasses, LeaseLapses, slotVars, JobInv, LaunchInv, Rows
<1>2. PICK row \in JobRow : JobMoves(j, row)
  <2>1. CASE Accept(j)
    <3> DEFINE row == [job[j] EXCEPT !.status = "WAITING_SOURCE", !.route = route[Of[j]]]
    <3>1. /\ row \in JobRow /\ row.link = job[j].link /\ row.status = "WAITING_SOURCE"
          /\ job[j].status = "ABSENT" /\ job' = [job EXCEPT ![j] = row]
      BY <1>1, <2>1 DEF Accept, JobRow, JobStatus
    <3> HIDE DEF row
    <3>2. QED
      BY <3>1 DEF JobMoves
  <2>2. ASSUME NEW row, row \in JobRow, job' = [job EXCEPT ![j] = row],
               row.link = job[j].link, row.status = job[j].status, row.route = job[j].route
        PROVE  JobMoves(j, row)
    BY <1>1, <2>2 DEF JobMoves, JobOK
  <2>3. CASE RevokeToken(j)
    <3> DEFINE row == [job[j] EXCEPT !.token = FALSE]
    <3>1. /\ row \in JobRow /\ job' = [job EXCEPT ![j] = row] /\ row.link = job[j].link
          /\ row.status = job[j].status /\ row.route = job[j].route
      BY <1>1, <2>3 DEF RevokeToken, JobRow
    <3> HIDE DEF row
    <3>2. QED
      BY <2>2, <3>1
  <2>4. CASE DeadlinePasses(j)
    <3> DEFINE row == [job[j] EXCEPT !.due = TRUE]
    <3>1. /\ row \in JobRow /\ job' = [job EXCEPT ![j] = row] /\ row.link = job[j].link
          /\ row.status = job[j].status /\ row.route = job[j].route
      BY <1>1, <2>4 DEF DeadlinePasses, JobRow
    <3> HIDE DEF row
    <3>2. QED
      BY <2>2, <3>1
  <2>5. CASE LeaseLapses(j)
    <3> DEFINE row == [job[j] EXCEPT !.leased = FALSE]
    <3>1. /\ row \in JobRow /\ job' = [job EXCEPT ![j] = row] /\ row.link = job[j].link
          /\ row.status = job[j].status /\ row.route = job[j].route
      BY <1>1, <2>5 DEF LeaseLapses, JobRow
    <3> HIDE DEF row
    <3>2. QED
      BY <2>2, <3>1
  <2>6. QED
    BY <2>1, <2>3, <2>4, <2>5
<1>3. QED
  BY <1>1, <1>2, JobMovesStep, WorkerIsASession

LEMMA LeaseKeepsJobs ==
  ASSUME LaunchInv, JobInv, NEW j \in Job, Lease(j)
  PROVE  JobInv'
<1>1. PICK next \in SessRow :
         /\ sess' = [sess EXCEPT ![Worker] = next]
         /\ next.pc = (IF job[j].link = 0 THEN "advance" ELSE Follow(job[j].link))
         /\ next.by = j /\ next.dep = job[j].link /\ next.route = route[Of[Followed(j)]]
         /\ Followed(j) \in Intent
  BY LeaseRow
<1>2. /\ sess'[Worker] = next /\ \A t \in Session : t # Worker => sess'[t] = sess[t]
      /\ job[j] \in JobRow /\ JobOK(j) /\ job[j].status # "ABSENT" /\ job[j].status # "SUCCESS"
      /\ deployment' = deployment /\ posts' = posts
  BY <1>1, TableFacts, JobFacts, WorkerIsASession DEF Lease, JobTerminal, JobInv
<1> DEFINE row == [job[j] EXCEPT !.leased = TRUE]
<1>3. /\ row \in JobRow /\ row.link = job[j].link /\ row.status = job[j].status
      /\ row.route = job[j].route /\ job' = [job EXCEPT ![j] = row]
  BY <1>2 DEF Lease, JobRow
<1> HIDE DEF row
<1>4. JobMoves(j, row)
  BY <1>2, <1>3 DEF JobMoves
<1>5. job'[j].status # "ABSENT" /\ job'[j].link = job[j].link
  BY <1>2, <1>3, JobFacts
<1>6. JobSession(Worker)'
  BY <1>1, <1>2, <1>5, FollowPc DEF JobSession, Started
<1>7. QED
  BY <1>2, <1>3, <1>4, <1>6, JobMovesStep, WorkerIsASession

\* A pass ends: SUCCESS is written on what Drone has shown, or stays.
LEMMA LeavesKeepsJobs ==
  ASSUME LaunchInv, JobInv, NEW s \in Session, sess[s].by \in Job,
         \/ Leaves(s, JobOf(s))
         \/ \E status \in JobStatus :
              /\ Leaves(s, [JobOf(s) EXCEPT !.status = status])
              /\ status = "SUCCESS" => /\ job[sess[s].by].link # 0
                                       /\ Shown(job[sess[s].by].route)
  PROVE  JobInv'
<1>1. PICK j \in Job : j = sess[s].by
  OBVIOUS
<1>2. job[j] \in JobRow /\ JobOK(j) /\ JobSession(s)
  <2>1. job[j] \in JobRow
    BY JobFacts
  <2>2. JobOK(j) /\ JobSession(s)
    BY SMTT(60) DEF JobInv
  <2>3. QED
    BY <2>1, <2>2
<1>3. /\ deployment' = deployment /\ posts' = posts /\ JobSession(s)'
      /\ \A t \in Session : t # s => sess'[t] = sess[t]
  BY EndedSession, ZenonT(60) DEF Leaves
<1>4. PICK row \in JobRow : JobMoves(j, row)
  <2>1. CASE Leaves(s, JobOf(s))
    <3> DEFINE row == [job[j] EXCEPT !.leased = FALSE]
    <3>1. /\ row \in JobRow /\ job' = [job EXCEPT ![j] = row] /\ row.link = job[j].link
          /\ row.status = job[j].status /\ row.route = job[j].route
      BY <1>1, <1>2, <2>1 DEF Leaves, JobOf, JobRow
    <3> HIDE DEF row
    <3>2. QED
      BY <1>2, <3>1 DEF JobMoves, JobOK
  <2>2. ASSUME NEW status \in JobStatus, Leaves(s, [JobOf(s) EXCEPT !.status = status]),
               status = "SUCCESS" => job[j].link # 0 /\ Shown(job[j].route)
        PROVE  \E row \in JobRow : JobMoves(j, row)
    <3> DEFINE row == [[job[j] EXCEPT !.status = status] EXCEPT !.leased = FALSE]
    <3>1. /\ row \in JobRow /\ row.link = job[j].link /\ row.status = status
          /\ row.route = job[j].route
      BY <1>2 DEF JobRow
    <3>2. job' = [job EXCEPT ![j] = row]
      BY <1>1, <2>2, ZenonT(60) DEF Leaves, JobOf
    <3>3. status # "ABSENT"
      BY DEF JobStatus
    <3> HIDE DEF row
    <3>4. JobMoves(j, row)
      BY <2>2, <3>1, <3>2, <3>3 DEF JobMoves
    <3>5. QED
      BY <3>1, <3>4
  <2>3. QED
    BY <1>1, <2>1, <2>2
<1>5. QED
  BY <1>3, <1>4, JobMovesStep

LEMMA RunnerEndsKeepsJobs ==
  ASSUME LaunchInv, JobInv, NEW s \in Session,
         \/ RejectJob(s) \/ RejectSource(s) \/ WaitForSource(s) \/ RejectAdopted(s)
         \/ NoneToAdopt(s) \/ Track(s) \/ RetryJob(s)
  PROVE  JobInv'
<1>1. sess[s].by \in Job
  BY DEF RejectJob, RejectSource, WaitForSource, RejectAdopted, NoneToAdopt, Track, RetryJob,
         Advancing, LaunchInv, SessionOK, Inboxed
<1>2. CASE Track(s)
  <2>1. sess[s].dep # 0 /\ sess[s].dep = job[sess[s].by].link
    BY <1>1, <1>2 DEF Track, JobInv, JobSession
  <2>2. PICK v \in JobVerdict(s) : Leaves(s, [JobOf(s) EXCEPT !.status = v])
    BY <1>2 DEF Track
  <2>3. v \in JobStatus /\ (v = "SUCCESS" => Shown(job[sess[s].by].route))
    <3>1. v \in JobStatus /\ (v = "SUCCESS" => Proven(s))
      BY <2>2 DEF JobVerdict, JobStatus
    <3>2. Proven(s) => Shown(job[sess[s].by].route)
      BY DEF Proven, Shown, JobOf, LaunchInv, Table
    <3>3. QED
      BY <3>1, <3>2
  <2>4. QED
    BY <1>1, <2>1, <2>2, <2>3, LeavesKeepsJobs
<1>3. CASE WaitForSource(s) \/ NoneToAdopt(s) \/ RetryJob(s)
  BY <1>1, <1>3, LeavesKeepsJobs DEF WaitForSource, NoneToAdopt, RetryJob
<1>4. CASE RejectJob(s) \/ RejectSource(s) \/ RejectAdopted(s)
  <2>1. Leaves(s, [JobOf(s) EXCEPT !.status = "FAILED"]) /\ "FAILED" \in JobStatus
    BY <1>4 DEF RejectJob, RejectSource, RejectAdopted, FailJob, JobStatus
  <2>2. QED
    BY <1>1, <2>1, LeavesKeepsJobs
<1>5. QED
  BY <1>2, <1>3, <1>4

\* The source is asked for only on the route that the job was accepted for.
LEMMA RunnerGoesKeepsJobs ==
  ASSUME LaunchInv, JobInv, NEW s \in Session,
         AskSource(s) \/ SourcePassed(s) \/ (Advancing(s) /\ Duplicate(s, "adopt") /\ job' = job)
  PROVE  JobInv'
<1>1. PICK pc \in {"source", "ready", "adopt"} :
        /\ Goes(s, pc) /\ job' = job /\ deployment' = deployment /\ posts' = posts
        /\ pc = "source" => AskSource(s)
        /\ pc = "ready" => sess[s].pc = "source"
  BY DEF AskSource, SourcePassed, Duplicate
<1>2. JobSession(s)
  BY DEF JobInv
<1>3. pc \in {"ready", "source"} /\ sess[s].by \in Job => sess[s].route = job[sess[s].by].route
  BY <1>1, <1>2 DEF AskSource, Authorised, JobSession
<1>4. JobSession(s)' /\ \A t \in Session : t # s => sess'[t] = sess[t]
  BY <1>1, <1>3, GoneSession DEF Started
<1>5. QED
  BY <1>1, <1>4, JobRestStep, SamePosts DEF SameSlots

\* A job that adopts has no deployment of its own, and is linked to one in its slot.
LEMMA AdoptKeepsJobs ==
  ASSUME LaunchInv, JobInv, NEW s \in Session, NEW d \in DOMAIN deployment, Adopt(s, d)
  PROVE  JobInv'
<1>1. SessionOK(s) /\ JobSession(s) /\ sess[s].pc = "adopt"
  BY DEF Adopt, LaunchInv, JobInv
<1>2. PICK j \in Job : j = sess[s].by
  BY <1>1 DEF SessionOK, Inboxed
<1>3. /\ job[j].link = 0 /\ s = Worker /\ deployment[d].route = job[j].route
      /\ d \in 1..Len(deployment) /\ d # 0 /\ deployment' = deployment /\ posts' = posts
      /\ job[j] \in JobRow
  BY <1>1, <1>2, TableFacts, JobFacts DEF SessionOK, Inboxed, Adopt, JobOf
<1> DEFINE row == [job[j] EXCEPT !.status = "DEPLOYING", !.link = d]
           home == route[Of[deployment[d].by]]
<1>4. job' = [job EXCEPT ![j] = row]
  BY <1>2 DEF Adopt
<1>5. row.status = "DEPLOYING" /\ row.link = d /\ row.route = job[j].route
  BY <1>3 DEF JobRow
<1> HIDE DEF row, home
<1>6. job'[j] = row /\ \A k \in Job : k # j => job'[k] = job[k]
  BY <1>4, JobFacts
<1>7. sess' = [sess EXCEPT ![s].pc = Follow(d), ![s].dep = d, ![s].route = home]
  BY DEF Adopt, home
<1>8. /\ sess'[s].dep = d /\ sess'[s].by = j /\ sess'[s].pc \in {"after", "recorded"}
      /\ \A t \in Session : t # s => sess'[t] = sess[t]
  BY <1>2, <1>7, TableFacts, FollowPc DEF SessRow
<1>9. \A k \in Job : JobOK(k)'
  BY <1>3, <1>5, <1>6 DEF JobInv, JobOK, Shown
<1>10. ASSUME NEW e \in 1..Len(deployment') PROVE JobOwn(e)'
  <2>1. JobOwn(e) /\ DeploymentOK(e)
    BY <1>3 DEF JobInv, LaunchInv
  <2>2. deployment[e].by # j
    BY <1>3, <2>1 DEF DeploymentOK
  <2>3. QED
    BY <1>3, <1>6, <2>1, <2>2 DEF JobOwn
<1>11. ASSUME NEW t \in Session PROVE JobSession(t)'
  <2>1. CASE t = s
    BY <1>3, <1>5, <1>6, <1>8, <2>1 DEF JobSession
  <2>2. CASE t # s
    BY <1>3, <1>8, <2>2 DEF JobInv, JobSession
  <2>3. QED
    BY <2>1, <2>2
<1>12. QED
  BY <1>9, <1>10, <1>11 DEF JobInv

LEMMA JobsKeepJobs == ASSUME LaunchInv, JobInv, JobNext PROVE JobInv'
<1>1. ASSUME NEW s \in Session, RecordJob(s) PROVE JobInv'
  <2>1. sess[s].by \in Job /\ Record(s)
        /\ job' = [job EXCEPT ![sess[s].by].status = "DEPLOYING",
                              ![sess[s].by].link = Len(deployment) + 1]
    BY <1>1 DEF RecordJob, Advancing
  <2>2. QED
    BY <2>1, RecordKeepsJobs
<1>2. QED
  BY <1>1, JobRowsKeepJobs, LeaseKeepsJobs, RunnerEndsKeepsJobs, RunnerGoesKeepsJobs, AdoptKeepsJobs, SMTT(60)
  DEF JobNext, JobStep

LEMMA JobInitially == ASSUME Init PROVE JobInv
<1>1. deployment = <<>> /\ \A s \in Session : sess[s] = Idle
  BY DEF Init, SlotsInit
<1>2. \A j \in Job : job[j].link = 0 /\ job[j].status = "ABSENT"
  BY DEF Init, JobInit
<1>3. QED
  BY <1>1, <1>2, NoneIsNobody DEF JobInv, JobOK, JobOwn, JobSession, Idle

THEOREM JobInvariant == Spec => []JobInv
<1>1. ASSUME LaunchInv, CopyInv, JobInv, [Next]_vars PROVE JobInv'
  <2>1. CASE UNCHANGED vars
    <3>1. JobSession(Worker)' /\ SameSlots /\ PostsGrow /\ job' = job /\ sess' = sess
      BY <1>1, <2>1, WorkerIsASession, SamePosts
      DEF vars, slotVars, JobInv, JobSession, SameSlots
    <3>2. QED
      BY <1>1, <3>1, JobRestStep, WorkerIsASession
  <2>2. CASE SlotsNext /\ job' = job
    <3>1. CASE \E s \in Session : Start(s)
      BY <1>1, <2>2, <3>1, StartKeepsJobs
    <3>2. CASE \A s \in Session : ~Start(s)
      BY <1>1, <2>2, <3>2, SlotsKeepJobs
    <3>3. QED
      BY <3>1, <3>2
  <2>3. CASE (ScheduleNext \/ PlanNext) /\ job' = job
    BY <1>1, <2>3, CallersKeepJobs
  <2>4. CASE JobNext
    BY <1>1, <2>4, JobsKeepJobs
  <2>5. QED
    BY <1>1, <2>1, <2>2, <2>3, <2>4 DEF Next
<1>2. QED
  BY JobInitially, <1>1, LaunchInvariant, PTL DEF Spec

\* A job says SUCCESS only once Drone has run a promotion of its build in the
\* repository it was accepted for, with every stage required, whatever the rows
\* and the copies of them said meanwhile; it follows a deployment of that slot,
\* and what was recorded for a job is what it follows.
THEOREM JobsTellTrue == Spec => []JobsTrue
<1>1. ASSUME LaunchInv, JobInv PROVE JobsTrue
  <2>1. \A d \in DOMAIN deployment : deployment[d].by \in Job => job[deployment[d].by].link = d
    BY <1>1, TableFacts DEF JobInv, JobOwn
  <2>2. ASSUME NEW j \in Job, job[j].status = "SUCCESS"
        PROVE  /\ job[j].link \in DOMAIN deployment
               /\ deployment[job[j].link].route = job[j].route /\ Shown(job[j].route)
    BY <1>1, <2>2, TableFacts, JobFacts DEF JobInv, JobOK
  <2>3. DOMAIN posts = 1..Len(posts)
    BY <1>1 DEF LaunchInv, Table
  <2>4. QED
    BY <2>1, <2>2, <2>3 DEF JobsTrue, Shown
<1>2. QED
  BY LaunchInvariant, JobInvariant, <1>1, PTL

----------------------------------------------------------------------------
(* What is over stays over                                                 *)

\* Approving or promoting, a session has only read the plan; then it holds it.
Holds(s) == sess[s].by \in Plan /\ sess[s].pc \notin {"approve", "promote"}

\* A session that acts for a job has one to end; and of those that act for a
\* plan one alone holds it, until it has ended it.
OpenJobs == \A s \in Session : sess[s].by \in Job => job[sess[s].by].status \notin JobTerminal
HeldPlans ==
  /\ \A s \in Session : Holds(s) => plan[sess[s].by].status = "executing"
  /\ \A s, t \in Session : Holds(s) /\ Holds(t) /\ sess[s].by = sess[t].by => s = t
EndInv == OpenJobs /\ HeldPlans

\* At most one session moves, and takes no job and no plan up.
Carries(s) ==
  /\ \A t \in Session : t # s => sess'[t] = sess[t]
  /\ sess'[s].by \in Job => sess'[s].by = sess[s].by
  /\ Holds(s)' => Holds(s) /\ sess'[s].by = sess[s].by

LEMMA RestCarries == ASSUME NEW s \in Session, sess' = sess PROVE Carries(s)
BY DEF Carries, Holds

LEMMA EndedCarries == ASSUME LaunchInv, NEW s \in Session, Ends(s) PROVE Carries(s)
<1>1. sess'[s] = Idle /\ \A t \in Session : t # s => sess'[t] = sess[t]
  BY TableFacts DEF Ends
<1>2. QED
  BY <1>1, NoneIsNobody DEF Idle, Carries, Holds

LEMMA OpenedCarries ==
  ASSUME LaunchInv, NEW s \in Session, NEW pc, NEW i, Opens(s, pc, i), i \notin Job,
         i \in Plan => pc \in {"approve", "promote"}
  PROVE  Carries(s)
<1>1. /\ sess'[s].by = i /\ sess'[s].pc = pc
      /\ \A t \in Session : t # s => sess'[t] = sess[t]
  BY TableFacts DEF Opens
<1>2. QED
  BY <1>1 DEF Carries, Holds

\* A session goes on for whom it acts.
LEMMA GoneCarries ==
  ASSUME LaunchInv, NEW s \in Session, sess[s].pc \notin {"approve", "promote"},
         sess'[s].by = sess[s].by, \A t \in Session : t # s => sess'[t] = sess[t]
  PROVE  Carries(s)
BY DEF Carries, Holds

LEMMA GoesCarries ==
  ASSUME LaunchInv, NEW s \in Session, NEW pc, Goes(s, pc), sess[s].pc \notin {"approve", "promote"}
  PROVE  Carries(s)
<1>1. sess'[s].by = sess[s].by /\ \A t \in Session : t # s => sess'[t] = sess[t]
  BY TableFacts DEF Goes, SessRow
<1>2. QED
  BY <1>1, GoneCarries

LEMMA SlotsCarry == ASSUME LaunchInv, SlotsNext PROVE \E s \in Session : Carries(s)
<1>1. ASSUME NEW s \in Session, NEW h \in Human, Ask(s, h) PROVE Carries(s)
  BY <1>1, OpenedCarries, Intents DEF Ask
<1>2. ASSUME NEW s \in Session, Start(s) PROVE Carries(s)
  <2>1. CASE Record(s)
    <3>1. sess'[s].by = sess[s].by /\ \A t \in Session : t # s => sess'[t] = sess[t]
      BY <2>1, TableFacts DEF Record, SessRow
    <3>2. sess[s].pc \notin {"approve", "promote"}
      BY <2>1 DEF Record
    <3>3. QED
      BY <3>1, <3>2, GoneCarries
  <2>2. CASE Duplicate(s, "raised")
    BY <2>2, GoesCarries DEF Duplicate
  <2>3. QED
    BY <1>2, <2>1, <2>2 DEF Start
<1>3. ASSUME NEW s \in Session, Claim(s) \/ LoseClaim(s) \/ Post(s) \/ Judges(s) \/ Flush(s)
      PROVE  Carries(s)
  <2>1. PICK pc : Goes(s, pc)
    <3>1. CASE Claim(s) \/ LoseClaim(s) \/ Flush(s)
      BY <3>1, ZenonT(60) DEF Claim, LoseClaim, Flush
    <3>2. CASE Post(s)
      BY <3>2, ZenonT(60) DEF Post, Learns
    <3>3. QED
      BY <1>3, <3>1, <3>2, Judged
  <2>2. sess[s].pc \notin {"approve", "promote"}
    BY <1>3, Judged DEF Claim, LoseClaim, Post, Flush
  <2>3. QED
    BY <2>1, <2>2, GoesCarries
<1>4. ASSUME NEW s \in Session, NEW seen, Clear(s, seen) PROVE Carries(s)
  <2>1. sess'[s].by = sess[s].by /\ \A t \in Session : t # s => sess'[t] = sess[t]
    BY <1>4, TableFacts DEF Clear, SessRow
  <2>2. QED
    BY <1>4, <2>1, GoneCarries DEF Clear
<1>5. ASSUME NEW s \in Session, Dispatch(s) PROVE Carries(s)
  BY <1>3, <1>4, <1>5 DEF Dispatch, Guards, Judges
<1>6. ASSUME NEW s \in Session, Raise(s) \/ Return(s) \/ Die(s) PROVE Carries(s)
  BY <1>6, GoesCarries, EndedCarries DEF Raise, Return, Die
<1>7. ASSUME NEW s \in Session, NEW d \in DOMAIN deployment, Resume(s, d) \/ BeginRetry(s, d)
      PROVE  Carries(s)
  <2>1. sess'[s].by = None /\ \A t \in Session : t # s => sess'[t] = sess[t]
    BY <1>7, TableFacts DEF Resume, BeginRetry, GoesOn
  <2>2. QED
    BY <2>1, NoneIsNobody DEF Carries, Holds
<1>8. CASE \E c \in Component, r \in Route : EditComponent(c, r)
  BY <1>8, RestCarries, WorkerIsASession DEF EditComponent
<1>9. QED
  BY <1>1, <1>2, <1>3, <1>5, <1>6, <1>7, <1>8, WorkerIsASession DEF SlotsNext, Session, Judges

\* A job keeps what it follows, and how it ended; a plan what it was used for.
JobsStay ==
  \A j \in Job :
    /\ job[j].link # 0 => job'[j].link = job[j].link
    /\ job[j].status \in JobTerminal => job'[j].status = job[j].status
PlansStay ==
  \A p \in Plan :
    /\ plan[p].status \in Used \ {"executing"} => plan'[p] = plan[p]
    /\ plan[p].status = "executing" => plan'[p].status \in Used /\ plan'[p].route = plan[p].route

\* A job ends when the session that acts for it is done with it.
LEMMA CarriedJobs ==
  ASSUME JobInv, OpenJobs, NEW s \in Session, Carries(s),
         \A j \in Job : job'[j].status \in JobTerminal =>
           job[j].status \in JobTerminal \/ (sess[s].by = j /\ sess'[s].by # j)
  PROVE  OpenJobs'
<1>1. SUFFICES ASSUME NEW t \in Session, sess'[t].by \in Job,
                      job'[sess'[t].by].status \in JobTerminal
               PROVE  FALSE
  BY DEF OpenJobs
<1>2. sess'[t].by = sess[t].by
  BY <1>1 DEF Carries
<1>3. sess[s].by = sess[t].by /\ sess'[s].by # sess[t].by
  BY <1>1, <1>2 DEF OpenJobs
<1>4. s = Worker /\ t = Worker
  BY <1>1, <1>2, <1>3 DEF JobInv, JobSession
<1>5. QED
  BY <1>2, <1>3, <1>4

LEMMA CarriedPlans ==
  ASSUME HeldPlans, NEW s \in Session, Carries(s),
         \A p \in Plan : plan[p].status = "executing" =>
           \/ plan'[p].status = "executing"
           \/ Holds(s) /\ sess[s].by = p /\ ~Holds(s)'
  PROVE  HeldPlans'
<1>1. \A t \in Session : Holds(t)' => Holds(t) /\ sess'[t].by = sess[t].by
  BY DEF Carries, Holds
<1>2. ASSUME NEW t \in Session, Holds(t)' PROVE plan'[sess'[t].by].status = "executing"
  <2>1. Holds(t) /\ sess'[t].by = sess[t].by /\ plan[sess[t].by].status = "executing"
        /\ sess[t].by \in Plan
    BY <1>1, <1>2 DEF HeldPlans, Holds
  <2>2. ~(Holds(s) /\ sess[s].by = sess[t].by /\ ~Holds(s)')
    BY <1>2, <2>1 DEF HeldPlans
  <2>3. QED
    BY <2>1, <2>2
<1>3. QED
  BY <1>1, <1>2 DEF HeldPlans

\* The row of one job is written.
LEMMA JobWrittenStep ==
  ASSUME LaunchInv, JobInv, OpenJobs, NEW s \in Session, Carries(s),
         NEW j \in Job, NEW row \in JobRow, job' = [job EXCEPT ![j] = row],
         job[j].link # 0 => row.link = job[j].link,
         job[j].status \in JobTerminal => row.status = job[j].status,
         row.status \in JobTerminal /\ job[j].status \notin JobTerminal =>
           sess[s].by = j /\ sess'[s].by # j
  PROVE  JobsStay /\ OpenJobs'
<1>1. job'[j] = row /\ \A k \in Job : k # j => job'[k] = job[k]
  BY JobFacts
<1>2. JobsStay
  BY <1>1 DEF JobsStay
<1>3. QED
  BY <1>1, <1>2, CarriedJobs

LEMMA JobRowsStay ==
  ASSUME LaunchInv, JobInv, OpenJobs, NEW j \in Job,
         Accept(j) \/ RevokeToken(j) \/ DeadlinePasses(j) \/ LeaseLapses(j)
  PROVE  JobsStay /\ OpenJobs'
<1>1. Carries(Worker) /\ job[j] \in JobRow /\ route[Of[j]] \in Route
  BY RestCarries, WorkerIsASession, JobFacts, SlotsAssumption, Intents
  DEF Accept, RevokeToken, DeadlinePasses, LeaseLapses, slotVars, LaunchInv, Rows
<1>2. PICK row \in JobRow :
        /\ job' = [job EXCEPT ![j] = row] /\ row.link = job[j].link
        /\ row.status = job[j].status \/ (job[j].status = "ABSENT" /\ row.status = "WAITING_SOURCE")
  <2>1. CASE Accept(j)
    <3> DEFINE row == [job[j] EXCEPT !.status = "WAITING_SOURCE", !.route = route[Of[j]]]
    <3>1. /\ row \in JobRow /\ row.link = job[j].link /\ row.status = "WAITING_SOURCE"
          /\ job[j].status = "ABSENT" /\ job' = [job EXCEPT ![j] = row]
      BY <1>1, <2>1 DEF Accept, JobRow, JobStatus
    <3> HIDE DEF row
    <3>2. QED
      BY <3>1
  <2>2. CASE RevokeToken(j)
    <3> DEFINE row == [job[j] EXCEPT !.token = FALSE]
    <3>1. /\ row \in JobRow /\ job' = [job EXCEPT ![j] = row] /\ row.link = job[j].link
          /\ row.status = job[j].status
      BY <1>1, <2>2 DEF RevokeToken, JobRow
    <3> HIDE DEF row
    <3>2. QED
      BY <3>1
  <2>3. CASE DeadlinePasses(j)
    <3> DEFINE row == [job[j] EXCEPT !.due = TRUE]
    <3>1. /\ row \in JobRow /\ job' = [job EXCEPT ![j] = row] /\ row.link = job[j].link
          /\ row.status = job[j].status
      BY <1>1, <2>3 DEF DeadlinePasses, JobRow
    <3> HIDE DEF row
    <3>2. QED
      BY <3>1
  <2>4. CASE LeaseLapses(j)
    <3> DEFINE row == [job[j] EXCEPT !.leased = FALSE]
    <3>1. /\ row \in JobRow /\ job' = [job EXCEPT ![j] = row] /\ row.link = job[j].link
          /\ row.status = job[j].status
      BY <1>1, <2>4 DEF LeaseLapses, JobRow
    <3> HIDE DEF row
    <3>2. QED
      BY <3>1
  <2>5. QED
    BY <2>1, <2>2, <2>3, <2>4
<1>3. QED
  BY <1>1, <1>2, JobWrittenStep, WorkerIsASession DEF JobTerminal

\* The worker takes up a job that has not ended.
LEMMA LeaseStays ==
  ASSUME LaunchInv, OpenJobs, NEW j \in Job, Lease(j)
  PROVE  JobsStay /\ OpenJobs'
<1> DEFINE row == [job[j] EXCEPT !.leased = TRUE]
<1>1. /\ row.link = job[j].link /\ row.status = job[j].status /\ row.status \notin JobTerminal
      /\ job' = [job EXCEPT ![j] = row]
  BY JobFacts DEF Lease, JobRow
<1> HIDE DEF row
<1>2. \A k \in Job : job'[k].link = job[k].link /\ job'[k].status = job[k].status
  BY <1>1, JobFacts
<1>3. sess'[Worker].by = j /\ \A t \in Session : t # Worker => sess'[t] = sess[t]
  BY TableFacts, WorkerIsASession DEF Lease
<1>4. OpenJobs'
  BY <1>1, <1>2, <1>3 DEF OpenJobs
<1>5. QED
  BY <1>2, <1>4 DEF JobsStay

\* The worker is done with a job, for now or for good.
LEMMA LeavesStays ==
  ASSUME LaunchInv, JobInv, OpenJobs, NEW s \in Session, sess[s].by \in Job,
         \/ Leaves(s, JobOf(s))
         \/ \E status \in JobStatus : Leaves(s, [JobOf(s) EXCEPT !.status = status])
  PROVE  JobsStay /\ OpenJobs'
<1>1. PICK j \in Job : j = sess[s].by
  OBVIOUS
<1>2. job[j] \in JobRow /\ job[j].status \notin JobTerminal
  BY <1>1, JobFacts DEF OpenJobs
<1>3. Carries(s) /\ sess'[s].by # j
  <2>1. Ends(s)
    BY ZenonT(60) DEF Leaves
  <2>2. sess'[s] = Idle
    BY <2>1, TableFacts DEF Ends
  <2>3. QED
    BY <2>1, <2>2, EndedCarries, NoneIsNobody DEF Idle
<1>4. PICK row \in JobRow : job' = [job EXCEPT ![j] = row] /\ row.link = job[j].link
  <2>1. CASE Leaves(s, JobOf(s))
    <3> DEFINE row == [job[j] EXCEPT !.leased = FALSE]
    <3>1. row \in JobRow /\ job' = [job EXCEPT ![j] = row] /\ row.link = job[j].link
      BY <1>1, <1>2, <2>1 DEF Leaves, JobOf, JobRow
    <3> HIDE DEF row
    <3>2. QED
      BY <3>1
  <2>2. ASSUME NEW status \in JobStatus, Leaves(s, [JobOf(s) EXCEPT !.status = status])
        PROVE  \E row \in JobRow : job' = [job EXCEPT ![j] = row] /\ row.link = job[j].link
    <3> DEFINE row == [[job[j] EXCEPT !.status = status] EXCEPT !.leased = FALSE]
    <3>1. row \in JobRow /\ row.link = job[j].link
      BY <1>2 DEF JobRow
    <3>2. job' = [job EXCEPT ![j] = row]
      BY <1>1, <2>2, ZenonT(60) DEF Leaves, JobOf
    <3> HIDE DEF row
    <3>3. QED
      BY <3>1, <3>2
  <2>3. QED
    BY <2>1, <2>2
<1>5. QED
  BY <1>1, <1>2, <1>3, <1>4, JobWrittenStep

\* A job follows a deployment from now on, its own or an adopted one.
LEMMA LinksStays ==
  ASSUME LaunchInv, JobInv, OpenJobs, NEW s \in Session, sess[s].by \in Job,
         sess[s].pc \in {"ready", "adopt"}, NEW d \in Nat,
         job' = [job EXCEPT ![sess[s].by].status = "DEPLOYING", ![sess[s].by].link = d],
         sess'[s].by = sess[s].by, \A t \in Session : t # s => sess'[t] = sess[t]
  PROVE  JobsStay /\ OpenJobs'
<1>1. PICK j \in Job : j = sess[s].by
  OBVIOUS
<1>2. job[j] \in JobRow /\ job[j].link = 0 /\ job[j].status \notin JobTerminal
  BY <1>1, JobFacts DEF LaunchInv, SessionOK, Inboxed, OpenJobs
<1> DEFINE row == [job[j] EXCEPT !.status = "DEPLOYING", !.link = d]
<1>3. job' = [job EXCEPT ![j] = row]
  BY <1>1
<1>4. row \in JobRow /\ row.status = "DEPLOYING"
  BY <1>2 DEF JobRow, JobStatus
<1> HIDE DEF row
<1>5. Carries(s)
  BY GoneCarries
<1>6. QED
  BY <1>2, <1>3, <1>4, <1>5, JobWrittenStep DEF JobTerminal

LEMMA JobsStayOver == ASSUME LaunchInv, JobInv, OpenJobs, JobNext PROVE JobsStay /\ OpenJobs'
<1>1. ASSUME NEW s \in Session,
             \/ RejectJob(s) \/ RejectSource(s) \/ WaitForSource(s) \/ RejectAdopted(s)
             \/ NoneToAdopt(s) \/ Track(s) \/ RetryJob(s)
      PROVE  JobsStay /\ OpenJobs'
  <2>1. sess[s].by \in Job
    BY <1>1 DEF RejectJob, RejectSource, WaitForSource, RejectAdopted, NoneToAdopt, Track, RetryJob,
       Advancing, LaunchInv, SessionOK, Inboxed
  <2>2. CASE Track(s)
    <3>1. PICK v \in JobVerdict(s) : Leaves(s, [JobOf(s) EXCEPT !.status = v])
      BY <2>2 DEF Track
    <3>2. v \in JobStatus
      BY <3>1 DEF JobVerdict, JobStatus
    <3>3. QED
      BY <2>1, <3>1, <3>2, LeavesStays
  <2>3. CASE WaitForSource(s) \/ NoneToAdopt(s) \/ RetryJob(s)
    BY <2>1, <2>3, LeavesStays DEF WaitForSource, NoneToAdopt, RetryJob
  <2>4. CASE RejectJob(s) \/ RejectSource(s) \/ RejectAdopted(s)
    <3>1. Leaves(s, [JobOf(s) EXCEPT !.status = "FAILED"]) /\ "FAILED" \in JobStatus
      BY <2>4 DEF RejectJob, RejectSource, RejectAdopted, FailJob, JobStatus
    <3>2. QED
      BY <2>1, <3>1, LeavesStays
  <2>5. QED
    BY <1>1, <2>2, <2>3, <2>4
<1>2. ASSUME NEW s \in Session,
             AskSource(s) \/ SourcePassed(s) \/ (Advancing(s) /\ Duplicate(s, "adopt") /\ job' = job)
      PROVE  JobsStay /\ OpenJobs'
  <2>1. Carries(s) /\ job' = job
    BY <1>2, GoesCarries DEF AskSource, SourcePassed, Duplicate
  <2>2. QED
    BY <2>1, CarriedJobs DEF JobsStay
<1>3. ASSUME NEW s \in Session, RecordJob(s) PROVE JobsStay /\ OpenJobs'
  <2>1. sess'[s].by = sess[s].by /\ \A t \in Session : t # s => sess'[t] = sess[t]
    BY <1>3, TableFacts DEF RecordJob, Record, SessRow
  <2>2. sess[s].by \in Job /\ sess[s].pc = "ready" /\ Len(deployment) + 1 \in Nat
    BY <1>3, TableFacts DEF RecordJob, Record, Advancing
  <2>3. QED
    BY <1>3, <2>1, <2>2, LinksStays DEF RecordJob
<1>4. ASSUME NEW s \in Session, NEW d \in DOMAIN deployment, Adopt(s, d) PROVE JobsStay /\ OpenJobs'
  <2>1. sess'[s].by = sess[s].by /\ \A t \in Session : t # s => sess'[t] = sess[t]
    BY <1>4, TableFacts DEF Adopt, SessRow
  <2>2. sess[s].by \in Job /\ sess[s].pc = "adopt" /\ d \in Nat
    BY <1>4, TableFacts DEF Adopt, LaunchInv, SessionOK, Inboxed
  <2>3. QED
    BY <1>4, <2>1, <2>2, LinksStays DEF Adopt
<1>5. QED
  BY <1>1, <1>2, <1>3, <1>4, JobRowsStay, LeaseStays DEF JobNext, JobStep

\* The plan is claimed by the one session that finds it approved, and ended by
\* the one that holds it.
LEMMA PlansStayOver == ASSUME LaunchInv, HeldPlans, PlanNext PROVE PlansStay /\ HeldPlans'
<1>1. plan \in [Plan -> PlanRow]
  BY DEF LaunchInv, Rows
<1>2. ASSUME NEW p \in Plan, CreatePlan(p) \/ Expire(p) PROVE PlansStay /\ HeldPlans'
  <2>1. /\ plan[p].status \notin Used /\ Carries(Worker)
        /\ \A q \in Plan : q # p => plan'[q] = plan[q]
    BY <1>1, <1>2, RestCarries, WorkerIsASession DEF CreatePlan, Expire, slotVars, Used
  <2>2. PlansStay /\ \A q \in Plan : plan[q].status = "executing" => plan'[q] = plan[q]
    BY <2>1 DEF PlansStay, Used
  <2>3. QED
    BY <2>1, <2>2, CarriedPlans, WorkerIsASession
<1>3. ASSUME NEW s \in Session, NEW p \in Plan, BeginApprove(s, p) \/ BeginPromote(s, p)
      PROVE  PlansStay /\ HeldPlans'
  <2>1. Carries(s) /\ plan' = plan
    BY <1>3, OpenedCarries, Intents DEF BeginApprove, BeginPromote
  <2>2. QED
    BY <1>1, <2>1, CarriedPlans DEF PlansStay, Used
<1>4. ASSUME NEW s \in Session, CommitApprove(s) \/ LosePlan(s) PROVE PlansStay /\ HeldPlans'
  <2>1. PICK p \in Plan : p = sess[s].by
    BY <1>4 DEF CommitApprove, LosePlan, LaunchInv, SessionOK
  <2>2. Carries(s)
    BY <1>4, EndedCarries, ZenonT(60) DEF CommitApprove, LosePlan
  <2>3. \A q \in Plan : plan'[q] = plan[q] \/ (q = p /\ plan[p].status = "pending")
    BY <1>1, <1>4, <2>1 DEF CommitApprove, LosePlan
  <2>4. PlansStay /\ \A q \in Plan : plan[q].status = "executing" => plan'[q] = plan[q]
    BY <2>3 DEF PlansStay, Used
  <2>5. QED
    BY <2>2, <2>4, CarriedPlans
<1>5. ASSUME NEW s \in Session, ClaimPlan(s) PROVE PlansStay /\ HeldPlans'
  <2>1. PICK p \in Plan : p = sess[s].by
    BY <1>5 DEF ClaimPlan, LaunchInv, SessionOK
  <2>2. /\ plan[p].status = "approved" /\ plan'[p].status = "executing"
        /\ \A q \in Plan : q # p => plan'[q] = plan[q]
    BY <1>1, <1>5, <2>1 DEF ClaimPlan, PlanRow
  <2>3. sess'[s].by = p /\ \A t \in Session : t # s => sess'[t] = sess[t]
    BY <1>5, <2>1, TableFacts DEF ClaimPlan, Goes, SessRow
  <2>4. \A t \in Session : Holds(t) => sess[t].by # p /\ sess[t].by \in Plan
    BY <2>2 DEF HeldPlans, Holds
  <2>5. \A t \in Session : t # s /\ Holds(t)' => Holds(t) /\ sess'[t].by = sess[t].by
    BY <2>3 DEF Holds
  <2>6. HeldPlans'
    BY <2>2, <2>3, <2>4, <2>5 DEF HeldPlans
  <2>7. PlansStay
    BY <2>2 DEF PlansStay, Used
  <2>8. QED
    BY <2>6, <2>7
<1>6. ASSUME NEW s \in Session, EndPlan(s) PROVE PlansStay /\ HeldPlans'
  <2>1. PICK p \in Plan : p = sess[s].by
    BY <1>6 DEF EndPlan, Executing
  <2>2. Holds(s) /\ plan[p].status = "executing" /\ Ends(s)
    BY <1>6, <2>1 DEF EndPlan, Holds, HeldPlans
  <2>3. Carries(s) /\ ~Holds(s)'
    <3>1. sess'[s] = Idle
      BY <2>2, TableFacts DEF Ends
    <3>2. QED
      BY <2>2, <3>1, EndedCarries, NoneIsNobody DEF Idle, Holds
  <2>4. /\ plan'[p].status \in {"executed", "execution_failed"} /\ plan'[p].route = plan[p].route
        /\ \A q \in Plan : q # p => plan'[q] = plan[q]
    BY <1>1, <1>6, <2>1 DEF EndPlan, PlanRow
  <2>5. PlansStay
    BY <2>2, <2>4 DEF PlansStay, Used
  <2>6. QED
    BY <2>1, <2>2, <2>3, <2>4, <2>5, CarriedPlans
<1>7. QED
  BY <1>2, <1>3, <1>4, <1>5, <1>6 DEF PlanNext, PlanStep, Session

\* A deployment keeps whom it is for and its slot; and once it is over, nobody
\* writes another status but a session that read the row while it was in
\* flight and learnt its own outcome, or a retry of a failed one.  A schedule is
\* claimed once.
IsOver(d) == deployment[d].status \in {"SUCCESS", "FAILED"}
DeploymentsStay ==
  \A d \in DOMAIN deployment :
    /\ deployment'[d].by = deployment[d].by /\ deployment'[d].route = deployment[d].route
    /\ IsOver(d) /\ deployment'[d].status # deployment[d].status =>
         \E s \in Session :
           /\ sess[s].dep = d /\ copy[s].mine.status = deployment'[d].status
           /\ \/ copy[s].seen.status \in InFlight
              \/ copy[s].seen.status = "FAILED" /\ copy[s].mine.status = "WAITING"
ClaimedOnce ==
  \A i \in Schedule :
    /\ schedule[i].status \notin Early => schedule'[i].status \notin Early
    /\ schedule'[i].status = "RUNNING" => schedule[i].status \in {"PENDING", "RUNNING"}

LEMMA RecordStays == ASSUME LaunchInv, NEW s \in Session, Record(s) PROVE DeploymentsStay
<1>1. sess[s].by \in Intent /\ sess[s].route \in Route
  BY DEF Record, LaunchInv, SessionOK
<1>2. \A d \in 1..Len(deployment) : deployment'[d] = deployment[d]
  BY <1>1, TableFacts DEF Record, DepRow, Status, Active
<1>3. QED
  BY <1>2, TableFacts DEF DeploymentsStay

LEMMA SameStay == ASSUME deployment' = deployment PROVE DeploymentsStay
BY DEF DeploymentsStay

\* A row is claimed only while it waits.
LEMMA ClaimStays == ASSUME LaunchInv, NEW s \in Session, Claim(s) PROVE DeploymentsStay
<1>1. PICK row \in CopyRow : Puts(sess[s].dep, row)
  BY ClaimedRow
<1>2. sess[s].dep \in 1..Len(deployment) /\ ~IsOver(sess[s].dep)
  BY ClaimedRow DEF IsOver
<1>3. QED
  BY <1>1, <1>2, PutRows, TableFacts DEF DeploymentsStay

\* What is flushed was read in flight, or resets a failed release.
LEMMA FlushStays == ASSUME LaunchInv, CopyInv, NEW s \in Session, Flush(s) PROVE DeploymentsStay
<1> DEFINE d == sess[s].dep
<1>1. PICK row \in CopyRow : Puts(d, row) /\ row = Over(Row(d), copy[s].seen, copy[s].mine)
  BY FlushedRow
<1>2. d \in 1..Len(deployment)
  BY FlushedRow
<1>3. row.status = deployment[d].status \/ row.status = copy[s].mine.status
  BY <1>1 DEF Over, Row
<1>4. \/ copy[s].seen.status \in InFlight
      \/ copy[s].seen.status = "FAILED" /\ copy[s].mine.status = "WAITING"
  BY DEF Flush, CopyInv, CopyOK
<1> HIDE DEF d
<1>5. /\ deployment'[d].status = row.status
      /\ \A e \in 1..Len(deployment) :
           deployment'[e].by = deployment[e].by /\ deployment'[e].route = deployment[e].route
      /\ \A e \in 1..Len(deployment) : e # d => deployment'[e].status = deployment[e].status
  BY <1>1, <1>2, PutRows
<1>6. sess[s].dep = d
  BY DEF d
<1>7. QED
  BY <1>2, <1>3, <1>4, <1>5, <1>6, TableFacts DEF DeploymentsStay

LEMMA SlotsStay == ASSUME LaunchInv, CopyInv, SlotsNext PROVE DeploymentsStay
<1>1. ASSUME NEW s \in Session, Start(s) PROVE DeploymentsStay
  BY <1>1, SameStay, RecordStays DEF Start, Duplicate
<1>2. ASSUME NEW s \in Session, Dispatch(s) PROVE DeploymentsStay
  <2>1. CASE Judges(s)
    BY <2>1, Judged, SameStay
  <2>2. CASE LoseClaim(s) \/ Post(s) \/ \E i : Clear(s, Seen(s, i))
    BY <2>2, SameStay, ZenonT(60) DEF LoseClaim, Post, Clear
  <2>3. QED
    BY <1>2, <2>1, <2>2, ClaimStays DEF Dispatch, Guards, Judges
<1>3. ASSUME NEW s \in Session, Refresh(s) \/ Raise(s) \/ Return(s) \/ Die(s) PROVE DeploymentsStay
  <2>1. CASE Refresh(s)
    BY <2>1, Judged, SameStay DEF Judges
  <2>2. QED
    BY <1>3, <2>1, SameStay DEF Raise, Return, Die
<1>4. CASE \/ \E s \in Request, h \in Human : Ask(s, h)
           \/ \E s \in Session, d \in DOMAIN deployment : Resume(s, d) \/ BeginRetry(s, d)
           \/ \E c \in Component, r \in Route : EditComponent(c, r)
  BY <1>4, SameStay DEF Ask, Resume, BeginRetry, EditComponent
<1>5. QED
  BY <1>1, <1>2, <1>3, <1>4, FlushStays, WorkerIsASession DEF SlotsNext, Session

LEMMA NextKeepsDeployments == ASSUME LaunchInv, CopyInv, Next PROVE DeploymentsStay
<1>1. CASE deployment' = deployment
  BY <1>1, SameStay
<1>2. CASE SlotsNext
  BY <1>2, SlotsStay
<1>3. CASE ScheduleNext
  BY <1>1, <1>3 DEF ScheduleNext, ScheduleStep, CreateSchedule, ClaimTimeout, ReleaseStaleClaim, BeginCancel,
     RunDue, CommitCancel, LinkRelease, FailSchedule, slotVars
<1>4. CASE PlanNext
  BY <1>1, <1>4 DEF PlanNext, PlanStep, CreatePlan, Expire, BeginApprove, BeginPromote, CommitApprove,
     ClaimPlan, LosePlan, EndPlan, slotVars
<1>5. CASE JobNext
  <2>1. ASSUME NEW s \in Session, JobStep(s) PROVE DeploymentsStay
    <3>1. CASE RecordJob(s)
      BY <3>1, RecordStays DEF RecordJob
    <3>2. CASE ~RecordJob(s)
      BY <1>1, <2>1, <3>2, ZenonT(60) DEF JobStep, RejectJob, AskSource, RejectSource, WaitForSource,
         SourcePassed, RejectAdopted, NoneToAdopt, Track, RetryJob, Duplicate, Adopt, FailJob, Leaves
    <3>3. QED
      BY <3>1, <3>2
  <2>2. QED
    BY <1>1, <1>5, <2>1 DEF JobNext, Accept, RevokeToken, DeadlinePasses, LeaseLapses, Lease, slotVars
<1>6. QED
  BY <1>2, <1>3, <1>4, <1>5 DEF Next

LEMMA NextClaimsOnce == ASSUME LaunchInv, ScheduleNext PROVE ClaimedOnce
<1>1. schedule \in [Schedule -> ScheduleRow]
  BY DEF LaunchInv, Rows
<1>2. CASE schedule' = schedule
  BY <1>2 DEF ClaimedOnce
<1>3. ASSUME NEW i \in Schedule,
             CreateSchedule(i) \/ ClaimTimeout(i) \/ ReleaseStaleClaim(i) \/ \E s \in Session : RunDue(s, i)
      PROVE  ClaimedOnce
  BY <1>1, <1>3 DEF CreateSchedule, ClaimTimeout, ReleaseStaleClaim, RunDue, ClaimedOnce, Early, ScheduleRow
<1>4. ASSUME NEW s \in Session, ScheduleStep(s) PROVE ClaimedOnce
  <2>1. PICK i \in Schedule : i = sess[s].by
    BY <1>4 DEF ScheduleStep, CommitCancel, LinkRelease, FailSchedule, Running, LaunchInv, SessionOK
  <2>2. /\ schedule'[i].status \in {"CANCELLED", "SUCCEEDED", "FAILED"}
        /\ \A k \in Schedule : k # i => schedule'[k] = schedule[k]
    BY <1>1, <1>4, <2>1 DEF ScheduleStep, CommitCancel, LinkRelease, FailSchedule, ScheduleRow
  <2>3. QED
    BY <2>2 DEF ClaimedOnce, Early
<1>5. ASSUME NEW s \in Session, NEW i \in Schedule, BeginCancel(s, i) PROVE ClaimedOnce
  BY <1>2, <1>5 DEF BeginCancel
<1>6. QED
  BY <1>3, <1>4, <1>5, WorkerIsASession DEF ScheduleNext, Session

\* Whoever else acts takes no job up; only a pass of the inbox does, and only
\* a claimed plan is taken up.
LEMMA SchedulesCarry == ASSUME LaunchInv, ScheduleNext PROVE \E s \in Session : Carries(s)
<1>1. ASSUME NEW i \in Schedule, CreateSchedule(i) \/ ClaimTimeout(i) \/ ReleaseStaleClaim(i)
      PROVE  Carries(Worker)
  BY <1>1, RestCarries, WorkerIsASession DEF CreateSchedule, ClaimTimeout, ReleaseStaleClaim, slotVars
<1>2. ASSUME NEW s \in Session, NEW i \in Schedule, BeginCancel(s, i) \/ RunDue(s, i) PROVE Carries(s)
  BY <1>2, OpenedCarries, Intents DEF BeginCancel, RunDue
<1>3. ASSUME NEW s \in Session, ScheduleStep(s) PROVE Carries(s)
  BY <1>3, EndedCarries DEF ScheduleStep, CommitCancel, LinkRelease, FailSchedule
<1>4. QED
  BY <1>1, <1>2, <1>3, WorkerIsASession DEF ScheduleNext, Session

LEMMA PlansCarry ==
  ASSUME LaunchInv, PlanNext, \A s \in Session : ~ClaimPlan(s)
  PROVE  \E s \in Session : Carries(s)
<1>1. ASSUME NEW p \in Plan, CreatePlan(p) \/ Expire(p) PROVE Carries(Worker)
  BY <1>1, RestCarries, WorkerIsASession DEF CreatePlan, Expire, slotVars
<1>2. ASSUME NEW s \in Session, NEW p \in Plan, BeginApprove(s, p) \/ BeginPromote(s, p)
      PROVE  Carries(s)
  BY <1>2, OpenedCarries, Intents DEF BeginApprove, BeginPromote
<1>3. ASSUME NEW s \in Session, CommitApprove(s) \/ LosePlan(s) \/ EndPlan(s) PROVE Carries(s)
  BY <1>3, EndedCarries, ZenonT(60) DEF CommitApprove, LosePlan, EndPlan
<1>4. QED
  BY <1>1, <1>2, <1>3, WorkerIsASession DEF PlanNext, PlanStep, Session

LEMMA JobsCarry ==
  ASSUME LaunchInv, JobNext, \A j \in Job : ~Lease(j)
  PROVE  \E s \in Session : Carries(s)
<1>1. ASSUME NEW j \in Job, Accept(j) \/ RevokeToken(j) \/ DeadlinePasses(j) \/ LeaseLapses(j)
      PROVE  Carries(Worker)
  BY <1>1, RestCarries, WorkerIsASession DEF Accept, RevokeToken, DeadlinePasses, LeaseLapses, slotVars
<1>2. ASSUME NEW s \in Session,
             \/ RejectJob(s) \/ RejectSource(s) \/ WaitForSource(s) \/ RejectAdopted(s)
             \/ NoneToAdopt(s) \/ Track(s) \/ RetryJob(s)
      PROVE  Carries(s)
  BY <1>2, EndedCarries, ZenonT(60) DEF RejectJob, RejectSource, WaitForSource, RejectAdopted, NoneToAdopt,
     Track, RetryJob, FailJob, Leaves
<1>3. ASSUME NEW s \in Session, AskSource(s) \/ SourcePassed(s) \/ Duplicate(s, "adopt") PROVE Carries(s)
  BY <1>3, GoesCarries DEF AskSource, SourcePassed, Duplicate
<1>4. ASSUME NEW s \in Session, RecordJob(s) \/ \E d \in DOMAIN deployment : Adopt(s, d)
      PROVE  Carries(s)
  <2>1. sess'[s].by = sess[s].by /\ \A t \in Session : t # s => sess'[t] = sess[t]
    <3>1. CASE RecordJob(s)
      BY <3>1, TableFacts DEF RecordJob, Record, SessRow
    <3>2. ASSUME NEW d \in DOMAIN deployment, Adopt(s, d)
          PROVE  sess'[s].by = sess[s].by /\ \A t \in Session : t # s => sess'[t] = sess[t]
      BY <3>2, TableFacts DEF Adopt, SessRow
    <3>3. QED
      BY <1>4, <3>1, <3>2
  <2>2. sess[s].pc \notin {"approve", "promote"}
    BY <1>4, ZenonT(60) DEF RecordJob, Record, Adopt
  <2>3. QED
    BY <2>1, <2>2, GoneCarries
<1>5. QED
  BY <1>1, <1>2, <1>3, <1>4, WorkerIsASession DEF JobNext, JobStep

\* Sessions act for jobs and plans that are open, and for a plan one alone.
THEOREM EndInvariant == Spec => []EndInv
<1>1. ASSUME Init PROVE EndInv
  <2>1. \A s \in Session : sess[s].by = None
    BY <1>1 DEF Init, SlotsInit, Idle
  <2>2. QED
    BY <2>1, NoneIsNobody DEF EndInv, OpenJobs, HeldPlans, Holds
<1>2. ASSUME LaunchInv, JobInv, EndInv, [Next]_vars PROVE EndInv'
  <2>1. ASSUME NEW s \in Session, Carries(s), job' = job PROVE OpenJobs'
    BY <1>2, <2>1, CarriedJobs DEF EndInv
  <2>2. ASSUME NEW s \in Session, Carries(s), plan' = plan PROVE HeldPlans'
    BY <1>2, <2>2, CarriedPlans DEF EndInv
  <2>3. CASE UNCHANGED vars
    BY <2>1, <2>2, <2>3, RestCarries, WorkerIsASession DEF vars, slotVars, EndInv
  <2>4. CASE SlotsNext /\ UNCHANGED <<schedule, job, plan>>
    BY <1>2, <2>1, <2>2, <2>4, SlotsCarry DEF EndInv
  <2>5. CASE ScheduleNext /\ UNCHANGED <<job, plan>>
    BY <1>2, <2>1, <2>2, <2>5, SchedulesCarry DEF EndInv
  <2>6. CASE JobNext /\ UNCHANGED <<schedule, plan>>
    <3>1. OpenJobs'
      BY <1>2, <2>6, JobsStayOver DEF EndInv
    <3>2. ASSUME NEW j \in Job, Lease(j) PROVE HeldPlans'
      <4>1. sess'[Worker].by = j /\ \A t \in Session : t # Worker => sess'[t] = sess[t]
        BY <1>2, <3>2, TableFacts, WorkerIsASession DEF Lease
      <4>2. \A t \in Session : Holds(t)' => sess'[t] = sess[t] /\ Holds(t)
        BY <4>1, Intents DEF Holds
      <4>3. QED
        BY <1>2, <2>6, <4>2 DEF EndInv, HeldPlans
    <3>3. ASSUME \A j \in Job : ~Lease(j) PROVE HeldPlans'
      <4>1. PICK s \in Session : Carries(s)
        BY <1>2, <2>6, <3>3, JobsCarry
      <4>2. QED
        BY <2>2, <2>6, <4>1
    <3>4. QED
      BY <3>1, <3>2, <3>3 DEF EndInv
  <2>7. CASE PlanNext /\ UNCHANGED <<schedule, job>>
    <3>1. HeldPlans'
      BY <1>2, <2>7, PlansStayOver DEF EndInv
    <3>2. ASSUME NEW s \in Session, ClaimPlan(s) PROVE OpenJobs'
      <4>1. sess'[s].by = sess[s].by /\ \A t \in Session : t # s => sess'[t] = sess[t]
        BY <1>2, <3>2, TableFacts DEF ClaimPlan, Goes, SessRow
      <4>2. \A t \in Session : sess'[t].by = sess[t].by
        BY <4>1
      <4>3. QED
        BY <1>2, <2>7, <4>2 DEF EndInv, OpenJobs
    <3>3. ASSUME \A s \in Session : ~ClaimPlan(s) PROVE OpenJobs'
      <4>1. PICK s \in Session : Carries(s)
        BY <1>2, <2>7, <3>3, PlansCarry
      <4>2. QED
        BY <2>1, <2>7, <4>1
    <3>4. QED
      BY <3>1, <3>2, <3>3 DEF EndInv
  <2>8. QED
    BY <1>2, <2>3, <2>4, <2>5, <2>6, <2>7 DEF Next
<1>3. QED
  BY <1>1, <1>2, LaunchInvariant, JobInvariant, PTL DEF Spec

\* promote_to_production, run_due, the inbox, the deployments table: whatever
\* callers, crashes and late commits there are, a deployment keeps its slot, and
\* once it is over changes only by a session whose copy is from before, or by a
\* retry; a job keeps what it follows and its verdict, a plan its use and the
\* route approved, and a schedule that was claimed is not claimed again.
THEOREM WhatIsOverStays == Spec => [][DeploymentsStay /\ JobsStay /\ PlansStay /\ ClaimedOnce]_vars
<1>1. ASSUME LaunchInv, CopyInv, JobInv, EndInv, Next
      PROVE  DeploymentsStay /\ JobsStay /\ PlansStay /\ ClaimedOnce
  <2>1. DeploymentsStay
    BY <1>1, NextKeepsDeployments
  <2>2. JobsStay
    <3>1. CASE job' = job
      BY <3>1 DEF JobsStay
    <3>2. CASE JobNext
      BY <1>1, <3>2, JobsStayOver DEF EndInv
    <3>3. QED
      BY <1>1, <3>1, <3>2 DEF Next
  <2>3. PlansStay
    <3>1. CASE plan' = plan
      BY <3>1 DEF PlansStay, Used
    <3>2. CASE PlanNext
      BY <1>1, <3>2, PlansStayOver DEF EndInv
    <3>3. QED
      BY <1>1, <3>1, <3>2 DEF Next
  <2>4. ClaimedOnce
    <3>1. CASE schedule' = schedule
      BY <3>1 DEF ClaimedOnce
    <3>2. CASE ScheduleNext
      BY <1>1, <3>2, NextClaimsOnce
    <3>3. QED
      BY <1>1, <3>1, <3>2 DEF Next
  <2>5. QED
    BY <2>1, <2>2, <2>3, <2>4
<1>2. QED
  BY <1>1, LaunchInvariant, JobInvariant, EndInvariant, PTL DEF Spec
=============================================================================

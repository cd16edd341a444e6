------------------------------- MODULE Slots -------------------------------
(***************************************************************************)
(* The deployments table as its callers share it.  A schedule that falls   *)
(* due, a CI job, an approved release plan and a user each want one build  *)
(* of a component promoted.  All of them record a WAITING row under one    *)
(* unique index and claim it before they ask Drone, in sessions of their   *)
(* own; the worker, or anybody's refresh, goes on with a row that is not   *)
(* over: dispatches it, asks Drone, and writes what it learnt from a copy  *)
(* of the row that may have aged meanwhile.                                *)
(*                                                                         *)
(* This module has what they share: the components' routes, the rows, the  *)
(* dispatch, the refresh.  Schedule, CIInbox and ReleasePlan add the       *)
(* callers and Launch puts them together.  A release is one deployment     *)
(* here; several in one bundle are BundlePromotion's subject.              *)
(***************************************************************************)
EXTENDS Naturals, Sequences, FiniteSets

CONSTANTS
  Component,                    \* registered components
  Route,                        \* Drone repositories they may point at
  Schedule, Job, Plan, Human,   \* what asks for a deployment
  Of,                           \* Of[i]: the component that i is about
  Request,                      \* request threads of the API
  Agent,                        \* tool calls of the MCP server
  Worker,                       \* the background worker's thread
  None,
  MaxEdits,                     \* bound: how often a component is repointed
  MaxVisits                     \* bound: how often somebody goes on with a row
                                \* on no caller's behalf, or retries it

Intent == Schedule \cup Job \cup Plan \cup Human
Session == Request \cup Agent \cup {Worker}

ASSUME SlotsAssumption ==
  /\ Of \in [Intent -> Component]
  /\ Worker \notin Request \cup Agent
  /\ Request \cap Agent = {}
  /\ Schedule \cap (Job \cup Plan \cup Human) = {}
  /\ Job \cap (Plan \cup Human) = {}
  /\ Plan \cap Human = {}
  /\ None \notin Intent
  /\ MaxEdits \in Nat /\ MaxVisits \in Nat

VARIABLES
  route,        \* route[c]: the repository component c points at
  deployment,   \* table deployments: by whom, for which slot, status, build
  posts,        \* the promote requests sent, where to, and the builds they made
  sess,         \* what each session is doing, and its copy of the route
  copy,         \* each session's copy of the row: as it read it, as it leaves it
  asked,        \* history: the users' requests made
  edits,        \* edits[c]: how often c was repointed
  visits,       \* how often somebody refreshed or retried a row
  moved         \* history: the components repointed here

slotVars == <<route, deployment, posts, sess, copy, asked, edits, visits, moved>>

----------------------------------------------------------------------------
Active == {"WAITING", "PROMOTING", "DEPLOYING", "SUCCESS"}
Status == Active \cup {"FAILED"}

\* Mutant: a promotion that runs in Drone does not hold its slot.
OccupiesWhileQueued(d, r) ==
  deployment[d].route = r /\ deployment[d].status \in {"WAITING", "PROMOTING"}

\* uq_deployments_active_promotion: the build is active on route r, ...
Occupies(d, r) == deployment[d].route = r /\ deployment[d].status \in Active
Taken(r) == \E d \in DOMAIN deployment : Occupies(d, r)

\* ... and a second active row of it is refused, whoever writes it.
Fits(d, status) ==
  status \in Active =>
    \A e \in DOMAIN deployment \ {d} : ~Occupies(e, deployment[d].route)

\* Sessions.  "ready": the source build is being validated; "recorded": a row
\* that is not over has been read; "claimed", "cleared": before and after the
\* dispatch guards; "told": an outcome is on the copy and not yet written;
\* "after": promote() or refresh() has returned; "raised": an exception is handled.
Idle == [pc |-> "idle", by |-> None, dep |-> 0, route |-> None]
InFlight == {"PROMOTING", "DEPLOYING"}
New == [status |-> "WAITING", build |-> 0]
Unread == [seen |-> New, mine |-> New]
Row(d) == [status |-> deployment[d].status, build |-> deployment[d].build]

Puts(d, row) ==
  deployment' = [deployment EXCEPT ![d].status = row.status, ![d].build = row.build]

Goes(s, pc) == sess' = [sess EXCEPT ![s].pc = pc]
Ends(s) == sess' = [sess EXCEPT ![s] = Idle] /\ copy' = [copy EXCEPT ![s] = Unread]
Opens(s, pc, i) ==
  sess' = [sess EXCEPT ![s] = [pc |-> pc, by |-> i, dep |-> 0, route |-> route[Of[i]]]]
GoesOn(s, pc, d) ==
  sess' = [sess EXCEPT ![s] =
    [pc |-> pc, by |-> None, dep |-> d, route |-> route[Of[deployment[d].by]]]]
Reads(s, row) == copy' = [copy EXCEPT ![s] = [seen |-> row, mine |-> row]]

Visit == visits < MaxVisits /\ visits' = visits + 1

\* The session has an outcome for its row: written at its next commit, if it
\* differs from what it read.
Learns(s, row) ==
  /\ copy' = [copy EXCEPT ![s].mine = row]
  /\ Goes(s, IF row = copy[s].seen THEN "after" ELSE "told")

\* What is over from the start (here, and in the callers' modules) is no part
\* of a behaviour: a run takes a few of the callers at a time.
SlotsInit ==
  /\ route \in [Component -> Route]
  /\ deployment = <<>>
  /\ posts = <<>>
  /\ sess = [s \in Session |-> Idle]
  /\ copy = [s \in Session |-> Unread]
  /\ asked \in SUBSET Human
  /\ edits \in [Component -> 0..MaxEdits]
  /\ visits \in 0..MaxVisits
  /\ moved = {}

----------------------------------------------------------------------------
\* A user promotes a build (promote_standalone behind its endpoint).
Ask(s, h) ==
  /\ sess[s].pc = "idle"
  /\ h \notin asked
  /\ Opens(s, "ready", h)
  /\ asked' = asked \cup {h}
  /\ UNCHANGED <<route, deployment, posts, copy, edits, visits, moved>>

\* Mutant: the session goes on with a row whose insert was not committed.
RecordUncommitted(s) ==
  /\ sess[s].pc = "ready"
  /\ ~Taken(sess[s].route)
  /\ sess' = [sess EXCEPT ![s].pc = "recorded", ![s].dep = Len(deployment) + 1]
  /\ UNCHANGED <<route, deployment, posts, copy, asked, edits, visits, moved>>

\* prepare_standalone, create_bundle: assert_not_duplicate, insert, commit.
Record(s) ==
  /\ sess[s].pc = "ready"
  /\ ~Taken(sess[s].route)
  /\ deployment' = Append(deployment,
       [by |-> sess[s].by, route |-> sess[s].route, status |-> "WAITING", build |-> 0])
  /\ sess' = [sess EXCEPT ![s].pc = "recorded", ![s].dep = Len(deployment) + 1]
  /\ Reads(s, New)
  /\ UNCHANGED <<route, posts, asked, edits, visits, moved>>

\* DuplicatePromotionError, from the look-up or from the unique index.
Duplicate(s, next) ==
  /\ sess[s].pc = "ready"
  /\ Taken(sess[s].route)
  /\ Goes(s, next)
  /\ UNCHANGED <<route, deployment, posts, copy, asked, edits, visits, moved>>

\* Anything else that can be raised, wherever the session stands: the build is
\* not promotable, Drone does not answer, the database is busy, the unique
\* index refuses the write.
Raise(s) ==
  /\ sess[s].pc \in {"ready", "recorded", "claimed", "cleared", "told", "after",
                     "advance", "adopt"}
  /\ Goes(s, "raised")
  /\ UNCHANGED <<route, deployment, posts, copy, asked, edits, visits, moved>>

\* The process dies, or a request's thread with it.
Die(s) ==
  /\ sess[s].pc # "idle"
  /\ Ends(s)
  /\ UNCHANGED <<route, deployment, posts, asked, edits, visits, moved>>

\* refresh_standalone, refresh_bundle: whoever finds a row that is not over
\* goes on with it, on a copy of it and of the component as they are now.
Resume(s, d) ==
  /\ sess[s].pc = "idle"
  /\ deployment[d].status \in InFlight \cup {"WAITING"}
  /\ Visit
  /\ GoesOn(s, "recorded", d)
  /\ Reads(s, Row(d))
  /\ UNCHANGED <<route, deployment, posts, asked, edits, moved>>

\* retry_bundle: the copy of a failed release is reset, to be written and
\* advanced; nothing looks whether its slot is free.
BeginRetry(s, d) ==
  /\ sess[s].pc = "idle"
  /\ deployment[d].by \in Plan \cup Schedule
  /\ deployment[d].status = "FAILED"
  /\ Visit
  /\ GoesOn(s, "told", d)
  /\ copy' = [copy EXCEPT ![s] = [seen |-> Row(d), mine |-> New]]
  /\ UNCHANGED <<route, deployment, posts, asked, edits, moved>>

----------------------------------------------------------------------------
(* DeploymentService.promote                                               *)

\* claim_for_promotion: UPDATE ... WHERE status = 'WAITING', and the row read
\* again.
Claim(s) ==
  LET d == sess[s].dep
      claimed == [Row(d) EXCEPT !.status = "PROMOTING"] IN
  /\ sess[s].pc = "recorded" /\ copy[s].seen.status = "WAITING"
  /\ deployment[d].status = "WAITING"
  /\ Puts(d, claimed)
  /\ Reads(s, claimed)
  /\ Goes(s, "claimed")
  /\ UNCHANGED <<route, posts, asked, edits, visits, moved>>

\* Somebody else has claimed it, or it is over: the row is read again.
LoseClaim(s) ==
  /\ sess[s].pc = "recorded" /\ copy[s].seen.status = "WAITING"
  /\ deployment[sess[s].dep].status # "WAITING"
  /\ Reads(s, Row(sess[s].dep))
  /\ Goes(s, "after")
  /\ UNCHANGED <<route, deployment, posts, asked, edits, visits, moved>>

\* The guards allow the dispatch, on the route seen.
Clear(s, seen) ==
  /\ sess[s].pc = "claimed"
  /\ sess' = [sess EXCEPT ![s].pc = "cleared", ![s].route = seen]
  /\ UNCHANGED <<route, deployment, posts, copy, asked, edits, visits, moved>>

\* CI_DISPATCH_REJECTED, APPROVED_PLAN_CHANGED.
Failed(s) == [copy[s].seen EXCEPT !.status = "FAILED"]
Refuse(s) ==
  /\ sess[s].pc = "claimed"
  /\ Learns(s, Failed(s))
  /\ UNCHANGED <<route, deployment, posts, asked, edits, visits, moved>>

\* The promote request leaves for the repository in the session's copy.  Drone
\* rejects it, or makes a build of it, and the answer may be lost either way.
\* Whether the build will succeed with every required stage ("proven") or not
\* ("built": it fails, or a stage is missing) is drawn here and told when it is over.
Verdict == {"proven", "built"}
Post(s) ==
  LET n == Len(posts) + 1
      sent(made) == [dep |-> sess[s].dep, route |-> sess[s].route, build |-> made] IN
  /\ sess[s].pc = "cleared"
  /\ \/ /\ posts' = Append(posts, sent("none"))
        /\ \E row \in {copy[s].seen, Failed(s)} : Learns(s, row)
     \/ /\ \E made \in Verdict : posts' = Append(posts, sent(made))
        /\ \E row \in {copy[s].seen, [status |-> "DEPLOYING", build |-> n]} : Learns(s, row)
  /\ UNCHANGED <<route, deployment, asked, edits, visits, moved>>

----------------------------------------------------------------------------
(* DeploymentService.refresh: judged by the copy, with no transaction open *)

Refreshing(s) == sess[s].pc = "recorded" /\ copy[s].seen.status \in InFlight

\* The workflow timeout, at whatever point of the promotion it passes.
TimedOut(s) ==
  /\ Refreshing(s)
  /\ Learns(s, Failed(s))
  /\ UNCHANGED <<route, deployment, posts, asked, edits, visits, moved>>

\* _reconcile_promotion: without a build number, the newest promotion of the
\* build that Drone lists is adopted, whoever asked for it.
Made(r) == {n \in DOMAIN posts : posts[n].route = r /\ posts[n].build \in Verdict}
Reconcile(s) ==
  /\ Refreshing(s) /\ copy[s].seen.build = 0
  /\ \E n \in Made(sess[s].route) :
       /\ \A m \in Made(sess[s].route) : m <= n
       /\ Learns(s, [status |-> "DEPLOYING", build |-> n])
  /\ UNCHANGED <<route, deployment, posts, asked, edits, visits, moved>>

\* What Drone's answer on build n makes of deployment d, asked through route r.
\* Required stages are recorded, and looked at, for the rows of CI jobs; in
\* another repository the number is some other build's.
Answers(d, n, r) ==
  IF posts[n].route = r /\ posts[n].build = "proven" THEN {"SUCCESS"}
  ELSE IF deployment[d].by \in Job THEN {"FAILED"} ELSE {"SUCCESS", "FAILED"}
PollBuild(s) ==
  LET n == copy[s].seen.build IN
  /\ Refreshing(s) /\ n # 0
  /\ \E status \in Answers(sess[s].dep, n, sess[s].route) :
       Learns(s, [copy[s].seen EXCEPT !.status = status])
  /\ UNCHANGED <<route, deployment, posts, asked, edits, visits, moved>>

\* _record_poll_failure, or the build still runs.
PollFailure(s) ==
  /\ Refreshing(s)
  /\ Goes(s, "after")
  /\ UNCHANGED <<route, deployment, posts, copy, asked, edits, visits, moved>>

Refresh(s) == TimedOut(s) \/ Reconcile(s) \/ PollBuild(s) \/ PollFailure(s)

\* db.commit: the columns that differ from what was read, over whatever the row
\* is by now, if the unique index allows it.  A retry goes on to promote.
Over(row, seen, mine) ==
  [status |-> IF mine.status # seen.status THEN mine.status ELSE row.status,
   build |-> IF mine.build # seen.build THEN mine.build ELSE row.build]
Flush(s) ==
  LET d == sess[s].dep
      row == Over(Row(d), copy[s].seen, copy[s].mine) IN
  /\ sess[s].pc = "told"
  /\ Fits(d, row.status)
  /\ Puts(d, row)
  /\ Reads(s, copy[s].mine)
  /\ Goes(s, IF copy[s].mine.status = "WAITING" THEN "recorded" ELSE "after")
  /\ UNCHANGED <<route, posts, asked, edits, visits, moved>>

\* The caller is a request with nothing more to do.
Return(s) ==
  /\ sess[s].pc \in {"after", "raised"}
  /\ sess[s].by \in Human \cup {None}
  /\ Ends(s)
  /\ UNCHANGED <<route, deployment, posts, asked, edits, visits, moved>>

\* update_component_usecase: the component is pointed at another repository;
\* nothing asks whether a deployment of it is under way.
EditComponent(c, r) ==
  /\ edits[c] < MaxEdits
  /\ r # route[c]
  /\ route' = [route EXCEPT ![c] = r]
  /\ edits' = [edits EXCEPT ![c] = @ + 1]
  /\ moved' = moved \cup {c}
  /\ UNCHANGED <<deployment, posts, sess, copy, asked, visits>>

----------------------------------------------------------------------------
CopyRow == [status : Status, build : Nat]
SlotsTypeOK ==
  /\ route \in [Component -> Route]
  /\ deployment \in Seq([by : Intent, route : Route, status : Status, build : Nat])
  /\ posts \in Seq([dep : DOMAIN deployment, route : Route, build : Verdict \cup {"none"}])
  /\ sess \in [Session ->
       [pc : {"idle", "ready", "recorded", "claimed", "cleared", "told", "after", "raised",
              "cancel", "approve", "promote", "advance", "source", "adopt"},
        by : Intent \cup {None}, dep : {0} \cup DOMAIN deployment, route : Route \cup {None}]]
  /\ copy \in [Session -> [seen : CopyRow, mine : CopyRow]]
  /\ asked \subseteq Human
  /\ edits \in [Component -> 0..MaxEdits]
  /\ visits \in 0..MaxVisits
  /\ moved \subseteq Component

\* create, run_due, prepare_standalone and its inbox link, promote_to_production:
\* however many runners, tool calls and crashes there are, a schedule, a CI job,
\* a plan and a user's request lead to one deployment each.
LaunchedOnce ==
  \A d, e \in DOMAIN deployment : deployment[d].by = deployment[e].by => d = e

\* ACTIVE_PROMOTION_SLOT: two deployments that were both sent to Drone for one
\* build do not both count as active, whoever asked for them and through whichever
\* component, as long as the components are not pointed elsewhere meanwhile.
Settled(d) == Of[deployment[d].by] \notin moved
OnePromotionPerSlot ==
  \A p, q \in DOMAIN posts :
    LET d == posts[p].dep
        e == posts[q].dep IN
    (posts[p].route = posts[q].route /\ d # e /\ Settled(d) /\ Settled(e)) =>
      ~({deployment[d].status, deployment[e].status} \subseteq Active)
=============================================================================

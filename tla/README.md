# Verification of Release Controller

Release Controller (`src/`) promotes builds of Drone CI to a target, one
component after the other, and publishes what was deployed as releases in Gitea.
It is a FastAPI application over SQLAlchemy and SQLite, with synchronous
endpoints on a thread pool and one background worker. This directory holds TLA+
models of it, the TLC runs that check them and the TLAPS proofs about them.

## 1. Inventory

| Component | Code (`src/app/`) | State | Operations | What makes it correct | Module |
|---|---|---|---|---|---|
| Bundle orchestration | `services/release_orchestrator.py` | `release_bundles` row | create, refresh, retry, `_advance`, `_fail_bundle`, `_finish_success` | components go out in order; a bundle's verdict is that of its components; it ends | `BundlePromotion` |
| Deployment state machine | `services/deployment_service.py`, `db/models/orchestration.py` | `deployments` row, unique index on the promotion slot | create, claim, promote, reconcile, poll, fail, succeed, cancel, reset | one promote request per attempt; a success is Drone's; it ends | `BundlePromotion`, `Slots` |
| Drone client | `integrations/drone/`, `services/drone_build_service.py` | none (Drone's builds) | promote, get build, find promotion | an unknown outcome is never taken for a rejection | `BundlePromotion` |
| Worker, recovery | `services/background_worker.py`, `services/recovery_service.py` | none between passes | resume deployments, reconcile publishes, release stale schedule claims | safe beside requests; a restart strands nothing | `BundlePromotion`, `Publish`, `Schedule` |
| Sessions | `db/session.py` | a copy of the rows read | read, commit of dirty columns, rollback | (the source of lost updates) | all |
| Publishing | `services/publish_orchestrator.py`, `services/publish_service.py` | `publish_status`, `publish_records`; Gitea tags | publish a deployment or a bundle, aggregate | one version per release; a tag never moves; PUBLISHED is true | `Publish` |
| Schedules | `services/schedule_service.py` | `deployment_schedules` | create, cancel, run due | each schedule starts at most one release, and ends | `Schedule` |
| CI inbox, guards | `services/ci_deployment_service.py`, `ci_policy.py`, `planned_deployment_guard.py` | `ci_deployment_requests`, lease | accept, run, adopt, track | one deployment per job; none after the deadline or without a token | `CIInbox` |
| Release plans | `services/release_plan_service.py` | `release_plans` | create, approve, promote | an approval is used at most once, for exactly what was approved | `ReleasePlan` |
| Notifications | `services/notification_service.py` | `email_outbox`, cursor | enqueue, deliver | every event is mailed; bounded duplicates | `Notification` |
| v1 approval | `domain/release/`, `usecase/release/`, `services/workflow_service.py` | `releases`, `release_workflows` | approve, reject, start, finish | one winner; the workflow agrees with the status | `Approval` |
| Registry | `domain/registry/`, `usecase/registry/`, `services/component_registry.py` | projects, components, positions | add, update, delete, reorder | an order without gaps; no edit brings two active components into one slot; what was deployed stays | `Registry` |
| Connections | `domain/registry/entities/connection.py`, `usecase/registry/*_connection_usecase.py` | `upstream_connections` | create, update, probe, delete | a verdict is about the token that is stored; one default of a kind | `Connections` |
| Database revisions | `../alembic/versions` 0010, 0014, 0015 | the tables | upgrade, downgrade, an upgrade that breaks off | the promotion guard is never off; data survives | `Migration` |
| MCP server, audit | `mcp/service.py`, `services/mcp_audit_service.py` | `mcp_tool_invocations` | invoke a tool | the answer an agent gets is true of what was done | `Audit` |
| Rewrite of the orchestration | `usecase/orchestration`, `domain/orchestration` | the same two tables | `advance()` | as for the orchestration it is to replace | `Choreography` |
| Authentication, attachments, operations facade, web frontend | `../frontend`, `services/` | session cookies, files, none, none | log in, upload, read, call the API | | (section 6) |

How they interact. A request thread or the worker's thread opens a database
session, reads rows into it, runs the orchestration on the copies and commits.
Calls to Drone and Gitea are made between two transactions. The worker runs, in
each tick, the CI inbox, the due schedules, the recovery sweeps and the mailer;
all of them call the same orchestrator the endpoints call. The frontend's
polling is `POST .../refresh`, which is one more caller of `_advance`.

What is hard about it. There is no version column, and the ORM writes only the
columns a session changed, with `UPDATE ... WHERE id = ?`: two sessions on one row
mix their writes. Conditional updates exist only for the claim of a deployment, a
schedule, a mail, a plan and a CI job. The promote call is not idempotent and its
outcome can be unknown. The process can stop anywhere. `PROJECT.json` lists these
hazards at their lines, with the property that covers each one or the reason why
none does.

## 2. Modules

| Module | Models | Instance | Proofs |
|---|---|---|---|
| `PromotionLedger` | abstract: what the promotion of releases promises | | its own |
| `BundlePromotion` | deployments of release bundles, from the row to Drone | `MCBundlePromotion` | `BundlePromotionProofs`, `BundleOrderProofs` |
| `BundleRefinement` | the mapping from `BundlePromotion` to the ledger | `MCBundlePromotion` | `BundleOrderProofs` |
| `Choreography` | the rewrite, and its mapping to the same ledger | `MCChoreography` | `ChoreographyProofs` |
| `Publish` | what was deployed becomes a release in Gitea | `MCPublish` | `PublishProofs` |
| `Slots` | the deployments table as its callers share it | | |
| `Schedule`, `CIInbox`, `ReleasePlan` | three of the callers, each over `Slots` | | |
| `Launch` | the callers together, with both dispatch guards | `MCLaunch` | `LaunchProofs` |
| `Notification`, `Approval`, `Registry`, `Connections`, `Migration`, `Audit` | one service each | | |
| `Services` | the six of them side by side | `MCServices`, `MCMigration` | `NotificationProofs`, `ServicesProofs` |

Publishing reads a deployment only once it is SUCCESS, and `retry_bundle` refuses a
bundle whose publishing has begun: `Publish` starts where `BundlePromotion` ends.
`Launch` looks at the same table from its callers' side: a release is one deployment in
it, promoted and refreshed through copies of its row as in `BundlePromotion`, and Drone
is only what it makes of a request.

### BundlePromotion

State. `row` is the `deployments` table (status, `promotion_build_number`,
whether `started_at` is set), `bundle` the status of a `release_bundles` row
(`status` and `deployment_status`, which the orchestration always writes
together). `drone` is the list of promotion builds in Drone, `wire` the promote
requests that have left and that Drone has not dealt with. `sess` holds, per
thread, what it is doing and its copy of the rows (`seen`: as read or last
written, `mine`: with the changes not committed). `log` and `attempts` are
history: what was sent, and how often each row was put to WAITING.

Actions. Each lies between two suspension points, which are commits, reads and
calls to Drone:

| Action | Code |
|---|---|
| `CreateBundle` | `create_bundle` up to its first commit |
| `RefreshBundle`, `ResumeDeployments` | `refresh_bundle`, from a request, and from the worker's sweep |
| `BeginRetry`, `CommitRetry` | `retry_bundle`: check and reset of the copy; commit |
| `TimedOut`, `ReconcilePromotion`, `PollBuild`, `RecordPollFailure` | the branches of `DeploymentService.refresh` |
| `ClaimForPromotion`, `LoseClaim` | `claim_for_promotion`: one row updated, or none |
| `RefuseDispatch` | the CI and plan guards of `promote` |
| `SendPromote`, then `RecordPromotion`, `MarkPromotionUnconfirmed`, `RejectPromote`, `UnusableAnswer` | the POST and the outcomes `promote` tells apart |
| `NextStep`, `FinishSuccess`, `FailBundle`, `EndPass` | the rest of `_advance` and the caller's commit |
| `Raise` | any exception, or the death of the process: the session's copy is gone |
| `CreatePromotion`, `FinishBuild` | Drone (external, from how the code uses it) |

`Commit` is the write of dirty columns: a column whose copy was not changed keeps
what the database holds by then. A commit that would break
`uq_deployments_active_promotion` is impossible, which leaves `Raise`.

Abstractions:
- The bundle and its deployments are read in one step (two SELECTs in the code).
- Validation before the bundle exists, the event history and the current stage
  are left out; no transition reads them.
- `Steps` is fixed; the code reads the components' positions on every pass.
- The guards' conditions and every failure of an upstream read are choices.
- The publish status is NOT_PUBLISHED throughout, so its guard in `retry_bundle`
  does not appear.
- Time is one question, whether `started_at` is older than the workflow timeout.
  With `SlowCalls` the answer is free; without it a row is not overdue while the
  promote call of its own claim is open, as with the default 30 s against 1800 s.
- The sweep's batch limit and quiet interval are left out: the model's worker may
  look at any resumable bundle at any time.
- The write lock a losing claim may hold until its commit is left out, which
  allows more interleavings than the code.
- Deployments without a bundle, and the callers that share a slot with a release, are
  in `Slots`.

### Publish

State. `bundle` and `deployment` hold the publish columns of their tables (status,
version, and whether `publish_started_at` is set and older than the timeout),
`record` is `publish_records`, `enabled` the registry's `publish_enabled`. `tag`
and `released` are Gitea: the commit a tag is on, and whether it has a release.
`posts` are the creates that were sent. `sess` is as in `BundlePromotion`: `seen` is
what the session last read or wrote, `mine` has its changes.

| Action | Code |
|---|---|
| `PublishBundle`, `PublishStandalone` | the checks of `publish_bundle`, `publish_standalone`, and the copy they read |
| `SkipComponent` | the filter on `publish_enabled`, one component at a time |
| `Misconfigured` | `PublishConfigurationError`, `_fail_without_record` |
| `LookUpRecord` | `_prepare_deployment`, `_record_for`, and what `publish_component` makes of the record |
| `CommitPublishing` | the commit before Gitea is called |
| `CreateRelease`, then `ReleaseReady`, `TagTaken`, `UpstreamFails` | `_ensure_release`: look-up, create, and the outcomes the code tells apart |
| `CommitComponent`, `Aggregate` | the commit per component; `_aggregate_bundle` and its commit |
| `SweepBundle`, `SweepDeployment`, `CommitVerdict` | `reconcile_publishes`: read and judge; commit |
| `Raise` | an exception, or the death of the process |
| `BundleTimeout`, `DeploymentTimeout` | `publish_timeout_seconds` has passed since the first attempt |
| `EditComponent` | `publish_enabled` is changed in the registry |
| `HandleCreate`, `PushTag` | Gitea (external, from how the code uses it) |

`Flush` writes dirty columns. To insert a record that another session has inserted
meanwhile breaks `uq_publish_records_deployment_version`, so that commit is
impossible, which leaves `Raise`. `listed` are the deployments whose
`publish_records` collection, loaded when the session opened or extended by an
insert, holds the record that `_aggregate_bundle` counts; a record found by
`_record_for`'s own SELECT is not in it.

Abstractions:
- A bundle, its deployments and their records are read in one step; so are the
  look-ups of the repository, tag and release before a create, and after a 409.
- Every deployment and bundle is SUCCESS.
- A time-out may elapse at any moment after the first commit of an attempt, because
  `publish_started_at` is never reset: a second attempt may be overdue at once.
- Gitea makes the tag with the release; it refuses (409) a tag that stands on
  another commit or has a release. A create it has not refused may be carried out
  at any later time, and carrying one out twice changes nothing, so `posts` only
  grows. Nobody deletes or moves a tag. Releases are not drafts (a draft has no
  tag in Gitea yet; `payload.draft` is not modelled).
- The tag prefix and the repository of a component do not change (`TagSpace`).
- Error codes, URLs and the event history are left out.

### Slots, Schedule, CIInbox, ReleasePlan, Launch

State. `deployment` lists the rows of the `deployments` table (by whom, for which
route, status, promotion build), `route` says which Drone repository a component points
at. `posts` are the promote requests that were sent, where to, and the builds Drone made
of them. `sess` holds, per thread, what it is doing, for whom (`by`), on which row, and
the route in its copy of the component; `copy` its copy of the row, as read (`seen`) and
as it leaves it (`mine`). `schedule`, `job` and `plan` are the rows of
`deployment_schedules`, `ci_deployment_requests` and `release_plans`. `asked` and `moved`
are history; `edits` and `visits` count repointings, and refreshes and retries that no
caller asked for.

| Action | Code |
|---|---|
| `Ask`, `Record`, `Duplicate` | `promote_standalone`; `prepare_standalone` and `create_bundle` up to their commit, and the refusal by look-up or index |
| `Claim`, `LoseClaim`, `Guards`, `Post` | `DeploymentService.promote`: claim, both dispatch guards, the POST with its outcomes |
| `GuardFails` | the plan's guard asks Drone, which refuses or does not answer |
| `Resume`, `BeginRetry` | a row that is not over is read by a refresh, the worker's or anybody's; a failed one by `retry_bundle`, which resets its copy |
| `TimedOut`, `Reconcile`, `PollBuild`, `PollFailure` | the branches of `DeploymentService.refresh`, each judged by the copy |
| `Flush` | the commit: the columns in which the copy differs from what was read, over the row as it is by then, if the unique index allows it |
| `EditComponent` | `update_component_usecase` on the repository |
| `Raise`, `Die`, `Return` | an exception, which the caller handles; the death of the process; a request that is done |
| `CreateSchedule`, `BeginCancel`, `CommitCancel` | `create`, and the two steps of `cancel` |
| `RunDue`, `LinkRelease`, `FailSchedule` | `run_due`: the claim; `_run_one`'s second commit; its `except` |
| `ClaimTimeout`, `ReleaseStaleClaim` | `release_stale_schedule_claims` |
| `Accept`, `RevokeToken`, `DeadlinePasses` | the CI endpoint; an administrator; the clock |
| `Lease`, `LeaseLapses` | the conditional lease of `CIDeploymentRunner` |
| `RejectJob`, `AskSource`, `RejectSource`, `WaitForSource`, `SourcePassed`, `RecordJob` | `_advance` of a job: the checks before and after Drone is asked, and the deployment with its link in one commit |
| `Adopt`, `RejectAdopted`, `NoneToAdopt`, `Track`, `RetryJob` | the slot is somebody else's; `_track`; an error that is tried again |
| `CreatePlan`, `Expire`, `BeginApprove`, `CommitApprove` | draft with its snapshot, and the approval of exactly that |
| `BeginPromote`, `ClaimPlan`, `LosePlan`, `EndPlan` | `promote_to_production`: checks, the one-use claim, the outcome |

Abstractions:
- A release is one deployment. Its components' order is `BundlePromotion`'s subject.
- One source build throughout: a slot is a route. A promotion that Drone makes is
  `proven` (it will succeed with every stage a policy may require) or `built` (it will
  not); which it is is drawn when it is made and told when it is polled. A request that is
  carried out late is in `BundlePromotion`.
- A poll of a build number in another repository, which a repointing makes possible, is
  answered with some other build.
- `Schedule` has what is due, from the start. The refresh of a schedule's release after it
  was linked is `Resume` and what follows it.
- A plan may be drafted or be over in an initial state, and so may a schedule; a job may
  have lost its token. That lets an instance choose who is there.
- `deploy_staging` takes no plan and is not in `ReleasePlan`; a tool that deploys without an
  approval is in `Audit`.

### Notification

State. `event` is `workflow_events` (flushed or committed, and its `created_at` as a
stamp), `cursor` the stamp the outbox has got to, `outbox` the mails with status,
attempts and two ages (back-off over, claim stale), `dispatch` what a caller of the
dispatch is doing. `overtaken` (events committed with a stamp the cursor has passed)
and `takenOver` (mails whose claim was taken over) are history.

Actions. `AppendEvent` and `CommitEvent` lie apart, since services flush an event in a
transaction that commits later; `Announce` is the mail a schedule writes itself.
`ReadEvents`, `EnqueueEvents` are `enqueue_new_events`; `ListDue`, `ClaimMail`, `SkipMail` and the
outcomes (`Sent`, `NotSent`) are `deliver_pending`; `Abort` is an exception or a crash.
Recipients and templates are abstracted to whether an event has an addressee. Batch
limits are left out.

### Approval

State. `release` and `flow` are the rows of `releases` and `release_workflows`, `clerk` the
requests with what they read. Actions: `CreateRelease`; `ReadRelease`, `EnsureFlow` (an
instance built late, from the status read), `CommitLook`, `Answer` (workflow step, the
compare-and-swap on the status, one commit), `LoseRequest`. A BPMN instance is
reduced to the task at which it waits.

### Registry

State. `row` is `project_components` (position, target and connection a component
overrides, active), `standard` and `server` are the project's own target and connection,
`preferred` is the default connection in `upstream_connections`. `editor` is each request's
copy with the ids it knew, `deployed` the components something refers to. `Project` is the
aggregate as it is loaded, its components `ByPosition`; `Added`, `Updated`, `Redirected`,
`Removed` are what the entity's methods make of it. A slot (`SlotKey`) is the resolved
connection (`ConnectionOf`: the component's, the project's, the default) and the effective
target.

Actions: `AddComponent`, `UpdateComponent`, `UpdateProject`, `ArchiveProject`,
`DeleteComponent`, `ReorderComponents` load the aggregate and edit the copy. The first three
go on to `CheckSlots`, which asks for the connections as they are at that moment; archiving,
deleting and reordering do not look at the slots, but write every component back. `ReadRows`
and `Save` are `_sync_components`; `FailEdit` is any refusal, those of the database
included; `Refer` is a new deployment; `MoveDefault` is `update_connection_usecase`, seen
from here: the default moves, and no project is looked at. `overlapped` remembers that a
request wrote after one it had not seen. A project may have slots in conflict from the
start: one that was seeded never went through `save_project`
(`validate_project_usecase.py:33`).

### Connections

State. `upstream` is `upstream_connections` of one kind: token, the token the stored
verdict is about, default. `admin` holds each request's copy and the row as it last read
it. Actions: `BeginUpdate`, `BeginProbe` read a row and edit the copy; `RereadConnection`
and `SaveConnection` are the two halves of `repository.save`, a second SELECT and an UPDATE of
the columns in which the copy differs from it (`Flushed`), with nothing locked in between;
a request that makes its connection the default has cleared the others' in the same
transaction, so its second read and its write are one step. `BeginCreate`,
`AddConnection`; `BeginDelete`, `DeleteConnection`; `ReferTo`, `LetGo` (what uses a
connection); `LoseAdmin`. `covered` remembers the connections on which a request has
written that had not seen what others wrote since it read the row; `crossed` those of them
whose token or verdict another wrote between the second read and the write, where one
request's token and another's verdict can meet; `undone` that the default was given up on
purpose. Encryption, and how a client is made from a connection, are left out.

### Migration

State. `db` is the database as the revision sees it, `committed` as everybody else does:
revision, guard (which unique index there is), deployments, publish records, registry.
`upgrade` is the next step. Actions: `CreateGuard` (0010), `CreateRegistry`,
`SeedRegistry` (0014), `AddColumns`, `BackfillRows`, `RebuildTable` (0015), its downgrade
`DropScopeIndexes`, `NarrowTable`; `WriteNumber` commits; `BreakOff` is an error or a crash
and rolls back what is not committed. SQLite's driver opens a transaction at the first
INSERT, UPDATE or DELETE and not at DDL, which decides what is committed at once. In
between the controller works: `Deploy`, `EndDeployment`, `RecordPublish`, `ChangeRegistry`.
All deployments have one build number and one target.

### Audit

State. `call` is each wish's latest tool call, `trail` the table `mcp_tool_invocations`, `effects`
how often a wish was carried out, `mode` the configured mode. Actions: `AskTool` (an
agent; it asks again only when told that nothing was done), `RecordStart`, `NotStarted`,
`Refuse`, `RunTool`, `RecordEnd`, `EndUnrecorded`, `AuditCrash`. A tool either deploys or does
not.

### Services

`Services` puts the variables of the six modules above side by side and chooses at the
start which one is `open`, so that one run and one specification hold them. Two of them
meet in the code: a project's slots depend on the default connection, and a connection is
kept while a project or component names it. Each module has the other's part as a step
that anything may take at any time (`MoveDefault`; `ReferTo`, `LetGo`), which allows all
that the other does to it, so that nothing is lost by looking at one at a time.

### PromotionLedger, BundleRefinement, Choreography

`PromotionLedger` is the abstract specification: an attempt is opened, Drone is asked for it
once at most and only after it accepted every component before, and nothing is written
down as done that it did not accept. `BundleRefinement` reads `BundlePromotion`'s rows as
entries (`Ledger == INSTANCE PromotionLedger WITH ...`).

`Choreography` is the rewrite that is to take over from `ReleaseOrchestrator`; nothing in
the application calls it yet. It keeps the same ledger (`Promises`). `stored` is what is
committed, `pending` what the holder of SQLite's one write lock has written,
`promotion` the requests at Drone, `driver` the passes. Actions: `BeginPass`, `Decide`
(`next_decision`), `ClaimStep`, `MissClaim`, `SendStep`; `PromotionCreated`,
`PromotionRefused`, `PromotionUnconfirmed`; `TimeOut`, `Reconcile`, `PollEnds`,
`PollLearnsNothing`; `After`, `FailBundle`, `FinishBundle`, `CommitPass`; `DropPass` (an
exception or a crash); `DroneTakes`, `DroneEnds` (external). A save writes every column,
unlike the ORM sessions elsewhere, and is seen by others only after a commit. That the
caller reads the bundle, checks that it is open and commits at the end is taken from
the tests; there is no retry in it.

## 3. Runs

| Run | Instance | Shows |
|---|---|---|
| `promotion` | two components, one request thread and the worker, slow calls, one retry of the second component after the first succeeded; 178 122 states | `TypeOK`, `AttemptPostedOnce`, `WaitingIsUnsent`, `OrderedRelease` hold, and every step is one of the ledger (`ImplementsLedger`) |
| `release_ends` | two components, the same threads, no retry, with required stages on the second component, under fairness; 11 425 states | `SuccessIsReal` and `InFlightEnds` hold |
| `launch` | two components on one of two routes; a schedule, a CI job, a plan and a user, two of them at a time or one with a repointing; the worker, a request thread, two tool calls, one refresh or retry by somebody else; 135 786 states | one deployment each (`LaunchedOnce`), one active deployment of those sent to a slot (`OnePromotionPerSlot`), `SucceededIsLinked`, `PlannedAsApproved`, `JobsTrue`; schedules and jobs end |
| `services` | each service with two callers: two events and an announcement, one release, three components, two connections, two deployments, one wish with three calls; 124 279 states | the sixteen properties of section 2's services, among them `SlotsGuarded` from a project with or without a conflict, and `EventsQueued` and `MailEnds` under fairness |
| `choreography` | two components, a worker and a request, two passes cut short, under fairness; 117 875 states | the ledger is kept (`RewriteKeepsLedger`), `VerdictIsWhole`, `RewriteEnds` |
| `publish` | a release of two components, any of which may publish, one version, two requests and the worker; 1 256 171 states | `TypeOK`, `CreatedIsRecorded`, `PublishedIsComplete` hold |
| `publish_ends` | a release of one component and a deployment of its own that claim one tag on two commits, two requests, one change of `publish_enabled`, under fairness; 180 112 states | `PublishedIsTagged` and `PublishingEnds` hold |
| `terminal_final` | one component | violated: the sweep takes a FAILED deployment back to DEPLOYING |
| `bundle_settles` | one component, under fairness | violated: a crash between the commit of a deployment's failure and that of its bundle strands the bundle |
| `one_version` | one component, two versions | violated: one release is published in two versions |
| `sweep_verdict` | two components, one of which does not publish | violated: the sweep counts the component that does not publish |
| `records_kept` | two deployments, the revisions 0010 to 0015 | violated: the rebuild of the deployments table deletes their publish records |

### Bounds

`MaxAttempts[d]` bounds how often row d is put to WAITING, and so the number of requests
and builds. In `promotion` the second component is the one that may be retried (a
PARTIAL_FAILURE release). The instance with a retry of both has 5.7 million states and the
same result, and takes minutes. One retry is where every cross-attempt effect begins
(an answer, a build or a copy of the attempt before). Two sessions suffice for a lost
update. The first component of two stands for "everything before", the second for
"everything after"; the theorems remove these bounds for the safety properties.

In the Publish runs two requests (`MaxRequests`) are one attempt and a retry, or two
attempts that race; the worker is the third session on the same rows. Two
components are a first and a last one; `Init` chooses which of them publish.
`MaxEdits` counts changes of `publish_enabled`; `PublishedIsComplete` is checked
without any, since a component that starts to publish afterwards is not out.

In `launch`, `MCInit` picks who is there: what the slots add to a caller is met as soon as
two of them want one slot, and a repointing matters to a job and a plan, whose route is
fixed. `MaxVisits = 1` is one refresh or retry of a row on no caller's behalf, beside what
the worker does for a job or a schedule: the second session that a stale write needs. All
four callers at once, with any number of threads and visits, are the theorems' subject.

In `services`: two dispatchers with `MaxAttempts = 2` are the first place where an attempt
beyond the maximum can occur; two clerks, editors and admins are the first where a
copy goes stale; `MaxEdits = 2` is two requests, or one and a move of the default or a
reference; `MaxTokens = 2` and `MaxAsked = 3` allow a rotation, a probe and a third
request (two where the connections are there from the start). One connection (`Drone`) and
no default are the two things a component can resolve to. `Closed` fixes what another
service would start with, and the start of a service leaves out what its own actions lead
to. Two deployments are what a unique index needs; `MaxChanges = 1` is one change of the
registry between revisions. `MaxCalls = 3` is a wish that is asked for again, twice.

In `choreography`, `MaxDrops = 2` counts passes that end in an exception or a crash: both
drivers may, or one of them twice.

`CHECK_DEADLOCK FALSE`: what has ended, with its retries used up, really stops.

### Fairness

`BundlePromotion` (`LiveSpec`). The worker's thread runs for ever (`BackgroundWorker.run`):
weak fairness on what its current pass does next, exceptions included. Strong
fairness on its sweep reaching a bundle, on the claim, the walk to the next
component, and the two ends of a bundle: an exception or another session's write
may spoil such a step any finite number of times, not every time. Strong fairness
on `TimedOut`: while a deployment stays in flight the worker comes back to it, and
time passes. Nothing is assumed of requests, of the network or of Drone.
`InFlightEnds` is checked without retries: after one, a late write of the previous
attempt can leave a DEPLOYING row without `started_at`, for which
`_timed_out` never answers yes; such a row ends only if Drone answers.

`Publish`: the same kind; the worker reaches what is overdue and commits its
verdict, and time passes. Requests and Gitea may stop at any point.
`PublishingEnds` is about the rows the sweep selects: bundles, and deployments of
their own. The rows of a bundle's deployments and their records may stay PUBLISHING
after a crash, until somebody publishes again; no later step depends on them.

`Launch`: the worker again (`WorkerStep`); strong fairness on running and releasing a due
schedule, leasing a job and deciding it, the worker's claim, and, for each job, on its
`TimedOut` and `Flush`, because these are steps that a request or a crash can put off but
not for ever: while a job follows a deployment in flight the worker comes back to it, in
the end past the workflow timeout, and its commit is not refused every time. Clocks run.
Nothing is assumed of requests, of Drone, or of what the guards find.

`Notification`: the worker dispatches at every tick and is not cut off for ever at the
same place; back-offs end and claims age. `Choreography`: a pass that has begun goes on,
the sweep begins again while the bundle is open, it gets the write lock in the end
(`busy_timeout`), and past the timeout it finds the deployment overdue.

## 4. Findings

Five runs refute what the repository says of itself (`PROJECT.json`, findings):
- `terminal_final`: `recovery_service.py:10` calls every transition a conditional
  UPDATE; only the claim is, and a sweep can overwrite a terminal status.
- `bundle_settles`: `background_worker.py:34` says a restart resumes rather than
  strands; a bundle whose only unfinished business is its own status is not found.
- `one_version`: `publish_orchestrator.py:345` says a version is pinned while it is in
  flight; two requests that read the row before either commits both go through.
- `sweep_verdict`: `publish_orchestrator.py:260` says why the verdict must count only
  the components that publish; the sweep counts all of them.
- `records_kept`: `20260902_0015_deployments_project_scope.py:318` switches the foreign keys
  off for the rebuild, inside a transaction, where SQLite ignores it: the records that
  refer to a deployment are deleted with the old table, and the links of schedules
  cleared.

Met while modelling, and reached by no property (each is a choice or a history variable
in the module named, or a reading of the code):
- Two retries of one failed bundle: the second resets a bundle that is already promoting
  (`release_orchestrator.py:286`; `BundlePromotion`).
- A component that stops publishing during an attempt makes up for one that failed
  (`publish_orchestrator.py:260`; `Publish` with `MaxEdits` above 0).
- `cancel()` of a schedule that was claimed meanwhile writes CANCELLED over RUNNING, and
  the release goes on (`Schedule`).
- A component that is repointed while its build waits is promoted on the new repository
  without a slot there (`Launch`; hence `moved` in `OnePromotionPerSlot`).
- An event whose transaction commits after the cursor passed its `created_at` is never
  mailed (`Notification`, `overtaken`). A mail may be attempted once more than the
  maximum by every other dispatcher; a crash at the last attempt leaves it PROCESSING.
- Overlapping edits of a project can put two active components into one slot, or write
  back the set of components without the one that was added (`Registry`, `overlapped`).
- Making another connection the default can put two active components into one slot, and
  nothing looks (`update_connection_usecase.py:56`; `Registry`, `MoveDefault`), where
  `validate_project_usecase.py:33` says a conflict cannot come about except by seeding. The
  index on `deployments` still refuses the second deployment.
- A probe that races a token rotation restores the old token, or loses a default
  (`Connections`, `covered`). A probe that has read the row for the second time just before
  a rotation commits writes only its verdict, which then stands beside the new token
  (`crossed`).
- A deployment that another session has ended between its claim and its POST is sent all
  the same, and a refresh that read a row in flight can write FAILED over its SUCCESS
  (`Slots`, `Flush`); a CI job asks Drone once more before it says SUCCESS, so its word
  does not rest on the row (`JobsTrue`).
- The check before a connection is deleted asks projects and components only, while
  deployments and CI requests refuse it by foreign key.
- In the rewrite a lost claim keeps the write lock across a call to Drone, contrary to the
  docstring of `_promotion.py:6-8`; a late save can reopen a bundle that has ended
  (`Choreography`, `reopened`); it has neither the dispatch guards nor the stage policy.
- A revision that breaks off after its first `add_column` cannot be run again: the column
  is committed and the number is not (`Migration`, `started`). The search for duplicates
  in 0015 refuses some that its index would take. A downgrade can fail at the old index
  with the new ones already dropped.
- `refresh_standalone` emits RELEASE_COMPLETED again at each refresh of a deployment that
  has succeeded. In the frontend `loadBuilds` does not look again at the project after its
  `await`, nor `selectHistory` and `loadHistory` at the generation.

## 5. Proofs

TLC checks the instances above; TLAPS proves the following for every value of the
constants that the modules' named ASSUMEs admit. Each proof has a lemma per action or
group of actions, and the temporal step by `PTL`.

BundlePromotion, for every set of bundles and deployments, every length of a bundle,
every number of request threads and of retries:

- `TypeCorrect`: `TypeOK`. Strengthened by `Working`: a session that is not idle
  stands on an existing step of its bundle.
- `PromotedOnce`, `WaitingSafe`: `AttemptPostedOnce`, `WaitingIsUnsent`. Neither is
  inductive: the right to send lives in three places in turn. `ClaimInv` says that
  the right of the current attempt is either in the row (WAITING, nobody has
  claimed or sent it), or with exactly one session (claimed, not sent), or spent
  (in the log), and that no session outside a retry is about to write WAITING.
- `ComponentsInOrder`, `SuccessFromDrone`: `OrderedRelease`, `SuccessIsReal`.
  `OrderInv` says that every SUCCESS, in the database or in any session's copy,
  is a verdict Drone gave, that a build number is that of a promotion of the same
  slot, and that a session that stands on step i holds SUCCESS for the steps
  before it. Drone takes no verdict back, so stale copies stay true; this is why
  the lost updates of section 4 do not break the order of a release.
- `BundleImplementsLedger`: `ImplementsLedger`. Initial states map to initial states, and
  under `ClaimInv` and `OrderInv` every step maps to an entry, a request, an acceptance or
  a stutter.
- `UndoneOnlyByStale`: that a status which has ended never changes is what
  the code does not keep (`terminal_final`, section 4); this says how it can happen.
  A row that has ended changes only by a retry that resets it, or by a session whose
  copy still has it unfinished; and a SUCCESS, by either, only when the copy does not say
  so. `CopyInv` says of each place of a session what its copy may differ in from what it
  will write.

Publish, for every set of bundles, deployments, versions and requests, any
repositories and any number of edits:

- `TypeCorrect`: `TypeOK`, strengthened as above: a session at a component has one.
- `RecordsTrue`: `PublishedIsTagged`. `RecordInv` says the same of the records in every
  session's copy: a release stays where it is (`ReadyStable`), so a stale PUBLISHED is
  still true when it is written.
- `PublishedWhileUnedited`: `PublishedIsComplete`, in any run in which what publishes is the
  same set all along, `[][UNCHANGED enabled]_vars`; `CompleteWhenPublished` is the case
  `MaxEdits = 0`, in which the run checks it. `CompleteInv` adds that only what publishes has a
  record, in the table or in a copy, that a session of a bundle publishes exactly the
  components of it that publish, and that a copy which says PUBLISHED is as true as a
  row that does. A verdict then counts a subset of what it is compared with, and equal
  counts are equal sets; nothing that is out is taken back, so a verdict of an earlier
  read does no harm.
- `CreatesRecorded`: `CreatedIsRecorded`. `CreateInv` follows the record of a component
  from the copy (present before the commit) to the database (present before and after
  the create), and says that a commit never takes a record away: what a session
  changed is in its copy, and what it has not seen it does not write.

Launch, for any callers, components, routes and numbers of threads:

- `LaunchTypes`, `OneDeploymentEach`, `SuccessIsLinked`, `PlansAsApproved`: from `LaunchInv` with
  `CopyInv`, which says what a session's copy of its row can be: one that dispatches has read
  the row as claimed, and one that has something to write has read it in flight, or FAILED
  to be reset. That a caller leads to one deployment is not inductive: the right to
  record one is in the caller's row until the claim, with one session until the insert,
  and gone after it (`Spent`, `Fresh`); a job, which may be leased again, is run by the
  worker alone and only while it has no link. For plans it adds that an approved route
  never changes again.
- `PromotedOncePerSlot`: `OnePromotionPerSlot`, by `SlotInv` on top of it: an active deployment
  has its route to itself, whichever late write made it active, a session that dispatches
  holds a route that is the deployment's or was moved, and so does every post. That nothing
  is sent for a deployment that is over is not claimed, and the code may do it.
- `JobsTellTrue`: `JobsTrue`, by `JobInv`: the worker alone acts for a job, on the route it was
  accepted for until a deployment is recorded and on the one it is linked to afterwards;
  what a job records is linked to it in the same commit; and a job's SUCCESS rests on a
  build of Drone, which stays, and not on the row's status, which may not.
- `WhatIsOverStays`: no step undoes what is over. A job keeps its link, once it has one, and
  the status it ended with; a used plan keeps its outcome and the route it was approved for;
  a schedule that was claimed is not claimed again; a deployment keeps its caller and its
  route. Its status, once over, is changed only by a session that had read it in flight, or
  by the retry of a failed one (compare `UndoneOnlyByStale`). It rests on `EndInvariant`:
  whoever acts for a job acts for one that has not ended, and of the sessions that act for a
  plan one alone holds it, executing.

Choreography, for any components in any order and any number of callers:

- `ChoreographyTyped`: `ChoreographyTypeOK`.
- `RewriteImplementsLedger`: `RewriteKeepsLedger`, that the rewrite implements the same ledger
  as `BundlePromotion`. `PromiseInv` says that every SUCCESS and every verdict, committed,
  pending or seen by a pass, is one Drone gave, and that a pass that claims or sends
  step i has heard of the success of those before it.
- `LedgerPromises` (in `PromotionLedger`): whoever implements the ledger, an attempt is asked of
  Drone once, a component after those before it were accepted, and what is written
  as done or released was accepted. `BundleKeepsPromises` and `RewriteKeepsPromises` bring
  this over to the two implementations, by their refinements alone.
- `VerdictsAreWhole`: `VerdictIsWhole`. `VerdictInv` says, as long as no late save has reopened
  an ended bundle, that steps are touched in turn, that rows which have ended agree
  between the two tables and a pass's view, and which rows a pass that is about to
  decide has seen to end.

The services, each with an invariant of its own:

- `ServicesTyped`: `ServicesTypeOK`, the six type invariants at once. Whichever service steps,
  the others stand still (`StepOfEach`), so the invariants below are kept together.
- `ServicesImplementEach`, `ServicesKeepPromises`: the services put together implement each of
  the six specifications, so what is proved of one alone holds of all at work.
- `AttemptsAreBounded`, `SentMailStays`, `NotificationTypeCorrect` (`Notification`): a
  mail can be over the maximum only by the claims of dispatchers that had listed it
  before, one each, which is counted.
- `ApprovalTypeCorrect`, `WorkflowAgrees`, `TransitionsAnsweredOnce` (`Approval`): an
  instance in a request's hands stands where the status it read says, so what the
  compare-and-swap lets through agrees.
- `DeployedIsKept`, `OneOrder`, `EditsGuardSlots`, `RegistryTypeCorrect` (`Registry`): every
  copy holds each component once (`ProjectTyped`), so what `Save` writes is numbered 1..n. A
  request that no other has outrun edits the project as it is, and holds a copy without a
  slot conflict under the default it resolved, or one in which every component promotes as
  it does in the table (`UpToDate`); what it writes therefore adds no clash, whatever
  clashes there are.
- `ConnectionsTyped`, `VerdictsMatch`, `RotationsHold`, `DefaultKept` (`Connections`):
  `Prepared` says of a request's copy that its verdict is about its own token (or its
  connection is `crossed`) and which columns it leaves as it read them, so that what is
  flushed over a row that did not change in between is the copy, column by column.
- `GuardNeverOff`, `RowsFit` (`Migration`): `MigrationInv` says of each step what is committed and
  what the refusals before it have established.
- `AnswersAreTrue` (`Audit`): `AuditInv` relates where a call stands to its rows and its effect.

Assumptions. The constants' ASSUMEs say what the code gives them: components are finitely
many and each is in one place of its order (`ChoreographyAssumption`, `RegistryAssumption`),
a bundle's deployments are its own (`StepsAssumption`), bounds are numbers. Positions are
sorted by a choice (`ByPosition`) instead of a recursive sort, about which nothing can be
proved here. That a bounded set of stamps has a greatest element and a sorted
enumeration exists is shown from well-founded minima and from the bijection of a finite
set, first-order facts of the library, since its induction theorems cannot be used.

What the proofs changed in the models. The induction for `JobsTrue` failed on a job that
adopts a deployment: `Adopt` and `Lease` went on with the route of the job's own component,
whereas the code follows an adopted deployment through the component it was created against
(`Followed`). With it the guard is as in `ci_dispatch_allowed`: of the jobs that are linked
to a deployment the query takes any one (`Followers`), and checks the intent anew only
if that one's token asked for it (`Bound`). When a second job has adopted the deployment
of a first, the recheck may so be skipped; no run is about that.

Only model-checked: liveness (`InFlightEnds`, `PublishingEnds`, `SchedulesEnd`, `JobsEnd`,
`EventsQueued`, `MailEnds`, `RewriteEnds`), which is beyond TLAPS with its ENABLED; what
becomes of `PublishedIsComplete` when `publish_enabled` changes, which no run claims; and
the violations of section 4, which are counterexamples. Every safety property of a
passing run is a theorem.

## 6. Not modelled

- Authentication (an OAuth exchange and a signed cookie) and attachments (validation and a
  file copy): no state is shared with releases. The operations facade reads only.
- The web frontend calls the API; its polling is the refresh of a request thread.
- Creation and validation of projects; encryption of tokens; how a client is
  made from a connection; the search of repositories.
- Database revisions other than the three, which add tables and columns, and the
  downgrades of 0010 and 0014, which drop them.
- `deploy_staging` as a caller of the slots. It is `promote_standalone` behind a tool call:
  `Ask` and `Audit` hold its two halves.
- Batch limits of the sweeps and the mailer: the models look at any row at any time.
- Event histories, texts, error codes and URLs, and `RELEASE_COMPLETED` being repeated.
- `reset_for_retry` of the rewrite, which nothing calls.
- A project that is reordered while its release is in flight: `Steps` is a constant.

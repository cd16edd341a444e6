-------------------------- MODULE BundlePromotion --------------------------
(***************************************************************************)
(* How a release bundle's deployments reach Drone.                         *)
(*                                                                         *)
(* Request threads and the background worker run the same orchestration    *)
(* code (ReleaseOrchestrator, DeploymentService), each in a database       *)
(* session of its own.  A session reads its rows once, works on the copy,  *)
(* calls Drone with no transaction open, and at a commit writes back the   *)
(* columns it changed, whatever the rows hold by then.  Only the claim of  *)
(* a WAITING deployment is a conditional UPDATE.  Drone may lose a         *)
(* promote request, answer it late, or create the build and lose the       *)
(* answer; a session may die between any two of its steps.                 *)
(*                                                                         *)
(* Interleaving points are the commits, the database reads and the calls   *)
(* to Drone; what lies between two of them is one action.                  *)
(***************************************************************************)
EXTENDS Naturals, Sequences, FiniteSets

CONSTANTS
  Dep,          \* the deployments, one row each
  Bundle,       \* the release bundles
  Steps,        \* Steps[b]: the deployments of b in component order
  Slot,         \* Slot[d]: repository, source build and target d promotes
  Policed,      \* deployments that carry required_promotion_stages
  Request,      \* request threads
  Worker,       \* the background worker's thread
  None,         \* no bundle
  SlowCalls,    \* whether a promote call may outlast the workflow timeout
  MaxAttempts   \* bound: d is reset for retry below MaxAttempts[d] attempts

Session == Request \cup {Worker}

ASSUME StepsAssumption ==
  /\ Steps \in [Bundle -> Seq(Dep)]
  /\ \A b \in Bundle : Len(Steps[b]) > 0
  /\ \A b, c \in Bundle : \A i \in 1..Len(Steps[b]), j \in 1..Len(Steps[c]) :
       Steps[b][i] = Steps[c][j] => b = c /\ i = j
ASSUME ConstantsAssumption ==
  /\ Policed \subseteq Dep
  /\ Worker \notin Request
  /\ None \notin Bundle
  /\ SlowCalls \in BOOLEAN
  /\ MaxAttempts \in [Dep -> Nat]

VARIABLES
  row,       \* table deployments: status, promotion_build_number, started_at
  bundle,    \* table release_bundles: status
  drone,     \* the promotion builds Drone has, in build-number order
  wire,      \* promote requests sent and not yet dealt with by Drone
  sess,      \* what each session is doing, and its copy of the rows
  log,       \* history: every promote request sent, with the attempt it is for
  attempts   \* history: how often each row was put to WAITING

vars == <<row, bundle, drone, wire, sess, log, attempts>>

----------------------------------------------------------------------------
(* Rows.  ABSENT: the row does not exist; build 0: no promotion_build_number. *)

DeploymentStatus ==
  {"WAITING", "PROMOTING", "DEPLOYING", "SUCCESS", "FAILED", "CANCELLED"}
BundleStatus ==
  {"PENDING", "PROMOTING", "DEPLOYING", "SUCCESS", "FAILED", "PARTIAL_FAILURE"}
Row == [status : DeploymentStatus \cup {"ABSENT"}, build : Nat, started : BOOLEAN]
Blank == [status |-> "ABSENT", build |-> 0, started |-> FALSE]
Created == [Blank EXCEPT !.status = "WAITING"]

\* The statuses that hold a promotion slot, and the predicate of the unique
\* index uq_deployments_active_promotion.
Active == {"WAITING", "PROMOTING", "DEPLOYING", "SUCCESS"}
Resumable == {"WAITING", "PROMOTING", "DEPLOYING"}
BundleTerminal == {"SUCCESS", "FAILED", "PARTIAL_FAILURE"}
Retryable == {"FAILED", "PARTIAL_FAILURE"}

SlotsUnique(rows) ==
  \A d, e \in Dep :
    (d # e /\ Slot[d] = Slot[e]) => ~({rows[d].status, rows[e].status} \subseteq Active)

DepsOf(b) == {Steps[b][i] : i \in 1..Len(Steps[b])}

(* What a promotion build of Drone says of a deployment.  "unproven" is a    *)
(* successful build whose required stages did not all execute.              *)
Verdict == {"running", "success", "unproven", "failure"}
Accepts(d, verdict) ==
  verdict = "success" \/ (verdict = "unproven" /\ d \notin Policed)
PromotionsOf(d) == {n \in DOMAIN drone : Slot[drone[n].dep] = Slot[d]}
Accepted(d) == \E n \in PromotionsOf(d) : Accepts(d, drone[n].verdict)

----------------------------------------------------------------------------
(* Sessions.  seen is what the session last read or wrote, mine its copy   *)
(* with the changes not yet committed (the ORM's identity map).            *)

Idle == [pc |-> "idle", job |-> None, at |-> 0, post |-> 0, attempt |-> 0,
         seen |-> [d \in Dep |-> Blank], mine |-> [d \in Dep |-> Blank],
         seenB |-> "PENDING", mineB |-> "PENDING"]

Current(s) == Steps[sess[s].job][sess[s].at]
Mine(s) == sess[s].mine[Current(s)]

\* A dirty column is written with an unconditional UPDATE ... WHERE id = ?.
Merged(db, seen, mine) ==
  [status  |-> IF mine.status = seen.status THEN db.status ELSE mine.status,
   build   |-> IF mine.build = seen.build THEN db.build ELSE mine.build,
   started |-> IF mine.started = seen.started THEN db.started ELSE mine.started]
Flushed(s, mine) == [d \in Dep |-> Merged(row[d], sess[s].seen[d], mine[d])]

\* The walk over the steps acts on a step that is not finished, else it
\* only looks at how the step ended.
PhaseAt(b, rows, k) == IF rows[Steps[b][k]].status \in Resumable THEN "step" ELSE "check"

\* A commit of s with copy mine and bundle status mineB, and its next state.
\* A commit that would break the unique index raises instead (see Raise).
Commit(s, mine, mineB, next) ==
  /\ SlotsUnique(Flushed(s, mine))
  /\ row' = Flushed(s, mine)
  /\ bundle' = [bundle EXCEPT ![sess[s].job] =
                  IF mineB = sess[s].seenB THEN @ ELSE mineB]
  /\ sess' = [sess EXCEPT ![s] = IF next.pc = "idle" THEN Idle ELSE
               [next EXCEPT !.seen = mine, !.mine = mine, !.seenB = mineB, !.mineB = mineB]]

\* A commit that ends the pass.
Finish(s, mine, mineB) ==
  /\ Commit(s, mine, mineB, Idle)
  /\ UNCHANGED <<drone, wire, log, attempts>>

\* The copy of s with its current deployment changed.
With(s, r) == [sess[s].mine EXCEPT ![Current(s)] = r]

----------------------------------------------------------------------------
Init ==
  /\ row = [d \in Dep |-> Blank]
  /\ bundle = [b \in Bundle |-> "ABSENT"]
  /\ drone = <<>>
  /\ wire = {}
  /\ sess = [s \in Session |-> Idle]
  /\ log = <<>>
  /\ attempts = [d \in Dep |-> 0]

\* A session that starts on b with copy rows and bundle status status.
Opened(b, rows, status, pc) ==
  [Idle EXCEPT !.pc = pc, !.job = b, !.at = 1, !.seen = rows, !.mine = rows,
               !.seenB = status, !.mineB = status]

RowsRead(b) == [d \in Dep |-> IF d \in DepsOf(b) THEN row[d] ELSE Blank]

\* create_bundle: the bundle and one WAITING row per component are committed
\* before Drone is asked for anything; a taken slot rejects the whole bundle.
CreateBundle(s, b) ==
  /\ sess[s].pc = "idle"
  /\ bundle[b] = "ABSENT"
  /\ LET fresh == [d \in Dep |-> IF d \in DepsOf(b) THEN Created ELSE row[d]] IN
       /\ SlotsUnique(fresh)
       /\ row' = fresh
  /\ bundle' = [bundle EXCEPT ![b] = "PENDING"]
  /\ attempts' = [d \in Dep |-> IF d \in DepsOf(b) THEN attempts[d] + 1 ELSE attempts[d]]
  /\ sess' = [sess EXCEPT ![s] =
       Opened(b, [d \in Dep |-> IF d \in DepsOf(b) THEN Created ELSE Blank], "PENDING", "step")]
  /\ UNCHANGED <<drone, wire, log>>

\* refresh_bundle: read the bundle and its rows, unless it is over.
RefreshBundle(s, b) ==
  /\ sess[s].pc = "idle"
  /\ bundle[b] \notin BundleTerminal \cup {"ABSENT"}
  /\ sess' = [sess EXCEPT ![s] =
       Opened(b, RowsRead(b), bundle[b], PhaseAt(b, row, 1))]
  /\ UNCHANGED <<row, bundle, drone, wire, log, attempts>>

\* resume_deployments: the worker refreshes the bundles that have a
\* deployment somebody started and nobody finished.
ResumeDeployments(b) ==
  /\ \E d \in DepsOf(b) : row[d].status \in Resumable
  /\ RefreshBundle(Worker, b)

\* retry_bundle, first half: read, refuse, reset the copy.
BeginRetry(s, b) ==
  /\ sess[s].pc = "idle"
  /\ bundle[b] \in Retryable
  /\ \E d \in DepsOf(b) : row[d].status # "SUCCESS"
  /\ \A d \in DepsOf(b) : row[d].status # "SUCCESS" => attempts[d] < MaxAttempts[d]
  /\ sess' = [sess EXCEPT ![s] =
       [Opened(b, RowsRead(b), bundle[b], "reset") EXCEPT
          !.mine = [d \in Dep |-> IF d \in DepsOf(b) /\ row[d].status # "SUCCESS"
                                  THEN Created ELSE RowsRead(b)[d]],
          !.mineB = "PENDING"]]
  /\ UNCHANGED <<row, bundle, drone, wire, log, attempts>>

\* retry_bundle, second half: commit the reset rows, then advance.
CommitRetry(s) ==
  LET b == sess[s].job IN
  /\ sess[s].pc = "reset"
  /\ Commit(s, sess[s].mine, sess[s].mineB,
            [sess[s] EXCEPT !.pc = PhaseAt(b, sess[s].mine, 1)])
  /\ attempts' = [d \in Dep |->
       IF sess[s].mine[d].status = "WAITING" /\ sess[s].seen[d].status # "WAITING"
       THEN attempts[d] + 1 ELSE attempts[d]]
  /\ UNCHANGED <<drone, wire, log>>

----------------------------------------------------------------------------
(* DeploymentService.refresh on the current step of _advance.              *)

InFlight(s) == sess[s].pc = "step" /\ Mine(s).status \in {"PROMOTING", "DEPLOYING"}

Looked(s, mine, mineB) ==
  /\ sess' = [sess EXCEPT ![s].pc = "check", ![s].mine = mine, ![s].mineB = mineB]
  /\ UNCHANGED <<row, bundle, drone, wire, log, attempts>>

\* The time since started_at may exceed the workflow timeout: never while the
\* promote call of that claim is open, unless calls may take that long.
Overdue(s) ==
  /\ Mine(s).started
  /\ SlowCalls \/ \A t \in Session :
       sess[t].pc \in {"claimed", "sent"} => Current(t) # Current(s)

\* Mutant: the timeout is evaluated only once a promotion build is known.
TimedOutOnceConfirmed(s) ==
  /\ InFlight(s)
  /\ Overdue(s)
  /\ Mine(s).build # 0
  /\ Looked(s, With(s, [Mine(s) EXCEPT !.status = "FAILED"]), sess[s].mineB)

\* The workflow timeout, measured from started_at, fails the deployment
\* without asking Drone.
TimedOut(s) ==
  /\ InFlight(s)
  /\ Overdue(s)
  /\ Looked(s, With(s, [Mine(s) EXCEPT !.status = "FAILED"]), sess[s].mineB)

\* _reconcile_promotion: with no build number, adopt the newest promotion of
\* this build and target that Drone lists.
ReconcilePromotion(s) ==
  /\ InFlight(s)
  /\ Mine(s).build = 0
  /\ \E n \in PromotionsOf(Current(s)) :
       /\ \A m \in PromotionsOf(Current(s)) : m <= n
       /\ Looked(s, With(s, [Mine(s) EXCEPT !.status = "DEPLOYING", !.build = n]), "DEPLOYING")

\* Mutants: Drone's word stored as it is; the required stages not looked at.
AfterVerdictRaw(d, verdict) ==
  IF verdict = "running" THEN "DEPLOYING" ELSE IF Accepts(d, verdict) THEN "SUCCESS" ELSE verdict
AfterVerdictUnpoliced(d, verdict) ==
  CASE verdict = "running" -> "DEPLOYING"
    [] verdict = "failure" -> "FAILED"
    [] OTHER               -> "SUCCESS"

\* The row's status once Drone's verdict on its promotion build is read.
AfterVerdict(d, verdict) ==
  CASE verdict = "running"   -> "DEPLOYING"
    [] Accepts(d, verdict)   -> "SUCCESS"
    [] OTHER                 -> "FAILED"

\* get_build answers for the build number on record.
PollBuild(s) ==
  /\ InFlight(s)
  /\ Mine(s).build # 0
  /\ Looked(s, With(s, [Mine(s) EXCEPT
       !.status = AfterVerdict(Current(s), drone[Mine(s).build].verdict)]), sess[s].mineB)

\* _record_poll_failure: Drone is unreachable, or lists no such promotion
\* yet; neither changes the deployment.
RecordPollFailure(s) ==
  /\ InFlight(s)
  /\ Finish(s, sess[s].mine, sess[s].mineB)

----------------------------------------------------------------------------
(* DeploymentService.promote on the current step of _advance.              *)

AtWaiting(s) == sess[s].pc = "step" /\ Mine(s).status = "WAITING"

\* Mutants: a claimed row can be claimed again; the claim takes no effect
\* before the answer is recorded.
ClaimableAgain(d) == row[d].status \in {"WAITING", "PROMOTING"}
ClaimedOnAnswer(r) == [r EXCEPT !.started = TRUE]

\* CLAIMABLE_FOR_PROMOTION, and what the claim writes.
Claimable(d) == row[d].status = "WAITING"
Claimed(r) == [r EXCEPT !.status = "PROMOTING", !.started = TRUE]

\* claim_for_promotion: UPDATE ... WHERE status = 'WAITING', committed with
\* whatever this pass changed before, and the bundle's mirror of it.
ClaimForPromotion(s) ==
  LET d == Current(s)
      won == With(s, Claimed(row[d])) IN
  /\ AtWaiting(s)
  /\ Claimable(d)
  /\ SlotsUnique([Flushed(s, sess[s].mine) EXCEPT ![d] = Claimed(row[d])])
  /\ row' = [Flushed(s, sess[s].mine) EXCEPT ![d] = Claimed(row[d])]
  /\ bundle' = [bundle EXCEPT ![sess[s].job] =
                  IF sess[s].seenB = "PROMOTING" THEN @ ELSE "PROMOTING"]
  /\ sess' = [sess EXCEPT ![s] =
       [@ EXCEPT !.pc = "claimed", !.attempt = attempts[d], !.seen = won, !.mine = won,
                 !.seenB = "PROMOTING", !.mineB = "PROMOTING"]]
  /\ UNCHANGED <<drone, wire, log, attempts>>

\* Mutant: the rowcount of the claim is not looked at.
LoseClaimUnnoticed(s) ==
  LET d == Current(s) IN
  /\ AtWaiting(s)
  /\ ~Claimable(d)
  /\ sess' = [sess EXCEPT ![s].pc = "claimed", ![s].attempt = attempts[d],
                          ![s].seen[d] = row[d], ![s].mine[d] = row[d]]
  /\ UNCHANGED <<row, bundle, drone, wire, log, attempts>>

\* Another caller got there first: nothing is sent, and the copy of this row
\* is read again.
LoseClaim(s) ==
  LET d == Current(s) IN
  /\ AtWaiting(s)
  /\ ~Claimable(d)
  /\ sess' = [sess EXCEPT ![s].pc = "check", ![s].seen[d] = row[d], ![s].mine[d] = row[d]]
  /\ UNCHANGED <<row, bundle, drone, wire, log, attempts>>

\* Record an outcome of the claimed promotion: r is the deployment's row.
Outcome(s, r, mineB) ==
  /\ Commit(s, With(s, r), mineB,
       IF r.status # "FAILED" THEN Idle
       ELSE [sess[s] EXCEPT !.pc = "check", !.post = 0, !.attempt = 0])
  /\ UNCHANGED <<drone, log, attempts>>

Failed(s) == [Mine(s) EXCEPT !.status = "FAILED"]

\* ci_dispatch_allowed or verify_planned_deployment refuses after the claim.
RefuseDispatch(s) ==
  /\ sess[s].pc = "claimed"
  /\ Outcome(s, Failed(s), sess[s].mineB)
  /\ UNCHANGED wire

\* The POST leaves for Drone, with no transaction open.
SendPromote(s) ==
  /\ sess[s].pc = "claimed"
  /\ log' = Append(log, [dep |-> Current(s), attempt |-> sess[s].attempt])
  /\ wire' = wire \cup {Len(log')}
  /\ sess' = [sess EXCEPT ![s].pc = "sent", ![s].post = Len(log')]
  /\ UNCHANGED <<row, bundle, drone, attempts>>

\* Drone answers with the build it created; _record_promotion.
RecordPromotion(s) ==
  /\ sess[s].pc = "sent"
  /\ \E n \in DOMAIN drone :
       /\ drone[n].post = sess[s].post
       /\ Outcome(s, [Mine(s) EXCEPT !.status = "DEPLOYING", !.build = n], "DEPLOYING")
  /\ UNCHANGED wire

\* No usable answer, here or to the plan guard's own read before the POST:
\* the deployment stays PROMOTING, whether or not the request arrived.
MarkPromotionUnconfirmed(s) ==
  /\ sess[s].pc \in {"claimed", "sent"}
  /\ Outcome(s, Mine(s), sess[s].mineB)
  /\ UNCHANGED wire

\* Drone rejects the request (401, 403, 404): no promotion exists.
RejectPromote(s) ==
  /\ sess[s].pc = "sent"
  /\ sess[s].post \in wire
  /\ Outcome(s, Failed(s), sess[s].mineB)
  /\ wire' = wire \ {sess[s].post}

\* Drone created the build and answered without a build number.
UnusableAnswer(s) ==
  /\ sess[s].pc = "sent"
  /\ \E n \in DOMAIN drone : drone[n].post = sess[s].post
  /\ Outcome(s, Failed(s), sess[s].mineB)
  /\ UNCHANGED wire

----------------------------------------------------------------------------
(* The rest of _advance, once the current step has been looked at.         *)

Checking(s) == sess[s].pc = "check"
LastStep(s) == sess[s].at = Len(Steps[sess[s].job])

\* Mutant: a step that is deploying does not hold up the next one.
StepDoneOrDeploying(r) == r.status \in {"SUCCESS", "DEPLOYING"}

StepDone(r) == r.status = "SUCCESS"

\* The step succeeded: walk on to the next component in the same pass.
NextStep(s) ==
  /\ Checking(s)
  /\ StepDone(Mine(s))
  /\ ~LastStep(s)
  /\ sess' = [sess EXCEPT ![s].at = @ + 1,
       ![s].pc = PhaseAt(sess[s].job, sess[s].mine, sess[s].at + 1)]
  /\ UNCHANGED <<row, bundle, drone, wire, log, attempts>>

\* _finish_success: every component succeeded.
FinishSuccess(s) ==
  /\ Checking(s)
  /\ StepDone(Mine(s))
  /\ LastStep(s)
  /\ Finish(s, sess[s].mine, "SUCCESS")

\* What _fail_bundle leaves of a row: a component that has not started is
\* cancelled.
Stopped(r) == IF r.status = "WAITING" THEN [r EXCEPT !.status = "CANCELLED"] ELSE r

\* _fail_bundle: PARTIAL_FAILURE if some component already succeeded.
FailBundle(s) ==
  LET after == [d \in Dep |-> Stopped(sess[s].mine[d])] IN
  /\ Checking(s)
  /\ Mine(s).status = "FAILED"
  /\ Finish(s, after, IF \E d \in DepsOf(sess[s].job) : after[d].status = "SUCCESS"
                      THEN "PARTIAL_FAILURE" ELSE "FAILED")

\* Still promoting, deploying, waiting or cancelled: nothing to do in this pass.
EndPass(s) ==
  /\ Checking(s)
  /\ Mine(s).status \notin {"SUCCESS", "FAILED"}
  /\ Finish(s, sess[s].mine, sess[s].mineB)

\* An exception (a busy database, the unique index, an unreadable upstream
\* answer), or the death of the process, ends a session: what it did not
\* commit is gone, and a request it sent stays sent.
Raise(s) ==
  /\ sess[s].pc # "idle"
  /\ sess' = [sess EXCEPT ![s] = Idle]
  /\ UNCHANGED <<row, bundle, drone, wire, log, attempts>>

----------------------------------------------------------------------------
(* Drone and the network. *)

CreatePromotion(p) ==
  /\ drone' = Append(drone, [dep |-> log[p].dep, post |-> p, verdict |-> "running"])
  /\ wire' = wire \ {p}
  /\ UNCHANGED <<row, bundle, sess, log, attempts>>

FinishBuild(n) ==
  /\ drone[n].verdict = "running"
  /\ \E v \in Verdict \ {"running"} :
       /\ v = "unproven" => \E d \in Policed : n \in PromotionsOf(d)
       /\ drone' = [drone EXCEPT ![n].verdict = v]
  /\ UNCHANGED <<row, bundle, wire, sess, log, attempts>>

----------------------------------------------------------------------------
Refresh(s) ==
  TimedOut(s) \/ ReconcilePromotion(s) \/ PollBuild(s) \/ RecordPollFailure(s)

Promote(s) ==
  \/ ClaimForPromotion(s) \/ LoseClaim(s) \/ RefuseDispatch(s) \/ SendPromote(s)
  \/ RecordPromotion(s) \/ MarkPromotionUnconfirmed(s) \/ RejectPromote(s)
  \/ UnusableAnswer(s)

Settle(s) == NextStep(s) \/ FinishSuccess(s) \/ FailBundle(s) \/ EndPass(s)

Call(s, b) == CreateBundle(s, b) \/ RefreshBundle(s, b) \/ BeginRetry(s, b)

Next ==
  \/ \E s \in Request, b \in Bundle : Call(s, b)
  \/ \E b \in Bundle : ResumeDeployments(b)
  \/ \E s \in Session :
       CommitRetry(s) \/ Refresh(s) \/ Promote(s) \/ Settle(s) \/ Raise(s)
  \/ \E p \in wire : CreatePromotion(p)
  \/ \E n \in DOMAIN drone : FinishBuild(n)

Spec == Init /\ [][Next]_vars

\* The worker's thread keeps running: a pass it has begun goes on or raises,
\* and it comes round again.  A step of a pass that is possible again and
\* again is not prevented every time by an exception, and a deployment that
\* stays in flight is once found older than the workflow timeout.
WorkerStep ==
  \/ \E b \in Bundle : ResumeDeployments(b)
  \/ Refresh(Worker) \/ Promote(Worker) \/ Settle(Worker) \/ Raise(Worker)
Fairness ==
  /\ WF_vars(WorkerStep)
  /\ \A b \in Bundle : SF_vars(ResumeDeployments(b))
  /\ SF_vars(TimedOut(Worker))
  /\ SF_vars(ClaimForPromotion(Worker))
  /\ SF_vars(NextStep(Worker))
  /\ SF_vars(FailBundle(Worker))
  /\ SF_vars(FinishSuccess(Worker))

LiveSpec == Spec /\ Fairness
----------------------------------------------------------------------------
(* Properties *)

SessionState ==
  [pc : {"idle", "reset", "step", "claimed", "sent", "check"},
   job : Bundle \cup {None}, at : Nat, post : Nat, attempt : Nat,
   seen : [Dep -> Row], mine : [Dep -> Row],
   seenB : BundleStatus, mineB : BundleStatus]

\* The database holds the statuses its code writes, a session is at one of
\* its suspension points, and every request in flight was sent.
TypeOK ==
  /\ row \in [Dep -> Row]
  /\ bundle \in [Bundle -> BundleStatus \cup {"ABSENT"}]
  /\ drone \in Seq([dep : Dep, post : Nat \ {0}, verdict : Verdict])
  /\ log \in Seq([dep : Dep, attempt : Nat])
  /\ wire \subseteq DOMAIN log
  /\ sess \in [Session -> SessionState]
  /\ attempts \in [Dep -> Nat]

\* claim_for_promotion: of all the callers that race for a WAITING row, and
\* whatever they crash on, at most one asks Drone to promote; the next
\* request for that row needs a retry that puts it back to WAITING.
AttemptPostedOnce ==
  \A p, q \in DOMAIN log : log[p] = log[q] => p = q

\* The claim is durable before the request leaves: a row found WAITING, by
\* the worker after a restart or by a retry, was not promoted in this attempt.
WaitingIsUnsent ==
  \A d \in Dep : row[d].status = "WAITING" =>
    \A p \in DOMAIN log : log[p] # [dep |-> d, attempt |-> attempts[d]]

\* _advance: Drone is asked for a component only after it accepted a
\* promotion of every component before it, whichever session, retry or late
\* answer the request comes from.
OrderedRelease ==
  \A b \in Bundle : \A i, j \in 1..Len(Steps[b]) :
    (i < j /\ \E p \in DOMAIN log : log[p].dep = Steps[b][j]) => Accepted(Steps[b][i])

\* succeed, _finish_success, _fail_bundle: a success on record is Drone's own
\* verdict on a promotion of that slot, with the required stages executed; a
\* bundle's SUCCESS is that of every component and its PARTIAL_FAILURE that
\* of at least one.
SuccessIsReal ==
  /\ \A d \in Dep : row[d].status = "SUCCESS" => Accepted(d)
  /\ \A b \in Bundle : bundle[b] = "SUCCESS" => \A d \in DepsOf(b) : Accepted(d)
  /\ \A b \in Bundle : bundle[b] = "PARTIAL_FAILURE" => \E d \in DepsOf(b) : Accepted(d)

\* resume_deployments: a release somebody started does not stay in flight
\* when its browser is gone: each of its deployments ends, or the release
\* is over.
InFlightEnds ==
  \A b \in Bundle :
    (\E d \in DepsOf(b) : row[d].status \in Resumable)
      ~> \/ bundle[b] \in BundleTerminal
         \/ \A d \in DepsOf(b) : row[d].status \notin Resumable

\* reconcile_on_startup: a restart resumes a release rather than strand it.
BundlesSettle ==
  \A b \in Bundle : bundle[b] \notin BundleTerminal \cup {"ABSENT"} ~> bundle[b] \in BundleTerminal

\* RecoveryService: its sweeps are safe beside a user's own refresh, every
\* transition being a conditional UPDATE; so nothing but a retry takes a
\* deployment out of a terminal status.
TerminalIsFinal ==
  [][\A d \in Dep :
       row[d].status \in {"SUCCESS", "FAILED", "CANCELLED"} =>
         row'[d].status \in {row[d].status, "WAITING"}]_vars
=============================================================================

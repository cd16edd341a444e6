---------------------------- MODULE Choreography ----------------------------
(***************************************************************************)
(* The rewrite of the release process that is to take over from            *)
(* ReleaseOrchestrator: advance() carries one bundle as far as it goes,    *)
(* through repositories that hand out copies of rows and write copies      *)
(* back.  Nothing is committed before the caller commits, except a claim   *)
(* and the answer to a promotion, and the first write of a transaction     *)
(* takes the one write lock of the database.                               *)
(***************************************************************************)
EXTENDS Naturals, Sequences, FiniteSetsExt

CONSTANTS
  Step,      \* the deployments of one bundle
  Order,     \* the same, in component order
  Driver,    \* passes that may run at the same time
  Sweeper,   \* the one that comes back until the bundle has ended
  MaxDrops   \* bound on the passes that end in an exception or a crash

ASSUME ChoreographyAssumption ==
  /\ Order \in Seq(Step) /\ Step = {Order[i] : i \in 1..Len(Order)}
  /\ Step # {} /\ \A i, j \in 1..Len(Order) : Order[i] = Order[j] => i = j
  /\ Sweeper \in Driver /\ MaxDrops \in Nat

VARIABLES
  stored,      \* tables deployments and release_bundles, as committed
  pending,     \* the same as the holder of the write lock has written them
  holder,      \* the driver that holds the write lock, as a set
  driver,      \* what each pass is doing
  promotion,   \* the promotions sent to Drone; the number of each is its place
  reopened,    \* history: a row that had ended was committed as something else
  drops        \* passes cut short so far

choreographyVars == <<stored, pending, holder, driver, promotion, reopened, drops>>
tables == <<stored, pending, holder, reopened>>

InFlight == {"PROMOTING", "DEPLOYING"}
RowEnded == {"SUCCESS", "FAILED", "CANCELLED"}
BundleEnded == {"SUCCESS", "FAILED", "PARTIAL_FAILURE"}
NoBuild == 0
RowState == [status : {"WAITING"} \cup InFlight \cup RowEnded, build : Nat]
BundleState == {"WAITING"} \cup InFlight \cup BundleEnded
TablesState == [row : [Step -> RowState], bundle : BundleState]
FreshRow == [status |-> "WAITING", build |-> NoBuild]
AtRest == [pc |-> "idle", at |-> 1, round |-> 0, seen |-> <<>>]

ChoreographyInit ==
  /\ stored = [row |-> [d \in Step |-> FreshRow], bundle |-> "WAITING"]
  /\ pending = stored /\ holder = {}
  /\ driver = [s \in Driver |-> AtRest]
  /\ promotion = <<>>
  /\ reopened = FALSE /\ drops = 0

\* What a query of s returns: its own writes, else what is committed.
View(s) == IF holder = {s} THEN pending ELSE stored
LockFree(s) == holder \subseteq {s}
At(s) == Order[driver[s].at]
Goto(s, pc) == driver' = [driver EXCEPT ![s].pc = pc]
Rested(s) == driver' = [driver EXCEPT ![s] = AtRest]

Reopens(old, new) ==
  \/ \E d \in Step : old.row[d].status \in RowEnded /\ new.row[d].status # old.row[d].status
  \/ old.bundle \in BundleEnded /\ new.bundle # old.bundle

\* A flush, and a commit, of what s has written.
Flushed(s, new) ==
  /\ LockFree(s) /\ holder' = {s} /\ pending' = new
  /\ UNCHANGED <<stored, reopened>>
CommittedAs(s, new) ==
  /\ LockFree(s) /\ holder' = {}
  /\ stored' = new /\ pending' = new
  /\ reopened' = (reopened \/ Reopens(stored, new))

\* DeploymentRepository.save writes every column of the copy.
Saved(s, d, copy) == [View(s) EXCEPT !.row[d] = copy]
FailedRow(r) == [r EXCEPT !.status = "FAILED"]
Mirrored(new, status) == [new EXCEPT !.bundle = status]

----------------------------------------------------------------------------
(* One pass of advance()                                                   *)

\* The caller has found the bundle still open.
BeginPass(s) ==
  /\ driver[s].pc = "idle" /\ View(s).bundle \notin BundleEnded
  /\ driver' = [driver EXCEPT ![s].pc = "decide", ![s].round = 1]
  /\ UNCHANGED <<tables, promotion, drops>>

\* Mutant: a step that is deploying does not hold up the next one.
PassedOrDeploying(status) == status \in {"SUCCESS", "DEPLOYING"}
Passed(status) == status = "SUCCESS"

\* next_decision: the first step that has not succeeded decides.
Decide(s) ==
  LET rows == View(s).row
      open == {i \in 1..Len(Order) : ~Passed(rows[Order[i]].status)}
      i == Min(open)
      status == rows[Order[i]].status
      action == CASE status \in InFlight -> "look"
                  [] status = "WAITING"  -> "claim"
                  [] status = "FAILED"   -> "fail"
                  [] OTHER               -> "commit" IN
  /\ driver[s].pc = "decide"
  /\ driver' = [driver EXCEPT ![s] =
       IF open = {} THEN [AtRest EXCEPT !.pc = "finish"]
       ELSE [@ EXCEPT !.pc = action, !.at = i,
                      !.seen = IF action \in {"look", "fail"} THEN rows ELSE <<>>]]
  /\ UNCHANGED <<tables, promotion, drops>>

\* Mutant: the claim is left for the caller to commit.
ClaimUncommitted(s) ==
  /\ driver[s].pc = "claim" /\ View(s).row[At(s)].status = "WAITING"
  /\ Flushed(s, Mirrored([View(s) EXCEPT !.row[At(s)].status = "PROMOTING"], "PROMOTING"))
  /\ Goto(s, "send")
  /\ UNCHANGED <<promotion, drops>>
\* _claim: the UPDATE finds the row still waiting.  It is committed before
\* anything is asked of Drone.
ClaimStep(s) ==
  /\ driver[s].pc = "claim" /\ View(s).row[At(s)].status = "WAITING"
  /\ CommittedAs(s, Mirrored([View(s) EXCEPT !.row[At(s)].status = "PROMOTING"], "PROMOTING"))
  /\ Goto(s, "send")
  /\ UNCHANGED <<promotion, drops>>

\* The UPDATE matches no row, and holds the lock all the same.
MissClaim(s) ==
  /\ driver[s].pc = "claim" /\ View(s).row[At(s)].status # "WAITING"
  /\ Flushed(s, View(s))
  /\ Goto(s, "after")
  /\ UNCHANGED <<promotion, drops>>

SendStep(s) ==
  /\ driver[s].pc = "send"
  /\ promotion' = Append(promotion, [dep |-> At(s), state |-> "sent"])
  /\ Goto(s, "answer")
  /\ UNCHANGED <<tables, drops>>

\* The promotion of d that Drone heard of last.
Sends(d) == {p \in 1..Len(promotion) : promotion[p].dep = d}
Built(d) == {p \in Sends(d) : promotion[p].state \in {"running", "success", "failure"}}

\* _record_promotion
Recorded(s, p) ==
  Mirrored(Saved(s, At(s), [status |-> "DEPLOYING", build |-> p]), "DEPLOYING")

PromotionCreated(s) ==
  /\ driver[s].pc = "answer" /\ Built(At(s)) # {}
  /\ CommittedAs(s, Recorded(s, Max(Built(At(s)))))
  /\ Goto(s, "after")
  /\ UNCHANGED <<promotion, drops>>

\* Drone refused, or its 2xx carried no build: no promotion is taken to exist.
PromotionRefused(s) ==
  /\ driver[s].pc = "answer"
  /\ \E p \in Sends(At(s)) : promotion[p].state # "sent"
  /\ CommittedAs(s, Saved(s, At(s), FailedRow(FreshRow)))
  /\ Goto(s, "after")
  /\ UNCHANGED <<promotion, drops>>

\* A timeout or a lost connection, before or after the request reached Drone.
PromotionUnconfirmed(s) ==
  /\ driver[s].pc \in {"send", "answer"}
  /\ CommittedAs(s, Saved(s, At(s), [FreshRow EXCEPT !.status = "PROMOTING"]))
  /\ Goto(s, "after")
  /\ UNCHANGED <<promotion, drops>>

\* refresh: the answer goes onto the copy the decision was made on, and the
\* whole copy into the table, uncommitted.
Refreshed(s, new) ==
  /\ driver[s].pc = "look"
  /\ Flushed(s, new)
  /\ driver' = [driver EXCEPT ![s].pc = "after", ![s].seen = <<>>]
  /\ UNCHANGED <<promotion, drops>>
Copy(s) == driver[s].seen[At(s)]

\* Mutant: only a deployment whose build is known can time out.
TimeOutOfBuild(s) ==
  /\ driver[s].pc = "look" /\ Copy(s).build # NoBuild
  /\ Refreshed(s, Saved(s, At(s), FailedRow(Copy(s))))
TimeOut(s) == Refreshed(s, Saved(s, At(s), FailedRow(Copy(s))))

\* _reconcile finds the build of a promotion nobody answered for.
Reconcile(s) ==
  /\ driver[s].pc = "look" /\ Copy(s).build = NoBuild /\ Built(At(s)) # {}
  /\ Refreshed(s, Recorded(s, Max(Built(At(s)))))

PollEnds(s) ==
  /\ driver[s].pc = "look" /\ Copy(s).build # NoBuild
  /\ \E end \in {"success", "failure"} :
       /\ promotion[Copy(s).build].state = end
       /\ Refreshed(s, Saved(s, At(s),
            IF end = "success" THEN [Copy(s) EXCEPT !.status = "SUCCESS"]
            ELSE FailedRow(Copy(s))))

\* The build runs, none is found yet, or Drone cannot be reached.
PollLearnsNothing(s) == Refreshed(s, Saved(s, At(s), Copy(s)))

\* What advance() does about the step it has acted on.  A round for each step
\* and one more, then it gives up.
After(s) ==
  LET status == View(s).row[At(s)].status
      more == driver[s].round <= Len(Order) IN
  /\ driver[s].pc = "after"
  /\ driver' = [driver EXCEPT ![s] =
       CASE status = "FAILED" -> [@ EXCEPT !.pc = "fail", !.seen = View(s).row]
         [] status = "SUCCESS" /\ more -> [AtRest EXCEPT !.pc = "decide", !.round = driver[s].round + 1]
         [] OTHER -> [AtRest EXCEPT !.pc = "commit"]]
  /\ UNCHANGED <<tables, promotion, drops>>

Stopped(r) == [r EXCEPT !.status = "CANCELLED"]
\* Mutant: the steps that wait are left waiting.
LeftWaiting(s) ==
  LET succeeded == \E d \in Step : driver[s].seen[d].status = "SUCCESS" IN
  Mirrored(View(s), IF succeeded THEN "PARTIAL_FAILURE" ELSE "FAILED")
\* _fail_bundle, with the steps as they were read.
FailedBundle(s) ==
  LET seen == driver[s].seen
      succeeded == \E d \in Step : seen[d].status = "SUCCESS" IN
  [row |-> [d \in Step |-> IF seen[d].status = "WAITING"
                           THEN Stopped(seen[d]) ELSE View(s).row[d]],
   bundle |-> IF succeeded THEN "PARTIAL_FAILURE" ELSE "FAILED"]
FailBundle(s) ==
  /\ driver[s].pc = "fail"
  /\ Flushed(s, FailedBundle(s))
  /\ driver' = [driver EXCEPT ![s] = [AtRest EXCEPT !.pc = "commit"]]
  /\ UNCHANGED <<promotion, drops>>

FinishBundle(s) ==
  /\ driver[s].pc = "finish"
  /\ Flushed(s, Mirrored(View(s), "SUCCESS"))
  /\ Goto(s, "commit")
  /\ UNCHANGED <<promotion, drops>>

\* The caller commits what the pass has left.
CommitPass(s) ==
  /\ driver[s].pc = "commit"
  /\ IF holder = {s} THEN CommittedAs(s, pending) ELSE UNCHANGED tables
  /\ Rested(s)
  /\ UNCHANGED <<promotion, drops>>

\* A pass ends in an exception ("database is locked" among them) or with its
\* process: what it had not committed is rolled back.
DropPass(s) ==
  /\ driver[s].pc # "idle" /\ drops < MaxDrops
  /\ drops' = drops + 1
  /\ Rested(s)
  /\ holder' = holder \ {s}
  /\ pending' = IF holder = {s} THEN stored ELSE pending
  /\ UNCHANGED <<stored, promotion, reopened>>

----------------------------------------------------------------------------
(* Drone                                                                   *)

Told(p, was, states) ==
  /\ promotion[p].state = was
  /\ \E state \in states : promotion' = [promotion EXCEPT ![p].state = state]
  /\ UNCHANGED <<tables, driver, drops>>
DroneTakes(p) == Told(p, "sent", {"running", "refused"})
DroneEnds(p) == Told(p, "running", {"success", "failure"})

----------------------------------------------------------------------------
PassStep(s) ==
  \/ Decide(s) \/ ClaimStep(s) \/ MissClaim(s) \/ SendStep(s)
  \/ PromotionCreated(s) \/ PromotionRefused(s) \/ PromotionUnconfirmed(s)
  \/ TimeOut(s) \/ Reconcile(s) \/ PollEnds(s) \/ PollLearnsNothing(s)
  \/ After(s) \/ FailBundle(s) \/ FinishBundle(s) \/ CommitPass(s)

ChoreographyNext ==
  \/ \E s \in Driver : BeginPass(s) \/ PassStep(s) \/ DropPass(s)
  \/ \E p \in 1..Len(promotion) : DroneTakes(p) \/ DroneEnds(p)

ChoreographySpec == ChoreographyInit /\ [][ChoreographyNext]_choreographyVars

\* A pass that has begun goes on, the sweeper begins again until the bundle
\* has ended and gets the write lock in the end (busy_timeout makes it wait
\* for a driver that itself waits for nothing but Drone), and past the
\* workflow timeout it finds every deployment timed out.
ChoreographyFairness ==
  /\ \A s \in Driver : WF_choreographyVars(PassStep(s))
  /\ WF_choreographyVars(BeginPass(Sweeper))
  /\ SF_choreographyVars(PassStep(Sweeper))
  /\ SF_choreographyVars(TimeOut(Sweeper))

ChoreographyLiveSpec == ChoreographySpec /\ ChoreographyFairness

----------------------------------------------------------------------------
(* Properties                                                              *)

\* Every variable keeps its type; a driver that is idle is as it started, and
\* what is not written by the holder of the lock is what is committed.
ChoreographyTypeOK ==
  /\ stored \in TablesState /\ pending \in TablesState
  /\ holder \in {{}} \cup {{s} : s \in Driver}
  /\ holder = {} => pending = stored
  /\ \A s \in Driver :
       /\ driver[s].pc \in {"idle", "decide", "claim", "send", "answer", "look", "after",
                            "fail", "finish", "commit"}
       /\ driver[s].at \in 1..Len(Order) /\ driver[s].round \in 0..Len(Order) + 1
       /\ driver[s].pc \in {"look", "fail"} => driver[s].seen \in [Step -> RowState]
       /\ driver[s].pc \in {"send", "answer", "idle"} => s \notin holder
  /\ \A p \in 1..Len(promotion) : promotion[p].dep \in Step
  /\ reopened \in BOOLEAN /\ drops \in 0..MaxDrops

\* What the rewrite must keep of the old process: the ledger of promotions,
\* with one attempt for each step, since it has no retry yet.
Heard == {d \in Step : \E p \in Sends(d) : promotion[p].state = "success"}
Verdict == CASE stored.bundle = "SUCCESS"         -> "released"
             [] stored.bundle = "PARTIAL_FAILURE" -> "partly"
             [] OTHER                             -> "open"
Promises == INSTANCE PromotionLedger WITH
  Dep <- Step, Bundle <- {"bundle"}, Steps <- [b \in {"bundle"} |-> Order],
  Slot <- [d \in Step |-> d],
  attempt <- [d \in Step |-> 0],
  asked <- [p \in 1..Len(promotion) |-> [dep |-> promotion[p].dep, attempt |-> 0]],
  accepted <- Heard,
  done <- {d \in Step : stored.row[d].status = "SUCCESS"},
  verdict <- [b \in {"bundle"} |-> Verdict]

\* Whatever the passes, the crashes and the late answers: a step is asked of
\* Drone once at most and after the steps before it have succeeded there, and
\* neither a row nor the bundle claims a success that Drone did not have.
RewriteKeepsLedger == Promises!Spec

\* When a bundle has ended, and no late write has reopened a row, its verdict
\* is that of its rows, and no step is left waiting or on its way.
VerdictIsWhole ==
  LET succeeded == {d \in Step : stored.row[d].status = "SUCCESS"} IN
  stored.bundle \in BundleEnded /\ ~reopened =>
    /\ \A d \in Step : stored.row[d].status \in RowEnded
    /\ stored.bundle = "SUCCESS"         <=> succeeded = Step
    /\ stored.bundle = "FAILED"          <=> succeeded = {}

\* A bundle that a pass has begun on ends, or a late write reopens it: neither
\* a lost answer nor a crash leaves it on its way for good.
RewriteEnds ==
  (\E s \in Driver : driver[s].pc # "idle")
    ~> (stored.bundle \in BundleEnded \/ reopened)
=============================================================================

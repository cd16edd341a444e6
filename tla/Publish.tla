------------------------------- MODULE Publish -------------------------------
(***************************************************************************)
(* How what was deployed becomes a release in Gitea.                       *)
(*                                                                         *)
(* A request publishes one version of a bundle, component by component     *)
(* (PublishOrchestrator, PublishService), or of a deployment that has no   *)
(* bundle.  It keeps a record per deployment and version, written before   *)
(* Gitea is called, and looks the tag up before it creates a release.      *)
(* Gitea may lose a create, answer it late, or do it and lose the answer.  *)
(* The background worker judges what was left PUBLISHING from the records. *)
(*                                                                         *)
(* As in BundlePromotion a session works on copies of the rows it read, a  *)
(* commit writes the columns it changed with no condition, and one action  *)
(* lies between two commits, reads or calls.                               *)
(***************************************************************************)
EXTENDS Naturals, Sequences, FiniteSets

CONSTANTS
  Dep,          \* deployments, all of them SUCCESS
  Bundle,       \* release bundles, all of them SUCCESS
  Steps,        \* Steps[b]: the deployments of b in component order
  Version,      \* versions a request may ask for
  TagSpace,     \* TagSpace[d]: repository and tag prefix of d's component
  CommitOf,     \* CommitOf[d]: the commit d deployed
  Request,      \* request threads
  Worker,       \* the background worker's thread
  None,         \* no bundle, no version, no commit
  MaxRequests,  \* bound: publish requests accepted
  MaxEdits      \* bound: changes of a component's publish_enabled

Session == Request \cup {Worker}
DepsOf(b) == {Steps[b][i] : i \in 1..Len(Steps[b])}
Standalone == {d \in Dep : \A b \in Bundle : d \notin DepsOf(b)}
Sha == {CommitOf[d] : d \in Dep}
Tag == {TagSpace[d] : d \in Dep} \X Version
Key == Dep \X Version
TagOf(k) == <<TagSpace[k[1]], k[2]>>

ASSUME StepsAssumption ==
  /\ Steps \in [Bundle -> Seq(Dep)]
  /\ \A b \in Bundle : \A i, j \in 1..Len(Steps[b]) : Steps[b][i] = Steps[b][j] => i = j
  /\ \A b, c \in Bundle : b # c => DepsOf(b) \cap DepsOf(c) = {}
ASSUME ConstantsAssumption ==
  /\ DOMAIN TagSpace = Dep /\ DOMAIN CommitOf = Dep
  /\ Worker \notin Request
  /\ None \notin Bundle \cup Version \cup Sha
  /\ MaxRequests \in Nat /\ MaxEdits \in Nat

VARIABLES
  bundle,      \* table release_bundles: publish_status, version, publish_started_at
  deployment,  \* table deployments: the same columns
  record,      \* table publish_records: status, by deployment and version
  enabled,     \* the deployments whose component has publish_enabled
  tag,         \* Gitea: the commit of each tag, or None
  released,    \* Gitea: the tags that have a release
  posts,       \* the deployment and version of every create sent to Gitea
  sess,        \* what each session is doing, and its copy of the rows
  requests,    \* how many publish requests were accepted
  edits        \* how many times publish_enabled was changed

vars == <<bundle, deployment, record, enabled, tag, released, posts, sess, requests, edits>>
gitea == <<tag, released, posts>>
bounds == <<requests, edits, enabled>>

----------------------------------------------------------------------------
(* Rows.  started tells whether publish_started_at is set and, if it is,   *)
(* whether it is older than the publish timeout.                           *)

PublishStatus == {"NOT_PUBLISHED", "PUBLISHING", "PUBLISHED", "PARTIAL_FAILURE", "FAILED"}
RecordStatus == {"ABSENT", "PUBLISHING", "PUBLISHED", "FAILED"}
Row == [publish : PublishStatus, version : Version \cup {None},
        started : {"NEVER", "RECENT", "OLD"}]
Blank == [publish |-> "NOT_PUBLISHED", version |-> None, started |-> "NEVER"]

VersionIsPinnedWhile == {"PUBLISHING", "PUBLISHED", "PARTIAL_FAILURE"}

\* _assert_version lets a request for version v pass on row r.
VersionAllowed(r, v) == r.version \in {None, v} \/ r.publish \notin VersionIsPinnedWhile

Started(r, v) == [publish |-> "PUBLISHING", version |-> v,
                  started |-> IF r.started = "NEVER" THEN "RECENT" ELSE r.started]

\* Mutant: the sweep takes only rows without publish_started_at.
OverdueUnstarted(r) == r.publish = "PUBLISHING" /\ r.started = "NEVER"

\* What reconcile_publishes selects.
Overdue(r) == r.publish = "PUBLISHING" /\ r.started # "RECENT"

\* The deployments of S that have published version v.
PublishedOf(S, v) == {d \in S : \E k \in Key : k = <<d, v>> /\ record[k] = "PUBLISHED"}

\* Mutants: one component out is enough; no component out is no verdict.
JudgedByOne(published, expected) == IF published > 0 THEN "PUBLISHED" ELSE "FAILED"
JudgedAsRecord(published, expected) ==
  IF published = expected /\ published > 0 THEN "PUBLISHED"
  ELSE IF published > 0 THEN "PARTIAL_FAILURE" ELSE "ABSENT"

\* _verdict and the end of _aggregate_bundle.
Judged(published, expected) ==
  IF published = expected /\ published > 0 THEN "PUBLISHED"
  ELSE IF published > 0 THEN "PARTIAL_FAILURE" ELSE "FAILED"

----------------------------------------------------------------------------
(* Sessions.  A copy holds the bundle's row, the rows of its deployments   *)
(* and the records of the version; publishing are the deployments of the   *)
(* request, todo those still to publish, listed those whose record the     *)
(* session sees from the deployment.                                       *)

NoCopy == [bundle |-> Blank, deployment |-> [d \in Dep |-> Blank],
           record |-> [d \in Dep |-> "ABSENT"]]
Idle == [at |-> "idle", bundle |-> None, version |-> None, todo |-> <<>>, publishing |-> {},
         listed |-> {}, seen |-> NoCopy, mine |-> NoCopy]

\* What a session reads: a bundle's row, and what belongs to the deployments S.
Copied(row, S, v) ==
  [bundle |-> row,
   deployment |-> [d \in Dep |-> IF d \in S THEN deployment[d] ELSE Blank],
   record |-> [d \in Dep |-> IF d \in S THEN record[<<d, v>>] ELSE "ABSENT"]]

Current(s) == Head(sess[s].todo)
CurrentKey(s) == <<Current(s), sess[s].version>>

\* A dirty column is written with an unconditional UPDATE ... WHERE id = ?.
Merged(db, seen, mine) ==
  [publish |-> IF mine.publish = seen.publish THEN db.publish ELSE mine.publish,
   version |-> IF mine.version = seen.version THEN db.version ELSE mine.version,
   started |-> IF mine.started = seen.started THEN db.started ELSE mine.started]

\* A commit of s with the copy mine, after which it is next.  To insert a
\* record another session has inserted breaks the unique constraint, and
\* raises instead (see Raise).
Flush(s, mine, next) ==
  LET seen == sess[s].seen
      Dirty(k) == k[2] = sess[s].version /\ mine.record[k[1]] # seen.record[k[1]]
  IN /\ \A k \in Key : Dirty(k) /\ seen.record[k[1]] = "ABSENT" => record[k] = "ABSENT"
     /\ bundle' = [b \in Bundle |-> IF b = sess[s].bundle
                     THEN Merged(bundle[b], seen.bundle, mine.bundle) ELSE bundle[b]]
     /\ deployment' = [d \in Dep |->
          Merged(deployment[d], seen.deployment[d], mine.deployment[d])]
     /\ record' = [k \in Key |-> IF Dirty(k) THEN mine.record[k[1]] ELSE record[k]]
     /\ sess' = [sess EXCEPT ![s] = next]

\* The copy of s with its current deployment publish, and the record r.
With(s, publish, r) ==
  [sess[s].mine EXCEPT
    !.deployment[Current(s)] = [Started(@, sess[s].version) EXCEPT !.publish = publish],
    !.record[Current(s)] = r]

\* s settles its current component: the copy is changed, not yet committed.
Settle(s, publish, r) ==
  /\ sess' = [sess EXCEPT ![s] = [@ EXCEPT !.at = "settle", !.mine = With(s, publish, r)]]
  /\ UNCHANGED <<bundle, deployment, record, gitea, bounds>>

Published(s) == Settle(s, "PUBLISHED", "PUBLISHED")
Failed(s) == Settle(s, "FAILED", "FAILED")

\* s works on bundle b (or None) for version v, with the copy given.
Opened(at, b, v, todo, publishing, copy) ==
  [Idle EXCEPT !.at = at, !.bundle = b, !.version = v, !.todo = todo,
     !.publishing = publishing,
     !.listed = {d \in Dep : copy.record[d] # "ABSENT"},
     !.seen = copy, !.mine = copy]

----------------------------------------------------------------------------
Init ==
  /\ bundle = [b \in Bundle |-> Blank]
  /\ deployment = [d \in Dep |-> Blank]
  /\ record = [k \in Key |-> "ABSENT"]
  /\ enabled \in SUBSET Dep
  /\ tag = [t \in Tag |-> None]
  /\ released = {}
  /\ posts = {}
  /\ sess = [s \in Session |-> Idle]
  /\ requests = 0
  /\ edits = 0

Accept(s) ==
  /\ sess[s].at = "idle"
  /\ requests < MaxRequests
  /\ requests' = requests + 1
  /\ UNCHANGED <<bundle, deployment, record, gitea, enabled, edits>>

\* POST /releases/{id}/publish: the bundle becomes PUBLISHING in the copy only.
PublishBundle(s, b, v) ==
  LET publishing == DepsOf(b) \cap enabled
      copy == Copied(bundle[b], DepsOf(b), v)
  IN /\ Accept(s)
     /\ VersionAllowed(bundle[b], v)
     /\ publishing # {}
     /\ sess' = [sess EXCEPT ![s] =
          [Opened("prepare", b, v, Steps[b], publishing, copy) EXCEPT
             !.mine.bundle = Started(bundle[b], v)]]

\* POST /deployments/{id}/publish, for a deployment without a bundle.
PublishStandalone(s, d, v) ==
  /\ Accept(s)
  /\ VersionAllowed(deployment[d], v)
  /\ sess' = [sess EXCEPT ![s] = Opened("prepare", None, v, <<d>>, {d},
                                            Copied(Blank, {d}, v))]

\* The session is done with its current component, and goes on with the copy c.
Following(s, c) ==
  LET rest == Tail(sess[s].todo)
  IN [sess[s] EXCEPT !.at = IF rest = <<>> THEN "aggregate" ELSE "prepare",
                     !.todo = rest, !.seen = c]

\* A component that does not publish is not in the list to go through.
SkipComponent(s) ==
  /\ sess[s].at = "prepare"
  /\ Current(s) \notin sess[s].publishing
  /\ sess' = [sess EXCEPT ![s] = Following(s, sess[s].seen)]
  /\ UNCHANGED <<bundle, deployment, record, gitea, bounds>>

\* PublishConfigurationError: no record, the deployment alone is FAILED.
Misconfigured(s) ==
  /\ sess[s].at = "prepare"
  /\ Current(s) \in sess[s].publishing
  /\ Settle(s, "FAILED", sess[s].mine.record[Current(s)])

\* The record of the version: the copy the session has, else the one in the
\* database, else ("ABSENT") a new one.
Found(s) ==
  LET known == sess[s].mine.record[Current(s)]
  IN IF known = "ABSENT" THEN record[CurrentKey(s)] ELSE known

\* A PUBLISHED record settles the component, any other becomes PUBLISHING.
LookUpRecord(s) ==
  LET status == IF Found(s) = "PUBLISHED" THEN "PUBLISHED" ELSE "PUBLISHING"
  IN /\ sess[s].at = "prepare"
     /\ Current(s) \in sess[s].publishing
     /\ sess[s].bundle = None => Current(s) \in enabled
     /\ sess' = [sess EXCEPT ![s] = [sess[s] EXCEPT
          !.at = IF Found(s) = "PUBLISHED" THEN "settle" ELSE "publishing",
          !.listed = sess[s].listed \cup (IF Found(s) = "ABSENT" THEN {Current(s)} ELSE {}),
          !.seen.record[Current(s)] = Found(s),
          !.mine = With(s, status, status)]]
     /\ UNCHANGED <<bundle, deployment, record, gitea, bounds>>

\* Mutant: PUBLISHING is not committed before the call.
CommitPublishingLater(s) ==
  /\ sess[s].at = "publishing"
  /\ sess' = [sess EXCEPT ![s].at = "upstream"]
  /\ UNCHANGED <<bundle, deployment, record, gitea, bounds>>

\* PUBLISHING is committed before Gitea is called.
CommitPublishing(s) ==
  /\ sess[s].at = "publishing"
  /\ Flush(s, sess[s].mine, [sess[s] EXCEPT !.at = "upstream", !.seen = sess[s].mine])
  /\ UNCHANGED <<gitea, bounds>>

Ready(k) == TagOf(k) \in released /\ tag[TagOf(k)] = CommitOf[k[1]]
Taken(k) == tag[TagOf(k)] \notin {None, CommitOf[k[1]]}

\* No tag, or the right tag without a release: the create is sent, once.
CreateRelease(s) ==
  /\ sess[s].at = "upstream"
  /\ ~Ready(CurrentKey(s))
  /\ ~Taken(CurrentKey(s))
  /\ posts' = posts \cup {CurrentKey(s)}
  /\ sess' = [sess EXCEPT ![s].at = "posted"]
  /\ UNCHANGED <<bundle, deployment, record, tag, released, bounds>>

\* Mutant: the commit of the tag is not compared.
ReleaseReadyAnyCommit(s) ==
  /\ sess[s].at \in {"upstream", "posted"}
  /\ TagOf(CurrentKey(s)) \in released
  /\ Published(s)

\* The release is there: found, or created, or found after a conflict.
ReleaseReady(s) ==
  /\ sess[s].at \in {"upstream", "posted"}
  /\ Ready(CurrentKey(s))
  /\ Published(s)

\* TagAlreadyExistsDifferentCommit, before the create or after a conflict.
TagTaken(s) ==
  /\ sess[s].at \in {"upstream", "posted"}
  /\ Taken(CurrentKey(s))
  /\ Failed(s)

\* Any GiteaError, whether or not Gitea does or did what it was asked.
UpstreamFails(s) ==
  /\ sess[s].at \in {"upstream", "posted"}
  /\ Failed(s)

\* The commit after each component; a standalone publish ends with it.
CommitComponent(s) ==
  /\ sess[s].at = "settle"
  /\ Flush(s, sess[s].mine,
           IF sess[s].bundle = None THEN Idle ELSE Following(s, sess[s].mine))
  /\ UNCHANGED <<gitea, bounds>>

\* _aggregate_bundle counts the records in the copy, and commits.
Aggregate(s) ==
  LET published == {d \in sess[s].listed : sess[s].mine.record[d] = "PUBLISHED"}
      verdict == Judged(Cardinality(published), Cardinality(sess[s].publishing))
  IN /\ sess[s].at = "aggregate"
     /\ Flush(s, [sess[s].mine EXCEPT !.bundle.publish = verdict], Idle)
     /\ UNCHANGED <<gitea, bounds>>

\* reconcile_publishes reads a bundle left PUBLISHING and its records ...
SweepBundle(b) ==
  LET verdict == Judged(Cardinality(PublishedOf(DepsOf(b), bundle[b].version)),
                        Cardinality(DepsOf(b)))
  IN /\ sess[Worker].at = "idle"
     /\ Overdue(bundle[b])
     /\ sess' = [sess EXCEPT ![Worker] =
          [Opened("verdict", b, bundle[b].version, <<>>, {},
                  [NoCopy EXCEPT !.bundle = bundle[b]])
             EXCEPT !.mine.bundle.publish = verdict]]
     /\ UNCHANGED <<bundle, deployment, record, gitea, bounds>>

\* ... or a deployment without a bundle ...
SweepDeployment(d) ==
  LET row == deployment[d]
      verdict == Judged(Cardinality(PublishedOf({d}, row.version)), 1)
  IN /\ sess[Worker].at = "idle"
     /\ Overdue(row)
     /\ sess' = [sess EXCEPT ![Worker] =
          [Opened("verdict", None, row.version, <<>>, {},
                  [NoCopy EXCEPT !.deployment[d] = row])
             EXCEPT !.mine.deployment[d].publish = verdict]]
     /\ UNCHANGED <<bundle, deployment, record, gitea, bounds>>

\* ... and writes what it made of them.
CommitVerdict ==
  /\ sess[Worker].at = "verdict"
  /\ Flush(Worker, sess[Worker].mine, Idle)
  /\ UNCHANGED <<gitea, bounds>>

\* An exception, or the end of the process: the copy is gone.
Raise(s) ==
  /\ sess[s].at # "idle"
  /\ sess' = [sess EXCEPT ![s] = Idle]
  /\ UNCHANGED <<bundle, deployment, record, gitea, bounds>>

\* Time passes: an attempt is now older than publish_timeout_seconds.
BundleTimeout(b) ==
  /\ bundle[b].started = "RECENT"
  /\ bundle' = [bundle EXCEPT ![b].started = "OLD"]
  /\ UNCHANGED <<deployment, record, gitea, sess, bounds>>

DeploymentTimeout(d) ==
  /\ deployment[d].started = "RECENT"
  /\ deployment' = [deployment EXCEPT ![d].started = "OLD"]
  /\ UNCHANGED <<bundle, record, gitea, sess, bounds>>

\* The registry is edited: the component of d starts or stops publishing.
EditComponent(d) ==
  /\ edits < MaxEdits
  /\ edits' = edits + 1
  /\ enabled' = IF d \in enabled THEN enabled \ {d} ELSE enabled \cup {d}
  /\ UNCHANGED <<bundle, deployment, record, gitea, sess, requests>>

\* Gitea carries out a create: it makes the tag if there is none, and refuses
\* (409) a tag that has a release or stands on another commit.
HandleCreate(k) ==
  /\ k \in posts
  /\ TagOf(k) \notin released
  /\ tag[TagOf(k)] \in {None, CommitOf[k[1]]}
  /\ tag' = [tag EXCEPT ![TagOf(k)] = CommitOf[k[1]]]
  /\ released' = released \cup {TagOf(k)}
  /\ UNCHANGED <<bundle, deployment, record, posts, sess, bounds>>

\* Somebody pushes a tag.
PushTag(t, c) ==
  /\ tag[t] = None
  /\ tag' = [tag EXCEPT ![t] = c]
  /\ UNCHANGED <<bundle, deployment, record, released, posts, sess, bounds>>

RequestStep(s) ==
  \/ \E b \in Bundle, v \in Version : PublishBundle(s, b, v)
  \/ \E d \in Standalone, v \in Version : PublishStandalone(s, d, v)
  \/ SkipComponent(s) \/ Misconfigured(s) \/ LookUpRecord(s) \/ CommitPublishing(s)
  \/ CreateRelease(s) \/ ReleaseReady(s) \/ TagTaken(s) \/ UpstreamFails(s)
  \/ CommitComponent(s) \/ Aggregate(s)

WorkerStep ==
  \/ \E b \in Bundle : SweepBundle(b)
  \/ \E d \in Standalone : SweepDeployment(d)
  \/ CommitVerdict

Environment ==
  \/ \E b \in Bundle : BundleTimeout(b)
  \/ \E d \in Standalone : DeploymentTimeout(d)
  \/ \E d \in Dep : EditComponent(d)
  \/ \E k \in Key : HandleCreate(k)
  \/ \E t \in Tag, c \in Sha : PushTag(t, c)

Next ==
  \/ \E s \in Request : RequestStep(s)
  \/ WorkerStep
  \/ \E s \in Session : Raise(s)
  \/ Environment

Spec == Init /\ [][Next]_vars

(* The worker's thread runs for ever and time passes; an exception may     *)
(* spoil a sweep any finite number of times.  Nothing is assumed of        *)
(* requests or of Gitea.                                                   *)
LiveSpec ==
  /\ Spec
  /\ \A b \in Bundle : WF_vars(BundleTimeout(b)) /\ SF_vars(SweepBundle(b))
  /\ \A d \in Standalone : WF_vars(DeploymentTimeout(d)) /\ SF_vars(SweepDeployment(d))
  /\ SF_vars(CommitVerdict)

----------------------------------------------------------------------------
Copy == [bundle : Row, deployment : [Dep -> Row], record : [Dep -> RecordStatus]]
SessionState ==
  [at : {"idle", "prepare", "publishing", "upstream", "posted", "settle", "aggregate", "verdict"},
   bundle : Bundle \cup {None}, version : Version \cup {None}, todo : Seq(Dep), publishing : SUBSET Dep,
   listed : SUBSET Dep, seen : Copy, mine : Copy]

\* Every variable has its type.
TypeOK ==
  /\ bundle \in [Bundle -> Row]
  /\ deployment \in [Dep -> Row]
  /\ record \in [Key -> RecordStatus]
  /\ enabled \subseteq Dep
  /\ tag \in [Tag -> Sha \cup {None}]
  /\ released \subseteq Tag
  /\ posts \subseteq Key
  /\ sess \in [Session -> SessionState]
  /\ requests \in Nat /\ edits \in Nat

\* A record that says PUBLISHED is right, whoever wrote it last and from
\* whatever copy: Gitea has the release, and its tag is on the commit that
\* was deployed (publish_service.py, _ensure_release).
PublishedIsTagged == \A k \in Key : record[k] = "PUBLISHED" => Ready(k)

\* What this program may have created in Gitea has a record, also when the
\* process died before it saw the answer (publish_service.py, the commit
\* before _ensure_release).
CreatedIsRecorded == \A k \in posts : record[k] # "ABSENT"

\* A bundle is PUBLISHED only when, in one version, every component that
\* publishes is out in Gitea; a deployment on its own likewise.  Checked with
\* MaxEdits = 0, for which enabled is the same set all along
\* (publish_orchestrator.py, _aggregate_bundle; recovery_service.py, _verdict).
PublishedIsComplete ==
  /\ \A b \in Bundle : bundle[b].publish = "PUBLISHED" =>
       \E v \in Version : \A d \in DepsOf(b) \cap enabled : Ready(<<d, v>>)
  /\ \A d \in Standalone : deployment[d].publish = "PUBLISHED" =>
       \E v \in Version : Ready(<<d, v>>)

\* A publish that is under way, or that died, does not stay PUBLISHING: the
\* worker alone ends it (recovery_service.py, reconcile_publishes).
PublishingEnds ==
  /\ \A b \in Bundle : bundle[b].publish = "PUBLISHING" ~> bundle[b].publish # "PUBLISHING"
  /\ \A d \in Standalone :
       deployment[d].publish = "PUBLISHING" ~> deployment[d].publish # "PUBLISHING"

\* A release is published in one version: publish_orchestrator.py:345, "pins
\* its version while it is in flight or partly done, so a retry cannot
\* straddle two versions".
OneVersion ==
  \A b \in Bundle : \A d, e \in DepsOf(b), v, w \in Version :
    record[<<d, v>>] = "PUBLISHED" /\ record[<<e, w>>] = "PUBLISHED" => v = w

\* The worker's verdict on a bundle counts only the components that publish,
\* as publish_orchestrator.py:260 asks: with all of them out it is PUBLISHED.
SweepCountsPublishing ==
  [][\A b \in Bundle :
       /\ sess[Worker].at = "idle" /\ sess'[Worker].at = "verdict"
       /\ sess'[Worker].bundle = b
       /\ PublishedOf(DepsOf(b) \cap enabled, bundle[b].version) = DepsOf(b) \cap enabled
       => sess'[Worker].mine.bundle.publish = "PUBLISHED"]_vars
=============================================================================

----------------------------- MODULE MCServices -----------------------------
(* Instance for TLC: two dispatchers and two events of which one is        *)
(* addressed; a release that two requests work on; a project of two        *)
(* components, to which a third may be added, and two requests that edit;  *)
(* two connections to one kind of upstream and two requests; two           *)
(* deployments of one build, of two components and two repositories; an    *)
(* agent's tool call, which may be repeated.                               *)
EXTENDS Services, TLC

CONSTANTS w, u, n1, e1, e2, a, b, c, t1, t2, x1, c1, c2

MCFirst == <<a, b>>

\* What another service would start with is one state while it is closed.
Closed ==
  /\ open # "notification" => outbox[n1] = NoMail
  /\ open # "approval" => \A r \in Release : release[r] = "ABSENT"
  /\ open # "connections" => upstream[c1] = NoConnection
  /\ open # "audit" => mode = "off"
  /\ open # "registry" => preferred = x1

\* The outbox starts with the announcement sent long ago and the events to
\* come, or with the events seen and the announcement to come.
Delivered(m) ==
  outbox[m] = [status |-> "SENT", attempts |-> 1, due |-> TRUE, stale |-> FALSE]
MCNotificationInit ==
  /\ outbox \in [Mail -> {NoMail, [NoMail EXCEPT !.status = "SENT", !.attempts = 1]}]
  /\ ~Delivered(e2)
  /\ \/ /\ Delivered(n1) /\ ~Delivered(e1)
        /\ event = [e \in Event |-> [state |-> "absent", stamp |-> 0]] /\ cursor = 0
     \/ /\ Delivered(e1) /\ ~Delivered(n1)
        /\ event = (e1 :> [state |-> "committed", stamp |-> 1])
                     @@ (e2 :> [state |-> "committed", stamp |-> 2])
        /\ cursor = 2
  /\ dispatch = [s \in Dispatcher |-> Idle]
  /\ overtaken = {} /\ takenOver = {}

\* The first component inherits the connection, the second names one.  That one
\* is the default and the two share a slot; or there is no default yet and the
\* second overrides the target.
MCRegistryInit ==
  /\ standard = t1 /\ server = Inherit /\ preferred \in {x1, Inherit}
  /\ row = (a :> [NoRow EXCEPT !.position = 1])
        @@ (b :> [NoRow EXCEPT !.position = 2, !.drone = x1,
                               !.target = IF preferred = x1 THEN Inherit ELSE t2])
        @@ (c :> NoRow)
  /\ used = {a, b} /\ deployed = {}
  /\ editor = [p \in Editor |-> Away]
  /\ overlapped = FALSE /\ edits = 0

\* There is no connection yet, or one that is the default and one that is not,
\* after one request fewer than are looked at otherwise.
MCConnectionsInit ==
  /\ \/ upstream = [id \in Connection |-> NoConnection] /\ asked = 0
     \/ /\ upstream = [id \in Connection |->
             [there |-> TRUE, token |-> 1, verdict |-> 0, default |-> id = c1]]
        /\ asked = 1
  /\ referred = {} /\ covered = {} /\ crossed = {} /\ undone = FALSE
  /\ admin = [s \in Admin |-> Unused]
  /\ latest = [id \in Connection |-> upstream[id].token]

MCInit ==
  /\ open \in {"notification", "approval", "registry", "connections", "migration", "audit"}
  /\ MCNotificationInit /\ ApprovalInit /\ MCRegistryInit /\ MCConnectionsInit
  /\ MigrationInit /\ AuditInit /\ Closed

\* NotificationFairness, of the whole instance's variables.
Fair ==
  LET Run(A) == /\ open = "notification" /\ A
                /\ UNCHANGED <<open, approvalVars, registryVars, connectionVars, migrationVars, auditVars>> IN
  /\ WF_notificationVars(Run(ReadEvents(Poller) \/ DispatchStep(Poller)))
  /\ SF_notificationVars(Run(EnqueueEvents(Poller)))
  /\ SF_notificationVars(Run(ListDue(Poller)))
  /\ \A m \in Mail :
       /\ SF_notificationVars(Run(ClaimMail(Poller, m)))
       /\ WF_notificationVars(Run(BackOffEnds(m)))
       /\ WF_notificationVars(Run(ClaimAges(m)))

MCSpec == MCInit /\ [][ServicesNext]_servicesVars /\ Fair
=============================================================================

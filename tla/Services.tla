------------------------------ MODULE Services ------------------------------
(***************************************************************************)
(* The services beside the promotion: the e-mail outbox, the v1 approval   *)
(* flow, the components of a project, the connections to upstreams, the    *)
(* revisions of the database, and the record of tool calls.  Two of them   *)
(* meet: a project's slots depend on which connection is the default, and  *)
(* a connection is kept while a project names it.  Each has the other's    *)
(* part as steps of its own that anything may take (MoveDefault; ReferTo   *)
(* and LetGo), so that no behaviour of one is constrained by the others,   *)
(* and a behaviour of this module is one of one of them, chosen at the     *)
(* start.                                                                  *)
(***************************************************************************)
EXTENDS Notification, Approval, Registry, Connections, Migration, Audit

VARIABLE open   \* the service that is looked at

servicesVars == <<open, notificationVars, approvalVars, registryVars, connectionVars,
                  migrationVars, auditVars>>

ServicesInit ==
  /\ open \in {"notification", "approval", "registry", "connections", "migration",
              "audit"}
  /\ NotificationInit /\ ApprovalInit /\ RegistryInit /\ ConnectionsInit
  /\ MigrationInit /\ AuditInit

OpenNotification ==
  /\ open = "notification" /\ NotificationNext
  /\ UNCHANGED <<open, approvalVars, registryVars, connectionVars, migrationVars, auditVars>>
OpenApproval ==
  /\ open = "approval" /\ ApprovalNext
  /\ UNCHANGED <<open, notificationVars, registryVars, connectionVars, migrationVars, auditVars>>
OpenRegistry ==
  /\ open = "registry" /\ RegistryNext
  /\ UNCHANGED <<open, notificationVars, approvalVars, connectionVars, migrationVars, auditVars>>
OpenConnections ==
  /\ open = "connections" /\ ConnectionsNext
  /\ UNCHANGED <<open, notificationVars, approvalVars, registryVars, migrationVars, auditVars>>
OpenMigration ==
  /\ open = "migration" /\ MigrationNext
  /\ UNCHANGED <<open, notificationVars, approvalVars, registryVars, connectionVars, auditVars>>
OpenAudit ==
  /\ open = "audit" /\ AuditNext
  /\ UNCHANGED <<open, notificationVars, approvalVars, registryVars, connectionVars,
                 migrationVars>>

ServicesNext ==
  \/ OpenNotification \/ OpenApproval \/ OpenRegistry \/ OpenConnections
  \/ OpenMigration \/ OpenAudit

\* The type invariants of the services.
ServicesTypeOK ==
  /\ NotificationTypeOK /\ ApprovalTypeOK /\ RegistryTypeOK /\ ConnectionTypeOK
  /\ MigrationTypeOK /\ AuditTypeOK

ServicesSpec == ServicesInit /\ [][ServicesNext]_servicesVars
=============================================================================

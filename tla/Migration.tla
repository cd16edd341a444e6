----------------------------- MODULE Migration -----------------------------
(***************************************************************************)
(* The revisions of the database that bring in the guard against promoting *)
(* one build twice (0010), the registry of projects (0014), and the guard  *)
(* keyed by what is deployed instead of by its name (0015).  The           *)
(* controller is stopped while a revision runs, and works in between.      *)
(* The driver opens a transaction at the first INSERT, UPDATE or DELETE of *)
(* a revision: what comes before is committed at once, what follows with   *)
(* the number of the revision.                                             *)
(***************************************************************************)
EXTENDS Naturals, FiniteSets

CONSTANTS
  Dep,         \* deployments, all of one build number to one target
  Key,         \* the names of components
  Repo,        \* Drone repositories
  Server,      \* Drone connections
  Seeded,      \* the connection that is made from the environment
  None,
  MaxChanges   \* bound on the changes of the registry

ASSUME MigrationAssumption ==
  Seeded \in Server /\ None \notin Key \cup Repo \cup Server /\ MaxChanges \in Nat

VARIABLES
  db,         \* the database as the connection at work sees it
  committed,  \* as everybody else sees it, and as a crash leaves it
  upgrade,    \* the next step of the revision that runs
  changes,    \* changes of the registry so far
  recorded    \* history: deployments that have had a publish record

migrationVars == <<db, committed, upgrade, changes, recorded>>

ProjectName == {"default", "other"}
NoDep == [key |-> None, repo |-> None, active |-> FALSE, project |-> None, server |-> None]
NoProjects ==
  [there |-> {}, offers |-> [p \in ProjectName |-> {}],
   own |-> [k \in Key |-> None], base |-> [p \in ProjectName |-> None], fallback |-> None]
\* started: some of a revision is committed without its number.
EmptyDb ==
  [revision |-> 9, started |-> FALSE, guard |-> "none", dep |-> [d \in Dep |-> NoDep],
   records |-> {}, registry |-> NoProjects]
AtRest == [step |-> "rest", open |-> FALSE, to |-> 9]

MigrationInit ==
  /\ db = EmptyDb /\ committed = EmptyDb
  /\ upgrade = AtRest /\ changes = 0 /\ recorded = {}

Made(x) == {d \in Dep : x.dep[d].key # None}
Active(x) == {d \in Dep : x.dep[d].active}

\* PREDICATE with OLD_SLOT, with NEW_SLOT, and with the repository alone.
SharedKey(x) ==
  \E d, e \in Active(x) : d # e /\ x.dep[d].key = x.dep[e].key
SharedSlot(x) ==
  \E d, e \in Active(x) :
    d # e /\ x.dep[d].server = x.dep[e].server /\ x.dep[d].repo = x.dep[e].repo
\* Mutant: the duplicates of the old guard are looked for.
SharedByOldKey(x) == SharedKey(x)
\* _assert_no_duplicates_under_new_key
SharedRepo(x) ==
  \E d, e \in Active(x) : d # e /\ x.dep[d].repo = x.dep[e].repo

\* The component's connection, else the project's, else the default.
Resolved(reg, p, k) ==
  IF reg.own[k] # None THEN reg.own[k]
  ELSE IF reg.base[p] # None THEN reg.base[p] ELSE reg.fallback

\* The project that old deployments belong to.
Candidates(reg) == IF "default" \in reg.there THEN {"default"} ELSE reg.there
\* _component_map refuses otherwise.
Mappable(x) ==
  \/ Made(x) = {}
  \/ \E p \in Candidates(x.registry) :
       /\ Candidates(x.registry) = {p}
       /\ \A d \in Made(x) : /\ x.dep[d].key \in x.registry.offers[p]
                             /\ Resolved(x.registry, p, x.dep[d].key) # None

----------------------------------------------------------------------------
(* Steps of a revision                                                     *)

\* Outside a transaction a statement is committed by itself.
Immediately(x) == db' = x /\ committed' = x
InTransaction(x) == db' = x /\ UNCHANGED committed
Continue(step, open) == upgrade' = [upgrade EXCEPT !.step = step, !.open = open]
Begin(step, to) == upgrade' = [step |-> step, open |-> FALSE, to |-> to]

\* A statement that finds its column or table there fails.
Startable(revision) ==
  upgrade.step = "rest" /\ db.revision = revision /\ ~db.started

\* 0010
CreateGuard ==
  /\ Startable(9) /\ ~SharedKey(db)
  /\ Immediately([db EXCEPT !.started = TRUE, !.guard = "component"])
  /\ Begin("number", 10)
  /\ UNCHANGED <<changes, recorded>>

\* 0014
CreateRegistry ==
  /\ Startable(10)
  /\ Immediately([db EXCEPT !.started = TRUE, !.registry = NoProjects])
  /\ Begin("seed", 14)
  /\ UNCHANGED <<changes, recorded>>

\* The components that the environment describes, if it does any.
SeedRegistry ==
  /\ upgrade.step = "seed"
  /\ \E described \in SUBSET Key :
       IF described = {} THEN UNCHANGED <<db, committed>>
       ELSE InTransaction([db EXCEPT !.registry =
              [NoProjects EXCEPT !.there = {"default"}, !.offers["default"] = described,
                                 !.base["default"] = Seeded, !.fallback = Seeded]])
  /\ Continue("number", TRUE)
  /\ UNCHANGED <<changes, recorded>>

\* 0015: both refusals come before the columns.
AddColumns ==
  /\ Startable(14) /\ ~SharedRepo(db) /\ Mappable(db)
  /\ Immediately([db EXCEPT !.started = TRUE])
  /\ Begin("backfill", 15)
  /\ UNCHANGED <<changes, recorded>>

\* The rows with the project, component and connection of their name.
Scoped(x) ==
  [d \in Dep |->
     IF d \notin Made(x) THEN x.dep[d]
     ELSE LET p == CHOOSE q \in Candidates(x.registry) : TRUE IN
          [x.dep[d] EXCEPT !.project = p, !.server = Resolved(x.registry, p, x.dep[d].key)]]

BackfillRows ==
  /\ upgrade.step = "backfill"
  /\ IF Made(db) = {} THEN UNCHANGED <<db, committed>>
     ELSE InTransaction([db EXCEPT !.dep = Scoped(db)])
  /\ Continue("rebuild", Made(db) # {})
  /\ UNCHANGED <<changes, recorded>>

\* Mutant: the new table is swapped in before there is a transaction.
RebuildAtOnce ==
  /\ upgrade.step = "rebuild"
  /\ Immediately([db EXCEPT !.guard = "none"])
  /\ Continue("number", TRUE)
  /\ UNCHANGED <<changes, recorded>>

\* The rows are copied, the old table is dropped, the copy takes its name and
\* gets the guard.  The foreign keys are switched off first, which does nothing
\* when the backfill has opened a transaction: then dropping the table deletes
\* its rows, and these the publish records that refer to them.
RebuildTable ==
  /\ upgrade.step = "rebuild"
  /\ ~SharedSlot(db) /\ \A d \in Made(db) : db.dep[d].server # None
  /\ InTransaction([db EXCEPT !.guard = "repository",
                              !.records = IF upgrade.open THEN {} ELSE @])
  /\ Continue("number", TRUE)
  /\ UNCHANGED <<changes, recorded>>

\* downgrade of 0015, refused once there is a second project
DropScopeIndexes ==
  /\ Startable(15) /\ Cardinality(db.registry.there) <= 1
  /\ Immediately([db EXCEPT !.started = TRUE])
  /\ Begin("narrow", 14)
  /\ UNCHANGED <<changes, recorded>>

\* Here nothing has opened a transaction and the foreign keys are off.
NarrowTable ==
  /\ upgrade.step = "narrow" /\ ~SharedKey(db)
  /\ InTransaction([db EXCEPT !.guard = "component",
       !.dep = [d \in Dep |-> [db.dep[d] EXCEPT !.project = None, !.server = None]]])
  /\ Continue("number", TRUE)
  /\ UNCHANGED <<changes, recorded>>

\* The number of the revision, and the commit.
WriteNumber ==
  /\ upgrade.step = "number"
  /\ Immediately([db EXCEPT !.revision = upgrade.to, !.started = FALSE])
  /\ upgrade' = AtRest
  /\ UNCHANGED <<changes, recorded>>

\* A statement fails, or the process dies: the transaction is rolled back.
BreakOff ==
  /\ upgrade.step # "rest"
  /\ db' = committed /\ upgrade' = AtRest
  /\ UNCHANGED <<committed, changes, recorded>>

----------------------------------------------------------------------------
(* The controller in between                                               *)

Serving == upgrade.step = "rest" /\ ~db.started

\* What the index in force lets in beside the rows there are.
Admitted(x) ==
  CASE x.guard = "component"  -> ~SharedKey(x)
    [] x.guard = "repository" -> ~SharedSlot(x)
    [] OTHER                  -> TRUE

Deploy(d, k, r) ==
  /\ Serving /\ d \notin Made(db)
  /\ \E p \in ProjectName \cup {None} :
       LET reg == db.registry
           x == [db EXCEPT !.dep[d] =
                   [key |-> k, repo |-> r, active |-> TRUE, project |-> p,
                    server |-> IF p = None THEN None ELSE Resolved(reg, p, k)]] IN
       /\ IF db.revision < 15 THEN p = None
          ELSE p \in reg.there /\ k \in reg.offers[p] /\ Resolved(reg, p, k) # None
       /\ Admitted(x)
       /\ Immediately(x)
  /\ UNCHANGED <<upgrade, changes, recorded>>

EndDeployment(d) ==
  /\ Serving /\ d \in Active(db)
  /\ Immediately([db EXCEPT !.dep[d].active = FALSE])
  /\ UNCHANGED <<upgrade, changes, recorded>>

RecordPublish(d) ==
  /\ Serving /\ d \in Active(db)
  /\ Immediately([db EXCEPT !.records = @ \cup {d}])
  /\ recorded' = recorded \cup {d}
  /\ UNCHANGED <<upgrade, changes>>

\* A component is added, with its project if need be; a project or a component
\* is pointed at a connection or at none; another default is chosen.
ChangeRegistry ==
  /\ Serving /\ db.revision >= 14 /\ changes < MaxChanges
  /\ changes' = changes + 1
  /\ \/ \E p \in ProjectName, k \in Key :
          Immediately([db EXCEPT !.registry.there = @ \cup {p},
                                 !.registry.offers[p] = @ \cup {k}])
     \/ \E s \in Server \cup {None} :
          \/ \E p \in db.registry.there : Immediately([db EXCEPT !.registry.base[p] = s])
          \/ \E k \in Key : Immediately([db EXCEPT !.registry.own[k] = s])
          \/ Immediately([db EXCEPT !.registry.fallback = s])
  /\ UNCHANGED <<upgrade, recorded>>

MigrationStep ==
  \/ CreateGuard \/ CreateRegistry \/ SeedRegistry
  \/ AddColumns \/ BackfillRows \/ RebuildTable
  \/ DropScopeIndexes \/ NarrowTable \/ WriteNumber \/ BreakOff

MigrationNext ==
  \/ MigrationStep \/ ChangeRegistry
  \/ \E d \in Dep : EndDeployment(d) \/ RecordPublish(d)
                    \/ \E k \in Key, r \in Repo : Deploy(d, k, r)

MigrationSpec == MigrationInit /\ [][MigrationNext]_migrationVars

----------------------------------------------------------------------------
(* Properties                                                              *)

\* Both views of the database are databases, and differ in a transaction only.
Database ==
  [revision : {9, 10, 14, 15}, started : BOOLEAN, guard : {"none", "component", "repository"},
   dep : [Dep -> [key : Key \cup {None}, repo : Repo \cup {None}, active : BOOLEAN,
                  project : ProjectName \cup {None}, server : Server \cup {None}]],
   records : SUBSET Dep,
   registry : [there : SUBSET ProjectName, offers : [ProjectName -> SUBSET Key],
               own : [Key -> Server \cup {None}], base : [ProjectName -> Server \cup {None}],
               fallback : Server \cup {None}]]
MigrationTypeOK ==
  /\ db \in Database /\ committed \in Database
  /\ upgrade \in [step : {"rest", "seed", "backfill", "rebuild", "narrow", "number"},
                  open : BOOLEAN, to : {9, 10, 14, 15}]
  /\ upgrade.step = "rest" => db = committed
  /\ changes \in 0..MaxChanges /\ recorded \subseteq Dep

\* 0015: "there is no committed moment where deployments exists without a
\* guard": from 0010 on, whatever is committed, also between the steps of a
\* revision and when it breaks off, has a guard, and no two deployments in
\* progress or successful that it forbids.
NeverUnguarded ==
  committed.revision >= 10 =>
    \/ committed.guard = "component" /\ committed.revision < 15 /\ ~SharedKey(committed)
    \/ committed.guard = "repository" /\ committed.revision = 15 /\ ~SharedSlot(committed)

\* 0015 asks before it writes anything: once it has begun, neither the new
\* guard nor the columns that may not be empty refuse a row, and every row is
\* given a component that its project has.
RebuildFits ==
  upgrade.step = "rebuild" =>
    /\ ~SharedSlot(db)
    /\ \A d \in Made(db) : /\ db.dep[d].server # None
                           /\ db.dep[d].project \in db.registry.there
                           /\ db.dep[d].key \in db.registry.offers[db.dep[d].project]

\* 0015 switches the foreign keys off so that the records that refer to a
\* deployment outlive the rebuild of its table: no record of a publish is lost.
RecordsKept == recorded \subseteq committed.records
=============================================================================

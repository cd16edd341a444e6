------------------------------ MODULE Registry ------------------------------
(***************************************************************************)
(* The components of one project.  A request loads the project with its    *)
(* components, edits that copy, asks the table of connections where each   *)
(* component would promote, refuses if two active ones share a slot, and   *)
(* writes the whole set of components back.  The database locks nothing    *)
(* between these steps: it has its keys to refuse by.  The default         *)
(* connection is moved by others (Connections), who look at no project.    *)
(***************************************************************************)
EXTENDS Integers, Sequences, SequencesExt, FiniteSets

CONSTANTS
  Component,   \* the ids of the components there ever are
  First,       \* those the project starts with, by position
  Target,      \* promotion targets (owner and repository are one)
  Drone,       \* the stored connections to a Drone
  Inherit,     \* no override, no connection of one's own; no default: UNRESOLVED
  Editor,      \* requests served at the same time
  MaxEdits     \* bound on the requests, those that move the default connection or
               \* refer to a component included

ASSUME RegistryAssumption ==
  /\ IsFiniteSet(Component) /\ MaxEdits \in Nat
  /\ First \in Seq(Component) /\ Inherit \notin Target \cup Drone
  /\ \A i, j \in 1..Len(First) : First[i] = First[j] => i = j

VARIABLES
  standard,     \* table projects: the default target ...
  server,       \* ... and the connection the components inherit
  preferred,    \* table upstream_connections: the default one
  row,          \* table project_components; a position of 0 is no row
  used,         \* the ids that have been taken
  deployed,     \* components that a deployment, a schedule or a CI policy refers to
  editor,       \* what each request is doing
  overlapped,   \* history: a request has written after one it had not seen
  edits         \* requests so far

registryVars == <<standard, server, preferred, row, used, deployed, editor, overlapped, edits>>

NoRow == [position |-> 0, target |-> Inherit, drone |-> Inherit, active |-> TRUE]
Present == {c \in Component : row[c].position > 0}
Elements(s) == {s[i] : i \in 1..Len(s)}
PositionIn(s, c) == IF c \in Elements(s) THEN CHOOSE i \in 1..Len(s) : s[i] = c ELSE 0

\* The aggregate: its components come ordered by position.
ByPosition ==
  CHOOSE s \in SetToSeqs(Present) :
    \A i, j \in 1..Len(s) : i < j => row[s[i]].position <= row[s[j]].position
Project ==
  [standard |-> standard, server |-> server, order |-> ByPosition,
   target |-> [c \in Component |-> row[c].target],
   drone |-> [c \in Component |-> row[c].drone],
   active |-> [c \in Component |-> row[c].active]]

EffectiveTarget(p, c) == IF p.target[c] = Inherit THEN p.standard ELSE p.target[c]
\* ResolveConnection: the component's own, the project's, the default.
ConnectionOf(p, c, default) ==
  IF p.drone[c] # Inherit THEN p.drone[c] ELSE IF p.server # Inherit THEN p.server ELSE default

\* slot_key
SlotKey(p, c, default) == <<ConnectionOf(p, c, default), EffectiveTarget(p, c)>>
Clash(p, default, c, d) ==
  /\ c # d /\ p.active[c] /\ p.active[d]
  /\ SlotKey(p, c, default) = SlotKey(p, d, default)
\* Mutant: the overrides are compared, not what is inherited.
ConflictOfOverrides(p, default) ==
  \E c, d \in Elements(p.order) :
    c # d /\ p.active[c] /\ p.active[d] /\ p.target[c] = p.target[d] /\ p.drone[c] = p.drone[d]
\* slot_conflicts
SlotConflict(p, default) == \E c, d \in Elements(p.order) : Clash(p, default, c, d)

Blank == [standard |-> Inherit, server |-> Inherit, order |-> <<>>, target |-> <<>>,
          drone |-> <<>>, active |-> <<>>]
Away == [pc |-> "idle", base |-> Blank, copy |-> Blank, known |-> {}, late |-> FALSE,
         resolved |-> {}]

\* Two components of a project may share a slot from the start: one that was
\* seeded never went through save_project.
RegistryInit ==
  /\ standard \in Target
  /\ server \in Drone \cup {Inherit} /\ preferred \in Drone \cup {Inherit}
  /\ row \in [Component -> [position : 0..Len(First), target : Target \cup {Inherit},
                            drone : Drone \cup {Inherit}, active : BOOLEAN]]
  /\ \A c \in Component : /\ row[c].position = PositionIn(First, c)
                          /\ row[c].position = 0 => row[c] = NoRow
  /\ used = Elements(First) /\ deployed = {}
  /\ editor = [u \in Editor |-> Away]
  /\ overlapped = FALSE /\ edits = 0

----------------------------------------------------------------------------
(* What the edits make of the aggregate                                    *)

\* add_component: at the requested place, clamped to 1..n+1; the rest moves on.
Added(p, c, at, target, drone) ==
  [p EXCEPT !.order = InsertAt(@, at, c), !.target[c] = target, !.drone[c] = drone,
            !.active[c] = TRUE]
\* A connection is named, or left as it is: none is ever let go of.
Named(drone, old) == IF drone = Inherit THEN old ELSE drone
Updated(p, c, target, drone, active) ==
  [p EXCEPT !.target[c] = target, !.drone[c] = Named(drone, @), !.active[c] = active]
\* The project's values move every component that does not override them.
Redirected(p, target, drone) == [p EXCEPT !.standard = target, !.server = Named(drone, @)]
Removed(p, c) == [p EXCEPT !.order = RemoveAt(@, PositionIn(@, c))]

----------------------------------------------------------------------------
(* The requests: load_project, and the edit of the copy                    *)

Request(u, pc, copy) ==
  /\ editor[u].pc = "idle" /\ edits < MaxEdits
  /\ editor' = [editor EXCEPT ![u] =
       [Away EXCEPT !.pc = pc, !.base = Project, !.copy = copy]]
  /\ edits' = edits + 1
  /\ UNCHANGED <<standard, server, preferred, row, deployed, overlapped>>

AddComponent(u, c, at, target, drone) ==
  /\ c \notin used /\ at <= Len(Project.order) + 1
  /\ Request(u, "loaded", Added(Project, c, at, target, drone))
  /\ used' = used \cup {c}

\* The override or the connection of one component is set, the override is
\* cleared, or it is (de)activated.
UpdateComponent(u, c, target, drone, active) ==
  /\ c \in Present
  /\ Request(u, "loaded", Updated(Project, c, target, drone, active))
  /\ UNCHANGED used

UpdateProject(u, target, drone) ==
  /\ Request(u, "loaded", Redirected(Project, target, drone))
  /\ UNCHANGED used

\* set_archived: only a flag, but the components are written back as well, and
\* the slots are not looked at.
ArchiveProject(u) ==
  /\ Request(u, "edited", Project)
  /\ UNCHANGED used

\* Refused while something refers to it; the slots are not looked at.
DeleteComponent(u, c) ==
  /\ c \in Present \ deployed
  /\ Request(u, "edited", Removed(Project, c))
  /\ UNCHANGED used

ReorderComponents(u, order) ==
  /\ Elements(order) = Present /\ Len(order) = Cardinality(Present)
  /\ Request(u, "edited", [Project EXCEPT !.order = order])
  /\ UNCHANGED used

----------------------------------------------------------------------------
(* save_project, _sync_components and the commit                           *)

\* assert_no_slot_conflict, with the connections as they are now.
CheckSlots(u) ==
  /\ editor[u].pc = "loaded"
  /\ ~SlotConflict(editor[u].copy, preferred)
  /\ editor' = [editor EXCEPT ![u].pc = "edited", ![u].resolved = {preferred}]
  /\ UNCHANGED <<standard, server, preferred, row, used, deployed, overlapped, edits>>

\* The rows there are.  Those loaded before are not read again while the
\* session still has them, which is up to the garbage collector.
ReadRows(u, fresh) ==
  /\ editor[u].pc = "edited"
  /\ editor' = [editor EXCEPT ![u].pc = "reading", ![u].known = Present,
                              ![u].base = IF fresh THEN Project ELSE @]
  /\ UNCHANGED <<standard, server, preferred, row, used, deployed, overlapped, edits>>

Wanted(u) == Elements(editor[u].copy.order)

\* Mutant: the foreign keys do not restrict.
Unrestricted(u) == FALSE
\* ON DELETE RESTRICT
Referred(u) == \E c \in editor[u].known \ Wanted(u) : c \in deployed
\* Mutant: positions need not be unique.
NotUnique(u) == FALSE
\* uq_project_components_position: a row this request does not know.
Collides(u) ==
  \E c \in Present \ (editor[u].known \cup Wanted(u)) :
    row[c].position <= Len(editor[u].copy.order)
\* A row to update is gone (StaleDataError), or one to insert is there.
Outrun(u) == \E c \in Wanted(u) : (c \in editor[u].known) # (c \in Present)

\* Columns the edit changed are written; a row that is not known is inserted.
WrittenRow(u, c) ==
  LET base == editor[u].base
      copy == editor[u].copy
      known == c \in editor[u].known IN
  [position |-> PositionIn(copy.order, c),
   target |-> IF known /\ copy.target[c] = base.target[c] THEN row[c].target ELSE copy.target[c],
   drone |-> IF known /\ copy.drone[c] = base.drone[c] THEN row[c].drone ELSE copy.drone[c],
   active |-> IF known /\ copy.active[c] = base.active[c] THEN row[c].active ELSE copy.active[c]]

\* Every component the copy lacks is deleted, the rest renumbered 1..n.
Rows(u) ==
  [c \in Component |-> IF c \in Wanted(u) THEN WrittenRow(u, c)
                       ELSE IF c \in editor[u].known THEN NoRow ELSE row[c]]

Save(u) ==
  /\ editor[u].pc = "reading"
  /\ ~Referred(u) /\ ~Collides(u) /\ ~Outrun(u)
  /\ row' = Rows(u)
  /\ standard' = IF editor[u].copy.standard = editor[u].base.standard THEN standard
                 ELSE editor[u].copy.standard
  /\ server' = IF editor[u].copy.server = editor[u].base.server THEN server
               ELSE editor[u].copy.server
  /\ overlapped' = (overlapped \/ editor[u].late)
  /\ editor' = [v \in Editor |-> IF v = u \/ editor[v].pc = "idle" THEN Away
                                 ELSE [editor[v] EXCEPT !.late = TRUE]]
  /\ UNCHANGED <<preferred, used, deployed, edits>>

\* The database refuses, or the request is cut off: nothing is written.
FailEdit(u) ==
  /\ editor[u].pc # "idle"
  /\ editor' = [editor EXCEPT ![u] = Away]
  /\ UNCHANGED <<standard, server, preferred, row, used, deployed, overlapped, edits>>

\* A row elsewhere comes to refer to the component (its foreign key needs it).
Refer(c) ==
  /\ c \in Present \ deployed /\ edits < MaxEdits
  /\ deployed' = deployed \cup {c}
  /\ edits' = edits + 1
  /\ UNCHANGED <<standard, server, preferred, row, used, editor, overlapped>>

\* update_connection, create, delete: another connection of the kind becomes the
\* default, or none; nothing looks at the projects.
MoveDefault(d) ==
  /\ edits < MaxEdits /\ d # preferred
  /\ preferred' = d
  /\ edits' = edits + 1
  /\ UNCHANGED <<standard, server, row, used, deployed, editor, overlapped>>

RegistryNext ==
  \/ \E u \in Editor, target \in Target \cup {Inherit}, drone \in Drone \cup {Inherit} :
       \/ \E c \in Component :
            \/ \E at \in 1..Cardinality(Component) : AddComponent(u, c, at, target, drone)
            \/ \E active \in BOOLEAN : UpdateComponent(u, c, target, drone, active)
       \/ target \in Target /\ UpdateProject(u, target, drone)
  \/ \E u \in Editor :
       \/ ArchiveProject(u)
       \/ \E c \in Component : DeleteComponent(u, c)
       \/ \E order \in SetToSeqs(Present) : ReorderComponents(u, order)
       \/ CheckSlots(u)
       \/ \E fresh \in BOOLEAN : ReadRows(u, fresh)
       \/ Save(u) \/ FailEdit(u)
  \/ \E c \in Component : Refer(c)
  \/ \E d \in Drone \cup {Inherit} : MoveDefault(d)

RegistrySpec == RegistryInit /\ [][RegistryNext]_registryVars

----------------------------------------------------------------------------
(* Properties                                                              *)

\* The tables and the requests hold what they can hold: a row's id is taken,
\* and no two components of a copy are the same.
RegistryTypeOK ==
  /\ standard \in Target
  /\ server \in Drone \cup {Inherit} /\ preferred \in Drone \cup {Inherit}
  /\ row \in [Component -> [position : 0..Cardinality(Component),
                            target : Target \cup {Inherit}, drone : Drone \cup {Inherit},
                            active : BOOLEAN]]
  /\ Present \subseteq used /\ used \subseteq Component
  /\ \A u \in Editor :
       /\ editor[u].pc \in {"idle", "loaded", "edited", "reading"}
       /\ Wanted(u) \subseteq used /\ editor[u].known \subseteq used
       /\ Len(editor[u].copy.order) = Cardinality(Wanted(u))
  /\ overlapped \in BOOLEAN /\ edits \in 0..MaxEdits

\* A component that something was deployed with is never deleted, whatever copy
\* a request writes back: the check before the edit alone would not do.
HistoryKept == deployed \subseteq Present

\* No two components share a position, not even after requests that raced: a
\* release goes through them in one order.  As long as no request wrote after
\* one it had not seen, the positions are 1..n.
PositionsDistinct ==
  /\ \A c, d \in Present : c # d => row[c].position # row[d].position
  /\ ~overlapped => {row[c].position : c \in Present} = 1..Cardinality(Present)

\* save_project: two components of a project come to share a slot only by a move
\* of the default connection, or by a request that has not seen what others
\* wrote since it loaded the project, or a move since it checked the slots; no
\* edit by itself, those that check nothing and the inherited values included,
\* makes a conflict, whether or not there was one before.
Clashes ==
  LET p == Project IN {cd \in Present \X Present : Clash(p, preferred, cd[1], cd[2])}
Outdated(u) == editor[u].late \/ ~(editor[u].resolved \subseteq {preferred})
SlotsGuarded ==
  [][\/ Clashes' \subseteq Clashes
     \/ \E u \in Editor : Outdated(u) /\ Save(u)]_<<standard, server, row>>
=============================================================================

---------------------------- MODULE Connections ----------------------------
(***************************************************************************)
(* The stored connections to one kind of upstream (Drone or Gitea): a      *)
(* token, the verdict of the last probe on it, and which connection is the *)
(* default.  Requests edit, probe, add and delete them at the same time;   *)
(* each works on a copy of a row.  A save reads the row once more and      *)
(* writes the columns in which the copy differs from that: nothing is      *)
(* locked between the two, unless the default was moved first.             *)
(***************************************************************************)
EXTENDS Naturals

CONSTANTS
  Connection,   \* the ids of the connections there ever are
  Admin,        \* requests served at the same time
  MaxTokens,    \* bound on the different tokens of one connection
  MaxAsked      \* bound on the requests

ASSUME ConnectionsAssumption == MaxTokens \in Nat \ {0} /\ MaxAsked \in Nat

VARIABLES
  upstream,   \* table upstream_connections
  referred,   \* connections that a project, component, deployment or CI job refers to
  admin,      \* what each request is doing
  latest,     \* history: the token that was last set for each connection
  covered,    \* history: connections on which a request has written that had not
              \* seen what others wrote since it read the row
  crossed,    \* history: of those, the ones whose token or verdict another wrote
              \* between the second read of the row and the write
  asked,      \* requests so far
  undone      \* history: the default was given up, or deleted, and not set again

connectionVars == <<upstream, referred, admin, latest, covered, crossed, asked, undone>>

\* A verdict is the number of the token it is about; 0 is no verdict.  (What is
\* answered on one token differs from what is answered on another.)
NoConnection == [there |-> FALSE, token |-> 0, verdict |-> 0, default |-> FALSE]
Unused == [pc |-> "idle", id |-> {}, base |-> NoConnection, copy |-> NoConnection,
           token |-> 0, wants |-> "same", late |-> FALSE]

Stored == {c \in Connection : upstream[c].there}
Defaults == {c \in Stored : upstream[c].default}

ConnectionsInit ==
  /\ upstream = [c \in Connection |-> NoConnection]
  /\ referred = {} /\ covered = {} /\ crossed = {} /\ undone = FALSE /\ asked = 0
  /\ admin = [s \in Admin |-> Unused]
  /\ latest = [c \in Connection |-> 0]

\* A request comes in, and is answered.
Begins(s, next) ==
  /\ admin[s].pc = "idle" /\ asked < MaxAsked
  /\ admin' = [admin EXCEPT ![s] = next]
  /\ asked' = asked + 1
  /\ UNCHANGED <<upstream, referred, latest, covered, crossed, undone>>
Ends(s) == admin' = [admin EXCEPT ![s] = Unused] /\ asked' = asked
\* UpdateConnection.execute and TestConnection.execute read the row.
Reading(s, c, copy, token, wants) ==
  /\ c \in Stored
  /\ Begins(s, [pc |-> "save", id |-> {c}, base |-> upstream[c], copy |-> copy,
                token |-> token, wants |-> wants, late |-> FALSE])

\* Mutant: the verdict on the old token is kept.
TokenReplacedOnly(r, k) == [r EXCEPT !.token = k]
\* Mutant: only the verdict is dropped.
VerdictDropped(r, k) == [r EXCEPT !.verdict = 0]
\* replace_token
TokenReplaced(r, k) == [r EXCEPT !.token = k, !.verdict = 0]

\* An edit changes the token, the default, or neither.
BeginUpdate(s, c) ==
  \/ \E k \in 1..MaxTokens : Reading(s, c, TokenReplaced(upstream[c], k), k, "same")
  \/ Reading(s, c, upstream[c], 0, "same")
  \/ \E default \in BOOLEAN :
       Reading(s, c, [upstream[c] EXCEPT !.default = default], 0,
               IF default THEN "default" ELSE "none")

\* The upstream is asked with the token that was read.
BeginProbe(s, c) ==
  Reading(s, c, [upstream[c] EXCEPT !.verdict = upstream[c].token], 0, "same")

\* clear_default, for all but one
Cleared(keep) ==
  [c \in Connection |-> IF c \in keep THEN upstream[c] ELSE [upstream[c] EXCEPT !.default = FALSE]]
\* uq_upstream_connections_default_per_kind
TwoDefaults(rows) ==
  \E c, d \in Connection : c # d /\ rows[c].there /\ rows[d].there
                                 /\ rows[c].default /\ rows[d].default

\* What the row is, once a copy is flushed over it: the columns in which the copy
\* differs from the row as it was read for the save.
Flushed(now, base, copy) ==
  [there |-> TRUE,
   token |-> IF copy.token = base.token THEN now.token ELSE copy.token,
   verdict |-> IF copy.verdict = base.verdict THEN now.verdict ELSE copy.verdict,
   default |-> IF copy.default = base.default THEN now.default ELSE copy.default]

\* What the table is once s has written.  One that becomes the default has cleared
\* the others' first, and is alone with the table from then on: the row is its copy.
Written(s, c) ==
  IF admin[s].pc = "flush"
  THEN [upstream EXCEPT ![c] = Flushed(@, admin[s].base, admin[s].copy)]
  ELSE [IF admin[s].wants = "default" THEN Cleared({c}) ELSE upstream EXCEPT ![c] = admin[s].copy]
\* Whether the kind is without a default because that was asked for.
GivenUp(s, c) ==
  CASE admin[s].wants = "default" -> FALSE
    [] admin[s].wants = "none"    -> undone \/ (upstream[c].default /\ ~Written(s, c)[c].default)
    [] OTHER                      -> undone

\* save: session.get reads the row for the second time.
RereadConnection(s) ==
  \E c \in admin[s].id :
    /\ admin[s].pc = "save" /\ admin[s].wants # "default" /\ c \in Stored
    /\ admin' = [admin EXCEPT ![s].pc = "flush", ![s].base = upstream[c],
                              ![s].late = (admin[s].base # upstream[c])]
    /\ UNCHANGED <<upstream, referred, latest, covered, crossed, asked, undone>>

\* The write, unless the row is gone or the index refuses.
Crosses(s, c) ==
  admin[s].pc = "flush" /\ ~(/\ admin[s].base.token = upstream[c].token
                             /\ admin[s].base.verdict = upstream[c].verdict)
Covers(s, c) ==
  IF admin[s].pc = "flush" THEN admin[s].late \/ Crosses(s, c) ELSE admin[s].base # upstream[c]
SaveConnection(s) ==
  \E c \in admin[s].id :
    /\ admin[s].pc = IF admin[s].wants = "default" THEN "save" ELSE "flush"
    /\ Ends(s)
    /\ IF c \in Stored /\ ~TwoDefaults(Written(s, c))
       THEN /\ upstream' = Written(s, c)
            /\ latest' = [latest EXCEPT ![c] = IF admin[s].token = 0 THEN latest[c] ELSE admin[s].token]
            /\ covered' = IF Covers(s, c) THEN covered \cup {c} ELSE covered
            /\ crossed' = IF Crosses(s, c) THEN crossed \cup {c} ELSE crossed
            /\ undone' = GivenUp(s, c)
       ELSE UNCHANGED <<upstream, latest, covered, crossed, undone>>
    /\ UNCHANGED referred

\* Mutant: the first connection becomes the default only if it is asked for.
DefaultAsAsked(wish) == wish
\* The first connection of a kind becomes the default.
MakesDefault(wish) == wish \/ Stored = {}

BeginCreate(s, c) ==
  /\ c \notin Stored /\ latest[c] = 0
  /\ \A t \in Admin : c \notin admin[t].id
  /\ \E wish \in BOOLEAN :
       LET default == MakesDefault(wish) IN
       Begins(s, [pc |-> "add", id |-> {c}, base |-> NoConnection, token |-> 1,
                copy |-> [there |-> TRUE, token |-> 1, verdict |-> 0, default |-> default],
                wants |-> IF default THEN "default" ELSE "same", late |-> FALSE])

\* clear_default and the insert are one transaction; the index refuses it, or
\* the name is taken.
AddConnection(s) ==
  /\ admin[s].pc = "add"
  /\ \E c \in admin[s].id :
       \/ /\ ~TwoDefaults(Written(s, c))
          /\ upstream' = Written(s, c)
          /\ latest' = [latest EXCEPT ![c] = 1]
          /\ undone' = GivenUp(s, c)
       \/ UNCHANGED <<upstream, latest, undone>>
  /\ Ends(s)
  /\ UNCHANGED <<referred, covered, crossed>>

\* Asked first, to give a reason; a deployment or a CI job is not asked about.
BeginDelete(s, c) ==
  /\ c \in Stored
  /\ Begins(s, [Unused EXCEPT !.pc = "delete", !.id = {c}])

Deletable(c) == c \in Stored /\ c \notin referred
DeleteConnection(s) ==
  /\ admin[s].pc = "delete"
  /\ \E c \in admin[s].id :
       IF Deletable(c)
       THEN /\ upstream' = [upstream EXCEPT ![c] = NoConnection]
            /\ undone' = (undone \/ upstream[c].default)
       ELSE UNCHANGED <<upstream, undone>>
  /\ Ends(s)
  /\ UNCHANGED <<referred, latest, covered, crossed>>

\* A project, a component, a deployment or a CI job takes a connection, the
\* one it names or the default of its kind; some let go of it again.
ReferTo(c) ==
  /\ c \in Stored /\ referred' = referred \cup {c}
  /\ UNCHANGED <<upstream, admin, latest, covered, crossed, asked, undone>>
LetGo(c) ==
  /\ c \in referred /\ referred' = referred \ {c}
  /\ UNCHANGED <<upstream, admin, latest, covered, crossed, asked, undone>>

\* A request is refused, fails, or dies with its process.
LoseAdmin(s) ==
  /\ admin[s].pc # "idle" /\ Ends(s)
  /\ UNCHANGED <<upstream, referred, latest, covered, crossed, undone>>

ConnectionsNext ==
  \/ \E s \in Admin, c \in Connection :
       BeginUpdate(s, c) \/ BeginProbe(s, c) \/ BeginCreate(s, c) \/ BeginDelete(s, c)
  \/ \E s \in Admin :
       \/ RereadConnection(s) \/ SaveConnection(s) \/ AddConnection(s)
       \/ DeleteConnection(s) \/ LoseAdmin(s)
  \/ \E c \in Connection : ReferTo(c) \/ LetGo(c)

ConnectionsSpec == ConnectionsInit /\ [][ConnectionsNext]_connectionVars

----------------------------------------------------------------------------
(* Properties                                                              *)

ConnectionRow ==
  [there : BOOLEAN, token : 0..MaxTokens, verdict : 0..MaxTokens, default : BOOLEAN]
\* Every variable keeps its type, and what somebody refers to is stored.
ConnectionTypeOK ==
  /\ upstream \in [Connection -> ConnectionRow]
  /\ \A c \in Connection : ~upstream[c].there => upstream[c] = NoConnection
  /\ referred \subseteq Stored
  /\ admin \in [Admin -> [pc : {"idle", "save", "flush", "add", "delete"}, id : SUBSET Connection,
                         base : ConnectionRow, copy : ConnectionRow, token : 0..MaxTokens,
                         wants : {"same", "default", "none"}, late : BOOLEAN]]
  /\ latest \in [Connection -> 0..MaxTokens]
  /\ covered \subseteq Connection /\ crossed \subseteq covered
  /\ asked \in 0..MaxAsked /\ undone \in BOOLEAN

\* replace_token, record_probe, save: a verdict is about the token beside it, also
\* when a probe of the old token ends after the token was replaced; unless another
\* request wrote the token or the verdict between the second read of the row and
\* the write, which then takes only its own columns over.
VerdictOfToken ==
  \A c \in Stored \ crossed : upstream[c].verdict \in {0, upstream[c].token}

\* A connection has the token that was last set for it, unless a request wrote
\* that had not seen what others wrote since it read the row: no edit or probe
\* that ran alone touches it, nor one that only another moved the default under.
RotationHolds ==
  \A c \in Stored \ covered : upstream[c].token = latest[c]

\* Components that name no connection use the default of the kind: there is
\* one as soon as there is a connection, and then exactly one, until somebody
\* gives it up or a request writes that had not seen what others wrote.
DefaultStays ==
  /\ ~TwoDefaults(upstream)
  /\ Stored # {} /\ covered = {} /\ ~undone => Defaults # {}
=============================================================================

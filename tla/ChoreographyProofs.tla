------------------------- MODULE ChoreographyProofs -------------------------
(***************************************************************************)
(* The rewrite keeps the ledger of promotions and ends a bundle with a     *)
(* verdict that fits its rows, for any number of steps and of passes.      *)
(* A step may be sent because it was claimed, and the claim is committed   *)
(* before anything else is: whatever is rolled back or written late, no    *)
(* row goes back to WAITING.                                               *)
(***************************************************************************)
EXTENDS Choreography, SequenceTheorems, WellFoundedInduction, TLAPS

----------------------------------------------------------------------------
(* Types                                                                   *)

Pc == {"idle", "decide", "claim", "send", "answer", "look", "after", "fail", "finish",
       "commit"}
DriverState == [pc : Pc, at : 1..Len(Order), round : 0..Len(Order) + 1,
                seen : [Step -> RowState] \cup {<<>>}]
PromotionState ==
  [dep : Step, state : {"sent", "running", "refused", "success", "failure"}]

Tables ==
  /\ stored \in TablesState /\ pending \in TablesState
  /\ holder \in {{}} \cup {{s} : s \in Driver}
  /\ holder = {} => pending = stored
  /\ reopened \in BOOLEAN

DriverOK(s) ==
  /\ driver[s].pc \in {"look", "fail"} => driver[s].seen \in [Step -> RowState]
  /\ driver[s].pc \in {"send", "answer", "idle"} => s \notin holder

TypeInv ==
  /\ Tables
  /\ driver \in [Driver -> DriverState] /\ \A s \in Driver : DriverOK(s)
  /\ promotion \in Seq(PromotionState)
  /\ drops \in 0..MaxDrops

----------------------------------------------------------------------------
(* What is promised                                                        *)

\* Rows that claim no build and no success that Drone did not have, and what
\* may be said of the bundle.
TrueRows ==
  {rows \in [Step -> RowState] : \A d \in Step :
     /\ rows[d].build # NoBuild => rows[d].build \in Built(d)
     /\ rows[d].status = "SUCCESS" => d \in Heard}
TrueBundles ==
  {status \in BundleState :
     /\ status = "SUCCESS" => Step \subseteq Heard
     /\ status = "PARTIAL_FAILURE" => Heard # {}}

\* A step that waits was not sent, and nobody is about to send it.
SendsNow(s, d) == driver[s].pc = "send" /\ At(s) = d
Queued ==
  /\ \A d \in Step : stored.row[d].status = "WAITING" =>
       Sends(d) = {} /\ \A s \in Driver : ~SendsNow(s, d)
  /\ \A d \in Step : pending.row[d].status = "WAITING" => stored.row[d].status = "WAITING"
  /\ \A p, q \in 1..Len(promotion) : promotion[p].dep = promotion[q].dep => p = q

\* Whoever is about to send a step is alone with it, and comes after the rest.
PassTrue(s) ==
  /\ \A d \in Step : SendsNow(s, d) =>
       Sends(d) = {} /\ \A t \in Driver : SendsNow(t, d) => t = s
  /\ driver[s].pc \in {"claim", "send"} =>
       \A i \in 1..driver[s].at - 1 : Order[i] \in Heard
  /\ driver[s].pc = "finish" => Step \subseteq Heard
  /\ driver[s].pc \in {"look", "fail"} => driver[s].seen \in TrueRows
  /\ driver[s].pc = "look" => driver[s].seen[At(s)].status \in InFlight

PromiseInv ==
  /\ stored.row \in TrueRows /\ pending.row \in TrueRows
  /\ stored.bundle \in TrueBundles /\ pending.bundle \in TrueBundles
  /\ Queued
  /\ \A s \in Driver : PassTrue(s)

----------------------------------------------------------------------------
(* The verdict                                                             *)

Untouched == {"WAITING", "CANCELLED"}

\* A step is touched only once the steps before it have succeeded.
InTurn(rows) ==
  \A i, j \in 1..Len(Order) :
    i < j /\ rows[Order[j]].status \notin Untouched => rows[Order[i]].status = "SUCCESS"

\* Rows that have ended in one table have ended the same way in the other.
Keeps(old, new) ==
  \A d \in Step : old[d].status \in RowEnded => new[d].status = old[d].status

Whole(x) ==
  /\ \A d \in Step : x.row[d].status \in RowEnded
  /\ x.bundle = "SUCCESS" <=> \A d \in Step : x.row[d].status = "SUCCESS"
  /\ x.bundle = "FAILED"  <=> \A d \in Step : x.row[d].status # "SUCCESS"

\* What the holder of the lock has written, unless it takes back a row.
PendingWhole ==
  Keeps(stored.row, pending.row) =>
    /\ InTurn(pending.row)
    /\ pending.bundle \in BundleEnded /\ stored.bundle \notin BundleEnded => Whole(pending)

\* A verdict that is not committed is about to be.
EndsNext(s) ==
  s \in holder /\ pending.bundle \in BundleEnded /\ stored.bundle \notin BundleEnded
    => driver[s].pc = "commit"

\* A pass that goes on with the lock has written successes only, but for the
\* step it has just looked at.
GoesOn(s) ==
  s \in holder /\ driver[s].pc \in {"decide", "claim", "look", "after"} =>
    \A d \in Step :
      \/ pending.row[d].status \in {stored.row[d].status, "SUCCESS"}
      \/ driver[s].pc = "after" /\ d = At(s)

\* What a pass goes by: what it holds, or has read and nobody has taken back.
PassSees(s) ==
  /\ driver[s].pc = "claim" =>
       \A i \in 1..driver[s].at - 1 : View(s).row[Order[i]].status = "SUCCESS"
  /\ driver[s].pc = "finish" => \A d \in Step : View(s).row[d].status = "SUCCESS"
  /\ driver[s].pc = "fail" =>
       /\ s \in holder => driver[s].seen = pending.row
       /\ s \notin holder => InTurn(driver[s].seen) /\ Keeps(driver[s].seen, stored.row)

PassKnows(s) ==
  /\ driver[s].pc \in {"send", "answer", "look"} => View(s).row[At(s)].status # "WAITING"
  /\ driver[s].pc = "look" /\ s \in holder => driver[s].seen = pending.row
  /\ driver[s].pc = "fail" => driver[s].seen[At(s)].status = "FAILED"
  /\ EndsNext(s) /\ GoesOn(s)

VerdictInv ==
  /\ \A s \in Driver : PassKnows(s)
  /\ ~reopened =>
       /\ InTurn(stored.row)
       /\ stored.bundle \in BundleEnded => Whole(stored)
       /\ PendingWhole
       /\ \A s \in Driver : PassSees(s)

----------------------------------------------------------------------------
(* Lemmas about the definitions                                            *)

LEMMA OrderFacts ==
  /\ Order \in Seq(Step) /\ Len(Order) \in Nat /\ Len(Order) >= 1
  /\ \A i \in 1..Len(Order) : Order[i] \in Step
  /\ \A d \in Step : \E i \in 1..Len(Order) : Order[i] = d
  /\ \A i, j \in 1..Len(Order) : Order[i] = Order[j] => i = j
<1>1. Order \in Seq(Step) /\ Step = {Order[i] : i \in 1..Len(Order)} /\ Step # {}
  BY ChoreographyAssumption
<1>2. Len(Order) \in Nat
  BY <1>1
<1>3. Len(Order) >= 1
  BY <1>1, <1>2
<1>4. QED
  BY <1>1, <1>2, <1>3, ChoreographyAssumption

LEMMA FreshType == FreshRow \in RowState
BY DEF FreshRow, RowState, NoBuild

LEMMA AtRestType ==
  /\ AtRest \in DriverState /\ AtRest.pc = "idle" /\ AtRest.at = 1
  /\ AtRest.round = 0 /\ AtRest.seen = <<>>
BY OrderFacts DEF AtRest, DriverState, Pc

LEMMA AtType ==
  ASSUME NEW s \in Driver, driver \in [Driver -> DriverState]
  PROVE  /\ driver[s].at \in 1..Len(Order) /\ At(s) \in Step
         /\ driver[s].round \in 0..Len(Order) + 1
<1>1. driver[s].at \in 1..Len(Order) /\ driver[s].round \in 0..Len(Order) + 1
  BY DEF DriverState
<1>2. QED
  BY <1>1, OrderFacts DEF At

LEMMA ViewType ==
  ASSUME NEW s \in Driver, Tables
  PROVE  /\ View(s) \in TablesState
         /\ View(s).row \in [Step -> RowState] /\ View(s).bundle \in BundleState
BY DEF View, Tables, TablesState

\* What a save makes of the tables.
LEMMA SavedIs ==
  ASSUME NEW s \in Driver, Tables, NEW d \in Step, NEW copy \in RowState
  PROVE  /\ Saved(s, d, copy) \in TablesState
         /\ Saved(s, d, copy).bundle = View(s).bundle
         /\ Saved(s, d, copy).row = [View(s).row EXCEPT ![d] = copy]
BY ViewType DEF Saved, TablesState

LEMMA MirroredIs ==
  ASSUME NEW x \in TablesState, NEW status \in BundleState
  PROVE  /\ Mirrored(x, status) \in TablesState
         /\ Mirrored(x, status).row = x.row
         /\ Mirrored(x, status).bundle = status
BY DEF Mirrored, TablesState

LEMMA FailedRowIs ==
  ASSUME NEW r \in RowState
  PROVE  /\ FailedRow(r) \in RowState /\ FailedRow(r).status = "FAILED"
         /\ FailedRow(r).build = r.build
BY DEF FailedRow, RowState, RowEnded

LEMMA SentType ==
  ASSUME promotion \in Seq(PromotionState)
  PROVE  /\ Len(promotion) \in Nat
         /\ \A p \in 1..Len(promotion) :
              promotion[p] \in PromotionState /\ promotion[p].dep \in Step /\ p \in Nat \ {0}
<1>1. Len(promotion) \in Nat
  OBVIOUS
<1>2. ASSUME NEW p \in 1..Len(promotion)
      PROVE  promotion[p] \in PromotionState /\ promotion[p].dep \in Step
  <2>1. promotion[p] \in PromotionState
    BY ElementOfSeq
  <2>2. QED
    BY <2>1 DEF PromotionState
<1>3. QED
  BY <1>1, <1>2

\* A table that s writes, and one that it commits.
LEMMA FlushedTables ==
  ASSUME Tables, NEW s \in Driver, NEW new \in TablesState, Flushed(s, new)
  PROVE  /\ Tables' /\ holder' = {s} /\ View(s)' = new
BY DEF Flushed, Tables, View

LEMMA CommittedTables ==
  ASSUME Tables, NEW s \in Driver, NEW new \in TablesState, CommittedAs(s, new)
  PROVE  /\ Tables' /\ holder' = {} /\ stored' = new /\ pending' = new
         /\ \A t \in Driver : View(t)' = new
BY DEF CommittedAs, Tables, View, Reopens

LEMMA KeptTables ==
  ASSUME Tables, UNCHANGED tables
  PROVE  Tables' /\ \A t \in Driver : View(t)' = View(t)
BY DEF Tables, View, tables

\* The smallest number of a set, which next_decision stops at.
LEMMA MinIs ==
  ASSUME NEW S, S \subseteq Nat, S # {}
  PROVE  Min(S) \in S /\ \A j \in S : Min(S) <= j
<1>1. \E x \in S : \A y \in S : ~(<<y, x>> \in OpToRel(<, Nat))
  BY WFMin, NatLessThanWellFounded, ZenonT(60)
<1>2. \A x \in S, y \in S : y < x => <<y, x>> \in OpToRel(<, Nat)
  BY DEF OpToRel
<1>3. \E x \in S : \A y \in S : x <= y
  <2>1. PICK x \in S : \A y \in S : ~(<<y, x>> \in OpToRel(<, Nat))
    BY <1>1, ZenonT(60)
  <2>2. \A y \in S : ~(y < x)
    BY <1>2, <2>1, ZenonT(60)
  <2>3. QED
    BY <2>2
<1>4. QED
  BY <1>3 DEF Min

----------------------------------------------------------------------------
(* What the steps do to the driver that takes them                         *)

Moves(s) ==
  /\ driver' \in [Driver -> DriverState]
  /\ \A t \in Driver : t # s => driver'[t] = driver[t]

LEMMA MovesIs ==
  ASSUME NEW s \in Driver, driver \in [Driver -> DriverState], NEW r \in DriverState,
         driver' = [driver EXCEPT ![s] = r]
  PROVE  Moves(s) /\ driver'[s] = r
BY DEF Moves

LEMMA GotoIs ==
  ASSUME NEW s \in Driver, driver \in [Driver -> DriverState], NEW pc \in Pc, Goto(s, pc)
  PROVE  /\ Moves(s)
         /\ driver'[s].pc = pc /\ driver'[s].at = driver[s].at
         /\ driver'[s].round = driver[s].round /\ driver'[s].seen = driver[s].seen
<1> DEFINE r == [driver[s] EXCEPT !.pc = pc]
<1>1. driver' = [driver EXCEPT ![s] = r]
  BY DEF Goto
<1>2. /\ r \in DriverState /\ r.pc = pc /\ r.at = driver[s].at
      /\ r.round = driver[s].round /\ r.seen = driver[s].seen
  BY DEF DriverState
<1>3. QED
  BY <1>1, <1>2, MovesIs

LEMMA RestedIs ==
  ASSUME NEW s \in Driver, driver \in [Driver -> DriverState], Rested(s)
  PROVE  Moves(s) /\ driver'[s] = AtRest
BY AtRestType, MovesIs DEF Rested

LEMMA RefreshedIs ==
  ASSUME NEW s \in Driver, driver \in [Driver -> DriverState], NEW new, Refreshed(s, new)
  PROVE  /\ Moves(s)
         /\ driver'[s].pc = "after" /\ driver'[s].at = driver[s].at
<1> DEFINE r == [[driver[s] EXCEPT !.pc = "after"] EXCEPT !.seen = <<>>]
<1>1. driver' = [driver EXCEPT ![s] = r]
  BY DEF Refreshed
<1>2. r \in DriverState /\ r.pc = "after" /\ r.at = driver[s].at
  BY DEF DriverState, Pc
<1>3. QED
  BY <1>1, <1>2, MovesIs

LEMMA BeginIs ==
  ASSUME NEW s \in Driver, driver \in [Driver -> DriverState], BeginPass(s)
  PROVE  /\ Moves(s) /\ UNCHANGED <<tables, promotion, drops>>
         /\ driver'[s].pc = "decide"
<1> DEFINE r == [[driver[s] EXCEPT !.pc = "decide"] EXCEPT !.round = 1]
<1>1. driver' = [driver EXCEPT ![s] = r]
  BY DEF BeginPass
<1>2. r \in DriverState /\ r.pc = "decide"
  <2>1. 1 \in 0..Len(Order) + 1
    BY OrderFacts, SMTT(60)
  <2>2. QED
    BY <2>1 DEF DriverState, Pc
<1>3. QED
  BY <1>1, <1>2, MovesIs DEF BeginPass

\* next_decision: everything has succeeded, or the first step that has not
\* decides.
LEMMA DecideIs ==
  ASSUME NEW s \in Driver, Tables, driver \in [Driver -> DriverState], Decide(s)
  PROVE  /\ Moves(s) /\ UNCHANGED <<tables, promotion, drops>>
         /\ \/ /\ driver'[s] = [AtRest EXCEPT !.pc = "finish"]
               /\ \A d \in Step : View(s).row[d].status = "SUCCESS"
            \/ /\ View(s).row[Order[driver'[s].at]].status # "SUCCESS"
               /\ \A i \in 1..driver'[s].at - 1 : View(s).row[Order[i]].status = "SUCCESS"
               /\ \/ /\ driver'[s].pc = "look" /\ driver'[s].seen = View(s).row
                     /\ View(s).row[Order[driver'[s].at]].status \in InFlight
                  \/ /\ driver'[s].pc = "fail" /\ driver'[s].seen = View(s).row
                     /\ View(s).row[Order[driver'[s].at]].status = "FAILED"
                  \/ /\ driver'[s].pc = "claim"
                     /\ View(s).row[Order[driver'[s].at]].status = "WAITING"
                  \/ driver'[s].pc = "commit"
<1> DEFINE rows == View(s).row
           open == {i \in 1..Len(Order) : ~Passed(rows[Order[i]].status)}
           status == rows[Order[Min(open)]].status
           action == CASE status \in InFlight -> "look"
                       [] status = "WAITING"  -> "claim"
                       [] status = "FAILED"   -> "fail"
                       [] OTHER               -> "commit"
<1>1. rows \in [Step -> RowState]
  BY ViewType, ZenonT(60)
<1>2. UNCHANGED <<tables, promotion, drops>>
  BY ZenonT(60) DEF Decide
<1>3. CASE open = {}
  <2>1. \A d \in Step : rows[d].status = "SUCCESS"
    BY <1>3, OrderFacts DEF Passed
  <2>2. [AtRest EXCEPT !.pc = "finish"] \in DriverState
    BY AtRestType, SMTT(60) DEF DriverState, Pc
  <2>3. driver' = [driver EXCEPT ![s] = [AtRest EXCEPT !.pc = "finish"]]
    BY <1>3, ZenonT(60) DEF Decide
  <2>4. QED
    BY <1>2, <2>1, <2>2, <2>3, MovesIs
<1>4. CASE open # {}
  <2> DEFINE r == [[[driver[s] EXCEPT !.pc = action] EXCEPT !.at = Min(open)]
                   EXCEPT !.seen = IF action \in {"look", "fail"} THEN rows ELSE <<>>]
  <2>1. Min(open) \in open /\ \A j \in open : Min(open) <= j
    <3> HIDE DEF rows
    <3>1. open \subseteq Nat
      OBVIOUS
    <3>2. QED
      BY <1>4, <3>1, MinIs, ZenonT(60)
  <2>2. driver' = [driver EXCEPT ![s] = r]
    BY <1>4, ZenonT(60) DEF Decide
  <2>3. /\ Min(open) \in 1..Len(Order) /\ status # "SUCCESS"
        /\ \A i \in 1..Min(open) - 1 : rows[Order[i]].status = "SUCCESS"
    <3> HIDE DEF rows
    <3>1. Min(open) \in 1..Len(Order) /\ status # "SUCCESS"
      BY <2>1 DEF Passed
    <3>2. ASSUME NEW i \in 1..Min(open) - 1 PROVE rows[Order[i]].status = "SUCCESS"
      <4>1. i \in 1..Len(Order) /\ ~(Min(open) <= i)
        <5> HIDE DEF open
        <5>1. Min(open) \in Nat /\ Min(open) <= Len(Order) /\ Len(Order) \in Nat
          BY <3>1, OrderFacts, SMTT(60)
        <5>2. QED
          BY <5>1
      <4>2. QED
        BY <2>1, <4>1 DEF Passed
    <3> HIDE DEF open, status
    <3>3. QED
      BY <3>1, <3>2
  <2>4. action \in {"look", "claim", "fail", "commit"}
    BY ZenonT(60)
  <2>5. /\ action = "look" => status \in InFlight
        /\ action = "fail" => status = "FAILED"
        /\ action = "claim" => status = "WAITING"
    BY ZenonT(60) DEF InFlight
  <2>6. /\ r \in DriverState /\ r.pc = action /\ r.at = Min(open)
        /\ action \in {"look", "fail"} => r.seen = rows
    <3> HIDE DEF action, open
    <3>1. QED
      BY <1>1, <2>3, <2>4, ZenonT(60) DEF DriverState, Pc
  <2>7. Moves(s) /\ driver'[s] = r
    BY <2>2, <2>6, MovesIs, ZenonT(60)
  <2> HIDE DEF action, r, open
  <2>8. QED
    BY <1>2, <2>3, <2>4, <2>5, <2>6, <2>7
<1>5. QED
  BY <1>3, <1>4

LEMMA AfterIs ==
  ASSUME NEW s \in Driver, Tables, driver \in [Driver -> DriverState], After(s)
  PROVE  /\ Moves(s) /\ UNCHANGED <<tables, promotion, drops>>
         /\ \/ /\ driver'[s].pc = "fail" /\ driver'[s].seen = View(s).row
               /\ driver'[s].at = driver[s].at /\ View(s).row[At(s)].status = "FAILED"
            \/ driver'[s].pc = "decide" /\ View(s).row[At(s)].status = "SUCCESS"
            \/ driver'[s].pc = "commit"
<1> DEFINE status == View(s).row[At(s)].status
           more == driver[s].round <= Len(Order)
           r == CASE status = "FAILED" -> [[driver[s] EXCEPT !.pc = "fail"] EXCEPT !.seen = View(s).row]
                  [] status = "SUCCESS" /\ more ->
                       [[AtRest EXCEPT !.pc = "decide"] EXCEPT !.round = driver[s].round + 1]
                  [] OTHER -> [AtRest EXCEPT !.pc = "commit"]
<1>1. driver' = [driver EXCEPT ![s] = r] /\ UNCHANGED <<tables, promotion, drops>>
  BY DEF After
<1>2. View(s).row \in [Step -> RowState]
  BY ViewType, SMTT(60)
<1>3. /\ r \in DriverState
      /\ \/ /\ r.pc = "fail" /\ r.seen = View(s).row /\ r.at = driver[s].at
            /\ status = "FAILED"
         \/ r.pc = "decide" /\ status = "SUCCESS"
         \/ r.pc = "commit"
  <2>1. CASE status = "FAILED"
    <3>1. r = [[driver[s] EXCEPT !.pc = "fail"] EXCEPT !.seen = View(s).row]
      BY <2>1
    <3>2. QED
      BY <1>2, <2>1, <3>1, ZenonT(60) DEF DriverState, Pc
  <2>2. CASE status = "SUCCESS" /\ more
    <3>1. r = [[AtRest EXCEPT !.pc = "decide"] EXCEPT !.round = driver[s].round + 1]
      BY <2>2
    <3>2. driver[s].round + 1 \in 0..Len(Order) + 1
      BY <2>2, OrderFacts, AtType, SMTT(60)
    <3>3. QED
      BY <3>1, <3>2, AtRestType, ZenonT(60) DEF DriverState, Pc
  <2>3. CASE status # "FAILED" /\ ~(status = "SUCCESS" /\ more)
    <3>1. r = [AtRest EXCEPT !.pc = "commit"]
      BY <2>3
    <3>2. QED
      BY <3>1, AtRestType, SMTT(60) DEF DriverState, Pc
  <2>4. QED
    BY <2>1, <2>2, <2>3
<1>4. QED
  BY <1>1, <1>3, MovesIs

----------------------------------------------------------------------------
(* What has been sent, and what Drone has said                             *)

\* While nothing is sent and Drone says nothing, what is true stays true.
LEMMA SamePromotion ==
  ASSUME promotion' = promotion
  PROVE  /\ Heard' = Heard /\ TrueRows' = TrueRows /\ TrueBundles' = TrueBundles
         /\ \A d \in Step : Sends(d)' = Sends(d) /\ Built(d)' = Built(d)
BY DEF Heard, TrueRows, TrueBundles, Sends, Built

\* Drone takes nothing back, and nothing that was sent is forgotten.
HeardMore ==
  /\ Len(promotion) <= Len(promotion')
  /\ \A p \in 1..Len(promotion) :
       /\ promotion'[p].dep = promotion[p].dep
       /\ promotion[p].state = "success" => promotion'[p].state = "success"
       /\ promotion[p].state \in {"running", "success", "failure"} =>
            promotion'[p].state \in {"running", "success", "failure"}

LEMMA HeardGrows ==
  ASSUME Len(promotion) \in Nat, Len(promotion') \in Nat, HeardMore
  PROVE  /\ Heard \subseteq Heard'
         /\ TrueRows \subseteq TrueRows' /\ TrueBundles \subseteq TrueBundles'
<1>1. \A p \in 1..Len(promotion) : p \in 1..Len(promotion')
  BY DEF HeardMore
<1>2. ASSUME NEW d \in Step PROVE Sends(d) \subseteq Sends(d)' /\ Built(d) \subseteq Built(d)'
  BY <1>1 DEF HeardMore, Sends, Built
<1>3. Heard \subseteq Heard'
  <2> SUFFICES ASSUME NEW d \in Step, NEW p \in Sends(d), promotion[p].state = "success"
               PROVE  d \in Heard'
    BY DEF Heard
  <2>1. p \in Sends(d)' /\ promotion'[p].state = "success"
    BY <1>2 DEF HeardMore, Sends
  <2>2. QED
    BY <2>1 DEF Heard
<1>4. TrueRows \subseteq TrueRows'
  BY <1>2, <1>3 DEF TrueRows
<1>5. TrueBundles \subseteq TrueBundles'
  BY <1>3 DEF TrueBundles
<1>6. QED
  BY <1>3, <1>4, <1>5

\* A step has one build at most, and that is the one the code finds.
LEMMA TheBuild ==
  ASSUME TypeInv, Queued, NEW d \in Step, Built(d) # {}
  PROVE  /\ Max(Built(d)) \in Built(d) /\ Max(Built(d)) \in Nat \ {0}
         /\ Max(Built(d)) \in 1..Len(promotion)
<1>1. PICK p \in Built(d) : TRUE
  OBVIOUS
<1>2. p \in 1..Len(promotion) /\ p \in Nat \ {0}
  BY <1>1, SentType DEF TypeInv, Built, Sends
<1>3. \A q \in Built(d) : q = p
  BY <1>1 DEF Built, Sends, Queued
<1>4. \E x \in Built(d) : \A y \in Built(d) : x >= y
  BY <1>1, <1>2, <1>3
<1>5. Max(Built(d)) \in Built(d)
  BY <1>4 DEF Max
<1>6. QED
  BY <1>2, <1>3, <1>5

----------------------------------------------------------------------------
(* What the steps write                                                    *)

\* True rows and a true bundle, in which no step is put back in the queue.
Good(s, new) ==
  /\ new \in TablesState
  /\ new.row \in TrueRows /\ new.bundle \in TrueBundles
  /\ \A d \in Step : new.row[d].status = "WAITING" => View(s).row[d].status = "WAITING"

\* What a pass sees is true, and a row it sees waiting is waiting.
LEMMA ViewGood ==
  ASSUME NEW s \in Driver, TypeInv, PromiseInv
  PROVE  /\ Good(s, View(s))
         /\ \A d \in Step : View(s).row[d].status = "WAITING" => stored.row[d].status = "WAITING"
BY ViewType DEF Good, View, TypeInv, PromiseInv, Queued

\* One row of it is saved over.
LEMMA SaveGood ==
  ASSUME NEW s \in Driver, TypeInv, PromiseInv, NEW d \in Step, NEW copy \in RowState,
         copy.build # NoBuild => copy.build \in Built(d),
         copy.status = "SUCCESS" => d \in Heard,
         copy.status # "WAITING"
  PROVE  Good(s, Saved(s, d, copy))
<1> DEFINE new == Saved(s, d, copy)
<1>1. /\ new \in TablesState /\ new.bundle = View(s).bundle
      /\ new.row = [View(s).row EXCEPT ![d] = copy]
  BY SavedIs DEF TypeInv
<1>2. View(s).row \in TrueRows /\ View(s).bundle \in TrueBundles
  BY ViewGood DEF Good
<1>3. View(s).row \in [Step -> RowState]
  BY <1>2 DEF TrueRows
<1>4. new.row \in TrueRows
  BY <1>1, <1>2, <1>3 DEF TrueRows
<1>5. \A e \in Step : new.row[e].status = "WAITING" => View(s).row[e].status = "WAITING"
  BY <1>1, <1>3
<1>6. QED
  BY <1>1, <1>2, <1>4, <1>5 DEF Good

LEMMA MirrorGood ==
  ASSUME NEW s \in Driver, NEW x, Good(s, x), NEW status \in TrueBundles
  PROVE  Good(s, Mirrored(x, status))
<1>1. status \in BundleState
  BY DEF TrueBundles
<1>2. QED
  BY <1>1, MirroredIs DEF Good

LEMMA OnItsWay == {"PROMOTING", "DEPLOYING"} \subseteq TrueBundles
BY DEF TrueBundles, BundleState, InFlight

\* _record_promotion, with the build of the step.
LEMMA RecordedGood ==
  ASSUME NEW s \in Driver, TypeInv, PromiseInv, Built(At(s)) # {}
  PROVE  Good(s, Recorded(s, Max(Built(At(s)))))
<1> DEFINE copy == [status |-> "DEPLOYING", build |-> Max(Built(At(s)))]
<1>1. At(s) \in Step
  BY AtType DEF TypeInv
<1>2. Max(Built(At(s))) \in Built(At(s)) /\ Max(Built(At(s))) \in Nat
  BY <1>1, TheBuild DEF PromiseInv
<1>3. copy \in RowState
  BY <1>2 DEF RowState, InFlight
<1>4. Good(s, Saved(s, At(s), copy))
  BY <1>1, <1>2, <1>3, SaveGood
<1>5. QED
  BY <1>4, MirrorGood, OnItsWay DEF Recorded

\* What a pass that looks goes by is a true copy of a row that is on its way.
LEMMA CopyIs ==
  ASSUME NEW s \in Driver, TypeInv, PromiseInv, driver[s].pc = "look"
  PROVE  /\ At(s) \in Step /\ Copy(s) \in RowState
         /\ Copy(s).build # NoBuild => Copy(s).build \in Built(At(s))
         /\ Copy(s).status \in InFlight
<1>1. At(s) \in Step
  BY AtType DEF TypeInv
<1>2. PassTrue(s)
  BY DEF PromiseInv
<1>3. driver[s].seen \in TrueRows /\ driver[s].seen[At(s)].status \in InFlight
  BY <1>2 DEF PassTrue
<1>4. QED
  BY <1>1, <1>3 DEF Copy, TrueRows

LEMMA FailedGood ==
  ASSUME NEW s \in Driver, TypeInv, PromiseInv, driver[s].pc = "look"
  PROVE  Good(s, Saved(s, At(s), FailedRow(Copy(s))))
BY CopyIs, FailedRowIs, SaveGood

LEMMA CopyGood ==
  ASSUME NEW s \in Driver, TypeInv, PromiseInv, driver[s].pc = "look"
  PROVE  Good(s, Saved(s, At(s), Copy(s)))
<1>1. Copy(s).status \notin {"WAITING", "SUCCESS"}
  BY CopyIs DEF InFlight
<1>2. QED
  BY <1>1, CopyIs, SaveGood

LEMMA SuccessGood ==
  ASSUME NEW s \in Driver, TypeInv, PromiseInv, driver[s].pc = "look",
         Copy(s).build # NoBuild, promotion[Copy(s).build].state = "success"
  PROVE  Good(s, Saved(s, At(s), [Copy(s) EXCEPT !.status = "SUCCESS"]))
<1> DEFINE copy == [Copy(s) EXCEPT !.status = "SUCCESS"]
<1>1. copy \in RowState /\ copy.status = "SUCCESS" /\ copy.build = Copy(s).build
  BY CopyIs DEF RowState, RowEnded
<1>2. Copy(s).build \in Built(At(s))
  BY CopyIs
<1>3. At(s) \in Heard
  BY <1>2, CopyIs DEF Heard, Built
<1>4. QED
  BY <1>1, <1>2, <1>3, CopyIs, SaveGood

LEMMA ClaimGood ==
  ASSUME NEW s \in Driver, TypeInv, PromiseInv
  PROVE  LET new == Mirrored([View(s) EXCEPT !.row[At(s)].status = "PROMOTING"], "PROMOTING") IN
         /\ Good(s, new)
         /\ new.row = [View(s).row EXCEPT ![At(s)].status = "PROMOTING"]
         /\ new.bundle = "PROMOTING"
<1> DEFINE x == [View(s) EXCEPT !.row[At(s)].status = "PROMOTING"]
<1>1. At(s) \in Step /\ View(s) \in TablesState /\ Good(s, View(s))
  BY AtType, ViewType, ViewGood DEF TypeInv
<1>2. View(s).row \in [Step -> RowState] /\ View(s).row \in TrueRows
  BY <1>1 DEF Good, TablesState
<1>3. /\ x.bundle = View(s).bundle
      /\ x.row = [View(s).row EXCEPT ![At(s)].status = "PROMOTING"]
  BY <1>1 DEF TablesState
<1>4. /\ x.row \in [Step -> RowState]
      /\ x.row[At(s)].status = "PROMOTING" /\ x.row[At(s)].build = View(s).row[At(s)].build
      /\ \A d \in Step : d # At(s) => x.row[d] = View(s).row[d]
  BY <1>1, <1>2, <1>3 DEF RowState, InFlight
<1>5. x \in TablesState
  BY <1>1, <1>3, <1>4 DEF TablesState
<1>6. x.row \in TrueRows
  BY <1>2, <1>4 DEF TrueRows
<1>7. Good(s, x)
  BY <1>1, <1>3, <1>4, <1>5, <1>6 DEF Good
<1> HIDE DEF x
<1>8. QED
  BY <1>3, <1>5, <1>7, MirrorGood, MirroredIs, OnItsWay DEF BundleState, InFlight, x

LEMMA AnswerGood ==
  ASSUME NEW s \in Driver, TypeInv, PromiseInv
  PROVE  /\ Good(s, Saved(s, At(s), FailedRow(FreshRow)))
         /\ Good(s, Saved(s, At(s), [FreshRow EXCEPT !.status = "PROMOTING"]))
<1>1. At(s) \in Step
  BY AtType DEF TypeInv
<1>2. /\ FailedRow(FreshRow) \in RowState /\ FailedRow(FreshRow).status = "FAILED"
      /\ FailedRow(FreshRow).build = NoBuild
  BY FreshType, FailedRowIs DEF FreshRow
<1>3. /\ [FreshRow EXCEPT !.status = "PROMOTING"] \in RowState
      /\ [FreshRow EXCEPT !.status = "PROMOTING"].status = "PROMOTING"
      /\ [FreshRow EXCEPT !.status = "PROMOTING"].build = NoBuild
  BY DEF FreshRow, RowState, InFlight, NoBuild
<1>4. QED
  BY <1>1, <1>2, <1>3, SaveGood

\* _fail_bundle, with steps that were read when it was true of them.
LEMMA FailGood ==
  ASSUME NEW s \in Driver, TypeInv, PromiseInv, driver[s].pc = "fail"
  PROVE  /\ Good(s, FailedBundle(s))
         /\ FailedBundle(s).bundle \in {"FAILED", "PARTIAL_FAILURE"}
         /\ \A d \in Step :
              FailedBundle(s).row[d] = IF driver[s].seen[d].status = "WAITING"
                                       THEN Stopped(driver[s].seen[d]) ELSE View(s).row[d]
<1> DEFINE seen == driver[s].seen
           new == FailedBundle(s)
           succeeded == \E d \in Step : seen[d].status = "SUCCESS"
<1>1. seen \in TrueRows
  BY DEF PromiseInv, PassTrue
<1>2. View(s).row \in TrueRows /\ View(s).row \in [Step -> RowState]
  BY ViewGood DEF Good, TrueRows
<1>3. \A d \in Step : seen[d] \in RowState
  BY <1>1 DEF TrueRows
<1>4. \A d \in Step : /\ Stopped(seen[d]) \in RowState /\ Stopped(seen[d]).status = "CANCELLED"
                      /\ Stopped(seen[d]).build = seen[d].build
  BY <1>3 DEF Stopped, RowState, RowEnded
<1>5. /\ new.row = [d \in Step |-> IF seen[d].status = "WAITING"
                                   THEN Stopped(seen[d]) ELSE View(s).row[d]]
      /\ new.bundle = IF succeeded THEN "PARTIAL_FAILURE" ELSE "FAILED"
      /\ new = [row |-> new.row, bundle |-> new.bundle]
  BY DEF FailedBundle
<1>6. new.row \in TrueRows
  BY <1>1, <1>2, <1>4, <1>5 DEF TrueRows
<1>7. new.bundle \in TrueBundles
  <2>1. CASE succeeded
    <3>1. Heard # {}
      BY <1>1, <2>1 DEF TrueRows
    <3>2. QED
      BY <1>5, <2>1, <3>1 DEF TrueBundles, BundleState, BundleEnded
  <2>2. CASE ~succeeded
    BY <1>5, <2>2 DEF TrueBundles, BundleState, BundleEnded
  <2>3. QED
    BY <2>1, <2>2
<1>8. new \in TablesState
  BY <1>5, <1>6, <1>7 DEF TrueRows, TrueBundles, TablesState
<1>9. \A d \in Step : new.row[d].status = "WAITING" => View(s).row[d].status = "WAITING"
  BY <1>4, <1>5
<1>10. Good(s, new)
  BY <1>6, <1>7, <1>8, <1>9 DEF Good
<1>11. QED
  BY <1>5, <1>10

LEMMA FinishGood ==
  ASSUME NEW s \in Driver, TypeInv, PromiseInv, driver[s].pc = "finish"
  PROVE  Good(s, Mirrored(View(s), "SUCCESS"))
<1>1. "SUCCESS" \in TrueBundles
  BY DEF PromiseInv, PassTrue, TrueBundles, BundleState, BundleEnded
<1>2. QED
  BY <1>1, ViewGood, MirrorGood

----------------------------------------------------------------------------
(* Types and promises are kept                                             *)

LEMMA TypeKept ==
  ASSUME NEW s \in Driver, TypeInv, Moves(s), Tables', DriverOK(s)',
         holder' \subseteq holder \cup {s},
         promotion' \in Seq(PromotionState), drops' \in 0..MaxDrops
  PROVE  TypeInv'
<1>1. ASSUME NEW t \in Driver, t # s PROVE DriverOK(t)'
  BY <1>1 DEF Moves, TypeInv, DriverOK
<1>2. QED
  BY <1>1 DEF Moves, TypeInv

\* What a step that sends nothing leaves true of the others.
LEMMA OthersTrue ==
  ASSUME NEW s \in Driver, PromiseInv, Moves(s), promotion' = promotion,
         NEW t \in Driver, t # s,
         \A d \in Step : SendsNow(s, d)' => ~SendsNow(t, d)
  PROVE  PassTrue(t)'
<1>1. driver'[t] = driver[t] /\ PassTrue(t)
  BY DEF Moves, PromiseInv
<1>2. At(t)' = At(t) /\ \A d \in Step : SendsNow(t, d)' <=> SendsNow(t, d)
  BY <1>1 DEF At, SendsNow
<1>3. \A u \in Driver, d \in Step : u # s => (SendsNow(u, d)' <=> SendsNow(u, d))
  BY DEF Moves, At, SendsNow
<1>4. ASSUME NEW d \in Step, SendsNow(t, d)'
      PROVE  Sends(d)' = {} /\ \A u \in Driver : SendsNow(u, d)' => u = t
  BY <1>1, <1>2, <1>3, <1>4, SamePromotion DEF PassTrue
<1>5. QED
  BY <1>1, <1>2, <1>4, SamePromotion DEF PassTrue

\* A step that only reads.
LEMMA ReadKept ==
  ASSUME NEW s \in Driver, TypeInv, PromiseInv, Moves(s),
         UNCHANGED <<tables, promotion, drops>>,
         driver'[s].pc \notin {"send", "answer"},
         driver'[s].pc = "idle" => s \notin holder,
         driver'[s].pc = "claim" => \A i \in 1..driver'[s].at - 1 : Order[i] \in Heard,
         driver'[s].pc = "finish" => Step \subseteq Heard,
         driver'[s].pc \in {"look", "fail"} => driver'[s].seen \in TrueRows,
         driver'[s].pc = "look" => driver'[s].seen[Order[driver'[s].at]].status \in InFlight
  PROVE  TypeInv' /\ PromiseInv'
<1>1. Tables' /\ holder' = holder
  BY KeptTables DEF TypeInv, tables
<1>2. DriverOK(s)'
  BY <1>1 DEF DriverOK, TrueRows
<1>3. TypeInv'
  BY <1>1, <1>2, TypeKept DEF TypeInv
<1>4. \A d \in Step : ~SendsNow(s, d)'
  BY DEF SendsNow
<1>5. PassTrue(s)'
  BY <1>4, SamePromotion DEF PassTrue, At
<1>6. ASSUME NEW t \in Driver PROVE PassTrue(t)'
  BY <1>4, <1>5, OthersTrue
<1>7. Queued'
  <2>1. \A t \in Driver, d \in Step : SendsNow(t, d)' => SendsNow(t, d)
    BY <1>4 DEF Moves, At, SendsNow
  <2>2. QED
    BY <2>1, SamePromotion DEF PromiseInv, Queued, tables
<1>8. QED
  BY <1>3, <1>6, <1>7, SamePromotion DEF PromiseInv, tables

\* A step that writes, or commits, what is good.
LEMMA WriteKept ==
  ASSUME NEW s \in Driver, TypeInv, PromiseInv, Moves(s), NEW new, Good(s, new),
         Flushed(s, new) \/ CommittedAs(s, new),
         promotion' = promotion, drops' = drops,
         driver'[s].pc \in {"send", "answer", "idle"} => CommittedAs(s, new),
         driver'[s].pc \notin {"claim", "look", "fail", "finish"},
         driver'[s].pc = "send" =>
           /\ \A i \in 1..driver'[s].at - 1 : Order[i] \in Heard
           /\ View(s).row[Order[driver'[s].at]].status = "WAITING"
           /\ new.row[Order[driver'[s].at]].status # "WAITING"
  PROVE  TypeInv' /\ PromiseInv'
<1>1. new \in TablesState
  BY DEF Good
<1>2. /\ Tables' /\ pending' = new /\ holder' \subseteq holder \cup {s}
      /\ stored' = stored \/ stored' = new
      /\ CommittedAs(s, new) => holder' = {} /\ stored' = new
  BY <1>1, FlushedTables, CommittedTables DEF TypeInv, Flushed, CommittedAs
<1>3. DriverOK(s)'
  BY <1>2 DEF DriverOK
<1>4. TypeInv'
  BY <1>2, <1>3, TypeKept DEF TypeInv
<1>5. \A d \in Step : SendsNow(s, d)' =>
        /\ d = Order[driver'[s].at] /\ driver'[s].pc = "send"
        /\ stored.row[d].status = "WAITING" /\ new.row[d].status # "WAITING"
        /\ stored' = new
  BY <1>2, ViewGood DEF SendsNow, At
<1>6. ASSUME NEW d \in Step, SendsNow(s, d)'
      PROVE  Sends(d) = {} /\ \A t \in Driver : ~SendsNow(t, d)
  BY <1>5, <1>6 DEF PromiseInv, Queued
<1>7. \A t \in Driver, d \in Step : t # s => (SendsNow(t, d)' <=> SendsNow(t, d))
  BY DEF Moves, At, SendsNow
<1>8. PassTrue(s)'
  <2>1. \A d \in Step : SendsNow(s, d)' =>
          Sends(d)' = {} /\ \A t \in Driver : SendsNow(t, d)' => t = s
    BY <1>6, <1>7, SamePromotion
  <2>2. QED
    BY <2>1, SamePromotion DEF PassTrue
<1>9. ASSUME NEW t \in Driver PROVE PassTrue(t)'
  BY <1>6, <1>8, OthersTrue
<1>10. Queued'
  <2>1. ASSUME NEW d \in Step, stored'.row[d].status = "WAITING"
        PROVE  /\ stored.row[d].status = "WAITING" /\ ~SendsNow(s, d)'
               /\ stored' = new => new.row[d].status = "WAITING"
    <3>1. stored.row[d].status = "WAITING"
      BY <1>2, <2>1, ViewGood DEF Good
    <3>2. QED
      BY <1>5, <2>1, <3>1
  <2>2. ASSUME NEW d \in Step, stored'.row[d].status = "WAITING"
        PROVE  Sends(d)' = {} /\ \A t \in Driver : ~SendsNow(t, d)'
    <3>1. Sends(d) = {} /\ \A t \in Driver : ~SendsNow(t, d)
      BY <2>1, <2>2 DEF PromiseInv, Queued
    <3>2. QED
      BY <1>7, <2>1, <2>2, <3>1, SamePromotion
  <2>3. \A d \in Step : pending'.row[d].status = "WAITING" => stored'.row[d].status = "WAITING"
    BY <1>2, ViewGood DEF Good
  <2>4. \A p, q \in 1..Len(promotion') : promotion'[p].dep = promotion'[q].dep => p = q
    BY DEF PromiseInv, Queued
  <2>5. QED
    BY <2>2, <2>3, <2>4 DEF Queued
<1>11. QED
  BY <1>2, <1>4, <1>9, <1>10, SamePromotion DEF PromiseInv, Good

LEMMA DecideKept ==
  ASSUME NEW s \in Driver, TypeInv, PromiseInv, BeginPass(s) \/ Decide(s) \/ After(s)
  PROVE  TypeInv' /\ PromiseInv'
<1>1. View(s).row \in TrueRows
  BY ViewGood DEF Good
<1>2. \A d \in Step : View(s).row[d].status = "SUCCESS" => d \in Heard
  BY <1>1 DEF TrueRows
<1>3. CASE BeginPass(s)
  <2>1. Moves(s) /\ UNCHANGED <<tables, promotion, drops>> /\ driver'[s].pc = "decide"
    BY <1>3, BeginIs, SMTT(60) DEF TypeInv
  <2>2. QED
    BY <2>1, ReadKept
<1>4. CASE Decide(s)
  <2>1. /\ Moves(s) /\ UNCHANGED <<tables, promotion, drops>>
        /\ driver'[s].at \in 1..Len(Order)
    BY <1>4, DecideIs DEF TypeInv, Moves, DriverState
  <2>2. CASE /\ driver'[s] = [AtRest EXCEPT !.pc = "finish"]
             /\ \A d \in Step : View(s).row[d].status = "SUCCESS"
    <3>1. driver'[s].pc = "finish"
      BY <2>2, AtRestType, SMTT(60) DEF DriverState
    <3>2. QED
      BY <1>2, <2>1, <2>2, <3>1, ReadKept
  <2>3. CASE /\ \A i \in 1..driver'[s].at - 1 : View(s).row[Order[i]].status = "SUCCESS"
             /\ \/ /\ driver'[s].pc = "look" /\ driver'[s].seen = View(s).row
                   /\ View(s).row[Order[driver'[s].at]].status \in InFlight
                \/ /\ driver'[s].pc = "fail" /\ driver'[s].seen = View(s).row
                   /\ View(s).row[Order[driver'[s].at]].status = "FAILED"
                \/ /\ driver'[s].pc = "claim"
                   /\ View(s).row[Order[driver'[s].at]].status = "WAITING"
                \/ driver'[s].pc = "commit"
    <3>1. ASSUME NEW i \in 1..driver'[s].at - 1 PROVE Order[i] \in Heard
      <4>1. i \in 1..Len(Order)
        BY <2>1, OrderFacts, SMTT(60)
      <4>2. QED
        BY <1>2, <2>3, <4>1, OrderFacts
    <3>2. QED
      BY <1>1, <2>1, <2>3, <3>1, ReadKept
  <2>4. QED
    BY <1>4, <2>2, <2>3, DecideIs DEF TypeInv
<1>5. CASE After(s)
  <2>1. /\ Moves(s) /\ UNCHANGED <<tables, promotion, drops>>
        /\ \/ driver'[s].pc = "fail" /\ driver'[s].seen = View(s).row
           \/ driver'[s].pc \in {"decide", "commit"}
    BY <1>5, AfterIs DEF TypeInv
  <2>2. QED
    BY <1>1, <2>1, ReadKept
<1>6. QED
  BY <1>3, <1>4, <1>5

LEMMA ClaimKept ==
  ASSUME NEW s \in Driver, TypeInv, PromiseInv, ClaimStep(s) \/ MissClaim(s)
  PROVE  TypeInv' /\ PromiseInv'
<1>1. CASE ClaimStep(s)
  <2> DEFINE new == Mirrored([View(s) EXCEPT !.row[At(s)].status = "PROMOTING"], "PROMOTING")
  <2>1. /\ CommittedAs(s, new) /\ promotion' = promotion /\ drops' = drops
        /\ Goto(s, "send") /\ driver[s].pc = "claim"
        /\ View(s).row[At(s)].status = "WAITING"
    BY <1>1 DEF ClaimStep
  <2>2. Good(s, new) /\ new.row = [View(s).row EXCEPT ![At(s)].status = "PROMOTING"]
    BY ClaimGood
  <2>3. Moves(s) /\ driver'[s].pc = "send" /\ driver'[s].at = driver[s].at
    BY <2>1, GotoIs DEF Pc, TypeInv
  <2>4. At(s) \in Step /\ View(s).row \in [Step -> RowState]
    BY AtType, ViewType DEF TypeInv
  <2>5. new.row[At(s)].status = "PROMOTING"
    BY <2>2, <2>4 DEF RowState
  <2>6. \A i \in 1..driver[s].at - 1 : Order[i] \in Heard
    BY <2>1 DEF PromiseInv, PassTrue
  <2> HIDE DEF new
  <2>7. QED
    BY <2>1, <2>2, <2>3, <2>5, <2>6, WriteKept DEF At
<1>2. CASE MissClaim(s)
  <2>1. /\ Flushed(s, View(s)) /\ promotion' = promotion /\ drops' = drops /\ Goto(s, "after")
    BY <1>2 DEF MissClaim
  <2>2. Moves(s) /\ driver'[s].pc = "after"
    BY <2>1, GotoIs DEF Pc, TypeInv
  <2>3. QED
    BY <2>1, <2>2, ViewGood, WriteKept
<1>3. QED
  BY <1>1, <1>2, SMTT(60)

LEMMA AnswerKept ==
  ASSUME NEW s \in Driver, TypeInv, PromiseInv,
         PromotionCreated(s) \/ PromotionRefused(s) \/ PromotionUnconfirmed(s)
  PROVE  TypeInv' /\ PromiseInv'
<1>1. PICK new : CommittedAs(s, new) /\ Good(s, new)
  <2>1. CASE PromotionCreated(s)
    BY <2>1, RecordedGood DEF PromotionCreated
  <2>2. CASE PromotionRefused(s)
    BY <2>2, AnswerGood DEF PromotionRefused
  <2>3. CASE PromotionUnconfirmed(s)
    BY <2>3, AnswerGood DEF PromotionUnconfirmed
  <2>4. QED
    BY <2>1, <2>2, <2>3
<1>2. Goto(s, "after") /\ promotion' = promotion /\ drops' = drops
  BY DEF PromotionCreated, PromotionRefused, PromotionUnconfirmed
<1>3. Moves(s) /\ driver'[s].pc = "after"
  BY <1>2, GotoIs, SMTT(60) DEF Pc, TypeInv
<1>4. QED
  BY <1>1, <1>2, <1>3, WriteKept

LEMMA LookKept ==
  ASSUME NEW s \in Driver, TypeInv, PromiseInv,
         TimeOut(s) \/ Reconcile(s) \/ PollEnds(s) \/ PollLearnsNothing(s)
  PROVE  TypeInv' /\ PromiseInv'
<1>0. driver[s].pc = "look"
  BY DEF TimeOut, Reconcile, PollEnds, PollLearnsNothing, Refreshed
<1>1. PICK new : Refreshed(s, new) /\ Good(s, new)
  <2>1. CASE TimeOut(s)
    BY <1>0, <2>1, FailedGood DEF TimeOut
  <2>2. CASE Reconcile(s)
    BY <2>2, RecordedGood DEF Reconcile
  <2>3. CASE PollEnds(s)
    BY <1>0, <2>3, FailedGood, SuccessGood DEF PollEnds
  <2>4. CASE PollLearnsNothing(s)
    BY <1>0, <2>4, CopyGood DEF PollLearnsNothing
  <2>5. QED
    BY <2>1, <2>2, <2>3, <2>4
<1>2. Moves(s) /\ driver'[s].pc = "after"
  BY <1>1, RefreshedIs DEF TypeInv
<1>3. QED
  BY <1>1, <1>2, WriteKept DEF Refreshed

LEMMA EndKept ==
  ASSUME NEW s \in Driver, TypeInv, PromiseInv,
         FailBundle(s) \/ FinishBundle(s) \/ CommitPass(s)
  PROVE  TypeInv' /\ PromiseInv'
<1>1. CASE FailBundle(s)
  <2>1. /\ driver[s].pc = "fail" /\ Flushed(s, FailedBundle(s))
        /\ driver' = [driver EXCEPT ![s] = [AtRest EXCEPT !.pc = "commit"]]
        /\ promotion' = promotion /\ drops' = drops
    BY <1>1 DEF FailBundle
  <2>2. [AtRest EXCEPT !.pc = "commit"] \in DriverState
    BY AtRestType DEF DriverState, Pc
  <2>3. Moves(s) /\ driver'[s].pc = "commit"
    BY <2>1, <2>2, AtRestType, MovesIs DEF TypeInv, DriverState
  <2>4. QED
    BY <2>1, <2>3, FailGood, WriteKept
<1>2. CASE FinishBundle(s)
  <2>1. /\ driver[s].pc = "finish" /\ Flushed(s, Mirrored(View(s), "SUCCESS"))
        /\ Goto(s, "commit") /\ promotion' = promotion /\ drops' = drops
    BY <1>2 DEF FinishBundle
  <2>2. Moves(s) /\ driver'[s].pc = "commit"
    BY <2>1, GotoIs DEF Pc, TypeInv
  <2>3. QED
    BY <2>1, <2>2, FinishGood, WriteKept
<1>3. CASE CommitPass(s)
  <2>1. Rested(s) /\ promotion' = promotion /\ drops' = drops
    BY <1>3 DEF CommitPass
  <2>2. Moves(s) /\ driver'[s].pc = "idle"
    BY <2>1, RestedIs, AtRestType DEF TypeInv
  <2>3. CASE holder = {s}
    <3>1. CommittedAs(s, pending) /\ View(s) = pending
      BY <1>3, <2>3 DEF CommitPass, View
    <3>2. Good(s, pending)
      BY <3>1, ViewGood
    <3>3. QED
      BY <2>1, <2>2, <3>1, <3>2, WriteKept
  <2>4. CASE holder # {s}
    <3>1. UNCHANGED tables
      BY <1>3, <2>4 DEF CommitPass
    <3>2. s \notin holder
      BY <2>4 DEF TypeInv, Tables
    <3>3. QED
      BY <2>1, <2>2, <3>1, <3>2, ReadKept
  <2>5. QED
    BY <2>3, <2>4
<1>4. QED
  BY <1>1, <1>2, <1>3

\* A row that was just claimed is sent, to nobody's surprise.
LEMMA SendKept ==
  ASSUME NEW s \in Driver, TypeInv, PromiseInv, SendStep(s)
  PROVE  TypeInv' /\ PromiseInv' /\ Heard' = Heard
<1> DEFINE sent == [dep |-> At(s), state |-> "sent"]
           n == Len(promotion)
<1>1. /\ driver[s].pc = "send" /\ promotion' = Append(promotion, sent)
      /\ Goto(s, "answer") /\ UNCHANGED <<tables, drops>>
  BY DEF SendStep
<1>2. /\ Moves(s) /\ driver'[s].pc = "answer" /\ driver'[s].at = driver[s].at
      /\ At(s) \in Step
  BY <1>1, GotoIs, AtType DEF Pc, TypeInv
<1>3. Tables' /\ holder' = holder /\ stored' = stored /\ pending' = pending
  BY <1>1, KeptTables DEF TypeInv, tables
<1>4. DriverOK(s)'
  BY <1>1, <1>2, <1>3 DEF DriverOK, TypeInv
<1>5. sent \in PromotionState /\ promotion \in Seq(PromotionState) /\ n \in Nat
  BY <1>2, SentType DEF PromotionState, TypeInv
<1>6. /\ promotion' \in Seq(PromotionState) /\ Len(promotion') = n + 1
      /\ \A p \in 1..n : promotion'[p] = promotion[p]
      /\ promotion'[n + 1] = sent
  <2> HIDE DEF sent
  <2>1. QED
    BY <1>1, <1>5
<1>7. TypeInv'
  BY <1>1, <1>2, <1>3, <1>4, <1>6, TypeKept DEF TypeInv
<1>8. HeardMore
  BY <1>5, <1>6 DEF HeardMore
<1>9. Heard \subseteq Heard' /\ TrueRows \subseteq TrueRows' /\ TrueBundles \subseteq TrueBundles'
  BY <1>5, <1>6, <1>8, HeardGrows
<1>10. \A d \in Step : Sends(d)' = Sends(d) \cup (IF d = At(s) THEN {n + 1} ELSE {})
  BY <1>5, <1>6 DEF Sends
<1>11. SendsNow(s, At(s)) /\ Sends(At(s)) = {}
  BY <1>1, <1>2 DEF SendsNow, PromiseInv, PassTrue
<1>12. \A t \in Driver, d \in Step :
         SendsNow(t, d)' => SendsNow(t, d) /\ t # s /\ d # At(s)
  <2>1. ASSUME NEW t \in Driver, NEW d \in Step, SendsNow(t, d)' PROVE SendsNow(t, d) /\ t # s
    BY <1>2, <2>1 DEF Moves, SendsNow, At
  <2>2. ASSUME NEW t \in Driver, t # s PROVE ~SendsNow(t, At(s))
    BY <1>2, <1>11, <2>2 DEF PromiseInv, PassTrue
  <2>3. QED
    BY <2>1, <2>2
<1>13. Heard' = Heard
  <2> SUFFICES ASSUME NEW d \in Step, NEW p \in Sends(d)', promotion'[p].state = "success"
               PROVE  d \in Heard
    BY <1>9 DEF Heard
  <2>1. p # n + 1
    BY <1>6
  <2>2. p \in Sends(d) /\ p \in 1..n
    BY <1>10, <2>1 DEF Sends
  <2>3. QED
    BY <1>6, <2>2 DEF Heard
<1>14. ASSUME NEW t \in Driver PROVE PassTrue(t)'
  <2>1. CASE t = s
    BY <1>2, <1>12, <2>1 DEF PassTrue, SendsNow
  <2>2. CASE t # s
    <3>1. driver'[t] = driver[t] /\ PassTrue(t)
      BY <1>2, <2>2 DEF Moves, PromiseInv
    <3>2. ASSUME NEW d \in Step, SendsNow(t, d)'
          PROVE  Sends(d)' = {} /\ \A u \in Driver : SendsNow(u, d)' => u = t
      BY <1>10, <1>12, <3>1, <3>2 DEF PassTrue
    <3>3. QED
      BY <1>9, <1>13, <3>1, <3>2 DEF PassTrue, At
  <2>3. QED
    BY <2>1, <2>2
<1>15. Queued'
  <2>1. ASSUME NEW d \in Step, stored'.row[d].status = "WAITING"
        PROVE  Sends(d)' = {} /\ \A t \in Driver : ~SendsNow(t, d)'
    <3>1. Sends(d) = {} /\ \A t \in Driver : ~SendsNow(t, d)
      BY <1>3, <2>1 DEF PromiseInv, Queued
    <3>2. QED
      BY <1>10, <1>11, <1>12, <3>1
  <2>2. ASSUME NEW p \in 1..n, promotion[p].dep = At(s) PROVE FALSE
    BY <1>11, <2>2 DEF Sends
  <2>3. \A p, q \in 1..Len(promotion') : promotion'[p].dep = promotion'[q].dep => p = q
    <3> SUFFICES ASSUME NEW p \in 1..n + 1, NEW q \in 1..n + 1,
                        promotion'[p].dep = promotion'[q].dep
                 PROVE  p = q
      BY <1>6
    <3>1. CASE p \in 1..n /\ q \in 1..n
      BY <1>6, <3>1 DEF PromiseInv, Queued
    <3>2. CASE p = n + 1 /\ q \in 1..n
      BY <1>6, <2>2, <3>2
    <3>3. CASE q = n + 1 /\ p \in 1..n
      BY <1>6, <2>2, <3>3
    <3>4. QED
      BY <1>5, <3>1, <3>2, <3>3
  <2>4. QED
    BY <1>3, <2>1, <2>3 DEF PromiseInv, Queued
<1>16. QED
  BY <1>3, <1>7, <1>9, <1>13, <1>14, <1>15 DEF PromiseInv

\* What was not committed is rolled back to what was.
LEMMA DropKept ==
  ASSUME NEW s \in Driver, TypeInv, PromiseInv, DropPass(s)
  PROVE  TypeInv' /\ PromiseInv'
<1>1. /\ Rested(s) /\ drops < MaxDrops /\ drops' = drops + 1
      /\ holder' = holder \ {s}
      /\ pending' = IF holder = {s} THEN stored ELSE pending
      /\ UNCHANGED <<stored, promotion, reopened>>
  BY DEF DropPass
<1>2. Moves(s) /\ driver'[s].pc = "idle"
  BY <1>1, RestedIs, AtRestType DEF TypeInv
<1>3. holder \in {{}} \cup {{u} : u \in Driver} /\ (holder = {} => pending = stored)
  BY DEF TypeInv, Tables
<1>4. holder' \in {{}} \cup {{u} : u \in Driver} /\ (holder' = {} => pending' = stored')
  BY <1>1, <1>3
<1>5. Tables'
  BY <1>1, <1>4 DEF TypeInv, Tables
<1>6. DriverOK(s)'
  BY <1>1, <1>2 DEF DriverOK
<1>7. TypeInv'
  <2>1. drops' \in 0..MaxDrops
    BY <1>1, ChoreographyAssumption DEF TypeInv
  <2>2. QED
    BY <1>1, <1>2, <1>5, <1>6, <2>1, TypeKept DEF TypeInv
<1>8. \A d \in Step : ~SendsNow(s, d)'
  BY <1>2 DEF SendsNow
<1>9. PassTrue(s)'
  BY <1>2, <1>8 DEF PassTrue
<1>10. ASSUME NEW t \in Driver PROVE PassTrue(t)'
  BY <1>1, <1>2, <1>8, <1>9, OthersTrue
<1>11. Queued'
  <2>1. \A t \in Driver, d \in Step : SendsNow(t, d)' => SendsNow(t, d)
    BY <1>2, <1>8 DEF Moves, At, SendsNow
  <2>2. QED
    BY <1>1, <2>1, SamePromotion DEF PromiseInv, Queued
<1>12. QED
  BY <1>1, <1>7, <1>10, <1>11, SamePromotion DEF PromiseInv

\* Drone takes a promotion, or its build ends.
LEMMA DroneKept ==
  ASSUME TypeInv, PromiseInv, NEW p \in 1..Len(promotion), DroneTakes(p) \/ DroneEnds(p)
  PROVE  /\ TypeInv' /\ PromiseInv' /\ UNCHANGED <<tables, driver, drops>>
         /\ Len(promotion') = Len(promotion)
         /\ \A q \in 1..Len(promotion) : promotion'[q].dep = promotion[q].dep
         /\ Heard \subseteq Heard'
<1>1. PICK state \in {"running", "refused", "success", "failure"} :
        /\ promotion' = [promotion EXCEPT ![p].state = state]
        /\ UNCHANGED <<tables, driver, drops>>
        /\ promotion[p].state = "sent" \/ (promotion[p].state = "running"
                                           /\ state \in {"success", "failure"})
  <2>1. CASE DroneTakes(p)
    BY <2>1 DEF DroneTakes, Told
  <2>2. CASE DroneEnds(p)
    BY <2>2 DEF DroneEnds, Told
  <2>3. QED
    BY <2>1, <2>2
<1>2. /\ promotion \in Seq(PromotionState) /\ Len(promotion) \in Nat
      /\ promotion[p] \in PromotionState
  BY SentType DEF TypeInv
<1> DEFINE told == [promotion[p] EXCEPT !.state = state]
<1>3. told \in PromotionState /\ told.state = state /\ told.dep = promotion[p].dep
  BY <1>2 DEF PromotionState
<1>4. promotion' = [promotion EXCEPT ![p] = told]
  BY <1>1
<1>5. /\ promotion' \in Seq(PromotionState) /\ Len(promotion') = Len(promotion)
      /\ \A q \in 1..Len(promotion) : promotion'[q] = IF q = p THEN told ELSE promotion[q]
  <2> HIDE DEF told
  <2>1. QED
    BY <1>2, <1>3, <1>4, ExceptSeq
<1>6. \A q \in 1..Len(promotion) : promotion'[q].dep = promotion[q].dep
  BY <1>3, <1>5
<1>7. HeardMore
  <2> HIDE DEF told
  <2>1. QED
    BY <1>1, <1>2, <1>3, <1>5, <1>6 DEF HeardMore
<1>8. Heard \subseteq Heard' /\ TrueRows \subseteq TrueRows' /\ TrueBundles \subseteq TrueBundles'
  BY <1>2, <1>5, <1>7, HeardGrows
<1>9. Tables' /\ stored' = stored /\ pending' = pending /\ holder' = holder
  BY <1>1, KeptTables DEF TypeInv, tables
<1>10. TypeInv'
  BY <1>1, <1>5, <1>9 DEF TypeInv, DriverOK
<1>11. \A d \in Step : Sends(d)' = Sends(d)
  BY <1>5, <1>6 DEF Sends
<1>12. \A t \in Driver, d \in Step : SendsNow(t, d)' <=> SendsNow(t, d)
  BY <1>1 DEF SendsNow, At
<1>13. ASSUME NEW t \in Driver PROVE PassTrue(t)'
  <2>1. PassTrue(t)
    BY DEF PromiseInv
  <2>2. driver' = driver /\ At(t)' = At(t)
    BY <1>1 DEF At
  <2>3. QED
    BY <1>8, <1>11, <1>12, <2>1, <2>2 DEF PassTrue
<1>14. Queued'
  BY <1>5, <1>6, <1>9, <1>11, <1>12 DEF PromiseInv, Queued
<1>15. QED
  BY <1>1, <1>5, <1>6, <1>8, <1>9, <1>10, <1>13, <1>14 DEF PromiseInv

LEMMA InitTrue == ChoreographyInit => TypeInv /\ PromiseInv
<1> SUFFICES ASSUME ChoreographyInit PROVE TypeInv /\ PromiseInv
  OBVIOUS
<1>1. /\ stored = [row |-> [d \in Step |-> FreshRow], bundle |-> "WAITING"]
      /\ pending = stored /\ holder = {} /\ driver = [s \in Driver |-> AtRest]
      /\ promotion = <<>> /\ reopened = FALSE /\ drops = 0
  BY DEF ChoreographyInit
<1>2. stored \in TablesState
  BY <1>1, FreshType DEF TablesState, BundleState
<1>3. TypeInv
  <2>1. driver \in [Driver -> DriverState] /\ \A s \in Driver : DriverOK(s)
    BY <1>1, AtRestType DEF DriverOK
  <2>2. promotion \in Seq(PromotionState) /\ drops \in 0..MaxDrops
    BY <1>1, ChoreographyAssumption
  <2>3. QED
    BY <1>1, <1>2, <2>1, <2>2 DEF TypeInv, Tables
<1>4. Len(promotion) = 0 /\ \A d \in Step : Sends(d) = {}
  BY <1>1 DEF Sends
<1>5. stored.row \in TrueRows /\ stored.bundle \in TrueBundles
  BY <1>1, FreshType DEF TrueRows, TrueBundles, BundleState, FreshRow
<1>6. \A s \in Driver : driver[s].pc = "idle"
  BY <1>1, AtRestType
<1>7. Queued
  BY <1>1, <1>4, <1>6 DEF Queued, SendsNow
<1>8. QED
  BY <1>1, <1>3, <1>5, <1>6, <1>7 DEF PromiseInv, PassTrue, SendsNow

LEMMA StepTrue ==
  ASSUME TypeInv, PromiseInv, [ChoreographyNext]_choreographyVars
  PROVE  TypeInv' /\ PromiseInv'
<1>1. CASE UNCHANGED choreographyVars
  <2>1. promotion' = promotion /\ driver' = driver /\ UNCHANGED tables /\ drops' = drops
    BY <1>1 DEF choreographyVars, tables
  <2>2. Tables' /\ holder' = holder /\ stored' = stored /\ pending' = pending
    BY <2>1, KeptTables DEF TypeInv, tables
  <2>3. TypeInv'
    BY <2>1, <2>2 DEF TypeInv, DriverOK
  <2>4. \A s \in Driver, d \in Step : At(s)' = At(s) /\ (SendsNow(s, d)' <=> SendsNow(s, d))
    BY <2>1 DEF At, SendsNow
  <2>5. ASSUME NEW s \in Driver PROVE PassTrue(s)'
    <3>1. PassTrue(s)
      BY DEF PromiseInv
    <3>2. ASSUME NEW d \in Step, SendsNow(s, d)'
          PROVE  Sends(d)' = {} /\ \A u \in Driver : SendsNow(u, d)' => u = s
      BY <2>1, <2>4, <3>1, <3>2, SamePromotion DEF PassTrue
    <3>3. Heard' = Heard /\ TrueRows' = TrueRows /\ driver' = driver
      BY <2>1, SamePromotion
    <3>4. QED
      BY <3>1, <3>2, <3>3 DEF PassTrue, At
  <2>6. QED
    BY <2>1, <2>2, <2>3, <2>4, <2>5, SamePromotion DEF PromiseInv, Queued
<1>2. CASE ChoreographyNext
  <2>1. ASSUME NEW s \in Driver, BeginPass(s) \/ PassStep(s) \/ DropPass(s)
        PROVE  TypeInv' /\ PromiseInv'
    BY <2>1, DecideKept, ClaimKept, SendKept, AnswerKept, LookKept, EndKept, DropKept
       DEF PassStep
  <2>2. ASSUME NEW p \in 1..Len(promotion), DroneTakes(p) \/ DroneEnds(p)
        PROVE  TypeInv' /\ PromiseInv'
    BY <2>2, DroneKept
  <2>3. QED
    BY <1>2, <2>1, <2>2 DEF ChoreographyNext
<1>3. QED
  BY <1>1, <1>2

LEMMA PromisesHold == ChoreographySpec => [](TypeInv /\ PromiseInv)
<1>1. (TypeInv /\ PromiseInv) /\ [ChoreographyNext]_choreographyVars
        => (TypeInv /\ PromiseInv)'
  BY StepTrue
<1>2. QED
  BY InitTrue, <1>1, PTL DEF ChoreographySpec

LEMMA TypesAreOK == TypeInv => ChoreographyTypeOK
<1> SUFFICES ASSUME TypeInv PROVE ChoreographyTypeOK
  OBVIOUS
<1>1. ASSUME NEW s \in Driver
      PROVE  /\ driver[s].pc \in Pc
             /\ driver[s].at \in 1..Len(Order) /\ driver[s].round \in 0..Len(Order) + 1
             /\ DriverOK(s)
  BY DEF TypeInv, DriverState
<1>2. \A p \in 1..Len(promotion) : promotion[p].dep \in Step
  BY SentType DEF TypeInv
<1>3. QED
  BY <1>1, <1>2 DEF TypeInv, Tables, DriverOK, Pc, ChoreographyTypeOK

\* Every variable keeps its type, and what nobody is writing is what is
\* committed: no pass leaves the write lock, or a half-written table, behind.
THEOREM ChoreographyTyped == ChoreographySpec => []ChoreographyTypeOK
BY PromisesHold, TypesAreOK, PTL

----------------------------------------------------------------------------
(* The ledger of promotions                                                *)

LEMMA RewriteLedgerInit == ChoreographyInit => Promises!Init
<1> SUFFICES ASSUME ChoreographyInit PROVE Promises!Init
  OBVIOUS
<1>1. promotion = <<>> /\ stored = [row |-> [d \in Step |-> FreshRow], bundle |-> "WAITING"]
  BY DEF ChoreographyInit
<1>2. Heard = {}
  BY <1>1 DEF Heard, Sends
<1>3. {d \in Step : stored.row[d].status = "SUCCESS"} = {}
  BY <1>1 DEF FreshRow
<1>4. Verdict = "open"
  BY <1>1 DEF Verdict
<1>5. [p \in 1..Len(promotion) |-> [dep |-> promotion[p].dep, attempt |-> 0]] = <<>>
  BY <1>1
<1>6. QED
  BY <1>2, <1>3, <1>4, <1>5 DEF Promises!Init

\* Whatever is written while nothing is sent and Drone says nothing is true.
LEMMA RewriteWrites ==
  ASSUME TypeInv', PromiseInv', promotion' = promotion
  PROVE  Promises!Write
<1>1. Heard' = Heard /\ TrueRows' = TrueRows /\ TrueBundles' = TrueBundles
  BY SamePromotion
<1>2. stored'.row \in TrueRows /\ stored'.bundle \in TrueBundles
  BY <1>1 DEF PromiseInv
<1>3. {d \in Step : stored'.row[d].status = "SUCCESS"} \in SUBSET Heard
  BY <1>2 DEF TrueRows
<1>4. Promises!Components("bundle") = Step
  BY ChoreographyAssumption DEF Promises!Components
<1>5. /\ Verdict' \in {"open", "released", "partly"}
      /\ Verdict' = "released" => stored'.bundle = "SUCCESS"
      /\ Verdict' = "partly" => stored'.bundle = "PARTIAL_FAILURE"
  BY DEF Verdict
<1>6. /\ stored'.bundle = "SUCCESS" => Step \subseteq Heard
      /\ stored'.bundle = "PARTIAL_FAILURE" => Heard # {}
  BY <1>2 DEF TrueBundles
<1>7. Heard \subseteq Step
  BY DEF Heard
<1>8. Promises!Truthful("bundle", Verdict')
  BY <1>4, <1>5, <1>6, <1>7 DEF Promises!Truthful
<1>9. {} \in SUBSET Step /\ [d \in Step |-> 0]
        = [d \in Step |-> IF d \in {} THEN [e \in Step |-> 0][d] + 1 ELSE [e \in Step |-> 0][d]]
  OBVIOUS
<1>10. [p \in 1..Len(promotion') |-> [dep |-> promotion'[p].dep, attempt |-> 0]]
         = [p \in 1..Len(promotion) |-> [dep |-> promotion[p].dep, attempt |-> 0]]
  OBVIOUS
<1>11. QED
  BY <1>1, <1>3, <1>5, <1>8, <1>9, <1>10 DEF Promises!Write

\* The claim, and the order of the components, make a request the ledger's.
LEMMA RewriteAsks ==
  ASSUME TypeInv, PromiseInv, NEW s \in Driver, SendStep(s)
  PROVE  \E d \in Step : Promises!Ask(d)
<1> DEFINE asked == [p \in 1..Len(promotion) |-> [dep |-> promotion[p].dep, attempt |-> 0]]
           ticket == [dep |-> At(s), attempt |-> 0]
<1>1. /\ driver[s].pc = "send" /\ stored' = stored /\ Heard' = Heard
      /\ promotion' = Append(promotion, [dep |-> At(s), state |-> "sent"])
  BY SendKept DEF SendStep, tables
<1>2. /\ At(s) \in Step /\ driver[s].at \in 1..Len(Order)
      /\ promotion \in Seq(PromotionState) /\ Len(promotion) \in Nat
  BY AtType, SentType DEF TypeInv
<1>3. Sends(At(s)) = {}
  BY <1>1, <1>2 DEF PromiseInv, PassTrue, SendsNow
<1>4. \A p \in DOMAIN asked : asked[p] # ticket
  BY <1>3 DEF Sends
<1>5. [p \in 1..Len(promotion') |-> [dep |-> promotion'[p].dep, attempt |-> 0]]
        = Append(asked, ticket)
  <2>1. /\ Len(promotion') = Len(promotion) + 1
        /\ \A p \in 1..Len(promotion) : promotion'[p].dep = promotion[p].dep
        /\ promotion'[Len(promotion) + 1].dep = At(s)
    <3>1. [dep |-> At(s), state |-> "sent"] \in PromotionState
      BY <1>2 DEF PromotionState
    <3>2. QED
      BY <1>1, <1>2, <3>1
  <2>2. /\ asked \in Seq([dep : Step, attempt : {0}]) /\ ticket \in [dep : Step, attempt : {0}]
        /\ Len(asked) = Len(promotion)
    BY <1>2, SentType
  <2>3. QED
    BY <1>2, <2>1, <2>2
<1>6. Promises!Before(At(s)) \subseteq Heard
  <2> SUFFICES ASSUME NEW i \in 1..Len(Order), NEW j \in 1..Len(Order),
                      i < j, At(s) = Order[j]
               PROVE  Order[i] \in Heard
    BY DEF Promises!Before
  <2>1. j = driver[s].at
    BY <1>2, OrderFacts DEF At
  <2>2. i \in 1..driver[s].at - 1
    BY <1>2, <2>1, OrderFacts, SMTT(60)
  <2>3. QED
    BY <1>1, <2>2 DEF PromiseInv, PassTrue
<1>7. Verdict' = Verdict
  BY <1>1 DEF Verdict
<1>8. PICK d \in Step : d = At(s)
  BY <1>2
<1>9. Promises!Before(d) \subseteq Heard
  BY <1>6, <1>8 DEF Promises!Before
<1>10. Promises!Ask(d)
  <2> HIDE DEF asked, ticket
  <2>1. \E k \in 0..[e \in Step |-> 0][d] :
          /\ \A p \in DOMAIN asked : asked[p] # [dep |-> d, attempt |-> k]
          /\ Append(asked, ticket) = Append(asked, [dep |-> d, attempt |-> k])
    BY <1>4, <1>8, SMTT(60) DEF ticket
  <2>2. QED
    BY <1>1, <1>5, <1>7, <1>9, <2>1 DEF Promises!Ask, asked
<1>11. QED
  BY <1>10

\* What Drone says is the ledger's acceptance.
LEMMA RewriteAccepts ==
  ASSUME TypeInv, PromiseInv, NEW p \in 1..Len(promotion), DroneTakes(p) \/ DroneEnds(p)
  PROVE  Promises!Accept
<1> DEFINE asked == [q \in 1..Len(promotion) |-> [dep |-> promotion[q].dep, attempt |-> 0]]
           Id == [d \in Step |-> d]
<1>1. /\ UNCHANGED <<tables, driver, drops>> /\ Len(promotion') = Len(promotion)
      /\ \A q \in 1..Len(promotion) : promotion'[q].dep = promotion[q].dep
      /\ Heard \subseteq Heard' /\ TypeInv'
  BY DroneKept
<1>2. Heard' \in SUBSET {d \in Step : \E q \in DOMAIN asked : Id[asked[q].dep] = Id[d]}
  <2> SUFFICES ASSUME NEW d \in Step, NEW q \in Sends(d)'
               PROVE  \E r \in DOMAIN asked : Id[asked[r].dep] = Id[d]
    BY DEF Heard
  <2>1. q \in 1..Len(promotion) /\ promotion[q].dep = d
    BY <1>1 DEF Sends
  <2>2. QED
    BY <2>1
<1>3. Heard' = Heard \cup Heard'
  BY <1>1
<1>4. [q \in 1..Len(promotion') |-> [dep |-> promotion'[q].dep, attempt |-> 0]] = asked
  BY <1>1
<1>5. Verdict' = Verdict /\ stored' = stored
  BY <1>1 DEF Verdict, tables
<1>6. QED
  <2> HIDE DEF asked, Id
  <2>1. \E slots \in SUBSET {d \in Step : \E q \in DOMAIN asked : Id[asked[q].dep] = Id[d]} :
          Heard' = Heard \cup slots
    BY <1>2, <1>3
  <2>2. QED
    BY <1>4, <1>5, <2>1 DEF Promises!Accept, asked, Id

LEMMA RewriteLedgerStep ==
  ASSUME TypeInv, PromiseInv, TypeInv', PromiseInv', [ChoreographyNext]_choreographyVars
  PROVE  Promises!Next
<1>1. CASE promotion' = promotion
  BY <1>1, RewriteWrites DEF Promises!Next
<1>2. ASSUME NEW s \in Driver, SendStep(s) PROVE Promises!Next
  BY <1>2, RewriteAsks DEF Promises!Next
<1>3. ASSUME NEW p \in 1..Len(promotion), DroneTakes(p) \/ DroneEnds(p) PROVE Promises!Next
  BY <1>3, RewriteAccepts DEF Promises!Next
<1>4. CASE UNCHANGED choreographyVars
  BY <1>1, <1>4 DEF choreographyVars
<1>5. ASSUME NEW s \in Driver, BeginPass(s) \/ PassStep(s) \/ DropPass(s), ~SendStep(s)
      PROVE  promotion' = promotion
  BY <1>5, ZenonT(60) DEF PassStep, BeginPass, Decide, ClaimStep, MissClaim, PromotionCreated,
              PromotionRefused, PromotionUnconfirmed, TimeOut, Reconcile, PollEnds,
              PollLearnsNothing, Refreshed, After, FailBundle, FinishBundle, CommitPass, DropPass
<1>6. QED
  BY <1>1, <1>2, <1>3, <1>4, <1>5 DEF ChoreographyNext

\* The rewrite keeps the ledger of promotions that the old process keeps, with
\* one attempt for each step: whatever the passes, the crashes and the late
\* answers, a step is asked of Drone once at most, after the steps before it,
\* and no row and no verdict claims a success that Drone did not have.
THEOREM RewriteImplementsLedger == ChoreographySpec => RewriteKeepsLedger
<1>1. TypeInv /\ PromiseInv /\ TypeInv' /\ PromiseInv' /\ [ChoreographyNext]_choreographyVars
        => [Promises!Next]_(Promises!ledger)
  BY RewriteLedgerStep
<1>2. QED
  BY RewriteLedgerInit, PromisesHold, <1>1, PTL
     DEF ChoreographySpec, RewriteKeepsLedger, Promises!Spec

\* What the ledger promises the rewrite therefore keeps: Drone is asked for a
\* step once, after those before it have succeeded, and what the tables say of
\* a success or a release is so.
THEOREM RewriteKeepsPromises ==
  ChoreographySpec =>
    [](Promises!AskedOnce /\ Promises!AskedInOrder /\ Promises!WrittenIsTrue)
BY RewriteImplementsLedger, Promises!LedgerPromises, PTL DEF RewriteKeepsLedger

----------------------------------------------------------------------------
(* The verdict is kept                                                     *)

Inv == TypeInv /\ PromiseInv /\ VerdictInv

\* What may be written while nobody has taken back a row: nothing out of turn,
\* and no verdict that does not fit the rows.
Sound(new) ==
  Keeps(stored.row, new.row) =>
    /\ InTurn(new.row)
    /\ new.bundle \in BundleEnded /\ stored.bundle \notin BundleEnded => Whole(new)

LEMMA OneHolds ==
  ASSUME NEW s \in Driver, Tables
  PROVE  /\ s \in holder => holder = {s} /\ View(s) = pending
         /\ s \notin holder => View(s) = stored
BY DEF Tables, View

LEMMA ViewSound ==
  ASSUME NEW s \in Driver, Inv, ~reopened
  PROVE  Sound(View(s))
<1>1. InTurn(stored.row) /\ PendingWhole
  BY DEF Inv, VerdictInv
<1>2. CASE s \in holder
  BY <1>1, <1>2, OneHolds DEF Inv, TypeInv, Sound, PendingWhole
<1>3. CASE s \notin holder
  BY <1>1, <1>3, OneHolds DEF Inv, TypeInv, Sound
<1>4. QED
  BY <1>2, <1>3

\* What is committed over a bundle that has ended is what it has ended with.
LEMMA EndStays ==
  ASSUME NEW new \in TablesState, stored \in TablesState, Whole(stored), InTurn(stored.row),
         stored.bundle \in BundleEnded, ~Reopens(stored, new)
  PROVE  /\ InTurn(new.row) /\ Whole(new) /\ new.bundle = stored.bundle
<1>1. new.bundle = stored.bundle /\ \A d \in Step : new.row[d].status = stored.row[d].status
  BY DEF Whole, Reopens
<1>2. QED
  BY <1>1, OrderFacts DEF Whole, InTurn

\* A step that only reads.
LEMMA ReadWhole ==
  ASSUME NEW s \in Driver, Inv, TypeInv', Moves(s), UNCHANGED tables,
         ~reopened => PassSees(s)', PassKnows(s)'
  PROVE  VerdictInv'
<1>1. /\ stored' = stored /\ pending' = pending /\ holder' = holder /\ reopened' = reopened
      /\ \A t \in Driver : View(t)' = View(t)
  BY KeptTables DEF Inv, TypeInv, tables
<1>2. ASSUME NEW t \in Driver, t # s
      PROVE  PassKnows(t)' /\ (~reopened => PassSees(t)')
  <2>1. driver'[t] = driver[t] /\ At(t)' = At(t) /\ View(t)' = View(t)
    BY <1>1, <1>2 DEF Moves, At
  <2>2. PassKnows(t) /\ (~reopened => PassSees(t))
    BY DEF Inv, VerdictInv
  <2>3. EndsNext(t)' /\ GoesOn(t)'
    BY <1>1, <2>1, <2>2 DEF PassKnows, EndsNext, GoesOn
  <2>4. PassKnows(t)'
    BY <1>1, <2>1, <2>2, <2>3 DEF PassKnows
  <2>5. ~reopened => PassSees(t)'
    BY <1>1, <2>1, <2>2 DEF PassSees
  <2>6. QED
    BY <2>4, <2>5
<1>3. PendingWhole' <=> PendingWhole
  BY <1>1 DEF PendingWhole
<1>4. QED
  BY <1>1, <1>2, <1>3 DEF Inv, VerdictInv

\* A step that writes, or commits, what is sound.
LEMMA WriteWhole ==
  ASSUME NEW s \in Driver, Inv, TypeInv', Moves(s), NEW new, Good(s, new),
         Flushed(s, new) \/ CommittedAs(s, new),
         ~reopened => Sound(new),
         PassKnows(s)',
         driver'[s].pc \notin {"claim", "finish", "fail"}
  PROVE  VerdictInv'
<1>1. new \in TablesState
  BY DEF Good
<1>2. /\ LockFree(s) /\ pending' = new
      /\ \/ Flushed(s, new) /\ holder' = {s} /\ stored' = stored /\ reopened' = reopened
         \/ /\ CommittedAs(s, new) /\ holder' = {} /\ stored' = new
            /\ reopened' = (reopened \/ Reopens(stored, new))
  BY DEF Flushed, CommittedAs
<1>3. ASSUME NEW t \in Driver, t # s
      PROVE  /\ t \notin holder /\ t \notin holder' /\ View(t) = stored /\ View(t)' = stored'
             /\ driver'[t] = driver[t] /\ At(t)' = At(t) /\ At(t) \in Step
  <2>1. t \notin holder /\ t \notin holder'
    BY <1>2, <1>3 DEF LockFree
  <2>2. driver'[t] = driver[t]
    BY <1>3 DEF Moves
  <2>3. QED
    BY <2>1, <2>2, AtType DEF View, At, Inv, TypeInv
<1>4. \A d \in Step : stored'.row[d].status = "WAITING" => stored.row[d].status = "WAITING"
  BY <1>2, ViewGood DEF Good, Inv
<1>5. ASSUME NEW t \in Driver, t # s PROVE PassKnows(t)'
  <2>1. PassKnows(t)
    BY DEF Inv, VerdictInv
  <2>2. EndsNext(t)' /\ GoesOn(t)'
    BY <1>3, <1>5 DEF EndsNext, GoesOn
  <2>3. QED
    BY <1>3, <1>4, <1>5, <2>1, <2>2 DEF PassKnows
<1>6. ASSUME NEW t \in Driver PROVE PassKnows(t)'
  BY <1>5
<1>7. ASSUME ~reopened'
      PROVE  /\ InTurn(stored'.row)
             /\ stored'.bundle \in BundleEnded => Whole(stored')
             /\ PendingWhole'
             /\ \A t \in Driver : PassSees(t)'
  <2>1. /\ ~reopened /\ Sound(new) /\ InTurn(stored.row)
        /\ stored.bundle \in BundleEnded => Whole(stored)
        /\ \A t \in Driver : PassSees(t)
    <3>1. ~reopened
      BY <1>2, <1>7, Zenon
    <3>2. QED
      BY <3>1 DEF Inv, VerdictInv
  <2>2. Keeps(stored.row, stored'.row)
    BY <1>2, <1>7 DEF Keeps, Reopens
  <2>3. /\ InTurn(stored'.row)
        /\ stored'.bundle \in BundleEnded => Whole(stored')
        /\ PendingWhole'
    <3>1. CASE Flushed(s, new) /\ stored' = stored
      BY <1>2, <2>1, <3>1 DEF Sound, PendingWhole
    <3>2. CASE CommittedAs(s, new) /\ stored' = new
      <4>1. ~Reopens(stored, new)
        BY <1>7, <3>2 DEF CommittedAs
      <4>2. CASE stored.bundle \in BundleEnded
        BY <1>1, <1>2, <2>1, <3>2, <4>1, <4>2, EndStays DEF Inv, TypeInv, Tables, PendingWhole
      <4>3. CASE stored.bundle \notin BundleEnded
        BY <1>2, <2>1, <2>2, <3>2, <4>3 DEF Sound, PendingWhole
      <4>4. QED
        BY <4>2, <4>3
    <3>3. QED
      BY <1>2, <3>1, <3>2
  <2>4. ASSUME NEW t \in Driver, t # s PROVE PassSees(t)'
    <3>1. \A d \in Step :
            stored.row[d].status = "SUCCESS" => stored'.row[d].status = "SUCCESS"
      BY <2>2 DEF Keeps, RowEnded
    <3>2. driver'[t].pc = "claim" =>
            \A i \in 1..driver'[t].at - 1 : stored'.row[Order[i]].status = "SUCCESS"
      <4> SUFFICES ASSUME driver[t].pc = "claim", NEW i \in 1..driver[t].at - 1
                   PROVE  stored'.row[Order[i]].status = "SUCCESS"
        BY <1>3, <2>4
      <4>1. stored.row[Order[i]].status = "SUCCESS"
        BY <1>3, <2>1, <2>4 DEF PassSees
      <4>2. driver[t].at \in 1..Len(Order) /\ Len(Order) \in Nat
        BY AtType, OrderFacts DEF Inv, TypeInv
      <4>3. Order[i] \in Step
        <5>1. i \in 1..Len(Order)
          BY <4>2
        <5>2. QED
          BY <5>1, OrderFacts
      <4>4. QED
        BY <3>1, <4>1, <4>3
    <3>3. driver'[t].pc = "finish" => \A d \in Step : stored'.row[d].status = "SUCCESS"
      BY <1>3, <2>1, <2>4, <3>1 DEF PassSees
    <3>4. driver'[t].pc = "fail" =>
            InTurn(driver'[t].seen) /\ Keeps(driver'[t].seen, stored'.row)
      BY <1>3, <2>1, <2>2, <2>4 DEF PassSees, Keeps
    <3>5. QED
      BY <1>3, <2>4, <3>2, <3>3, <3>4 DEF PassSees
  <2>5. PassSees(s)'
    BY DEF PassSees
  <2>6. QED
    BY <2>3, <2>4, <2>5
<1>8. QED
  BY <1>6, <1>7 DEF VerdictInv

LEMMA DecideWhole ==
  ASSUME NEW s \in Driver, Inv, TypeInv', BeginPass(s) \/ Decide(s) \/ After(s)
  PROVE  VerdictInv'
<1>1. /\ Moves(s) /\ UNCHANGED tables
      /\ driver[s].pc \in {"idle", "decide", "after"}
  <2>1. CASE BeginPass(s)
    BY <2>1, BeginIs, ZenonT(60) DEF Inv, TypeInv, BeginPass
  <2>2. CASE Decide(s)
    BY <2>2, DecideIs, ZenonT(60) DEF Inv, TypeInv, Decide
  <2>3. CASE After(s)
    BY <2>3, AfterIs, ZenonT(60) DEF Inv, TypeInv, After
  <2>4. QED
    BY <2>1, <2>2, <2>3
<1>2. /\ stored' = stored /\ pending' = pending /\ holder' = holder /\ reopened' = reopened
      /\ View(s)' = View(s)
  BY <1>1, KeptTables DEF Inv, TypeInv, tables
<1>3. EndsNext(s)'
  BY <1>1, <1>2 DEF Inv, TypeInv, DriverOK, VerdictInv, PassKnows, EndsNext
<1>4. s \notin holder => InTurn(stored.row) \/ reopened
  BY DEF Inv, VerdictInv
<1>5. Keeps(stored.row, stored.row)
  BY DEF Keeps
<1>6. CASE BeginPass(s)
  <2>1. driver'[s].pc = "decide" /\ s \notin holder
    BY <1>6, BeginIs, ZenonT(60) DEF Inv, TypeInv, DriverOK, BeginPass
  <2>2. PassKnows(s)'
    BY <1>2, <1>3, <2>1 DEF PassKnows, GoesOn
  <2>3. PassSees(s)'
    BY <2>1 DEF PassSees
  <2>4. QED
    BY <1>1, <2>2, <2>3, ReadWhole
<1>7. CASE Decide(s)
  <2>1. driver[s].pc = "decide"
    BY <1>7, ZenonT(60) DEF Decide
  <2>2. GoesOn(s)'
    BY <1>2, <2>1 DEF Inv, VerdictInv, PassKnows, GoesOn
  <2>3. CASE /\ driver'[s] = [AtRest EXCEPT !.pc = "finish"]
             /\ \A d \in Step : View(s).row[d].status = "SUCCESS"
    <3>1. driver'[s].pc = "finish"
      BY <2>3, AtRestType DEF DriverState
    <3>2. PassKnows(s)' /\ PassSees(s)'
      BY <1>2, <1>3, <2>2, <2>3, <3>1 DEF PassKnows, PassSees
    <3>3. QED
      BY <1>1, <3>2, ReadWhole
  <2>4. CASE /\ \A i \in 1..driver'[s].at - 1 : View(s).row[Order[i]].status = "SUCCESS"
             /\ \/ /\ driver'[s].pc = "look" /\ driver'[s].seen = View(s).row
                   /\ View(s).row[Order[driver'[s].at]].status \in InFlight
                \/ /\ driver'[s].pc = "fail" /\ driver'[s].seen = View(s).row
                   /\ View(s).row[Order[driver'[s].at]].status = "FAILED"
                \/ /\ driver'[s].pc = "claim"
                   /\ View(s).row[Order[driver'[s].at]].status = "WAITING"
                \/ driver'[s].pc = "commit"
    <3>1. /\ s \in holder => View(s) = pending
          /\ s \notin holder => View(s) = stored
      BY OneHolds DEF Inv, TypeInv
    <3>2. PassKnows(s)'
      BY <1>2, <1>3, <2>2, <2>4, <3>1 DEF PassKnows, At, InFlight
    <3>3. ~reopened => PassSees(s)'
      BY <1>2, <1>4, <1>5, <2>4, <3>1 DEF PassSees
    <3>4. QED
      BY <1>1, <3>2, <3>3, ReadWhole
  <2>5. QED
    BY <1>7, <2>3, <2>4, DecideIs, ZenonT(60) DEF Inv, TypeInv
<1>8. CASE After(s)
  <2>1. /\ driver[s].pc = "after" /\ At(s) \in Step
        /\ s \in holder => View(s) = pending
        /\ s \notin holder => View(s) = stored
    BY <1>8, OneHolds, AtType DEF After, Inv, TypeInv
  <2>2. \/ /\ driver'[s].pc = "fail" /\ driver'[s].seen = View(s).row
           /\ driver'[s].at = driver[s].at /\ View(s).row[At(s)].status = "FAILED"
        \/ driver'[s].pc = "decide" /\ View(s).row[At(s)].status = "SUCCESS"
        \/ driver'[s].pc = "commit"
    BY <1>8, AfterIs DEF Inv, TypeInv
  <2>3. GoesOn(s)'
    <3>1. GoesOn(s)
      BY DEF Inv, VerdictInv, PassKnows
    <3>2. QED
      BY <1>2, <2>1, <2>2, <3>1 DEF GoesOn
  <2>4. PassKnows(s)'
    BY <1>2, <1>3, <2>2, <2>3 DEF PassKnows, At
  <2>5. ~reopened => PassSees(s)'
    BY <1>2, <1>4, <1>5, <2>1, <2>2 DEF PassSees
  <2>6. QED
    BY <1>1, <2>4, <2>5, ReadWhole
<1>9. QED
  BY <1>6, <1>7, <1>8

\* Nothing is taken for a verdict, and nothing else is overwritten, by a pass
\* that saves the step it has acted on.
LEMMA SavedKnows ==
  ASSUME NEW s \in Driver, Inv, NEW new, Flushed(s, new) \/ CommittedAs(s, new),
         driver[s].pc \in {"claim", "look", "answer", "send"},
         driver'[s].pc = "after", driver'[s].at = driver[s].at,
         \A d \in Step : d # At(s) => new.row[d] = View(s).row[d],
         new.bundle \in {View(s).bundle} \cup InFlight
  PROVE  PassKnows(s)'
<1>1. CASE CommittedAs(s, new)
  <2>1. holder' = {}
    BY <1>1 DEF CommittedAs
  <2>2. QED
    BY <2>1 DEF PassKnows, EndsNext, GoesOn
<1>2. CASE Flushed(s, new)
  <2>1. pending' = new /\ stored' = stored /\ holder' = {s} /\ At(s)' = At(s)
    BY <1>2 DEF Flushed, At
  <2>2. EndsNext(s) /\ GoesOn(s)
    BY DEF Inv, VerdictInv, PassKnows
  <2>3. s \notin holder \/ driver[s].pc \in {"claim", "look"}
    BY DEF Inv, TypeInv, DriverOK
  <2>4. /\ s \in holder => View(s) = pending
        /\ s \notin holder => View(s) = stored
    BY OneHolds DEF Inv, TypeInv
  <2>5. EndsNext(s)'
    BY <2>1, <2>2, <2>4 DEF EndsNext, InFlight, BundleEnded
  <2>6. GoesOn(s)'
    BY <2>1, <2>2, <2>3, <2>4 DEF GoesOn
  <2>7. QED
    BY <2>5, <2>6 DEF PassKnows
<1>3. QED
  BY <1>1, <1>2

\* Saving a step that was touched is in turn, unless it takes back a row.
LEMMA SaveSound ==
  ASSUME NEW s \in Driver, Inv, ~reopened,
         driver[s].pc \in {"look", "answer", "send"},
         NEW copy \in RowState, copy.status \notin Untouched,
         NEW new, new.row = [View(s).row EXCEPT ![At(s)] = copy],
         new.bundle \in {View(s).bundle} \cup InFlight
  PROVE  Sound(new)
<1> DEFINE rows == View(s).row
<1> SUFFICES ASSUME Keeps(stored.row, new.row)
             PROVE  /\ InTurn(new.row)
                    /\ new.bundle \in BundleEnded /\ stored.bundle \notin BundleEnded => Whole(new)
  BY DEF Sound
<1>1. At(s) \in Step /\ rows \in [Step -> RowState]
  BY AtType, ViewType DEF Inv, TypeInv
<1>2. new.row[At(s)] = copy /\ \A d \in Step : d # At(s) => new.row[d] = rows[d]
  BY <1>1
<1>3. rows[At(s)].status # "WAITING" /\ EndsNext(s) /\ GoesOn(s)
  BY DEF Inv, VerdictInv, PassKnows
<1>4. s \in holder => driver[s].pc = "look" /\ rows = pending.row /\ View(s) = pending
  BY OneHolds DEF Inv, TypeInv, DriverOK
<1>5. s \notin holder => rows = stored.row /\ View(s) = stored
  BY OneHolds DEF Inv, TypeInv
<1>6. ~(new.bundle \in BundleEnded /\ stored.bundle \notin BundleEnded)
  BY <1>3, <1>4, <1>5 DEF EndsNext, InFlight, BundleEnded
<1>7. s \in holder => rows[At(s)].status \in InFlight
  BY <1>4 DEF Inv, PromiseInv, PassTrue, VerdictInv, PassKnows
<1>8. s \in holder => Keeps(stored.row, pending.row)
  <2> SUFFICES ASSUME s \in holder, NEW d \in Step, stored.row[d].status \in RowEnded
               PROVE  pending.row[d].status = stored.row[d].status
    BY DEF Keeps
  <2>1. CASE d # At(s)
    BY <1>2, <1>4, <2>1 DEF Keeps
  <2>2. CASE d = At(s)
    BY <1>3, <1>4, <1>7, <2>2 DEF GoesOn, InFlight, RowEnded
  <2>3. QED
    BY <2>1, <2>2
<1>9. InTurn(rows)
  <2>1. CASE s \in holder
    BY <1>4, <1>8, <2>1 DEF Inv, VerdictInv, PendingWhole
  <2>2. CASE s \notin holder
    BY <1>5, <2>2 DEF Inv, VerdictInv
  <2>3. QED
    BY <2>1, <2>2
<1>10. rows[At(s)].status # "CANCELLED"
  <2>1. CASE s \in holder
    BY <1>7, <2>1 DEF InFlight
  <2>2. CASE s \notin holder
    BY <1>1, <1>2, <1>5, <2>2 DEF Keeps, RowEnded, Untouched
  <2>3. QED
    BY <2>1, <2>2
<1>11. rows[At(s)].status = "SUCCESS" => copy.status = "SUCCESS"
  <2>1. CASE s \in holder
    BY <1>7, <2>1 DEF InFlight
  <2>2. CASE s \notin holder
    BY <1>1, <1>2, <1>5, <2>2 DEF Keeps, RowEnded
  <2>3. QED
    BY <2>1, <2>2
<1>12. InTurn(new.row)
  <2> SUFFICES ASSUME NEW i \in 1..Len(Order), NEW j \in 1..Len(Order), i < j,
                      new.row[Order[j]].status \notin Untouched
               PROVE  new.row[Order[i]].status = "SUCCESS"
    BY DEF InTurn
  <2>1. Order[i] \in Step /\ Order[j] \in Step
    BY OrderFacts
  <2>2. rows[Order[j]].status \notin Untouched
    BY <1>2, <1>3, <1>10, <2>1 DEF Untouched
  <2>3. rows[Order[i]].status = "SUCCESS"
    BY <1>9, <2>2 DEF InTurn
  <2>4. QED
    BY <1>2, <1>11, <2>1, <2>3
<1>13. QED
  BY <1>6, <1>12

\* What a save writes, with or without the bundle.
LEMMA SavedRow ==
  ASSUME NEW s \in Driver, Inv, NEW copy \in RowState
  PROVE  LET new == Saved(s, At(s), copy)
             told == Mirrored(new, "DEPLOYING") IN
         /\ new.row = [View(s).row EXCEPT ![At(s)] = copy] /\ new.bundle = View(s).bundle
         /\ told.row = [View(s).row EXCEPT ![At(s)] = copy] /\ told.bundle = "DEPLOYING"
         /\ \A d \in Step : d # At(s) => new.row[d] = View(s).row[d]
<1>1. At(s) \in Step
  BY AtType DEF Inv, TypeInv
<1>2. "DEPLOYING" \in BundleState
  BY DEF BundleState, InFlight
<1>3. View(s).row \in [Step -> RowState]
  BY ViewType DEF Inv, TypeInv
<1>4. QED
  BY <1>1, <1>2, <1>3, SavedIs, MirroredIs DEF Inv, TypeInv

\* A step whose outcome, or whose answer, a pass puts down.
LEMMA SaveWhole ==
  ASSUME NEW s \in Driver, Inv, TypeInv', Moves(s),
         driver[s].pc \in {"look", "answer", "send"},
         driver'[s].pc = "after", driver'[s].at = driver[s].at,
         NEW copy \in RowState, copy.status \notin Untouched,
         NEW new, Good(s, new), Flushed(s, new) \/ CommittedAs(s, new),
         new = Saved(s, At(s), copy) \/ new = Mirrored(Saved(s, At(s), copy), "DEPLOYING")
  PROVE  VerdictInv'
<1>1. /\ new.row = [View(s).row EXCEPT ![At(s)] = copy]
      /\ new.bundle \in {View(s).bundle} \cup InFlight
      /\ \A d \in Step : d # At(s) => new.row[d] = View(s).row[d]
  BY SavedRow DEF InFlight
<1>2. PassKnows(s)'
  BY <1>1, SavedKnows
<1>3. ~reopened => Sound(new)
  BY <1>1, SaveSound
<1>4. QED
  BY <1>2, <1>3, WriteWhole

LEMMA ClaimWhole ==
  ASSUME NEW s \in Driver, Inv, TypeInv', ClaimStep(s) \/ MissClaim(s)
  PROVE  VerdictInv'
<1>1. CASE MissClaim(s)
  <2>1. /\ Flushed(s, View(s)) /\ Goto(s, "after") /\ driver[s].pc = "claim"
    BY <1>1 DEF MissClaim
  <2>2. Moves(s) /\ driver'[s].pc = "after" /\ driver'[s].at = driver[s].at
    BY <2>1, GotoIs DEF Pc, Inv, TypeInv
  <2>3. PassKnows(s)'
    BY <2>1, <2>2, SavedKnows
  <2>4. Good(s, View(s))
    BY ViewGood DEF Inv
  <2>5. QED
    BY <2>1, <2>2, <2>3, <2>4, ViewSound, WriteWhole
<1>2. CASE ClaimStep(s)
  <2> DEFINE new == Mirrored([View(s) EXCEPT !.row[At(s)].status = "PROMOTING"], "PROMOTING")
             rows == View(s).row
  <2>1. /\ CommittedAs(s, new) /\ Goto(s, "send") /\ driver[s].pc = "claim"
        /\ rows[At(s)].status = "WAITING"
    BY <1>2 DEF ClaimStep
  <2>2. /\ Good(s, new) /\ new.bundle = "PROMOTING"
        /\ new.row = [rows EXCEPT ![At(s)].status = "PROMOTING"]
    BY ClaimGood DEF Inv
  <2>3. Moves(s) /\ driver'[s].pc = "send" /\ driver'[s].at = driver[s].at
    BY <2>1, GotoIs DEF Pc, Inv, TypeInv
  <2>4. At(s) \in Step /\ rows \in [Step -> RowState] /\ driver[s].at \in 1..Len(Order)
    BY AtType, ViewType DEF Inv, TypeInv
  <2>5. /\ new.row[At(s)].status = "PROMOTING"
        /\ \A d \in Step : d # At(s) => new.row[d] = rows[d]
    BY <2>2, <2>4, ZenonT(60) DEF RowState
  <2>6. /\ s \in holder => View(s) = pending
        /\ s \notin holder => View(s) = stored
    BY OneHolds DEF Inv, TypeInv
  <2> HIDE DEF new
  <2>7. PassKnows(s)'
    <3>1. holder' = {} /\ stored' = new
      BY <2>1 DEF CommittedAs
    <3>2. View(s)' = new /\ At(s)' = At(s)
      BY <2>3, <3>1 DEF View, At
    <3>3. QED
      BY <2>3, <2>5, <3>1, <3>2 DEF PassKnows, EndsNext, GoesOn
  <2>8. ASSUME ~reopened, Keeps(stored.row, new.row) PROVE InTurn(new.row)
    <3>1. InTurn(rows)
      <4>1. CASE s \in holder
        <5>1. stored.row[At(s)].status = "WAITING"
          BY <2>1, <2>4, ViewGood DEF Inv
        <5>2. Keeps(stored.row, pending.row)
          BY <2>5, <2>6, <2>8, <4>1, <5>1 DEF Keeps, RowEnded
        <5>3. QED
          BY <2>6, <2>8, <4>1, <5>2 DEF Inv, VerdictInv, PendingWhole
      <4>2. CASE s \notin holder
        BY <2>6, <2>8, <4>2 DEF Inv, VerdictInv
      <4>3. QED
        BY <4>1, <4>2
    <3>2. \A i \in 1..driver[s].at - 1 : rows[Order[i]].status = "SUCCESS"
      BY <2>1, <2>8 DEF Inv, VerdictInv, PassSees
    <3> SUFFICES ASSUME NEW i \in 1..Len(Order), NEW j \in 1..Len(Order), i < j,
                        new.row[Order[j]].status \notin Untouched
                 PROVE  new.row[Order[i]].status = "SUCCESS"
      BY DEF InTurn
    <3>3. Order[i] \in Step /\ Order[j] \in Step
      BY OrderFacts
    <3>4. rows[Order[i]].status = "SUCCESS"
      <4>1. CASE Order[j] = At(s)
        <5>1. j = driver[s].at
          BY <2>4, <4>1, OrderFacts DEF At
        <5>2. i \in 1..j - 1
          BY OrderFacts
        <5>3. QED
          BY <3>2, <5>1, <5>2
      <4>2. CASE Order[j] # At(s)
        BY <2>5, <3>1, <3>3, <4>2 DEF InTurn
      <4>3. QED
        BY <4>1, <4>2
    <3>5. QED
      BY <2>1, <2>5, <3>3, <3>4
  <2>9. ~reopened => Sound(new)
    BY <2>2, <2>8 DEF Sound, BundleEnded
  <2>10. QED
    BY <2>1, <2>2, <2>3, <2>7, <2>9, WriteWhole
<1>3. QED
  BY <1>1, <1>2

LEMMA AnswerWhole ==
  ASSUME NEW s \in Driver, Inv, TypeInv',
         PromotionCreated(s) \/ PromotionRefused(s) \/ PromotionUnconfirmed(s)
  PROVE  VerdictInv'
<1>1. /\ Goto(s, "after") /\ driver[s].pc \in {"send", "answer"}
  BY DEF PromotionCreated, PromotionRefused, PromotionUnconfirmed
<1>2. Moves(s) /\ driver'[s].pc = "after" /\ driver'[s].at = driver[s].at
  BY <1>1, GotoIs DEF Pc, Inv, TypeInv
<1>3. At(s) \in Step
  BY AtType DEF Inv, TypeInv
<1>4. CASE PromotionCreated(s)
  <2> DEFINE copy == [status |-> "DEPLOYING", build |-> Max(Built(At(s)))]
             new == Mirrored(Saved(s, At(s), copy), "DEPLOYING")
  <2>1. Built(At(s)) # {} /\ CommittedAs(s, new)
    BY <1>4 DEF PromotionCreated, Recorded
  <2>2. Good(s, new)
    BY <2>1, RecordedGood DEF Recorded, Inv
  <2>3. Max(Built(At(s))) \in Nat
    BY <1>3, <2>1, TheBuild DEF Inv, PromiseInv
  <2>4. copy \in RowState /\ copy.status \notin Untouched
    BY <2>3 DEF RowState, InFlight, Untouched
  <2> HIDE DEF copy
  <2>5. QED
    BY <1>1, <1>2, <2>1, <2>2, <2>4, SaveWhole
<1>5. CASE PromotionRefused(s)
  <2> DEFINE copy == FailedRow(FreshRow)
  <2>1. CommittedAs(s, Saved(s, At(s), copy))
    BY <1>5 DEF PromotionRefused
  <2>2. Good(s, Saved(s, At(s), copy))
    BY AnswerGood DEF Inv
  <2>3. copy \in RowState /\ copy.status \notin Untouched
    BY FreshType, FailedRowIs DEF Untouched
  <2> HIDE DEF copy
  <2>4. QED
    BY <1>1, <1>2, <2>1, <2>2, <2>3, SaveWhole
<1>6. CASE PromotionUnconfirmed(s)
  <2> DEFINE copy == [FreshRow EXCEPT !.status = "PROMOTING"]
  <2>1. CommittedAs(s, Saved(s, At(s), copy))
    BY <1>6 DEF PromotionUnconfirmed
  <2>2. Good(s, Saved(s, At(s), copy))
    BY AnswerGood DEF Inv
  <2>3. copy \in RowState /\ copy.status \notin Untouched
    BY DEF FreshRow, RowState, InFlight, NoBuild, Untouched
  <2> HIDE DEF copy
  <2>4. QED
    BY <1>1, <1>2, <2>1, <2>2, <2>3, SaveWhole
<1>7. QED
  BY <1>4, <1>5, <1>6

LEMMA LookWhole ==
  ASSUME NEW s \in Driver, Inv, TypeInv',
         TimeOut(s) \/ Reconcile(s) \/ PollEnds(s) \/ PollLearnsNothing(s)
  PROVE  VerdictInv'
<1>1. driver[s].pc = "look"
  BY DEF TimeOut, Reconcile, PollEnds, PollLearnsNothing, Refreshed
<1>2. /\ At(s) \in Step /\ Copy(s) \in RowState /\ Copy(s).status \in InFlight
  BY <1>1, CopyIs DEF Inv
<1>3. ASSUME NEW copy \in RowState, copy.status \notin Untouched, NEW new, Refreshed(s, new),
             Good(s, new),
             new = Saved(s, At(s), copy) \/ new = Mirrored(Saved(s, At(s), copy), "DEPLOYING")
      PROVE  VerdictInv'
  <2>1. Moves(s) /\ driver'[s].pc = "after" /\ driver'[s].at = driver[s].at
    BY <1>3, RefreshedIs DEF Inv, TypeInv
  <2>2. QED
    BY <1>1, <1>3, <2>1, SaveWhole DEF Refreshed
<1>4. /\ FailedRow(Copy(s)) \in RowState /\ FailedRow(Copy(s)).status \notin Untouched
  BY <1>2, FailedRowIs DEF Untouched
<1>5. Refreshed(s, Saved(s, At(s), FailedRow(Copy(s)))) => VerdictInv'
  BY <1>1, <1>3, <1>4, FailedGood DEF Inv
<1>6. CASE TimeOut(s)
  BY <1>5, <1>6 DEF TimeOut
<1>7. CASE Reconcile(s)
  <2> DEFINE copy == [status |-> "DEPLOYING", build |-> Max(Built(At(s)))]
             new == Mirrored(Saved(s, At(s), copy), "DEPLOYING")
  <2>1. Built(At(s)) # {} /\ Refreshed(s, new)
    BY <1>7 DEF Reconcile, Recorded
  <2>2. Good(s, new)
    BY <2>1, RecordedGood DEF Recorded, Inv
  <2>3. Max(Built(At(s))) \in Nat
    BY <1>2, <2>1, TheBuild DEF Inv, PromiseInv
  <2>4. copy \in RowState /\ copy.status \notin Untouched
    BY <2>3 DEF RowState, InFlight, Untouched
  <2> HIDE DEF copy
  <2>5. QED
    BY <1>3, <2>1, <2>2, <2>4
<1>8. CASE PollEnds(s)
  <2>1. PICK end \in {"success", "failure"} :
          /\ Copy(s).build # NoBuild /\ promotion[Copy(s).build].state = end
          /\ Refreshed(s, Saved(s, At(s),
               IF end = "success" THEN [Copy(s) EXCEPT !.status = "SUCCESS"]
               ELSE FailedRow(Copy(s))))
    BY <1>8 DEF PollEnds
  <2>2. CASE end = "failure"
    BY <1>5, <2>1, <2>2
  <2>3. CASE end = "success"
    <3> DEFINE copy == [Copy(s) EXCEPT !.status = "SUCCESS"]
    <3>1. Refreshed(s, Saved(s, At(s), copy)) /\ Good(s, Saved(s, At(s), copy))
      BY <1>1, <2>1, <2>3, SuccessGood DEF Inv
    <3>2. copy \in RowState /\ copy.status \notin Untouched
      BY <1>2 DEF RowState, RowEnded, Untouched
    <3> HIDE DEF copy
    <3>3. QED
      BY <1>3, <3>1, <3>2
  <2>4. QED
    BY <2>2, <2>3
<1>9. CASE PollLearnsNothing(s)
  <2>1. Refreshed(s, Saved(s, At(s), Copy(s))) /\ Good(s, Saved(s, At(s), Copy(s)))
    BY <1>1, <1>9, CopyGood DEF PollLearnsNothing, Inv
  <2>2. Copy(s).status \notin Untouched
    BY <1>2 DEF InFlight, Untouched
  <2>3. QED
    BY <1>2, <1>3, <2>1, <2>2
<1>10. QED
  BY <1>6, <1>7, <1>8, <1>9

\* Failing a bundle ends every row of it, when the rows it goes by are in turn
\* and nobody has taken one back.
LEMMA FailSound ==
  ASSUME NEW s \in Driver, Inv, ~reopened, driver[s].pc = "fail"
  PROVE  Sound(FailedBundle(s))
<1> DEFINE seen == driver[s].seen
           new == FailedBundle(s)
           k == driver[s].at
<1> SUFFICES ASSUME Keeps(stored.row, new.row)
             PROVE  InTurn(new.row) /\ Whole(new)
  BY DEF Sound
<1>1. \A d \in Step :
        new.row[d] = IF seen[d].status = "WAITING" THEN Stopped(seen[d]) ELSE View(s).row[d]
  BY FailGood DEF Inv
<1>2. seen \in [Step -> RowState] /\ k \in 1..Len(Order) /\ At(s) = Order[k] /\ At(s) \in Step
  BY AtType DEF Inv, TypeInv, DriverOK, At
<1>3. seen[At(s)].status = "FAILED"
  BY DEF Inv, VerdictInv, PassKnows
<1>4. \A d \in Step : Stopped(seen[d]).status = "CANCELLED"
  BY <1>2 DEF Stopped, RowState
<1>5. PassSees(s)
  BY DEF Inv, VerdictInv
<1>6. InTurn(seen) /\ Keeps(seen, View(s).row)
  <2>1. CASE s \in holder
    <3>1. View(s) = pending /\ seen = pending.row
      BY <1>5, <2>1, OneHolds DEF Inv, TypeInv, PassSees
    <3>2. \A d \in Step : pending.row[d].status = "WAITING" => stored.row[d].status = "WAITING"
      BY DEF Inv, PromiseInv, Queued
    <3>3. Keeps(stored.row, pending.row)
      BY <1>1, <3>1, <3>2 DEF Keeps, RowEnded
    <3>4. InTurn(pending.row)
      BY <3>3 DEF Inv, VerdictInv, PendingWhole
    <3>5. QED
      BY <3>1, <3>4 DEF Keeps
  <2>2. CASE s \notin holder
    BY <1>5, <2>2, OneHolds DEF Inv, TypeInv, PassSees
  <2>3. QED
    BY <2>1, <2>2
<1>7. ASSUME NEW i \in 1..Len(Order)
      PROVE  /\ i < k => seen[Order[i]].status = "SUCCESS"
             /\ i > k => seen[Order[i]].status \in Untouched
  <2>1. Order[i] \in Step
    BY OrderFacts
  <2>2. i < k => seen[Order[i]].status = "SUCCESS"
    BY <1>2, <1>3, <1>6 DEF InTurn, Untouched
  <2>3. i > k => seen[Order[i]].status \in Untouched
    BY <1>2, <1>3, <1>6 DEF InTurn
  <2>4. QED
    BY <2>2, <2>3
<1>8. ASSUME NEW d \in Step
      PROVE  /\ seen[d].status \in RowEnded \cup {"WAITING"}
             /\ new.row[d].status = IF seen[d].status = "WAITING" THEN "CANCELLED" ELSE seen[d].status
  <2>1. PICK i \in 1..Len(Order) : Order[i] = d
    BY OrderFacts
  <2>2. i < k \/ i = k \/ i > k
    <3>1. k \in Nat /\ i \in Nat
      <4>1. driver[s].at \in 1..Len(Order) /\ Len(Order) \in Nat
        BY AtType, OrderFacts DEF Inv, TypeInv
      <4> HIDE DEF seen, new
      <4>2. QED
        BY <4>1
    <3> HIDE DEF k
    <3>2. QED
      BY <3>1
  <2>3. seen[d].status \in RowEnded \cup {"WAITING"}
    BY <1>2, <1>3, <1>7, <2>1, <2>2 DEF RowEnded, Untouched
  <2>4. seen[d].status \in RowEnded => View(s).row[d].status = seen[d].status
    BY <1>6 DEF Keeps
  <2>5. QED
    BY <1>1, <1>4, <2>3, <2>4 DEF RowEnded
<1>9. InTurn(new.row)
  <2> SUFFICES ASSUME NEW i \in 1..Len(Order), NEW j \in 1..Len(Order), i < j,
                      new.row[Order[j]].status \notin Untouched
               PROVE  new.row[Order[i]].status = "SUCCESS"
    BY DEF InTurn
  <2>1. Order[i] \in Step /\ Order[j] \in Step
    BY OrderFacts
  <2>2. seen[Order[j]].status \notin Untouched
    BY <1>8, <2>1 DEF Untouched
  <2>3. ~(j > k)
    BY <1>7, <2>2
  <2>4. i < k
    <3>1. driver[s].at \in 1..Len(Order) /\ Len(Order) \in Nat
      BY AtType, OrderFacts DEF Inv, TypeInv
    <3> HIDE DEF seen, new
    <3>2. QED
      BY <2>3, <3>1
  <2>5. QED
    BY <1>7, <1>8, <2>1, <2>4
<1>10. Whole(new)
  <2>1. new.bundle = IF \E d \in Step : seen[d].status = "SUCCESS"
                     THEN "PARTIAL_FAILURE" ELSE "FAILED"
    BY DEF FailedBundle
  <2>2. \A d \in Step : new.row[d].status \in RowEnded
    BY <1>8 DEF RowEnded
  <2>3. \A d \in Step : new.row[d].status = "SUCCESS" <=> seen[d].status = "SUCCESS"
    BY <1>8
  <2>4. new.row[At(s)].status = "FAILED"
    BY <1>2, <1>3, <1>8
  <2> HIDE DEF new, seen
  <2>5. QED
    BY <1>2, <2>1, <2>2, <2>3, <2>4 DEF Whole
<1>11. QED
  BY <1>9, <1>10

LEMMA EndWhole ==
  ASSUME NEW s \in Driver, Inv, TypeInv', FailBundle(s) \/ FinishBundle(s) \/ CommitPass(s)
  PROVE  VerdictInv'
<1>1. ASSUME driver'[s].pc \in {"commit", "idle"}, s \in holder' => driver'[s].pc = "commit"
      PROVE  PassKnows(s)'
  BY <1>1 DEF PassKnows, EndsNext, GoesOn
<1>2. CASE FailBundle(s)
  <2>1. /\ driver[s].pc = "fail" /\ Flushed(s, FailedBundle(s))
        /\ driver' = [driver EXCEPT ![s] = [AtRest EXCEPT !.pc = "commit"]]
    BY <1>2 DEF FailBundle
  <2>2. [AtRest EXCEPT !.pc = "commit"] \in DriverState
    BY AtRestType DEF DriverState, Pc
  <2>3. Moves(s) /\ driver'[s].pc = "commit"
    BY <2>1, <2>2, AtRestType, MovesIs DEF Inv, TypeInv, DriverState
  <2>4. Good(s, FailedBundle(s))
    BY <2>1, FailGood DEF Inv
  <2>5. QED
    BY <1>1, <2>1, <2>3, <2>4, FailSound, WriteWhole
<1>3. CASE FinishBundle(s)
  <2> DEFINE new == Mirrored(View(s), "SUCCESS")
  <2>1. driver[s].pc = "finish" /\ Flushed(s, new) /\ Goto(s, "commit")
    BY <1>3 DEF FinishBundle
  <2>2. Moves(s) /\ driver'[s].pc = "commit"
    BY <2>1, GotoIs DEF Pc, Inv, TypeInv
  <2>3. Good(s, new)
    BY <2>1, FinishGood DEF Inv
  <2>4. new.row = View(s).row /\ new.bundle = "SUCCESS"
    BY ViewType, MirroredIs DEF Inv, TypeInv, BundleState, BundleEnded
  <2> HIDE DEF new
  <2>5. ~reopened => Sound(new)
    <3> SUFFICES ASSUME ~reopened PROVE InTurn(new.row) /\ Whole(new)
      BY DEF Sound
    <3>1. \A d \in Step : new.row[d].status = "SUCCESS"
      BY <2>1, <2>4 DEF Inv, VerdictInv, PassSees
    <3>2. InTurn(new.row)
      BY <3>1, OrderFacts DEF InTurn
    <3>3. Whole(new)
      BY <2>4, <3>1, ChoreographyAssumption DEF Whole, RowEnded
    <3>4. QED
      BY <3>2, <3>3
  <2>6. QED
    BY <1>1, <2>1, <2>2, <2>3, <2>5, WriteWhole
<1>4. CASE CommitPass(s)
  <2>1. Moves(s) /\ driver'[s].pc = "idle"
    BY <1>4, RestedIs, AtRestType DEF CommitPass, Inv, TypeInv
  <2>2. CASE holder = {s}
    <3>1. CommittedAs(s, pending) /\ View(s) = pending /\ holder' = {}
      BY <1>4, <2>2 DEF CommitPass, View, CommittedAs
    <3>2. Good(s, pending) /\ (~reopened => Sound(pending))
      BY <3>1, ViewGood, ViewSound DEF Inv
    <3>3. QED
      BY <1>1, <2>1, <3>1, <3>2, WriteWhole
  <2>3. CASE holder # {s}
    <3>1. UNCHANGED tables /\ s \notin holder
      BY <1>4, <2>3 DEF CommitPass, Inv, TypeInv, Tables
    <3>2. s \notin holder'
      BY <3>1 DEF tables
    <3>3. PassSees(s)'
      BY <2>1 DEF PassSees
    <3>4. QED
      BY <1>1, <2>1, <3>1, <3>2, <3>3, ReadWhole
  <2>4. QED
    BY <2>2, <2>3
<1>5. QED
  BY <1>2, <1>3, <1>4

LEMMA SendWhole ==
  ASSUME NEW s \in Driver, Inv, TypeInv', SendStep(s)
  PROVE  VerdictInv'
<1>1. driver[s].pc = "send" /\ Goto(s, "answer") /\ UNCHANGED tables
  BY DEF SendStep
<1>2. /\ Moves(s) /\ driver'[s].pc = "answer" /\ driver'[s].at = driver[s].at
  BY <1>1, GotoIs DEF Pc, Inv, TypeInv
<1>3. At(s)' = At(s) /\ View(s)' = View(s) /\ holder' = holder
  BY <1>1, <1>2, KeptTables DEF At, Inv, TypeInv, tables
<1>4. s \notin holder
  BY <1>1 DEF Inv, TypeInv, DriverOK
<1>5. PassKnows(s)'
  BY <1>1, <1>2, <1>3, <1>4 DEF Inv, VerdictInv, PassKnows, EndsNext, GoesOn
<1>6. PassSees(s)'
  BY <1>2 DEF PassSees
<1>7. QED
  BY <1>1, <1>2, <1>5, <1>6, ReadWhole

LEMMA DropWhole ==
  ASSUME NEW s \in Driver, Inv, TypeInv', DropPass(s)
  PROVE  VerdictInv'
<1>1. /\ Rested(s) /\ holder' = holder \ {s}
      /\ pending' = IF holder = {s} THEN stored ELSE pending
      /\ stored' = stored /\ reopened' = reopened
  BY DEF DropPass
<1>2. Moves(s) /\ driver'[s].pc = "idle"
  BY <1>1, RestedIs, AtRestType DEF Inv, TypeInv
<1>3. s \notin holder'
  BY <1>1
<1>4. ASSUME NEW t \in Driver, t # s
      PROVE  /\ driver'[t] = driver[t] /\ At(t)' = At(t) /\ View(t)' = View(t)
             /\ t \in holder' <=> t \in holder
             /\ t \in holder => pending' = pending
  <2>1. driver'[t] = driver[t] /\ At(t)' = At(t)
    BY <1>2, <1>4 DEF Moves, At
  <2>2. (t \in holder' <=> t \in holder) /\ (t \in holder => pending' = pending)
    BY <1>1, <1>4 DEF Inv, TypeInv, Tables
  <2>3. View(t)' = View(t)
    BY <1>1, <1>4, <2>2, OneHolds DEF Inv, TypeInv, Tables, View
  <2>4. QED
    BY <2>1, <2>2, <2>3
<1>5. PassKnows(s)' /\ PassSees(s)'
  BY <1>2, <1>3 DEF PassKnows, PassSees, EndsNext, GoesOn
<1>6. ASSUME NEW t \in Driver, t # s
      PROVE  PassKnows(t)' /\ (~reopened => PassSees(t)')
  <2>1. PassKnows(t) /\ (~reopened => PassSees(t))
    BY DEF Inv, VerdictInv
  <2>2. EndsNext(t)' /\ GoesOn(t)'
    BY <1>1, <1>4, <1>6, <2>1 DEF PassKnows, EndsNext, GoesOn
  <2>3. PassKnows(t)'
    BY <1>4, <1>6, <2>1, <2>2 DEF PassKnows
  <2>4. ~reopened => PassSees(t)'
    BY <1>1, <1>4, <1>6, <2>1 DEF PassSees
  <2>5. QED
    BY <2>3, <2>4
<1>7. ~reopened => PendingWhole'
  <2>1. ~reopened => InTurn(stored.row) /\ PendingWhole
    BY DEF Inv, VerdictInv
  <2>2. QED
    BY <1>1, <2>1 DEF PendingWhole
<1>8. QED
  BY <1>1, <1>5, <1>6, <1>7 DEF Inv, VerdictInv

\* The verdict is the tables' and the passes' alone.
LEMMA VerdictStays ==
  ASSUME VerdictInv, TypeInv, UNCHANGED tables, driver' = driver
  PROVE  VerdictInv'
<1>1. /\ stored' = stored /\ pending' = pending /\ holder' = holder /\ reopened' = reopened
      /\ \A t \in Driver : View(t)' = View(t) /\ At(t)' = At(t)
  BY KeptTables DEF TypeInv, tables, At
<1>2. ASSUME NEW t \in Driver PROVE PassKnows(t)' /\ (~reopened => PassSees(t)')
  <2>1. PassKnows(t) /\ (~reopened => PassSees(t))
    BY DEF VerdictInv
  <2>2. EndsNext(t)' /\ GoesOn(t)'
    BY <1>1, <2>1 DEF PassKnows, EndsNext, GoesOn
  <2>3. PassKnows(t)'
    BY <1>1, <2>1, <2>2 DEF PassKnows
  <2>4. ~reopened => PassSees(t)'
    BY <1>1, <2>1 DEF PassSees
  <2>5. QED
    BY <2>3, <2>4
<1>3. PendingWhole' <=> PendingWhole
  BY <1>1 DEF PendingWhole
<1>4. QED
  BY <1>1, <1>2, <1>3 DEF VerdictInv

LEMMA InitWhole == ChoreographyInit => Inv
<1> SUFFICES ASSUME ChoreographyInit PROVE Inv
  OBVIOUS
<1>1. TypeInv /\ PromiseInv
  BY InitTrue
<1>2. /\ stored = [row |-> [d \in Step |-> FreshRow], bundle |-> "WAITING"]
      /\ pending = stored /\ holder = {} /\ reopened = FALSE
      /\ driver = [s \in Driver |-> AtRest]
  BY DEF ChoreographyInit
<1>3. \A s \in Driver : driver[s].pc = "idle"
  BY <1>2, AtRestType
<1>4. \A s \in Driver : PassKnows(s) /\ PassSees(s)
  BY <1>2, <1>3 DEF PassKnows, PassSees, EndsNext, GoesOn
<1>5. stored.bundle = "WAITING" /\ \A d \in Step : stored.row[d].status = "WAITING"
  BY <1>2 DEF FreshRow
<1>6. InTurn(stored.row)
  BY <1>5, OrderFacts DEF InTurn, Untouched
<1>7. PendingWhole
  BY <1>2, <1>5, <1>6 DEF PendingWhole, BundleEnded
<1>8. QED
  BY <1>1, <1>4, <1>5, <1>6, <1>7 DEF Inv, VerdictInv, BundleEnded

LEMMA StepWhole ==
  ASSUME Inv, [ChoreographyNext]_choreographyVars
  PROVE  Inv'
<1>1. TypeInv' /\ PromiseInv'
  BY StepTrue DEF Inv
<1>2. CASE UNCHANGED choreographyVars
  BY <1>1, <1>2, VerdictStays DEF choreographyVars, tables, Inv
<1>3. CASE ChoreographyNext
  <2>1. ASSUME NEW s \in Driver, BeginPass(s) \/ PassStep(s) \/ DropPass(s)
        PROVE  VerdictInv'
    BY <1>1, <2>1, DecideWhole, ClaimWhole, SendWhole, AnswerWhole, LookWhole, EndWhole,
       DropWhole DEF PassStep
  <2>2. ASSUME NEW p \in 1..Len(promotion), DroneTakes(p) \/ DroneEnds(p)
        PROVE  VerdictInv'
    BY <2>2, DroneKept, VerdictStays DEF Inv
  <2>3. QED
    BY <1>1, <1>3, <2>1, <2>2 DEF ChoreographyNext, Inv
<1>4. QED
  BY <1>2, <1>3

\* When a bundle has ended, and no late write has taken a row back, its
\* verdict is that of its rows and no step is left waiting or on its way,
\* whatever passes ran side by side and wherever they were cut short.
THEOREM VerdictsAreWhole == ChoreographySpec => []VerdictIsWhole
<1>1. Inv => VerdictIsWhole
  <2> SUFFICES ASSUME Inv, stored.bundle \in BundleEnded, ~reopened
               PROVE  LET succeeded == {d \in Step : stored.row[d].status = "SUCCESS"} IN
                      /\ \A d \in Step : stored.row[d].status \in RowEnded
                      /\ stored.bundle = "SUCCESS" <=> succeeded = Step
                      /\ stored.bundle = "FAILED" <=> succeeded = {}
    BY DEF VerdictIsWhole
  <2>1. Whole(stored)
    BY DEF Inv, VerdictInv
  <2>2. QED
    BY <2>1 DEF Whole
<1>2. QED
  BY <1>1, InitWhole, StepWhole, PTL DEF ChoreographySpec
=============================================================================

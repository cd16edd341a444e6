------------------------- MODULE BundleOrderProofs -------------------------
(***************************************************************************)
(* A success is Drone's own, and no component is promoted before the ones  *)
(* it comes after.  Both rest on what a session may remember: a cached or  *)
(* stored SUCCESS is a verdict Drone gave and never takes back, and a      *)
(* build number is that of a promotion of the deployment's own slot.       *)
(* With that, BundlePromotion implements PromotionLedger: asking is        *)
(* SendPromote, accepting is what Drone does, and every other step writes  *)
(* entries that the invariants make true.                                  *)
(***************************************************************************)
EXTENDS BundlePromotionProofs, BundleRefinement

Truthful(r, d) ==
  /\ r.build # 0 => r.build \in PromotionsOf(d)
  /\ r.status = "SUCCESS" => Accepted(d)

BundleTruthful(b) ==
  /\ bundle[b] = "SUCCESS" => \A d \in DepsOf(b) : Accepted(d)
  /\ bundle[b] = "PARTIAL_FAILURE" => \E d \in DepsOf(b) : Accepted(d)

SessionTruthful(s) ==
  /\ \A d \in Dep : Truthful(sess[s].mine[d], d)
  /\ sess[s].pc # "idle" => \A i \in 1..Len(Steps[sess[s].job]) :
       i < sess[s].at => sess[s].mine[Steps[sess[s].job][i]].status = "SUCCESS"
  /\ sess[s].mineB \in {"SUCCESS", "PARTIAL_FAILURE"} => sess[s].mineB = sess[s].seenB
  /\ sess[s].pc = "sent" =>
       sess[s].post \in DOMAIN log /\ log[sess[s].post].dep = Current(s)

BuildsTraced ==
  \A n \in DOMAIN drone :
    drone[n].post \in DOMAIN log /\ drone[n].dep = log[drone[n].post].dep

OrderInv ==
  /\ \A d \in Dep : Truthful(row[d], d)
  /\ \A b \in Bundle : BundleTruthful(b)
  /\ \A s \in Session : SessionTruthful(s)
  /\ BuildsTraced
  /\ OrderedRelease

LEMMA BlankTruthful == ASSUME NEW d PROVE Truthful(Blank, d) /\ Truthful(Created, d)
BY DEF Truthful, Blank, Created

LEMMA OrderInit == Init => OrderInv
<1> SUFFICES ASSUME Init PROVE OrderInv
  OBVIOUS
<1>1. \A d \in Dep : Truthful(row[d], d)
  BY BlankTruthful DEF Init
<1>2. \A b \in Bundle : BundleTruthful(b)
  BY DEF Init, BundleTruthful
<1>3. \A s \in Session : SessionTruthful(s)
  BY BlankTruthful DEF Init, SessionTruthful, Idle
<1>4. BuildsTraced /\ OrderedRelease
  BY DEF Init, BuildsTraced, OrderedRelease
<1>5. QED
  BY <1>1, <1>2, <1>3, <1>4 DEF OrderInv

----------------------------------------------------------------------------
(* Drone forgets no build and changes no verdict. *)

DroneGrows ==
  \A n \in DOMAIN drone :
    /\ n \in DOMAIN drone'
    /\ drone'[n].dep = drone[n].dep
    /\ drone[n].verdict # "running" => drone'[n].verdict = drone[n].verdict

LEMMA TruthfulStable ==
  ASSUME DroneGrows
  PROVE  /\ \A d : Accepted(d) => Accepted(d)'
         /\ \A r, d : Truthful(r, d) => /\ r.build # 0 => r.build \in PromotionsOf(d)'
                                        /\ r.status = "SUCCESS" => Accepted(d)'
<1>1. \A d : PromotionsOf(d) \subseteq PromotionsOf(d)'
  BY DEF DroneGrows, PromotionsOf
<1>2. \A d : \A n \in PromotionsOf(d) :
        Accepts(d, drone[n].verdict) => Accepts(d, drone'[n].verdict)
  BY DEF DroneGrows, PromotionsOf, Accepts
<1>3. \A d : Accepted(d) => Accepted(d)'
  BY <1>1, <1>2 DEF Accepted, Accepts
<1>4. QED
  BY <1>1, <1>3 DEF Truthful

LEMMA MergedTruthful ==
  ASSUME NEW d, NEW db, NEW seen, NEW mine, Truthful(db, d), Truthful(mine, d)
  PROVE  Truthful(Merged(db, seen, mine), d)
BY DEF Truthful, Merged

\* A step of one session that writes only what is true.
LEMMA LocalStep ==
  ASSUME TypeInv, TypeInv', OrderInv, NEW s \in Session,
         drone' = drone, log' = log,
         \A t \in Session : t # s => sess'[t] = sess[t],
         \A d \in Dep : Truthful(row'[d], d),
         \A b \in Bundle : BundleTruthful(b)',
         \A d \in Dep : Truthful(sess'[s].mine[d], d),
         sess'[s].pc # "idle" => \A i \in 1..Len(Steps[sess'[s].job]) :
           i < sess'[s].at => sess'[s].mine[Steps[sess'[s].job][i]].status = "SUCCESS",
         sess'[s].mineB \in {"SUCCESS", "PARTIAL_FAILURE"} => sess'[s].mineB = sess'[s].seenB,
         sess'[s].pc # "sent"
  PROVE  OrderInv'
<1>2. \A d \in Dep : Truthful(row[d], d)'
  BY SMTT(60) DEF Truthful, PromotionsOf, Accepted
<1>3. SessionTruthful(s)'
  BY SMTT(60) DEF SessionTruthful, Truthful, PromotionsOf, Accepted
<1>4. \A t \in Session : t # s => SessionTruthful(t)'
  <2>1. \A t \in Session : SessionTruthful(t)
    BY DEF OrderInv
  <2>2. \A t \in Session : t # s => Current(t)' = Current(t)
    BY DEF Current
  <2>3. QED
    <3> SUFFICES ASSUME NEW t \in Session, t # s PROVE SessionTruthful(t)'
      OBVIOUS
    <3>1. sess'[t] = sess[t] /\ Current(t)' = Current(t) /\ SessionTruthful(t)
      BY <2>1, <2>2
    <3>2. QED
      <4>1. \A d \in Dep : Truthful(sess[t].mine[d], d)'
        <5>1. \A d \in Dep : Truthful(sess[t].mine[d], d)
          BY <3>1 DEF SessionTruthful
        <5>2. QED
          BY <3>1, <5>1, ZenonT(60) DEF Truthful, PromotionsOf, Accepted
      <4>2. QED
        BY <3>1, <4>1, SMTT(60) DEF SessionTruthful
<1>5. BuildsTraced' /\ OrderedRelease'
  BY DEF OrderInv, BuildsTraced, OrderedRelease, PromotionsOf, Accepted
<1>6. QED
  BY <1>2, <1>3, <1>4, <1>5 DEF OrderInv
\* The status a session may write into its release's row.
VerdictHolds(s, mineB) ==
  mineB # sess[s].seenB =>
    /\ mineB = "SUCCESS" => \A d \in DepsOf(sess[s].job) : Accepted(d)
    /\ mineB = "PARTIAL_FAILURE" => \E d \in DepsOf(sess[s].job) : Accepted(d)

LEMMA CommitOrder ==
  ASSUME TypeInv, TypeInv', OrderInv, NEW s \in Session, sess[s].pc # "idle",
         NEW mine \in [Dep -> Row], NEW mineB, NEW next,
         next.pc # "idle" =>
           /\ next \in SessionState /\ next.pc # "sent"
           /\ \A i \in 1..Len(Steps[next.job]) :
                i < next.at => mine[Steps[next.job][i]].status = "SUCCESS",
         Commit(s, mine, mineB, next), drone' = drone, log' = log,
         \A d \in Dep : Truthful(mine[d], d),
         VerdictHolds(s, mineB)
  PROVE  OrderInv'
<1>1. /\ \A t \in Session : t # s => sess'[t] = sess[t]
      /\ sess'[s] = IF next.pc = "idle" THEN Idle ELSE
           [next EXCEPT !.seen = mine, !.mine = mine, !.seenB = mineB, !.mineB = mineB]
  BY DEF Commit, TypeInv, TypeOK
<1>2. \A d \in Dep : Truthful(row'[d], d)
  <2>1. \A d \in Dep : row'[d] = Merged(row[d], sess[s].seen[d], mine[d])
    BY DEF Commit, Flushed
  <2>2. QED
    BY <2>1, MergedTruthful DEF OrderInv
<1>3. \A b \in Bundle : BundleTruthful(b)'
  <2>1. \A b \in Bundle :
          bundle'[b] = IF b = sess[s].job /\ mineB # sess[s].seenB THEN mineB ELSE bundle[b]
    BY DEF Commit, TypeInv, TypeOK
  <2>2. \A d : Accepted(d)' <=> Accepted(d)
    BY DEF Accepted, PromotionsOf
  <2>3. QED
    BY <2>1, <2>2 DEF OrderInv, BundleTruthful, VerdictHolds
<1>4. CASE next.pc = "idle"
  <2>1. sess'[s] = Idle
    BY <1>1, <1>4
  <2>2. \A d \in Dep : Truthful(sess'[s].mine[d], d)
    BY <2>1, BlankTruthful DEF Idle
  <2>3. sess'[s].pc = "idle" /\ sess'[s].mineB = sess'[s].seenB
    BY <2>1, SMTT(60) DEF Idle
  <2>4. QED
    BY <1>1, <1>2, <1>3, <2>2, <2>3, LocalStep
<1>5. CASE next.pc # "idle"
  <2>1. /\ sess'[s].pc = next.pc /\ sess'[s].job = next.job /\ sess'[s].at = next.at
        /\ sess'[s].mine = mine /\ sess'[s].mineB = sess'[s].seenB
    BY <1>1, <1>5 DEF SessionState
  <2>2. \A i \in 1..Len(Steps[sess'[s].job]) :
          i < sess'[s].at => sess'[s].mine[Steps[sess'[s].job][i]].status = "SUCCESS"
    BY <1>5, <2>1
  <2>3. (\A d \in Dep : Truthful(sess'[s].mine[d], d)) /\ sess'[s].pc # "sent"
    BY <1>5, <2>1
  <2>4. QED
    BY <1>1, <1>2, <1>3, <2>1, <2>2, <2>3, LocalStep
<1>6. QED
  BY <1>4, <1>5

LEMMA FinishOrder ==
  ASSUME TypeInv, TypeInv', OrderInv, NEW s \in Session, sess[s].pc # "idle",
         NEW mine \in [Dep -> Row], NEW mineB, Finish(s, mine, mineB),
         \A d \in Dep : Truthful(mine[d], d), VerdictHolds(s, mineB)
  PROVE  OrderInv'
<1>1. Commit(s, mine, mineB, Idle) /\ UNCHANGED <<drone, wire, log, attempts>>
  BY DEF Finish
<1>2. Idle.pc = "idle"
  BY IdleType
<1>3. QED
  BY <1>1, <1>2, CommitOrder

\* A new state of the current row leaves the steps before it as they are.
LEMMA WithOrder ==
  ASSUME TypeInv, OrderInv, NEW s \in Session, sess[s].pc # "idle", NEW r, Truthful(r, Current(s))
  PROVE  /\ \A d \in Dep : Truthful(With(s, r)[d], d)
         /\ \A i \in 1..Len(Steps[sess[s].job]) :
              i < sess[s].at => With(s, r)[Steps[sess[s].job][i]].status = "SUCCESS"
<1>1. /\ Current(s) \in Dep /\ sess[s].mine \in [Dep -> Row]
      /\ sess[s].job \in Bundle /\ sess[s].at \in 1..Len(Steps[sess[s].job])
  BY CurrentIsDep, SessType
<1>2. \A d \in Dep : With(s, r)[d] = IF d = Current(s) THEN r ELSE sess[s].mine[d]
  BY <1>1 DEF With
<1>3. \A i \in 1..Len(Steps[sess[s].job]) :
        /\ Steps[sess[s].job][i] \in Dep
        /\ i # sess[s].at => Steps[sess[s].job][i] # Current(s)
  BY <1>1, StepIsDep, StepsAssumption DEF Current
<1>4. \A i \in 1..Len(Steps[sess[s].job]) :
        i < sess[s].at => sess[s].mine[Steps[sess[s].job][i]].status = "SUCCESS"
  BY DEF OrderInv, SessionTruthful
<1>5. \A d \in Dep : Truthful(sess[s].mine[d], d)
  BY DEF OrderInv, SessionTruthful
<1>6. QED
  BY <1>1, <1>2, <1>3, <1>4, <1>5

LEMMA OutcomeOrder ==
  ASSUME TypeInv, TypeInv', OrderInv, NEW s \in Session, sess[s].pc # "idle",
         NEW r \in Row, NEW mineB, Outcome(s, r, mineB),
         Truthful(r, Current(s)), VerdictHolds(s, mineB)
  PROVE  OrderInv'
<1> DEFINE next == IF r.status # "FAILED" THEN Idle
                   ELSE [sess[s] EXCEPT !.pc = "check", !.post = 0, !.attempt = 0]
<1>1. Commit(s, With(s, r), mineB, next) /\ UNCHANGED <<drone, log, attempts>>
  BY DEF Outcome
<1>2. next.pc # "idle" => /\ next \in SessionState /\ next.pc # "sent"
                          /\ next.job = sess[s].job /\ next.at = sess[s].at
  BY SessType, IdleType DEF SessionState
<1>3. With(s, r) \in [Dep -> Row]
  BY WithType
<1> HIDE DEF next
<1>4. QED
  BY <1>1, <1>2, <1>3, WithOrder, CommitOrder

LEMMA LookedOrder ==
  ASSUME TypeInv, TypeInv', OrderInv, NEW s \in Session, sess[s].pc # "idle",
         NEW r \in Row, NEW mineB, Looked(s, With(s, r), mineB),
         Truthful(r, Current(s)), mineB = "DEPLOYING" \/ mineB = sess[s].mineB
  PROVE  OrderInv'
<1>1. /\ \A t \in Session : t # s => sess'[t] = sess[t]
      /\ sess'[s].pc = "check" /\ sess'[s].mine = With(s, r)
      /\ sess'[s].job = sess[s].job /\ sess'[s].at = sess[s].at
      /\ sess'[s].mineB = mineB /\ sess'[s].seenB = sess[s].seenB
  BY SessType DEF Looked, TypeInv, TypeOK, SessionState
<1>2. drone' = drone /\ log' = log /\ row' = row /\ bundle' = bundle
  BY DEF Looked
<1>3. (\A d \in Dep : Truthful(row'[d], d)) /\ \A b \in Bundle : BundleTruthful(b)'
  BY <1>2 DEF OrderInv, BundleTruthful, Accepted, PromotionsOf
<1>4. sess'[s].mineB \in {"SUCCESS", "PARTIAL_FAILURE"} => sess'[s].mineB = sess'[s].seenB
  BY <1>1 DEF OrderInv, SessionTruthful
<1>5. QED
  BY <1>1, <1>2, <1>3, <1>4, WithOrder, LocalStep, SMTT(60)
----------------------------------------------------------------------------
(* The actions. *)

LEMMA SessTruth ==
  ASSUME OrderInv, NEW s \in Session
  PROVE  /\ \A d \in Dep : Truthful(sess[s].mine[d], d)
         /\ VerdictHolds(s, sess[s].mineB)
BY DEF OrderInv, SessionTruthful, VerdictHolds

LEMMA MineTruth ==
  ASSUME TypeInv, OrderInv, NEW s \in Session, sess[s].pc # "idle"
  PROVE  /\ Truthful(Mine(s), Current(s))
         /\ Truthful(Failed(s), Current(s))
         /\ \A n \in PromotionsOf(Current(s)) :
              Truthful([Mine(s) EXCEPT !.status = "DEPLOYING", !.build = n], Current(s))
<1>1. Truthful(Mine(s), Current(s)) /\ Mine(s) \in Row
  BY CurrentIsDep, SessTruth
<1> HIDE DEF Mine
<1>2. QED
  BY <1>1 DEF Truthful, Failed, Row

LEMMA OrderCall ==
  ASSUME TypeInv, TypeInv', OrderInv, NEW s \in Session, NEW b \in Bundle, Call(s, b)
  PROVE  OrderInv'
<1>1. \A t \in Session : t # s => sess'[t] = sess[t]
  BY DEF Call, CreateBundle, RefreshBundle, BeginRetry, TypeInv, TypeOK
<1>2. drone' = drone /\ log' = log
  BY DEF Call, CreateBundle, RefreshBundle, BeginRetry
<1>3. \A d \in Dep : Truthful(row[d], d) /\ Truthful(RowsRead(b)[d], d)
  BY BlankTruthful DEF OrderInv, RowsRead
<1>4. \A c \in Bundle : BundleTruthful(c)
  BY DEF OrderInv
<1>5. bundle' = bundle => \A c \in Bundle : BundleTruthful(c)'
  BY <1>2, <1>4 DEF BundleTruthful, Accepted, PromotionsOf
<1>6. CASE CreateBundle(s, b)
  <2>1. /\ sess'[s].pc = "step" /\ sess'[s].job = b /\ sess'[s].at = 1
        /\ sess'[s].mineB = sess'[s].seenB
        /\ \A d \in Dep : sess'[s].mine[d] \in {Created, Blank}
    BY <1>6 DEF CreateBundle, Opened, Idle, TypeInv, TypeOK
  <2>2. \A d \in Dep : Truthful(sess'[s].mine[d], d)
    BY <2>1, BlankTruthful
  <2>3. \A d \in Dep : Truthful(row'[d], d)
    BY <1>3, <1>6, BlankTruthful DEF CreateBundle
  <2>4. \A c \in Bundle : BundleTruthful(c)'
    <3>1. \A c \in Bundle : bundle'[c] = IF c = b THEN "PENDING" ELSE bundle[c]
      BY <1>6 DEF CreateBundle, TypeInv, TypeOK
    <3>2. QED
      BY <1>2, <1>4, <3>1 DEF BundleTruthful, Accepted, PromotionsOf
  <2>5. \A i \in 1..Len(Steps[sess'[s].job]) : ~(i < sess'[s].at)
    BY <2>1
  <2>6. QED
    BY <1>1, <1>2, <2>1, <2>2, <2>3, <2>4, <2>5, LocalStep
<1>7. CASE RefreshBundle(s, b)
  <2>1. /\ sess'[s].pc \in {"step", "check"} /\ sess'[s].job = b /\ sess'[s].at = 1
        /\ sess'[s].mineB = sess'[s].seenB /\ sess'[s].mine = RowsRead(b)
    BY <1>7, PhaseAtType DEF RefreshBundle, Opened, Idle, TypeInv, TypeOK
  <2>2. row' = row /\ bundle' = bundle
    BY <1>7 DEF RefreshBundle
  <2>3. \A i \in 1..Len(Steps[sess'[s].job]) : ~(i < sess'[s].at)
    BY <2>1
  <2>4. QED
    BY <1>1, <1>2, <1>3, <1>5, <2>1, <2>2, <2>3, LocalStep
<1>8. CASE BeginRetry(s, b)
  <2>1. /\ sess'[s].pc = "reset" /\ sess'[s].job = b /\ sess'[s].at = 1
        /\ sess'[s].mineB = "PENDING"
        /\ \A d \in Dep : sess'[s].mine[d] \in {Created, RowsRead(b)[d]}
    BY <1>8 DEF BeginRetry, Opened, Idle, TypeInv, TypeOK
  <2>2. row' = row /\ bundle' = bundle
    BY <1>8 DEF BeginRetry
  <2>3. \A d \in Dep : Truthful(sess'[s].mine[d], d)
    BY <1>3, <2>1, BlankTruthful
  <2>4. \A i \in 1..Len(Steps[sess'[s].job]) : ~(i < sess'[s].at)
    BY <2>1
  <2>5. QED
    BY <1>1, <1>2, <1>3, <1>5, <2>1, <2>2, <2>3, <2>4, LocalStep
<1>9. QED
  BY <1>6, <1>7, <1>8 DEF Call

LEMMA OrderRetry ==
  ASSUME TypeInv, TypeInv', OrderInv, NEW s \in Session, CommitRetry(s) PROVE OrderInv'
<1> DEFINE next == [sess[s] EXCEPT !.pc = PhaseAt(sess[s].job, sess[s].mine, 1)]
<1>1. /\ sess[s].pc = "reset" /\ drone' = drone /\ log' = log
      /\ Commit(s, sess[s].mine, sess[s].mineB, next)
  BY DEF CommitRetry
<1>2. /\ next \in SessionState /\ next.pc # "sent"
      /\ next.job = sess[s].job /\ next.at = sess[s].at
  BY SessType, PhaseAtType DEF SessionState
<1>3. \A i \in 1..Len(Steps[sess[s].job]) :
        i < sess[s].at => sess[s].mine[Steps[sess[s].job][i]].status = "SUCCESS"
  BY <1>1 DEF OrderInv, SessionTruthful
<1> HIDE DEF next
<1>4. QED
  BY <1>1, <1>2, <1>3, SessType, SessTruth, CommitOrder

LEMMA OrderRefresh ==
  ASSUME TypeInv, TypeInv', OrderInv, NEW s \in Session, Refresh(s) PROVE OrderInv'
<1>0. sess[s].pc # "idle"
  BY ZenonT(60) DEF Refresh, TimedOut, ReconcilePromotion, PollBuild, RecordPollFailure, InFlight
<1>1. CASE TimedOut(s)
  <2>1. Looked(s, With(s, Failed(s)), sess[s].mineB)
    BY <1>1 DEF TimedOut, Failed
  <2>2. QED
    BY <1>0, <2>1, RowsOfType, MineTruth, LookedOrder, ZenonT(60)
<1>2. CASE ReconcilePromotion(s)
  <2>1. PICK n \in PromotionsOf(Current(s)) :
          Looked(s, With(s, [Mine(s) EXCEPT !.status = "DEPLOYING", !.build = n]), "DEPLOYING")
    BY <1>2, ZenonT(60) DEF ReconcilePromotion
  <2>2. n \in Nat
    BY SMTT(60) DEF PromotionsOf, TypeInv, TypeOK
  <2>3. QED
    BY <1>0, <2>1, <2>2, RowsOfType, MineTruth, LookedOrder, ZenonT(60)
<1>3. CASE PollBuild(s)
  <2> DEFINE st == AfterVerdict(Current(s), drone[Mine(s).build].verdict)
             r == [Mine(s) EXCEPT !.status = st]
  <2>1. Mine(s).build # 0 /\ Looked(s, With(s, r), sess[s].mineB)
    BY <1>3 DEF PollBuild
  <2>2. st \in DeploymentStatus
    BY AfterVerdictType
  <2>3. Mine(s).build \in PromotionsOf(Current(s))
    BY <1>0, <2>1, MineTruth DEF Truthful
  <2>4. st = "SUCCESS" => Accepted(Current(s))
    BY <2>3 DEF AfterVerdict, Accepted
  <2>5. r \in Row
    BY <1>0, <2>2, RowsOfType, ZenonT(60)
  <2>6. r.status = st /\ r.build = Mine(s).build
    <3>1. Mine(s) \in Row
      BY <1>0, RowsOfType, ZenonT(60)
    <3> HIDE DEF st, Mine
    <3>2. QED
      BY <3>1 DEF Row
  <2>7. Truthful(r, Current(s))
    BY <2>3, <2>4, <2>6 DEF Truthful
  <2> HIDE DEF r
  <2>8. QED
    BY <1>0, <2>1, <2>5, <2>7, LookedOrder
<1>4. CASE RecordPollFailure(s)
  BY <1>0, <1>4, SessType, SessTruth, FinishOrder DEF RecordPollFailure
<1>5. QED
  BY <1>1, <1>2, <1>3, <1>4 DEF Refresh

LEMMA OrderClaim ==
  ASSUME TypeInv, TypeInv', OrderInv, NEW s \in Session, ClaimForPromotion(s) PROVE OrderInv'
<1> DEFINE d == Current(s)
           won == With(s, Claimed(row[d]))
           next == [sess[s] EXCEPT !.pc = "claimed", !.attempt = attempts[d],
                      !.seen = won, !.mine = won, !.seenB = "PROMOTING", !.mineB = "PROMOTING"]
<1>1. /\ sess[s].pc = "step"
      /\ row' = [Flushed(s, sess[s].mine) EXCEPT ![d] = Claimed(row[d])]
      /\ sess' = [sess EXCEPT ![s] = next]
      /\ drone' = drone /\ log' = log
  BY DEF ClaimForPromotion, AtWaiting
<1>2. d \in Dep
  BY <1>1, CurrentIsDep
<1>3. Truthful(Claimed(row[d]), d)
  BY <1>2 DEF OrderInv, Truthful, Claimed, TypeInv, TypeOK, Row
<1>4. \A t \in Session : t # s => sess'[t] = sess[t]
  BY <1>1 DEF TypeInv, TypeOK
<1>5. /\ sess'[s].pc = "claimed" /\ sess'[s].mine = won
      /\ sess'[s].job = sess[s].job /\ sess'[s].at = sess[s].at
      /\ sess'[s].mineB = sess'[s].seenB
  BY <1>1, SessType DEF TypeInv, TypeOK, SessionState
<1>6. /\ \A e \in Dep : Truthful(won[e], e)
      /\ \A i \in 1..Len(Steps[sess[s].job]) :
           i < sess[s].at => won[Steps[sess[s].job][i]].status = "SUCCESS"
  BY <1>1, <1>3, WithOrder
<1>7. \A e \in Dep : Truthful(row'[e], e)
  <2>1. \A e \in Dep : row'[e] = IF e = d THEN Claimed(row[d])
                                 ELSE Merged(row[e], sess[s].seen[e], sess[s].mine[e])
    BY <1>1 DEF Flushed
  <2>2. \A e \in Dep : Truthful(row[e], e) /\ Truthful(sess[s].mine[e], e)
    BY SessTruth DEF OrderInv
  <2> HIDE DEF d
  <2>3. QED
    BY <1>3, <2>1, <2>2, MergedTruthful
<1>8. \A b \in Bundle : BundleTruthful(b)'
  <2>1. \A b \in Bundle : bundle'[b] \in {bundle[b], "PROMOTING"}
    BY DEF ClaimForPromotion, TypeInv, TypeOK
  <2>2. QED
    BY <1>1, <2>1 DEF OrderInv, BundleTruthful, Accepted, PromotionsOf
<1> HIDE DEF won, next
<1>10. /\ \A e \in Dep : Truthful(sess'[s].mine[e], e)
       /\ sess'[s].pc # "idle" => \A i \in 1..Len(Steps[sess'[s].job]) :
            i < sess'[s].at => sess'[s].mine[Steps[sess'[s].job][i]].status = "SUCCESS"
  BY <1>5, <1>6
<1>11. /\ sess'[s].mineB \in {"SUCCESS", "PARTIAL_FAILURE"} => sess'[s].mineB = sess'[s].seenB
       /\ sess'[s].pc # "sent"
  BY <1>5
<1>12. drone' = drone /\ log' = log
  BY <1>1
<1>9. QED
  BY <1>4, <1>7, <1>8, <1>10, <1>11, <1>12, LocalStep

LEMMA OrderSend ==
  ASSUME TypeInv, TypeInv', OrderInv, NEW s \in Session, SendPromote(s) PROVE OrderInv'
<1> DEFINE entry == [dep |-> Current(s), attempt |-> sess[s].attempt]
<1>1. /\ sess[s].pc = "claimed" /\ log' = Append(log, entry)
      /\ row' = row /\ bundle' = bundle /\ drone' = drone
  BY DEF SendPromote
<1>2. sess' = [sess EXCEPT ![s].pc = "sent", ![s].post = Len(log')]
  BY DEF SendPromote
<1>3. log \in Seq([dep : Dep, attempt : Nat]) /\ Len(log) \in Nat
  BY DEF TypeInv, TypeOK
<1>4. /\ Len(log') = Len(log) + 1
      /\ \A p \in DOMAIN log : p \in DOMAIN log' /\ log'[p] = log[p]
      /\ Len(log') \in DOMAIN log' /\ log'[Len(log')] = entry
      /\ \A p \in DOMAIN log' : p \in DOMAIN log \/ p = Len(log')
  BY <1>1, <1>3
<1>5. \A t \in Session : t # s => sess'[t] = sess[t]
  BY <1>2 DEF TypeInv, TypeOK
<1>6. /\ sess'[s].pc = "sent" /\ sess'[s].post = Len(log')
      /\ sess'[s].mine = sess[s].mine
      /\ sess'[s].job = sess[s].job /\ sess'[s].at = sess[s].at
      /\ sess'[s].mineB = sess[s].mineB /\ sess'[s].seenB = sess[s].seenB
  BY <1>2, SessType DEF TypeInv, TypeOK, SessionState
<1>7. Current(s)' = Current(s) /\ entry.dep = Current(s)
  BY <1>6 DEF Current
<1> HIDE DEF entry
<1>9. \A d \in Dep : Truthful(row[d], d)'
  BY <1>1 DEF OrderInv, Truthful, PromotionsOf, Accepted
<1>10. \A b \in Bundle : BundleTruthful(b)'
  BY SMTT(60), <1>1 DEF OrderInv, BundleTruthful, PromotionsOf, Accepted
<1>11. SessionTruthful(s)'
  <2>1. SessionTruthful(s)
    BY DEF OrderInv
  <2>2. QED
    BY <1>1, <1>4, <1>6, <1>7, <2>1, ZenonT(60) DEF SessionTruthful, Truthful, PromotionsOf, Accepted
<1>12. \A t \in Session : t # s => SessionTruthful(t)'
  <2>1. \A t \in Session : SessionTruthful(t)
    BY DEF OrderInv
  <2>2. \A t \in Session : t # s => Current(t)' = Current(t)
    BY <1>5 DEF Current
  <2>3. QED
    <3> SUFFICES ASSUME NEW t \in Session, t # s PROVE SessionTruthful(t)'
      OBVIOUS
    <3>1. sess'[t] = sess[t] /\ Current(t)' = Current(t) /\ SessionTruthful(t)
      BY <1>5, <2>1, <2>2
    <3>2. QED
      BY <1>1, <1>4, <3>1, ZenonT(60) DEF SessionTruthful, Truthful, PromotionsOf, Accepted
<1>13. BuildsTraced'
  BY <1>1, <1>4 DEF OrderInv, BuildsTraced
<1>14. OrderedRelease'
  <2> SUFFICES ASSUME NEW b \in Bundle, NEW i \in 1..Len(Steps[b]), NEW j \in 1..Len(Steps[b]),
                      i < j, NEW p \in DOMAIN log', log'[p].dep = Steps[b][j]
               PROVE  Accepted(Steps[b][i])
    BY <1>1 DEF OrderedRelease, Accepted, PromotionsOf
  <2>1. CASE p \in DOMAIN log
    BY <1>4, <2>1 DEF OrderInv, OrderedRelease
  <2>2. CASE p = Len(log')
    <3>1. /\ sess[s].job \in Bundle /\ sess[s].at \in 1..Len(Steps[sess[s].job])
          /\ Steps[sess[s].job][sess[s].at] = Steps[b][j]
      BY <1>1, <1>4, <1>7, <2>2, SessType DEF Current
    <3>2. b = sess[s].job /\ j = sess[s].at
      BY <3>1, StepsAssumption, SMTT(60)
    <3>3. sess[s].mine[Steps[b][i]].status = "SUCCESS"
      BY SMTT(60), <1>1, <3>2 DEF OrderInv, SessionTruthful
    <3>4. QED
      BY <3>3, StepIsDep, SessTruth DEF Truthful
  <2>3. QED
    BY <1>4, <2>1, <2>2
<1>15. QED
  BY <1>1, <1>9, <1>10, <1>11, <1>12, <1>13, <1>14 DEF OrderInv
LEMMA OrderPromote ==
  ASSUME TypeInv, TypeInv', OrderInv, NEW s \in Session, Promote(s) PROVE OrderInv'
<1>0. sess[s].pc # "idle"
  BY ZenonT(60) DEF Promote, ClaimForPromotion, LoseClaim, RefuseDispatch, SendPromote, RecordPromotion,
         MarkPromotionUnconfirmed, RejectPromote, UnusableAnswer, AtWaiting
<1>1. CASE ClaimForPromotion(s)
  BY <1>1, OrderClaim
<1>2. CASE LoseClaim(s)
  <2>1. /\ sess[s].pc = "step" /\ row' = row /\ bundle' = bundle /\ drone' = drone /\ log' = log
        /\ \A t \in Session : t # s => sess'[t] = sess[t]
        /\ sess'[s].pc = "check" /\ sess'[s].mine = With(s, row[Current(s)])
        /\ sess'[s].job = sess[s].job /\ sess'[s].at = sess[s].at
        /\ sess'[s].mineB = sess[s].mineB /\ sess'[s].seenB = sess[s].seenB
    <3> DEFINE c == Current(s)
               next == [sess[s] EXCEPT !.pc = "check",
                          !.seen = [sess[s].seen EXCEPT ![c] = row[c]],
                          !.mine = [sess[s].mine EXCEPT ![c] = row[c]]]
    <3>1. sess' = [sess EXCEPT ![s] = next]
      BY <1>2, SessType, ZenonT(60) DEF LoseClaim, TypeInv, TypeOK, SessionState
    <3>2. sess \in [Session -> SessionState] /\ sess[s] \in SessionState
      BY DEF TypeInv, TypeOK
    <3>3. /\ next.pc = "check" /\ next.mine = [sess[s].mine EXCEPT ![c] = row[c]]
          /\ next.job = sess[s].job /\ next.at = sess[s].at
          /\ next.mineB = sess[s].mineB /\ next.seenB = sess[s].seenB
      BY <3>2 DEF SessionState
    <3>4. [sess[s].mine EXCEPT ![c] = row[c]] = With(s, row[c])
      BY DEF With
    <3> HIDE DEF c, next
    <3>5. sess'[s] = next /\ \A t \in Session : t # s => sess'[t] = sess[t]
      BY <3>1, <3>2
    <3>6. sess[s].pc = "step" /\ row' = row /\ bundle' = bundle /\ drone' = drone /\ log' = log
      BY <1>2 DEF LoseClaim, AtWaiting
    <3>7. QED
      BY <3>3, <3>4, <3>5, <3>6 DEF c
  <2>2. Truthful(row[Current(s)], Current(s))
    BY <1>0, CurrentIsDep DEF OrderInv
  <2>3. (\A d \in Dep : Truthful(row'[d], d)) /\ \A b \in Bundle : BundleTruthful(b)'
    BY <2>1 DEF OrderInv, BundleTruthful, Accepted, PromotionsOf
  <2>4. sess'[s].mineB \in {"SUCCESS", "PARTIAL_FAILURE"} => sess'[s].mineB = sess'[s].seenB
    BY <2>1 DEF OrderInv, SessionTruthful
  <2>5. QED
    BY <1>0, <2>1, <2>2, <2>3, <2>4, WithOrder, LocalStep, SMTT(60)
<1>3. CASE RefuseDispatch(s)
  BY <1>0, <1>3, RowsOfType, SessTruth, MineTruth, OutcomeOrder, ZenonT(60) DEF RefuseDispatch
<1>4. CASE SendPromote(s)
  BY <1>4, OrderSend
<1>5. CASE RecordPromotion(s)
  <2>1. PICK n \in DOMAIN drone :
          /\ sess[s].pc = "sent" /\ drone[n].post = sess[s].post
          /\ Outcome(s, [Mine(s) EXCEPT !.status = "DEPLOYING", !.build = n], "DEPLOYING")
    BY <1>5, ZenonT(60) DEF RecordPromotion
  <2>2. n \in Nat
    BY DroneFacts
  <2>3. n \in PromotionsOf(Current(s))
    BY <2>1 DEF OrderInv, SessionTruthful, BuildsTraced, PromotionsOf
  <2>4. VerdictHolds(s, "DEPLOYING")
    BY DEF VerdictHolds
  <2>5. QED
    BY <1>0, <2>1, <2>2, <2>3, <2>4, RowsOfType, MineTruth, OutcomeOrder, ZenonT(60)
<1>6. CASE MarkPromotionUnconfirmed(s)
  BY <1>0, <1>6, RowsOfType, SessTruth, MineTruth, OutcomeOrder, ZenonT(60) DEF MarkPromotionUnconfirmed
<1>7. CASE RejectPromote(s)
  BY <1>0, <1>7, RowsOfType, SessTruth, MineTruth, OutcomeOrder, ZenonT(60) DEF RejectPromote
<1>8. CASE UnusableAnswer(s)
  BY <1>0, <1>8, RowsOfType, SessTruth, MineTruth, OutcomeOrder, ZenonT(60) DEF UnusableAnswer
<1>9. QED
  BY <1>1, <1>2, <1>3, <1>4, <1>5, <1>6, <1>7, <1>8 DEF Promote

LEMMA OrderSettle ==
  ASSUME TypeInv, TypeInv', OrderInv, NEW s \in Session, Settle(s) PROVE OrderInv'
<1>0. sess[s].pc = "check" /\ sess[s].job \in Bundle /\ sess[s].at \in 1..Len(Steps[sess[s].job])
  BY SessType DEF Settle, NextStep, FinishSuccess, FailBundle, EndPass, Checking
<1>00. /\ \A d \in Dep : Truthful(sess[s].mine[d], d)
       /\ \A i \in 1..Len(Steps[sess[s].job]) :
            i < sess[s].at => sess[s].mine[Steps[sess[s].job][i]].status = "SUCCESS"
  BY <1>0, SMTT(60) DEF OrderInv, SessionTruthful
<1>1. CASE NextStep(s)
  <2>1. /\ sess[s].mine[Steps[sess[s].job][sess[s].at]].status = "SUCCESS"
        /\ row' = row /\ bundle' = bundle /\ drone' = drone /\ log' = log
        /\ \A t \in Session : t # s => sess'[t] = sess[t]
        /\ sess'[s].pc \in {"step", "check"} /\ sess'[s].mine = sess[s].mine
        /\ sess'[s].job = sess[s].job /\ sess'[s].at = sess[s].at + 1
        /\ sess'[s].mineB = sess[s].mineB /\ sess'[s].seenB = sess[s].seenB
    <3>1. PICK pc \in {"step", "check"} :
            sess' = [sess EXCEPT ![s] = [sess[s] EXCEPT !.at = sess[s].at + 1, !.pc = pc]]
      <4>1. sess' = [sess EXCEPT ![s] = [sess[s] EXCEPT !.at = sess[s].at + 1,
                       !.pc = PhaseAt(sess[s].job, sess[s].mine, sess[s].at + 1)]]
        BY <1>1, SessType DEF NextStep, TypeInv, TypeOK, SessionState
      <4>2. QED
        BY <4>1, PhaseAtType
    <3>2. sess \in [Session -> SessionState] /\ sess[s] \in SessionState
      BY DEF TypeInv, TypeOK
    <3>3. sess'[s] = [sess[s] EXCEPT !.at = sess[s].at + 1, !.pc = pc]
      BY <3>1, <3>2
    <3>4. \A t \in Session : t # s => sess'[t] = sess[t]
      BY <3>1, <3>2
    <3>5. /\ sess'[s].pc = pc /\ sess'[s].mine = sess[s].mine
          /\ sess'[s].job = sess[s].job /\ sess'[s].at = sess[s].at + 1
          /\ sess'[s].mineB = sess[s].mineB /\ sess'[s].seenB = sess[s].seenB
      BY <3>2, <3>3 DEF SessionState
    <3>6. sess[s].mine[Steps[sess[s].job][sess[s].at]].status = "SUCCESS"
      BY <1>1 DEF NextStep, StepDone, Mine, Current
    <3>7. row' = row /\ bundle' = bundle /\ drone' = drone /\ log' = log
      BY <1>1 DEF NextStep
    <3>8. QED
      BY <3>4, <3>5, <3>6, <3>7
  <2>2. \A i \in 1..Len(Steps[sess'[s].job]) :
          i < sess'[s].at => sess'[s].mine[Steps[sess'[s].job][i]].status = "SUCCESS"
    <3>1. Len(Steps[sess[s].job]) \in Nat
      BY <1>0, StepsAssumption
    <3>2. \A i \in 1..Len(Steps[sess[s].job]) : i < sess[s].at + 1 => i < sess[s].at \/ i = sess[s].at
      BY <1>0, <3>1
    <3>3. QED
      BY <1>00, <2>1, <3>2
  <2>3. (\A d \in Dep : Truthful(row'[d], d)) /\ \A b \in Bundle : BundleTruthful(b)'
    BY <2>1 DEF OrderInv, BundleTruthful, Accepted, PromotionsOf
  <2>4. sess'[s].mineB \in {"SUCCESS", "PARTIAL_FAILURE"} => sess'[s].mineB = sess'[s].seenB
    BY <2>1 DEF OrderInv, SessionTruthful
  <2>5. (\A d \in Dep : Truthful(sess'[s].mine[d], d)) /\ sess'[s].pc # "sent"
    BY <1>00, <2>1
  <2>6. QED
    BY <2>1, <2>2, <2>3, <2>4, <2>5, LocalStep
<1>2. CASE FinishSuccess(s)
  <2>1. /\ sess[s].mine[Steps[sess[s].job][sess[s].at]].status = "SUCCESS"
        /\ sess[s].at = Len(Steps[sess[s].job])
        /\ Finish(s, sess[s].mine, "SUCCESS")
    BY <1>2 DEF FinishSuccess, StepDone, LastStep, Mine, Current
  <2>2. \A i \in 1..Len(Steps[sess[s].job]) : sess[s].mine[Steps[sess[s].job][i]].status = "SUCCESS"
    <3>1. \A i \in 1..Len(Steps[sess[s].job]) : i < sess[s].at \/ i = sess[s].at
      BY <1>0, <2>1
    <3>2. QED
      BY <1>00, <2>1, <3>1
  <2>3. \A d \in DepsOf(sess[s].job) : Accepted(d)
    BY <1>0, <1>00, <2>2, StepIsDep DEF Truthful, DepsOf
  <2>4. VerdictHolds(s, "SUCCESS")
    BY <2>3 DEF VerdictHolds
  <2>5. QED
    BY <1>0, <1>00, <2>1, <2>4, SessType, FinishOrder
<1>3. CASE FailBundle(s)
  <2> DEFINE after == [d \in Dep |-> Stopped(sess[s].mine[d])]
             verdict == IF \E d \in DepsOf(sess[s].job) : after[d].status = "SUCCESS"
                        THEN "PARTIAL_FAILURE" ELSE "FAILED"
  <2>1. after \in [Dep -> Row]
    BY SessType, StoppedType
  <2>2. Finish(s, after, verdict)
    BY <1>3 DEF FailBundle
  <2>3. \A d \in Dep : /\ after[d].build = sess[s].mine[d].build
                       /\ after[d].status = "SUCCESS" => sess[s].mine[d].status = "SUCCESS"
    BY SessType DEF Stopped, Row
  <2>4. \A d \in Dep : Truthful(after[d], d)
    BY <1>00, <2>3 DEF Truthful
  <2> HIDE DEF after
  <2>5. VerdictHolds(s, verdict)
    BY <1>0, <2>4, DepsAreDeps DEF VerdictHolds, Truthful
  <2> HIDE DEF verdict
  <2>6. QED
    BY <1>0, <2>1, <2>2, <2>4, <2>5, FinishOrder
<1>4. CASE EndPass(s)
  BY <1>0, <1>4, SessType, SessTruth, FinishOrder DEF EndPass
<1>5. QED
  BY <1>1, <1>2, <1>3, <1>4 DEF Settle

LEMMA OrderRaise ==
  ASSUME TypeInv, TypeInv', OrderInv, NEW s \in Session, Raise(s) PROVE OrderInv'
<1>1. /\ \A t \in Session : t # s => sess'[t] = sess[t]
      /\ sess'[s] = Idle
      /\ row' = row /\ bundle' = bundle /\ drone' = drone /\ log' = log
  BY DEF Raise, TypeInv, TypeOK
<1>2. \A d \in Dep : Truthful(sess'[s].mine[d], d)
  BY <1>1, BlankTruthful DEF Idle
<1>3. sess'[s].pc = "idle" /\ sess'[s].mineB = sess'[s].seenB
  BY <1>1 DEF Idle
<1>4. (\A d \in Dep : Truthful(row'[d], d)) /\ \A b \in Bundle : BundleTruthful(b)'
  BY <1>1 DEF OrderInv, BundleTruthful, Accepted, PromotionsOf
<1>5. QED
  BY <1>1, <1>2, <1>3, <1>4, LocalStep

\* Drone's own steps make more true, never less.
LEMMA GrowthOrder ==
  ASSUME OrderInv, DroneGrows, UNCHANGED <<row, bundle, sess, log>>, BuildsTraced'
  PROVE  OrderInv'
<1>1. \A d \in Dep : Truthful(row[d], d)'
  BY TruthfulStable DEF OrderInv, Truthful
<1>2. \A b \in Bundle : BundleTruthful(b)'
  BY TruthfulStable DEF OrderInv, BundleTruthful, DepsOf
<1>3. ASSUME NEW s \in Session PROVE SessionTruthful(s)'
  <2>1. SessionTruthful(s)
    BY DEF OrderInv
  <2>2. \A d \in Dep : Truthful(sess[s].mine[d], d)'
    BY <2>1, TruthfulStable DEF SessionTruthful, Truthful
  <2>3. QED
    BY <2>1, <2>2 DEF SessionTruthful, Current
<1>4. OrderedRelease'
  BY TruthfulStable DEF OrderInv, OrderedRelease
<1>5. QED
  BY <1>1, <1>2, <1>3, <1>4 DEF OrderInv

LEMMA OrderDrone ==
  ASSUME TypeInv, TypeInv', OrderInv,
         \/ \E p \in wire : CreatePromotion(p)
         \/ \E n \in DOMAIN drone : FinishBuild(n)
  PROVE  OrderInv'
<1>1. BuildsTraced
  BY DEF OrderInv
<1>2. ASSUME NEW p \in wire, CreatePromotion(p) PROVE OrderInv'
  <2> DEFINE new == [dep |-> log[p].dep, post |-> p, verdict |-> "running"]
  <2>1. /\ drone' = Append(drone, new) /\ p \in DOMAIN log
        /\ UNCHANGED <<row, bundle, sess, log>>
    BY <1>2 DEF CreatePromotion, TypeInv, TypeOK
  <2>2. drone \in Seq([dep : Dep, post : Nat \ {0}, verdict : Verdict])
    BY DEF TypeInv, TypeOK
  <2>3. new \in [dep : Dep, post : Nat \ {0}, verdict : Verdict]
    BY <2>1, LogFacts DEF Verdict
  <2>4. new.post = p /\ new.dep = log[p].dep
    OBVIOUS
  <2> HIDE DEF new
  <2>5. /\ \A n \in DOMAIN drone : n \in DOMAIN drone' /\ drone'[n] = drone[n]
        /\ \A n \in DOMAIN drone' : n \in DOMAIN drone \/ drone'[n] = new
    BY <2>1, <2>2, <2>3
  <2>6. DroneGrows
    BY <2>5 DEF DroneGrows
  <2>7. BuildsTraced'
    BY <1>1, <2>1, <2>4, <2>5 DEF BuildsTraced
  <2>8. QED
    BY <2>1, <2>6, <2>7, GrowthOrder
<1>3. ASSUME NEW n \in DOMAIN drone, FinishBuild(n) PROVE OrderInv'
  <2>1. PICK v \in Verdict \ {"running"} : drone' = [drone EXCEPT ![n].verdict = v]
    BY <1>3 DEF FinishBuild
  <2>2. /\ DOMAIN drone' = DOMAIN drone
        /\ \A m \in DOMAIN drone : m # n => drone'[m] = drone[m]
        /\ drone'[n] = [drone[n] EXCEPT !.verdict = v]
    BY <2>1 DEF TypeInv, TypeOK
  <2>3. drone'[n].dep = drone[n].dep /\ drone'[n].post = drone[n].post
    BY <2>2, DroneFacts
  <2>4. DroneGrows
    BY <1>3, <2>2, <2>3 DEF DroneGrows, FinishBuild
  <2>5. UNCHANGED <<row, bundle, sess, log>>
    BY <1>3 DEF FinishBuild
  <2>6. BuildsTraced'
    BY ZenonT(60), <1>1, <2>2, <2>3, <2>5 DEF BuildsTraced
  <2>7. QED
    BY <2>4, <2>5, <2>6, GrowthOrder
<1>4. QED
  BY <1>2, <1>3

LEMMA OrderStep == TypeInv /\ TypeInv' /\ OrderInv /\ [Next]_vars => OrderInv'
<1> SUFFICES ASSUME TypeInv, TypeInv', OrderInv, [Next]_vars PROVE OrderInv'
  OBVIOUS
<1>1. CASE \E s \in Request, b \in Bundle : Call(s, b)
  BY <1>1, OrderCall, SessionFacts
<1>2. CASE \E b \in Bundle : ResumeDeployments(b)
  BY <1>2, OrderCall, SessionFacts DEF ResumeDeployments, Call
<1>3. ASSUME NEW s \in Session,
             CommitRetry(s) \/ Refresh(s) \/ Promote(s) \/ Settle(s) \/ Raise(s)
      PROVE  OrderInv'
  BY <1>3, OrderRetry, OrderRefresh, OrderPromote, OrderSettle, OrderRaise
<1>4. CASE \/ \E p \in wire : CreatePromotion(p)
           \/ \E n \in DOMAIN drone : FinishBuild(n)
  BY <1>4, OrderDrone
<1>5. CASE UNCHANGED vars
  <2>1. DroneGrows /\ UNCHANGED <<row, bundle, sess, log>>
    BY <1>5 DEF vars, DroneGrows
  <2>2. BuildsTraced'
    BY <1>5 DEF vars, OrderInv, BuildsTraced
  <2>3. QED
    BY <2>1, <2>2, GrowthOrder
<1>6. QED
  BY <1>1, <1>2, <1>3, <1>4, <1>5 DEF Next

LEMMA OrderInvAlways == Spec => []OrderInv
<1>1. Init => OrderInv
  BY OrderInit
<1>2. TypeInv /\ TypeInv' /\ OrderInv /\ [Next]_vars => OrderInv'
  BY OrderStep
<1>3. QED
  BY <1>1, <1>2, TypeInvAlways, PTL DEF Spec

\* Whatever session, retry or late answer it comes from, no request to promote
\* a component is sent before Drone accepted every component ahead of it.
THEOREM ComponentsInOrder == Spec => []OrderedRelease
<1>1. OrderInv => OrderedRelease
  BY DEF OrderInv
<1>2. QED
  BY <1>1, OrderInvAlways, PTL

\* A deployment or a release on record as succeeded did succeed in Drone,
\* and a partial failure did put a component into production.
THEOREM SuccessFromDrone == Spec => []SuccessIsReal
<1>1. OrderInv => SuccessIsReal
  BY DEF OrderInv, SuccessIsReal, Truthful, BundleTruthful
<1>2. QED
  BY <1>1, OrderInvAlways, PTL

----------------------------------------------------------------------------
(* The ledger of promotions                                                 *)

LEMMA LedgerInit == Init => Ledger!Init
<1> SUFFICES ASSUME Init PROVE Ledger!Init
  OBVIOUS
<1>1. AcceptedDeps = {}
  BY DEF Init, AcceptedDeps, Accepted, PromotionsOf
<1>2. DoneDeps = {}
  BY DEF Init, DoneDeps, Blank
<1>3. Written = [b \in Bundle |-> "open"]
  BY DEF Init, Written
<1>4. QED
  BY <1>1, <1>2, <1>3 DEF Init, Ledger!Init

\* What a step that sends nothing and changes nothing in Drone writes.
LEMMA LedgerWrite ==
  ASSUME OrderInv', drone' = drone, log' = log,
         \E opened \in SUBSET Dep :
           attempts' = [d \in Dep |-> IF d \in opened THEN attempts[d] + 1 ELSE attempts[d]]
  PROVE  Ledger!Write
<1>1. AcceptedDeps' = AcceptedDeps
  BY DEF AcceptedDeps, Accepted, PromotionsOf
<1>2. DoneDeps' \in SUBSET AcceptedDeps
  <2>1. \A d \in Dep : row'[d].status = "SUCCESS" => Accepted(d)'
    BY DEF OrderInv, Truthful
  <2>2. QED
    BY <1>1, <2>1 DEF DoneDeps, AcceptedDeps
<1>3. Written' \in [Bundle -> {"open", "released", "partly"}]
  BY DEF Written
<1>4. ASSUME NEW b \in Bundle PROVE Ledger!Truthful(b, Written'[b])
  <2>1. BundleTruthful(b)'
    BY DEF OrderInv
  <2>2. DepsOf(b) \subseteq Dep /\ Ledger!Components(b) = DepsOf(b)
    BY DepsAreDeps DEF DepsOf, Ledger!Components
  <2>3. Written'[b] = "released" => bundle'[b] = "SUCCESS"
    BY DEF Written
  <2>4. Written'[b] = "partly" => bundle'[b] = "PARTIAL_FAILURE"
    BY DEF Written
  <2>5. /\ bundle'[b] = "SUCCESS" => \A d \in DepsOf(b) : Accepted(d)'
        /\ bundle'[b] = "PARTIAL_FAILURE" => \E d \in DepsOf(b) : Accepted(d)'
    BY <2>1 DEF BundleTruthful, DepsOf
  <2>6. \A d \in Dep : Accepted(d)' => d \in AcceptedDeps
    BY <1>1 DEF AcceptedDeps
  <2>7. QED
    BY <2>2, <2>3, <2>4, <2>5, <2>6 DEF Ledger!Truthful
<1>5. QED
  BY <1>1, <1>2, <1>3, <1>4 DEF Ledger!Write

LEMMA LedgerIdle ==
  ASSUME TypeInv, OrderInv', UNCHANGED <<drone, log, attempts>>
  PROVE  Ledger!Write
<1>1. attempts' = [d \in Dep |-> attempts[d]]
  BY DEF TypeInv, TypeOK
<1>2. \E opened \in SUBSET Dep :
        attempts' = [d \in Dep |-> IF d \in opened THEN attempts[d] + 1 ELSE attempts[d]]
  <2>1. {} \in SUBSET Dep
    OBVIOUS
  <2>2. attempts' = [d \in Dep |-> IF d \in {} THEN attempts[d] + 1 ELSE attempts[d]]
    BY <1>1
  <2>3. QED
    BY <2>1, <2>2
<1>3. QED
  BY <1>2, LedgerWrite

\* The claim and the order of the components make a request the ledger's.
LEMMA LedgerAsk ==
  ASSUME TypeInv, ClaimInv, OrderInv', NEW s \in Session, SendPromote(s)
  PROVE  \E d \in Dep : Ledger!Ask(d)
<1>1. /\ sess[s].pc = "claimed" /\ log' = Append(log, Ticket(s))
      /\ drone' = drone /\ row' = row /\ bundle' = bundle /\ attempts' = attempts
  BY DEF SendPromote, Ticket
<1>2. Current(s) \in Dep /\ sess[s].attempt \in Nat
  BY <1>1, CurrentIsDep DEF TypeInv, TypeOK, SessionState
<1>3. sess[s].attempt \in 0..attempts[Current(s)] /\ ~Sent(Ticket(s))
  BY <1>1, <1>2 DEF ClaimInv, TypeInv, TypeOK
<1>4. /\ AcceptedDeps' = AcceptedDeps /\ DoneDeps' = DoneDeps /\ Written' = Written
  BY <1>1 DEF AcceptedDeps, DoneDeps, Written, Accepted, PromotionsOf
<1>5. \E p \in DOMAIN log' : log'[p].dep = Current(s)
  <2>1. log \in Seq([dep : Dep, attempt : Nat]) /\ Ticket(s) \in [dep : Dep, attempt : Nat]
    BY <1>2 DEF TypeInv, TypeOK, Ticket
  <2>2. Len(log) + 1 \in DOMAIN log' /\ log'[Len(log) + 1] = Ticket(s)
    BY <1>1, <2>1
  <2>3. QED
    BY <2>2 DEF Ticket
<1>6. Ledger!Before(Current(s)) \subseteq AcceptedDeps
  <2> SUFFICES ASSUME NEW e \in Dep, NEW b \in Bundle,
                      NEW i \in 1..Len(Steps[b]), NEW j \in 1..Len(Steps[b]),
                      i < j, e = Steps[b][i], Current(s) = Steps[b][j]
               PROVE  e \in AcceptedDeps
    BY DEF Ledger!Before
  <2>1. OrderedRelease'
    BY DEF OrderInv
  <2>2. Accepted(Steps[b][i])'
    BY <1>5, <2>1 DEF OrderedRelease
  <2>3. QED
    BY <1>1, <2>2 DEF AcceptedDeps, Accepted, PromotionsOf
<1>7. \E k \in 0..attempts[Current(s)] :
         /\ \A p \in DOMAIN log : log[p] # [dep |-> Current(s), attempt |-> k]
         /\ log' = Append(log, [dep |-> Current(s), attempt |-> k])
  BY <1>1, <1>3 DEF Sent, Ticket
<1>8. QED
  BY <1>1, <1>2, <1>4, <1>6, <1>7 DEF Ledger!Ask

LEMMA DroneStep ==
  ASSUME TypeInv,
         \/ \E p \in wire : CreatePromotion(p)
         \/ \E n \in DOMAIN drone : FinishBuild(n)
  PROVE  DroneGrows /\ UNCHANGED <<row, bundle, sess, log, attempts>>
<1>1. ASSUME NEW p \in wire, CreatePromotion(p) PROVE DroneGrows
  <2> DEFINE new == [dep |-> log[p].dep, post |-> p, verdict |-> "running"]
  <2>1. drone' = Append(drone, new) /\ p \in DOMAIN log
    BY <1>1 DEF CreatePromotion, TypeInv, TypeOK
  <2>2. drone \in Seq([dep : Dep, post : Nat \ {0}, verdict : Verdict])
    BY DEF TypeInv, TypeOK
  <2>3. new \in [dep : Dep, post : Nat \ {0}, verdict : Verdict]
    BY <2>1, LogFacts DEF Verdict
  <2> HIDE DEF new
  <2>4. \A n \in DOMAIN drone : n \in DOMAIN drone' /\ drone'[n] = drone[n]
    BY <2>1, <2>2, <2>3
  <2>5. QED
    BY <2>4 DEF DroneGrows
<1>2. ASSUME NEW n \in DOMAIN drone, FinishBuild(n) PROVE DroneGrows
  <2>1. PICK v \in Verdict \ {"running"} : drone' = [drone EXCEPT ![n].verdict = v]
    BY <1>2 DEF FinishBuild
  <2>2. /\ DOMAIN drone' = DOMAIN drone
        /\ \A m \in DOMAIN drone : m # n => drone'[m] = drone[m]
        /\ drone'[n] = [drone[n] EXCEPT !.verdict = v]
    BY <2>1 DEF TypeInv, TypeOK
  <2>3. drone'[n].dep = drone[n].dep
    BY <2>2, DroneFacts
  <2>4. QED
    BY <1>2, <2>2, <2>3 DEF DroneGrows, FinishBuild
<1>3. UNCHANGED <<row, bundle, sess, log, attempts>>
  BY DEF CreatePromotion, FinishBuild
<1>4. QED
  BY <1>1, <1>2, <1>3

\* Drone accepts only what it was asked for, and takes no acceptance back.
LEMMA LedgerAccept ==
  ASSUME TypeInv, OrderInv', DroneGrows, UNCHANGED <<row, bundle, sess, log, attempts>>
  PROVE  Ledger!Accept
<1>1. AcceptedDeps \subseteq AcceptedDeps'
  BY TruthfulStable DEF AcceptedDeps
<1>2. ASSUME NEW d \in Dep, Accepted(d)' PROVE \E p \in DOMAIN log : Slot[log[p].dep] = Slot[d]
  <2>1. PICK n \in DOMAIN drone' : Slot[drone'[n].dep] = Slot[d]
    BY <1>2 DEF Accepted, PromotionsOf
  <2>2. drone'[n].post \in DOMAIN log' /\ drone'[n].dep = log'[drone'[n].post].dep
    BY DEF OrderInv, BuildsTraced
  <2>3. QED
    BY <2>1, <2>2
<1>3. AcceptedDeps' \in SUBSET {d \in Dep : \E p \in DOMAIN log : Slot[log[p].dep] = Slot[d]}
  BY <1>2 DEF AcceptedDeps
<1>4. AcceptedDeps' = AcceptedDeps \cup AcceptedDeps'
  BY <1>1
<1>5. DoneDeps' = DoneDeps /\ Written' = Written
  BY DEF DoneDeps, Written
<1>6. QED
  BY <1>3, <1>4, <1>5 DEF Ledger!Accept

LEMMA LedgerCall ==
  ASSUME TypeInv, OrderInv', NEW s \in Session, NEW b \in Bundle, Call(s, b)
  PROVE  Ledger!Write
<1>1. CASE CreateBundle(s, b)
  <2>1. /\ drone' = drone /\ log' = log
        /\ attempts' = [d \in Dep |->
             IF d \in DepsOf(b) THEN attempts[d] + 1 ELSE attempts[d]]
    BY <1>1 DEF CreateBundle
  <2>2. QED
    BY <2>1, DepsAreDeps, LedgerWrite
<1>2. CASE RefreshBundle(s, b) \/ BeginRetry(s, b)
  BY <1>2, LedgerIdle DEF RefreshBundle, BeginRetry
<1>3. QED
  BY <1>1, <1>2 DEF Call

LEMMA LedgerRetry ==
  ASSUME TypeInv, OrderInv', NEW s \in Session, CommitRetry(s)
  PROVE  Ledger!Write
<1> DEFINE opened == {d \in Dep : sess[s].mine[d].status = "WAITING"
                                  /\ sess[s].seen[d].status # "WAITING"}
<1>1. /\ drone' = drone /\ log' = log
      /\ attempts' = [d \in Dep |-> IF d \in opened THEN attempts[d] + 1 ELSE attempts[d]]
  BY DEF CommitRetry
<1>2. opened \in SUBSET Dep
  OBVIOUS
<1> HIDE DEF opened
<1>3. QED
  BY <1>1, <1>2, LedgerWrite

LEMMA LedgerStep ==
  TypeInv /\ ClaimInv /\ OrderInv' /\ [Next]_vars => [Ledger!Next]_(Ledger!ledger)
<1> SUFFICES ASSUME TypeInv, ClaimInv, OrderInv', [Next]_vars
             PROVE  [Ledger!Next]_(Ledger!ledger)
  OBVIOUS
<1>1. CASE \E s \in Request, b \in Bundle : Call(s, b)
  BY <1>1, LedgerCall, SessionFacts DEF Ledger!Next
<1>2. CASE \E b \in Bundle : ResumeDeployments(b)
  BY <1>2, LedgerCall, SessionFacts DEF ResumeDeployments, Call, Ledger!Next
<1>3. ASSUME NEW s \in Session, CommitRetry(s) PROVE Ledger!Next
  BY <1>3, LedgerRetry DEF Ledger!Next
<1>4. ASSUME NEW s \in Session, SendPromote(s) PROVE Ledger!Next
  BY <1>4, LedgerAsk DEF Ledger!Next
<1>5. ASSUME NEW s \in Session, Refresh(s) \/ (Promote(s) /\ ~SendPromote(s)) \/ Settle(s) \/ Raise(s)
      PROVE  Ledger!Next
  <2>1. UNCHANGED <<drone, log, attempts>>
    <3>1. CASE Refresh(s)
      BY <3>1, ZenonT(60) DEF Refresh, TimedOut, ReconcilePromotion, PollBuild, RecordPollFailure,
                  Looked, Finish
    <3>2. CASE Promote(s) /\ ~SendPromote(s)
      BY <3>2, ZenonT(60) DEF Promote, ClaimForPromotion, LoseClaim, RefuseDispatch, RecordPromotion,
                  MarkPromotionUnconfirmed, RejectPromote, UnusableAnswer, Outcome
    <3>3. CASE Settle(s)
      BY <3>3 DEF Settle, NextStep, FinishSuccess, FailBundle, EndPass, Finish
    <3>4. CASE Raise(s)
      BY <3>4 DEF Raise
    <3>5. QED
      BY <1>5, <3>1, <3>2, <3>3, <3>4
  <2>2. QED
    BY <2>1, LedgerIdle DEF Ledger!Next
<1>6. CASE \/ \E p \in wire : CreatePromotion(p)
           \/ \E n \in DOMAIN drone : FinishBuild(n)
  BY <1>6, DroneStep, LedgerAccept DEF Ledger!Next
<1>7. CASE UNCHANGED vars
  BY <1>7, LedgerIdle DEF vars, Ledger!Next
<1>8. QED
  BY <1>1, <1>2, <1>3, <1>4, <1>5, <1>6, <1>7 DEF Next

\* The sessions, the rows, the network and Drone together are a ledger: one
\* request per attempt, in component order, and no entry that is not true.
THEOREM BundleImplementsLedger == Spec => ImplementsLedger
<1>1. Init => Ledger!Init
  BY LedgerInit
<1>2. TypeInv /\ ClaimInv /\ OrderInv' /\ [Next]_vars => [Ledger!Next]_(Ledger!ledger)
  BY LedgerStep
<1>3. QED
  BY <1>1, <1>2, TypeInvAlways, ClaimInvAlways, OrderInvAlways, PTL
     DEF Spec, ImplementsLedger, Ledger!Spec

\* So what the ledger promises, of every implementation of it, the present
\* orchestration keeps: each attempt is asked of Drone once and in order, and
\* what its rows say is done was accepted.
THEOREM BundleKeepsPromises ==
  Spec => [](Ledger!AskedOnce /\ Ledger!AskedInOrder /\ Ledger!WrittenIsTrue)
<1>1. Ledger!Spec => [](Ledger!AskedOnce /\ Ledger!AskedInOrder /\ Ledger!WrittenIsTrue)
  BY Ledger!LedgerPromises
<1>2. QED
  BY <1>1, BundleImplementsLedger, PTL DEF ImplementsLedger
=============================================================================

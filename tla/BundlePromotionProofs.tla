----------------------- MODULE BundlePromotionProofs -----------------------
(***************************************************************************)
(* What BundlePromotion guarantees for every release, every number of      *)
(* request threads and every number of retries.                            *)
(***************************************************************************)
EXTENDS BundlePromotion, TLAPS

\* A session that is not idle stands on a step of its release.
Working ==
  \A s \in Session : sess[s].pc # "idle" =>
    sess[s].job \in Bundle /\ sess[s].at \in 1..Len(Steps[sess[s].job])

TypeInv == TypeOK /\ Working

LEMMA SessionFacts == Worker \in Session /\ Request \subseteq Session
BY DEF Session

LEMMA StepIsDep ==
  ASSUME NEW b \in Bundle, NEW i \in 1..Len(Steps[b])
  PROVE  Steps[b][i] \in Dep /\ Steps[b][i] \in DepsOf(b)
BY StepsAssumption DEF DepsOf

LEMMA DepsAreDeps == ASSUME NEW b \in Bundle PROVE DepsOf(b) \subseteq Dep
BY StepIsDep DEF DepsOf

LEMMA FirstStep == ASSUME NEW b \in Bundle PROVE 1 \in 1..Len(Steps[b])
BY StepsAssumption

\* The current deployment of a session at work.
LEMMA CurrentIsDep ==
  ASSUME TypeInv, NEW s \in Session, sess[s].pc # "idle"
  PROVE  /\ Current(s) \in Dep /\ Current(s) \in DepsOf(sess[s].job)
         /\ Mine(s) = sess[s].mine[Current(s)] /\ Mine(s) \in Row
BY StepIsDep DEF TypeInv, TypeOK, Working, SessionState, Current, Mine

LEMMA MergedType ==
  ASSUME NEW r \in Row, NEW seen \in Row, NEW mine \in Row
  PROVE  Merged(r, seen, mine) \in Row
BY DEF Merged, Row

LEMMA FlushedType ==
  ASSUME TypeInv, NEW s \in Session, NEW mine \in [Dep -> Row]
  PROVE  Flushed(s, mine) \in [Dep -> Row]
BY MergedType DEF TypeInv, TypeOK, SessionState, Flushed

LEMMA WithType ==
  ASSUME TypeInv, NEW s \in Session, NEW r \in Row
  PROVE  With(s, r) \in [Dep -> Row]
BY DEF TypeInv, TypeOK, SessionState, With

LEMMA BlankType == Blank \in Row /\ Created \in Row
BY DEF Blank, Created, Row, DeploymentStatus

LEMMA IdleType == Idle \in SessionState /\ Idle.pc = "idle"
BY BlankType DEF Idle, SessionState, BundleStatus

\* The state of one session changes, that of the others does not.
LEMMA SessionStep ==
  ASSUME TypeInv, NEW s \in Session, NEW next,
         sess' = [sess EXCEPT ![s] = next],
         next \in SessionState,
         next.pc # "idle" => next.job \in Bundle /\ next.at \in 1..Len(Steps[next.job])
  PROVE  sess' \in [Session -> SessionState] /\ Working'
BY DEF TypeInv, TypeOK, Working

LEMMA OpenedType ==
  ASSUME NEW b \in Bundle, NEW rows \in [Dep -> Row], NEW status \in BundleStatus,
         NEW pc \in {"reset", "step", "check"}
  PROVE  LET o == Opened(b, rows, status, pc) IN
         o \in SessionState /\ o.job \in Bundle /\ o.at \in 1..Len(Steps[o.job])
BY FirstStep, IdleType, ZenonT(60) DEF Opened, Idle, SessionState

LEMMA RowsReadType ==
  ASSUME TypeInv, NEW b \in Bundle PROVE RowsRead(b) \in [Dep -> Row]
BY BlankType DEF TypeInv, TypeOK, RowsRead

LEMMA PhaseAtType ==
  ASSUME NEW b, NEW rows, NEW k PROVE PhaseAt(b, rows, k) \in {"step", "check"}
BY DEF PhaseAt
LEMMA CommitType ==
  ASSUME TypeInv, NEW s \in Session, sess[s].pc # "idle",
         NEW mine \in [Dep -> Row], NEW mineB \in BundleStatus, NEW next,
         next.pc # "idle" => /\ next \in SessionState
                             /\ next.job \in Bundle
                             /\ next.at \in 1..Len(Steps[next.job]),
         Commit(s, mine, mineB, next)
  PROVE  /\ row' \in [Dep -> Row]
         /\ bundle' \in [Bundle -> BundleStatus \cup {"ABSENT"}]
         /\ sess' \in [Session -> SessionState]
         /\ Working'
<1> DEFINE after == IF next.pc = "idle" THEN Idle ELSE
             [next EXCEPT !.seen = mine, !.mine = mine, !.seenB = mineB, !.mineB = mineB]
<1>1. row' \in [Dep -> Row]
  BY FlushedType DEF Commit
<1>2. bundle' \in [Bundle -> BundleStatus \cup {"ABSENT"}]
  BY DEF Commit, TypeInv, TypeOK
<1>3. after \in SessionState
  BY IdleType DEF SessionState
<1>4. after.pc # "idle" => after.job \in Bundle /\ after.at \in 1..Len(Steps[after.job])
  BY IdleType DEF SessionState
<1>5. sess' = [sess EXCEPT ![s] = after]
  BY DEF Commit
<1>6. QED
  BY <1>1, <1>2, <1>3, <1>4, <1>5, SessionStep

LEMMA FinishType ==
  ASSUME TypeInv, NEW s \in Session, sess[s].pc # "idle",
         NEW mine \in [Dep -> Row], NEW mineB \in BundleStatus,
         Finish(s, mine, mineB)
  PROVE  TypeInv'
<1>1. Idle.pc = "idle"
  BY IdleType
<1>2. Commit(s, mine, mineB, Idle) /\ UNCHANGED <<drone, wire, log, attempts>>
  BY DEF Finish
<1>3. /\ row' \in [Dep -> Row]
      /\ bundle' \in [Bundle -> BundleStatus \cup {"ABSENT"}]
      /\ sess' \in [Session -> SessionState]
      /\ Working'
  BY <1>1, <1>2, CommitType
<1>4. QED
  BY <1>2, <1>3 DEF TypeInv, TypeOK

LEMMA OutcomeType ==
  ASSUME TypeInv, NEW s \in Session, sess[s].pc # "idle",
         NEW r \in Row, NEW mineB \in BundleStatus,
         Outcome(s, r, mineB), wire' \subseteq wire
  PROVE  TypeInv'
<1> DEFINE next == IF r.status # "FAILED" THEN Idle
                   ELSE [sess[s] EXCEPT !.pc = "check", !.post = 0, !.attempt = 0]
<1>1. Commit(s, With(s, r), mineB, next) /\ UNCHANGED <<drone, log, attempts>>
  BY DEF Outcome
<1>2. next.pc # "idle" => /\ next \in SessionState
                          /\ next.job \in Bundle
                          /\ next.at \in 1..Len(Steps[next.job])
  BY IdleType DEF TypeInv, TypeOK, Working, SessionState
<1>3. With(s, r) \in [Dep -> Row]
  BY WithType
<1> HIDE DEF next
<1>4. /\ row' \in [Dep -> Row]
      /\ bundle' \in [Bundle -> BundleStatus \cup {"ABSENT"}]
      /\ sess' \in [Session -> SessionState]
      /\ Working'
  BY <1>1, <1>2, <1>3, CommitType
<1>5. QED
  BY <1>1, <1>4 DEF TypeInv, TypeOK

LEMMA LookedType ==
  ASSUME TypeInv, NEW s \in Session, sess[s].pc # "idle",
         NEW r \in Row, NEW mineB \in BundleStatus,
         Looked(s, With(s, r), mineB)
  PROVE  TypeInv'
<1> DEFINE next == [sess[s] EXCEPT !.pc = "check", !.mine = With(s, r), !.mineB = mineB]
<1>1. sess' = [sess EXCEPT ![s] = next]
  BY DEF Looked, TypeInv, TypeOK, SessionState
<1>2. With(s, r) \in [Dep -> Row]
  BY WithType
<1>3. next \in SessionState /\ next.job \in Bundle /\ next.at \in 1..Len(Steps[next.job])
  <2>1. sess[s] \in SessionState
    BY DEF TypeInv, TypeOK
  <2>2. sess[s].job \in Bundle /\ sess[s].at \in 1..Len(Steps[sess[s].job])
    BY DEF TypeInv, Working
  <2>3. next.job = sess[s].job /\ next.at = sess[s].at
    BY <2>1 DEF SessionState
  <2> DEFINE mine == With(s, r)
  <2>4. mine \in [Dep -> Row]
    BY <1>2
  <2> HIDE DEF mine
  <2>5. [sess[s] EXCEPT !.pc = "check", !.mine = mine, !.mineB = mineB] \in SessionState
    BY <2>1, <2>4 DEF SessionState
  <2>6. QED
    BY <2>2, <2>3, <2>5 DEF mine
<1> HIDE DEF next
<1>4. sess' \in [Session -> SessionState] /\ Working'
  BY <1>1, <1>3, SessionStep
<1>5. QED
  BY <1>4 DEF Looked, TypeInv, TypeOK

LEMMA AfterVerdictType ==
  ASSUME NEW d, NEW verdict PROVE AfterVerdict(d, verdict) \in DeploymentStatus
BY DEF AfterVerdict, DeploymentStatus

\* The rows that the looks at Drone and their outcomes leave behind.
LEMMA RowsOfType ==
  ASSUME TypeInv, NEW s \in Session, sess[s].pc # "idle"
  PROVE  /\ Mine(s) \in Row
         /\ Failed(s) \in Row
         /\ [Mine(s) EXCEPT !.status = "FAILED"] \in Row
         /\ \A n \in Nat : [Mine(s) EXCEPT !.status = "DEPLOYING", !.build = n] \in Row
         /\ \A st \in DeploymentStatus : [Mine(s) EXCEPT !.status = st] \in Row
<1>1. Mine(s) \in Row
  BY CurrentIsDep
<1> HIDE DEF Mine
<1>2. QED
  BY <1>1, ZenonT(60) DEF Failed, Row, DeploymentStatus

LEMMA SessType ==
  ASSUME TypeInv, NEW s \in Session
  PROVE  /\ sess[s] \in SessionState
         /\ sess[s].mine \in [Dep -> Row] /\ sess[s].seen \in [Dep -> Row]
         /\ sess[s].mineB \in BundleStatus /\ sess[s].seenB \in BundleStatus
         /\ sess[s].pc # "idle" => /\ sess[s].job \in Bundle
                                   /\ sess[s].at \in 1..Len(Steps[sess[s].job])
BY DEF TypeInv, TypeOK, Working, SessionState

LEMMA StoppedType == ASSUME NEW r \in Row PROVE Stopped(r) \in Row
BY DEF Stopped, Row, DeploymentStatus

LEMMA ClaimedType == ASSUME NEW r \in Row PROVE Claimed(r) \in Row
BY DEF Claimed, Row, DeploymentStatus

LEMMA TypeInit == Init => TypeInv
<1> SUFFICES ASSUME Init PROVE TypeInv
  OBVIOUS
<1>1. TypeOK
  BY BlankType, IdleType DEF Init, TypeOK
<1>2. Working
  BY IdleType DEF Init, Working
<1>3. QED
  BY <1>1, <1>2 DEF TypeInv

LEMMA TypeCall ==
  ASSUME TypeInv, NEW s \in Session, NEW b \in Bundle, Call(s, b) PROVE TypeInv'
<1>1. CASE CreateBundle(s, b)
  <2> DEFINE mine == [d \in Dep |-> IF d \in DepsOf(b) THEN Created ELSE Blank]
  <2>1. mine \in [Dep -> Row]
    BY BlankType
  <2>2. "PENDING" \in BundleStatus
    BY DEF BundleStatus
  <2> HIDE DEF mine
  <2>3. sess' \in [Session -> SessionState] /\ Working'
    <3>1. sess' = [sess EXCEPT ![s] = Opened(b, mine, "PENDING", "step")]
      BY <1>1 DEF CreateBundle, mine
    <3>2. QED
      BY <2>1, <2>2, <3>1, OpenedType, SessionStep
  <2>4. row' \in [Dep -> Row] /\ attempts' \in [Dep -> Nat]
    BY <1>1, BlankType DEF CreateBundle, TypeInv, TypeOK
  <2>5. bundle' \in [Bundle -> BundleStatus \cup {"ABSENT"}]
    BY <1>1, <2>2 DEF CreateBundle, TypeInv, TypeOK
  <2>6. QED
    BY <1>1, <2>3, <2>4, <2>5 DEF CreateBundle, TypeInv, TypeOK
<1>2. CASE RefreshBundle(s, b)
  <2>1. bundle[b] \in BundleStatus
    BY <1>2 DEF RefreshBundle, TypeInv, TypeOK
  <2>2. PhaseAt(b, row, 1) \in {"step", "check"}
    BY PhaseAtType
  <2>3. sess' \in [Session -> SessionState] /\ Working'
    <3>1. sess' = [sess EXCEPT ![s] = Opened(b, RowsRead(b), bundle[b], PhaseAt(b, row, 1))]
      BY <1>2 DEF RefreshBundle
    <3>2. QED
      BY <2>1, <2>2, <3>1, RowsReadType, OpenedType, SessionStep
  <2>4. QED
    BY <1>2, <2>3 DEF RefreshBundle, TypeInv, TypeOK
<1>3. CASE BeginRetry(s, b)
  <2> DEFINE open == Opened(b, RowsRead(b), bundle[b], "reset")
             mine == [d \in Dep |-> IF d \in DepsOf(b) /\ row[d].status # "SUCCESS"
                                    THEN Created ELSE RowsRead(b)[d]]
             next == [open EXCEPT !.mine = mine, !.mineB = "PENDING"]
  <2>1. bundle[b] \in BundleStatus
    BY <1>3 DEF BeginRetry, Retryable, BundleStatus
  <2>2. open \in SessionState /\ open.job \in Bundle /\ open.at \in 1..Len(Steps[open.job])
    BY <2>1, RowsReadType, OpenedType
  <2>3. mine \in [Dep -> Row]
    BY RowsReadType, BlankType
  <2>4. sess' = [sess EXCEPT ![s] = next]
    BY <1>3 DEF BeginRetry
  <2> HIDE DEF open, mine
  <2>5. next \in SessionState /\ next.job \in Bundle /\ next.at \in 1..Len(Steps[next.job])
    BY <2>2, <2>3 DEF SessionState, BundleStatus
  <2> HIDE DEF next
  <2>6. sess' \in [Session -> SessionState] /\ Working'
    BY <2>4, <2>5, SessionStep
  <2>7. QED
    BY <1>3, <2>6 DEF BeginRetry, TypeInv, TypeOK
<1>4. QED
  BY <1>1, <1>2, <1>3 DEF Call

LEMMA TypeRetry == ASSUME TypeInv, NEW s \in Session, CommitRetry(s) PROVE TypeInv'
<1> DEFINE next == [sess[s] EXCEPT !.pc = PhaseAt(sess[s].job, sess[s].mine, 1)]
<1>1. sess[s].pc # "idle" /\ Commit(s, sess[s].mine, sess[s].mineB, next)
  BY DEF CommitRetry
<1>2. next \in SessionState /\ next.job \in Bundle /\ next.at \in 1..Len(Steps[next.job])
  BY <1>1, SessType, PhaseAtType DEF SessionState
<1> HIDE DEF next
<1>3. /\ row' \in [Dep -> Row]
      /\ bundle' \in [Bundle -> BundleStatus \cup {"ABSENT"}]
      /\ sess' \in [Session -> SessionState]
      /\ Working'
  BY <1>1, <1>2, SessType, CommitType
<1>4. attempts' \in [Dep -> Nat] /\ UNCHANGED <<drone, wire, log>>
  BY DEF CommitRetry, TypeInv, TypeOK
<1>5. QED
  BY <1>3, <1>4 DEF TypeInv, TypeOK

LEMMA TypeRefresh == ASSUME TypeInv, NEW s \in Session, Refresh(s) PROVE TypeInv'
<1>0. sess[s].pc # "idle"
  BY ZenonT(60) DEF Refresh, TimedOut, ReconcilePromotion, PollBuild, RecordPollFailure, InFlight
<1>1. CASE TimedOut(s)
  BY <1>0, <1>1, RowsOfType, SessType, LookedType, ZenonT(60) DEF TimedOut
<1>2. CASE ReconcilePromotion(s)
  <2>1. PICK n \in PromotionsOf(Current(s)) :
          Looked(s, With(s, [Mine(s) EXCEPT !.status = "DEPLOYING", !.build = n]), "DEPLOYING")
    BY <1>2, ZenonT(60) DEF ReconcilePromotion
  <2>2. n \in Nat
    BY DEF PromotionsOf, TypeInv, TypeOK
  <2>3. "DEPLOYING" \in BundleStatus
    BY DEF BundleStatus
  <2>4. QED
    BY <1>0, <2>1, <2>2, <2>3, RowsOfType, LookedType, ZenonT(60)
<1>3. CASE PollBuild(s)
  BY <1>0, <1>3, RowsOfType, SessType, AfterVerdictType, LookedType, ZenonT(60) DEF PollBuild
<1>4. CASE RecordPollFailure(s)
  BY <1>0, <1>4, SessType, FinishType DEF RecordPollFailure
<1>5. QED
  BY <1>1, <1>2, <1>3, <1>4 DEF Refresh

LEMMA TypePromote == ASSUME TypeInv, NEW s \in Session, Promote(s) PROVE TypeInv'
<1>0. sess[s].pc # "idle"
  BY ZenonT(60) DEF Promote, ClaimForPromotion, LoseClaim, RefuseDispatch, SendPromote, RecordPromotion,
         MarkPromotionUnconfirmed, RejectPromote, UnusableAnswer, AtWaiting
<1>1. CASE ClaimForPromotion(s)
  <2> DEFINE d == Current(s)
             won == With(s, Claimed(row[d]))
             next == [sess[s] EXCEPT !.pc = "claimed", !.attempt = attempts[d],
                        !.seen = won, !.mine = won, !.seenB = "PROMOTING", !.mineB = "PROMOTING"]
  <2>1. d \in Dep
    BY <1>0, CurrentIsDep
  <2>2. Claimed(row[d]) \in Row
    BY <2>1, ClaimedType DEF TypeInv, TypeOK
  <2>3. won \in [Dep -> Row]
    BY <2>2, WithType
  <2>4. sess' = [sess EXCEPT ![s] = next]
    BY <1>1 DEF ClaimForPromotion
  <2>5. next \in SessionState /\ next.job \in Bundle /\ next.at \in 1..Len(Steps[next.job])
    <3>1. attempts[d] \in Nat
      BY <2>1 DEF TypeInv, TypeOK
    <3> HIDE DEF d, won
    <3>2. QED
      BY <1>0, <2>3, <3>1, SessType, ZenonT(60) DEF SessionState, BundleStatus
  <2>6. row' \in [Dep -> Row]
    BY <1>1, <2>2, SessType, FlushedType DEF ClaimForPromotion
  <2>7. bundle' \in [Bundle -> BundleStatus \cup {"ABSENT"}]
    BY <1>1 DEF ClaimForPromotion, TypeInv, TypeOK, BundleStatus
  <2> HIDE DEF next
  <2>8. sess' \in [Session -> SessionState] /\ Working'
    BY <2>4, <2>5, SessionStep
  <2>9. UNCHANGED <<drone, wire, log, attempts>>
    BY <1>1 DEF ClaimForPromotion
  <2>10. QED
    BY <2>6, <2>7, <2>8, <2>9 DEF TypeInv, TypeOK
<1>2. CASE LoseClaim(s)
  <2> DEFINE d == Current(s)
             next == [sess[s] EXCEPT !.pc = "check", !.seen = [@ EXCEPT ![d] = row[d]],
                                     !.mine = [@ EXCEPT ![d] = row[d]]]
  <2>1. sess' = [sess EXCEPT ![s] = next]
    BY ZenonT(60), <1>2, SessType DEF LoseClaim, TypeInv, TypeOK, SessionState
  <2>2. row[d] \in Row
    BY <1>0, CurrentIsDep DEF TypeInv, TypeOK
  <2> HIDE DEF d
  <2>3. next \in SessionState /\ next.job \in Bundle /\ next.at \in 1..Len(Steps[next.job])
    BY <1>0, <2>2, SessType DEF SessionState
  <2> HIDE DEF next
  <2>4. sess' \in [Session -> SessionState] /\ Working'
    BY <2>1, <2>3, SessionStep
  <2>5. QED
    BY <1>2, <2>4 DEF LoseClaim, TypeInv, TypeOK
<1>3. CASE RefuseDispatch(s)
  BY <1>0, <1>3, RowsOfType, SessType, OutcomeType, ZenonT(60) DEF RefuseDispatch
<1>4. CASE SendPromote(s)
  <2> DEFINE entry == [dep |-> Current(s), attempt |-> sess[s].attempt]
             next == [sess[s] EXCEPT !.pc = "sent", !.post = Len(log')]
  <2>1. entry \in [dep : Dep, attempt : Nat]
    BY <1>0, CurrentIsDep, SessType DEF SessionState
  <2>2. log' = Append(log, entry) /\ wire' = wire \cup {Len(log')}
    BY <1>4 DEF SendPromote
  <2>3. /\ log' \in Seq([dep : Dep, attempt : Nat])
        /\ wire' \subseteq DOMAIN log'
        /\ Len(log') \in Nat
    BY <2>1, <2>2, SMTT(60) DEF TypeInv, TypeOK
  <2>4. sess' = [sess EXCEPT ![s] = next]
    BY <1>4, SessType DEF SendPromote, TypeInv, TypeOK, SessionState
  <2>5. next \in SessionState /\ next.job \in Bundle /\ next.at \in 1..Len(Steps[next.job])
    BY <1>0, <2>3, SessType DEF SessionState
  <2> HIDE DEF next, entry
  <2>6. sess' \in [Session -> SessionState] /\ Working'
    BY <2>4, <2>5, SessionStep
  <2>7. QED
    BY <1>4, <2>3, <2>6 DEF SendPromote, TypeInv, TypeOK
<1>5. CASE RecordPromotion(s)
  <2>1. PICK n \in DOMAIN drone :
          Outcome(s, [Mine(s) EXCEPT !.status = "DEPLOYING", !.build = n], "DEPLOYING")
    BY <1>5, ZenonT(60) DEF RecordPromotion
  <2>2. n \in Nat /\ "DEPLOYING" \in BundleStatus
    BY DEF TypeInv, TypeOK, BundleStatus
  <2>3. wire' = wire
    BY <1>5 DEF RecordPromotion
  <2>4. QED
    BY <1>0, <2>1, <2>2, <2>3, RowsOfType, OutcomeType, ZenonT(60)
<1>6. CASE MarkPromotionUnconfirmed(s)
  BY <1>0, <1>6, RowsOfType, SessType, OutcomeType, ZenonT(60) DEF MarkPromotionUnconfirmed
<1>7. CASE RejectPromote(s)
  BY <1>0, <1>7, RowsOfType, SessType, OutcomeType, ZenonT(60) DEF RejectPromote
<1>8. CASE UnusableAnswer(s)
  BY <1>0, <1>8, RowsOfType, SessType, OutcomeType, ZenonT(60) DEF UnusableAnswer
<1>9. QED
  BY <1>1, <1>2, <1>3, <1>4, <1>5, <1>6, <1>7, <1>8, SMTT(60) DEF Promote

LEMMA TypeSettle == ASSUME TypeInv, NEW s \in Session, Settle(s) PROVE TypeInv'
<1>0. sess[s].pc # "idle"
  BY DEF Settle, NextStep, FinishSuccess, FailBundle, EndPass, Checking
<1>1. CASE NextStep(s)
  <2> DEFINE at == sess[s].at + 1
             pc == PhaseAt(sess[s].job, sess[s].mine, at)
             next == [sess[s] EXCEPT !.at = at, !.pc = pc]
  <2>1. sess' = [sess EXCEPT ![s] = next]
    BY <1>1, SessType DEF NextStep, TypeInv, TypeOK, SessionState
  <2>2. pc \in {"step", "check"}
    BY PhaseAtType
  <2>3. at \in 1..Len(Steps[sess[s].job]) /\ at \in Nat
    BY <1>0, <1>1, SessType, StepsAssumption DEF NextStep, LastStep
  <2> HIDE DEF at, pc
  <2>4. next \in SessionState /\ next.job \in Bundle /\ next.at \in 1..Len(Steps[next.job])
    BY <1>0, <2>2, <2>3, SessType DEF SessionState
  <2> HIDE DEF next
  <2>5. sess' \in [Session -> SessionState] /\ Working'
    BY <2>1, <2>4, SessionStep
  <2>6. QED
    BY <1>1, <2>5 DEF NextStep, TypeInv, TypeOK
<1>2. CASE FinishSuccess(s)
  BY <1>0, <1>2, SessType, FinishType DEF FinishSuccess, BundleStatus
<1>3. CASE FailBundle(s)
  <2> DEFINE after == [d \in Dep |-> Stopped(sess[s].mine[d])]
             verdict == IF \E d \in DepsOf(sess[s].job) : after[d].status = "SUCCESS"
                        THEN "PARTIAL_FAILURE" ELSE "FAILED"
  <2>1. after \in [Dep -> Row]
    BY SessType, StoppedType
  <2>2. verdict \in BundleStatus
    BY DEF BundleStatus
  <2>3. Finish(s, after, verdict)
    BY <1>3 DEF FailBundle
  <2>4. QED
    BY <1>0, <2>1, <2>2, <2>3, FinishType
<1>4. CASE EndPass(s)
  BY <1>0, <1>4, SessType, FinishType DEF EndPass
<1>5. QED
  BY <1>1, <1>2, <1>3, <1>4 DEF Settle

LEMMA SeqUpdate ==
  ASSUME NEW S, NEW q \in Seq(S), NEW n \in DOMAIN q, NEW x \in S
  PROVE  [q EXCEPT ![n] = x] \in Seq(S)
<1>1. Len(q) \in Nat /\ q \in [1..Len(q) -> S]
  OBVIOUS
<1>2. [q EXCEPT ![n] = x] \in [1..Len(q) -> S]
  BY <1>1
<1>3. QED
  BY <1>1, <1>2

LEMMA SeqElement ==
  ASSUME NEW S, NEW q \in Seq(S), NEW n \in DOMAIN q
  PROVE  Len(q) \in Nat /\ DOMAIN q = 1..Len(q) /\ q[n] \in S
OBVIOUS

LEMMA LogFacts ==
  ASSUME TypeInv, NEW p \in DOMAIN log
  PROVE  /\ p \in Nat \ {0} /\ p \in 1..Len(log)
         /\ log[p] \in [dep : Dep, attempt : Nat]
         /\ log[p].dep \in Dep /\ log[p].attempt \in Nat
<1>1. log \in Seq([dep : Dep, attempt : Nat])
  BY DEF TypeInv, TypeOK
<1>2. DOMAIN log = 1..Len(log) /\ Len(log) \in Nat /\ log[p] \in [dep : Dep, attempt : Nat]
  BY <1>1, SeqElement
<1>3. QED
  BY <1>2

LEMMA DroneFacts ==
  ASSUME TypeInv, NEW n \in DOMAIN drone
  PROVE  /\ n \in Nat \ {0} /\ n \in 1..Len(drone)
         /\ drone[n] \in [dep : Dep, post : Nat \ {0}, verdict : Verdict]
<1>1. drone \in Seq([dep : Dep, post : Nat \ {0}, verdict : Verdict])
  BY DEF TypeInv, TypeOK
<1>2. /\ DOMAIN drone = 1..Len(drone) /\ Len(drone) \in Nat
      /\ drone[n] \in [dep : Dep, post : Nat \ {0}, verdict : Verdict]
  BY <1>1, SeqElement
<1>3. QED
  BY <1>2

LEMMA TypeDrone ==
  ASSUME TypeInv, \/ \E p \in wire : CreatePromotion(p)
                  \/ \E n \in DOMAIN drone : FinishBuild(n)
  PROVE  TypeInv'
<1>1. ASSUME NEW p \in wire, CreatePromotion(p) PROVE TypeInv'
  <2>1. p \in Nat \ {0} /\ log[p].dep \in Dep
    BY <1>1, LogFacts DEF TypeInv, TypeOK
  <2>2. drone' \in Seq([dep : Dep, post : Nat \ {0}, verdict : Verdict])
    BY <1>1, <2>1 DEF CreatePromotion, TypeInv, TypeOK, Verdict
  <2>3. QED
    BY <1>1, <2>2 DEF CreatePromotion, TypeInv, TypeOK, Working
<1>2. ASSUME NEW n \in DOMAIN drone, FinishBuild(n) PROVE TypeInv'
  <2>1. PICK v \in Verdict \ {"running"} : drone' = [drone EXCEPT ![n].verdict = v]
    BY <1>2 DEF FinishBuild
  <2>2. drone' \in Seq([dep : Dep, post : Nat \ {0}, verdict : Verdict])
    <3>1. drone' = [drone EXCEPT ![n] = [drone[n] EXCEPT !.verdict = v]]
      BY <2>1
    <3>2. [drone[n] EXCEPT !.verdict = v] \in [dep : Dep, post : Nat \ {0}, verdict : Verdict]
      BY DroneFacts
    <3>3. QED
      BY <3>1, <3>2, SeqUpdate DEF TypeInv, TypeOK
  <2>3. QED
    BY <1>2, <2>2 DEF FinishBuild, TypeInv, TypeOK, Working
<1>3. QED
  BY <1>1, <1>2

LEMMA TypeRaise == ASSUME TypeInv, NEW s \in Session, Raise(s) PROVE TypeInv'
<1>1. sess' = [sess EXCEPT ![s] = Idle]
  BY DEF Raise
<1>2. sess' \in [Session -> SessionState] /\ Working'
  BY <1>1, IdleType, SessionStep
<1>3. QED
  BY <1>2 DEF Raise, TypeInv, TypeOK
LEMMA TypeStep == TypeInv /\ [Next]_vars => TypeInv'
<1> SUFFICES ASSUME TypeInv, [Next]_vars PROVE TypeInv'
  OBVIOUS
<1>1. CASE \E s \in Request, b \in Bundle : Call(s, b)
  BY <1>1, TypeCall, SessionFacts
<1>2. CASE \E b \in Bundle : ResumeDeployments(b)
  BY <1>2, TypeCall, SessionFacts DEF ResumeDeployments, Call
<1>3. ASSUME NEW s \in Session,
             CommitRetry(s) \/ Refresh(s) \/ Promote(s) \/ Settle(s) \/ Raise(s)
      PROVE  TypeInv'
  BY <1>3, TypeRetry, TypeRefresh, TypePromote, TypeSettle, TypeRaise
<1>4. CASE \/ \E p \in wire : CreatePromotion(p)
           \/ \E n \in DOMAIN drone : FinishBuild(n)
  BY <1>4, TypeDrone
<1>5. CASE UNCHANGED vars
  BY <1>5 DEF vars, TypeInv, TypeOK, Working
<1>6. QED
  BY <1>1, <1>2, <1>3, <1>4, <1>5 DEF Next

LEMMA TypeInvAlways == Spec => []TypeInv
<1>1. Init => TypeInv
  BY TypeInit
<1>2. TypeInv /\ [Next]_vars => TypeInv'
  BY TypeStep
<1>3. QED
  BY <1>1, <1>2, PTL DEF Spec

\* Every reachable state of the database, of the sessions and of Drone is
\* one that TypeOK describes.
THEOREM TypeCorrect == Spec => []TypeOK
<1>1. TypeInv => TypeOK
  BY DEF TypeInv
<1>2. QED
  BY <1>1, TypeInvAlways, PTL

----------------------------------------------------------------------------
(***************************************************************************)
(* One promote request per attempt.  The claim moves the right to ask from *)
(* the row, while it is WAITING, to one session, and from there to the log *)
(* of requests; a retry makes a right that nobody held before.             *)
(***************************************************************************)

Ticket(s) == [dep |-> Current(s), attempt |-> sess[s].attempt]
Fresh(d) == [dep |-> d, attempt |-> attempts[d]]
Sent(x) == \E p \in DOMAIN log : log[p] = x

\* Outside retry_bundle no session is about to write WAITING.
KeepsWaiting(s) ==
  sess[s].pc # "reset" =>
    \A d \in Dep : sess[s].mine[d].status = "WAITING" => sess[s].seen[d].status = "WAITING"

ClaimInv ==
  /\ \A s \in Session : KeepsWaiting(s)
  /\ \A p \in DOMAIN log : log[p].attempt <= attempts[log[p].dep]
  /\ \A s \in Session : sess[s].pc = "claimed" =>
       sess[s].attempt <= attempts[Current(s)] /\ ~Sent(Ticket(s))
  /\ \A s, t \in Session :
       (s # t /\ sess[s].pc = "claimed" /\ sess[t].pc = "claimed") => Ticket(s) # Ticket(t)
  /\ \A d \in Dep : row[d].status = "WAITING" =>
       /\ ~Sent(Fresh(d))
       /\ \A s \in Session : sess[s].pc = "claimed" => Ticket(s) # Fresh(d)
  /\ AttemptPostedOnce

LEMMA ClaimInit == Init => ClaimInv
BY BlankType DEF Init, ClaimInv, KeepsWaiting, AttemptPostedOnce, Idle, Blank

\* A step that neither claims nor sends, and that puts a row to WAITING only
\* as a new attempt.
LEMMA UnclaimedStep ==
  ASSUME TypeInv, TypeInv', ClaimInv, NEW s \in Session,
         log' = log,
         \A t \in Session : t # s => sess'[t] = sess[t],
         sess'[s].pc # "claimed",
         KeepsWaiting(s)',
         \A d \in Dep : attempts[d] <= attempts'[d],
         \A d \in Dep : row'[d].status = "WAITING" =>
            \/ row[d].status = "WAITING" /\ attempts'[d] = attempts[d]
            \/ attempts[d] < attempts'[d]
  PROVE  ClaimInv'
<1>0. \A d \in Dep : attempts[d] \in Nat /\ attempts'[d] \in Nat
  BY DEF TypeInv, TypeOK
<1>1. \A t \in Session : KeepsWaiting(t)'
  BY DEF ClaimInv, KeepsWaiting
<1>2. \A t \in Session : sess'[t].pc = "claimed" =>
        /\ t # s /\ sess[t].pc = "claimed"
        /\ Current(t) \in Dep /\ Current(t)' = Current(t) /\ Ticket(t)' = Ticket(t)
        /\ sess[t].attempt \in Nat
  BY CurrentIsDep, SessType DEF Ticket, Current, SessionState
<1>3. \A x : Sent(x)' <=> Sent(x)
  BY DEF Sent
<1>4. \A p \in DOMAIN log' : log'[p].attempt <= attempts'[log'[p].dep]
  BY <1>0, LogFacts DEF ClaimInv
<1>5. \A t \in Session : sess'[t].pc = "claimed" =>
        sess'[t].attempt <= attempts'[Current(t)'] /\ ~Sent(Ticket(t))'
  BY <1>0, <1>2, <1>3 DEF ClaimInv
<1>6. \A t, u \in Session :
        (t # u /\ sess'[t].pc = "claimed" /\ sess'[u].pc = "claimed") => Ticket(t)' # Ticket(u)'
  BY <1>2 DEF ClaimInv
<1>7. ASSUME NEW d \in Dep, row'[d].status = "WAITING"
      PROVE  /\ ~Sent(Fresh(d))'
             /\ \A t \in Session : sess'[t].pc = "claimed" => Ticket(t)' # Fresh(d)'
  <2>1. CASE row[d].status = "WAITING" /\ attempts'[d] = attempts[d]
    BY <1>2, <1>3, <2>1 DEF ClaimInv, Fresh
  <2>2. CASE attempts[d] < attempts'[d]
    <3>1. \A p \in DOMAIN log : log[p] # Fresh(d)'
      BY <1>0, <2>2, LogFacts DEF ClaimInv, Fresh
    <3>2. \A t \in Session : sess[t].pc = "claimed" => Ticket(t) # Fresh(d)'
      BY <1>0, <2>2, SessType DEF ClaimInv, Fresh, Ticket, SessionState
    <3>3. QED
      BY <1>2, <3>1, <3>2 DEF Sent
  <2>3. QED
    BY <1>7, <2>1, <2>2
<1>8. AttemptPostedOnce'
  BY DEF ClaimInv, AttemptPostedOnce
<1>9. QED
  BY <1>1, <1>4, <1>5, <1>6, <1>7, <1>8 DEF ClaimInv

\* A commit leaves a row WAITING only if it was, or if the session put it there.
LEMMA CommitEffect ==
  ASSUME TypeInv, NEW s \in Session, NEW mine \in [Dep -> Row], NEW mineB, NEW next,
         next.pc # "idle" => next \in SessionState,
         Commit(s, mine, mineB, next)
  PROVE  /\ \A t \in Session : t # s => sess'[t] = sess[t]
         /\ sess'[s].pc = next.pc
         /\ sess'[s].mine = sess'[s].seen
         /\ \A d \in Dep : row'[d].status = "WAITING" =>
              \/ row[d].status = "WAITING"
              \/ mine[d].status = "WAITING" /\ sess[s].seen[d].status # "WAITING"
<1>1. /\ \A t \in Session : t # s => sess'[t] = sess[t]
      /\ sess'[s] = IF next.pc = "idle" THEN Idle ELSE
           [next EXCEPT !.seen = mine, !.mine = mine, !.seenB = mineB, !.mineB = mineB]
  BY DEF Commit, TypeInv, TypeOK
<1>2. sess'[s].pc = next.pc /\ sess'[s].mine = sess'[s].seen
  BY <1>1 DEF Idle, SessionState
<1>3. \A d \in Dep : row'[d].status = "WAITING" =>
              \/ row[d].status = "WAITING"
              \/ mine[d].status = "WAITING" /\ sess[s].seen[d].status # "WAITING"
  BY DEF Commit, Flushed, Merged
<1>4. QED
  BY <1>1, <1>2, <1>3

LEMMA CommitClaim ==
  ASSUME TypeInv, TypeInv', ClaimInv, NEW s \in Session, NEW mine \in [Dep -> Row],
         NEW mineB, NEW next,
         next.pc # "idle" => next \in SessionState,
         next.pc # "claimed",
         Commit(s, mine, mineB, next),
         \A d \in Dep : mine[d].status = "WAITING" => sess[s].seen[d].status = "WAITING",
         log' = log, attempts' = attempts
  PROVE  ClaimInv'
<1>1. /\ \A t \in Session : t # s => sess'[t] = sess[t]
      /\ sess'[s].pc # "claimed"
      /\ \A d \in Dep : row'[d].status = "WAITING" => row[d].status = "WAITING"
  BY CommitEffect
<1>2. KeepsWaiting(s)'
  BY CommitEffect DEF KeepsWaiting
<1>3. \A d \in Dep : attempts[d] <= attempts'[d]
  BY DEF TypeInv, TypeOK
<1>4. QED
  BY <1>1, <1>2, <1>3, UnclaimedStep

LEMMA FinishClaim ==
  ASSUME TypeInv, TypeInv', ClaimInv, NEW s \in Session, NEW mine \in [Dep -> Row], NEW mineB,
         Finish(s, mine, mineB),
         \A d \in Dep : mine[d].status = "WAITING" => sess[s].seen[d].status = "WAITING"
  PROVE  ClaimInv'
<1>1. Commit(s, mine, mineB, Idle) /\ UNCHANGED <<drone, wire, log, attempts>>
  BY DEF Finish
<1>2. Idle.pc = "idle"
  BY IdleType
<1>3. QED
  BY <1>1, <1>2, CommitClaim

\* Of the current row only the status moves, and never to WAITING.
LEMMA WithWaiting ==
  ASSUME TypeInv, ClaimInv, NEW s \in Session, sess[s].pc \notin {"idle", "reset"}, NEW r \in Row,
         r.status = "WAITING" => Mine(s).status = "WAITING"
  PROVE  \A d \in Dep : With(s, r)[d].status = "WAITING" => sess[s].seen[d].status = "WAITING"
<1>1. /\ Current(s) \in Dep /\ Mine(s) = sess[s].mine[Current(s)]
      /\ sess[s].mine \in [Dep -> Row]
  BY CurrentIsDep, SessType
<1>2. \A d \in Dep : With(s, r)[d] = IF d = Current(s) THEN r ELSE sess[s].mine[d]
  BY <1>1 DEF With
<1>3. QED
  BY <1>1, <1>2 DEF ClaimInv, KeepsWaiting

LEMMA OutcomeClaim ==
  ASSUME TypeInv, TypeInv', ClaimInv, NEW s \in Session, sess[s].pc \notin {"idle", "reset"},
         NEW r \in Row, NEW mineB, Outcome(s, r, mineB),
         r.status = "WAITING" => Mine(s).status = "WAITING"
  PROVE  ClaimInv'
<1> DEFINE next == IF r.status # "FAILED" THEN Idle
                   ELSE [sess[s] EXCEPT !.pc = "check", !.post = 0, !.attempt = 0]
<1>1. Commit(s, With(s, r), mineB, next) /\ UNCHANGED <<drone, log, attempts>>
  BY DEF Outcome
<1>2. next.pc # "claimed" /\ (next.pc # "idle" => next \in SessionState)
  BY SessType, IdleType DEF SessionState
<1>3. With(s, r) \in [Dep -> Row]
  BY WithType
<1> HIDE DEF next
<1>4. QED
  BY <1>1, <1>2, <1>3, WithWaiting, CommitClaim

LEMMA LookedClaim ==
  ASSUME TypeInv, TypeInv', ClaimInv, NEW s \in Session, sess[s].pc \notin {"idle", "reset"},
         NEW r \in Row, NEW mineB, Looked(s, With(s, r), mineB),
         r.status = "WAITING" => Mine(s).status = "WAITING"
  PROVE  ClaimInv'
<1>1. /\ \A t \in Session : t # s => sess'[t] = sess[t]
      /\ sess'[s].pc = "check" /\ sess'[s].mine = With(s, r) /\ sess'[s].seen = sess[s].seen
  BY SessType DEF Looked, TypeInv, TypeOK, SessionState
<1>2. KeepsWaiting(s)'
  BY <1>1, WithWaiting DEF KeepsWaiting
<1>3. \A d \in Dep : attempts[d] <= attempts'[d] /\ attempts'[d] = attempts[d]
  BY DEF Looked, TypeInv, TypeOK
<1>4. log' = log /\ row' = row
  BY DEF Looked
<1>5. QED
  BY <1>1, <1>2, <1>3, <1>4, UnclaimedStep
LEMMA KeptWaiting ==
  ASSUME ClaimInv, NEW s \in Session, sess[s].pc # "reset"
  PROVE  \A d \in Dep : sess[s].mine[d].status = "WAITING" => sess[s].seen[d].status = "WAITING"
BY DEF ClaimInv, KeepsWaiting

LEMMA ClaimCall ==
  ASSUME TypeInv, TypeInv', ClaimInv, NEW s \in Session, NEW b \in Bundle, Call(s, b)
  PROVE  ClaimInv'
<1>1. \A t \in Session : t # s => sess'[t] = sess[t]
  BY DEF Call, CreateBundle, RefreshBundle, BeginRetry, TypeInv, TypeOK
<1>2. log' = log
  BY DEF Call, CreateBundle, RefreshBundle, BeginRetry
<1>3. \A d \in Dep : attempts[d] \in Nat
  BY DEF TypeInv, TypeOK
<1>4. CASE CreateBundle(s, b)
  <2>1. sess'[s].pc = "step" /\ sess'[s].mine = sess'[s].seen
    BY <1>4 DEF CreateBundle, Opened, Idle, TypeInv, TypeOK
  <2>2. KeepsWaiting(s)'
    BY <2>1 DEF KeepsWaiting
  <2>3. \A d \in Dep : /\ attempts[d] <= attempts'[d]
                       /\ \/ row'[d] = row[d] /\ attempts'[d] = attempts[d]
                          \/ attempts[d] < attempts'[d]
    BY <1>3, <1>4 DEF CreateBundle, TypeInv, TypeOK
  <2>4. QED
    BY <1>1, <1>2, <2>1, <2>2, <2>3, UnclaimedStep
<1>5. CASE RefreshBundle(s, b)
  <2>1. sess'[s].pc \in {"step", "check"} /\ sess'[s].mine = sess'[s].seen
    BY <1>5, PhaseAtType DEF RefreshBundle, Opened, Idle, TypeInv, TypeOK
  <2>2. KeepsWaiting(s)'
    BY <2>1 DEF KeepsWaiting
  <2>3. row' = row /\ attempts' = attempts
    BY <1>5 DEF RefreshBundle
  <2>4. QED
    BY <1>1, <1>2, <1>3, <2>1, <2>2, <2>3, UnclaimedStep
<1>6. CASE BeginRetry(s, b)
  <2>1. sess'[s].pc = "reset"
    BY <1>6 DEF BeginRetry, Opened, Idle, TypeInv, TypeOK
  <2>2. KeepsWaiting(s)'
    BY <2>1 DEF KeepsWaiting
  <2>3. row' = row /\ attempts' = attempts
    BY <1>6 DEF BeginRetry
  <2>4. QED
    BY <1>1, <1>2, <1>3, <2>1, <2>2, <2>3, UnclaimedStep
<1>7. QED
  BY <1>4, <1>5, <1>6 DEF Call

LEMMA ClaimRetry ==
  ASSUME TypeInv, TypeInv', ClaimInv, NEW s \in Session, CommitRetry(s) PROVE ClaimInv'
<1> DEFINE next == [sess[s] EXCEPT !.pc = PhaseAt(sess[s].job, sess[s].mine, 1)]
<1>1. sess[s].pc # "idle" /\ log' = log /\ Commit(s, sess[s].mine, sess[s].mineB, next)
  BY DEF CommitRetry
<1>2. next \in SessionState /\ next.pc \in {"step", "check"}
  BY SessType, PhaseAtType DEF SessionState
<1> HIDE DEF next
<1>3. /\ \A t \in Session : t # s => sess'[t] = sess[t]
      /\ sess'[s].pc \in {"step", "check"}
      /\ sess'[s].mine = sess'[s].seen
      /\ \A d \in Dep : row'[d].status = "WAITING" =>
              \/ row[d].status = "WAITING"
              \/ sess[s].mine[d].status = "WAITING" /\ sess[s].seen[d].status # "WAITING"
  BY <1>1, <1>2, SessType, CommitEffect
<1>4. KeepsWaiting(s)'
  BY <1>3 DEF KeepsWaiting
<1>5. \A d \in Dep :
        /\ attempts[d] \in Nat
        /\ attempts'[d] = IF sess[s].mine[d].status = "WAITING" /\ sess[s].seen[d].status # "WAITING"
                          THEN attempts[d] + 1 ELSE attempts[d]
  BY DEF CommitRetry, TypeInv, TypeOK
<1>6. \A d \in Dep : attempts[d] <= attempts'[d]
  BY <1>5
<1>7. \A d \in Dep : row'[d].status = "WAITING" =>
         \/ row[d].status = "WAITING" /\ attempts'[d] = attempts[d]
         \/ attempts[d] < attempts'[d]
  BY <1>3, <1>5
<1>8. QED
  BY <1>1, <1>3, <1>4, <1>6, <1>7, UnclaimedStep

LEMMA ClaimRefresh ==
  ASSUME TypeInv, TypeInv', ClaimInv, NEW s \in Session, Refresh(s) PROVE ClaimInv'
<1>0. sess[s].pc = "step"
  BY ZenonT(60) DEF Refresh, TimedOut, ReconcilePromotion, PollBuild, RecordPollFailure, InFlight
<1>1. CASE TimedOut(s)
  <2>1. [Mine(s) EXCEPT !.status = "FAILED"].status = "FAILED"
    BY <1>0, RowsOfType, ZenonT(60) DEF Row
  <2>2. QED
    BY <1>0, <1>1, <2>1, RowsOfType, LookedClaim, ZenonT(60) DEF TimedOut
<1>2. CASE ReconcilePromotion(s)
  <2>1. PICK n \in PromotionsOf(Current(s)) :
          Looked(s, With(s, [Mine(s) EXCEPT !.status = "DEPLOYING", !.build = n]), "DEPLOYING")
    BY <1>2, ZenonT(60) DEF ReconcilePromotion
  <2>2. n \in Nat
    BY SMTT(60) DEF PromotionsOf, TypeInv, TypeOK
  <2>3. [Mine(s) EXCEPT !.status = "DEPLOYING", !.build = n].status = "DEPLOYING"
    BY <1>0, RowsOfType, ZenonT(60) DEF Row
  <2>4. QED
    BY <1>0, <2>1, <2>2, <2>3, RowsOfType, LookedClaim, ZenonT(60)
<1>3. CASE PollBuild(s)
  <2> DEFINE st == AfterVerdict(Current(s), drone[Mine(s).build].verdict)
  <2>1. st \in DeploymentStatus /\ st # "WAITING"
    BY AfterVerdictType DEF AfterVerdict
  <2>2. Looked(s, With(s, [Mine(s) EXCEPT !.status = st]), sess[s].mineB)
    BY <1>3 DEF PollBuild
  <2> HIDE DEF st
  <2>3. [Mine(s) EXCEPT !.status = st].status = st
    BY <1>0, RowsOfType, ZenonT(60) DEF Row
  <2>4. QED
    BY <1>0, <2>1, <2>2, <2>3, RowsOfType, LookedClaim, ZenonT(60)
<1>4. CASE RecordPollFailure(s)
  BY <1>0, <1>4, SessType, KeptWaiting, FinishClaim DEF RecordPollFailure
<1>5. QED
  BY <1>1, <1>2, <1>3, <1>4 DEF Refresh

LEMMA MergedWaiting ==
  ASSUME NEW r, NEW seen, NEW mine, mine.status = "WAITING" => seen.status = "WAITING"
  PROVE  Merged(r, seen, mine).status = "WAITING" => r.status = "WAITING"
BY DEF Merged

LEMMA ClaimClaim ==
  ASSUME TypeInv, TypeInv', ClaimInv, NEW s \in Session, ClaimForPromotion(s) PROVE ClaimInv'
<1> DEFINE d == Current(s)
           won == With(s, Claimed(row[d]))
           next == [sess[s] EXCEPT !.pc = "claimed", !.attempt = attempts[d],
                      !.seen = won, !.mine = won, !.seenB = "PROMOTING", !.mineB = "PROMOTING"]
<1>1. /\ sess[s].pc = "step" /\ row[d].status = "WAITING"
      /\ row' = [Flushed(s, sess[s].mine) EXCEPT ![d] = Claimed(row[d])]
      /\ sess' = [sess EXCEPT ![s] = next]
      /\ log' = log /\ attempts' = attempts
  BY DEF ClaimForPromotion, AtWaiting, Claimable
<1>2. d \in Dep /\ \A e \in Dep : attempts[e] \in Nat
  BY <1>1, CurrentIsDep DEF TypeInv, TypeOK
<1>3. \A t \in Session : t # s => sess'[t] = sess[t]
  BY <1>1 DEF TypeInv, TypeOK
<1>4. /\ sess'[s].pc = "claimed" /\ sess'[s].attempt = attempts[d]
      /\ sess'[s].mine = sess'[s].seen
      /\ sess'[s].job = sess[s].job /\ sess'[s].at = sess[s].at
  BY <1>1, SessType DEF TypeInv, TypeOK, SessionState
<1>5. \A e \in Dep : row'[e].status = "WAITING" => row[e].status = "WAITING" /\ e # d
  <2>1. Claimed(row[d]).status # "WAITING"
    BY <1>2 DEF Claimed, TypeInv, TypeOK, Row
  <2>2. row'[d] = Claimed(row[d])
    BY <1>1, <1>2 DEF Flushed
  <2>3. \A e \in Dep : e # d => row'[e] = Merged(row[e], sess[s].seen[e], sess[s].mine[e])
    BY <1>1 DEF Flushed
  <2>4. \A e \in Dep : e # d /\ row'[e].status = "WAITING" => row[e].status = "WAITING"
    <3>1. sess[s].pc # "reset"
      BY <1>1
    <3>2. \A e \in Dep : sess[s].mine[e].status = "WAITING" => sess[s].seen[e].status = "WAITING"
      BY <3>1, KeptWaiting
    <3>3. QED
      BY <2>3, <3>2, MergedWaiting
  <2>5. QED
    BY <1>2, <2>1, <2>2, <2>4
<1>6. Ticket(s)' = Fresh(d) /\ Current(s)' = d
  BY <1>4 DEF Ticket, Fresh, Current
<1> HIDE DEF d, won, next
<1>7. \A t \in Session : sess[t].pc = "claimed" /\ t # s =>
         Ticket(t)' = Ticket(t) /\ Current(t)' = Current(t) /\ sess'[t].attempt = sess[t].attempt
  BY <1>3 DEF Ticket, Current
<1>8. \A x : Sent(x)' <=> Sent(x)
  BY <1>1 DEF Sent
<1>9. \A e \in Dep : Fresh(e)' = Fresh(e)
  BY <1>1 DEF Fresh
<1>10. ~Sent(Fresh(d)) /\ \A t \in Session : sess[t].pc = "claimed" => Ticket(t) # Fresh(d)
  BY <1>1, <1>2 DEF ClaimInv
<1>11. \A t \in Session : KeepsWaiting(t)'
  BY <1>3, <1>4 DEF ClaimInv, KeepsWaiting
<1>12. \A p \in DOMAIN log' : log'[p].attempt <= attempts'[log'[p].dep]
  BY <1>1 DEF ClaimInv
<1>13. \A t \in Session : sess'[t].pc = "claimed" =>
         sess'[t].attempt <= attempts'[Current(t)'] /\ ~Sent(Ticket(t))'
  <2>1. ASSUME NEW t \in Session, t # s, sess'[t].pc = "claimed"
        PROVE  sess'[t].attempt <= attempts'[Current(t)'] /\ ~Sent(Ticket(t))'
    BY <1>1, <1>3, <1>7, <1>8, <2>1 DEF ClaimInv
  <2>2. sess'[s].attempt <= attempts'[Current(s)'] /\ ~Sent(Ticket(s))'
    BY <1>1, <1>2, <1>4, <1>6, <1>8, <1>10
  <2>3. QED
    BY <2>1, <2>2
<1>14. \A t, u \in Session :
        (t # u /\ sess'[t].pc = "claimed" /\ sess'[u].pc = "claimed") => Ticket(t)' # Ticket(u)'
  BY <1>3, <1>6, <1>7, <1>10 DEF ClaimInv
<1>15. ASSUME NEW e \in Dep, row'[e].status = "WAITING"
      PROVE  /\ ~Sent(Fresh(e))'
             /\ \A t \in Session : sess'[t].pc = "claimed" => Ticket(t)' # Fresh(e)'
  <2>1. row[e].status = "WAITING" /\ e # d
    BY <1>5, <1>15
  <2>2. ~Sent(Fresh(e)) /\ \A t \in Session : sess[t].pc = "claimed" => Ticket(t) # Fresh(e)
    BY <2>1 DEF ClaimInv
  <2>3. Fresh(d) # Fresh(e)
    BY <2>1 DEF Fresh
  <2>4. QED
    BY <1>3, <1>6, <1>7, <1>8, <1>9, <2>2, <2>3
<1>16. AttemptPostedOnce'
  BY <1>1 DEF ClaimInv, AttemptPostedOnce
<1>17. QED
  BY <1>11, <1>12, <1>13, <1>14, <1>15, <1>16 DEF ClaimInv

LEMMA ClaimSend ==
  ASSUME TypeInv, TypeInv', ClaimInv, NEW s \in Session, SendPromote(s) PROVE ClaimInv'
<1>1. /\ sess[s].pc = "claimed" /\ log' = Append(log, Ticket(s))
      /\ row' = row /\ attempts' = attempts
      /\ sess' = [sess EXCEPT ![s].pc = "sent", ![s].post = Len(log')]
  BY DEF SendPromote, Ticket
<1>2. log \in Seq([dep : Dep, attempt : Nat]) /\ Len(log) \in Nat
  BY DEF TypeInv, TypeOK
<1>3. \A p \in DOMAIN log' : \/ p \in DOMAIN log /\ log'[p] = log[p]
                             \/ p = Len(log) + 1 /\ log'[p] = Ticket(s)
  BY <1>1, <1>2
<1>4. \A t \in Session : t # s => sess'[t] = sess[t]
  BY <1>1 DEF TypeInv, TypeOK
<1>5. sess'[s].pc = "sent" /\ sess'[s].mine = sess[s].mine /\ sess'[s].seen = sess[s].seen
  BY <1>1, SessType DEF TypeInv, TypeOK, SessionState
<1>6. \A t \in Session : t # s => Ticket(t)' = Ticket(t) /\ Current(t)' = Current(t)
  BY <1>4 DEF Ticket, Current
<1>7. \A x : Sent(x)' => Sent(x) \/ x = Ticket(s)
  BY <1>3 DEF Sent
<1>8. \A d \in Dep : Fresh(d)' = Fresh(d)
  BY <1>1 DEF Fresh
<1>9. \A t \in Session : KeepsWaiting(t)'
  <2>1. sess[s].pc # "reset"
    BY <1>1
  <2>2. \A t \in Session : KeepsWaiting(t)
    BY DEF ClaimInv
  <2>3. QED
    BY <1>4, <1>5, <2>1, <2>2 DEF KeepsWaiting
<1>10. \A p \in DOMAIN log' : log'[p].attempt <= attempts'[log'[p].dep]
  BY <1>1, <1>3 DEF ClaimInv, Ticket
<1>11. \A t \in Session : sess'[t].pc = "claimed" =>
         sess'[t].attempt <= attempts'[Current(t)'] /\ ~Sent(Ticket(t))'
  BY <1>1, <1>4, <1>5, <1>6, <1>7 DEF ClaimInv
<1>12. \A t, u \in Session :
        (t # u /\ sess'[t].pc = "claimed" /\ sess'[u].pc = "claimed") => Ticket(t)' # Ticket(u)'
  BY <1>4, <1>5, <1>6 DEF ClaimInv
<1>13. ASSUME NEW d \in Dep, row'[d].status = "WAITING"
      PROVE  /\ ~Sent(Fresh(d))'
             /\ \A t \in Session : sess'[t].pc = "claimed" => Ticket(t)' # Fresh(d)'
  <2>1. row[d].status = "WAITING"
    BY <1>1, <1>13
  <2>2. ~Sent(Fresh(d)) /\ \A t \in Session : sess[t].pc = "claimed" => Ticket(t) # Fresh(d)
    BY <2>1 DEF ClaimInv
  <2>3. Fresh(d)' = Fresh(d)
    BY <1>8
  <2>4. ~Sent(Fresh(d))'
    BY <1>1, <1>7, <2>2, <2>3
  <2>5. ASSUME NEW t \in Session, sess'[t].pc = "claimed" PROVE Ticket(t)' # Fresh(d)'
    <3>1. t # s
      BY <1>5, <2>5
    <3>2. sess[t].pc = "claimed" /\ Ticket(t)' = Ticket(t)
      BY <1>4, <1>6, <2>5, <3>1
    <3>3. QED
      BY <2>2, <2>3, <3>2
  <2>6. QED
    BY <2>4, <2>5
<1>14. AttemptPostedOnce'
  <2>1. \A p \in DOMAIN log : log[p] # Ticket(s)
    BY <1>1 DEF ClaimInv, Sent
  <2>2. QED
    BY <1>3, <2>1 DEF ClaimInv, AttemptPostedOnce
<1>15. QED
  BY <1>9, <1>10, <1>11, <1>12, <1>13, <1>14 DEF ClaimInv

LEMMA ClaimPromote ==
  ASSUME TypeInv, TypeInv', ClaimInv, NEW s \in Session, Promote(s) PROVE ClaimInv'
<1>0. sess[s].pc \in {"step", "claimed", "sent"}
  BY ZenonT(60) DEF Promote, ClaimForPromotion, LoseClaim, RefuseDispatch, SendPromote, RecordPromotion,
         MarkPromotionUnconfirmed, RejectPromote, UnusableAnswer, AtWaiting
<1>00. Failed(s) \in Row /\ Failed(s).status = "FAILED" /\ Mine(s) \in Row
  <2>1. Mine(s) \in Row
    BY <1>0, RowsOfType, ZenonT(60)
  <2>2. QED
    BY <2>1 DEF Failed, Row, DeploymentStatus
<1>1. CASE ClaimForPromotion(s)
  BY <1>1, ClaimClaim
<1>2. CASE LoseClaim(s)
  <2>1. /\ \A t \in Session : t # s => sess'[t] = sess[t]
        /\ sess'[s].pc = "check"
        /\ \A d \in Dep : /\ d = Current(s) => sess'[s].mine[d] = sess'[s].seen[d]
                          /\ d # Current(s) => /\ sess'[s].mine[d] = sess[s].mine[d]
                                               /\ sess'[s].seen[d] = sess[s].seen[d]
    <3> DEFINE c == Current(s)
    <3>1. sess' = [sess EXCEPT ![s] = [sess[s] EXCEPT !.pc = "check",
                    !.seen = [sess[s].seen EXCEPT ![c] = row[c]],
                    !.mine = [sess[s].mine EXCEPT ![c] = row[c]]]]
      BY <1>2, SessType, ZenonT(60) DEF LoseClaim, TypeInv, TypeOK, SessionState
    <3>2. sess \in [Session -> SessionState]
      BY DEF TypeInv, TypeOK
    <3>3. sess[s].mine \in [Dep -> Row] /\ sess[s].seen \in [Dep -> Row] /\ sess[s] \in SessionState
      BY SessType
    <3> HIDE DEF c
    <3>4. \A t \in Session : t # s => sess'[t] = sess[t]
      BY <3>1, <3>2
    <3>5. sess'[s] = [sess[s] EXCEPT !.pc = "check",
                        !.seen = [sess[s].seen EXCEPT ![c] = row[c]],
                        !.mine = [sess[s].mine EXCEPT ![c] = row[c]]]
      BY <3>1, <3>2
    <3>6. /\ sess'[s].pc = "check"
          /\ sess'[s].seen = [sess[s].seen EXCEPT ![c] = row[c]]
          /\ sess'[s].mine = [sess[s].mine EXCEPT ![c] = row[c]]
      BY <3>3, <3>5 DEF SessionState
    <3>7. \A d \in Dep : /\ d = c => sess'[s].mine[d] = sess'[s].seen[d]
                         /\ d # c => /\ sess'[s].mine[d] = sess[s].mine[d]
                                     /\ sess'[s].seen[d] = sess[s].seen[d]
      BY <3>3, <3>6
    <3>8. QED
      BY <3>4, <3>6, <3>7 DEF c
  <2>2. KeepsWaiting(s)'
    BY <1>0, <2>1, KeptWaiting DEF KeepsWaiting
  <2>3. \A d \in Dep : attempts[d] <= attempts'[d] /\ attempts'[d] = attempts[d]
    BY <1>2 DEF LoseClaim, TypeInv, TypeOK
  <2>4. log' = log /\ row' = row
    BY <1>2 DEF LoseClaim
  <2>5. QED
    BY <2>1, <2>2, <2>3, <2>4, UnclaimedStep
<1>3. CASE RefuseDispatch(s)
  BY <1>0, <1>00, <1>3, OutcomeClaim DEF RefuseDispatch
<1>4. CASE SendPromote(s)
  BY <1>4, ClaimSend
<1>5. CASE RecordPromotion(s)
  <2>1. PICK n \in DOMAIN drone :
          Outcome(s, [Mine(s) EXCEPT !.status = "DEPLOYING", !.build = n], "DEPLOYING")
    BY <1>5, ZenonT(60) DEF RecordPromotion
  <2>2. n \in Nat
    BY DroneFacts
  <2>3. [Mine(s) EXCEPT !.status = "DEPLOYING", !.build = n].status = "DEPLOYING"
    BY <1>00 DEF Row
  <2>4. QED
    BY <1>0, <2>1, <2>2, <2>3, RowsOfType, OutcomeClaim, ZenonT(60)
<1>6. CASE MarkPromotionUnconfirmed(s)
  BY <1>0, <1>00, <1>6, OutcomeClaim DEF MarkPromotionUnconfirmed
<1>7. CASE RejectPromote(s)
  BY <1>0, <1>00, <1>7, OutcomeClaim DEF RejectPromote
<1>8. CASE UnusableAnswer(s)
  BY <1>0, <1>00, <1>8, OutcomeClaim DEF UnusableAnswer
<1>9. QED
  BY <1>1, <1>2, <1>3, <1>4, <1>5, <1>6, <1>7, <1>8, SMTT(60) DEF Promote

LEMMA ClaimSettle ==
  ASSUME TypeInv, TypeInv', ClaimInv, NEW s \in Session, Settle(s) PROVE ClaimInv'
<1>0. sess[s].pc = "check"
  BY DEF Settle, NextStep, FinishSuccess, FailBundle, EndPass, Checking
<1>1. CASE NextStep(s)
  <2>1. /\ \A t \in Session : t # s => sess'[t] = sess[t]
        /\ sess'[s].pc \in {"step", "check"}
        /\ sess'[s].mine = sess[s].mine /\ sess'[s].seen = sess[s].seen
    BY <1>1, SessType, PhaseAtType, SMTT(60) DEF NextStep, TypeInv, TypeOK, SessionState
  <2>2. KeepsWaiting(s)'
    BY <1>0, <2>1, KeptWaiting DEF KeepsWaiting
  <2>3. \A d \in Dep : attempts[d] <= attempts'[d] /\ attempts'[d] = attempts[d]
    BY <1>1 DEF NextStep, TypeInv, TypeOK
  <2>4. log' = log /\ row' = row
    BY <1>1 DEF NextStep
  <2>5. QED
    BY <2>1, <2>2, <2>3, <2>4, UnclaimedStep
<1>2. CASE FinishSuccess(s)
  BY <1>0, <1>2, SessType, KeptWaiting, FinishClaim DEF FinishSuccess
<1>3. CASE FailBundle(s)
  <2> DEFINE after == [d \in Dep |-> Stopped(sess[s].mine[d])]
             verdict == IF \E d \in DepsOf(sess[s].job) : after[d].status = "SUCCESS"
                        THEN "PARTIAL_FAILURE" ELSE "FAILED"
  <2>1. after \in [Dep -> Row]
    BY SessType, StoppedType
  <2>2. Finish(s, after, verdict)
    BY <1>3 DEF FailBundle
  <2>3. \A d \in Dep : after[d].status # "WAITING"
    BY SessType DEF Stopped, Row
  <2> HIDE DEF after, verdict
  <2>4. QED
    BY <2>1, <2>2, <2>3, FinishClaim
<1>4. CASE EndPass(s)
  BY <1>0, <1>4, SessType, KeptWaiting, FinishClaim DEF EndPass
<1>5. QED
  BY <1>1, <1>2, <1>3, <1>4 DEF Settle

LEMMA ClaimRaise ==
  ASSUME TypeInv, TypeInv', ClaimInv, NEW s \in Session, Raise(s) PROVE ClaimInv'
<1>1. \A t \in Session : t # s => sess'[t] = sess[t]
  BY DEF Raise, TypeInv, TypeOK
<1>2. sess'[s].pc = "idle" /\ sess'[s].mine = sess'[s].seen
  BY DEF Raise, TypeInv, TypeOK, Idle
<1>3. KeepsWaiting(s)'
  BY <1>2 DEF KeepsWaiting
<1>4. \A d \in Dep : attempts[d] <= attempts'[d] /\ attempts'[d] = attempts[d]
  BY DEF Raise, TypeInv, TypeOK
<1>5. log' = log /\ row' = row
  BY DEF Raise
<1>6. QED
  BY <1>1, <1>2, <1>3, <1>4, <1>5, UnclaimedStep

LEMMA ClaimUntouched ==
  ASSUME ClaimInv, UNCHANGED <<row, sess, log, attempts>> PROVE ClaimInv'
BY DEF ClaimInv, KeepsWaiting, Sent, Ticket, Fresh, Current, AttemptPostedOnce

LEMMA ClaimStep == TypeInv /\ TypeInv' /\ ClaimInv /\ [Next]_vars => ClaimInv'
<1> SUFFICES ASSUME TypeInv, TypeInv', ClaimInv, [Next]_vars PROVE ClaimInv'
  OBVIOUS
<1>1. CASE \E s \in Request, b \in Bundle : Call(s, b)
  BY <1>1, ClaimCall, SessionFacts
<1>2. CASE \E b \in Bundle : ResumeDeployments(b)
  BY <1>2, ClaimCall, SessionFacts DEF ResumeDeployments, Call
<1>3. ASSUME NEW s \in Session,
             CommitRetry(s) \/ Refresh(s) \/ Promote(s) \/ Settle(s) \/ Raise(s)
      PROVE  ClaimInv'
  BY <1>3, ClaimRetry, ClaimRefresh, ClaimPromote, ClaimSettle, ClaimRaise
<1>4. CASE \/ \E p \in wire : CreatePromotion(p)
           \/ \E n \in DOMAIN drone : FinishBuild(n)
  BY <1>4, ClaimUntouched DEF CreatePromotion, FinishBuild
<1>5. CASE UNCHANGED vars
  BY <1>5, ClaimUntouched DEF vars
<1>6. QED
  BY <1>1, <1>2, <1>3, <1>4, <1>5 DEF Next

LEMMA ClaimInvAlways == Spec => []ClaimInv
<1>1. Init => ClaimInv
  BY ClaimInit
<1>2. TypeInv /\ TypeInv' /\ ClaimInv /\ [Next]_vars => ClaimInv'
  BY ClaimStep
<1>3. QED
  BY <1>1, <1>2, TypeInvAlways, PTL DEF Spec

\* However many requests and worker passes race for a deployment, and
\* wherever they die, Drone is asked to promote it at most once per attempt.
THEOREM PromotedOnce == Spec => []AttemptPostedOnce
<1>1. ClaimInv => AttemptPostedOnce
  BY DEF ClaimInv
<1>2. QED
  BY <1>1, ClaimInvAlways, PTL

\* A deployment found WAITING was not promoted in its present attempt: the
\* worker or a retry may promote it.
THEOREM WaitingSafe == Spec => []WaitingIsUnsent
<1>1. ClaimInv => WaitingIsUnsent
  BY DEF ClaimInv, WaitingIsUnsent, Sent, Fresh
<1>2. QED
  BY <1>1, ClaimInvAlways, PTL

----------------------------------------------------------------------------
(* How a deployment that has ended can change again                        *)

Ended == {"SUCCESS", "FAILED", "CANCELLED"}

\* What s may write with the copy mine: it resets what did not succeed, or
\* moves on what it has read as unfinished.
MayWrite(s, mine) ==
  \A d \in Dep : mine[d].status # sess[s].seen[d].status =>
    /\ d \in DepsOf(sess[s].job)
    /\ IF sess[s].pc = "reset"
         THEN mine[d].status = "WAITING" /\ sess[s].seen[d].status # "SUCCESS"
         ELSE sess[s].seen[d].status \in Resumable

\* A session works on a release that was created, and on the rows of no other.
Copy(s) ==
  sess[s].pc # "idle" =>
    /\ bundle[sess[s].job] # "ABSENT"
    /\ \A d \in Dep : d \notin DepsOf(sess[s].job) => sess[s].seen[d].status = "ABSENT"
    /\ MayWrite(s, sess[s].mine)
    /\ sess[s].pc \in {"claimed", "sent"} => sess[s].seen[Current(s)].status = "PROMOTING"

Unmade ==
  \A b \in Bundle : bundle[b] = "ABSENT" => \A d \in DepsOf(b) : row[d].status = "ABSENT"

CopyInv == Unmade /\ \A s \in Session : Copy(s)

\* A row that has ended changes for a retry, or by a session that read it
\* before it ended; and a success only by one that has not read it.
UndoneByStale ==
  \A d \in Dep : row[d].status \in Ended /\ row'[d].status # row[d].status =>
    \E s \in Session :
      /\ sess'[s].pc # sess[s].pc
      /\ \/ sess[s].pc = "reset" /\ sess[s].mine[d].status = "WAITING" /\ row'[d].status = "WAITING"
         \/ sess[s].seen[d].status \in Resumable
      /\ row[d].status = "SUCCESS" => sess[s].seen[d].status # "SUCCESS"

LEMMA CopyInit == Init => CopyInv
BY IdleType, DepsAreDeps DEF Init, CopyInv, Copy, Unmade, Blank

LEMMA DepsApart ==
  ASSUME NEW b \in Bundle, NEW c \in Bundle, NEW d \in DepsOf(b), d \in DepsOf(c)
  PROVE  b = c
BY StepsAssumption DEF DepsOf

\* One session moves, and no row changes.
LEMMA QuietCopy ==
  ASSUME CopyInv, NEW s \in Session, row' = row, bundle' = bundle,
         \A t \in Session : t # s => sess'[t] = sess[t], Copy(s)'
  PROVE  CopyInv' /\ UndoneByStale
<1>1. Unmade'
  BY DEF CopyInv, Unmade
<1>2. ASSUME NEW t \in Session, t # s PROVE Copy(t)'
  <2>1. sess'[t] = sess[t] /\ Current(t)' = Current(t) /\ Copy(t)
    BY <1>2 DEF CopyInv, Current
  <2>2. QED
    BY <2>1 DEF Copy, MayWrite
<1>3. UndoneByStale
  BY DEF UndoneByStale
<1>4. QED
  BY <1>1, <1>2, <1>3 DEF CopyInv

\* The rows that a session writes are its release's.
LEMMA WritesCopy ==
  ASSUME TypeInv, CopyInv, NEW s \in Session, sess[s].pc # "idle",
         \A d \in Dep : d \notin DepsOf(sess[s].job) => row'[d].status = row[d].status,
         \A b \in Bundle : bundle'[b] = "ABSENT" => bundle[b] = "ABSENT",
         \A t \in Session : t # s => sess'[t] = sess[t], Copy(s)'
  PROVE  CopyInv'
<1>1. sess[s].job \in Bundle /\ bundle[sess[s].job] # "ABSENT"
  BY SessType DEF CopyInv, Copy
<1>2. Unmade'
  <2>1. ASSUME NEW b \in Bundle, bundle'[b] = "ABSENT", NEW d \in DepsOf(b)
        PROVE  row'[d].status = "ABSENT"
    <3>1. bundle[b] = "ABSENT" /\ b # sess[s].job /\ d \in Dep
      BY <1>1, <2>1, DepsAreDeps
    <3>2. d \notin DepsOf(sess[s].job)
      BY <1>1, <3>1, DepsApart
    <3>3. QED
      BY <3>1, <3>2 DEF CopyInv, Unmade
  <2>2. QED
    BY <2>1 DEF Unmade
<1>3. ASSUME NEW t \in Session, t # s PROVE Copy(t)'
  <2>1. sess'[t] = sess[t] /\ Current(t)' = Current(t) /\ Copy(t)
    BY <1>3 DEF CopyInv, Current
  <2>2. sess[t].pc # "idle" => sess[t].job \in Bundle
    BY SessType
  <2>3. QED
    BY <2>1, <2>2 DEF Copy, MayWrite
<1>4. QED
  BY <1>2, <1>3 DEF CopyInv

LEMMA MergedChanges ==
  ASSUME NEW db, NEW seen, NEW mine, Merged(db, seen, mine).status # db.status
  PROVE  mine.status # seen.status /\ Merged(db, seen, mine).status = mine.status
BY DEF Merged

\* A commit of what the session may write.
LEMMA CommitCopy ==
  ASSUME TypeInv, CopyInv, NEW s \in Session, sess[s].pc # "idle",
         NEW mine \in [Dep -> Row], NEW mineB \in BundleStatus, NEW next,
         next.pc \in {"idle", "step", "check"}, next.pc # sess[s].pc,
         next.pc # "idle" => next \in SessionState /\ next.job = sess[s].job,
         Commit(s, mine, mineB, next), MayWrite(s, mine),
         sess[s].pc = "reset" => mine = sess[s].mine
  PROVE  CopyInv' /\ UndoneByStale
<1>1. /\ \A t \in Session : t # s => sess'[t] = sess[t]
      /\ sess'[s].pc = next.pc /\ sess'[s].mine = sess'[s].seen
  BY CommitEffect
<1>2. sess'[s].pc # "idle" => sess'[s].seen = mine /\ sess'[s].job = sess[s].job
  BY <1>1 DEF Commit, SessionState, TypeInv, TypeOK
<1>3. \A d \in Dep : row'[d] = Merged(row[d], sess[s].seen[d], mine[d])
  BY DEF Commit, Flushed
<1>4. Copy(s) /\ sess[s].job \in Bundle
  BY SessType DEF CopyInv
<1>5. \A b \in Bundle : bundle'[b] = "ABSENT" => bundle[b] = "ABSENT"
  BY DEF Commit, TypeInv, TypeOK, BundleStatus
<1>6. \A d \in Dep : row'[d].status # row[d].status =>
        mine[d].status # sess[s].seen[d].status /\ row'[d].status = mine[d].status
  BY <1>3, MergedChanges
<1>7. \A d \in Dep : d \notin DepsOf(sess[s].job) =>
        row'[d].status = row[d].status /\ mine[d].status = "ABSENT"
  BY <1>4, <1>6 DEF MayWrite, Copy
<1>8. bundle'[sess[s].job] # "ABSENT"
  BY <1>4, <1>5 DEF Copy
<1>9. Copy(s)'
  BY <1>1, <1>2, <1>7, <1>8 DEF Copy, MayWrite
<1>10. CopyInv'
  BY <1>1, <1>5, <1>7, <1>9, WritesCopy
<1>11. UndoneByStale
  <2>1. ASSUME NEW d \in Dep, row[d].status \in Ended, row'[d].status # row[d].status
        PROVE  /\ \/ sess[s].pc = "reset" /\ sess[s].mine[d].status = "WAITING" /\ row'[d].status = "WAITING"
                  \/ sess[s].seen[d].status \in Resumable
               /\ row[d].status = "SUCCESS" => sess[s].seen[d].status # "SUCCESS"
    <3>1. mine[d].status # sess[s].seen[d].status /\ row'[d].status = mine[d].status
      BY <1>6, <2>1
    <3>2. CASE sess[s].pc = "reset"
      BY <3>1, <3>2 DEF MayWrite
    <3>3. CASE sess[s].pc # "reset"
      BY <3>1, <3>3 DEF MayWrite, Resumable
    <3>4. QED
      BY <3>2, <3>3
  <2>2. sess'[s].pc # sess[s].pc
    BY <1>1
  <2>3. QED
    BY <2>1, <2>2 DEF UndoneByStale
<1>12. QED
  BY <1>10, <1>11

LEMMA FinishCopy ==
  ASSUME TypeInv, CopyInv, NEW s \in Session, sess[s].pc \in {"step", "check"},
         NEW mine \in [Dep -> Row], NEW mineB \in BundleStatus,
         Finish(s, mine, mineB), MayWrite(s, mine)
  PROVE  CopyInv' /\ UndoneByStale
<1>1. Commit(s, mine, mineB, Idle) /\ Idle.pc = "idle"
  BY IdleType DEF Finish
<1>2. QED
  BY <1>1, CommitCopy

\* The current row of a session that reads or promotes it.
LEMMA WithCopy ==
  ASSUME TypeInv, CopyInv, NEW s \in Session, sess[s].pc \notin {"idle", "reset"}, NEW r \in Row,
         \/ r.status = Mine(s).status
         \/ Mine(s).status \in Resumable
         \/ sess[s].pc \in {"claimed", "sent"}
  PROVE  MayWrite(s, With(s, r))
<1>1. /\ Current(s) \in Dep /\ Current(s) \in DepsOf(sess[s].job)
      /\ Mine(s) = sess[s].mine[Current(s)] /\ sess[s].mine \in [Dep -> Row]
  BY CurrentIsDep, SessType
<1>2. \A d \in Dep : With(s, r)[d] = IF d = Current(s) THEN r ELSE sess[s].mine[d]
  BY <1>1 DEF With
<1>3. MayWrite(s, sess[s].mine)
      /\ (sess[s].pc \in {"claimed", "sent"} => sess[s].seen[Current(s)].status = "PROMOTING")
  BY DEF CopyInv, Copy
<1>4. sess[s].seen[Current(s)].status \in Resumable \/ r.status = sess[s].seen[Current(s)].status
  BY <1>1, <1>3 DEF MayWrite, Resumable
<1>5. QED
  BY <1>1, <1>2, <1>3, <1>4 DEF MayWrite

LEMMA OutcomeCopy ==
  ASSUME TypeInv, CopyInv, NEW s \in Session, sess[s].pc \in {"claimed", "sent"}, NEW r \in Row,
         NEW mineB \in BundleStatus, Outcome(s, r, mineB)
  PROVE  CopyInv' /\ UndoneByStale
<1> DEFINE next == IF r.status # "FAILED" THEN Idle
                   ELSE [sess[s] EXCEPT !.pc = "check", !.post = 0, !.attempt = 0]
<1>1. Commit(s, With(s, r), mineB, next)
  BY DEF Outcome
<1>2. /\ next.pc \in {"idle", "check"}
      /\ next.pc # "idle" => next \in SessionState /\ next.job = sess[s].job
  BY SessType, IdleType DEF SessionState
<1>3. With(s, r) \in [Dep -> Row] /\ MayWrite(s, With(s, r))
  BY WithType, WithCopy
<1> HIDE DEF next
<1>4. QED
  BY <1>1, <1>2, <1>3, CommitCopy

LEMMA LookedCopy ==
  ASSUME TypeInv, CopyInv, NEW s \in Session, InFlight(s), NEW r \in Row,
         NEW mineB, Looked(s, With(s, r), mineB)
  PROVE  CopyInv' /\ UndoneByStale
<1>1. /\ \A t \in Session : t # s => sess'[t] = sess[t]
      /\ sess'[s].pc = "check" /\ sess'[s].mine = With(s, r) /\ sess'[s].seen = sess[s].seen
      /\ sess'[s].job = sess[s].job /\ row' = row /\ bundle' = bundle
  BY SessType DEF Looked, TypeInv, TypeOK, SessionState
<1>2. sess[s].pc = "step" /\ MayWrite(s, With(s, r)) /\ Copy(s)
  BY WithCopy DEF InFlight, Resumable, CopyInv
<1>3. Copy(s)'
  BY <1>1, <1>2 DEF Copy, MayWrite
<1>4. QED
  BY <1>1, <1>3, QuietCopy

LEMMA CopyCall ==
  ASSUME TypeInv, CopyInv, NEW s \in Session, NEW b \in Bundle, Call(s, b)
  PROVE  CopyInv' /\ UndoneByStale
<1>1. \A t \in Session : t # s => sess'[t] = sess[t]
  BY DEF Call, CreateBundle, RefreshBundle, BeginRetry, TypeInv, TypeOK
<1>2. CASE CreateBundle(s, b)
  <2>1. /\ sess'[s].pc = "step" /\ sess'[s].mine = sess'[s].seen /\ sess'[s].job = b
        /\ \A d \in Dep : d \notin DepsOf(b) => sess'[s].seen[d].status = "ABSENT"
    BY <1>2 DEF CreateBundle, Opened, Idle, TypeInv, TypeOK, Blank
  <2>2. /\ bundle[b] = "ABSENT" /\ bundle'[b] = "PENDING"
        /\ \A c \in Bundle : c # b => bundle'[c] = bundle[c]
    BY <1>2 DEF CreateBundle, TypeInv, TypeOK
  <2>3. \A d \in Dep : d \notin DepsOf(b) => row'[d] = row[d]
    BY <1>2 DEF CreateBundle
  <2>4. \A d \in DepsOf(b) : row[d].status = "ABSENT"
    BY <2>2 DEF CopyInv, Unmade
  <2>5. UndoneByStale
    BY <2>3, <2>4 DEF UndoneByStale, Ended
  <2>6. Unmade'
    <3>1. ASSUME NEW c \in Bundle, bundle'[c] = "ABSENT", NEW d \in DepsOf(c)
          PROVE  row'[d].status = "ABSENT"
      <4>1. c # b /\ bundle[c] = "ABSENT" /\ d \in Dep
        BY <2>2, <3>1, DepsAreDeps
      <4>2. d \notin DepsOf(b)
        BY <4>1, DepsApart
      <4>3. QED
        BY <2>3, <4>1, <4>2 DEF CopyInv, Unmade
    <3>2. QED
      BY <3>1 DEF Unmade
  <2>7. ASSUME NEW t \in Session PROVE Copy(t)'
    <3>1. CASE t = s
      BY <2>1, <2>2, <3>1 DEF Copy, MayWrite
    <3>2. CASE t # s
      <4>1. sess'[t] = sess[t] /\ Current(t)' = Current(t) /\ Copy(t)
        BY <1>1, <3>2 DEF CopyInv, Current
      <4>2. sess[t].pc # "idle" => sess[t].job \in Bundle
        BY SessType
      <4>3. QED
        BY <2>2, <4>1, <4>2 DEF Copy, MayWrite
    <3>3. QED
      BY <3>1, <3>2
  <2>8. QED
    BY <2>5, <2>6, <2>7 DEF CopyInv
<1>3. CASE RefreshBundle(s, b)
  <2>1. /\ sess'[s].pc \in {"step", "check"} /\ sess'[s].mine = sess'[s].seen
        /\ sess'[s].job = b /\ sess'[s].seen = RowsRead(b)
        /\ row' = row /\ bundle' = bundle /\ bundle[b] # "ABSENT"
    BY <1>3, PhaseAtType DEF RefreshBundle, Opened, Idle, TypeInv, TypeOK
  <2>2. Copy(s)'
    BY <2>1 DEF Copy, MayWrite, RowsRead, Blank
  <2>3. QED
    BY <1>1, <2>1, <2>2, QuietCopy
<1>4. CASE BeginRetry(s, b)
  <2> DEFINE mine == [d \in Dep |-> IF d \in DepsOf(b) /\ row[d].status # "SUCCESS"
                                    THEN Created ELSE RowsRead(b)[d]]
  <2>1. /\ sess'[s].pc = "reset" /\ sess'[s].mine = mine
        /\ sess'[s].job = b /\ sess'[s].seen = RowsRead(b)
        /\ row' = row /\ bundle' = bundle /\ bundle[b] # "ABSENT"
    BY <1>4 DEF BeginRetry, Opened, Idle, TypeInv, TypeOK, Retryable
  <2>2. \A d \in Dep : RowsRead(b)[d] = IF d \in DepsOf(b) THEN row[d] ELSE Blank
    BY DEF RowsRead
  <2>3. \A d \in Dep : mine[d].status # RowsRead(b)[d].status =>
          /\ d \in DepsOf(b) /\ mine[d].status = "WAITING"
          /\ RowsRead(b)[d].status # "SUCCESS"
    BY <2>2 DEF Created, Blank
  <2> HIDE DEF mine
  <2>4. Copy(s)'
    BY <2>1, <2>2, <2>3 DEF Copy, MayWrite, Blank
  <2>5. QED
    BY <1>1, <2>1, <2>4, QuietCopy
<1>5. QED
  BY <1>2, <1>3, <1>4 DEF Call

LEMMA CopyRetry ==
  ASSUME TypeInv, CopyInv, NEW s \in Session, CommitRetry(s) PROVE CopyInv' /\ UndoneByStale
<1> DEFINE next == [sess[s] EXCEPT !.pc = PhaseAt(sess[s].job, sess[s].mine, 1)]
<1>1. sess[s].pc = "reset" /\ Commit(s, sess[s].mine, sess[s].mineB, next)
  BY DEF CommitRetry
<1>2. next \in SessionState /\ next.pc \in {"step", "check"} /\ next.job = sess[s].job
  BY SessType, PhaseAtType DEF SessionState
<1> HIDE DEF next
<1>3. MayWrite(s, sess[s].mine)
  BY <1>1 DEF CopyInv, Copy
<1>4. QED
  BY <1>1, <1>2, <1>3, SessType, CommitCopy

LEMMA CopyRefresh ==
  ASSUME TypeInv, CopyInv, NEW s \in Session, Refresh(s) PROVE CopyInv' /\ UndoneByStale
<1>1. InFlight(s) /\ sess[s].pc = "step"
  BY ZenonT(60) DEF Refresh, TimedOut, ReconcilePromotion, PollBuild, RecordPollFailure, InFlight
<1>2. CASE TimedOut(s)
  BY <1>1, <1>2, RowsOfType, LookedCopy, ZenonT(60) DEF TimedOut
<1>3. CASE ReconcilePromotion(s)
  <2>1. PICK n \in PromotionsOf(Current(s)) :
          Looked(s, With(s, [Mine(s) EXCEPT !.status = "DEPLOYING", !.build = n]), "DEPLOYING")
    BY <1>3, ZenonT(60) DEF ReconcilePromotion
  <2>2. n \in Nat
    BY SMTT(60) DEF PromotionsOf, TypeInv, TypeOK
  <2>3. QED
    BY <1>1, <2>1, <2>2, RowsOfType, LookedCopy, ZenonT(60)
<1>4. CASE PollBuild(s)
  <2> DEFINE st == AfterVerdict(Current(s), drone[Mine(s).build].verdict)
  <2>1. st \in DeploymentStatus
    BY AfterVerdictType
  <2>2. Looked(s, With(s, [Mine(s) EXCEPT !.status = st]), sess[s].mineB)
    BY <1>4 DEF PollBuild
  <2> HIDE DEF st
  <2>3. QED
    BY <1>1, <2>1, <2>2, RowsOfType, LookedCopy, ZenonT(60)
<1>5. CASE RecordPollFailure(s)
  <2>1. MayWrite(s, sess[s].mine)
    BY <1>1 DEF CopyInv, Copy
  <2>2. QED
    BY <1>1, <1>5, <2>1, SessType, FinishCopy DEF RecordPollFailure
<1>6. QED
  BY <1>2, <1>3, <1>4, <1>5 DEF Refresh

LEMMA CopyClaim ==
  ASSUME TypeInv, CopyInv, NEW s \in Session, ClaimForPromotion(s) PROVE CopyInv' /\ UndoneByStale
<1> DEFINE d == Current(s)
           won == With(s, Claimed(row[d]))
           next == [sess[s] EXCEPT !.pc = "claimed", !.attempt = attempts[d],
                      !.seen = won, !.mine = won, !.seenB = "PROMOTING", !.mineB = "PROMOTING"]
<1>1. /\ sess[s].pc = "step" /\ row[d].status = "WAITING"
      /\ row' = [Flushed(s, sess[s].mine) EXCEPT ![d] = Claimed(row[d])]
      /\ sess' = [sess EXCEPT ![s] = next]
  BY DEF ClaimForPromotion, AtWaiting, Claimable
<1>2. d \in Dep /\ d \in DepsOf(sess[s].job) /\ sess[s].job \in Bundle /\ row[d] \in Row
  BY <1>1, CurrentIsDep, SessType DEF TypeInv, TypeOK
<1>3. \A t \in Session : t # s => sess'[t] = sess[t]
  BY <1>1 DEF TypeInv, TypeOK
<1>4. /\ sess'[s].pc = "claimed" /\ sess'[s].mine = won /\ sess'[s].seen = won
      /\ sess'[s].job = sess[s].job /\ sess'[s].at = sess[s].at
  BY <1>1, SessType DEF TypeInv, TypeOK, SessionState
<1>5. \A b \in Bundle : bundle'[b] = "ABSENT" => bundle[b] = "ABSENT"
  BY DEF ClaimForPromotion, TypeInv, TypeOK
<1>6. Current(s)' = d /\ Copy(s)
  BY <1>4 DEF Current, CopyInv
<1>7. \A e \in Dep : won[e] = IF e = d THEN Claimed(row[d]) ELSE sess[s].mine[e]
  BY <1>2, SessType DEF With
<1>8. \A e \in Dep : e # d => row'[e] = Merged(row[e], sess[s].seen[e], sess[s].mine[e])
  BY <1>1 DEF Flushed
<1>9. Claimed(row[d]).status = "PROMOTING"
  BY <1>2 DEF Claimed, Row
<1> HIDE DEF d, won, next
<1>10. \A e \in Dep : e # d /\ row'[e].status # row[e].status =>
         e \in DepsOf(sess[s].job) /\ sess[s].seen[e].status \in Resumable
  BY <1>1, <1>6, <1>8, MergedChanges DEF Copy, MayWrite
<1>11. \A e \in Dep : e \notin DepsOf(sess[s].job) => won[e].status = "ABSENT"
  BY <1>1, <1>2, <1>6, <1>7 DEF Copy, MayWrite
<1>12. Copy(s)'
  BY <1>1, <1>2, <1>4, <1>5, <1>6, <1>7, <1>9, <1>11 DEF Copy, MayWrite
<1>13. CopyInv'
  BY <1>1, <1>2, <1>3, <1>5, <1>10, <1>12, WritesCopy
<1>14. UndoneByStale
  BY <1>1, <1>4, <1>10 DEF UndoneByStale, Ended, Resumable
<1>15. QED
  BY <1>13, <1>14

LEMMA CopyPromote ==
  ASSUME TypeInv, CopyInv, NEW s \in Session, Promote(s) PROVE CopyInv' /\ UndoneByStale
<1>1. CASE ClaimForPromotion(s)
  BY <1>1, CopyClaim
<1>2. CASE LoseClaim(s)
  <2> DEFINE c == Current(s)
  <2>1. /\ sess[s].pc = "step" /\ row' = row /\ bundle' = bundle
        /\ sess' = [sess EXCEPT ![s].pc = "check", ![s].seen[c] = row[c], ![s].mine[c] = row[c]]
    BY <1>2 DEF LoseClaim, AtWaiting
  <2>2. c \in Dep /\ c \in DepsOf(sess[s].job) /\ Copy(s)
    BY <2>1, CurrentIsDep DEF CopyInv
  <2> HIDE DEF c
  <2>3. sess' = [sess EXCEPT ![s] = [sess[s] EXCEPT !.pc = "check",
                  !.seen = [sess[s].seen EXCEPT ![c] = row[c]],
                  !.mine = [sess[s].mine EXCEPT ![c] = row[c]]]]
    BY <2>1, SessType, ZenonT(60) DEF TypeInv, TypeOK, SessionState
  <2>4. sess \in [Session -> SessionState] /\ sess[s] \in SessionState
        /\ sess[s].mine \in [Dep -> Row] /\ sess[s].seen \in [Dep -> Row]
    BY SessType DEF TypeInv, TypeOK
  <2>5. \A t \in Session : t # s => sess'[t] = sess[t]
    BY <2>3, <2>4
  <2>6. /\ sess'[s].pc = "check" /\ sess'[s].job = sess[s].job
        /\ sess'[s].seen = [sess[s].seen EXCEPT ![c] = row[c]]
        /\ sess'[s].mine = [sess[s].mine EXCEPT ![c] = row[c]]
    BY <2>3, <2>4 DEF SessionState
  <2>7. \A d \in Dep : /\ d = c => sess'[s].mine[d] = sess'[s].seen[d]
                       /\ d # c => /\ sess'[s].mine[d] = sess[s].mine[d]
                                   /\ sess'[s].seen[d] = sess[s].seen[d]
    BY <2>4, <2>6
  <2>8. Copy(s)'
    BY <2>1, <2>2, <2>6, <2>7, ZenonT(60) DEF Copy, MayWrite
  <2>9. QED
    BY <2>1, <2>5, <2>8, QuietCopy
<1>3. CASE SendPromote(s)
  <2>1. /\ sess[s].pc = "claimed" /\ row' = row /\ bundle' = bundle
        /\ \A t \in Session : t # s => sess'[t] = sess[t]
        /\ sess'[s].pc = "sent" /\ sess'[s].mine = sess[s].mine /\ sess'[s].seen = sess[s].seen
        /\ sess'[s].job = sess[s].job /\ sess'[s].at = sess[s].at
    BY <1>3, SessType DEF SendPromote, TypeInv, TypeOK, SessionState
  <2>2. Copy(s) /\ Current(s)' = Current(s)
    BY <2>1 DEF CopyInv, Current
  <2>3. Copy(s)'
    BY <2>1, <2>2 DEF Copy, MayWrite
  <2>4. QED
    BY <2>1, <2>3, QuietCopy
<1>4. CASE RefuseDispatch(s) \/ RejectPromote(s) \/ UnusableAnswer(s) \/ MarkPromotionUnconfirmed(s)
  <2>1. sess[s].pc \in {"claimed", "sent"}
        /\ (Outcome(s, Failed(s), sess[s].mineB) \/ Outcome(s, Mine(s), sess[s].mineB))
    BY <1>4, ZenonT(60) DEF RefuseDispatch, RejectPromote, UnusableAnswer, MarkPromotionUnconfirmed
  <2>2. Failed(s) \in Row /\ Mine(s) \in Row /\ sess[s].mineB \in BundleStatus
    BY <2>1, RowsOfType, SessType, ZenonT(60)
  <2>3. QED
    BY <2>1, <2>2, OutcomeCopy
<1>5. CASE RecordPromotion(s)
  <2>1. PICK n \in DOMAIN drone :
          Outcome(s, [Mine(s) EXCEPT !.status = "DEPLOYING", !.build = n], "DEPLOYING")
    BY <1>5, ZenonT(60) DEF RecordPromotion
  <2>2. n \in Nat /\ sess[s].pc = "sent" /\ "DEPLOYING" \in BundleStatus
    BY <1>5, DroneFacts DEF RecordPromotion, BundleStatus
  <2>3. [Mine(s) EXCEPT !.status = "DEPLOYING", !.build = n] \in Row
    BY <2>2, RowsOfType, ZenonT(60)
  <2>4. QED
    BY <2>1, <2>2, <2>3, OutcomeCopy
<1>6. QED
  BY <1>1, <1>2, <1>3, <1>4, <1>5 DEF Promote

LEMMA CopySettle ==
  ASSUME TypeInv, CopyInv, NEW s \in Session, Settle(s) PROVE CopyInv' /\ UndoneByStale
<1>1. sess[s].pc = "check" /\ MayWrite(s, sess[s].mine) /\ Copy(s)
  BY DEF Settle, NextStep, FinishSuccess, FailBundle, EndPass, Checking, CopyInv, Copy
<1>2. CASE NextStep(s)
  <2>1. /\ \A t \in Session : t # s => sess'[t] = sess[t]
        /\ sess'[s].pc \in {"step", "check"} /\ sess'[s].job = sess[s].job
        /\ sess'[s].mine = sess[s].mine /\ sess'[s].seen = sess[s].seen
        /\ row' = row /\ bundle' = bundle
    BY <1>2, SessType, PhaseAtType, SMTT(60) DEF NextStep, TypeInv, TypeOK, SessionState
  <2>2. Copy(s)'
    BY <1>1, <2>1 DEF Copy, MayWrite
  <2>3. QED
    BY <2>1, <2>2, QuietCopy
<1>3. CASE FinishSuccess(s)
  BY <1>1, <1>3, SessType, FinishCopy DEF FinishSuccess, BundleStatus
<1>4. CASE FailBundle(s)
  <2> DEFINE after == [d \in Dep |-> Stopped(sess[s].mine[d])]
             verdict == IF \E d \in DepsOf(sess[s].job) : after[d].status = "SUCCESS"
                        THEN "PARTIAL_FAILURE" ELSE "FAILED"
  <2>1. after \in [Dep -> Row] /\ verdict \in BundleStatus
    BY SessType, StoppedType DEF BundleStatus
  <2>2. Finish(s, after, verdict)
    BY <1>4 DEF FailBundle
  <2>3. \A d \in Dep : after[d].status = sess[s].mine[d].status \/ sess[s].mine[d].status = "WAITING"
    BY DEF Stopped
  <2> HIDE DEF after, verdict
  <2>4. MayWrite(s, after)
    BY <1>1, <2>3 DEF MayWrite, Copy, Resumable
  <2>5. QED
    BY <1>1, <2>1, <2>2, <2>4, FinishCopy
<1>5. CASE EndPass(s)
  BY <1>1, <1>5, SessType, FinishCopy DEF EndPass
<1>6. QED
  BY <1>2, <1>3, <1>4, <1>5 DEF Settle

LEMMA CopyRaise ==
  ASSUME TypeInv, CopyInv, NEW s \in Session, Raise(s) PROVE CopyInv' /\ UndoneByStale
<1>1. sess'[s].pc = "idle" /\ \A t \in Session : t # s => sess'[t] = sess[t]
  BY DEF Raise, TypeInv, TypeOK, Idle
<1>2. Copy(s)'
  BY <1>1, SMTT(60) DEF Copy
<1>3. QED
  BY <1>1, <1>2, QuietCopy DEF Raise

LEMMA CopyUntouched ==
  ASSUME CopyInv, UNCHANGED <<row, bundle, sess>> PROVE CopyInv' /\ UndoneByStale
BY DEF CopyInv, Unmade, Copy, MayWrite, Current, UndoneByStale

LEMMA CopyStep == TypeInv /\ CopyInv /\ [Next]_vars => CopyInv' /\ UndoneByStale
<1> SUFFICES ASSUME TypeInv, CopyInv, [Next]_vars PROVE CopyInv' /\ UndoneByStale
  OBVIOUS
<1>1. CASE \E s \in Request, b \in Bundle : Call(s, b)
  BY <1>1, CopyCall, SessionFacts
<1>2. CASE \E b \in Bundle : ResumeDeployments(b)
  BY <1>2, CopyCall, SessionFacts DEF ResumeDeployments, Call
<1>3. ASSUME NEW s \in Session,
             CommitRetry(s) \/ Refresh(s) \/ Promote(s) \/ Settle(s) \/ Raise(s)
      PROVE  CopyInv' /\ UndoneByStale
  BY <1>3, CopyRetry, CopyRefresh, CopyPromote, CopySettle, CopyRaise
<1>4. CASE \/ \E p \in wire : CreatePromotion(p)
           \/ \E n \in DOMAIN drone : FinishBuild(n)
  BY <1>4, CopyUntouched DEF CreatePromotion, FinishBuild
<1>5. CASE UNCHANGED vars
  BY <1>5, CopyUntouched DEF vars
<1>6. QED
  BY <1>1, <1>2, <1>3, <1>4, <1>5 DEF Next

\* TerminalIsFinal does not hold of the code; this is how far it is from it.  A
\* deployment leaves a terminal status for a retry that resets it, or because a
\* session that read it before it ended writes its own outcome later; a success
\* is never undone by whoever has read it.
THEOREM UndoneOnlyByStale == Spec => [][UndoneByStale]_vars
<1>1. TypeInv /\ CopyInv /\ [Next]_vars => CopyInv' /\ UndoneByStale
  BY CopyStep
<1>2. QED
  BY <1>1, CopyInit, TypeInvAlways, PTL DEF Spec
=============================================================================

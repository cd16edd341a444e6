------------------------- MODULE NotificationProofs -------------------------
(***************************************************************************)
(* Theorems about the outbox, for every set of mails and dispatchers and   *)
(* every smtp_max_attempts.                                                *)
(***************************************************************************)
EXTENDS Notification, FiniteSetTheorems, TLAPS

MailState == [status : {"ABSENT", "PENDING", "PROCESSING", "SENT", "FAILED"},
              attempts : Nat, due : BOOLEAN, stale : BOOLEAN]
DispatchState == [pc : {"idle", "events", "queued", "deliver", "send"},
                  batch : SUBSET Mail, old : SUBSET Mail, mail : SUBSET Mail]

OutboxType == outbox \in [Mail -> MailState] /\ dispatch \in [Dispatcher -> DispatchState]

\* The dispatchers that have the mail still before them, and those at it.
Listed(m) == {s \in Dispatcher : dispatch[s].pc \in {"deliver", "send"} /\ m \in dispatch[s].batch}
Holds(s, m) == dispatch[s].pc = "send" /\ m \in dispatch[s].mail

\* Whoever has listed the mail may make one attempt more.
Budget(m) == outbox[m].attempts + Cardinality(Listed(m)) < MaxAttempts + Cardinality(Dispatcher)

\* A mail at which nobody was overtaken is at one dispatcher, and claimed.
Held(m) ==
  m \notin takenOver =>
    /\ \A s \in Dispatcher : Holds(s, m) => outbox[m].status = "PROCESSING"
    /\ \A s, t \in Dispatcher : Holds(s, m) /\ Holds(t, m) => s = t

OutboxInv == OutboxType /\ \A m \in Mail : Budget(m) /\ Held(m)

----------------------------------------------------------------------------
LEMMA Dispatchers == Dispatcher # {} /\ IsFiniteSet(Dispatcher) /\ MaxAttempts \in Nat
BY NotificationAssumption

LEMMA ListedFinite ==
  ASSUME NEW m
  PROVE  /\ IsFiniteSet(Listed(m)) /\ Cardinality(Listed(m)) \in Nat
         /\ Cardinality(Listed(m)) <= Cardinality(Dispatcher)
         /\ Cardinality(Dispatcher) \in Nat
<1>1. Listed(m) \subseteq Dispatcher
  BY DEF Listed
<1>2. QED
  BY <1>1, Dispatchers, FS_Subset, FS_CardinalityType

LEMMA IdleState == Idle \in DispatchState /\ Idle.pc = "idle"
BY DEF Idle, DispatchState

\* The budget of a mail that fewer dispatchers have listed, and no attempt more.
LEMMA BudgetKept ==
  ASSUME NEW m \in Mail, OutboxType, Budget(m),
         outbox'[m].attempts \in Nat, outbox'[m].attempts <= outbox[m].attempts,
         Listed(m)' \subseteq Listed(m)
  PROVE  Budget(m)'
<1>1. /\ Cardinality(Listed(m)') <= Cardinality(Listed(m)) /\ Cardinality(Listed(m)') \in Nat
      /\ Cardinality(Listed(m)) \in Nat
  BY ListedFinite, FS_Subset, FS_CardinalityType
<1>2. outbox[m].attempts \in Nat
  BY DEF OutboxType, MailState
<1>3. MaxAttempts + Cardinality(Dispatcher) \in Nat
  BY Dispatchers, ListedFinite
<1> DEFINE now == Cardinality(Listed(m))
           then == Cardinality(Listed(m)')
           bound == MaxAttempts + Cardinality(Dispatcher)
<1>4. now \in Nat /\ then \in Nat /\ then <= now /\ bound \in Nat
      /\ outbox[m].attempts + now < bound
  BY <1>1, <1>3 DEF Budget
<1> HIDE DEF now, then, bound
<1>5. outbox'[m].attempts + then < bound
  BY <1>2, <1>4
<1>6. QED
  BY <1>5 DEF Budget, then, bound

\* A dispatcher moves and the mails stay as they are: it has listed no more
\* than before, and is not at a mail it was not at.
LEMMA DispatchOnly ==
  ASSUME OutboxInv, NEW s \in Dispatcher, UNCHANGED <<outbox, takenOver>>,
         \E next \in DispatchState : dispatch' = [dispatch EXCEPT ![s] = next],
         dispatch'[s].pc # "send",
         dispatch'[s].pc = "deliver" =>
           dispatch'[s].batch \subseteq dispatch[s].batch /\ dispatch[s].pc = "deliver"
  PROVE  OutboxInv'
<1>1. dispatch' \in [Dispatcher -> DispatchState]
      /\ \A t \in Dispatcher : t # s => dispatch'[t] = dispatch[t]
  BY DEF OutboxInv, OutboxType
<1>2. OutboxType'
  BY <1>1 DEF OutboxInv, OutboxType
<1>3. ASSUME NEW m \in Mail PROVE Budget(m)'
  <2>1. Listed(m)' \subseteq Listed(m)
    BY <1>1 DEF Listed
  <2>2. outbox'[m].attempts \in Nat /\ outbox'[m].attempts <= outbox[m].attempts
    BY DEF OutboxInv, OutboxType, MailState
  <2>3. QED
    BY <2>1, <2>2, BudgetKept DEF OutboxInv
<1>4. ASSUME NEW m \in Mail PROVE Held(m)'
  <2>1. \A t \in Dispatcher : Holds(t, m)' => Holds(t, m)
    BY <1>1 DEF Holds
  <2>2. QED
    BY <2>1 DEF OutboxInv, Held
<1>5. QED
  BY <1>2, <1>3, <1>4 DEF OutboxInv

\* The mails change, and no attempt is made: a mail that is not claimed any more
\* was at nobody.
LEMMA MailsOnly ==
  ASSUME OutboxInv, UNCHANGED <<dispatch, takenOver>>, outbox' \in [Mail -> MailState],
         \A m \in Mail : /\ outbox'[m].attempts <= outbox[m].attempts
                         /\ outbox[m].status = "PROCESSING" => outbox'[m].status = "PROCESSING"
  PROVE  OutboxInv'
<1>1. OutboxType'
  BY DEF OutboxInv, OutboxType
<1>2. ASSUME NEW m \in Mail PROVE Budget(m)'
  <2>1. Listed(m)' \subseteq Listed(m)
    BY DEF Listed
  <2>2. outbox'[m].attempts \in Nat /\ outbox'[m].attempts <= outbox[m].attempts
    BY DEF MailState
  <2>3. QED
    BY <2>1, <2>2, BudgetKept DEF OutboxInv
<1>3. \A m \in Mail : Held(m)'
  BY DEF OutboxInv, Held, Holds
<1>4. QED
  BY <1>1, <1>2, <1>3 DEF OutboxInv

----------------------------------------------------------------------------
(* The steps                                                               *)

LEMMA OutboxInit == NotificationInit => OutboxInv
<1> SUFFICES ASSUME NotificationInit PROVE OutboxInv
  OBVIOUS
<1>1. NoMail \in MailState /\ NoMail.attempts = 0
  BY DEF NoMail, MailState
<1>2. OutboxType
  BY <1>1, IdleState DEF NotificationInit, OutboxType
<1>3. ASSUME NEW m \in Mail PROVE Budget(m) /\ Held(m)
  <2>1. Listed(m) = {} /\ \A s \in Dispatcher : ~Holds(s, m)
    BY IdleState DEF NotificationInit, Listed, Holds
  <2>2. Cardinality(Listed(m)) = 0
    BY <2>1, FS_EmptySet
  <2>3. Cardinality(Dispatcher) \in Nat /\ Cardinality(Dispatcher) # 0
    BY Dispatchers, FS_EmptySet, FS_CardinalityType
  <2>4. outbox[m].attempts = 0
    BY <1>1 DEF NotificationInit
  <2>5. Budget(m)
    BY <2>2, <2>3, <2>4, Dispatchers DEF Budget
  <2>6. QED
    BY <2>1, <2>5 DEF Held
<1>4. QED
  BY <1>2, <1>3 DEF OutboxInv

LEMMA EnqueueEventsInv ==
  ASSUME OutboxInv, NEW s \in Dispatcher, EnqueueEvents(s)
  PROVE  OutboxInv'
<1> DEFINE new == {e \in dispatch[s].batch \cap Addressed : outbox[e].status = "ABSENT"}
           next == [dispatch[s] EXCEPT !.pc = "queued", !.batch = {}]
<1>1. Queued \in MailState /\ Queued.attempts = 0
  BY DEF Queued, NoMail, MailState
<1>2. dispatch[s] \in DispatchState /\ dispatch[s].pc = "events"
  BY DEF OutboxInv, OutboxType, EnqueueEvents
<1>3. next \in DispatchState /\ next.pc = "queued"
  BY <1>2 DEF DispatchState
<1>4. dispatch' = [dispatch EXCEPT ![s] = next] /\ takenOver' = takenOver
      /\ outbox' = [m \in Mail |-> IF m \in new THEN Queued ELSE outbox[m]]
  BY DEF EnqueueEvents
<1> HIDE DEF next
<1>5. \A m \in Mail : /\ outbox[m] \in MailState
                      /\ \/ outbox'[m] = outbox[m]
                         \/ outbox'[m] = Queued /\ outbox[m].status = "ABSENT"
  BY <1>4 DEF OutboxInv, OutboxType
<1> HIDE DEF new
<1>6. OutboxType'
  <2>1. outbox' \in [Mail -> MailState]
    BY <1>1, <1>4, <1>5
  <2>2. dispatch' \in [Dispatcher -> DispatchState]
    BY <1>3, <1>4 DEF OutboxInv, OutboxType
  <2>3. QED
    BY <2>1, <2>2 DEF OutboxType
<1>7. \A t \in Dispatcher : t # s => dispatch'[t] = dispatch[t]
  BY <1>4 DEF OutboxInv, OutboxType
<1>8. dispatch'[s].pc = "queued"
  BY <1>3, <1>4 DEF OutboxInv, OutboxType
<1>9. ASSUME NEW m \in Mail PROVE Budget(m)'
  <2>1. Listed(m)' \subseteq Listed(m)
    BY <1>7, <1>8 DEF Listed
  <2>2. outbox'[m].attempts \in Nat /\ outbox'[m].attempts <= outbox[m].attempts
    BY <1>1, <1>5 DEF MailState
  <2>3. QED
    BY <2>1, <2>2, BudgetKept DEF OutboxInv
<1>10. ASSUME NEW m \in Mail PROVE Held(m)'
  <2>1. \A t \in Dispatcher : Holds(t, m)' => Holds(t, m)
    BY <1>7, <1>8 DEF Holds
  <2>2. outbox[m].status = "PROCESSING" => outbox'[m].status = "PROCESSING"
    BY <1>5
  <2>3. QED
    BY <1>4, <2>1, <2>2 DEF OutboxInv, Held
<1>11. QED
  BY <1>6, <1>9, <1>10 DEF OutboxInv

\* Listing is the only step that widens who has a mail before them, and then an
\* attempt is left.
LEMMA ListDueInv ==
  ASSUME OutboxInv, NEW s \in Dispatcher, ListDue(s)
  PROVE  OutboxInv'
<1> DEFINE next == [pc |-> "deliver", batch |-> {m \in Mail : Due(m)}, old |-> Old, mail |-> {}]
<1>1. next \in DispatchState /\ next.pc = "deliver"
  BY DEF DispatchState, Old
<1>2. dispatch' = [dispatch EXCEPT ![s] = next] /\ outbox' = outbox /\ takenOver' = takenOver
  BY DEF ListDue
<1>3. dispatch'[s].pc = "deliver" /\ dispatch'[s].batch = {m \in Mail : Due(m)}
      /\ \A t \in Dispatcher : t # s => dispatch'[t] = dispatch[t]
  BY <1>2 DEF OutboxInv, OutboxType
<1>4. OutboxType'
  BY <1>1, <1>2 DEF OutboxInv, OutboxType
<1>5. ASSUME NEW m \in Mail PROVE Budget(m)'
  <2>1. CASE ~Due(m)
    <3>1. Listed(m)' \subseteq Listed(m)
      BY <1>3, <2>1 DEF Listed
    <3>2. outbox'[m].attempts \in Nat /\ outbox'[m].attempts <= outbox[m].attempts
      BY <1>2 DEF OutboxInv, OutboxType, MailState
    <3>3. QED
      BY <3>1, <3>2, BudgetKept DEF OutboxInv
  <2>2. CASE Due(m)
    <3>1. outbox[m].attempts < MaxAttempts /\ outbox[m].attempts \in Nat
      BY <2>2 DEF Due, OutboxInv, OutboxType, MailState
    <3>2. Listed(m)' \subseteq Dispatcher
      BY DEF Listed
    <3>3. /\ Cardinality(Listed(m)') <= Cardinality(Dispatcher)
          /\ Cardinality(Listed(m)') \in Nat /\ Cardinality(Dispatcher) \in Nat
      BY <3>2, Dispatchers, FS_Subset, FS_CardinalityType
    <3> DEFINE then == Cardinality(Listed(m)')
    <3>4. then <= Cardinality(Dispatcher) /\ then \in Nat
      BY <3>3
    <3> HIDE DEF then
    <3>5. outbox[m].attempts + then < MaxAttempts + Cardinality(Dispatcher)
      BY <3>1, <3>3, <3>4, Dispatchers
    <3>6. QED
      BY <1>2, <3>5 DEF Budget, then
  <2>3. QED
    BY <2>1, <2>2
<1>6. ASSUME NEW m \in Mail PROVE Held(m)'
  <2>1. \A t \in Dispatcher : Holds(t, m)' => Holds(t, m)
    BY <1>3 DEF Holds
  <2>2. QED
    BY <1>2, <2>1 DEF OutboxInv, Held
<1>7. QED
  BY <1>4, <1>5, <1>6 DEF OutboxInv

\* A claim turns a listing into an attempt.
LEMMA ClaimMailInv ==
  ASSUME OutboxInv, NEW s \in Dispatcher, NEW m \in Mail, ClaimMail(s, m)
  PROVE  OutboxInv'
<1>1. dispatch[s].pc = "deliver" /\ m \in dispatch[s].batch /\ dispatch' = WithClaim(s, m)
      /\ outbox' = [outbox EXCEPT ![m] = Claimed(m)]
  BY DEF ClaimMail
<1>2. \A t \in Dispatcher : dispatch[t] \in DispatchState
  BY DEF OutboxInv, OutboxType
<1>3. /\ outbox[m] \in MailState /\ Claimed(m) \in MailState
      /\ Claimed(m).attempts = outbox[m].attempts + 1
      /\ Claimed(m).status = "PROCESSING"
  <2>1. outbox[m] \in MailState
    BY DEF OutboxInv, OutboxType
  <2>2. outbox[m].attempts + 1 \in Nat
    BY <2>1 DEF MailState
  <2>3. QED
    BY <2>1, <2>2 DEF Claimed, MailState
<1>4. /\ dispatch'[s].pc = "send" /\ dispatch'[s].batch = dispatch[s].batch \ {m}
      /\ dispatch'[s].mail = {m}
      /\ \A t \in Dispatcher : t # s =>
           /\ dispatch'[t].pc = dispatch[t].pc /\ dispatch'[t].batch = dispatch[t].batch
           /\ dispatch'[t].mail = dispatch[t].mail
  BY <1>1, <1>2 DEF WithClaim, DispatchState
<1>5. outbox'[m] = Claimed(m) /\ \A x \in Mail : x # m => outbox'[x] = outbox[x]
  BY <1>1 DEF OutboxInv, OutboxType
<1>6. OutboxType'
  <2>1. dispatch' \in [Dispatcher -> DispatchState]
    BY <1>1, <1>2 DEF WithClaim, DispatchState
  <2>2. outbox' \in [Mail -> MailState]
    BY <1>1, <1>3 DEF OutboxInv, OutboxType
  <2>3. QED
    BY <2>1, <2>2 DEF OutboxType
<1>7. ASSUME NEW x \in Mail, x # m PROVE Budget(x)'
  <2>1. Listed(x)' \subseteq Listed(x)
    BY <1>1, <1>4, <1>7 DEF Listed
  <2>2. outbox'[x].attempts \in Nat /\ outbox'[x].attempts <= outbox[x].attempts
    BY <1>5, <1>7 DEF OutboxInv, OutboxType, MailState
  <2>3. QED
    BY <2>1, <2>2, BudgetKept DEF OutboxInv
<1>8. Budget(m)'
  <2>1. s \in Listed(m) /\ Listed(m)' = Listed(m) \ {s}
    BY <1>1, <1>4 DEF Listed
  <2>2. Cardinality(Listed(m)') = Cardinality(Listed(m)) - 1 /\ Cardinality(Listed(m)) \in Nat
    BY <2>1, ListedFinite, FS_RemoveElement, ZenonT(60)
  <2>3. outbox'[m].attempts = outbox[m].attempts + 1 /\ outbox[m].attempts \in Nat
    BY <1>3, <1>5 DEF MailState
  <2>4. outbox[m].attempts + Cardinality(Listed(m)) < MaxAttempts + Cardinality(Dispatcher)
    BY DEF OutboxInv, Budget
  <2> DEFINE then == Cardinality(Listed(m)')
  <2>5. then = Cardinality(Listed(m)) - 1
    BY <2>2
  <2> HIDE DEF then
  <2>6. outbox'[m].attempts + then < MaxAttempts + Cardinality(Dispatcher)
    BY <2>2, <2>3, <2>4, <2>5, ListedFinite, Dispatchers
  <2>7. QED
    BY <2>6 DEF Budget, then
<1>9. takenOver' = IF outbox[m].status = "PROCESSING" THEN takenOver \cup {m} ELSE takenOver
  BY DEF ClaimMail
<1>10. ASSUME NEW x \in Mail, x # m PROVE Held(x)'
  <2>1. \A t \in Dispatcher : Holds(t, x)' => Holds(t, x)
    BY <1>4, <1>10 DEF Holds
  <2>2. x \notin takenOver' => x \notin takenOver
    BY <1>9
  <2>3. QED
    BY <1>5, <1>10, <2>1, <2>2 DEF OutboxInv, Held
<1>11. Held(m)'
  <2>1. CASE outbox[m].status = "PROCESSING"
    BY <1>9, <2>1 DEF Held
  <2>2. CASE outbox[m].status # "PROCESSING"
    <3>1. m \notin takenOver' => \A t \in Dispatcher : ~Holds(t, m)
      BY <1>9, <2>2 DEF OutboxInv, Held
    <3>2. \A t \in Dispatcher : t # s /\ Holds(t, m)' => Holds(t, m)
      BY <1>4 DEF Holds
    <3>3. QED
      BY <1>3, <1>5, <3>1, <3>2 DEF Held
  <2>3. QED
    BY <2>1, <2>2
<1>12. QED
  BY <1>6, <1>7, <1>8, <1>10, <1>11 DEF OutboxInv

LEMMA OutcomeInv ==
  ASSUME OutboxInv, NEW s \in Dispatcher, NEW m \in Mail, NEW status \in {"SENT", "FAILED"},
         Outcome(s, m, status)
  PROVE  OutboxInv'
<1> DEFINE next == [dispatch[s] EXCEPT !.pc = "deliver", !.mail = {}]
           mail == [outbox[m] EXCEPT !.status = status, !.stale = FALSE,
                                     !.due = @ /\ status = "SENT"]
<1>1. dispatch[s] \in DispatchState /\ outbox[m] \in MailState
  BY DEF OutboxInv, OutboxType
<1>2. /\ next \in DispatchState /\ next.pc = "deliver" /\ next.batch = dispatch[s].batch
      /\ mail \in MailState /\ mail.attempts = outbox[m].attempts
  BY <1>1 DEF DispatchState, MailState
<1>3. /\ dispatch[s].pc = "send" /\ m \in dispatch[s].mail
      /\ outbox' = [outbox EXCEPT ![m] = mail]
      /\ dispatch' = [dispatch EXCEPT ![s] = next] /\ takenOver' = takenOver
  BY DEF Outcome
<1> HIDE DEF next, mail
<1>4. OutboxType'
  BY <1>2, <1>3 DEF OutboxInv, OutboxType
<1>5. /\ dispatch'[s] = next /\ outbox'[m] = mail
      /\ \A t \in Dispatcher : t # s => dispatch'[t] = dispatch[t]
      /\ \A x \in Mail : x # m => outbox'[x] = outbox[x]
  BY <1>3 DEF OutboxInv, OutboxType
<1>6. ASSUME NEW x \in Mail PROVE Budget(x)'
  <2>1. Listed(x)' \subseteq Listed(x)
    BY <1>2, <1>3, <1>5 DEF Listed
  <2>2. outbox'[x].attempts \in Nat /\ outbox'[x].attempts = outbox[x].attempts
    BY <1>1, <1>2, <1>5 DEF OutboxInv, OutboxType, MailState
  <2>3. outbox'[x].attempts <= outbox[x].attempts
    BY <2>2
  <2>4. QED
    BY <2>1, <2>2, <2>3, BudgetKept DEF OutboxInv
<1>7. \A t \in Dispatcher, x \in Mail : Holds(t, x)' => Holds(t, x) /\ t # s
  BY <1>2, <1>5 DEF Holds
<1>8. ASSUME NEW x \in Mail PROVE Held(x)'
  <2>1. CASE x = m
    <3>1. Holds(s, m)
      BY <1>3 DEF Holds
    <3>2. m \notin takenOver => \A t \in Dispatcher : ~Holds(t, m)'
      BY <1>7, <3>1 DEF OutboxInv, Held
    <3>3. QED
      BY <1>3, <2>1, <3>2 DEF Held
  <2>2. CASE x # m
    BY <1>3, <1>5, <1>7, <2>2 DEF OutboxInv, Held
  <2>3. QED
    BY <2>1, <2>2
<1>9. QED
  BY <1>4, <1>6, <1>8 DEF OutboxInv

LEMMA OutboxStep == OutboxInv /\ [NotificationNext]_notificationVars => OutboxInv'
<1> SUFFICES ASSUME OutboxInv, [NotificationNext]_notificationVars PROVE OutboxInv'
  OBVIOUS
<1>1. ASSUME UNCHANGED <<outbox, dispatch, takenOver>> PROVE OutboxInv'
  BY <1>1 DEF OutboxInv, OutboxType, Budget, Held, Holds, Listed
<1>2. CASE UNCHANGED notificationVars
  BY <1>1, <1>2 DEF notificationVars
<1>3. CASE \E e \in Event : AppendEvent(e) \/ CommitEvent(e)
  BY <1>1, <1>3 DEF AppendEvent, CommitEvent
<1>4. ASSUME NEW n \in Notice, Announce(n) PROVE OutboxInv'
  <2>1. Queued \in MailState /\ Queued.attempts = 0 /\ n \in Mail
    BY DEF Queued, NoMail, MailState, Mail
  <2>2. outbox' = [outbox EXCEPT ![n] = Queued] /\ outbox[n].status = "ABSENT"
        /\ UNCHANGED <<dispatch, takenOver>>
    BY <1>4 DEF Announce
  <2>3. outbox \in [Mail -> MailState]
    BY DEF OutboxInv, OutboxType
  <2>4. outbox' \in [Mail -> MailState]
    BY <2>1, <2>2, <2>3
  <2>5. \A m \in Mail : m # n => outbox'[m] = outbox[m]
    BY <2>2, <2>3
  <2>6. \A m \in Mail : /\ outbox'[m].attempts <= outbox[m].attempts
                        /\ outbox[m].status = "PROCESSING" => outbox'[m].status = "PROCESSING"
    BY <2>1, <2>2, <2>3, <2>5 DEF MailState
  <2>7. QED
    BY <2>2, <2>4, <2>6, MailsOnly
<1>5. ASSUME NEW s \in Dispatcher, ReadEvents(s) PROVE OutboxInv'
  <2> DEFINE next == [dispatch[s] EXCEPT !.pc = "events", !.batch = NewEvents]
  <2>1. NewEvents \subseteq Mail
    BY DEF NewEvents, Committed, Mail
  <2>2. next \in DispatchState /\ next.pc = "events"
    BY <2>1 DEF OutboxInv, OutboxType, DispatchState
  <2>3. dispatch' = [dispatch EXCEPT ![s] = next] /\ dispatch'[s] = next
        /\ UNCHANGED <<outbox, takenOver>>
    BY <1>5 DEF ReadEvents, OutboxInv, OutboxType
  <2> HIDE DEF next
  <2>4. QED
    BY <2>2, <2>3, DispatchOnly
<1>6. ASSUME NEW s \in Dispatcher, FinishDispatch(s) \/ Abort(s) PROVE OutboxInv'
  <2>1. dispatch' = [dispatch EXCEPT ![s] = Idle] /\ dispatch'[s] = Idle
        /\ UNCHANGED <<outbox, takenOver>>
    BY <1>6 DEF FinishDispatch, Abort, OutboxInv, OutboxType
  <2>2. QED
    BY <2>1, IdleState, DispatchOnly
<1>7. ASSUME NEW s \in Dispatcher, NEW m \in Mail, SkipMail(s, m) PROVE OutboxInv'
  <2> DEFINE next == [dispatch[s] EXCEPT !.batch = @ \ {m}]
  <2>1. dispatch[s] \in DispatchState /\ dispatch[s].pc = "deliver"
    BY <1>7 DEF SkipMail, OutboxInv, OutboxType
  <2>2. next \in DispatchState /\ next.pc = "deliver" /\ next.batch \subseteq dispatch[s].batch
    BY <2>1 DEF DispatchState
  <2>3. dispatch' = [dispatch EXCEPT ![s] = next] /\ dispatch'[s] = next
        /\ UNCHANGED <<outbox, takenOver>>
    BY <1>7 DEF SkipMail, OutboxInv, OutboxType
  <2> HIDE DEF next
  <2>4. QED
    BY <2>1, <2>2, <2>3, DispatchOnly
<1>8. CASE \E s \in Dispatcher : EnqueueEvents(s) \/ ListDue(s)
  BY <1>8, EnqueueEventsInv, ListDueInv
<1>9. CASE \E s \in Dispatcher, m \in Mail : ClaimMail(s, m)
  BY <1>9, ClaimMailInv
<1>10. CASE \E s \in Dispatcher, m \in Mail : Sent(s, m) \/ NotSent(s, m)
  BY <1>10, OutcomeInv DEF Sent, NotSent
<1>11. ASSUME NEW m \in Mail, BackOffEnds(m) \/ ClaimAges(m) PROVE OutboxInv'
  <2>1. outbox \in [Mail -> MailState] /\ UNCHANGED <<dispatch, takenOver>>
    BY <1>11 DEF BackOffEnds, ClaimAges, OutboxInv, OutboxType
  <2>2. PICK mail \in MailState : /\ outbox' = [outbox EXCEPT ![m] = mail]
                                  /\ mail.attempts = outbox[m].attempts
                                  /\ mail.status = outbox[m].status
    <3>1. CASE BackOffEnds(m)
      <4>1. [outbox[m] EXCEPT !.due = TRUE] \in MailState
        BY <2>1 DEF MailState
      <4>2. outbox' = [outbox EXCEPT ![m] = [outbox[m] EXCEPT !.due = TRUE]]
        BY <3>1 DEF BackOffEnds
      <4>3. QED
        BY <2>1, <4>1, <4>2 DEF MailState
    <3>2. CASE ClaimAges(m)
      <4>1. [outbox[m] EXCEPT !.stale = TRUE] \in MailState
        BY <2>1 DEF MailState
      <4>2. outbox' = [outbox EXCEPT ![m] = [outbox[m] EXCEPT !.stale = TRUE]]
        BY <3>2 DEF ClaimAges
      <4>3. QED
        BY <2>1, <4>1, <4>2 DEF MailState
    <3>3. QED
      BY <1>11, <3>1, <3>2
  <2>3. outbox' \in [Mail -> MailState]
    BY <2>1, <2>2
  <2>4. \A x \in Mail : outbox'[x] = outbox[x] \/ (x = m /\ outbox'[x] = mail)
    BY <2>1, <2>2
  <2>5. \A x \in Mail : /\ outbox'[x].attempts <= outbox[x].attempts
                        /\ outbox[x].status = "PROCESSING" => outbox'[x].status = "PROCESSING"
    BY <2>1, <2>2, <2>4 DEF MailState
  <2>6. QED
    BY <2>1, <2>3, <2>5, MailsOnly
<1>12. QED
  BY <1>2, <1>3, <1>4, <1>5, <1>6, <1>7, <1>8, <1>9, <1>10, <1>11
  DEF NotificationNext, DispatchStep

----------------------------------------------------------------------------
\* A mail is attempted smtp_max_attempts times, and at most once more by every
\* other dispatcher.
THEOREM AttemptsAreBounded == NotificationSpec => []AttemptsBounded
<1>1. ASSUME OutboxInv PROVE AttemptsBounded
  <2>1. ASSUME NEW m \in Mail PROVE outbox[m].attempts < MaxAttempts + Cardinality(Dispatcher)
    <3>1. outbox[m].attempts + Cardinality(Listed(m)) < MaxAttempts + Cardinality(Dispatcher)
          /\ outbox[m].attempts \in Nat
      BY <1>1 DEF OutboxInv, Budget, OutboxType, MailState
    <3>2. QED
      BY <3>1, ListedFinite, Dispatchers
  <2>2. QED
    BY <2>1 DEF AttemptsBounded
<1>2. QED
  BY OutboxInit, OutboxStep, <1>1, PTL DEF NotificationSpec

\* A mail that was sent stays so, unless its claim was taken over.
THEOREM SentMailStays == NotificationSpec => SentStays
<1>1. ASSUME OutboxInv, [NotificationNext]_notificationVars, NEW m \in Mail,
             outbox[m].status = "SENT", m \notin takenOver
      PROVE  outbox'[m].status = "SENT"
  <2>0. outbox \in [Mail -> MailState] /\ \A s \in Dispatcher : ~Holds(s, m)
    BY <1>1 DEF OutboxInv, OutboxType, Held
  <2>1. CASE outbox' = outbox
    BY <1>1, <2>1
  <2>2. ASSUME NEW n \in Notice, Announce(n) PROVE outbox'[m].status = "SENT"
    BY <1>1, <2>0, <2>2 DEF Announce
  <2>3. ASSUME NEW s \in Dispatcher, EnqueueEvents(s) PROVE outbox'[m].status = "SENT"
    BY <1>1, <2>3 DEF EnqueueEvents
  <2>4. ASSUME NEW s \in Dispatcher, NEW x \in Mail, ClaimMail(s, x)
        PROVE  outbox'[m].status = "SENT"
    <3>1. outbox' = [outbox EXCEPT ![x] = Claimed(x)] /\ Claimable(x, dispatch[s].old)
      BY <2>4 DEF ClaimMail
    <3>2. x # m
      BY <1>1, <3>1 DEF Claimable
    <3>3. QED
      BY <1>1, <2>0, <3>1, <3>2
  <2>5. ASSUME NEW s \in Dispatcher, NEW x \in Mail, NEW status, Outcome(s, x, status)
        PROVE  outbox'[m].status = "SENT"
    <3>1. x # m
      BY <2>0, <2>5 DEF Outcome, Holds
    <3>2. outbox'[m] = outbox[m]
      BY <2>0, <2>5, <3>1 DEF Outcome
    <3>3. QED
      BY <1>1, <3>2
  <2>6. ASSUME NEW x \in Mail, BackOffEnds(x) \/ ClaimAges(x) PROVE outbox'[m].status = "SENT"
    <3>1. x # m => outbox'[m] = outbox[m]
      BY <2>0, <2>6 DEF BackOffEnds, ClaimAges
    <3>2. outbox[m] \in MailState
      BY <2>0
    <3>3. x = m => outbox'[m].status = outbox[m].status
      BY <2>0, <2>6, <3>2 DEF BackOffEnds, ClaimAges, MailState
    <3>4. QED
      BY <1>1, <3>1, <3>3
  <2>7. QED
    BY <1>1, <2>1, <2>2, <2>3, <2>4, <2>5, <2>6
    DEF NotificationNext, DispatchStep, notificationVars, AppendEvent, CommitEvent, ReadEvents,
        ListDue, FinishDispatch, Abort, SkipMail, Sent, NotSent
<1>2. OutboxInv /\ [NotificationNext]_notificationVars
        => [\A m \in Mail : outbox[m].status = "SENT" =>
              outbox'[m].status = "SENT" \/ m \in takenOver]_notificationVars
  BY <1>1
<1>3. QED
  BY OutboxInit, OutboxStep, <1>2, PTL DEF NotificationSpec, SentStays

----------------------------------------------------------------------------
(* What the tables and the dispatchers hold                                *)

\* The least of some naturals, and the greatest of some up to a bound.
LEMMA Least ==
  ASSUME NEW T, T \subseteq Nat, T # {}
  PROVE  \E x \in T : \A y \in T : x <= y
<1> DEFINE R == OpToRel(<, Nat)
<1>1. IsWellFoundedOn(R, Nat)
  BY NatLessThanWellFounded, ZenonT(60)
<1>2. ASSUME NEW x \in Nat, NEW y \in Nat, y < x PROVE <<y, x>> \in R
  BY <1>2 DEF OpToRel
<1> HIDE DEF R
<1>3. \E x \in T : \A y \in T : ~(<<y, x>> \in R)
  BY <1>1, WFMin
<1>4. PICK x \in T : \A y \in T : ~(<<y, x>> \in R)
  BY <1>3
<1>5. \A y \in T : ~(y < x)
  BY <1>2, <1>4
<1>6. QED
  BY <1>5

LEMMA Greatest ==
  ASSUME NEW T, NEW n \in Nat, T \subseteq 0..n, T # {}
  PROVE  Latest(T) \in T /\ \A y \in T : y <= Latest(T)
<1> DEFINE U == {n - t : t \in T}
<1>1. U \subseteq Nat /\ U # {}
  <2>1. \A t \in T : n - t \in Nat
    OBVIOUS
  <2>2. QED
    BY <2>1
<1>2. PICK x \in U : \A y \in U : x <= y
  BY <1>1, Least
<1>3. PICK t \in T : x = n - t
  BY <1>2
<1>4. \A y \in T : n - t <= n - y
  BY <1>2, <1>3
<1>5. \A y \in T : y <= t
  BY <1>4
<1>6. QED
  BY <1>5 DEF Latest

EventState == [state : {"absent", "flushed", "committed"}, stamp : Nat]
Appended == {e \in Event : event[e].state # "absent"}

\* No stamp is above the number of events there are; what a dispatcher has before
\* it is an event that was committed, or a mail that is in the outbox.
EventsHeld ==
  /\ event \in [Event -> EventState]
  /\ \A e \in Event : /\ event[e].state = "absent" => event[e].stamp = 0
                      /\ event[e].stamp <= Cardinality(Appended)
  /\ cursor \in {0} \cup {event[e].stamp : e \in Committed}
  /\ overtaken \subseteq Event /\ takenOver \subseteq Mail
Handed(s) ==
  /\ (dispatch[s].pc = "send") = (dispatch[s].mail # {})
  /\ dispatch[s].pc = "queued" => dispatch[s].batch = {}
  /\ dispatch[s].pc = "events" => dispatch[s].batch \subseteq Committed
  /\ \A m \in dispatch[s].batch \cup dispatch[s].mail :
       m \in Committed \/ outbox[m].status # "ABSENT"
NotificationInv == OutboxInv /\ EventsHeld /\ \A s \in Dispatcher : Handed(s)

LEMMA CountAppended ==
  /\ Cardinality(Appended) \in Nat /\ Cardinality(Event) \in Nat
  /\ Cardinality(Appended) <= Cardinality(Event) /\ IsFiniteSet(Appended)
<1>1. Appended \in SUBSET Event
  BY DEF Appended
<1>2. QED
  BY <1>1, NotificationAssumption, FS_Subset, FS_CardinalityType

LEMMA NotificationInitInv == NotificationInit => NotificationInv
<1> SUFFICES ASSUME NotificationInit PROVE NotificationInv
  OBVIOUS
<1>1. OutboxInv
  BY OutboxInit
<1>2. /\ event = [e \in Event |-> [state |-> "absent", stamp |-> 0]] /\ cursor = 0
      /\ dispatch = [s \in Dispatcher |-> Idle] /\ overtaken = {} /\ takenOver = {}
  BY DEF NotificationInit
<1>3. EventsHeld
  BY <1>2, CountAppended DEF EventsHeld, EventState
<1>4. ASSUME NEW s \in Dispatcher PROVE Handed(s)
  BY <1>2 DEF Handed, Idle
<1>5. QED
  BY <1>1, <1>3, <1>4 DEF NotificationInv

LEMMA AppendEventHeld ==
  ASSUME NotificationInv, NEW e \in Event, AppendEvent(e)
  PROVE  EventsHeld' /\ Committed' = Committed
<1>1. /\ event[e].state = "absent" /\ UNCHANGED <<cursor, outbox, dispatch, overtaken, takenOver>>
      /\ event' = [event EXCEPT ![e] = [state |-> "flushed", stamp |-> Latest(Stamps) + 1]]
      /\ event \in [Event -> EventState]
  BY DEF AppendEvent, NotificationInv, EventsHeld
<1> DEFINE n == Cardinality(Appended)
<1>2. n \in Nat /\ IsFiniteSet(Appended)
  BY CountAppended
<1>3. Stamps \subseteq 0..n /\ Stamps # {}
  BY <1>1, <1>2 DEF Stamps, NotificationInv, EventsHeld, EventState
<1>4. Latest(Stamps) \in 0..n
  BY <1>2, <1>3, Greatest
<1>5. Appended' = Appended \cup {e} /\ e \notin Appended
  BY <1>1 DEF Appended, EventState
<1>6. Cardinality(Appended') = n + 1
  BY <1>2, <1>5, FS_AddElement
<1>7. /\ event'[e].stamp \in Nat /\ event'[e].stamp <= n + 1 /\ event'[e].state = "flushed"
      /\ event'[e] \in EventState
      /\ \A f \in Event : f # e => event'[f] = event[f]
  BY <1>1, <1>2, <1>4 DEF EventState
<1>8. Committed' = Committed /\ \A f \in Committed : event'[f].stamp = event[f].stamp
  BY <1>1, <1>7 DEF Committed
<1>9. \A f \in Event : /\ event'[f].state = "absent" => event'[f].stamp = 0
                       /\ event'[f].stamp <= Cardinality(Appended')
  <2>1. \A f \in Event : event[f].stamp \in Nat /\ event[f].stamp <= n
    BY <1>1 DEF NotificationInv, EventsHeld, EventState
  <2>2. \A f \in Event : f # e /\ event'[f].state = "absent" => event'[f].stamp = 0
    BY <1>7 DEF NotificationInv, EventsHeld
  <2> HIDE DEF n
  <2>3. \A f \in Event : event'[f].stamp <= n + 1
    BY <1>2, <1>7, <2>1
  <2>4. QED
    BY <1>6, <1>7, <2>2, <2>3
<1>10. event' \in [Event -> EventState]
  BY <1>1, <1>7
<1>11. QED
  BY <1>1, <1>8, <1>9, <1>10 DEF NotificationInv, EventsHeld

LEMMA CommitEventHeld ==
  ASSUME NotificationInv, NEW e \in Event, CommitEvent(e)
  PROVE  EventsHeld' /\ Committed' = Committed \cup {e}
<1>1. /\ event[e].state = "flushed" /\ UNCHANGED <<cursor, outbox, dispatch, takenOver>>
      /\ event' = [event EXCEPT ![e].state = "committed"]
      /\ event \in [Event -> EventState] /\ overtaken' \subseteq overtaken \cup {e}
  BY DEF CommitEvent, NotificationInv, EventsHeld
<1>2. /\ event' \in [Event -> EventState] /\ event'[e].state = "committed"
      /\ \A f \in Event : event'[f].stamp = event[f].stamp
      /\ \A f \in Event : f # e => event'[f].state = event[f].state
  BY <1>1 DEF EventState
<1>3. Appended' = Appended /\ Committed' = Committed \cup {e}
  BY <1>1, <1>2 DEF Appended, Committed
<1>4. cursor \in {0} \cup {event'[f].stamp : f \in Committed'}
  BY <1>2, <1>3 DEF NotificationInv, EventsHeld, Committed
<1>5. QED
  BY <1>1, <1>2, <1>3, <1>4 DEF NotificationInv, EventsHeld

LEMMA EnqueueEventsHeld ==
  ASSUME NotificationInv, NEW s \in Dispatcher, EnqueueEvents(s)
  PROVE  EventsHeld'
<1> DEFINE batch == dispatch[s].batch
<1>1. /\ UNCHANGED <<event, overtaken, takenOver>> /\ cursor' = CursorAfter(batch)
      /\ batch \subseteq Committed
  BY DEF EnqueueEvents, NotificationInv, Handed
<1>2. cursor' \in {0} \cup {event[e].stamp : e \in Committed}
  <2>1. CASE batch = {}
    BY <1>1, <2>1 DEF CursorAfter, NotificationInv, EventsHeld
  <2>2. CASE batch # {}
    <3>1. /\ {event[e].stamp : e \in batch} \subseteq 0..Cardinality(Appended)
          /\ {event[e].stamp : e \in batch} # {} /\ Cardinality(Appended) \in Nat
      BY <1>1, <2>2, CountAppended DEF NotificationInv, EventsHeld, EventState, Committed
    <3>2. Latest({event[e].stamp : e \in batch}) \in {event[e].stamp : e \in batch}
      BY <3>1, Greatest
    <3>3. QED
      BY <1>1, <2>2, <3>2 DEF CursorAfter
  <2>3. QED
    BY <2>1, <2>2
<1>3. Appended' = Appended /\ Committed' = Committed
  BY <1>1 DEF Appended, Committed
<1>4. QED
  BY <1>1, <1>2, <1>3 DEF NotificationInv, EventsHeld

\* Whatever leaves the events alone keeps what is held of them.
LEMMA EventsAlone ==
  ASSUME EventsHeld, UNCHANGED <<event, cursor, overtaken>>, takenOver' \subseteq Mail
  PROVE  EventsHeld' /\ Committed' = Committed
<1>1. Appended' = Appended /\ Committed' = Committed
  BY DEF Appended, Committed
<1>2. QED
  BY <1>1 DEF EventsHeld

\* A dispatcher that does not move keeps what it has before it.
LEMMA StillHanded ==
  ASSUME NEW s \in Dispatcher, OutboxType, Handed(s),
         /\ dispatch'[s].pc = dispatch[s].pc /\ dispatch'[s].batch = dispatch[s].batch
         /\ dispatch'[s].mail = dispatch[s].mail,
         Committed \subseteq Committed',
         \A m \in Mail : outbox[m].status # "ABSENT" => outbox'[m].status # "ABSENT"
  PROVE  Handed(s)'
<1>1. dispatch[s].batch \subseteq Mail /\ dispatch[s].mail \subseteq Mail
  BY DEF OutboxType, DispatchState
<1>2. QED
  BY <1>1 DEF Handed

\* A step of one dispatcher, which leaves the committed events as they are and
\* takes no mail out of the outbox.
LEMMA HandedStep ==
  ASSUME NotificationInv, NEW s \in Dispatcher, OutboxInv', Committed' = Committed,
         \A u \in Dispatcher \ {s} : /\ dispatch'[u].pc = dispatch[u].pc
                                     /\ dispatch'[u].batch = dispatch[u].batch
                                     /\ dispatch'[u].mail = dispatch[u].mail,
         \A m \in Mail : outbox[m].status # "ABSENT" => outbox'[m].status # "ABSENT",
         Handed(s)'
  PROVE  \A u \in Dispatcher : Handed(u)'
<1>1. ASSUME NEW u \in Dispatcher, u # s PROVE Handed(u)'
  BY <1>1, StillHanded DEF NotificationInv, OutboxInv
<1>2. QED
  BY <1>1

LEMMA DispatchStepInv ==
  ASSUME NotificationInv, OutboxInv', NEW s \in Dispatcher, ReadEvents(s) \/ DispatchStep(s)
  PROVE  NotificationInv'
<1>1. /\ dispatch \in [Dispatcher -> DispatchState] /\ outbox \in [Mail -> MailState]
      /\ Handed(s) /\ EventsHeld /\ takenOver \subseteq Mail /\ overtaken \subseteq Event
  BY DEF NotificationInv, OutboxInv, OutboxType, EventsHeld
<1>2. CASE ReadEvents(s)
  <2>1. /\ dispatch'[s] = [dispatch[s] EXCEPT !.pc = "events", !.batch = NewEvents]
        /\ \A u \in Dispatcher \ {s} : dispatch'[u] = dispatch[u]
        /\ UNCHANGED <<event, cursor, outbox, overtaken, takenOver>> /\ dispatch[s].pc = "idle"
    BY <1>1, <1>2 DEF ReadEvents
  <2>2. EventsHeld' /\ Committed' = Committed
    BY <1>1, <2>1, EventsAlone
  <2>3. Handed(s)'
    BY <1>1, <2>1, <2>2 DEF Handed, DispatchState, NewEvents
  <2>4. QED
    BY <2>1, <2>2, <2>3, HandedStep DEF NotificationInv
<1>3. CASE EnqueueEvents(s)
  <2>1. /\ dispatch'[s] = [dispatch[s] EXCEPT !.pc = "queued", !.batch = {}]
        /\ \A u \in Dispatcher \ {s} : dispatch'[u] = dispatch[u]
        /\ UNCHANGED <<event, overtaken, takenOver>> /\ dispatch[s].pc = "events"
    BY <1>1, <1>3 DEF EnqueueEvents
  <2>2. EventsHeld' /\ Committed' = Committed
    BY <1>3, <2>1, EnqueueEventsHeld DEF Committed
  <2>3. \A m \in Mail : outbox[m].status # "ABSENT" => outbox'[m].status # "ABSENT"
    BY <1>3 DEF EnqueueEvents, Queued, NoMail
  <2>4. Handed(s)'
    BY <1>1, <2>1 DEF Handed, DispatchState
  <2>5. QED
    BY <2>1, <2>2, <2>3, <2>4, HandedStep DEF NotificationInv
<1>4. CASE ListDue(s)
  <2>1. /\ dispatch'[s] = [pc |-> "deliver", batch |-> {m \in Mail : Due(m)}, old |-> Old,
                           mail |-> {}]
        /\ \A u \in Dispatcher \ {s} : dispatch'[u] = dispatch[u]
        /\ UNCHANGED <<event, cursor, outbox, overtaken, takenOver>>
    BY <1>1, <1>4 DEF ListDue
  <2>2. EventsHeld' /\ Committed' = Committed
    BY <1>1, <2>1, EventsAlone
  <2>3. Handed(s)'
    BY <2>1 DEF Handed, Due, Claimable
  <2>4. QED
    BY <2>1, <2>2, <2>3, HandedStep DEF NotificationInv
<1>5. CASE FinishDispatch(s) \/ Abort(s)
  <2>1. /\ dispatch'[s] = Idle /\ \A u \in Dispatcher \ {s} : dispatch'[u] = dispatch[u]
        /\ UNCHANGED <<event, cursor, outbox, overtaken, takenOver>>
    BY <1>1, <1>5 DEF FinishDispatch, Abort
  <2>2. EventsHeld' /\ Committed' = Committed
    BY <1>1, <2>1, EventsAlone
  <2>3. Handed(s)'
    BY <2>1 DEF Handed, Idle
  <2>4. QED
    BY <2>1, <2>2, <2>3, HandedStep DEF NotificationInv
<1>6. ASSUME NEW m \in Mail, ClaimMail(s, m) PROVE NotificationInv'
  <2>1. /\ dispatch' = WithClaim(s, m) /\ outbox' = [outbox EXCEPT ![m] = Claimed(m)]
        /\ UNCHANGED <<event, cursor, overtaken>> /\ takenOver' \subseteq takenOver \cup {m}
        /\ dispatch[s].pc = "deliver" /\ m \in dispatch[s].batch
    BY <1>6 DEF ClaimMail
  <2>2. /\ dispatch'[s].pc = "send" /\ dispatch'[s].batch = dispatch[s].batch \ {m}
        /\ dispatch'[s].mail = {m}
        /\ \A u \in Dispatcher \ {s} : dispatch'[u] = [dispatch[u] EXCEPT !.old = @ \ {m}]
    BY <2>1 DEF WithClaim
  <2>3. \A u \in Dispatcher \ {s} : /\ dispatch'[u].pc = dispatch[u].pc
                                    /\ dispatch'[u].batch = dispatch[u].batch
                                    /\ dispatch'[u].mail = dispatch[u].mail
    <3>1. ASSUME NEW u \in Dispatcher \ {s}
          PROVE  /\ dispatch'[u].pc = dispatch[u].pc /\ dispatch'[u].batch = dispatch[u].batch
                 /\ dispatch'[u].mail = dispatch[u].mail
      <4>1. dispatch'[u] = [dispatch[u] EXCEPT !.old = @ \ {m}]
        BY <2>2
      <4>2. dispatch[u] \in DispatchState
        BY <1>1
      <4>3. QED
        BY <4>1, <4>2 DEF DispatchState
    <3>2. QED
      BY <3>1
  <2>4. outbox'[m].status = "PROCESSING" /\ \A x \in Mail : x # m => outbox'[x] = outbox[x]
    BY <1>1, <2>1 DEF Claimed, MailState
  <2>5. EventsHeld' /\ Committed' = Committed
    BY <1>1, <2>1, EventsAlone
  <2>6. Handed(s)'
    BY <1>1, <2>2, <2>4, <2>5 DEF Handed, DispatchState
  <2>7. QED
    BY <2>3, <2>4, <2>5, <2>6, HandedStep DEF NotificationInv
<1>7. ASSUME NEW m \in Mail, SkipMail(s, m) PROVE NotificationInv'
  <2>1. /\ dispatch'[s] = [dispatch[s] EXCEPT !.batch = @ \ {m}]
        /\ \A u \in Dispatcher \ {s} : dispatch'[u] = dispatch[u]
        /\ UNCHANGED <<event, cursor, outbox, overtaken, takenOver>>
        /\ dispatch[s].pc = "deliver"
    BY <1>1, <1>7 DEF SkipMail
  <2>2. EventsHeld' /\ Committed' = Committed
    BY <1>1, <2>1, EventsAlone
  <2>3. Handed(s)'
    BY <1>1, <2>1, <2>2 DEF Handed, DispatchState
  <2>4. QED
    BY <2>1, <2>2, <2>3, HandedStep DEF NotificationInv
<1>8. ASSUME NEW m \in Mail, Sent(s, m) \/ NotSent(s, m) PROVE NotificationInv'
  <2>1. PICK status \in {"SENT", "FAILED"} : Outcome(s, m, status)
    BY <1>8 DEF Sent, NotSent
  <2>2. /\ dispatch'[s] = [dispatch[s] EXCEPT !.pc = "deliver", !.mail = {}]
        /\ \A u \in Dispatcher \ {s} : dispatch'[u] = dispatch[u]
        /\ UNCHANGED <<event, cursor, overtaken, takenOver>>
        /\ outbox' = [outbox EXCEPT ![m].status = status, ![m].stale = FALSE,
                                    ![m].due = @ /\ status = "SENT"]
    BY <1>1, <2>1 DEF Outcome
  <2>3. outbox'[m].status # "ABSENT" /\ \A x \in Mail : x # m => outbox'[x] = outbox[x]
    BY <1>1, <2>2 DEF MailState
  <2>4. EventsHeld' /\ Committed' = Committed
    BY <1>1, <2>2, EventsAlone
  <2>5. Handed(s)'
    BY <1>1, <2>2, <2>3, <2>4 DEF Handed, DispatchState
  <2>6. QED
    BY <2>2, <2>3, <2>4, <2>5, HandedStep DEF NotificationInv
<1>9. QED
  BY <1>2, <1>3, <1>4, <1>5, <1>6, <1>7, <1>8 DEF DispatchStep

LEMMA NotificationStep ==
  NotificationInv /\ [NotificationNext]_notificationVars => NotificationInv'
<1> SUFFICES ASSUME NotificationInv, [NotificationNext]_notificationVars
             PROVE  NotificationInv'
  OBVIOUS
<1>1. OutboxInv'
  BY OutboxStep DEF NotificationInv
<1>2. OutboxType /\ takenOver \subseteq Mail /\ \A s \in Dispatcher : Handed(s)
  BY DEF NotificationInv, OutboxInv, EventsHeld
<1>3. ASSUME EventsHeld', Committed \subseteq Committed', UNCHANGED dispatch,
             \A m \in Mail : outbox[m].status # "ABSENT" => outbox'[m].status # "ABSENT"
      PROVE  NotificationInv'
  <2>1. ASSUME NEW s \in Dispatcher PROVE Handed(s)'
    BY <1>2, <1>3, StillHanded
  <2>2. QED
    BY <1>1, <1>3, <2>1 DEF NotificationInv
<1>4. ASSUME NEW e \in Event, AppendEvent(e) PROVE NotificationInv'
  BY <1>3, <1>4, AppendEventHeld DEF AppendEvent
<1>5. ASSUME NEW e \in Event, CommitEvent(e) PROVE NotificationInv'
  BY <1>3, <1>5, CommitEventHeld DEF CommitEvent
<1>6. ASSUME NEW n \in Notice, Announce(n) PROVE NotificationInv'
  <2>1. /\ UNCHANGED <<event, cursor, dispatch, overtaken, takenOver>>
        /\ outbox' = [outbox EXCEPT ![n] = Queued] /\ Queued.status = "PENDING"
    BY <1>6 DEF Announce, Queued, NoMail
  <2>2. \A m \in Mail : outbox[m].status # "ABSENT" => outbox'[m].status # "ABSENT"
    BY <1>2, <2>1 DEF OutboxType
  <2>3. EventsHeld' /\ Committed' = Committed
    BY <1>2, <2>1, EventsAlone DEF NotificationInv
  <2>4. QED
    BY <1>3, <2>1, <2>2, <2>3
<1>7. ASSUME NEW m \in Mail, BackOffEnds(m) \/ ClaimAges(m) PROVE NotificationInv'
  <2>1. UNCHANGED <<event, cursor, dispatch, overtaken, takenOver>>
    BY <1>7 DEF BackOffEnds, ClaimAges
  <2>2. \A x \in Mail : outbox[x].status # "ABSENT" => outbox'[x].status # "ABSENT"
    BY <1>2, <1>7 DEF BackOffEnds, ClaimAges, OutboxType, MailState
  <2>3. EventsHeld' /\ Committed' = Committed
    BY <1>2, <2>1, EventsAlone DEF NotificationInv
  <2>4. QED
    BY <1>3, <2>1, <2>2, <2>3
<1>8. CASE \E s \in Dispatcher : ReadEvents(s) \/ DispatchStep(s)
  BY <1>1, <1>8, DispatchStepInv
<1>9. CASE UNCHANGED notificationVars
  <2>1. EventsHeld' /\ Committed' = Committed
    BY <1>2, <1>9, EventsAlone DEF notificationVars, NotificationInv
  <2>2. QED
    BY <1>3, <1>9, <2>1 DEF notificationVars
<1>10. QED
  BY <1>4, <1>5, <1>6, <1>7, <1>8, <1>9 DEF NotificationNext

LEMMA NotificationTypes == NotificationInv => NotificationTypeOK
<1> SUFFICES ASSUME NotificationInv PROVE NotificationTypeOK
  OBVIOUS
<1>1. event \in [Event -> [state : {"absent", "flushed", "committed"},
                           stamp : 0..Cardinality(Event)]]
  <2>1. \A e \in Event : event[e].stamp \in 0..Cardinality(Event)
    BY CountAppended DEF NotificationInv, EventsHeld, EventState
  <2>2. QED
    BY <2>1 DEF NotificationInv, EventsHeld, EventState
<1>2. \A s \in Dispatcher : dispatch[s].batch \cup dispatch[s].mail
                              \subseteq {m \in Mail : m \in Committed \/ outbox[m].status # "ABSENT"}
  BY DEF NotificationInv, Handed, OutboxInv, OutboxType, DispatchState
<1>3. QED
  BY <1>1, <1>2
  DEF NotificationInv, Handed, EventsHeld, OutboxInv, OutboxType, MailState, DispatchState,
      NotificationTypeOK

\* Every variable of the outbox is well typed, the cursor is at an event, and a
\* dispatcher has only mails before it that are there.
THEOREM NotificationTypeCorrect == NotificationSpec => []NotificationTypeOK
BY NotificationInitInv, NotificationStep, NotificationTypes, PTL DEF NotificationSpec
=============================================================================

---------------------------- MODULE Notification ----------------------------
(***************************************************************************)
(* The e-mail outbox.  Services append workflow events; a dispatcher (the  *)
(* worker, or POST /notifications/dispatch) turns the new ones into        *)
(* outbox rows behind a cursor, then claims the rows that are due and      *)
(* hands them to the SMTP server.  The note of a schedule is put into the  *)
(* outbox with the schedule itself.                                        *)
(***************************************************************************)
EXTENDS Naturals, Sequences, FiniteSets

CONSTANTS
  Event,         \* workflow events of a notifiable type
  Notice,        \* schedules whose creation is announced
  Addressed,     \* the events somebody is to be told about
  Dispatcher,    \* callers of the dispatch; Poller is the worker's thread
  Poller,
  MaxAttempts    \* smtp_max_attempts

Mail == Event \cup Notice

ASSUME NotificationAssumption ==
  /\ Addressed \subseteq Event /\ Event \cap Notice = {}
  /\ Poller \in Dispatcher /\ IsFiniteSet(Dispatcher) /\ IsFiniteSet(Event)
  /\ MaxAttempts \in Nat

VARIABLES
  event,       \* table workflow_events: state, and the stamp it is ordered by
  cursor,      \* the stamp the outbox has seen the events up to
  outbox,      \* table email_outbox
  dispatch,    \* what each dispatcher is doing
  overtaken,   \* history: events committed after one of a later stamp
  takenOver    \* history: mails whose claim was taken from its dispatcher

notificationVars == <<event, cursor, outbox, dispatch, overtaken, takenOver>>

Idle == [pc |-> "idle", batch |-> {}, old |-> {}, mail |-> {}]
NoMail == [status |-> "ABSENT", attempts |-> 0, due |-> TRUE, stale |-> FALSE]
Queued == [NoMail EXCEPT !.status = "PENDING"]

NotificationInit ==
  /\ event = [e \in Event |-> [state |-> "absent", stamp |-> 0]]
  /\ cursor = 0
  /\ outbox = [m \in Mail |-> NoMail]
  /\ dispatch = [s \in Dispatcher |-> Idle]
  /\ overtaken = {} /\ takenOver = {}

Committed == {e \in Event : event[e].state = "committed"}
Stamps == {event[e].stamp : e \in Event}
Latest(S) == CHOOSE t \in S : \A u \in S : u <= t

----------------------------------------------------------------------------
(* The services                                                            *)

\* append: the event gets its created_at and id as it is flushed, ...
AppendEvent(e) ==
  /\ event[e].state = "absent"
  /\ event' = [event EXCEPT ![e] = [state |-> "flushed", stamp |-> Latest(Stamps) + 1]]
  /\ UNCHANGED <<cursor, outbox, dispatch, overtaken, takenOver>>

\* ... and is there for others when its transaction commits.
CommitEvent(e) ==
  /\ event[e].state = "flushed"
  /\ event' = [event EXCEPT ![e].state = "committed"]
  /\ overtaken' = IF \E f \in Committed : event[f].stamp > event[e].stamp
                  THEN overtaken \cup {e} ELSE overtaken
  /\ UNCHANGED <<cursor, outbox, dispatch, takenOver>>

\* enqueue_schedule_created, in the transaction that creates the schedule.
Announce(n) ==
  /\ outbox[n].status = "ABSENT"
  /\ outbox' = [outbox EXCEPT ![n] = Queued]
  /\ UNCHANGED <<event, cursor, dispatch, overtaken, takenOver>>

----------------------------------------------------------------------------
(* enqueue_new_events                                                      *)

\* The committed events behind the cursor that are not in the outbox.
NewEvents == {e \in Committed : event[e].stamp > cursor /\ outbox[e].status = "ABSENT"}

ReadEvents(s) ==
  /\ dispatch[s].pc = "idle"
  /\ dispatch' = [dispatch EXCEPT ![s].pc = "events", ![s].batch = NewEvents]
  /\ UNCHANGED <<event, cursor, outbox, overtaken, takenOver>>

\* Mutant: the cursor is moved to the present.
CursorAtPresent(batch) == Latest(Stamps)
\* The cursor moves to the last event of the batch, which may be backwards.
CursorAfter(batch) == IF batch = {} THEN cursor ELSE Latest({event[e].stamp : e \in batch})

\* Mutant: the batch of events is left to the deliveries.
EnqueueKeepingBatch(s) ==
  LET new == {e \in dispatch[s].batch \cap Addressed : outbox[e].status = "ABSENT"} IN
  /\ dispatch[s].pc = "events"
  /\ outbox' = [m \in Mail |-> IF m \in new THEN Queued ELSE outbox[m]]
  /\ cursor' = CursorAfter(dispatch[s].batch)
  /\ dispatch' = [dispatch EXCEPT ![s].pc = "queued"]
  /\ UNCHANGED <<event, overtaken, takenOver>>

\* Rows for those that have recipients; one that another dispatcher has
\* queued meanwhile is left alone (IntegrityError in a savepoint).
EnqueueEvents(s) ==
  LET batch == dispatch[s].batch
      new == {e \in batch \cap Addressed : outbox[e].status = "ABSENT"} IN
  /\ dispatch[s].pc = "events"
  /\ outbox' = [m \in Mail |-> IF m \in new THEN Queued ELSE outbox[m]]
  /\ cursor' = CursorAfter(batch)
  /\ dispatch' = [dispatch EXCEPT ![s].pc = "queued", ![s].batch = {}]
  /\ UNCHANGED <<event, overtaken, takenOver>>

----------------------------------------------------------------------------
(* deliver_pending                                                         *)

Claimable(m, old) ==
  \/ outbox[m].status \in {"PENDING", "FAILED"}
  \/ outbox[m].status = "PROCESSING" /\ m \in old
Old == {m \in Mail : outbox[m].stale}

\* Mutant: a claim is never taken over.
DueUnclaimed(m) ==
  outbox[m].status \in {"PENDING", "FAILED"} /\ outbox[m].attempts < MaxAttempts /\ outbox[m].due
\* Mutant: one attempt more.
DueOnceMore(m) == Claimable(m, Old) /\ outbox[m].attempts <= MaxAttempts /\ outbox[m].due

Due(m) == Claimable(m, Old) /\ outbox[m].attempts < MaxAttempts /\ outbox[m].due

\* The time a claim must be older than (stale_before) is taken once, here.
ListDue(s) ==
  /\ dispatch[s].pc = "queued"
  /\ dispatch' = [dispatch EXCEPT ![s] =
       [pc |-> "deliver", batch |-> {m \in Mail : Due(m)}, old |-> Old, mail |-> {}]]
  /\ UNCHANGED <<event, cursor, outbox, overtaken, takenOver>>

\* claimed_at is now: to no dispatcher that has listed is the claim an old one.
Claimed(m) == [outbox[m] EXCEPT !.status = "PROCESSING", !.attempts = @ + 1, !.stale = FALSE]
WithClaim(s, m) ==
  [u \in Dispatcher |->
     IF u = s THEN [pc |-> "send", batch |-> dispatch[s].batch \ {m},
                    old |-> dispatch[s].old \ {m}, mail |-> {m}]
     ELSE [dispatch[u] EXCEPT !.old = @ \ {m}]]

\* Mutant: what was listed is claimed as it was listed.
ClaimListed(s, m) ==
  /\ dispatch[s].pc = "deliver" /\ m \in dispatch[s].batch
  /\ outbox' = [outbox EXCEPT ![m] = Claimed(m)]
  /\ dispatch' = WithClaim(s, m)
  /\ UNCHANGED <<event, cursor, overtaken, takenOver>>

\* UPDATE ... WHERE it is still claimable, committed before it is sent; the
\* attempts and next_attempt_at are not looked at again.
ClaimMail(s, m) ==
  /\ dispatch[s].pc = "deliver" /\ m \in dispatch[s].batch
  /\ Claimable(m, dispatch[s].old)
  /\ outbox' = [outbox EXCEPT ![m] = Claimed(m)]
  /\ dispatch' = WithClaim(s, m)
  /\ takenOver' = IF outbox[m].status = "PROCESSING" THEN takenOver \cup {m} ELSE takenOver
  /\ UNCHANGED <<event, cursor, overtaken>>

\* rowcount = 0: another dispatcher has it.
SkipMail(s, m) ==
  /\ dispatch[s].pc = "deliver" /\ m \in dispatch[s].batch
  /\ ~Claimable(m, dispatch[s].old)
  /\ dispatch' = [dispatch EXCEPT ![s].batch = @ \ {m}]
  /\ UNCHANGED <<event, cursor, outbox, overtaken, takenOver>>

\* send() returned, or raised; either is written whatever the row says by
\* now: claimed_at is cleared, and after a failure next_attempt_at is put off.
Outcome(s, m, status) ==
  /\ dispatch[s].pc = "send" /\ m \in dispatch[s].mail
  /\ outbox' = [outbox EXCEPT ![m].status = status, ![m].stale = FALSE,
                              ![m].due = @ /\ status = "SENT"]
  /\ dispatch' = [dispatch EXCEPT ![s].pc = "deliver", ![s].mail = {}]
  /\ UNCHANGED <<event, cursor, overtaken, takenOver>>
Sent(s, m) == Outcome(s, m, "SENT")
NotSent(s, m) == Outcome(s, m, "FAILED")

FinishDispatch(s) ==
  /\ dispatch[s].pc = "deliver" /\ dispatch[s].batch = {}
  /\ dispatch' = [dispatch EXCEPT ![s] = Idle]
  /\ UNCHANGED <<event, cursor, outbox, overtaken, takenOver>>

\* An exception, or the end of the process.
Abort(s) ==
  /\ dispatch[s].pc # "idle"
  /\ dispatch' = [dispatch EXCEPT ![s] = Idle]
  /\ UNCHANGED <<event, cursor, outbox, overtaken, takenOver>>

\* Clocks: next_attempt_at comes; smtp_claim_timeout_seconds have passed.
BackOffEnds(m) ==
  /\ ~outbox[m].due
  /\ outbox' = [outbox EXCEPT ![m].due = TRUE]
  /\ UNCHANGED <<event, cursor, dispatch, overtaken, takenOver>>
ClaimAges(m) ==
  /\ outbox[m].status = "PROCESSING" /\ ~outbox[m].stale
  /\ outbox' = [outbox EXCEPT ![m].stale = TRUE]
  /\ UNCHANGED <<event, cursor, dispatch, overtaken, takenOver>>

----------------------------------------------------------------------------
DispatchStep(s) ==
  \/ EnqueueEvents(s) \/ ListDue(s) \/ FinishDispatch(s) \/ Abort(s)
  \/ \E m \in Mail : ClaimMail(s, m) \/ SkipMail(s, m) \/ Sent(s, m) \/ NotSent(s, m)
NotificationNext ==
  \/ \E e \in Event : AppendEvent(e) \/ CommitEvent(e)
  \/ \E n \in Notice : Announce(n)
  \/ \E s \in Dispatcher : ReadEvents(s) \/ DispatchStep(s)
  \/ \E m \in Mail : BackOffEnds(m) \/ ClaimAges(m)

NotificationSpec == NotificationInit /\ [][NotificationNext]_notificationVars

\* The worker dispatches at every tick and is never cut off for ever between
\* the same two steps; the clocks run.
NotificationFairness ==
  /\ WF_notificationVars(ReadEvents(Poller) \/ DispatchStep(Poller))
  /\ SF_notificationVars(EnqueueEvents(Poller))
  /\ SF_notificationVars(ListDue(Poller))
  /\ \A m \in Mail :
       /\ SF_notificationVars(ClaimMail(Poller, m))
       /\ WF_notificationVars(BackOffEnds(m)) /\ WF_notificationVars(ClaimAges(m))

----------------------------------------------------------------------------
(* Properties                                                              *)

\* The tables and the dispatchers hold what they can hold: a mail in hand is
\* one, and the cursor is at an event.
NotificationTypeOK ==
  /\ event \in [Event -> [state : {"absent", "flushed", "committed"}, stamp : 0..Cardinality(Event)]]
  /\ cursor \in {0} \cup {event[e].stamp : e \in Committed}
  /\ outbox \in [Mail -> [status : {"ABSENT", "PENDING", "PROCESSING", "SENT", "FAILED"},
                         attempts : Nat, due : BOOLEAN, stale : BOOLEAN]]
  /\ dispatch \in [Dispatcher -> [pc : {"idle", "events", "queued", "deliver", "send"},
                                  batch : SUBSET Mail, old : SUBSET Mail, mail : SUBSET Mail]]
  /\ \A s \in Dispatcher :
       /\ (dispatch[s].pc = "send") = (dispatch[s].mail # {})
       /\ dispatch[s].pc = "queued" => dispatch[s].batch = {}
       /\ dispatch[s].batch \cup dispatch[s].mail
            \subseteq {m \in Mail : m \in Committed \/ outbox[m].status # "ABSENT"}
  /\ overtaken \subseteq Event /\ takenOver \subseteq Mail

\* A mail is attempted smtp_max_attempts times, and at most once more by every
\* other dispatcher that had listed it before (the claim does not count).
AttemptsBounded ==
  \A m \in Mail : outbox[m].attempts < MaxAttempts + Cardinality(Dispatcher)

\* A mail that was sent is never sent again by a dispatcher that had listed
\* it, unless its claim had been taken over from a slow one.
SentStays ==
  [][\A m \in Mail : outbox[m].status = "SENT" =>
       outbox'[m].status = "SENT" \/ m \in takenOver]_notificationVars

\* An event somebody is to be told about gets its mail, unless an event with a
\* later stamp was committed before it.
EventsQueued ==
  \A e \in Addressed :
    (e \in Committed /\ e \notin overtaken) ~> (outbox[e].status # "ABSENT")

\* A mail in the outbox is sent, or its attempts are used up: dispatchers that
\* die, back-offs and claims left behind do not keep it.
MailEnds ==
  \A m \in Mail :
    (outbox[m].status # "ABSENT")
      ~> (outbox[m].status = "SENT" \/ outbox[m].attempts >= MaxAttempts)
=============================================================================

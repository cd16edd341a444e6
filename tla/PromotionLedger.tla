-------------------------- MODULE PromotionLedger --------------------------
(***************************************************************************)
(* What the promotion of release bundles promises, with no session, no     *)
(* row, no message and no crash in it: a ledger of attempts.               *)
(*                                                                         *)
(* An attempt to deploy a component is opened, Drone is asked for it at    *)
(* most once and only after every component before it was accepted, and    *)
(* nothing is written down as done that Drone did not accept.  What was    *)
(* written may be taken back (a late write may cover a success), but never *)
(* an acceptance, and never a question that was asked.                     *)
(***************************************************************************)
EXTENDS Naturals, Sequences, SequenceTheorems, TLAPS

CONSTANTS
  Dep,      \* the deployments
  Bundle,   \* the release bundles
  Steps,    \* Steps[b]: the deployments of b in component order
  Slot      \* Slot[d]: what d promotes

VARIABLES
  attempt,    \* attempt[d]: the attempts opened for d
  asked,      \* the requests made of Drone, in order
  accepted,   \* the deployments whose slot Drone accepted
  done,       \* the deployments written down as successful
  verdict     \* verdict[b]: what is written down of release b

ledger == <<attempt, asked, accepted, done, verdict>>

Components(b) == {Steps[b][i] : i \in 1..Len(Steps[b])}
Before(d) == {e \in Dep : \E b \in Bundle : \E i, j \in 1..Len(Steps[b]) :
                            i < j /\ e = Steps[b][i] /\ d = Steps[b][j]}

\* What may be written of a release, given what Drone accepted.
Truthful(b, v) ==
  /\ v = "released" => Components(b) \subseteq accepted
  /\ v = "partly"   => Components(b) \cap accepted # {}

Init ==
  /\ attempt = [d \in Dep |-> 0]
  /\ asked = <<>>
  /\ accepted = {}
  /\ done = {}
  /\ verdict = [b \in Bundle |-> "open"]

\* Something is written: attempts are opened, and outcomes recorded that are
\* true.  An attempt is opened for a component once at a time.
Write ==
  /\ \E opened \in SUBSET Dep :
       attempt' = [d \in Dep |-> IF d \in opened THEN attempt[d] + 1 ELSE attempt[d]]
  /\ done' \in SUBSET accepted
  /\ verdict' \in [Bundle -> {"open", "released", "partly"}]
  /\ \A b \in Bundle : verdict'[b] = verdict[b] \/ Truthful(b, verdict'[b])
  /\ UNCHANGED <<asked, accepted>>

\* Drone is asked to promote d, for an attempt it was not asked for before.
Ask(d) ==
  /\ \E k \in 0..attempt[d] :
       /\ \A p \in DOMAIN asked : asked[p] # [dep |-> d, attempt |-> k]
       /\ asked' = Append(asked, [dep |-> d, attempt |-> k])
  /\ Before(d) \subseteq accepted
  /\ UNCHANGED <<attempt, accepted, done, verdict>>

\* Drone accepts something it was asked for.
Accept ==
  /\ \E slots \in SUBSET {d \in Dep : \E p \in DOMAIN asked : Slot[asked[p].dep] = Slot[d]} :
       accepted' = accepted \cup slots
  /\ UNCHANGED <<attempt, asked, done, verdict>>

Next == Write \/ (\E d \in Dep : Ask(d)) \/ Accept

Spec == Init /\ [][Next]_ledger

----------------------------------------------------------------------------
\* Drone is asked for an attempt once at most.
AskedOnce == \A p, q \in DOMAIN asked : asked[p] = asked[q] => p = q

\* A component is asked for once all that come before it were accepted.
AskedInOrder == \A p \in DOMAIN asked : Before(asked[p].dep) \subseteq accepted

\* What is written down as done, or as released, was accepted.
WrittenIsTrue ==
  /\ done \subseteq accepted
  /\ \A b \in Bundle : Truthful(b, verdict[b])

----------------------------------------------------------------------------
(* The ledger alone promises them, to whoever reads it: what implements it *)
(* keeps them.                                                             *)

LedgerTypeOK ==
  /\ attempt \in [Dep -> Nat]
  /\ asked \in Seq([dep : Dep, attempt : Nat])
  /\ accepted \subseteq Dep

LedgerInv == LedgerTypeOK /\ AskedOnce /\ AskedInOrder /\ WrittenIsTrue

LEMMA LedgerInitInv == Init => LedgerInv
<1> SUFFICES ASSUME Init PROVE LedgerInv
  OBVIOUS
<1>1. LedgerTypeOK
  BY EmptySeq DEF Init, LedgerTypeOK
<1>2. QED
  BY <1>1 DEF Init, LedgerInv, AskedOnce, AskedInOrder, WrittenIsTrue, Truthful

LEMMA WriteKeeps == LedgerInv /\ Write => LedgerInv'
<1> SUFFICES ASSUME LedgerInv, Write PROVE LedgerInv'
  OBVIOUS
<1>1. asked' = asked /\ accepted' = accepted
  BY DEF Write
<1>2. attempt' \in [Dep -> Nat]
  BY DEF Write, LedgerInv, LedgerTypeOK
<1>3. WrittenIsTrue'
  BY <1>1 DEF Write, LedgerInv, WrittenIsTrue, Truthful
<1>4. QED
  BY <1>1, <1>2, <1>3 DEF LedgerInv, LedgerTypeOK, AskedOnce, AskedInOrder

LEMMA AskKeeps == ASSUME NEW d \in Dep, LedgerInv, Ask(d) PROVE LedgerInv'
<1>1. PICK k \in 0..attempt[d] :
        /\ \A p \in DOMAIN asked : asked[p] # [dep |-> d, attempt |-> k]
        /\ asked' = Append(asked, [dep |-> d, attempt |-> k])
  BY DEF Ask
<1> DEFINE e == [dep |-> d, attempt |-> k]
<1>2. e \in [dep : Dep, attempt : Nat] /\ asked \in Seq([dep : Dep, attempt : Nat])
  BY DEF LedgerInv, LedgerTypeOK
<1>3. asked' = Append(asked, e)
  BY <1>1
<1> HIDE DEF e
<1>4. /\ asked' \in Seq([dep : Dep, attempt : Nat]) /\ Len(asked') = Len(asked) + 1
      /\ DOMAIN asked = 1..Len(asked) /\ DOMAIN asked' = 1..Len(asked')
      /\ Len(asked) \in Nat
      /\ \A p \in 1..Len(asked) : asked'[p] = asked[p]
      /\ asked'[Len(asked) + 1] = e
  BY <1>2, <1>3
<1>5. UNCHANGED <<attempt, accepted, done, verdict>> /\ Before(d) \subseteq accepted
  BY DEF Ask
<1>6. AskedOnce'
  BY <1>1, <1>4 DEF e, LedgerInv, AskedOnce
<1>7. AskedInOrder'
  BY <1>4, <1>5 DEF e, LedgerInv, AskedInOrder
<1>8. QED
  BY <1>4, <1>5, <1>6, <1>7 DEF LedgerInv, LedgerTypeOK, WrittenIsTrue, Truthful

LEMMA AcceptKeeps == LedgerInv /\ Accept => LedgerInv'
<1> SUFFICES ASSUME LedgerInv, Accept PROVE LedgerInv'
  OBVIOUS
<1>1. accepted \subseteq accepted' /\ accepted' \subseteq Dep
  BY DEF Accept, LedgerInv, LedgerTypeOK
<1>2. UNCHANGED <<attempt, asked, done, verdict>>
  BY DEF Accept
<1>3. QED
  BY <1>1, <1>2
     DEF LedgerInv, LedgerTypeOK, AskedOnce, AskedInOrder, WrittenIsTrue, Truthful

\* The ledger alone promises it, whoever implements it: an attempt is asked of
\* Drone once, a component after those before it were accepted, and what is
\* written as done or released was accepted.
THEOREM LedgerPromises == Spec => [](AskedOnce /\ AskedInOrder /\ WrittenIsTrue)
<1>1. LedgerInv /\ [Next]_ledger => LedgerInv'
  <2>1. CASE UNCHANGED ledger
    BY <2>1 DEF ledger, LedgerInv, LedgerTypeOK, AskedOnce, AskedInOrder, WrittenIsTrue, Truthful
  <2>2. QED
    BY <2>1, WriteKeeps, AskKeeps, AcceptKeeps DEF Next
<1>2. LedgerInv => AskedOnce /\ AskedInOrder /\ WrittenIsTrue
  BY DEF LedgerInv
<1>3. QED
  BY LedgerInitInv, <1>1, <1>2, PTL DEF Spec
=============================================================================

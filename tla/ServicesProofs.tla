--------------------------- MODULE ServicesProofs ---------------------------
(***************************************************************************)
(* Theorems about the approval flow, the registry, the connections, the    *)
(* revisions of the database and the record of the calls of tools, for     *)
(* every set of releases, requests, components, connections and agents.    *)
(***************************************************************************)
EXTENDS Services, NotificationProofs

----------------------------------------------------------------------------
(* The approval flow                                                       *)

Ask == Transition \cup {"look"}
Standing == {"approval_gate", "start_deployment", "execute_deployment",
             "rejected", "success", "failed"}
ClerkState ==
  [pc : {"idle", "read", "ready"}, release : SUBSET Release, ask : Ask,
   seen : ReleaseStatus \cup {"ABSENT"}, flow : Standing \cup {"none"}, built : BOOLEAN]

\* What a request knows of the release it is about: that it is there, that it
\* is still as it was seen if its instance is missing, and that an instance it
\* has built stands where the status it saw stands.
Knows(s, r) ==
  /\ release[r] # "ABSENT" /\ clerk[s].seen \in ReleaseStatus
  /\ flow[r] = "none" => release[r] = clerk[s].seen
  /\ clerk[s].pc = "ready" /\ clerk[s].ask = "look" => clerk[s].built
  /\ clerk[s].pc = "ready" /\ clerk[s].built => clerk[s].flow = StandsAt[clerk[s].seen]

ApprovalInv ==
  /\ release \in [Release -> ReleaseStatus \cup {"ABSENT"}]
  /\ flow \in [Release -> Standing \cup {"none"}]
  /\ clerk \in [Clerk -> ClerkState]
  /\ FlowAgrees
  /\ \A s \in Clerk : /\ clerk[s].pc = "idle" => clerk[s] = Free
                      /\ clerk[s].pc = "ready" => clerk[s].flow # "none"
                      /\ clerk[s].pc = "ready" /\ clerk[s].ask # "look"
                           => clerk[s].seen = From(clerk[s].ask)
                      /\ \A r \in clerk[s].release : Knows(s, r)

LEMMA TransitionSteps ==
  ASSUME NEW t \in Transition
  PROVE  /\ From(t) \in ReleaseStatus /\ Into(t) \in ReleaseStatus
         /\ Rest(t) = StandsAt[Into(t)] /\ Rest(t) \in Standing
         /\ Task(t) = StandsAt[From(t)]
BY DEF Transition, From, Into, Rest, Task, StandsAt, ReleaseStatus, Standing

LEMMA RebuiltStands ==
  ASSUME NEW status \in ReleaseStatus
  PROVE  Rebuilt(status) = StandsAt[status] /\ StandsAt[status] \in Standing
<1>1. CASE status \in {"PENDING", "APPROVED", "REJECTED"}
  BY <1>1 DEF Rebuilt, CompleteStep, Task, Rest, StandsAt, Standing
<1>2. CASE status \in {"DEPLOYING", "SUCCESS", "FAILED"}
  BY <1>2 DEF Rebuilt, CompleteStep, Task, Rest, StandsAt, Standing
<1>3. QED
  BY <1>1, <1>2 DEF ReleaseStatus

LEMMA FreeState == Free \in ClerkState
BY DEF Free, ClerkState, Ask

LEMMA ApprovalInitInv == ApprovalInit => ApprovalInv
<1> SUFFICES ASSUME ApprovalInit PROVE ApprovalInv
  OBVIOUS
<1>1. \A s \in Clerk : clerk[s] = Free /\ Free.release = {} /\ Free.pc = "idle"
  BY DEF ApprovalInit, Free
<1>2. clerk \in [Clerk -> ClerkState]
  BY FreeState DEF ApprovalInit
<1>3. FlowAgrees
  BY DEF ApprovalInit, FlowAgrees
<1>4. QED
  BY <1>1, <1>2, <1>3 DEF ApprovalInit, ApprovalInv

\* A step of one request that leaves the tables alone.
LEMMA ApprovalLocal ==
  ASSUME ApprovalInv, NEW s \in Clerk, UNCHANGED <<release, flow>>,
         \E next \in ClerkState : clerk' = [clerk EXCEPT ![s] = next],
         clerk'[s].pc = "idle" => clerk'[s] = Free,
         clerk'[s].pc = "ready" => clerk'[s].flow # "none",
         clerk'[s].pc = "ready" /\ clerk'[s].ask # "look"
           => clerk'[s].seen = From(clerk'[s].ask),
         \A r \in clerk'[s].release : Knows(s, r)'
  PROVE  ApprovalInv'
<1>1. clerk' \in [Clerk -> ClerkState] /\ \A u \in Clerk : u # s => clerk'[u] = clerk[u]
  BY DEF ApprovalInv
<1>2. FlowAgrees'
  BY DEF ApprovalInv, FlowAgrees
<1>3. \A u \in Clerk : u # s => \A r \in clerk'[u].release : Knows(u, r)'
  BY <1>1 DEF ApprovalInv, Knows
<1>4. QED
  BY <1>1, <1>2, <1>3 DEF ApprovalInv

\* A request that is over, whatever it wrote: what the others know still holds
\* if a release keeps its status as long as its instance is missing.
LEMMA ApprovalWrite ==
  ASSUME ApprovalInv, NEW s \in Clerk, clerk' = [clerk EXCEPT ![s] = Free],
         release' \in [Release -> ReleaseStatus \cup {"ABSENT"}],
         flow' \in [Release -> Standing \cup {"none"}],
         FlowAgrees',
         \A r \in Release : /\ release[r] # "ABSENT" => release'[r] # "ABSENT"
                            /\ flow'[r] = "none" => flow[r] = "none" /\ release'[r] = release[r]
  PROVE  ApprovalInv'
<1>1. clerk' \in [Clerk -> ClerkState] /\ clerk'[s] = Free
      /\ \A u \in Clerk : u # s => clerk'[u] = clerk[u]
  BY FreeState DEF ApprovalInv
<1>2. \A u \in Clerk : u # s => \A r \in clerk'[u].release : r \in Release /\ Knows(u, r)
  BY <1>1 DEF ApprovalInv, ClerkState
<1>3. \A u \in Clerk : u # s => \A r \in clerk'[u].release : Knows(u, r)'
  BY <1>1, <1>2 DEF Knows
<1>4. Free.release = {} /\ Free.pc = "idle"
  BY DEF Free
<1>5. QED
  BY <1>1, <1>3, <1>4 DEF ApprovalInv

LEMMA CreateReleaseInv ==
  ASSUME ApprovalInv, NEW r \in Release, CreateRelease(r)
  PROVE  ApprovalInv'
<1>1. /\ release' \in [Release -> ReleaseStatus \cup {"ABSENT"}]
      /\ flow' \in [Release -> Standing \cup {"none"}] /\ clerk' = clerk
  BY DEF ApprovalInv, CreateRelease, ReleaseStatus, Standing
<1>2. FlowAgrees'
  BY <1>1 DEF ApprovalInv, CreateRelease, FlowAgrees, StandsAt
<1>3. \A s \in Clerk : \A q \in clerk[s].release : q # r
  BY DEF ApprovalInv, CreateRelease, Knows
<1>4. \A s \in Clerk : \A q \in clerk[s].release : Knows(s, q)'
  BY <1>1, <1>3 DEF ApprovalInv, CreateRelease, Knows, ClerkState
<1>5. QED
  BY <1>1, <1>2, <1>4 DEF ApprovalInv

LEMMA ReadReleaseInv ==
  ASSUME ApprovalInv, NEW s \in Clerk, NEW r \in Release, NEW ask \in Ask,
         ReadRelease(s, r, ask)
  PROVE  ApprovalInv'
<1> DEFINE next == [Free EXCEPT !.pc = "read", !.release = {r}, !.ask = ask, !.seen = release[r]]
<1>1. release[r] \in ReleaseStatus
  BY DEF ApprovalInv, ReadRelease
<1>2. next \in ClerkState /\ next.pc = "read" /\ next.release = {r} /\ next.seen = release[r]
  BY <1>1 DEF Free, ClerkState
<1>3. clerk' = [clerk EXCEPT ![s] = next] /\ clerk'[s] = next /\ UNCHANGED <<release, flow>>
  BY DEF ReadRelease, ApprovalInv
<1> HIDE DEF next
<1>4. \A q \in clerk'[s].release : Knows(s, q)'
  BY <1>1, <1>2, <1>3 DEF Knows, ReleaseStatus
<1>5. QED
  BY <1>2, <1>3, <1>4, ApprovalLocal

LEMMA EnsureFlowInv ==
  ASSUME ApprovalInv, NEW s \in Clerk, NEW r \in Release, EnsureFlow(s, r)
  PROVE  ApprovalInv'
<1> DEFINE built == flow[r] = "none"
           instance == IF built THEN Rebuilt(clerk[s].seen) ELSE flow[r]
           goesOn == IF clerk[s].ask = "look" THEN built
                     ELSE clerk[s].seen = From(clerk[s].ask)
           on == [clerk[s] EXCEPT !.pc = "ready", !.flow = instance, !.built = built]
           next == IF goesOn THEN on ELSE Free
<1>1. Knows(s, r) /\ clerk[s] \in ClerkState
  BY DEF ApprovalInv, EnsureFlow
<1>2. Rebuilt(clerk[s].seen) = StandsAt[clerk[s].seen] /\ StandsAt[clerk[s].seen] \in Standing
  BY <1>1, RebuiltStands DEF Knows
<1>3. instance \in Standing /\ (built => instance = StandsAt[clerk[s].seen])
  BY <1>2 DEF ApprovalInv
<1>4. instance # "none" /\ built \in BOOLEAN
  BY <1>3 DEF Standing
<1>5. clerk' = [clerk EXCEPT ![s] = next] /\ clerk'[s] = next /\ UNCHANGED <<release, flow>>
  BY DEF EnsureFlow, ApprovalInv
<1> HIDE DEF instance, built
<1>6. /\ on \in ClerkState /\ on.pc = "ready" /\ on.flow = instance /\ on.built = built
      /\ on.release = clerk[s].release /\ on.seen = clerk[s].seen /\ on.ask = clerk[s].ask
  BY <1>1, <1>3, <1>4 DEF ClerkState
<1>7. CASE ~goesOn
  <2>1. clerk'[s] = Free /\ Free.pc = "idle" /\ Free.release = {} /\ next = Free
    BY <1>5, <1>7 DEF Free
  <2>2. QED
    BY <1>5, <2>1, FreeState, ApprovalLocal
<1>8. CASE goesOn
  <2>1. clerk'[s] = on /\ next = on
    BY <1>5, <1>8
  <2> HIDE DEF on
  <2>2. ASSUME NEW q \in clerk'[s].release PROVE Knows(s, q)'
    <3>1. Knows(s, q) /\ release'[q] = release[q] /\ flow'[q] = flow[q]
      BY <1>5, <1>6, <2>1, <2>2 DEF ApprovalInv
    <3>2. on.ask = "look" => on.built
      BY <1>6, <1>8
    <3>3. on.built => on.flow = StandsAt[on.seen]
      BY <1>3, <1>6
    <3>4. QED
      BY <1>6, <2>1, <3>1, <3>2, <3>3 DEF Knows
  <2>3. clerk'[s].ask # "look" => clerk'[s].seen = From(clerk'[s].ask)
    BY <1>6, <1>8, <2>1
  <2>4. \E n \in ClerkState : clerk' = [clerk EXCEPT ![s] = n]
    BY <1>5, <1>6, <2>1
  <2>5. clerk'[s].pc = "ready" /\ clerk'[s].flow # "none" /\ UNCHANGED <<release, flow>>
    BY <1>4, <1>5, <1>6, <2>1
  <2>6. QED
    BY <2>2, <2>3, <2>4, <2>5, ApprovalLocal
<1>9. QED
  BY <1>7, <1>8

LEMMA CommitLookInv ==
  ASSUME ApprovalInv, NEW s \in Clerk, NEW r \in Release, CommitLook(s, r)
  PROVE  ApprovalInv'
<1>1. clerk[s].flow = StandsAt[clerk[s].seen] /\ (flow[r] = "none" => release[r] = clerk[s].seen)
      /\ release[r] \in ReleaseStatus
  BY DEF ApprovalInv, CommitLook, Knows
<1>2. clerk[s].flow \in Standing
  BY DEF ApprovalInv, CommitLook, ClerkState
<1>0. release' = release /\ clerk' = [clerk EXCEPT ![s] = Free]
  BY DEF CommitLook
<1>3. /\ flow' \in [Release -> Standing \cup {"none"}]
      /\ \A q \in Release :
           \/ flow'[q] = flow[q]
           \/ q = r /\ flow[q] = "none" /\ flow'[q] = clerk[s].flow
  <2>1. flow \in [Release -> Standing \cup {"none"}]
    BY DEF ApprovalInv
  <2>3. CASE flow[r] = "none"
    <3>1. flow' = [flow EXCEPT ![r] = clerk[s].flow]
      BY <2>3 DEF CommitLook
    <3>2. QED
      BY <1>2, <2>1, <2>3, <3>1
  <2>4. CASE flow[r] # "none"
    <3>1. flow' = flow
      BY <2>4 DEF CommitLook
    <3>2. QED
      BY <2>1, <3>1
  <2>5. QED
    BY <2>3, <2>4
<1>4. \A q \in Release : flow'[q] = "none" => flow[q] = "none"
  BY <1>2, <1>3 DEF Standing
<1>5. FlowAgrees'
  BY <1>0, <1>1, <1>3 DEF ApprovalInv, FlowAgrees, ReleaseStatus
<1>6. release' \in [Release -> ReleaseStatus \cup {"ABSENT"}]
  BY <1>0 DEF ApprovalInv
<1>7. QED
  BY <1>0, <1>3, <1>4, <1>5, <1>6, ApprovalWrite

LEMMA AcceptedFacts ==
  ASSUME ApprovalInv, NEW s \in Clerk, NEW r \in Release,
         clerk[s].ask # "look", Accepted(s, r)
  PROVE  /\ clerk[s].ask \in Transition
         /\ CompleteStep(clerk[s].flow, clerk[s].ask) = StandsAt[Into(clerk[s].ask)]
         /\ StandsAt[Into(clerk[s].ask)] \in Standing
         /\ release[r] = From(clerk[s].ask) /\ Into(clerk[s].ask) \in ReleaseStatus
<1>1. clerk[s].ask \in Transition
  BY DEF ApprovalInv, ClerkState, Ask
<1>2. CompleteStep(clerk[s].flow, clerk[s].ask) = Rest(clerk[s].ask)
  BY DEF Accepted, Waiting, CompleteStep
<1>3. release[r] = From(clerk[s].ask)
  BY DEF Accepted
<1>4. QED
  BY <1>1, <1>2, <1>3, TransitionSteps

LEMMA AnswerInv ==
  ASSUME ApprovalInv, NEW s \in Clerk, NEW r \in Release, Answer(s, r)
  PROVE  ApprovalInv'
<1> DEFINE t == clerk[s].ask
<1>1. clerk' = [clerk EXCEPT ![s] = Free]
  BY DEF Answer
<1>2. CASE ~Accepted(s, r)
  <2>1. release' = release /\ flow' = flow
    BY <1>2 DEF Answer
  <2>2. FlowAgrees'
    BY <2>1 DEF ApprovalInv, FlowAgrees
  <2>3. /\ release' \in [Release -> ReleaseStatus \cup {"ABSENT"}]
        /\ flow' \in [Release -> Standing \cup {"none"}]
    BY <2>1 DEF ApprovalInv
  <2>4. QED
    BY <1>1, <2>1, <2>2, <2>3, ApprovalWrite
<1>3. CASE Accepted(s, r)
  <2>1. /\ CompleteStep(clerk[s].flow, t) = StandsAt[Into(t)] /\ StandsAt[Into(t)] \in Standing
        /\ Into(t) \in ReleaseStatus
    BY <1>3, AcceptedFacts DEF Answer
  <2>2. /\ release' = [release EXCEPT ![r] = Into(t)]
        /\ flow' = [flow EXCEPT ![r] = StandsAt[Into(t)]]
    BY <1>3, <2>1 DEF Answer
  <2> HIDE DEF t
  <2>3. /\ release' \in [Release -> ReleaseStatus \cup {"ABSENT"}]
        /\ flow' \in [Release -> Standing \cup {"none"}]
    BY <2>1, <2>2 DEF ApprovalInv
  <2>4. Into(t) # "ABSENT" /\ StandsAt[Into(t)] # "none"
    BY <2>1 DEF ReleaseStatus, Standing
  <2>5. release'[r] = Into(t) /\ flow'[r] = StandsAt[Into(t)]
        /\ \A q \in Release : q # r => release'[q] = release[q] /\ flow'[q] = flow[q]
    BY <2>2 DEF ApprovalInv
  <2>6. FlowAgrees'
    BY <2>4, <2>5 DEF ApprovalInv, FlowAgrees
  <2>7. QED
    BY <1>1, <2>3, <2>4, <2>5, <2>6, ApprovalWrite
<1>4. QED
  BY <1>2, <1>3

LEMMA LoseRequestInv ==
  ASSUME ApprovalInv, NEW s \in Clerk, LoseRequest(s)
  PROVE  ApprovalInv'
<1>1. clerk' = [clerk EXCEPT ![s] = Free] /\ release' = release /\ flow' = flow
  BY DEF LoseRequest
<1>2. FlowAgrees'
  BY <1>1 DEF ApprovalInv, FlowAgrees
<1>3. /\ release' \in [Release -> ReleaseStatus \cup {"ABSENT"}]
      /\ flow' \in [Release -> Standing \cup {"none"}]
  BY <1>1 DEF ApprovalInv
<1>4. QED
  BY <1>1, <1>2, <1>3, ApprovalWrite

LEMMA ApprovalStep == ApprovalInv /\ [ApprovalNext]_approvalVars => ApprovalInv'
<1> SUFFICES ASSUME ApprovalInv, [ApprovalNext]_approvalVars PROVE ApprovalInv'
  OBVIOUS
<1>1. CASE UNCHANGED approvalVars
  BY <1>1 DEF approvalVars, ApprovalInv, FlowAgrees, Knows
<1>2. CASE \E r \in Release : CreateRelease(r)
  BY <1>2, CreateReleaseInv
<1>3. CASE \E s \in Clerk, r \in Release : \E ask \in Ask : ReadRelease(s, r, ask)
  BY <1>3, ReadReleaseInv
<1>4. CASE \E s \in Clerk, r \in Release : EnsureFlow(s, r)
  BY <1>4, EnsureFlowInv
<1>5. CASE \E s \in Clerk, r \in Release : CommitLook(s, r)
  BY <1>5, CommitLookInv
<1>6. CASE \E s \in Clerk, r \in Release : Answer(s, r)
  BY <1>6, AnswerInv
<1>7. CASE \E s \in Clerk : LoseRequest(s)
  BY <1>7, LoseRequestInv
<1>8. QED
  BY <1>1, <1>2, <1>3, <1>4, <1>5, <1>6, <1>7 DEF ApprovalNext, Ask

\* The workflow of every release stands where its row stands, whatever requests
\* race to build or advance it.
THEOREM WorkflowAgrees == ApprovalSpec => []FlowAgrees
<1>1. ApprovalInv => FlowAgrees
  BY DEF ApprovalInv
<1>2. QED
  BY ApprovalInitInv, ApprovalStep, <1>1, PTL DEF ApprovalSpec

\* The tables and requests of the approval flow hold what they can hold.
THEOREM ApprovalTypeCorrect == ApprovalSpec => []ApprovalTypeOK
<1>1. ApprovalInv => ApprovalTypeOK
  BY DEF ApprovalInv, ApprovalTypeOK, ClerkState, Standing
<1>2. QED
  BY ApprovalInitInv, ApprovalStep, <1>1, PTL DEF ApprovalSpec

\* How far a status is from the start: a transition goes one further.
Rank(status) == CASE status = "PENDING" -> 0 [] status = "APPROVED" -> 1
                  [] status = "DEPLOYING" -> 2
                  [] status \in {"REJECTED", "SUCCESS", "FAILED"} -> 3

LEMMA RankRises ==
  ASSUME NEW t \in Transition
  PROVE  /\ Rank(From(t)) \in Nat /\ Rank(Into(t)) \in Nat
         /\ Rank(From(t)) < Rank(Into(t))
BY DEF Transition, From, Into, Rank

\* The transitions answered led to the status the release has.
AnswerChain(r) ==
  /\ answers[r] \in Seq(Transition)
  /\ Len(answers[r]) > 0 => Into(answers[r][Len(answers[r])]) = release[r]
  /\ \A i \in 1..Len(answers[r]) : Rank(Into(answers[r][i])) <= Rank(release[r])
  /\ \A i, j \in 1..Len(answers[r]) :
       i < j => /\ From(answers[r][i]) # From(answers[r][j])
                /\ j = i + 1 => Into(answers[r][i]) = From(answers[r][j])
AnswersInv == /\ answers \in [Release -> Seq(Transition)]
              /\ \A r \in Release : AnswerChain(r)

LEMMA AnswersAppend ==
  ASSUME AnswersInv, NEW r \in Release, NEW t \in Transition, release[r] = From(t),
         release'[r] = Into(t), answers'[r] = Append(answers[r], t)
  PROVE  AnswerChain(r)'
<1> DEFINE a == answers[r]
           n == Len(a)
<1>1. /\ a \in Seq(Transition) /\ n \in Nat
      /\ n > 0 => Into(a[n]) = From(t)
      /\ \A i \in 1..n : a[i] \in Transition /\ Rank(Into(a[i])) <= Rank(From(t))
      /\ \A i, j \in 1..n :
           i < j => /\ From(a[i]) # From(a[j])
                    /\ j = i + 1 => Into(a[i]) = From(a[j])
  BY DEF AnswersInv, AnswerChain
<1>2. answers'[r] = Append(a, t)
  OBVIOUS
<1> HIDE DEF a
<1> DEFINE b == Append(a, t)
<1>3. /\ b \in Seq(Transition) /\ Len(b) = n + 1 /\ b[n + 1] = t
      /\ \A i \in 1..n : b[i] = a[i]
  BY <1>1
<1> HIDE DEF b, n
<1>4. \A i \in 1..n : /\ Rank(From(a[i])) < Rank(From(t))
                      /\ Rank(Into(a[i])) <= Rank(Into(t))
  <2>1. ASSUME NEW i \in 1..n
        PROVE  Rank(From(a[i])) < Rank(From(t)) /\ Rank(Into(a[i])) <= Rank(Into(t))
    <3>1. /\ Rank(From(a[i])) < Rank(Into(a[i])) /\ Rank(From(t)) < Rank(Into(t))
          /\ Rank(From(a[i])) \in Nat /\ Rank(Into(a[i])) \in Nat
          /\ Rank(From(t)) \in Nat /\ Rank(Into(t)) \in Nat
      BY <1>1, RankRises
    <3>2. Rank(Into(a[i])) <= Rank(From(t))
      BY <1>1
    <3>3. QED
      BY <3>1, <3>2
  <2>2. QED
    BY <2>1
<1>5. \A i \in 1..n : From(a[i]) # From(t)
  <2>1. Rank(From(t)) \in Nat
    BY RankRises
  <2>2. QED
    BY <1>4, <2>1
<1>6. \A i \in 1..(n + 1) : i \in 1..n \/ i = n + 1
  BY <1>1
<1>7. \A i \in 1..(n + 1) : Rank(Into(b[i])) <= Rank(Into(t))
  <2>1. Rank(Into(t)) <= Rank(Into(t))
    BY RankRises
  <2>2. QED
    BY <1>3, <1>4, <1>6, <2>1
<1>8. ASSUME NEW i \in 1..(n + 1), NEW j \in 1..(n + 1), i < j
      PROVE  /\ From(b[i]) # From(b[j])
             /\ j = i + 1 => Into(b[i]) = From(b[j])
  <2>1. i \in 1..n /\ b[i] = a[i]
    BY <1>1, <1>3, <1>8
  <2>2. CASE j \in 1..n
    BY <1>1, <1>3, <1>8, <2>1, <2>2
  <2>3. CASE j = n + 1
    <3>1. b[j] = t /\ From(b[i]) # From(b[j])
      BY <1>3, <1>5, <2>1, <2>3
    <3>2. j = i + 1 => i = n /\ n > 0
      BY <1>1, <2>1, <2>3
    <3>3. QED
      BY <1>1, <2>1, <3>1, <3>2
  <2>4. QED
    BY <1>6, <2>2, <2>3
<1>9. answers'[r] = b
  BY <1>2 DEF b
<1>10. QED
  BY <1>1, <1>3, <1>7, <1>8, <1>9 DEF AnswerChain

LEMMA AnswersStep ==
  ApprovalInv /\ AnswersInv /\ [ApprovalNext]_approvalVars => AnswersInv'
<1> SUFFICES ASSUME ApprovalInv, AnswersInv, [ApprovalNext]_approvalVars PROVE AnswersInv'
  OBVIOUS
<1>1. CASE answers' = answers /\ \A r \in Release : release[r] # "ABSENT" => release'[r] = release[r]
  <2>1. ASSUME NEW r \in Release PROVE AnswerChain(r)'
    <3>1. answers'[r] = answers[r] /\ AnswerChain(r)
      BY <1>1 DEF AnswersInv
    <3>2. CASE release[r] # "ABSENT"
      BY <1>1, <3>1, <3>2 DEF AnswerChain
    <3>3. CASE release[r] = "ABSENT"
      <4>1. \A t \in Transition : Into(t) # "ABSENT"
        BY TransitionSteps DEF ReleaseStatus
      <4>2. Len(answers[r]) \in Nat /\ (Len(answers[r]) > 0 => answers[r][Len(answers[r])] \in Transition)
        BY <3>1 DEF AnswerChain
      <4>3. Len(answers[r]) = 0
        BY <3>1, <3>3, <4>1, <4>2 DEF AnswerChain
      <4>4. QED
        BY <3>1, <4>3 DEF AnswerChain
    <3>4. QED
      BY <3>2, <3>3
  <2>2. QED
    BY <1>1, <2>1 DEF AnswersInv
<1>2. CASE \E s \in Clerk, r \in Release : Answer(s, r) /\ Accepted(s, r)
  <2>1. PICK s \in Clerk, r \in Release : Answer(s, r) /\ Accepted(s, r)
    BY <1>2
  <2>2. PICK t \in Transition : t = clerk[s].ask /\ release[r] = From(t) /\ Into(t) \in ReleaseStatus
    BY <2>1, AcceptedFacts DEF Answer
  <2>3. release' = [release EXCEPT ![r] = Into(t)] /\ answers' = [answers EXCEPT ![r] = Append(@, t)]
    BY <2>1, <2>2 DEF Answer
  <2>4. release'[r] = Into(t) /\ answers'[r] = Append(answers[r], t)
        /\ \A q \in Release : q # r => release'[q] = release[q] /\ answers'[q] = answers[q]
    BY <2>3 DEF ApprovalInv, AnswersInv
  <2>5. answers' \in [Release -> Seq(Transition)]
    BY <2>3 DEF AnswersInv
  <2>6. AnswerChain(r)'
    BY <2>2, <2>4, AnswersAppend
  <2>7. \A q \in Release : q # r => AnswerChain(q)'
    <3>1. ASSUME NEW q \in Release, q # r PROVE AnswerChain(q)'
      <4>1. AnswerChain(q) /\ release'[q] = release[q] /\ answers'[q] = answers[q]
        BY <2>4, <3>1 DEF AnswersInv
      <4>2. QED
        BY <4>1 DEF AnswerChain
    <3>2. QED
      BY <3>1
  <2>8. QED
    BY <2>5, <2>6, <2>7 DEF AnswersInv
<1>3. CASE UNCHANGED approvalVars
  BY <1>1, <1>3 DEF approvalVars
<1>4. CASE \E r \in Release : CreateRelease(r)
  BY <1>1, <1>4 DEF CreateRelease, ApprovalInv
<1>5. CASE \E s \in Clerk, r \in Release : Answer(s, r) /\ ~Accepted(s, r)
  BY <1>1, <1>5 DEF Answer
<1>6. CASE \E s \in Clerk, r \in Release :
             \/ \E ask \in Ask : ReadRelease(s, r, ask)
             \/ EnsureFlow(s, r) \/ CommitLook(s, r) \/ LoseRequest(s)
  BY <1>1, <1>6, ZenonT(60) DEF ReadRelease, EnsureFlow, CommitLook, LoseRequest
<1>7. CASE \E s \in Clerk : LoseRequest(s)
  BY <1>1, <1>7 DEF LoseRequest
<1>8. QED
  BY <1>2, <1>3, <1>4, <1>5, <1>6, <1>7 DEF ApprovalNext, Ask

\* Of the requests that race for a release one is answered, and what is answered
\* follows the order of the states.
THEOREM TransitionsAnsweredOnce == ApprovalSpec => []AnsweredOnce
<1>1. ApprovalInit => AnswersInv
  BY DEF ApprovalInit, AnswersInv, AnswerChain
<1>2. AnswersInv => AnsweredOnce
  BY DEF AnswersInv, AnswerChain, AnsweredOnce
<1>3. QED
  BY ApprovalInitInv, ApprovalStep, AnswersStep, <1>1, <1>2, PTL DEF ApprovalSpec

----------------------------------------------------------------------------
(* The registry                                                            *)

NoRepeats(s) == \A i, j \in 1..Len(s) : s[i] = s[j] => i = j

\* The sequences of a set are what they are called, counted and without repeats.
LEMMA SequenceOfSet ==
  ASSUME NEW S, IsFiniteSet(S), NEW s \in SetToSeqs(S)
  PROVE  s \in Seq(S) /\ NoRepeats(s) /\ Elements(s) = S /\ Len(s) = Cardinality(S)
<1> DEFINE n == Cardinality(S)
<1>1. n \in Nat
  BY FS_CardinalityType
<1>2. s \in [1..n -> S] /\ \A i, j \in 1..n : i # j => s[i] # s[j]
  BY DEF SetToSeqs
<1>3. s \in Seq(S) /\ Len(s) = n
  BY <1>1, <1>2
<1>4. NoRepeats(s)
  BY <1>2, <1>3 DEF NoRepeats
<1>5. IsFiniteSet(1..n) /\ Cardinality(1..n) = n
  BY <1>1, FS_Interval
<1>6. s \in Injection(1..n, S)
  BY <1>2 DEF Injection, IsInjective
<1>7. s \in Surjection(1..n, S)
  BY <1>5, <1>6, FS_Injection
<1>8. Elements(s) = S
  BY <1>2, <1>3, <1>7 DEF Surjection, Elements
<1>9. QED
  BY <1>3, <1>4, <1>8

LEMMA CountOfElements ==
  ASSUME NEW S, NEW s \in Seq(S), NoRepeats(s)
  PROVE  IsFiniteSet(Elements(s)) /\ Cardinality(Elements(s)) = Len(s)
<1> DEFINE n == Len(s)
<1>1. n \in Nat /\ s \in [1..n -> Elements(s)]
  BY DEF Elements
<1>2. IsFiniteSet(1..n) /\ Cardinality(1..n) = n
  BY <1>1, FS_Interval, SMTT(60)
<1>3. s \in Surjection(1..n, Elements(s))
  BY <1>1 DEF Surjection, Elements
<1>4. s \in Injection(1..n, Elements(s))
  BY <1>1 DEF Injection, IsInjective, NoRepeats
<1>5. QED
  BY <1>2, <1>3, <1>4, FS_Surjection

\* A part of a sequence, and two sequences joined.
LEMMA Part ==
  ASSUME NEW S, NEW s \in Seq(S), NEW m \in 1..(Len(s) + 1), NEW n \in 0..Len(s), m <= n + 1
  PROVE  /\ SubSeq(s, m, n) \in Seq(S) /\ Len(SubSeq(s, m, n)) = n + 1 - m
         /\ \A i \in 1..(n + 1 - m) : SubSeq(s, m, n)[i] = s[m - 1 + i]
OBVIOUS

LEMMA Joined ==
  ASSUME NEW S, NEW s \in Seq(S), NEW t \in Seq(S)
  PROVE  /\ s \o t \in Seq(S) /\ Len(s \o t) = Len(s) + Len(t)
         /\ \A i \in 1..Len(s) : (s \o t)[i] = s[i]
         /\ \A i \in 1..Len(t) : (s \o t)[Len(s) + i] = t[i]
OBVIOUS

\* Inserting and removing one element.
LEMMA Inserting ==
  ASSUME NEW S, NEW s \in Seq(S), NoRepeats(s), NEW c \in S, c \notin Elements(s),
         NEW at \in 1..(Len(s) + 1)
  PROVE  /\ InsertAt(s, at, c) \in Seq(S) /\ NoRepeats(InsertAt(s, at, c))
         /\ Elements(InsertAt(s, at, c)) = Elements(s) \cup {c}
<1> DEFINE r == InsertAt(s, at, c)
           Back(i) == IF i < at THEN i ELSE i - 1
           Ahead(i) == IF i < at THEN i ELSE i + 1
<1> DEFINE before == SubSeq(s, 1, at - 1) \o <<c>>
           after == SubSeq(s, at, Len(s))
<1>a. /\ before \in Seq(S) /\ Len(before) = at /\ before[at] = c
      /\ \A i \in 1..(at - 1) : before[i] = s[i]
  <2>1. /\ SubSeq(s, 1, at - 1) \in Seq(S) /\ Len(SubSeq(s, 1, at - 1)) = at - 1
        /\ \A i \in 1..(at - 1) : SubSeq(s, 1, at - 1)[i] = s[i]
    BY Part
  <2> DEFINE first == SubSeq(s, 1, at - 1)
  <2>2. <<c>> \in Seq(S) /\ Len(<<c>>) = 1 /\ <<c>>[1] = c
    OBVIOUS
  <2>3. /\ first \in Seq(S) /\ Len(first) = at - 1
        /\ \A i \in 1..(at - 1) : first[i] = s[i]
    BY <2>1
  <2> HIDE DEF first
  <2>4. /\ first \o <<c>> \in Seq(S) /\ Len(first \o <<c>>) = at
        /\ (first \o <<c>>)[at] = c /\ \A i \in 1..(at - 1) : (first \o <<c>>)[i] = first[i]
    BY <2>2, <2>3
  <2>5. QED
    BY <2>3, <2>4 DEF first
<1>b. /\ after \in Seq(S) /\ Len(after) = Len(s) + 1 - at
      /\ \A i \in 1..(Len(s) + 1 - at) : after[i] = s[at - 1 + i]
  BY Part
<1>c. r = before \o after
  BY DEF InsertAt
<1> HIDE DEF r, before, after
<1>1. r \in Seq(S) /\ Len(r) = Len(s) + 1
  BY <1>a, <1>b, <1>c, SMTT(60)
<1>2. r[at] = c /\ \A i \in 1..Len(r) : i # at => Back(i) \in 1..Len(s) /\ r[i] = s[Back(i)]
  <2>1. r[at] = c
    BY <1>1, <1>a, <1>b, <1>c
  <2>2. ASSUME NEW i \in 1..Len(r), i < at PROVE i \in 1..Len(s) /\ r[i] = s[i]
    BY <1>1, <1>a, <1>b, <1>c, <2>2
  <2>3. ASSUME NEW i \in 1..Len(r), i > at PROVE i - 1 \in 1..Len(s) /\ r[i] = s[i - 1]
    <3>1. /\ i - at \in 1..(Len(s) + 1 - at) /\ at - 1 + (i - at) = i - 1
          /\ Len(before) + (i - at) = i
      BY <1>1, <1>a, <2>3, SMTT(60)
    <3>2. r[i] = after[i - at]
      BY <1>a, <1>b, <1>c, <3>1, Joined
    <3>3. QED
      BY <1>1, <1>b, <2>3, <3>1, <3>2
  <2>4. QED
    BY <1>1, <2>1, <2>2, <2>3
<1>3. \A i \in 1..Len(s) : Ahead(i) \in 1..Len(r) /\ Ahead(i) # at /\ Back(Ahead(i)) = i
  BY <1>1
<1>4. \A i, j \in 1..Len(r) : i # at /\ j # at /\ Back(i) = Back(j) => i = j
  OBVIOUS
<1> HIDE DEF r, Back, Ahead
<1>5. NoRepeats(r)
  BY <1>1, <1>2, <1>4 DEF NoRepeats, Elements
<1>6. Elements(r) \subseteq Elements(s) \cup {c}
  BY <1>2 DEF Elements
<1>7. Elements(s) \cup {c} \subseteq Elements(r)
  <2>1. at \in 1..Len(r)
    BY <1>1
  <2>2. ASSUME NEW i \in 1..Len(s) PROVE s[i] \in Elements(r)
    BY <1>2, <1>3 DEF Elements
  <2>3. QED
    BY <1>2, <2>1, <2>2 DEF Elements
<1>8. QED
  BY <1>1, <1>5, <1>6, <1>7 DEF r

LEMMA Removing ==
  ASSUME NEW S, NEW s \in Seq(S), NoRepeats(s), NEW c \in Elements(s)
  PROVE  /\ RemoveAt(s, PositionIn(s, c)) \in Seq(S)
         /\ NoRepeats(RemoveAt(s, PositionIn(s, c)))
         /\ Elements(RemoveAt(s, PositionIn(s, c))) = Elements(s) \ {c}
<1> DEFINE at == PositionIn(s, c)
           r == RemoveAt(s, at)
           Back(i) == IF i < at THEN i ELSE i + 1
           Ahead(i) == IF i < at THEN i ELSE i - 1
<1>0. at \in 1..Len(s) /\ s[at] = c
  BY DEF PositionIn, Elements
<1> HIDE DEF at
<1> DEFINE before == SubSeq(s, 1, at - 1)
           after == SubSeq(s, at + 1, Len(s))
<1>a. /\ before \in Seq(S) /\ Len(before) = at - 1
      /\ \A i \in 1..(at - 1) : before[i] = s[i]
  BY <1>0
<1>b. /\ after \in Seq(S) /\ Len(after) = Len(s) - at
      /\ \A i \in 1..(Len(s) - at) : after[i] = s[at + i]
  BY <1>0
<1>c. r = before \o after
  BY DEF RemoveAt
<1> HIDE DEF r, before, after
<1>1. r \in Seq(S) /\ Len(r) = Len(s) - 1
  BY <1>0, <1>a, <1>b, <1>c
<1>2. ASSUME NEW i \in 1..Len(r)
      PROVE  Back(i) \in 1..Len(s) /\ Back(i) # at /\ r[i] = s[Back(i)]
  <2>1. CASE i < at
    BY <1>0, <1>1, <1>a, <1>b, <1>c, <2>1, SMTT(60)
  <2>2. CASE ~(i < at)
    <3>1. /\ i - (at - 1) \in 1..(Len(s) - at) /\ at + (i - (at - 1)) = i + 1
          /\ Len(before) + (i - (at - 1)) = i
      BY SMTT(60), <1>0, <1>1, <1>a, <2>2
    <3>2. r[i] = after[i - (at - 1)]
      BY <1>a, <1>b, <1>c, <3>1, Joined, SMTT(60)
    <3>3. after[i - (at - 1)] = s[i + 1]
      BY <1>b, <3>1
    <3>4. Back(i) = i + 1
      BY <2>2
    <3>5. i + 1 \in 1..Len(s) /\ i + 1 # at
      BY <1>0, <1>1, <2>2
    <3>6. QED
      BY <3>2, <3>3, <3>4, <3>5
  <2>3. QED
    BY <2>1, <2>2
<1>3. \A i \in 1..Len(s) : i # at => Ahead(i) \in 1..Len(r) /\ Back(Ahead(i)) = i
  BY <1>0, <1>1
<1>4. \A i, j \in 1..Len(r) : Back(i) = Back(j) => i = j
  BY <1>0
<1> HIDE DEF r, Back, Ahead
<1>5. NoRepeats(r)
  BY <1>1, <1>2, <1>4 DEF NoRepeats
<1>6. Elements(r) \subseteq Elements(s) \ {c}
  BY <1>0, <1>2 DEF Elements, NoRepeats
<1>7. Elements(s) \ {c} \subseteq Elements(r)
  <2>1. ASSUME NEW i \in 1..Len(s), i # at PROVE s[i] \in Elements(r)
    BY <1>2, <1>3, <2>1 DEF Elements
  <2>2. QED
    BY <1>0, <2>1 DEF Elements
<1>8. QED
  BY <1>1, <1>5, <1>6, <1>7 DEF r, at

\* Distinct positions can be put in order.
LEMMA Sortable ==
  ASSUME NEW S, IsFiniteSet(S), NEW position \in [S -> Nat],
         \A c, d \in S : position[c] = position[d] => c = d
  PROVE  \E s \in SetToSeqs(S) :
           \A i, j \in 1..Len(s) : i < j => position[s[i]] <= position[s[j]]
<1> DEFINE n == Cardinality(S)
           below(c) == {d \in S : position[d] <= position[c]}
           rank == [c \in S |-> Cardinality(below(c))]
<1>1. n \in Nat
  BY FS_CardinalityType
<1>2. ASSUME NEW c \in S
      PROVE  /\ IsFiniteSet(below(c)) /\ below(c) \in SUBSET S
             /\ Cardinality(below(c)) \in 1..n
  <2>1. below(c) \in SUBSET S
    OBVIOUS
  <2>2. IsFiniteSet(below(c)) /\ Cardinality(below(c)) <= n
    BY <2>1, FS_Subset
  <2>3. below(c) # {}
    OBVIOUS
  <2>4. Cardinality(below(c)) # 0 /\ Cardinality(below(c)) \in Nat
    BY <2>2, <2>3, FS_EmptySet, FS_CardinalityType
  <2>5. QED
    BY <1>1, <2>1, <2>2, <2>4
<1>3. ASSUME NEW c \in S, NEW d \in S, position[c] < position[d]
      PROVE  Cardinality(below(c)) < Cardinality(below(d))
  <2>1. below(c) \in SUBSET below(d)
    BY <1>3
  <2>2. d \in below(d) /\ d \notin below(c)
    BY <1>3
  <2>3. below(c) # below(d)
    BY <2>2
  <2>4. IsFiniteSet(below(d))
    BY <1>2
  <2>5. Cardinality(below(c)) <= Cardinality(below(d))
    BY <2>1, <2>4, FS_Subset
  <2>6. Cardinality(below(c)) # Cardinality(below(d))
    BY <2>1, <2>3, <2>4, FS_Subset
  <2>7. Cardinality(below(c)) \in Nat /\ Cardinality(below(d)) \in Nat
    BY <1>2, FS_CardinalityType
  <2>8. QED
    BY <2>5, <2>6, <2>7
<1>4. rank \in [S -> 1..n] /\ \A c \in S : rank[c] = Cardinality(below(c))
  BY <1>2
<1> HIDE DEF below, rank
<1>5. ASSUME NEW c \in S, NEW d \in S, rank[c] = rank[d] PROVE c = d
  <2>1. ~(position[c] < position[d]) /\ ~(position[d] < position[c])
    BY <1>2, <1>3, <1>4, <1>5
  <2>2. position[c] = position[d]
    BY <2>1
  <2>3. QED
    BY <2>2
<1>6. rank \in Surjection(S, 1..n)
  <2>1. rank \in Injection(S, 1..n)
    BY <1>4, <1>5 DEF Injection, IsInjective
  <2>2. IsFiniteSet(1..n) /\ Cardinality(1..n) = n
    BY <1>1, FS_Interval
  <2>3. QED
    BY <2>1, <2>2, FS_Injection
<1> DEFINE s == [i \in 1..n |-> CHOOSE c \in S : rank[c] = i]
<1>7. \A i \in 1..n : s[i] \in S /\ rank[s[i]] = i
  BY <1>6 DEF Surjection
<1>8. s \in [1..n -> S] /\ Len(s) = n
  BY <1>1, <1>7
<1> HIDE DEF s
<1>9. s \in SetToSeqs(S)
  BY <1>7, <1>8 DEF SetToSeqs
<1>10. ASSUME NEW i \in 1..n, NEW j \in 1..n, i < j PROVE position[s[i]] <= position[s[j]]
  <2>1. s[i] \in S /\ s[j] \in S
    BY <1>7
  <2>2. ~(rank[s[j]] < rank[s[i]])
    BY <1>1, <1>7, <1>10
  <2>3. ~(position[s[j]] < position[s[i]])
    BY <1>3, <1>4, <2>1, <2>2
  <2>4. QED
    BY <2>1, <2>3
<1>11. QED
  BY <1>8, <1>9, <1>10


Aggregate == [standard : Target, server : Drone \cup {Inherit}, order : Seq(Component),
              target : [Component -> Target \cup {Inherit}],
              drone : [Component -> Drone \cup {Inherit}], active : [Component -> BOOLEAN]]
RowType == [position : Nat, target : Target \cup {Inherit}, drone : Drone \cup {Inherit},
            active : BOOLEAN]
EditState == [pc : {"loaded", "edited", "reading"}, base : Aggregate, copy : Aggregate,
              known : SUBSET Component, late : BOOLEAN,
              resolved : SUBSET (Drone \cup {Inherit})]

\* What a request may hold: nothing, or a whole aggregate of ids that are taken.
Whole(p) == NoRepeats(p.order) /\ Elements(p.order) \subseteq used
EditorTyped(u) ==
  \/ editor[u] = Away
  \/ editor[u] \in EditState /\ Whole(editor[u].copy) /\ editor[u].known \subseteq used

\* A copy in which every component promotes as it does in the table.
SameSlots(p) ==
  /\ p.standard = standard /\ p.server = server /\ Elements(p.order) \subseteq Present
  /\ \A c \in Component : /\ p.target[c] = row[c].target /\ p.drone[c] = row[c].drone
                          /\ p.active[c] = row[c].active
\* A request that no other has outrun edits the project as it is.  It checked the
\* slots with the default of that moment, or is of those that move no component.
UpToDate(u) ==
  editor[u].pc # "idle" /\ ~editor[u].late =>
    /\ editor[u].base = Project
    /\ editor[u].pc = "reading" => editor[u].known = Present
    /\ editor[u].pc # "loaded" => IF editor[u].resolved = {} THEN SameSlots(editor[u].copy)
                                 ELSE \A d \in editor[u].resolved :
                                        ~SlotConflict(editor[u].copy, d)

ProjectTyped ==
  /\ standard \in Target /\ row \in [Component -> RowType]
  /\ server \in Drone \cup {Inherit} /\ preferred \in Drone \cup {Inherit}
  /\ \A c \in Component : row[c].position <= Cardinality(Component)
  /\ Present \subseteq used /\ used \subseteq Component
  /\ DOMAIN editor = Editor /\ \A u \in Editor : EditorTyped(u)
  /\ overlapped \in BOOLEAN /\ edits \in 0..MaxEdits
Distinct == \A c, d \in Present : c # d => row[c].position # row[d].position
Gapless == ~overlapped => {row[c].position : c \in Present} = 1..Cardinality(Present)
AllUpToDate == \A u \in Editor : UpToDate(u)
RegistryInv == HistoryKept /\ Distinct /\ ProjectTyped /\ Gapless /\ AllUpToDate

\* The project as it is loaded holds every component once.
LEMMA Loaded ==
  ASSUME row \in [Component -> RowType], standard \in Target,
         server \in Drone \cup {Inherit}, Distinct
  PROVE  /\ Project \in Aggregate /\ NoRepeats(Project.order)
         /\ Elements(Project.order) = Present /\ Len(Project.order) = Cardinality(Present)
         /\ SameSlots(Project)
<1>1. IsFiniteSet(Present) /\ Present \in SUBSET Component
  BY RegistryAssumption, FS_Subset DEF Present
<1>2. \E s \in SetToSeqs(Present) :
        \A i, j \in 1..Len(s) : i < j => row[s[i]].position <= row[s[j]].position
  <2> DEFINE position == [c \in Present |-> row[c].position]
  <2>1. position \in [Present -> Nat] /\ \A c, d \in Present : position[c] = position[d] => c = d
    BY <1>1 DEF RowType, Distinct
  <2> HIDE DEF position
  <2>2. PICK s \in SetToSeqs(Present) :
          \A i, j \in 1..Len(s) : i < j => position[s[i]] <= position[s[j]]
    BY <1>1, <2>1, Sortable
  <2>3. s \in Seq(Present)
    BY <1>1, SequenceOfSet
  <2>4. \A i \in 1..Len(s) : s[i] \in Present
    BY <2>3
  <2>5. \A i \in 1..Len(s) : position[s[i]] = row[s[i]].position
    BY <2>4 DEF position
  <2>6. QED
    BY <2>2, <2>5
<1>3. ByPosition \in SetToSeqs(Present)
  BY <1>2 DEF ByPosition
<1>4. /\ ByPosition \in Seq(Present) /\ NoRepeats(ByPosition)
      /\ Elements(ByPosition) = Present /\ Len(ByPosition) = Cardinality(Present)
  BY <1>1, <1>3, SequenceOfSet
<1>5. ByPosition \in Seq(Component)
  BY <1>1, <1>4
<1>6. Project.order = ByPosition /\ Project.standard = standard /\ Project.server = server
  BY DEF Project
<1>7. \A c \in Component : /\ Project.target[c] = row[c].target
                           /\ Project.drone[c] = row[c].drone
                           /\ Project.active[c] = row[c].active
  BY DEF Project
<1>8. Project \in Aggregate
  BY <1>5 DEF Project, Aggregate, RowType
<1>9. QED
  BY <1>4, <1>6, <1>7, <1>8 DEF SameSlots

LoadedWhole == Elements(Project.order) = Present /\ SameSlots(Project)
Loadable == /\ row \in [Component -> RowType] /\ standard \in Target
            /\ server \in Drone \cup {Inherit} /\ Distinct

LEMMA LoadedNow == Loadable => LoadedWhole
BY Loaded DEF Loadable, LoadedWhole

LEMMA LoadedNext == Loadable' => LoadedWhole'
BY LoadedNow, PTL

\* What the edits make of the aggregate is whole, and says what it says.
LEMMA RemovedIs ==
  ASSUME NEW p \in Aggregate, NoRepeats(p.order), NEW c \in Elements(p.order)
  PROVE  /\ Removed(p, c) \in Aggregate /\ NoRepeats(Removed(p, c).order)
         /\ Elements(Removed(p, c).order) = Elements(p.order) \ {c}
         /\ Removed(p, c).standard = p.standard /\ Removed(p, c).server = p.server
         /\ Removed(p, c).target = p.target /\ Removed(p, c).drone = p.drone
         /\ Removed(p, c).active = p.active
<1> DEFINE order == RemoveAt(p.order, PositionIn(p.order, c))
<1>1. p.order \in Seq(Component)
  BY DEF Aggregate
<1>2. /\ order \in Seq(Component) /\ NoRepeats(order)
      /\ Elements(order) = Elements(p.order) \ {c}
  BY <1>1, Removing
<1>3. Removed(p, c) = [p EXCEPT !.order = order]
  BY DEF Removed
<1> HIDE DEF order
<1>4. Removed(p, c) \in Aggregate /\ Removed(p, c).order = order
  BY <1>2, <1>3 DEF Aggregate
<1>5. /\ Removed(p, c).standard = p.standard /\ Removed(p, c).server = p.server
      /\ Removed(p, c).target = p.target /\ Removed(p, c).drone = p.drone
      /\ Removed(p, c).active = p.active
  BY <1>3 DEF Aggregate
<1>6. QED
  BY <1>2, <1>4, <1>5

\* The place of a component in a sequence that has it.
LEMMA PositionInside ==
  ASSUME NEW order, NEW c \in Elements(order)
  PROVE  /\ PositionIn(order, c) \in 1..Len(order)
         /\ order[PositionIn(order, c)] = c
BY DEF Elements, PositionIn

LEMMA ProjectStays ==
  ASSUME UNCHANGED <<standard, server, row>>
  PROVE  /\ Present' = Present /\ Project' = Project
         /\ \A p : SameSlots(p)' = SameSlots(p)
BY DEF Present, Project, ByPosition, SameSlots

\* A request that begins with a copy that is whole, and has the slots to check or
\* leaves them as they are.
LEMMA RequestInv ==
  ASSUME RegistryInv, NEW u \in Editor, NEW pc \in {"loaded", "edited"}, NEW copy,
         Request(u, pc, copy),
         used \subseteq used', used' \subseteq Component,
         copy \in Aggregate, NoRepeats(copy.order), Elements(copy.order) \subseteq used',
         pc = "edited" => SameSlots(copy)
  PROVE  RegistryInv'
<1>1. /\ UNCHANGED <<standard, server, preferred, row, deployed, overlapped>>
      /\ edits' = edits + 1 /\ edits < MaxEdits
      /\ editor' = [editor EXCEPT ![u] =
           [Away EXCEPT !.pc = pc, !.base = Project, !.copy = copy]]
  BY DEF Request
<1>2. Present' = Present /\ Project' = Project
  BY <1>1, ProjectStays
<1>3. HistoryKept' /\ Distinct' /\ Gapless'
  BY <1>1, <1>2 DEF RegistryInv, HistoryKept, Distinct, Gapless
<1>4. /\ editor'[u] = [pc |-> pc, base |-> Project, copy |-> copy, known |-> {},
                       late |-> FALSE, resolved |-> {}]
      /\ DOMAIN editor' = Editor /\ \A v \in Editor \ {u} : editor'[v] = editor[v]
  BY <1>1 DEF RegistryInv, ProjectTyped, Away
<1>5. Project \in Aggregate
  BY Loaded DEF RegistryInv, ProjectTyped
<1>6. EditorTyped(u)'
  <2>1. editor'[u] \in EditState
    BY <1>4, <1>5 DEF EditState
  <2>2. QED
    BY <1>4, <2>1 DEF EditorTyped, Whole
<1>7. ASSUME NEW v \in Editor \ {u} PROVE EditorTyped(v)'
  BY <1>4 DEF RegistryInv, ProjectTyped, EditorTyped, Whole
<1>8. ProjectTyped'
  <2>1. edits' \in 0..MaxEdits
    BY <1>1, RegistryAssumption DEF RegistryInv, ProjectTyped
  <2>2. QED
    BY <1>1, <1>2, <1>4, <1>6, <1>7, <2>1 DEF RegistryInv, ProjectTyped
<1>9. AllUpToDate'
  <2>1. UpToDate(u)'
    <3>1. pc # "loaded" => SameSlots(copy)'
      BY <1>1, ProjectStays
    <3>2. QED
      BY <1>2, <1>4, <3>1 DEF UpToDate
  <2>2. ASSUME NEW v \in Editor \ {u} PROVE UpToDate(v)'
    BY <1>1, <1>2, <1>4, ProjectStays DEF UpToDate, RegistryInv, AllUpToDate
  <2>3. QED
    BY <2>1, <2>2 DEF AllUpToDate
<1>10. QED
  BY <1>3, <1>8, <1>9 DEF RegistryInv

LEMMA EditInv ==
  ASSUME RegistryInv, NEW u \in Editor,
         \/ \E c \in Component, target \in Target \cup {Inherit}, drone \in Drone \cup {Inherit} :
              \/ \E at \in 1..Cardinality(Component) : AddComponent(u, c, at, target, drone)
              \/ \E active \in BOOLEAN : UpdateComponent(u, c, target, drone, active)
         \/ \E target \in Target, drone \in Drone \cup {Inherit} : UpdateProject(u, target, drone)
         \/ ArchiveProject(u)
         \/ \E c \in Component : DeleteComponent(u, c)
         \/ \E order \in SetToSeqs(Present) : ReorderComponents(u, order)
  PROVE  RegistryInv'
<1>1. /\ Project \in Aggregate /\ NoRepeats(Project.order)
      /\ Elements(Project.order) = Present /\ Len(Project.order) = Cardinality(Present)
      /\ SameSlots(Project)
  BY Loaded DEF RegistryInv, ProjectTyped
<1>2. Present \subseteq used /\ used \subseteq Component
  BY DEF RegistryInv, ProjectTyped
<1> HIDE DEF Project
<1>3. ASSUME NEW c \in Component, NEW target \in Target \cup {Inherit},
             NEW drone \in Drone \cup {Inherit},
             NEW at \in 1..Cardinality(Component), AddComponent(u, c, at, target, drone)
      PROVE  RegistryInv'
  <2>1. c \notin used /\ at \in 1..(Len(Project.order) + 1) /\ used' = used \cup {c}
    <3>1. Cardinality(Component) \in Nat /\ Len(Project.order) \in Nat
      BY <1>1, RegistryAssumption, FS_CardinalityType DEF Aggregate
    <3>2. QED
      BY <1>3, <3>1 DEF AddComponent
  <2>2. /\ Added(Project, c, at, target, drone) \in Aggregate
        /\ NoRepeats(Added(Project, c, at, target, drone).order)
        /\ Elements(Added(Project, c, at, target, drone).order) = Present \cup {c}
    <3> DEFINE order == InsertAt(Project.order, at, c)
    <3>1. Project.order \in Seq(Component) /\ c \notin Elements(Project.order)
      BY <1>1, <1>2, <2>1 DEF Aggregate
    <3>2. /\ order \in Seq(Component) /\ NoRepeats(order)
          /\ Elements(order) = Elements(Project.order) \cup {c}
      BY <1>1, <2>1, <3>1, Inserting
    <3>3. Added(Project, c, at, target, drone) =
            [Project EXCEPT !.order = order, !.target[c] = target, !.drone[c] = drone,
                            !.active[c] = TRUE]
      BY DEF Added
    <3> HIDE DEF order
    <3>4. /\ Added(Project, c, at, target, drone) \in Aggregate
          /\ Added(Project, c, at, target, drone).order = order
      <4> DEFINE targets == [Project.target EXCEPT ![c] = target]
                 drones == [Project.drone EXCEPT ![c] = drone]
                 actives == [Project.active EXCEPT ![c] = TRUE]
      <4>1. /\ targets \in [Component -> Target \cup {Inherit}]
            /\ drones \in [Component -> Drone \cup {Inherit}]
            /\ actives \in [Component -> BOOLEAN]
        BY <1>1 DEF Aggregate
      <4>2. Added(Project, c, at, target, drone) =
              [Project EXCEPT !.order = order, !.target = targets, !.drone = drones,
                              !.active = actives]
        BY <3>3
      <4> HIDE DEF targets, drones, actives
      <4>3. QED
        BY <1>1, <3>2, <4>1, <4>2 DEF Aggregate
    <3>5. QED
      BY <1>1, <3>2, <3>4
  <2>3. QED
    BY <1>2, <1>3, <2>1, <2>2, RequestInv DEF AddComponent
<1>4. ASSUME NEW c \in Component, NEW target \in Target \cup {Inherit},
             NEW drone \in Drone \cup {Inherit},
             NEW active \in BOOLEAN, UpdateComponent(u, c, target, drone, active)
      PROVE  RegistryInv'
  <2>1. Updated(Project, c, target, drone, active) \in Aggregate
        /\ Updated(Project, c, target, drone, active).order = Project.order
    BY <1>1 DEF Updated, Named, Aggregate
  <2>2. QED
    BY <1>1, <1>2, <1>4, <2>1, RequestInv DEF UpdateComponent
<1>5. ASSUME NEW target \in Target, NEW drone \in Drone \cup {Inherit},
             UpdateProject(u, target, drone)
      PROVE  RegistryInv'
  <2>1. Redirected(Project, target, drone) \in Aggregate
        /\ Redirected(Project, target, drone).order = Project.order
    BY <1>1 DEF Redirected, Named, Aggregate
  <2>2. QED
    BY <1>1, <1>2, <1>5, <2>1, RequestInv DEF UpdateProject
<1>6. CASE ArchiveProject(u)
  BY <1>1, <1>2, <1>6, RequestInv DEF ArchiveProject
<1>7. ASSUME NEW c \in Component, DeleteComponent(u, c) PROVE RegistryInv'
  <2>1. c \in Elements(Project.order)
    BY <1>1, <1>7 DEF DeleteComponent
  <2>2. /\ Removed(Project, c) \in Aggregate /\ NoRepeats(Removed(Project, c).order)
        /\ Elements(Removed(Project, c).order) = Elements(Project.order) \ {c}
        /\ Removed(Project, c).standard = Project.standard
        /\ Removed(Project, c).server = Project.server
        /\ Removed(Project, c).target = Project.target
        /\ Removed(Project, c).drone = Project.drone
        /\ Removed(Project, c).active = Project.active
    BY <1>1, <2>1, RemovedIs
  <2>3. SameSlots(Removed(Project, c))
    BY <1>1, <2>2 DEF SameSlots
  <2>4. QED
    BY <1>1, <1>2, <1>7, <2>2, <2>3, RequestInv DEF DeleteComponent
<1>8. ASSUME NEW order \in SetToSeqs(Present), ReorderComponents(u, order) PROVE RegistryInv'
  <2> DEFINE q == [Project EXCEPT !.order = order]
  <2>1. order \in Seq(Component) /\ NoRepeats(order) /\ Elements(order) = Present
    <3>1. IsFiniteSet(Present) /\ Present \subseteq Component
      BY RegistryAssumption, FS_Subset DEF Present
    <3>2. order \in Seq(Present) /\ NoRepeats(order) /\ Elements(order) = Present
      BY <3>1, SequenceOfSet
    <3>3. QED
      BY <3>1, <3>2
  <2>2. q \in Aggregate /\ q.order = order
    BY <1>1, <2>1 DEF Aggregate
  <2>3. /\ q.standard = Project.standard /\ q.server = Project.server
        /\ q.target = Project.target /\ q.drone = Project.drone /\ q.active = Project.active
    BY <1>1 DEF Aggregate
  <2>4. Request(u, "edited", q) /\ used' = used
    BY <1>8 DEF ReorderComponents
  <2> HIDE DEF q
  <2>5. SameSlots(q)
    BY <1>1, <2>1, <2>2, <2>3 DEF SameSlots
  <2>6. QED
    BY <1>2, <2>1, <2>2, <2>4, <2>5, RequestInv
<1>9. QED
  BY <1>3, <1>4, <1>5, <1>6, <1>7, <1>8

\* What a save leaves of a row.
LEMMA SavedRow ==
  ASSUME NEW u \in Editor, Save(u), NEW c \in Component
  PROVE  \/ /\ c \in Wanted(u)
            /\ row'[c].position = PositionIn(editor[u].copy.order, c)
            /\ row'[c].position \in 1..Len(editor[u].copy.order)
            /\ editor[u].copy.order[row'[c].position] = c
         \/ /\ c \notin Wanted(u) /\ c \in editor[u].known
            /\ row'[c].position = 0
         \/ /\ c \notin Wanted(u) /\ c \notin editor[u].known
            /\ row'[c] = row[c]
<1>1. row' = Rows(u)
  BY DEF Save
<1>2. CASE c \in Wanted(u)
  <2>1. row'[c] = WrittenRow(u, c)
    BY <1>1, <1>2 DEF Rows
  <2>2. row'[c].position = PositionIn(editor[u].copy.order, c)
    BY <2>1 DEF WrittenRow
  <2>3. QED
    BY <1>2, <2>2, PositionInside DEF Wanted
<1>3. CASE c \notin Wanted(u) /\ c \in editor[u].known
  BY <1>1, <1>3 DEF Rows, NoRow
<1>4. CASE c \notin Wanted(u) /\ c \notin editor[u].known
  BY <1>1, <1>4 DEF Rows
<1>5. QED
  BY <1>2, <1>3, <1>4

LEMMA SaveKeeps ==
  ASSUME HistoryKept, Distinct, NEW u \in Editor, Save(u)
  PROVE  HistoryKept' /\ Distinct'
<1> DEFINE order == editor[u].copy.order
           untouched == {c \in Component : c \notin Wanted(u) /\ c \notin editor[u].known}
<1>1. ASSUME NEW c \in deployed PROVE c \in Present'
  <2>1. c \in Component /\ row[c].position > 0
    BY DEF HistoryKept, Present
  <2>2. ~(c \notin Wanted(u) /\ c \in editor[u].known)
    BY DEF Save, Referred
  <2>3. row'[c].position > 0
    BY <2>1, <2>2, SavedRow
  <2>4. QED
    BY <2>1, <2>3 DEF Present
<1>2. ASSUME NEW c \in Present'
      PROVE  \/ /\ c \in Wanted(u) /\ row'[c].position \in 1..Len(order)
                /\ order[row'[c].position] = c
             \/ c \in Present /\ c \in untouched /\ row'[c] = row[c]
  <2>1. c \in Component /\ row'[c].position > 0
    BY DEF Present
  <2>2. QED
    BY <2>1, SavedRow DEF Present
<1>3. ASSUME NEW c \in Present', NEW d \in Present', row'[c].position = row'[d].position
      PROVE  c = d
  <2>1. CASE c \in Wanted(u) /\ d \in Wanted(u)
    BY <1>2, <1>3, <2>1
  <2>2. ASSUME NEW x \in Present', NEW y \in Present', x \in untouched, y \in Wanted(u),
               row'[x].position = row'[y].position
        PROVE  FALSE
    <3>1. x \in Present /\ row'[x] = row[x] /\ row'[y].position \in 1..Len(order)
      BY <1>2, <2>2
    <3>2. ~(row[x].position <= Len(order))
      BY <2>2, <3>1 DEF Save, Collides
    <3>3. QED
      BY <2>2, <3>1, <3>2
  <2>3. CASE c \in untouched /\ d \in untouched
    <3>1. c \in Present /\ d \in Present /\ row[c].position = row[d].position
      BY <1>2, <1>3, <2>3
    <3>2. QED
      BY <3>1 DEF Distinct
  <2>4. (c \in Wanted(u) \/ c \in untouched) /\ (d \in Wanted(u) \/ d \in untouched)
    BY <1>2
  <2>5. QED
    BY <1>3, <2>1, <2>2, <2>3, <2>4
<1>4. deployed' = deployed
  BY DEF Save
<1>5. QED
  BY <1>1, <1>3, <1>4 DEF HistoryKept, Distinct

\* The row a save writes for a component it keeps.
LEMMA WrittenAs ==
  ASSUME NEW u \in Editor, Save(u), NEW c \in Wanted(u), c \in Component
  PROVE  row'[c] = WrittenRow(u, c)
BY DEF Save, Rows

LEMMA SaveTyped ==
  ASSUME RegistryInv, NEW u \in Editor, Save(u)
  PROVE  ProjectTyped'
<1> DEFINE order == editor[u].copy.order
<1>1. /\ UNCHANGED <<preferred, used, deployed, edits>> /\ row' = Rows(u)
      /\ overlapped' = (overlapped \/ editor[u].late)
  BY DEF Save
<1>2. /\ editor[u].copy \in Aggregate /\ NoRepeats(order) /\ editor[u].late \in BOOLEAN
      /\ Wanted(u) \subseteq used /\ editor[u].known \subseteq used
  BY DEF Save, Away, RegistryInv, ProjectTyped, EditorTyped, EditState, Whole, Wanted
<1>3. used \subseteq Component /\ row \in [Component -> RowType]
  BY DEF RegistryInv, ProjectTyped
<1>4. order \in Seq(Component) /\ Len(order) \in Nat
  BY <1>2 DEF Aggregate
<1>5. Len(order) <= Cardinality(Component) /\ Cardinality(Component) \in Nat
  <2>1. Elements(order) \in SUBSET Component
    BY <1>2, <1>3 DEF Wanted
  <2>2. Cardinality(Elements(order)) = Len(order)
    BY <1>2, <1>4, CountOfElements
  <2>3. QED
    BY <2>1, <2>2, RegistryAssumption, FS_Subset, FS_CardinalityType
<1>6. ASSUME NEW c \in Component
      PROVE  /\ row'[c] \in RowType /\ row'[c].position <= Cardinality(Component)
             /\ row'[c].position > 0 => c \in used
  <2>1. CASE c \in Wanted(u)
    <3>1. row'[c] = WrittenRow(u, c) /\ row'[c].position \in 1..Len(order)
      BY <2>1, WrittenAs, SavedRow
    <3>2. /\ WrittenRow(u, c).target \in Target \cup {Inherit}
          /\ WrittenRow(u, c).drone \in Drone \cup {Inherit}
          /\ WrittenRow(u, c).active \in BOOLEAN
      BY <1>2, <1>3 DEF WrittenRow, Aggregate, RowType
    <3>3. row'[c] \in RowType
      <4>1. row'[c] = [position |-> row'[c].position, target |-> row'[c].target,
                       drone |-> row'[c].drone, active |-> row'[c].active]
        BY <3>1 DEF WrittenRow
      <4>2. QED
        BY <1>4, <3>1, <3>2, <4>1 DEF RowType
    <3>4. QED
      BY <1>2, <1>4, <1>5, <2>1, <3>1, <3>3
  <2>2. CASE c \notin Wanted(u) /\ c \in editor[u].known
    <3>1. row'[c] = NoRow
      BY <1>1, <2>2 DEF Rows
    <3>2. QED
      BY <1>5, <3>1 DEF NoRow, RowType
  <2>3. CASE c \notin Wanted(u) /\ c \notin editor[u].known
    <3>1. row'[c] = row[c]
      BY <1>1, <2>3 DEF Rows
    <3>2. QED
      BY <1>3, <3>1 DEF RegistryInv, ProjectTyped, Present
  <2>4. QED
    BY <2>1, <2>2, <2>3
<1>7. row' \in [Component -> RowType]
  <2>1. row' = [c \in Component |-> row'[c]]
    BY <1>1 DEF Rows
  <2>2. QED
    BY <1>6, <2>1
<1>8. Present' \subseteq used
  BY <1>6 DEF Present
<1>9. standard' \in Target /\ server' \in Drone \cup {Inherit}
  BY <1>2 DEF Save, RegistryInv, ProjectTyped, Aggregate
<1>10. DOMAIN editor' = Editor /\ \A v \in Editor : EditorTyped(v)'
  <2>1. editor' = [v \in Editor |-> IF v = u \/ editor[v].pc = "idle" THEN Away
                                    ELSE [editor[v] EXCEPT !.late = TRUE]]
    BY DEF Save
  <2>2. ASSUME NEW v \in Editor PROVE EditorTyped(v)'
    <3>1. CASE v = u \/ editor[v].pc = "idle"
      BY <2>1, <3>1 DEF EditorTyped
    <3>2. CASE ~(v = u \/ editor[v].pc = "idle")
      <4>1. editor'[v] = [editor[v] EXCEPT !.late = TRUE] /\ editor[v] # Away
        BY <2>1, <3>2 DEF Away
      <4>2. editor[v] \in EditState /\ Whole(editor[v].copy) /\ editor[v].known \subseteq used
        BY <4>1 DEF RegistryInv, ProjectTyped, EditorTyped
      <4>3. /\ editor'[v] \in EditState
            /\ editor'[v].copy = editor[v].copy /\ editor'[v].known = editor[v].known
        BY <4>1, <4>2 DEF EditState
      <4>4. QED
        BY <1>1, <4>2, <4>3 DEF EditorTyped, Whole
    <3>3. QED
      BY <3>1, <3>2
  <2>3. QED
    BY <2>1, <2>2
<1>11. QED
  BY <1>1, <1>2, <1>3, <1>6, <1>7, <1>8, <1>9, <1>10 DEF RegistryInv, ProjectTyped

\* What was not outrun writes the project as its copy says.
LEMMA SavedAsCopied ==
  ASSUME RegistryInv, NEW u \in Editor, Save(u), ~editor[u].late
  PROVE  /\ Present' = Wanted(u)
         /\ {row'[c].position : c \in Present'} = 1..Cardinality(Present')
         /\ standard' = editor[u].copy.standard /\ server' = editor[u].copy.server
         /\ \A c \in Wanted(u) :
              /\ row'[c].target = editor[u].copy.target[c]
              /\ row'[c].drone = editor[u].copy.drone[c]
              /\ row'[c].active = editor[u].copy.active[c]
<1> DEFINE copy == editor[u].copy
<1>1. /\ row' = Rows(u) /\ editor[u].pc = "reading"
  BY DEF Save
<1>2. /\ editor[u] \in EditState /\ NoRepeats(copy.order) /\ Wanted(u) \subseteq Component
      /\ copy.order \in Seq(Component) /\ copy \in Aggregate
  BY <1>1 DEF Away, RegistryInv, ProjectTyped, EditorTyped, EditState, Whole, Wanted, Aggregate
<1>4. editor[u].base = Project /\ editor[u].known = Present
  BY <1>1 DEF RegistryInv, AllUpToDate, UpToDate
<1>5. SameSlots(Project)
  BY Loaded DEF RegistryInv, ProjectTyped
<1>6. standard' = copy.standard /\ server' = copy.server
  BY <1>4, <1>5 DEF Save, SameSlots
<1>7. ASSUME NEW c \in Wanted(u)
      PROVE  /\ c \in Component /\ row'[c].position = PositionIn(copy.order, c)
             /\ row'[c].position \in 1..Len(copy.order)
             /\ copy.order[row'[c].position] = c
             /\ row'[c].target = copy.target[c] /\ row'[c].drone = copy.drone[c]
             /\ row'[c].active = copy.active[c]
  <2>1. c \in Component
    BY <1>2
  <2>2. row'[c] = WrittenRow(u, c)
    BY <2>1, WrittenAs
  <2>3. /\ row'[c].target = copy.target[c] /\ row'[c].drone = copy.drone[c]
        /\ row'[c].active = copy.active[c]
    BY <1>4, <1>5, <2>1, <2>2 DEF WrittenRow, SameSlots
  <2>4. QED
    BY <2>1, <2>3, SavedRow
<1>8. Present' = Wanted(u)
  <2>1. ASSUME NEW c \in Component, c \notin Wanted(u) PROVE row'[c].position = 0
    <3>1. CASE c \in Present
      BY <1>1, <1>4, <2>1, <3>1 DEF Rows, NoRow
    <3>2. CASE c \notin Present
      <4>1. row'[c] = row[c]
        BY <1>1, <1>4, <2>1, <3>2 DEF Rows
      <4>2. QED
        BY <3>2, <4>1 DEF Present, RegistryInv, ProjectTyped, RowType
    <3>3. QED
      BY <3>1, <3>2
  <2>2. QED
    BY <1>7, <2>1 DEF Present
<1>9. {row'[c].position : c \in Present'} = 1..Cardinality(Present')
  <2>1. Cardinality(Wanted(u)) = Len(copy.order)
    BY <1>2, CountOfElements DEF Wanted
  <2>2. ASSUME NEW i \in 1..Len(copy.order) PROVE \E c \in Wanted(u) : row'[c].position = i
    <3>1. copy.order[i] \in Wanted(u)
      BY DEF Wanted, Elements
    <3>2. QED
      BY SMTT(60), <1>2, <1>7, <3>1 DEF NoRepeats
  <2>3. QED
    BY <1>7, <1>8, <2>1, <2>2
<1>10. QED
  BY <1>6, <1>7, <1>8, <1>9

LEMMA SaveOrdered ==
  ASSUME RegistryInv, NEW u \in Editor, Save(u)
  PROVE  Gapless' /\ AllUpToDate'
<1>1. /\ overlapped' = (overlapped \/ editor[u].late) /\ editor[u].pc = "reading"
      /\ editor' = [v \in Editor |-> IF v = u \/ editor[v].pc = "idle" THEN Away
                                     ELSE [editor[v] EXCEPT !.late = TRUE]]
  BY DEF Save
<1>2. ASSUME ~overlapped' PROVE ~editor[u].late
  BY <1>1, <1>2 DEF Away, RegistryInv, ProjectTyped, EditorTyped, EditState
<1>3. Gapless'
  BY <1>2, SavedAsCopied DEF Gapless
<1>4. ASSUME NEW v \in Editor PROVE UpToDate(v)'
  <2>1. CASE v = u \/ editor[v].pc = "idle"
    BY <1>1, <2>1 DEF UpToDate, Away
  <2>2. CASE ~(v = u \/ editor[v].pc = "idle")
    <3>1. editor[v] \in EditState
      BY <2>2 DEF RegistryInv, ProjectTyped, EditorTyped, Away
    <3>2. editor'[v].late
      BY <1>1, <2>2, <3>1 DEF EditState
    <3>3. QED
      BY <3>2 DEF UpToDate
  <2>3. QED
    BY <2>1, <2>2
<1>5. QED
  BY <1>3, <1>4 DEF AllUpToDate

LEMMA RegistryInitInv == RegistryInit => RegistryInv
<1> SUFFICES ASSUME RegistryInit PROVE RegistryInv
  OBVIOUS
<1>1. /\ standard \in Target
      /\ server \in Drone \cup {Inherit} /\ preferred \in Drone \cup {Inherit}
      /\ row \in [Component -> [position : 0..Len(First), target : Target \cup {Inherit},
                                drone : Drone \cup {Inherit}, active : BOOLEAN]]
      /\ used = Elements(First) /\ deployed = {}
      /\ editor = [u \in Editor |-> Away] /\ overlapped = FALSE /\ edits = 0
      /\ \A c \in Component : row[c].position = PositionIn(First, c)
  BY DEF RegistryInit
<1>2. First \in Seq(Component) /\ NoRepeats(First) /\ Len(First) \in Nat
  BY RegistryAssumption DEF NoRepeats
<1>3. Elements(First) \subseteq Component /\ Cardinality(Elements(First)) = Len(First)
  <2>1. Elements(First) \subseteq Component
    BY <1>2 DEF Elements
  <2>2. QED
    BY <1>2, <2>1, CountOfElements
<1>4. Len(First) <= Cardinality(Component) /\ Cardinality(Component) \in Nat
  BY <1>3, RegistryAssumption, FS_Subset, FS_CardinalityType
<1>5. Present = Elements(First)
  <2>1. ASSUME NEW c \in Elements(First) PROVE c \in Present
    BY <1>1, <1>3, PositionInside DEF Present
  <2>2. ASSUME NEW c \in Component, c \notin Elements(First) PROVE c \notin Present
    BY <1>1, <2>2 DEF Present, PositionIn
  <2>3. QED
    BY <2>1, <2>2 DEF Present
<1>6. ASSUME NEW c \in Present
      PROVE  /\ row[c].position = PositionIn(First, c) /\ row[c].position \in 1..Len(First)
             /\ First[row[c].position] = c
  BY <1>1, <1>5, PositionInside DEF Present
<1>7. Distinct
  BY <1>6 DEF Distinct
<1>8. HistoryKept
  BY <1>1 DEF HistoryKept
<1>9. ProjectTyped
  <2>1. row \in [Component -> RowType] /\ \A c \in Component : row[c].position <= Len(First)
    BY <1>1, <1>2 DEF RowType
  <2>2. \A c \in Component : row[c].position \in Nat
    BY <2>1 DEF RowType
  <2>3. \A u \in Editor : EditorTyped(u)
    BY <1>1 DEF EditorTyped
  <2>4. 0 \in 0..MaxEdits
    BY RegistryAssumption
  <2>5. \A c \in Component : row[c].position <= Cardinality(Component)
    BY <1>2, <1>4, <2>1, <2>2
  <2>6. QED
    BY <1>1, <1>3, <1>5, <2>1, <2>3, <2>4, <2>5 DEF ProjectTyped
<1>10. Gapless
  <2>1. ASSUME NEW i \in 1..Len(First) PROVE \E c \in Present : row[c].position = i
    <3>1. First[i] \in Present
      BY <1>5 DEF Elements
    <3>2. QED
      BY <1>2, <1>6, <3>1 DEF NoRepeats
  <2>2. QED
    BY <1>3, <1>5, <1>6, <2>1 DEF Gapless
<1>11. AllUpToDate
  BY <1>1 DEF AllUpToDate, UpToDate, Away
<1>12. QED
  BY <1>7, <1>8, <1>9, <1>10, <1>11 DEF RegistryInv

\* The slots are checked with the default of the moment.
LEMMA CheckSlotsInv ==
  ASSUME RegistryInv, NEW u \in Editor, CheckSlots(u)
  PROVE  RegistryInv'
<1>1. /\ UNCHANGED <<standard, server, preferred, row, used, deployed, overlapped, edits>>
      /\ editor[u].pc = "loaded" /\ ~SlotConflict(editor[u].copy, preferred)
      /\ editor' = [editor EXCEPT ![u].pc = "edited", ![u].resolved = {preferred}]
  BY DEF CheckSlots
<1>2. Present' = Present /\ Project' = Project
  BY <1>1, ProjectStays
<1>3. preferred \in Drone \cup {Inherit} /\ DOMAIN editor = Editor
  BY DEF RegistryInv, ProjectTyped
<1>4. editor[u] \in EditState /\ Whole(editor[u].copy) /\ editor[u].known \subseteq used
  BY <1>1 DEF RegistryInv, ProjectTyped, EditorTyped, Away
<1>5. editor'[u] = [editor[u] EXCEPT !.pc = "edited", !.resolved = {preferred}]
  BY <1>1, <1>3
<1>6. /\ editor'[u] \in EditState /\ editor'[u].copy = editor[u].copy
      /\ editor'[u].known = editor[u].known /\ editor'[u].late = editor[u].late
      /\ editor'[u].base = editor[u].base /\ editor'[u].resolved = {preferred}
      /\ editor'[u].pc = "edited"
  <2> DEFINE resolved == {preferred}
  <2>1. resolved \in SUBSET (Drone \cup {Inherit})
    BY <1>3
  <2>2. editor'[u] = [editor[u] EXCEPT !.pc = "edited", !.resolved = resolved]
    BY <1>5
  <2> HIDE DEF resolved
  <2>3. /\ editor'[u] \in EditState /\ editor'[u].copy = editor[u].copy
        /\ editor'[u].known = editor[u].known /\ editor'[u].late = editor[u].late
        /\ editor'[u].base = editor[u].base /\ editor'[u].resolved = resolved
        /\ editor'[u].pc = "edited"
    BY <1>4, <2>1, <2>2 DEF EditState
  <2>4. QED
    BY <2>3 DEF resolved
<1>7. DOMAIN editor' = Editor /\ \A v \in Editor \ {u} : editor'[v] = editor[v]
  BY <1>1, <1>3
<1>8. ProjectTyped'
  <2>1. EditorTyped(u)'
    BY <1>1, <1>4, <1>6 DEF EditorTyped, Whole
  <2>2. ASSUME NEW v \in Editor \ {u} PROVE EditorTyped(v)'
    BY <1>1, <1>7 DEF RegistryInv, ProjectTyped, EditorTyped, Whole
  <2>3. QED
    BY <1>1, <1>2, <1>7, <2>1, <2>2 DEF RegistryInv, ProjectTyped
<1>9. AllUpToDate'
  <2>1. UpToDate(u)'
    BY <1>1, <1>2, <1>6 DEF UpToDate, RegistryInv, AllUpToDate
  <2>2. ASSUME NEW v \in Editor \ {u} PROVE UpToDate(v)'
    BY <1>1, <1>2, <1>7, ProjectStays DEF UpToDate, RegistryInv, AllUpToDate
  <2>3. QED
    BY <2>1, <2>2 DEF AllUpToDate
<1>10. QED
  BY <1>1, <1>2, <1>8, <1>9 DEF RegistryInv, HistoryKept, Distinct, Gapless

LEMMA ReadRowsInv ==
  ASSUME RegistryInv, NEW u \in Editor, NEW fresh \in BOOLEAN, ReadRows(u, fresh)
  PROVE  RegistryInv'
<1>1. /\ UNCHANGED <<standard, server, preferred, row, used, deployed, overlapped, edits>>
      /\ editor[u].pc = "edited"
      /\ editor' = [editor EXCEPT ![u].pc = "reading", ![u].known = Present,
                                  ![u].base = IF fresh THEN Project ELSE @]
  BY DEF ReadRows
<1>2. Present' = Present /\ Project' = Project
  BY <1>1, ProjectStays
<1>3. /\ Project \in Aggregate /\ Present \subseteq used /\ Present \subseteq Component
      /\ used \subseteq Component /\ DOMAIN editor = Editor
  BY Loaded DEF RegistryInv, ProjectTyped
<1>4. editor[u] \in EditState /\ Whole(editor[u].copy)
  BY <1>1 DEF RegistryInv, ProjectTyped, EditorTyped, Away
<1> HIDE DEF Project
<1>5. editor'[u] = [editor[u] EXCEPT !.pc = "reading", !.known = Present,
                                     !.base = IF fresh THEN Project ELSE @]
  BY <1>1, <1>3
<1>6. /\ editor'[u] \in EditState /\ editor'[u].copy = editor[u].copy
      /\ editor'[u].known = Present /\ editor'[u].late = editor[u].late
      /\ editor'[u].base \in {editor[u].base, Project} /\ editor'[u].pc = "reading"
      /\ editor'[u].resolved = editor[u].resolved
  BY <1>3, <1>4, <1>5 DEF EditState
<1>7. DOMAIN editor' = Editor /\ \A v \in Editor \ {u} : editor'[v] = editor[v]
  BY <1>1, <1>3
<1>8. ProjectTyped'
  <2>1. EditorTyped(u)'
    BY <1>1, <1>3, <1>4, <1>6 DEF EditorTyped, Whole
  <2>2. ASSUME NEW v \in Editor \ {u} PROVE EditorTyped(v)'
    BY <1>1, <1>7 DEF RegistryInv, ProjectTyped, EditorTyped, Whole
  <2>3. QED
    BY <1>1, <1>2, <1>7, <2>1, <2>2 DEF RegistryInv, ProjectTyped
<1>9. AllUpToDate'
  <2>1. UpToDate(u)'
    BY <1>1, <1>2, <1>6, ProjectStays DEF UpToDate, RegistryInv, AllUpToDate
  <2>2. ASSUME NEW v \in Editor \ {u} PROVE UpToDate(v)'
    BY <1>1, <1>2, <1>7, ProjectStays DEF UpToDate, RegistryInv, AllUpToDate
  <2>3. QED
    BY <2>1, <2>2 DEF AllUpToDate
<1>10. QED
  BY <1>1, <1>2, <1>8, <1>9 DEF RegistryInv, HistoryKept, Distinct, Gapless

LEMMA FailEditInv ==
  ASSUME RegistryInv, NEW u \in Editor, FailEdit(u)
  PROVE  RegistryInv'
<1>1. /\ UNCHANGED <<standard, server, preferred, row, used, deployed, overlapped, edits>>
      /\ editor' = [editor EXCEPT ![u] = Away]
  BY DEF FailEdit
<1>2. Present' = Present /\ Project' = Project
  BY <1>1, ProjectStays
<1>3. /\ DOMAIN editor' = Editor /\ editor'[u] = Away
      /\ \A v \in Editor \ {u} : editor'[v] = editor[v]
  BY <1>1 DEF RegistryInv, ProjectTyped
<1>4. ProjectTyped'
  BY <1>1, <1>2, <1>3 DEF RegistryInv, ProjectTyped, EditorTyped, Whole
<1>5. ASSUME NEW v \in Editor PROVE UpToDate(v)'
  <2>1. CASE v = u
    BY <1>3, <2>1 DEF UpToDate, Away
  <2>2. CASE v # u
    BY <1>1, <1>2, <1>3, <2>2, ProjectStays DEF UpToDate, RegistryInv, AllUpToDate
  <2>3. QED
    BY <2>1, <2>2
<1>6. QED
  BY <1>1, <1>2, <1>4, <1>5
     DEF RegistryInv, AllUpToDate, HistoryKept, Distinct, Gapless

LEMMA RegistryStill ==
  ASSUME RegistryInv, UNCHANGED <<standard, server, row, used, editor, overlapped>>,
         preferred' \in Drone \cup {Inherit}, edits' \in 0..MaxEdits,
         deployed' \subseteq Present
  PROVE  RegistryInv'
<1>1. Present' = Present /\ Project' = Project
  BY ProjectStays
<1>2. ProjectTyped'
  BY <1>1 DEF RegistryInv, ProjectTyped, EditorTyped, Whole
<1>3. AllUpToDate'
  BY <1>1, ProjectStays DEF RegistryInv, AllUpToDate, UpToDate
<1>4. QED
  BY <1>1, <1>2, <1>3 DEF RegistryInv, HistoryKept, Distinct, Gapless

LEMMA RegistryStep == RegistryInv /\ [RegistryNext]_registryVars => RegistryInv'
<1> SUFFICES ASSUME RegistryInv, [RegistryNext]_registryVars PROVE RegistryInv'
  OBVIOUS
<1>0. /\ preferred \in Drone \cup {Inherit} /\ edits \in 0..MaxEdits /\ deployed \subseteq Present
      /\ MaxEdits \in Nat
  BY RegistryAssumption DEF RegistryInv, ProjectTyped, HistoryKept
<1>1. CASE \E u \in Editor : Save(u)
  BY <1>1, SaveKeeps, SaveTyped, SaveOrdered DEF RegistryInv
<1>2. CASE \E u \in Editor : CheckSlots(u) \/ (\E fresh \in BOOLEAN : ReadRows(u, fresh))
  BY <1>2, CheckSlotsInv, ReadRowsInv
<1>3. CASE \E u \in Editor : FailEdit(u)
  BY <1>3, FailEditInv
<1>4. CASE \/ \E c \in Component : Refer(c)
           \/ \E d \in Drone \cup {Inherit} : MoveDefault(d)
  BY <1>0, <1>4, RegistryStill DEF Refer, MoveDefault
<1>5. CASE UNCHANGED registryVars
  BY <1>0, <1>5, RegistryStill DEF registryVars
<1>6. ASSUME NEW u \in Editor,
             \/ \E c \in Component, target \in Target \cup {Inherit},
                   drone \in Drone \cup {Inherit} :
                  \/ \E at \in 1..Cardinality(Component) : AddComponent(u, c, at, target, drone)
                  \/ \E active \in BOOLEAN : UpdateComponent(u, c, target, drone, active)
             \/ \E target \in Target, drone \in Drone \cup {Inherit} :
                  UpdateProject(u, target, drone)
             \/ ArchiveProject(u)
             \/ \E c \in Component : DeleteComponent(u, c)
             \/ \E order \in SetToSeqs(Present) : ReorderComponents(u, order)
      PROVE  RegistryInv'
  BY <1>6, EditInv
<1>7. QED
  BY <1>1, <1>2, <1>3, <1>4, <1>5, <1>6, ZenonT(60) DEF RegistryNext

\* A component that something was deployed with is there for ever, whatever
\* copies the requests write back.
THEOREM DeployedIsKept == RegistrySpec => []HistoryKept
<1>1. RegistryInv => HistoryKept
  BY DEF RegistryInv
<1>2. QED
  BY RegistryInitInv, RegistryStep, <1>1, PTL DEF RegistrySpec

\* No two components of the project ever share a position, and there is no gap
\* as long as no request wrote after one it had not seen.
THEOREM OneOrder == RegistrySpec => []PositionsDistinct
<1>1. RegistryInv => PositionsDistinct
  BY DEF RegistryInv, Distinct, Gapless, PositionsDistinct
<1>2. QED
  BY RegistryInitInv, RegistryStep, <1>1, PTL DEF RegistrySpec

\* A clash depends on what the aggregate says of the two components.
LEMMA SameClash ==
  ASSUME NEW p, NEW q, NEW d, NEW b, NEW c,
         p.standard = q.standard, p.server = q.server,
         p.target[b] = q.target[b], p.drone[b] = q.drone[b], p.active[b] = q.active[b],
         p.target[c] = q.target[c], p.drone[c] = q.drone[c], p.active[c] = q.active[c]
  PROVE  Clash(p, d, b, c) <=> Clash(q, d, b, c)
BY DEF Clash, SlotKey, ConnectionOf, EffectiveTarget

\* A write by a request that is not outdated makes no clash.
LEMMA SaveGuarded ==
  ASSUME RegistryInv, NEW u \in Editor, Save(u), ~Outdated(u)
  PROVE  Clashes' \subseteq Clashes
<1> DEFINE copy == editor[u].copy
<1>1. ~editor[u].late /\ editor[u].resolved \subseteq {preferred} /\ editor[u].pc = "reading"
  BY DEF Outdated, Save
<1>2. /\ preferred' = preferred
      /\ Present' = Wanted(u) /\ standard' = copy.standard /\ server' = copy.server
      /\ \A c \in Wanted(u) :
           /\ row'[c].target = copy.target[c] /\ row'[c].drone = copy.drone[c]
           /\ row'[c].active = copy.active[c]
  BY <1>1, SavedAsCopied DEF Save
<1>3. Wanted(u) \subseteq Component
  BY <1>2 DEF Present
<1>4. SameSlots(Project)'
  <2>1. ProjectTyped' /\ Distinct'
    BY SaveTyped, SaveKeeps DEF RegistryInv
  <2>2. Loadable'
    BY <2>1 DEF ProjectTyped, Loadable
  <2>3. QED
    BY <2>2, LoadedNext DEF LoadedWhole
<1>5. /\ Project'.standard = copy.standard /\ Project'.server = copy.server
      /\ \A c \in Wanted(u) :
           /\ Project'.target[c] = copy.target[c] /\ Project'.drone[c] = copy.drone[c]
           /\ Project'.active[c] = copy.active[c]
  BY <1>2, <1>3, <1>4 DEF SameSlots
<1>6. SameSlots(Project)
  BY Loaded DEF RegistryInv, ProjectTyped
<1>7. IF editor[u].resolved = {} THEN SameSlots(copy)
      ELSE \A d \in editor[u].resolved : ~SlotConflict(copy, d)
  BY <1>1 DEF RegistryInv, AllUpToDate, UpToDate
<1>8. Clashes' = {cd \in Wanted(u) \X Wanted(u) : Clash(Project', preferred, cd[1], cd[2])}
  BY <1>2 DEF Clashes, Clash, SlotKey, ConnectionOf, EffectiveTarget
<1> HIDE DEF Project
<1>9. ASSUME NEW b \in Wanted(u), NEW c \in Wanted(u), Clash(Project', preferred, b, c)
      PROVE  b \in Present /\ c \in Present /\ Clash(Project, preferred, b, c)
  <2>1. Clash(copy, preferred, b, c)
    BY <1>5, <1>9, SameClash
  <2>2. b \in Elements(copy.order) /\ c \in Elements(copy.order)
    BY DEF Wanted
  <2>3. editor[u].resolved = {}
    BY <1>1, <1>7, <2>1, <2>2 DEF SlotConflict
  <2>4. SameSlots(copy)
    BY <1>7, <2>3
  <2>5. b \in Present /\ c \in Present
    BY <2>2, <2>4 DEF SameSlots
  <2>6. QED
    BY <1>3, <1>6, <2>1, <2>4, <2>5, SameClash DEF SameSlots
<1>10. QED
  BY <1>8, <1>9 DEF Clashes

\* Whichever edits overlap, and whatever the project started with: two
\* components come to share a slot by a write only if its request missed what
\* another wrote, or a move of the default connection since its check.
THEOREM EditsGuardSlots == RegistrySpec => SlotsGuarded
<1>1. RegistryInv /\ [RegistryNext]_registryVars =>
        [\/ Clashes' \subseteq Clashes
         \/ \E u \in Editor : Outdated(u) /\ Save(u)]_<<standard, server, row>>
  <2> SUFFICES ASSUME RegistryInv, [RegistryNext]_registryVars,
                      ~UNCHANGED <<standard, server, row>>
               PROVE  \/ Clashes' \subseteq Clashes
                      \/ \E u \in Editor : Outdated(u) /\ Save(u)
    OBVIOUS
  <2>1. PICK u \in Editor : Save(u)
    <3>1. ASSUME NEW u \in Editor, NEW pc, NEW copy, Request(u, pc, copy) PROVE FALSE
      BY <3>1 DEF Request
    <3>2. QED
      BY <3>1, ZenonT(60)
      DEF RegistryNext, registryVars, AddComponent, UpdateComponent, UpdateProject,
          ArchiveProject, DeleteComponent, ReorderComponents, CheckSlots, ReadRows,
          FailEdit, Refer, MoveDefault
  <2>2. QED
    BY <2>1, SaveGuarded
<1>2. QED
  BY RegistryInitInv, RegistryStep, <1>1, PTL DEF RegistrySpec, SlotsGuarded

LEMMA RegistryTypes == RegistryInv => RegistryTypeOK
<1> SUFFICES ASSUME RegistryInv PROVE RegistryTypeOK
  OBVIOUS
<1>1. row \in [Component -> [position : 0..Cardinality(Component),
                            target : Target \cup {Inherit}, drone : Drone \cup {Inherit},
                            active : BOOLEAN]]
  <2>1. Cardinality(Component) \in Nat
    BY RegistryAssumption, FS_CardinalityType
  <2>2. QED
    BY <2>1 DEF RegistryInv, ProjectTyped, RowType
<1>2. ASSUME NEW u \in Editor
      PROVE  /\ editor[u].pc \in {"idle", "loaded", "edited", "reading"}
             /\ Wanted(u) \subseteq used /\ editor[u].known \subseteq used
             /\ Len(editor[u].copy.order) = Cardinality(Wanted(u))
  <2>1. CASE editor[u] = Away
    <3>1. /\ editor[u].copy.order = <<>> /\ editor[u].pc = "idle" /\ editor[u].known = {}
      BY <2>1 DEF Away, Blank
    <3>2. Wanted(u) = {} /\ Len(editor[u].copy.order) = 0
      BY <3>1 DEF Wanted, Elements
    <3>3. QED
      BY <3>1, <3>2, FS_EmptySet
  <2>2. CASE editor[u] # Away
    <3>1. /\ editor[u] \in EditState /\ NoRepeats(editor[u].copy.order)
          /\ Wanted(u) \subseteq used /\ editor[u].known \subseteq used
      BY <2>2 DEF RegistryInv, ProjectTyped, EditorTyped, Whole, Wanted
    <3>2. editor[u].copy.order \in Seq(Component) /\ editor[u].pc \in {"loaded", "edited", "reading"}
      BY <3>1 DEF EditState, Aggregate
    <3>3. QED
      BY <3>1, <3>2, CountOfElements DEF Wanted
  <2>3. QED
    BY <2>1, <2>2
<1>3. QED
  BY <1>1, <1>2 DEF RegistryInv, ProjectTyped, RegistryTypeOK

\* Every variable of the registry is well typed: a copy that a request edits
\* holds each component once.
THEOREM RegistryTypeCorrect == RegistrySpec => []RegistryTypeOK
BY RegistryInitInv, RegistryStep, RegistryTypes, PTL DEF RegistrySpec

----------------------------------------------------------------------------
(* The connections                                                         *)

\* A request that has read a row, or decided on a default, still knows it.
Prepared(s) ==
  /\ admin[s].id \subseteq crossed \/ admin[s].copy.verdict \in {0, admin[s].copy.token}
  /\ admin[s].pc = "idle" => admin[s] = Unused
  /\ admin[s].pc \in {"save", "flush", "add"} => admin[s].copy.there
  /\ admin[s].pc \in {"save", "flush"} /\ admin[s].token # 0 => admin[s].copy.token = admin[s].token
  /\ admin[s].pc \in {"save", "flush"} /\ ~admin[s].late =>
       /\ admin[s].token = 0 => admin[s].copy.token = admin[s].base.token
       /\ admin[s].wants = "same" => admin[s].copy.default = admin[s].base.default
  /\ admin[s].pc = "save" => ~admin[s].late
  /\ admin[s].pc = "add" => admin[s].copy.token = 1
  /\ admin[s].wants = "default" => admin[s].copy.default

ConnectionsInv ==
  /\ ConnectionTypeOK
  /\ \A s \in Admin : Prepared(s)
  /\ VerdictOfToken
  /\ RotationHolds

AdminState ==
  [pc : {"idle", "save", "flush", "add", "delete"}, id : SUBSET Connection,
   base : ConnectionRow, copy : ConnectionRow, token : 0..MaxTokens,
   wants : {"same", "default", "none"}, late : BOOLEAN]

LEMMA NoConnectionType == NoConnection \in ConnectionRow /\ Unused \in AdminState
BY ConnectionsAssumption DEF NoConnection, Unused, ConnectionRow, AdminState

LEMMA ConnectionsInitInv == ConnectionsInit => ConnectionsInv
<1> SUFFICES ASSUME ConnectionsInit PROVE ConnectionsInv
  OBVIOUS
<1>1. ConnectionTypeOK
  <2>1. upstream \in [Connection -> ConnectionRow] /\ admin \in [Admin -> AdminState]
    BY NoConnectionType DEF ConnectionsInit
  <2>2. \A c \in Connection : upstream[c] = NoConnection
    BY DEF ConnectionsInit
  <2>3. /\ latest \in [Connection -> 0..MaxTokens] /\ asked \in 0..MaxAsked
        /\ referred \subseteq Stored /\ covered \subseteq Connection /\ crossed \subseteq covered
    BY ConnectionsAssumption DEF ConnectionsInit
  <2>4. undone \in BOOLEAN
    BY DEF ConnectionsInit
  <2>5. QED
    BY <2>1, <2>2, <2>3, <2>4 DEF ConnectionTypeOK, AdminState
<1>2. \A s \in Admin : Prepared(s)
  BY DEF ConnectionsInit, Prepared, Unused, NoConnection
<1>3. Stored = {}
  BY DEF ConnectionsInit, Stored, NoConnection
<1>4. QED
  BY <1>1, <1>2, <1>3 DEF ConnectionsInv, VerdictOfToken, RotationHolds

\* A request comes in with what it has read.
LEMMA BeginsInv ==
  ASSUME ConnectionsInv, NEW s \in Admin, NEW next \in AdminState, Begins(s, next),
         next.id \subseteq crossed \/ next.copy.verdict \in {0, next.copy.token},
         next.pc \in {"save", "add", "delete"}, ~next.late,
         next.pc \in {"save", "add"} => next.copy.there,
         next.pc = "save" =>
           /\ next.token = 0 => next.copy.token = next.base.token
           /\ next.token # 0 => next.copy.token = next.token
           /\ next.wants = "same" => next.copy.default = next.base.default,
         next.pc = "add" => next.copy.token = 1,
         next.wants = "default" => next.copy.default
  PROVE  ConnectionsInv'
<1>1. /\ admin' \in [Admin -> AdminState] /\ asked' \in 0..MaxAsked
      /\ \A u \in Admin : u # s => admin'[u] = admin[u]
      /\ admin'[s] = next
      /\ UNCHANGED <<upstream, referred, latest, covered, crossed, undone>>
  BY ConnectionsAssumption DEF ConnectionsInv, ConnectionTypeOK, AdminState, Begins
<1>2. ConnectionTypeOK'
  BY <1>1 DEF ConnectionsInv, ConnectionTypeOK, AdminState, Stored
<1>3. ASSUME NEW u \in Admin PROVE Prepared(u)'
  <2>1. CASE u = s
    BY <1>1, <2>1 DEF Prepared
  <2>2. CASE u # s
    BY <1>1, <2>2 DEF ConnectionsInv, Prepared
  <2>3. QED
    BY <2>1, <2>2
<1>4. VerdictOfToken' /\ RotationHolds'
  BY <1>1 DEF ConnectionsInv, VerdictOfToken, RotationHolds, Stored
<1>5. QED
  BY <1>2, <1>3, <1>4 DEF ConnectionsInv

\* A request is answered, whatever it has done to the tables.
LEMMA EndsInv ==
  ASSUME ConnectionsInv, NEW s \in Admin, Ends(s), crossed \subseteq crossed'
  PROVE  /\ admin' \in [Admin -> AdminState] /\ asked' \in 0..MaxAsked
         /\ \A u \in Admin : Prepared(u)'
<1>1. /\ admin' \in [Admin -> AdminState] /\ asked' \in 0..MaxAsked
      /\ \A u \in Admin : u # s => admin'[u] = admin[u]
      /\ admin'[s] = Unused
  BY NoConnectionType DEF ConnectionsInv, ConnectionTypeOK, AdminState, Ends
<1>2. ASSUME NEW u \in Admin PROVE Prepared(u)'
  <2>1. CASE u = s
    BY <1>1, <2>1 DEF Prepared, Unused, NoConnection
  <2>2. CASE u # s
    <3>1. admin[u].id \subseteq crossed => admin[u].id \subseteq crossed'
      OBVIOUS
    <3>2. QED
      BY <1>1, <2>2, <3>1 DEF ConnectionsInv, Prepared
  <2>3. QED
    BY <2>1, <2>2
<1>3. QED
  BY <1>1, <1>2

\* Writing a copy, with the default moved or not, is all that happens to the
\* row, and the default is all that happens to the others.
LEMMA WrittenRows ==
  ASSUME ConnectionTypeOK, NEW s \in Admin, NEW c \in Connection
  PROVE  /\ Written(s, c) \in [Connection -> ConnectionRow]
         /\ Written(s, c)[c] = IF admin[s].pc = "flush"
                               THEN Flushed(upstream[c], admin[s].base, admin[s].copy)
                               ELSE admin[s].copy
         /\ \A d \in Connection : d # c =>
              /\ Written(s, c)[d].there = upstream[d].there
              /\ Written(s, c)[d].token = upstream[d].token
              /\ Written(s, c)[d].verdict = upstream[d].verdict
              /\ ~upstream[d].there => Written(s, c)[d] = NoConnection
<1> DEFINE rows == IF admin[s].wants = "default" THEN Cleared({c}) ELSE upstream
           flushed == Flushed(upstream[c], admin[s].base, admin[s].copy)
<1>1. /\ upstream \in [Connection -> ConnectionRow] /\ admin[s].copy \in ConnectionRow
      /\ admin[s].base \in ConnectionRow
  BY DEF ConnectionTypeOK
<1>2. ASSUME NEW r \in ConnectionRow
      PROVE  /\ [r EXCEPT !.default = FALSE] \in ConnectionRow
             /\ [r EXCEPT !.default = FALSE].there = r.there
             /\ [r EXCEPT !.default = FALSE].token = r.token
             /\ [r EXCEPT !.default = FALSE].verdict = r.verdict
  BY DEF ConnectionRow
<1>3. \A d \in Connection :
        Cleared({c})[d] = IF d \in {c} THEN upstream[d] ELSE [upstream[d] EXCEPT !.default = FALSE]
  BY DEF Cleared
<1>4. Cleared({c}) \in [Connection -> ConnectionRow]
  BY <1>1, <1>2 DEF Cleared
<1>5. [NoConnection EXCEPT !.default = FALSE] = NoConnection
  <2>1. ASSUME NEW r \in ConnectionRow, r.default = FALSE
        PROVE  [r EXCEPT !.default = FALSE] = r
    BY <2>1 DEF ConnectionRow
  <2>2. NoConnection.default = FALSE
    BY DEF NoConnection
  <2>3. QED
    BY <2>1, <2>2, NoConnectionType
<1>6. /\ rows \in [Connection -> ConnectionRow]
      /\ \A d \in Connection : d # c =>
           /\ rows[d].there = upstream[d].there
           /\ rows[d].token = upstream[d].token
           /\ rows[d].verdict = upstream[d].verdict
           /\ ~upstream[d].there => rows[d] = NoConnection
  <2>1. CASE admin[s].wants = "default"
    <3>1. rows = Cleared({c})
      BY <2>1
    <3>2. ASSUME NEW d \in Connection, d # c
          PROVE  /\ Cleared({c})[d].there = upstream[d].there
                 /\ Cleared({c})[d].token = upstream[d].token
                 /\ Cleared({c})[d].verdict = upstream[d].verdict
                 /\ ~upstream[d].there => Cleared({c})[d] = NoConnection
      <4>1. Cleared({c})[d] = [upstream[d] EXCEPT !.default = FALSE] /\ upstream[d] \in ConnectionRow
        BY <1>1, <1>3, <3>2
      <4>2. ~upstream[d].there => upstream[d] = NoConnection
        BY DEF ConnectionTypeOK
      <4>3. QED
        BY <4>1, <4>2, <1>2, <1>5
    <3>3. QED
      BY <3>1, <3>2, <1>4
  <2>2. CASE admin[s].wants # "default"
    BY <2>2, <1>1 DEF ConnectionTypeOK
  <2>3. QED
    BY <2>1, <2>2
<1>7. flushed \in ConnectionRow
  BY <1>1 DEF Flushed, ConnectionRow
<1>8. Written(s, c) = IF admin[s].pc = "flush" THEN [upstream EXCEPT ![c] = flushed]
                      ELSE [rows EXCEPT ![c] = admin[s].copy]
  BY DEF Written
<1>9. \A d \in Connection : ~upstream[d].there => upstream[d] = NoConnection
  BY DEF ConnectionTypeOK
<1> HIDE DEF rows, flushed
<1>10. CASE admin[s].pc = "flush"
  BY <1>1, <1>7, <1>8, <1>9, <1>10 DEF flushed
<1>11. CASE admin[s].pc # "flush"
  BY <1>1, <1>6, <1>8, <1>11
<1>12. QED
  BY <1>10, <1>11

\* What a flush writes that nobody crossed: the token and the verdict of the copy.
LEMMA FlushedUncrossed ==
  ASSUME NEW now, NEW base, NEW copy, base.token = now.token, base.verdict = now.verdict
  PROVE  /\ Flushed(now, base, copy).there /\ Flushed(now, base, copy).token = copy.token
         /\ Flushed(now, base, copy).verdict = copy.verdict
         /\ copy.default = base.default => Flushed(now, base, copy).default = now.default
BY DEF Flushed

\* What a write needs for the tables to be right after it.
LEMMA RowWritten ==
  ASSUME ConnectionsInv, NEW s \in Admin, NEW c \in Connection, Ends(s),
         NEW new \in ConnectionRow, Written(s, c)[c] = new, new.there,
         upstream' = Written(s, c), undone' \in BOOLEAN,
         UNCHANGED referred,
         latest' \in [Connection -> 0..MaxTokens],
         \A d \in Connection : d # c => latest'[d] = latest[d],
         covered \subseteq covered', covered' \subseteq Connection,
         crossed \subseteq crossed', crossed' \subseteq covered',
         c \in covered' \/ latest'[c] = new.token,
         c \in crossed' \/ new.verdict \in {0, new.token}
  PROVE  ConnectionsInv'
<1>0. ConnectionTypeOK /\ VerdictOfToken /\ RotationHolds
  BY DEF ConnectionsInv
<1>1. /\ admin' \in [Admin -> AdminState] /\ asked' \in 0..MaxAsked
      /\ \A u \in Admin : Prepared(u)'
  BY EndsInv
<1>2. /\ upstream' \in [Connection -> ConnectionRow]
      /\ upstream'[c] = new
      /\ \A d \in Connection : d # c =>
              /\ upstream'[d].there = upstream[d].there
              /\ upstream'[d].token = upstream[d].token
              /\ upstream'[d].verdict = upstream[d].verdict
              /\ ~upstream[d].there => upstream'[d] = NoConnection
  BY <1>0, WrittenRows
<1>3. \A d \in Connection : d # c => (d \in Stored' <=> d \in Stored)
  BY <1>2 DEF Stored
<1>4. c \in Stored'
  BY <1>2 DEF Stored
<1>5. ConnectionTypeOK'
  <2>1. referred' \subseteq Stored'
    BY <1>0, <1>3, <1>4 DEF ConnectionTypeOK, Stored
  <2>2. \A d \in Connection : ~upstream'[d].there => upstream'[d] = NoConnection
    BY <1>2
  <2>3. admin' \in [Admin -> AdminState] /\ asked' \in 0..MaxAsked /\ undone' \in BOOLEAN
    BY <1>1
  <2>4. QED
    BY <1>2, <2>1, <2>2, <2>3 DEF ConnectionTypeOK, AdminState
<1>6. VerdictOfToken'
  <2>1. ASSUME NEW d \in Stored', d \notin crossed'
        PROVE  upstream'[d].verdict \in {0, upstream'[d].token}
    <3>1. CASE d = c
      BY <1>2, <2>1, <3>1
    <3>2. CASE d # c
      <4>1. d \in Connection /\ d \notin crossed
        BY <2>1 DEF Stored
      <4>2. d \in Stored
        BY <1>3, <3>2, <4>1
      <4>3. QED
        BY <1>0, <1>2, <3>2, <4>1, <4>2 DEF VerdictOfToken
    <3>3. QED
      BY <3>1, <3>2
  <2>2. QED
    BY <2>1 DEF VerdictOfToken
<1>7. RotationHolds'
  <2>1. ASSUME NEW d \in Stored', d \notin covered' PROVE upstream'[d].token = latest'[d]
    <3>1. CASE d = c
      BY <1>2, <2>1, <3>1
    <3>2. CASE d # c
      <4>1. d \in Connection /\ d \notin covered
        BY <2>1 DEF Stored
      <4>2. d \in Stored
        BY <1>3, <3>2, <4>1
      <4>3. QED
        BY <1>0, <1>2, <3>2, <4>1, <4>2 DEF RotationHolds
    <3>3. QED
      BY <3>1, <3>2
  <2>2. QED
    BY <2>1 DEF RotationHolds
<1>8. QED
  BY <1>1, <1>5, <1>6, <1>7 DEF ConnectionsInv

\* An answer that leaves the tables alone.
LEMMA NothingWritten ==
  ASSUME ConnectionsInv, NEW s \in Admin, Ends(s),
         UNCHANGED <<upstream, referred, latest, covered, crossed, undone>>
  PROVE  ConnectionsInv'
<1>1. /\ admin' \in [Admin -> AdminState] /\ asked' \in 0..MaxAsked
      /\ \A u \in Admin : Prepared(u)'
  BY EndsInv
<1>2. ConnectionTypeOK'
  BY <1>1 DEF ConnectionsInv, ConnectionTypeOK, AdminState, Stored
<1>3. VerdictOfToken' /\ RotationHolds'
  BY DEF ConnectionsInv, VerdictOfToken, RotationHolds, Stored
<1>4. QED
  BY <1>1, <1>2, <1>3 DEF ConnectionsInv

\* The second read takes the row as it is, and sees whether it has changed.
LEMMA RereadConnectionInv ==
  ASSUME ConnectionsInv, NEW s \in Admin, RereadConnection(s)
  PROVE  ConnectionsInv'
<1>1. PICK c \in admin[s].id :
        /\ admin[s].pc = "save" /\ admin[s].wants # "default" /\ c \in Stored
        /\ admin' = [admin EXCEPT ![s].pc = "flush", ![s].base = upstream[c],
                                  ![s].late = (admin[s].base # upstream[c])]
        /\ UNCHANGED <<upstream, referred, latest, covered, crossed, asked, undone>>
  BY DEF RereadConnection
<1>2. /\ admin \in [Admin -> AdminState] /\ upstream \in [Connection -> ConnectionRow]
      /\ c \in Connection /\ Prepared(s)
  BY <1>1 DEF ConnectionsInv, ConnectionTypeOK, AdminState, Stored
<1> DEFINE late == admin[s].base # upstream[c]
<1>3. late \in BOOLEAN /\ (~late => admin[s].base = upstream[c])
  OBVIOUS
<1>4. /\ admin'[s] = [admin[s] EXCEPT !.pc = "flush", !.base = upstream[c], !.late = late]
      /\ DOMAIN admin' = Admin /\ \A u \in Admin : u # s => admin'[u] = admin[u]
  BY <1>1, <1>2
<1> HIDE DEF late
<1>5. /\ admin'[s] \in AdminState /\ admin'[s].pc = "flush" /\ admin'[s].base = upstream[c]
      /\ admin'[s].late = late /\ admin'[s].copy = admin[s].copy /\ admin'[s].id = admin[s].id
      /\ admin'[s].token = admin[s].token /\ admin'[s].wants = admin[s].wants
  <2> DEFINE base == upstream[c]
             r == admin[s]
  <2>1. r \in AdminState /\ base \in ConnectionRow
    BY <1>2
  <2>2. admin'[s] = [r EXCEPT !.pc = "flush", !.base = base, !.late = late]
    BY <1>4
  <2> HIDE DEF base, r
  <2>3. /\ admin'[s] \in AdminState /\ admin'[s].pc = "flush" /\ admin'[s].base = base
        /\ admin'[s].late = late /\ admin'[s].copy = r.copy /\ admin'[s].id = r.id
        /\ admin'[s].token = r.token /\ admin'[s].wants = r.wants
    BY <1>3, <2>1, <2>2 DEF AdminState
  <2>4. QED
    BY <2>3 DEF base, r
<1>6. admin' \in [Admin -> AdminState]
  <2>1. admin' = [u \in Admin |-> admin'[u]]
    BY <1>1, <1>2
  <2>2. QED
    BY <1>2, <1>4, <1>5, <2>1
<1>7. ASSUME NEW u \in Admin PROVE Prepared(u)'
  <2>1. CASE u = s
    BY <1>1, <1>2, <1>3, <1>5, <2>1 DEF Prepared
  <2>2. CASE u # s
    BY <1>1, <1>4, <2>2 DEF ConnectionsInv, Prepared
  <2>3. QED
    BY <2>1, <2>2
<1>8. ConnectionTypeOK'
  BY <1>1, <1>6 DEF ConnectionsInv, ConnectionTypeOK, AdminState, Stored
<1>9. VerdictOfToken' /\ RotationHolds'
  BY <1>1 DEF ConnectionsInv, VerdictOfToken, RotationHolds, Stored
<1>10. QED
  BY <1>7, <1>8, <1>9 DEF ConnectionsInv

LEMMA SaveConnectionInv ==
  ASSUME ConnectionsInv, NEW s \in Admin, SaveConnection(s)
  PROVE  ConnectionsInv'
<1>1. PICK c \in admin[s].id :
        /\ admin[s].pc \in {"save", "flush"} /\ Ends(s) /\ UNCHANGED referred
        /\ IF c \in Stored /\ ~TwoDefaults(Written(s, c))
           THEN /\ upstream' = Written(s, c)
                /\ latest' = [latest EXCEPT ![c] = IF admin[s].token = 0 THEN latest[c]
                                                  ELSE admin[s].token]
                /\ covered' = IF Covers(s, c) THEN covered \cup {c} ELSE covered
                /\ crossed' = IF Crosses(s, c) THEN crossed \cup {c} ELSE crossed
                /\ undone' = GivenUp(s, c)
           ELSE UNCHANGED <<upstream, latest, covered, crossed, undone>>
  BY DEF SaveConnection
<1>2. /\ c \in Connection /\ latest \in [Connection -> 0..MaxTokens]
      /\ admin[s].token \in 0..MaxTokens /\ covered \subseteq Connection
      /\ crossed \subseteq covered /\ ConnectionTypeOK
      /\ undone \in BOOLEAN /\ Prepared(s) /\ upstream[c].default \in BOOLEAN
  <2>1. admin \in [Admin -> AdminState] /\ upstream \in [Connection -> ConnectionRow]
    BY DEF ConnectionsInv, ConnectionTypeOK, AdminState
  <2>2. c \in Connection
    BY <1>1, <2>1 DEF AdminState
  <2>3. upstream[c].default \in BOOLEAN
    BY <2>1, <2>2 DEF ConnectionRow
  <2>4. QED
    BY <2>1, <2>2, <2>3 DEF ConnectionsInv, ConnectionTypeOK, AdminState
<1>3. CASE c \in Stored /\ ~TwoDefaults(Written(s, c))
  <2> DEFINE new == Written(s, c)[c]
  <2>1. undone' \in BOOLEAN
    <3>1. new.default \in BOOLEAN
      BY <1>2, WrittenRows DEF ConnectionRow
    <3>2. QED
      BY <1>1, <1>2, <1>3, <3>1 DEF GivenUp
  <2>2. /\ latest' \in [Connection -> 0..MaxTokens]
        /\ \A d \in Connection : d # c => latest'[d] = latest[d]
        /\ latest'[c] = IF admin[s].token = 0 THEN latest[c] ELSE admin[s].token
    BY <1>1, <1>2, <1>3
  <2>3. Crosses(s, c) => Covers(s, c)
    BY DEF Crosses, Covers
  <2>4. /\ covered \subseteq covered' /\ covered' \subseteq Connection
        /\ crossed \subseteq crossed' /\ crossed' \subseteq covered'
        /\ Crosses(s, c) => c \in crossed'
        /\ Covers(s, c) => c \in covered'
    BY <1>1, <1>2, <1>3, <2>3
  <2>5. new \in ConnectionRow /\ new.there
    <3>1. new \in ConnectionRow
      BY <1>2, WrittenRows
    <3>2. Flushed(upstream[c], admin[s].base, admin[s].copy).there
      BY DEF Flushed
    <3>3. QED
      BY <1>1, <1>2, <3>1, <3>2, WrittenRows DEF Prepared
  <2>6. ~Crosses(s, c) => new.token = admin[s].copy.token /\ new.verdict = admin[s].copy.verdict
    <3>1. CASE admin[s].pc = "flush"
      BY <1>2, <3>1, WrittenRows, FlushedUncrossed DEF Crosses
    <3>2. CASE admin[s].pc # "flush"
      BY <1>2, <3>2, WrittenRows
    <3>3. QED
      BY <3>1, <3>2
  <2> HIDE DEF new
  <2>7. c \in covered' \/ latest'[c] = new.token
    <3>1. CASE admin[s].token # 0 /\ ~Crosses(s, c)
      BY <1>1, <1>2, <2>2, <2>6, <3>1 DEF Prepared
    <3>2. CASE admin[s].token = 0 /\ ~Covers(s, c) /\ c \notin covered
      <4>1. admin[s].base.token = upstream[c].token /\ ~admin[s].late
        BY <1>1, <1>2, <3>2 DEF Covers, Crosses, Prepared
      <4>2. admin[s].copy.token = upstream[c].token
        BY <1>1, <1>2, <3>2, <4>1 DEF Prepared
      <4>3. upstream[c].token = latest[c]
        BY <1>3, <3>2 DEF ConnectionsInv, RotationHolds
      <4>4. QED
        BY <2>2, <2>3, <2>6, <3>2, <4>2, <4>3
    <3>3. QED
      BY <2>3, <2>4, <3>1, <3>2
  <2>8. c \in crossed' \/ new.verdict \in {0, new.token}
    BY <1>1, <1>2, <2>4, <2>6 DEF Prepared
  <2>9. QED
    BY <1>1, <1>2, <1>3, <2>1, <2>2, <2>4, <2>5, <2>7, <2>8, RowWritten DEF new
<1>4. CASE ~(c \in Stored /\ ~TwoDefaults(Written(s, c)))
  BY <1>1, <1>4, NothingWritten
<1>5. QED
  BY <1>3, <1>4

LEMMA AddConnectionInv ==
  ASSUME ConnectionsInv, NEW s \in Admin, AddConnection(s)
  PROVE  ConnectionsInv'
<1>1. PICK c \in admin[s].id :
        \/ /\ ~TwoDefaults(Written(s, c))
           /\ upstream' = Written(s, c)
           /\ latest' = [latest EXCEPT ![c] = 1]
           /\ undone' = GivenUp(s, c)
        \/ UNCHANGED <<upstream, latest, undone>>
  BY DEF AddConnection
<1>2. admin[s].pc = "add" /\ Ends(s) /\ UNCHANGED <<referred, covered, crossed>>
  BY DEF AddConnection
<1>3. admin \in [Admin -> AdminState] /\ upstream \in [Connection -> ConnectionRow]
  BY DEF ConnectionsInv, ConnectionTypeOK, AdminState
<1>4. c \in Connection
  BY <1>1, <1>3 DEF AdminState
<1>5. upstream[c].default \in BOOLEAN
  BY <1>3, <1>4 DEF ConnectionRow
<1>6. /\ latest \in [Connection -> 0..MaxTokens] /\ covered \subseteq Connection
      /\ undone \in BOOLEAN /\ Prepared(s) /\ crossed \subseteq covered /\ ConnectionTypeOK
  BY DEF ConnectionsInv, ConnectionTypeOK
<1>7. CASE upstream' = Written(s, c) /\ latest' = [latest EXCEPT ![c] = 1] /\ undone' = GivenUp(s, c)
  <2> DEFINE new == admin[s].copy
  <2>1. Written(s, c)[c] = new /\ new \in ConnectionRow
    BY <1>2, <1>3, <1>4, <1>6, WrittenRows DEF AdminState
  <2>2. undone' \in BOOLEAN
    BY <1>5, <1>6, <1>7, <2>1 DEF GivenUp, ConnectionRow
  <2>3. /\ latest' \in [Connection -> 0..MaxTokens] /\ latest'[c] = 1
        /\ \A d \in Connection : d # c => latest'[d] = latest[d]
    BY <1>4, <1>6, <1>7, ConnectionsAssumption
  <2>4. new.there /\ new.token = 1 /\ (c \in crossed \/ new.verdict \in {0, new.token})
    BY <1>1, <1>2, <1>6 DEF Prepared
  <2> HIDE DEF new
  <2>5. QED
    BY <1>2, <1>4, <1>6, <1>7, <2>1, <2>2, <2>3, <2>4, RowWritten
<1>8. CASE UNCHANGED <<upstream, latest, undone>>
  BY <1>2, <1>8, NothingWritten
<1>9. QED
  BY <1>1, <1>7, <1>8

LEMMA DeleteConnectionInv ==
  ASSUME ConnectionsInv, NEW s \in Admin, DeleteConnection(s)
  PROVE  ConnectionsInv'
<1>1. PICK c \in admin[s].id :
        IF Deletable(c)
        THEN /\ upstream' = [upstream EXCEPT ![c] = NoConnection]
             /\ undone' = (undone \/ upstream[c].default)
        ELSE UNCHANGED <<upstream, undone>>
  BY DEF DeleteConnection
<1>2. Ends(s) /\ UNCHANGED <<referred, latest, covered, crossed>>
  BY DEF DeleteConnection
<1>3. CASE Deletable(c)
  <2>1. /\ upstream \in [Connection -> ConnectionRow] /\ referred \subseteq Stored
        /\ \A d \in Connection : ~upstream[d].there => upstream[d] = NoConnection
        /\ latest \in [Connection -> 0..MaxTokens] /\ covered \subseteq Connection
        /\ crossed \subseteq covered
    BY DEF ConnectionsInv, ConnectionTypeOK
  <2>2. c \in Connection /\ c \notin referred
    BY <1>3 DEF Deletable, Stored
  <2>3. /\ upstream' \in [Connection -> ConnectionRow] /\ upstream'[c] = NoConnection
        /\ \A d \in Connection : d # c => upstream'[d] = upstream[d]
    BY <1>1, <1>3, <2>1, <2>2, NoConnectionType
  <2>4. Stored' = Stored \ {c}
    BY <2>3 DEF Stored, NoConnection
  <2>5. undone' \in BOOLEAN
    BY <1>1, <1>3
  <2>6. /\ admin' \in [Admin -> AdminState] /\ asked' \in 0..MaxAsked
        /\ \A u \in Admin : Prepared(u)'
    BY <1>2, EndsInv
  <2>7. ConnectionTypeOK'
    <3>1. referred' \subseteq Stored'
      BY <1>2, <2>1, <2>2, <2>4
    <3>2. \A d \in Connection : ~upstream'[d].there => upstream'[d] = NoConnection
      BY <2>1, <2>3
    <3>3. QED
      BY <1>2, <2>1, <2>3, <2>5, <2>6, <3>1, <3>2 DEF ConnectionTypeOK, AdminState
  <2>8. VerdictOfToken' /\ RotationHolds'
    BY <1>2, <2>3, <2>4 DEF ConnectionsInv, VerdictOfToken, RotationHolds, Stored
  <2>9. QED
    BY <2>6, <2>7, <2>8 DEF ConnectionsInv
<1>4. CASE ~Deletable(c)
  BY <1>1, <1>2, <1>4, NothingWritten
<1>5. QED
  BY <1>3, <1>4

\* The four ways a request comes in.
LEMMA ReadingInv ==
  ASSUME ConnectionsInv, NEW s \in Admin, NEW c \in Connection,
         BeginUpdate(s, c) \/ BeginProbe(s, c)
  PROVE  ConnectionsInv'
<1>1. /\ admin \in [Admin -> AdminState] /\ upstream \in [Connection -> ConnectionRow]
      /\ VerdictOfToken
  BY DEF ConnectionsInv, ConnectionTypeOK, AdminState
<1>2. ASSUME NEW copy \in ConnectionRow, NEW token \in 0..MaxTokens,
             NEW wants \in {"same", "default", "none"},
             Reading(s, c, copy, token, wants),
             copy.there = upstream[c].there,
             c \in crossed \/ copy.verdict \in {0, copy.token},
             copy.token = IF token = 0 THEN upstream[c].token ELSE token,
             wants = "same" => copy.default = upstream[c].default,
             wants = "default" => copy.default
      PROVE  ConnectionsInv'
  <2> DEFINE next == [pc |-> "save", id |-> {c}, base |-> upstream[c], copy |-> copy,
                      token |-> token, wants |-> wants, late |-> FALSE]
  <2>1. next \in AdminState
    BY <1>1 DEF AdminState
  <2>2. Begins(s, next) /\ c \in Stored
    BY <1>2 DEF Reading
  <2>3. /\ next.pc = "save" /\ next.copy = copy /\ next.token = token
        /\ next.wants = wants /\ next.base = upstream[c] /\ ~next.late /\ next.id = {c}
    OBVIOUS
  <2>4. copy.there
    BY <1>2, <2>2 DEF Stored
  <2> HIDE DEF next
  <2>5. QED
    BY <1>2, <2>1, <2>2, <2>3, <2>4, BeginsInv
<1>3. upstream[c] \in ConnectionRow /\ (c \in Stored => c \in crossed \/ upstream[c].verdict \in {0, upstream[c].token})
  BY <1>1 DEF VerdictOfToken
<1>4. c \in Stored
  BY DEF BeginUpdate, BeginProbe, Reading
<1>5. CASE \E k \in 1..MaxTokens : Reading(s, c, TokenReplaced(upstream[c], k), k, "same")
  <2>1. PICK k \in 1..MaxTokens : Reading(s, c, TokenReplaced(upstream[c], k), k, "same")
    BY <1>5
  <2>2. /\ TokenReplaced(upstream[c], k) \in ConnectionRow
        /\ TokenReplaced(upstream[c], k).token = k
        /\ TokenReplaced(upstream[c], k).verdict = 0
        /\ TokenReplaced(upstream[c], k).there = upstream[c].there
        /\ TokenReplaced(upstream[c], k).default = upstream[c].default
    <3> DEFINE r == [upstream[c] EXCEPT !.token = k]
               t == [r EXCEPT !.verdict = 0]
    <3>1. /\ r \in ConnectionRow /\ r.token = k /\ r.there = upstream[c].there
          /\ r.default = upstream[c].default
      BY <1>3, ConnectionsAssumption DEF ConnectionRow
    <3>2. TokenReplaced(upstream[c], k) = t
      BY DEF TokenReplaced
    <3> HIDE DEF r
    <3>3. /\ t \in ConnectionRow /\ t.verdict = 0 /\ t.token = r.token /\ t.there = r.there
          /\ t.default = r.default
      BY <3>1, ConnectionsAssumption DEF ConnectionRow
    <3> HIDE DEF t
    <3>4. QED
      BY <3>1, <3>2, <3>3
  <2>3. k \in 0..MaxTokens /\ k # 0
    BY ConnectionsAssumption
  <2>4. QED
    BY <1>2, <2>1, <2>2, <2>3
<1>6. CASE Reading(s, c, upstream[c], 0, "same")
  <2>1. 0 \in 0..MaxTokens
    BY ConnectionsAssumption
  <2>2. QED
    BY <1>2, <1>3, <1>4, <1>6, <2>1
<1>7. CASE \E default \in BOOLEAN :
             Reading(s, c, [upstream[c] EXCEPT !.default = default], 0,
                     IF default THEN "default" ELSE "none")
  <2>1. PICK default \in BOOLEAN :
             Reading(s, c, [upstream[c] EXCEPT !.default = default], 0,
                     IF default THEN "default" ELSE "none")
    BY <1>7
  <2> DEFINE copy == [upstream[c] EXCEPT !.default = default]
             wants == IF default THEN "default" ELSE "none"
  <2>2. /\ copy \in ConnectionRow /\ copy.token = upstream[c].token
        /\ copy.verdict = upstream[c].verdict /\ copy.there = upstream[c].there
        /\ copy.default = default
    BY <1>3 DEF ConnectionRow
  <2>3. /\ wants \in {"same", "default", "none"} /\ wants # "same"
        /\ (wants = "default" => default) /\ 0 \in 0..MaxTokens
    BY ConnectionsAssumption
  <2>4. Reading(s, c, copy, 0, wants)
    BY <2>1
  <2> HIDE DEF copy, wants
  <2>5. QED
    BY <1>2, <1>3, <1>4, <2>2, <2>3, <2>4
<1>8. CASE BeginProbe(s, c)
  <2> DEFINE copy == [upstream[c] EXCEPT !.verdict = upstream[c].token]
  <2>1. /\ copy \in ConnectionRow /\ copy.token = upstream[c].token
        /\ copy.verdict = upstream[c].token /\ copy.there = upstream[c].there
        /\ copy.default = upstream[c].default
    BY <1>3 DEF ConnectionRow
  <2>2. Reading(s, c, copy, 0, "same") /\ 0 \in 0..MaxTokens
    BY <1>8, ConnectionsAssumption DEF BeginProbe
  <2> HIDE DEF copy
  <2>3. QED
    BY <1>2, <2>1, <2>2
<1>9. QED
  BY <1>5, <1>6, <1>7, <1>8 DEF BeginUpdate

LEMMA BeginCreateInv ==
  ASSUME ConnectionsInv, NEW s \in Admin, NEW c \in Connection, BeginCreate(s, c)
  PROVE  ConnectionsInv'
<1>1. PICK wish \in BOOLEAN :
        Begins(s, [pc |-> "add", id |-> {c}, base |-> NoConnection, token |-> 1,
                   copy |-> [there |-> TRUE, token |-> 1, verdict |-> 0,
                             default |-> MakesDefault(wish)],
                   wants |-> IF MakesDefault(wish) THEN "default" ELSE "same", late |-> FALSE])
  BY DEF BeginCreate
<1> DEFINE default == MakesDefault(wish)
           copy == [there |-> TRUE, token |-> 1, verdict |-> 0, default |-> default]
           next == [pc |-> "add", id |-> {c}, base |-> NoConnection, token |-> 1, copy |-> copy,
                    wants |-> IF default THEN "default" ELSE "same", late |-> FALSE]
<1>2. Begins(s, next)
  BY <1>1
<1>3. default \in BOOLEAN
  BY DEF MakesDefault
<1> HIDE DEF default
<1>4. /\ copy \in ConnectionRow /\ copy.there /\ copy.token = 1 /\ copy.verdict = 0
      /\ copy.default = default
  BY <1>3, ConnectionsAssumption DEF ConnectionRow
<1> HIDE DEF copy
<1>5. /\ next \in AdminState /\ next.pc = "add" /\ next.copy = copy /\ ~next.late
      /\ next.wants = "default" => default
  BY <1>4, NoConnectionType, ConnectionsAssumption DEF AdminState
<1> HIDE DEF next
<1>6. QED
  BY <1>2, <1>4, <1>5, BeginsInv

LEMMA BeginDeleteInv ==
  ASSUME ConnectionsInv, NEW s \in Admin, NEW c \in Connection, BeginDelete(s, c)
  PROVE  ConnectionsInv'
<1> DEFINE next == [Unused EXCEPT !.pc = "delete", !.id = {c}]
<1>1. Begins(s, next)
  BY DEF BeginDelete
<1>2. next \in AdminState
  BY NoConnectionType DEF AdminState
<1>3. next.pc = "delete" /\ next.copy = NoConnection /\ next.wants = "same" /\ ~next.late
  BY DEF Unused
<1>4. NoConnection.verdict = 0
  BY DEF NoConnection
<1> HIDE DEF next
<1>5. QED
  BY <1>1, <1>2, <1>3, <1>4, BeginsInv

LEMMA ConnectionsStep == ConnectionsInv /\ [ConnectionsNext]_connectionVars => ConnectionsInv'
<1> SUFFICES ASSUME ConnectionsInv, [ConnectionsNext]_connectionVars PROVE ConnectionsInv'
  OBVIOUS
<1>1. CASE \E s \in Admin, c \in Connection : BeginUpdate(s, c) \/ BeginProbe(s, c)
  BY <1>1, ReadingInv
<1>2. CASE \E s \in Admin, c \in Connection : BeginCreate(s, c)
  BY <1>2, BeginCreateInv
<1>3. CASE \E s \in Admin, c \in Connection : BeginDelete(s, c)
  BY <1>3, BeginDeleteInv
<1>4. CASE \E s \in Admin : RereadConnection(s) \/ SaveConnection(s)
  BY <1>4, RereadConnectionInv, SaveConnectionInv
<1>5. CASE \E s \in Admin : AddConnection(s)
  BY <1>5, AddConnectionInv
<1>6. CASE \E s \in Admin : DeleteConnection(s)
  BY <1>6, DeleteConnectionInv
<1>7. CASE \E s \in Admin : LoseAdmin(s)
  BY <1>7, NothingWritten DEF LoseAdmin
<1>8. ASSUME referred' \subseteq Stored,
             UNCHANGED <<upstream, admin, latest, covered, crossed, asked, undone>>
      PROVE  ConnectionsInv'
  <2>1. ConnectionTypeOK'
    BY <1>8 DEF ConnectionsInv, ConnectionTypeOK, Stored
  <2>2. VerdictOfToken' /\ RotationHolds' /\ \A s \in Admin : Prepared(s)'
    BY <1>8 DEF ConnectionsInv, VerdictOfToken, RotationHolds, Prepared, Stored
  <2>3. QED
    BY <2>1, <2>2 DEF ConnectionsInv
<1>9. referred \subseteq Stored
  BY DEF ConnectionsInv, ConnectionTypeOK
<1>10. CASE \E c \in Connection : ReferTo(c) \/ LetGo(c)
  <2>1. PICK c \in Connection : ReferTo(c) \/ LetGo(c)
    BY <1>10
  <2>2. /\ referred' \subseteq Stored
        /\ UNCHANGED <<upstream, admin, latest, covered, crossed, asked, undone>>
    BY <1>9, <2>1 DEF ReferTo, LetGo
  <2>3. QED
    BY <1>8, <2>2
<1>11. CASE UNCHANGED connectionVars
  BY <1>8, <1>9, <1>11 DEF connectionVars
<1>12. QED
  BY <1>1, <1>2, <1>3, <1>4, <1>5, <1>6, <1>7, <1>10, <1>11 DEF ConnectionsNext

\* Every variable of the connections keeps its type, and no connection that
\* somebody refers to is deleted.
THEOREM ConnectionsTyped == ConnectionsSpec => []ConnectionTypeOK
<1>1. ConnectionsInv => ConnectionTypeOK
  BY DEF ConnectionsInv
<1>2. QED
  BY ConnectionsInitInv, ConnectionsStep, <1>1, PTL DEF ConnectionsSpec

\* However edits and probes overlap, a stored verdict is about the stored token,
\* unless another wrote one of the two between the second read and the write.
THEOREM VerdictsMatch == ConnectionsSpec => []VerdictOfToken
<1>1. ConnectionsInv => VerdictOfToken
  BY DEF ConnectionsInv
<1>2. QED
  BY ConnectionsInitInv, ConnectionsStep, <1>1, PTL DEF ConnectionsSpec

\* A rotated token stays, but for the requests that wrote back a row they had
\* read before another wrote it.
THEOREM RotationsHold == ConnectionsSpec => []RotationHolds
<1>1. ConnectionsInv => RotationHolds
  BY DEF ConnectionsInv
<1>2. QED
  BY ConnectionsInitInv, ConnectionsStep, <1>1, PTL DEF ConnectionsSpec

----------------------------------------------------------------------------
(* The default connection                                                  *)

\* A connection that is being added is not there yet and is no other request's;
\* one that is not added as the default finds a default, unless it was given up.
Adding(s) ==
  admin[s].pc = "add" =>
    /\ admin[s].id \cap Stored = {}
    /\ \A t \in Admin : t # s => admin[s].id \cap admin[t].id = {}
    /\ admin[s].wants # "default" /\ covered = {} /\ ~undone => Stored # {}

DefaultInv == ConnectionsInv /\ DefaultStays /\ \A s \in Admin : Adding(s)

LEMMA DefaultInitInv == ConnectionsInit => DefaultInv
<1> SUFFICES ASSUME ConnectionsInit PROVE DefaultInv
  OBVIOUS
<1>1. Stored = {}
  BY DEF ConnectionsInit, Stored, NoConnection
<1>2. \A c \in Connection : ~upstream[c].there
  BY DEF ConnectionsInit, NoConnection
<1>3. DefaultStays
  BY <1>1, <1>2 DEF DefaultStays, TwoDefaults
<1>4. \A s \in Admin : Adding(s)
  BY DEF ConnectionsInit, Adding, Unused
<1>5. QED
  BY <1>3, <1>4, ConnectionsInitInv DEF DefaultInv

\* Requests that come in leave the tables alone.
LEMMA BeginDefault ==
  ASSUME DefaultInv, ConnectionsInv', NEW s \in Admin, NEW next, NEW c \in Connection,
         Begins(s, next), next.id = {c},
         \/ c \in Stored /\ next.pc # "add"
         \/ /\ c \notin Stored /\ \A t \in Admin : c \notin admin[t].id
            /\ next.wants # "default" => Stored # {}
  PROVE  DefaultInv'
<1>1. /\ admin'[s] = next /\ \A u \in Admin : u # s => admin'[u] = admin[u]
      /\ UNCHANGED <<upstream, referred, latest, covered, undone>>
  <2>1. admin \in [Admin -> AdminState]
    BY DEF DefaultInv, ConnectionsInv, ConnectionTypeOK, AdminState
  <2>2. QED
    BY <2>1 DEF Begins
<1>2. Stored' = Stored /\ Defaults' = Defaults
  BY <1>1 DEF Stored, Defaults
<1>3. DefaultStays'
  BY <1>1, <1>2 DEF DefaultInv, DefaultStays, TwoDefaults
<1>4. ASSUME NEW u \in Admin PROVE Adding(u)'
  <2>1. CASE u = s
    BY <1>1, <1>2, <2>1 DEF Adding
  <2>2. CASE u # s
    <3>1. admin[u].pc = "add" => c \notin admin[u].id
      BY DEF DefaultInv, Adding
    <3>2. QED
      BY <1>1, <1>2, <2>2, <3>1 DEF DefaultInv, Adding
  <2>3. QED
    BY <2>1, <2>2
<1>5. QED
  BY <1>3, <1>4 DEF DefaultInv

\* Requests that are answered, and leave somebody stored.
LEMMA EndDefault ==
  ASSUME DefaultInv, ConnectionsInv', NEW s \in Admin, Ends(s),
         Stored' \subseteq Stored \cup (IF admin[s].pc = "add" THEN admin[s].id ELSE {}),
         \/ UNCHANGED <<upstream, covered, undone>>
         \/ covered' = {} /\ ~undone' => Stored' # {},
         DefaultStays'
  PROVE  DefaultInv'
<1>1. admin'[s] = Unused /\ \A u \in Admin : u # s => admin'[u] = admin[u]
  <2>1. admin \in [Admin -> AdminState]
    BY DEF DefaultInv, ConnectionsInv, ConnectionTypeOK, AdminState
  <2>2. QED
    BY <2>1 DEF Ends
<1>2. ASSUME NEW u \in Admin PROVE Adding(u)'
  <2>1. CASE u = s
    BY <1>1, <2>1 DEF Adding, Unused
  <2>2. CASE u # s /\ admin[u].pc = "add" /\ ~Adding(u)'
    <3>1. Adding(u)
      BY DEF DefaultInv
    <3>2. admin[u].id \cap Stored' = {}
      BY <2>2, <3>1 DEF Adding
    <3>3. \A t \in Admin : t # u => admin'[u].id \cap admin'[t].id = {}
      BY <1>1, <2>2, <3>1 DEF Adding, Unused
    <3>4. covered' = {} /\ ~undone' => Stored' # {}
      <4>1. CASE UNCHANGED <<upstream, covered, undone>>
        <5>1. Stored' = Stored
          BY <4>1 DEF Stored
        <5>2. admin[u].wants = "default" => Adding(u)'
          BY <1>1, <2>2, <3>2, <3>3 DEF Adding
        <5>3. QED
          BY <2>2, <3>1, <4>1, <5>1, <5>2 DEF Adding
      <4>2. CASE covered' = {} /\ ~undone' => Stored' # {}
        BY <4>2
      <4>3. QED
        BY <4>1, <4>2
    <3>5. QED
      BY <1>1, <2>2, <3>2, <3>3, <3>4 DEF Adding
  <2>3. CASE u # s /\ admin[u].pc # "add"
    BY <1>1, <2>3 DEF Adding
  <2>4. QED
    BY <2>1, <2>2, <2>3
<1>3. QED
  BY <1>2 DEF DefaultInv

\* A row written keeps one default, as the index demands, and leaves one if it
\* was the default, or takes it, or leaves the others as they were.
LEMMA WrittenDefault ==
  ASSUME DefaultInv, ConnectionsInv', NEW s \in Admin, NEW c \in Connection, Ends(s),
         c \in admin[s].id, admin[s].pc = "add" \/ c \in Stored,
         NEW new, Written(s, c)[c] = new, new.there,
         ~TwoDefaults(Written(s, c)), upstream' = Written(s, c), undone' = GivenUp(s, c),
         covered \subseteq covered',
         \/ c \in covered'
         \/ admin[s].wants = "same" /\ c \in Stored
              /\ new.default = upstream[c].default
         \/ admin[s].wants = "same" /\ c \notin Stored /\ (covered = {} /\ ~undone => Stored # {})
         \/ admin[s].wants = "default" /\ new.default
         \/ admin[s].wants = "none"
  PROVE  DefaultInv'
<1>1. /\ upstream \in [Connection -> ConnectionRow] /\ ConnectionTypeOK
      /\ DefaultStays
  BY DEF DefaultInv, ConnectionsInv, ConnectionTypeOK
<1>2. upstream'[c] = new
  OBVIOUS
<1>3. \A d \in Connection : d # c => upstream'[d].there = upstream[d].there
  BY <1>1, WrittenRows
<1>4. Stored' = Stored \cup {c}
  BY <1>2, <1>3 DEF Stored
<1>5. ASSUME admin[s].wants # "default" PROVE \A d \in Connection : d # c => upstream'[d] = upstream[d]
  BY <1>1, <1>5 DEF Written
<1>6. ASSUME covered' = {}, ~undone' PROVE Defaults' # {}
  <2>1. covered = {} /\ c \notin covered'
    BY <1>6
  <2>2. CASE admin[s].wants = "same" /\ c \in Stored /\ new.default = upstream[c].default
    <3>1. \A d \in Connection : upstream'[d].default = upstream[d].default
      BY <1>2, <1>5, <2>2
    <3>2. Defaults' = Defaults
      BY <1>4, <2>2, <3>1 DEF Defaults, Stored
    <3>3. ~undone
      BY <1>6, <2>2 DEF GivenUp
    <3>4. QED
      BY <1>1, <2>1, <2>2, <3>2, <3>3 DEF DefaultStays
  <2>3. CASE admin[s].wants = "same" /\ c \notin Stored /\ (covered = {} /\ ~undone => Stored # {})
    <3>1. ~undone
      BY <1>6, <2>3 DEF GivenUp
    <3>2. PICK d \in Defaults : TRUE
      BY <1>1, <2>1, <2>3, <3>1 DEF DefaultStays
    <3>3. d \in Stored /\ d # c /\ upstream[d].default
      BY <2>3, <3>2 DEF Defaults
    <3>4. d \in Connection
      BY <3>3 DEF Stored
    <3>5. upstream'[d] = upstream[d]
      BY <1>5, <2>3, <3>3, <3>4
    <3>6. d \in Defaults'
      BY <1>4, <3>3, <3>5 DEF Defaults
    <3>7. QED
      BY <3>6
  <2>4. CASE admin[s].wants = "default" /\ new.default
    BY <1>2, <1>4, <2>4 DEF Defaults
  <2>5. CASE admin[s].wants = "none" /\ new.default
    BY <1>2, <1>4, <2>5 DEF Defaults
  <2>6. CASE admin[s].wants = "none" /\ ~new.default
    <3>1. ~undone /\ ~upstream[c].default
      BY <1>6, <2>6 DEF GivenUp
    <3>2. c \in Stored \/ admin[s].pc = "add"
      OBVIOUS
    <3>3. Stored # {}
      BY <2>1, <2>6, <3>1, <3>2 DEF DefaultInv, Adding
    <3>4. PICK d \in Defaults : TRUE
      BY <1>1, <2>1, <3>1, <3>3 DEF DefaultStays
    <3>5. d \in Stored /\ d # c /\ upstream[d].default
      BY <3>1, <3>4 DEF Defaults
    <3>6. d \in Connection
      BY <3>5 DEF Stored
    <3>7. upstream'[d] = upstream[d]
      BY <1>5, <2>6, <3>5, <3>6
    <3>8. d \in Defaults'
      BY <1>4, <3>5, <3>7 DEF Defaults
    <3>9. QED
      BY <3>8
  <2>7. QED
    BY <2>1, <2>2, <2>3, <2>4, <2>5, <2>6
<1>7. DefaultStays'
  <2>1. ~TwoDefaults(upstream')
    OBVIOUS
  <2>2. QED
    BY <1>6, <2>1 DEF DefaultStays, TwoDefaults
<1>8. Stored' # {}
  BY <1>4
<1>9. Stored' \subseteq Stored \cup (IF admin[s].pc = "add" THEN admin[s].id ELSE {})
  BY <1>4
<1>10. QED
  BY <1>7, <1>8, <1>9, EndDefault

\* An answer that leaves the tables alone.
LEMMA NothingDefault ==
  ASSUME DefaultInv, ConnectionsInv', NEW s \in Admin, Ends(s),
         UNCHANGED <<upstream, covered, undone>>
  PROVE  DefaultInv'
<1>1. Stored' = Stored /\ Defaults' = Defaults
  BY DEF Stored, Defaults
<1>2. DefaultStays'
  BY <1>1 DEF DefaultInv, DefaultStays, TwoDefaults
<1>3. QED
  BY <1>1, <1>2, EndDefault

LEMMA SaveDefault ==
  ASSUME DefaultInv, ConnectionsInv', NEW s \in Admin, SaveConnection(s)
  PROVE  DefaultInv'
<1>1. PICK c \in admin[s].id :
        /\ admin[s].pc = IF admin[s].wants = "default" THEN "save" ELSE "flush"
        /\ Ends(s) /\ UNCHANGED referred
        /\ IF c \in Stored /\ ~TwoDefaults(Written(s, c))
           THEN /\ upstream' = Written(s, c)
                /\ covered' = IF Covers(s, c) THEN covered \cup {c} ELSE covered
                /\ undone' = GivenUp(s, c)
           ELSE UNCHANGED <<upstream, covered, undone>>
  BY DEF SaveConnection
<1>2. admin[s] \in AdminState /\ Prepared(s) /\ ConnectionTypeOK
  BY DEF DefaultInv, ConnectionsInv, ConnectionTypeOK, AdminState
<1>3. admin[s].wants \in {"same", "default", "none"}
  BY <1>2 DEF AdminState
<1>4. CASE c \in Stored /\ ~TwoDefaults(Written(s, c))
  <2> DEFINE new == Written(s, c)[c]
  <2>1. /\ upstream' = Written(s, c) /\ undone' = GivenUp(s, c)
        /\ covered' = IF Covers(s, c) THEN covered \cup {c} ELSE covered
    BY <1>1, <1>4
  <2>2. covered \subseteq covered' /\ (c \in covered' \/ ~Covers(s, c))
    BY <2>1
  <2>3. c \in Connection
    BY <1>4 DEF Stored
  <2>4. new = IF admin[s].pc = "flush" THEN Flushed(upstream[c], admin[s].base, admin[s].copy)
              ELSE admin[s].copy
    BY <1>2, <2>3, WrittenRows
  <2> HIDE DEF new
  <2>5. CASE admin[s].wants = "default"
    <3>1. new.there /\ new.default
      BY <1>1, <1>2, <2>4, <2>5 DEF Prepared
    <3>2. QED
      BY <1>1, <1>4, <2>1, <2>2, <2>3, <2>5, <3>1, WrittenDefault DEF new
  <2>6. CASE admin[s].wants # "default"
    <3>1. new = Flushed(upstream[c], admin[s].base, admin[s].copy) /\ admin[s].pc = "flush"
      BY <1>1, <2>4, <2>6
    <3>2. new.there
      BY <3>1 DEF Flushed
    <3>3. c \in covered' \/ admin[s].wants = "none" \/ new.default = upstream[c].default
      <4>1. CASE ~Covers(s, c) /\ admin[s].wants = "same"
        <5>1. ~admin[s].late
          BY <3>1, <4>1 DEF Covers
        <5>2. admin[s].copy.default = admin[s].base.default
          BY <1>2, <3>1, <4>1, <5>1 DEF Prepared
        <5>3. QED
          BY <3>1, <5>2 DEF Flushed
      <4>2. QED
        BY <1>3, <2>2, <2>6, <4>1
    <3>4. QED
      BY <1>1, <1>3, <1>4, <2>1, <2>2, <2>3, <2>6, <3>2, <3>3, WrittenDefault DEF new
  <2>7. QED
    BY <2>5, <2>6
<1>5. CASE ~(c \in Stored /\ ~TwoDefaults(Written(s, c)))
  BY <1>1, <1>5, NothingDefault
<1>6. QED
  BY <1>4, <1>5

\* The second read leaves the tables, and the requests that add, as they are.
LEMMA RereadDefault ==
  ASSUME DefaultInv, ConnectionsInv', NEW s \in Admin, RereadConnection(s)
  PROVE  DefaultInv'
<1>1. admin \in [Admin -> AdminState]
  BY DEF DefaultInv, ConnectionsInv, ConnectionTypeOK, AdminState
<1>2. /\ UNCHANGED <<upstream, covered, undone>> /\ admin'[s].pc = "flush"
      /\ admin[s].pc = "save" /\ admin'[s].id = admin[s].id
      /\ \A u \in Admin : u # s => admin'[u] = admin[u]
  BY <1>1 DEF RereadConnection, AdminState
<1>3. DefaultStays'
  BY <1>2 DEF DefaultInv, DefaultStays, TwoDefaults, Defaults, Stored
<1>4. ASSUME NEW u \in Admin PROVE Adding(u)'
  <2>1. CASE u = s
    BY <1>2, <2>1 DEF Adding
  <2>2. CASE u # s
    <3>1. \A t \in Admin : admin'[t].id = admin[t].id
      BY <1>2
    <3>2. Stored' = Stored
      BY <1>2 DEF Stored
    <3>3. QED
      BY <1>2, <2>2, <3>1, <3>2 DEF DefaultInv, Adding
  <2>3. QED
    BY <2>1, <2>2
<1>5. QED
  BY <1>3, <1>4 DEF DefaultInv

LEMMA AddDefault ==
  ASSUME DefaultInv, ConnectionsInv', NEW s \in Admin, AddConnection(s)
  PROVE  DefaultInv'
<1>1. PICK c \in admin[s].id :
        \/ /\ ~TwoDefaults(Written(s, c))
           /\ upstream' = Written(s, c)
           /\ latest' = [latest EXCEPT ![c] = 1]
           /\ undone' = GivenUp(s, c)
        \/ UNCHANGED <<upstream, latest, undone>>
  BY DEF AddConnection
<1>2. admin[s].pc = "add" /\ Ends(s) /\ UNCHANGED <<referred, covered, crossed>>
  BY DEF AddConnection
<1>3. admin[s] \in AdminState /\ Prepared(s) /\ Adding(s) /\ ConnectionTypeOK
  BY DEF DefaultInv, ConnectionsInv, ConnectionTypeOK, AdminState
<1>4. /\ admin[s].wants \in {"same", "default", "none"} /\ c \in Connection
      /\ admin[s].copy.there
      /\ admin[s].wants = "default" => admin[s].copy.default
      /\ Written(s, c)[c] = admin[s].copy
  <2>1. /\ admin[s].wants \in {"same", "default", "none"} /\ c \in Connection
        /\ admin[s].copy.there
        /\ admin[s].wants = "default" => admin[s].copy.default
    BY <1>2, <1>3 DEF AdminState, Prepared
  <2>2. QED
    BY <1>2, <1>3, <2>1, WrittenRows
<1>5. /\ c \notin Stored
      /\ admin[s].wants # "default" => (covered = {} /\ ~undone => Stored # {})
  BY <1>2, <1>3 DEF Adding
<1>6. CASE ~TwoDefaults(Written(s, c)) /\ upstream' = Written(s, c) /\ undone' = GivenUp(s, c)
  BY <1>2, <1>4, <1>5, <1>6, WrittenDefault
<1>7. CASE UNCHANGED <<upstream, latest, undone>>
  BY <1>2, <1>7, NothingDefault
<1>8. QED
  BY <1>1, <1>6, <1>7

LEMMA DeleteDefault ==
  ASSUME DefaultInv, ConnectionsInv', NEW s \in Admin, DeleteConnection(s)
  PROVE  DefaultInv'
<1>1. PICK c \in admin[s].id :
        IF Deletable(c)
        THEN /\ upstream' = [upstream EXCEPT ![c] = NoConnection]
             /\ undone' = (undone \/ upstream[c].default)
        ELSE UNCHANGED <<upstream, undone>>
  BY DEF DeleteConnection
<1>2. Ends(s) /\ UNCHANGED <<referred, latest, covered, crossed>>
  BY DEF DeleteConnection
<1>3. CASE Deletable(c)
  <2>1. /\ upstream \in [Connection -> ConnectionRow] /\ DefaultStays
        /\ c \in Connection /\ c \in Stored
    BY <1>3 DEF DefaultInv, ConnectionsInv, ConnectionTypeOK, Deletable, Stored
  <2>2. /\ upstream'[c] = NoConnection
        /\ \A d \in Connection : d # c => upstream'[d] = upstream[d]
    BY <1>1, <1>3, <2>1
  <2>3. ~NoConnection.there
    BY DEF NoConnection
  <2>4. Stored' = Stored \ {c} /\ Defaults' = Defaults \ {c}
    BY <2>2, <2>3 DEF Stored, Defaults
  <2>5. ASSUME covered' = {}, ~undone' PROVE Defaults' # {}
    <3>1. covered = {} /\ ~undone /\ ~upstream[c].default
      BY <1>1, <1>2, <1>3, <2>5
    <3>2. Defaults # {} /\ c \notin Defaults
      BY <2>1, <3>1 DEF DefaultStays, Defaults
    <3>3. QED
      BY <2>4, <3>2
  <2>6. DefaultStays'
    <3>1. ~TwoDefaults(upstream')
      BY <2>1, <2>2, <2>3 DEF DefaultStays, TwoDefaults
    <3>2. QED
      BY <2>5, <3>1 DEF DefaultStays, TwoDefaults
  <2>7. covered' = {} /\ ~undone' => Stored' # {}
    BY <2>5 DEF Defaults
  <2>8. Stored' \subseteq Stored \cup (IF admin[s].pc = "add" THEN admin[s].id ELSE {})
    BY <2>4
  <2>9. QED
    BY <1>2, <2>6, <2>7, <2>8, EndDefault
<1>4. CASE ~Deletable(c)
  BY <1>1, <1>2, <1>4, NothingDefault
<1>5. QED
  BY <1>3, <1>4

LEMMA BeginningsDefault ==
  ASSUME DefaultInv, ConnectionsInv', NEW s \in Admin, NEW c \in Connection,
         BeginUpdate(s, c) \/ BeginProbe(s, c) \/ BeginCreate(s, c) \/ BeginDelete(s, c)
  PROVE  DefaultInv'
<1>1. ASSUME NEW copy, NEW token, NEW wants, Reading(s, c, copy, token, wants)
      PROVE  DefaultInv'
  <2> DEFINE next == [pc |-> "save", id |-> {c}, base |-> upstream[c], copy |-> copy,
                      token |-> token, wants |-> wants, late |-> FALSE]
  <2>1. Begins(s, next) /\ c \in Stored
    BY <1>1 DEF Reading
  <2>2. next.pc = "save" /\ next.id = {c}
    OBVIOUS
  <2> HIDE DEF next
  <2>3. QED
    BY <2>1, <2>2, BeginDefault
<1>2. CASE BeginUpdate(s, c) \/ BeginProbe(s, c)
  BY <1>1, <1>2 DEF BeginUpdate, BeginProbe
<1>3. CASE BeginCreate(s, c)
  <2>1. PICK wish \in BOOLEAN :
          Begins(s, [pc |-> "add", id |-> {c}, base |-> NoConnection, token |-> 1,
                     copy |-> [there |-> TRUE, token |-> 1, verdict |-> 0,
                               default |-> MakesDefault(wish)],
                     wants |-> IF MakesDefault(wish) THEN "default" ELSE "same",
                     late |-> FALSE])
    BY <1>3 DEF BeginCreate
  <2> DEFINE next == [pc |-> "add", id |-> {c}, base |-> NoConnection, token |-> 1,
                      copy |-> [there |-> TRUE, token |-> 1, verdict |-> 0,
                                default |-> MakesDefault(wish)],
                      wants |-> IF MakesDefault(wish) THEN "default" ELSE "same",
                      late |-> FALSE]
  <2>2. Begins(s, next)
    BY <2>1
  <2>3. /\ next.id = {c}
        /\ next.wants # "default" => ~MakesDefault(wish)
    OBVIOUS
  <2>4. ~MakesDefault(wish) => Stored # {}
    BY DEF MakesDefault
  <2>5. c \notin Stored /\ \A t \in Admin : c \notin admin[t].id
    BY <1>3 DEF BeginCreate
  <2> HIDE DEF next
  <2>6. QED
    BY <2>2, <2>3, <2>4, <2>5, BeginDefault
<1>4. CASE BeginDelete(s, c)
  <2> DEFINE next == [Unused EXCEPT !.pc = "delete", !.id = {c}]
  <2>1. Begins(s, next) /\ c \in Stored
    BY <1>4 DEF BeginDelete
  <2>2. next.pc = "delete" /\ next.id = {c}
    BY DEF Unused
  <2> HIDE DEF next
  <2>3. QED
    BY <2>1, <2>2, BeginDefault
<1>5. QED
  BY <1>2, <1>3, <1>4

LEMMA DefaultStep == DefaultInv /\ [ConnectionsNext]_connectionVars => DefaultInv'
<1> SUFFICES ASSUME DefaultInv, [ConnectionsNext]_connectionVars PROVE DefaultInv'
  OBVIOUS
<1>1. ConnectionsInv'
  BY ConnectionsStep DEF DefaultInv
<1>2. CASE \E s \in Admin, c \in Connection :
             BeginUpdate(s, c) \/ BeginProbe(s, c) \/ BeginCreate(s, c) \/ BeginDelete(s, c)
  BY <1>1, <1>2, BeginningsDefault
<1>3. CASE \E s \in Admin : RereadConnection(s) \/ SaveConnection(s)
  BY <1>1, <1>3, RereadDefault, SaveDefault
<1>4. CASE \E s \in Admin : AddConnection(s)
  BY <1>1, <1>4, AddDefault
<1>5. CASE \E s \in Admin : DeleteConnection(s)
  BY <1>1, <1>5, DeleteDefault
<1>6. CASE \E s \in Admin : LoseAdmin(s)
  BY <1>1, <1>6, NothingDefault DEF LoseAdmin
<1>7. ASSUME UNCHANGED <<upstream, admin, covered, undone>> PROVE DefaultInv'
  <2>1. DefaultStays'
    BY <1>7 DEF DefaultInv, DefaultStays, TwoDefaults, Defaults, Stored
  <2>2. \A s \in Admin : Adding(s)'
    BY <1>7 DEF DefaultInv, Adding, Stored
  <2>3. QED
    BY <1>1, <2>1, <2>2 DEF DefaultInv
<1>8. CASE \E c \in Connection : ReferTo(c) \/ LetGo(c)
  BY <1>7, <1>8 DEF ReferTo, LetGo
<1>9. CASE UNCHANGED connectionVars
  BY <1>7, <1>9 DEF connectionVars
<1>10. QED
  BY <1>2, <1>3, <1>4, <1>5, <1>6, <1>8, <1>9 DEF ConnectionsNext

\* There is never a second default, and there is one as long as there is a
\* connection, until it is given up or a request covers a write it had not seen.
THEOREM DefaultKept == ConnectionsSpec => []DefaultStays
<1>1. DefaultInv => DefaultStays
  BY DEF DefaultInv
<1>2. QED
  BY DefaultInitInv, DefaultStep, <1>1, PTL DEF ConnectionsSpec

----------------------------------------------------------------------------
(* The revisions of the database                                           *)

DepState ==
  [key : Key \cup {None}, repo : Repo \cup {None}, active : BOOLEAN,
   project : ProjectName \cup {None}, server : Server \cup {None}]
RegistryState ==
  [there : SUBSET ProjectName, offers : [ProjectName -> SUBSET Key],
   own : [Key -> Server \cup {None}], base : [ProjectName -> Server \cup {None}],
   fallback : Server \cup {None}]

\* What a revision knows of the rows at each of its steps.
StepKnows ==
  /\ upgrade.step \in {"seed", "backfill", "narrow"} => db = committed
  /\ upgrade.step = "seed" => upgrade.to = 14 /\ db.revision = 10
  /\ upgrade.step = "backfill" =>
       upgrade.to = 15 /\ db.revision = 14 /\ ~SharedRepo(db) /\ Mappable(db)
  /\ upgrade.step = "rebuild" => upgrade.to = 15
  /\ upgrade.step = "narrow" => upgrade.to = 14
  /\ upgrade.step = "number" =>
       \/ upgrade.to \in {10, 14} /\ db.guard = "component" /\ ~SharedKey(db)
       \/ upgrade.to = 15 /\ db.guard = "repository" /\ ~SharedSlot(db)

MigrationInv == MigrationTypeOK /\ NeverUnguarded /\ RebuildFits /\ StepKnows

DatabaseState ==
  [revision : {9, 10, 14, 15}, started : BOOLEAN, guard : {"none", "component", "repository"},
   dep : [Dep -> DepState], records : SUBSET Dep, registry : RegistryState]

LEMMA DatabaseIs == Database = DatabaseState
BY DEF Database, DatabaseState, DepState, RegistryState

\* The guards look at the rows of deployments only.
LEMMA SameRows ==
  ASSUME NEW x, NEW y, x.dep = y.dep
  PROVE  /\ SharedKey(x) <=> SharedKey(y)
         /\ SharedSlot(x) <=> SharedSlot(y)
         /\ SharedRepo(x) <=> SharedRepo(y)
         /\ Made(x) = Made(y)
<1>1. Active(x) = Active(y) /\ Made(x) = Made(y)
  BY DEF Active, Made
<1>2. SharedKey(x) <=> SharedKey(y)
  BY <1>1 DEF SharedKey
<1>3. SharedSlot(x) <=> SharedSlot(y)
  BY <1>1 DEF SharedSlot
<1>4. SharedRepo(x) <=> SharedRepo(y)
  BY <1>1 DEF SharedRepo
<1>5. QED
  BY <1>1, <1>2, <1>3, <1>4

LEMMA SlotIsRepo == ASSUME NEW x, SharedSlot(x) PROVE SharedRepo(x)
BY DEF SharedSlot, SharedRepo

LEMMA NoneStep == MigrationTypeOK => upgrade.step \in
  {"rest", "seed", "backfill", "rebuild", "narrow", "number"}
BY DEF MigrationTypeOK

LEMMA RegistryTyped == NoProjects \in RegistryState
BY DEF NoProjects, RegistryState

LEMMA ResolvedServer ==
  ASSUME NEW q \in RegistryState, NEW p \in ProjectName, NEW k \in Key
  PROVE  Resolved(q, p, k) \in Server \cup {None}
BY DEF Resolved, RegistryState

LEMMA MigrationInitInv == MigrationInit => MigrationInv
<1> SUFFICES ASSUME MigrationInit PROVE MigrationInv
  OBVIOUS
<1>1. NoDep \in DepState
  BY DEF NoDep, DepState
<1>2. [d \in Dep |-> NoDep] \in [Dep -> DepState]
  BY <1>1
<1>3. EmptyDb \in Database
  BY <1>2, RegistryTyped, DatabaseIs DEF EmptyDb, DatabaseState
<1>4. MigrationTypeOK
  BY <1>3, MigrationAssumption DEF MigrationInit, MigrationTypeOK, AtRest
<1>5. committed.revision = 9 /\ upgrade.step = "rest"
  BY DEF MigrationInit, EmptyDb, AtRest
<1>6. QED
  BY <1>4, <1>5 DEF MigrationInv, NeverUnguarded, RebuildFits, StepKnows

StepOf == [step : {"rest", "seed", "backfill", "rebuild", "narrow", "number"},
           open : BOOLEAN, to : {9, 10, 14, 15}]

LEMMA MigrationTyped ==
  ASSUME db' \in Database, committed' \in Database, upgrade' \in StepOf,
         upgrade'.step = "rest" => db' = committed',
         changes' \in 0..MaxChanges, recorded' \subseteq Dep
  PROVE  MigrationTypeOK'
BY DEF MigrationTypeOK, StepOf

\* A step at rest, or of the controller: nothing is half done.
LEMMA AtRestInv ==
  ASSUME MigrationTypeOK', upgrade'.step = "rest", NeverUnguarded'
  PROVE  MigrationInv'
BY DEF MigrationInv, RebuildFits, StepKnows

LEMMA GuardCreated == MigrationInv /\ CreateGuard => MigrationInv'
<1> SUFFICES ASSUME MigrationInv, CreateGuard PROVE MigrationInv'
  OBVIOUS
<1> DEFINE y == [db EXCEPT !.started = TRUE, !.guard = "component"]
<1>1. /\ db' = y /\ committed' = y /\ UNCHANGED <<changes, recorded>>
      /\ upgrade' = [step |-> "number", open |-> FALSE, to |-> 10]
      /\ db.revision = 9 /\ ~SharedKey(db)
  BY DEF CreateGuard, Immediately, Begin, Startable
<1>2. db \in Database
  BY DEF MigrationInv, MigrationTypeOK
<1>4. y \in Database /\ y.dep = db.dep /\ y.revision = 9 /\ y.guard = "component"
  BY <1>1, <1>2, DatabaseIs DEF DatabaseState
<1> HIDE DEF y
<1>5. ~SharedKey(y)
  BY <1>1, <1>4, SameRows
<1>6. MigrationTypeOK'
  BY <1>1, <1>4, MigrationTyped DEF MigrationInv, MigrationTypeOK, StepOf
<1>7. QED
  BY <1>1, <1>4, <1>5, <1>6 DEF MigrationInv, NeverUnguarded, RebuildFits, StepKnows

LEMMA RegistryCreated == MigrationInv /\ CreateRegistry => MigrationInv'
<1> SUFFICES ASSUME MigrationInv, CreateRegistry PROVE MigrationInv'
  OBVIOUS
<1> DEFINE y == [db EXCEPT !.started = TRUE, !.registry = NoProjects]
<1>1. /\ db' = y /\ committed' = y /\ UNCHANGED <<changes, recorded>>
      /\ upgrade' = [step |-> "seed", open |-> FALSE, to |-> 14]
      /\ db.revision = 10 /\ upgrade.step = "rest"
  BY DEF CreateRegistry, Immediately, Begin, Startable
<1>2. db \in Database /\ db = committed
  BY <1>1 DEF MigrationInv, MigrationTypeOK
<1>4. y \in Database /\ y.dep = db.dep /\ y.revision = 10 /\ y.guard = db.guard
  BY <1>1, <1>2, DatabaseIs, RegistryTyped DEF DatabaseState
<1> HIDE DEF y
<1>5. y.guard = "component" /\ ~SharedKey(y)
  BY <1>1, <1>2, <1>4, SameRows DEF MigrationInv, NeverUnguarded
<1>6. MigrationTypeOK'
  BY <1>1, <1>4, MigrationTyped DEF MigrationInv, MigrationTypeOK, StepOf
<1>7. QED
  BY <1>1, <1>4, <1>5, <1>6 DEF MigrationInv, NeverUnguarded, RebuildFits, StepKnows

LEMMA RegistrySeeded == MigrationInv /\ SeedRegistry => MigrationInv'
<1> SUFFICES ASSUME MigrationInv, SeedRegistry PROVE MigrationInv'
  OBVIOUS
<1>1. /\ db \in Database /\ db = committed /\ upgrade.to = 14 /\ db.revision = 10
      /\ db.guard = "component" /\ ~SharedKey(db)
  BY DEF SeedRegistry, MigrationInv, MigrationTypeOK, StepKnows, NeverUnguarded
<1>2. upgrade \in StepOf /\ upgrade' = [upgrade EXCEPT !.step = "number", !.open = TRUE]
  BY DEF SeedRegistry, Continue, MigrationInv, MigrationTypeOK, StepOf
<1>3. upgrade' = [step |-> "number", open |-> TRUE, to |-> 14]
  BY <1>1, <1>2 DEF StepOf
<1>4. UNCHANGED <<committed, changes, recorded>>
  BY DEF SeedRegistry, InTransaction
<1>5. db' \in Database /\ db'.dep = db.dep /\ db'.guard = db.guard
  <2>1. CASE UNCHANGED <<db, committed>>
    BY <1>1, <2>1
  <2>2. ASSUME NEW described \in SUBSET Key,
               InTransaction([db EXCEPT !.registry =
                 [NoProjects EXCEPT !.there = {"default"}, !.offers["default"] = described,
                                    !.base["default"] = Seeded, !.fallback = Seeded]])
        PROVE  db' \in Database /\ db'.dep = db.dep /\ db'.guard = db.guard
    <3> DEFINE q == [NoProjects EXCEPT !.there = {"default"}, !.offers["default"] = described,
                                       !.base["default"] = Seeded, !.fallback = Seeded]
    <3>2. q \in RegistryState
      BY MigrationAssumption DEF NoProjects, RegistryState, ProjectName
    <3> HIDE DEF q
    <3>3. db' = [db EXCEPT !.registry = q]
      BY <2>2 DEF InTransaction, q
    <3>4. db \in DatabaseState
      BY <1>1, DatabaseIs
    <3>5. QED
      BY <3>2, <3>3, <3>4, DatabaseIs DEF DatabaseState
  <2>3. QED
    BY <2>1, <2>2, ZenonT(60) DEF SeedRegistry
<1>6. ~SharedKey(db')
  BY <1>1, <1>5, SameRows
<1>7. MigrationTypeOK'
  BY <1>1, <1>3, <1>4, <1>5, MigrationTyped DEF MigrationInv, MigrationTypeOK, StepOf
<1>8. NeverUnguarded'
  BY <1>1, <1>4 DEF NeverUnguarded, MigrationInv, SharedKey, SharedSlot, Active
<1>9. QED
  BY <1>1, <1>3, <1>5, <1>6, <1>7, <1>8 DEF MigrationInv, RebuildFits, StepKnows

LEMMA ColumnsAdded == MigrationInv /\ AddColumns => MigrationInv'
<1> SUFFICES ASSUME MigrationInv, AddColumns PROVE MigrationInv'
  OBVIOUS
<1> DEFINE y == [db EXCEPT !.started = TRUE]
<1>1. /\ db' = y /\ committed' = y /\ UNCHANGED <<changes, recorded>>
      /\ upgrade' = [step |-> "backfill", open |-> FALSE, to |-> 15]
      /\ db.revision = 14 /\ upgrade.step = "rest" /\ ~SharedRepo(db) /\ Mappable(db)
  BY DEF AddColumns, Immediately, Begin, Startable
<1>2. db \in Database /\ db = committed
  BY <1>1 DEF MigrationInv, MigrationTypeOK
<1>4. /\ y \in Database /\ y.dep = db.dep /\ y.revision = 14 /\ y.guard = db.guard
      /\ y.registry = db.registry
  BY <1>1, <1>2, DatabaseIs DEF DatabaseState
<1> HIDE DEF y
<1>5. y.guard = "component" /\ ~SharedKey(y) /\ ~SharedRepo(y) /\ Made(y) = Made(db)
  <2>1. db.guard = "component" /\ ~SharedKey(db)
    BY <1>1, <1>2 DEF MigrationInv, NeverUnguarded
  <2>2. QED
    BY <1>1, <1>4, <2>1, SameRows
<1>6. Mappable(y)
  BY <1>1, <1>4, <1>5 DEF Mappable
<1>7. MigrationTypeOK'
  BY <1>1, <1>4, MigrationTyped DEF MigrationInv, MigrationTypeOK, StepOf
<1>8. QED
  BY <1>1, <1>4, <1>5, <1>6, <1>7 DEF MigrationInv, NeverUnguarded, RebuildFits, StepKnows

\* Rows with the same name, repository and status, whatever their connection.
LEMMA SameNames ==
  ASSUME NEW x \in Database, NEW y \in Database,
         \A d \in Dep : /\ y.dep[d].key = x.dep[d].key /\ y.dep[d].repo = x.dep[d].repo
                        /\ y.dep[d].active = x.dep[d].active
  PROVE  /\ SharedKey(x) <=> SharedKey(y)
         /\ SharedRepo(x) <=> SharedRepo(y)
         /\ Made(x) = Made(y)
<1>1. Active(x) = Active(y) /\ Made(x) = Made(y) /\ Active(x) \subseteq Dep
  BY DEF Active, Made
<1>2. SharedKey(x) <=> SharedKey(y)
  BY <1>1 DEF SharedKey
<1>3. SharedRepo(x) <=> SharedRepo(y)
  BY <1>1 DEF SharedRepo
<1>4. QED
  BY <1>1, <1>2, <1>3

LEMMA RowsBackfilled == MigrationInv /\ BackfillRows => MigrationInv'
<1> SUFFICES ASSUME MigrationInv, BackfillRows PROVE MigrationInv'
  OBVIOUS
<1>1. /\ db \in Database /\ db = committed /\ upgrade.to = 15 /\ db.revision = 14
      /\ ~SharedRepo(db) /\ Mappable(db) /\ upgrade \in StepOf
  BY DEF BackfillRows, MigrationInv, MigrationTypeOK, StepKnows, StepOf
<1>2. UNCHANGED <<committed, changes, recorded>>
  BY DEF BackfillRows, InTransaction
<1>3. upgrade' = [step |-> "rebuild", open |-> Made(db) # {}, to |-> 15]
  BY <1>1 DEF BackfillRows, Continue, StepOf
<1>4. db.dep \in [Dep -> DepState] /\ db.registry \in RegistryState
  BY <1>1, DatabaseIs DEF DatabaseState
<1>5. CASE Made(db) = {}
  <2>1. db' = db
    BY <1>5 DEF BackfillRows
  <2>2. RebuildFits'
    BY <1>1, <1>5, <2>1, SlotIsRepo DEF RebuildFits, Made
  <2>3. MigrationTypeOK'
    BY <1>1, <1>2, <1>3, <2>1, MigrationTyped DEF MigrationInv, MigrationTypeOK, StepOf
  <2>4. NeverUnguarded'
    BY <1>1, <1>2, <2>1 DEF NeverUnguarded, MigrationInv
  <2>5. QED
    BY <1>3, <2>2, <2>3, <2>4 DEF MigrationInv, StepKnows
<1>6. CASE Made(db) # {}
  <2>1. PICK p \in Candidates(db.registry) :
          /\ Candidates(db.registry) = {p}
          /\ \A d \in Made(db) : /\ db.dep[d].key \in db.registry.offers[p]
                                 /\ Resolved(db.registry, p, db.dep[d].key) # None
    BY <1>1, <1>6 DEF Mappable
  <2>2. p \in ProjectName /\ p \in db.registry.there
    BY SMTT(60), <1>4, <2>1 DEF Candidates, RegistryState, ProjectName
  <2>3. Scoped(db) = [d \in Dep |-> IF d \notin Made(db) THEN db.dep[d] ELSE
          [db.dep[d] EXCEPT !.project = p, !.server = Resolved(db.registry, p, db.dep[d].key)]]
    <3>1. (CHOOSE q \in Candidates(db.registry) : TRUE) = p
      BY <2>1
    <3>2. QED
      BY <3>1, ZenonT(60) DEF Scoped
  <2>4. ASSUME NEW d \in Dep
        PROVE  /\ Scoped(db)[d] \in DepState
               /\ Scoped(db)[d].key = db.dep[d].key /\ Scoped(db)[d].repo = db.dep[d].repo
               /\ Scoped(db)[d].active = db.dep[d].active
               /\ d \in Made(db) => /\ Scoped(db)[d].project = p
                                    /\ Scoped(db)[d].server # None
    <3>1. CASE d \notin Made(db)
      BY <1>4, <2>3, <3>1, ZenonT(60)
    <3>2. CASE d \in Made(db)
      <4>1. db.dep[d] \in DepState /\ db.dep[d].key \in Key
        BY <1>4, <3>2 DEF Made, DepState
      <4>2. Resolved(db.registry, p, db.dep[d].key) \in (Server \cup {None}) \ {None}
        BY <1>4, <2>1, <2>2, <3>2, <4>1, ResolvedServer
      <4>3. Scoped(db)[d] = [db.dep[d] EXCEPT !.project = p,
                                              !.server = Resolved(db.registry, p, db.dep[d].key)]
        BY <2>3, <3>2, ZenonT(60)
      <4>4. QED
        BY <2>2, <4>1, <4>2, <4>3 DEF DepState
    <3>3. QED
      BY <3>1, <3>2
  <2>5. Scoped(db) \in [Dep -> DepState]
    BY <2>3, <2>4, ZenonT(60)
  <2> DEFINE f == Scoped(db)
  <2> HIDE DEF f
  <2>6. db' = [db EXCEPT !.dep = f]
    BY <1>6 DEF BackfillRows, InTransaction, f
  <2>7. db' \in Database /\ db'.dep = f /\ db'.registry = db.registry
    <3>1. f \in [Dep -> DepState] /\ db \in DatabaseState
      BY <1>1, <2>5, DatabaseIs DEF f
    <3>2. QED
      BY <2>6, <3>1, DatabaseIs DEF DatabaseState
  <2>8. \A d \in Dep : /\ f[d].key = db.dep[d].key /\ f[d].repo = db.dep[d].repo
                       /\ f[d].active = db.dep[d].active
    BY <2>4 DEF f
  <2>9. ~SharedRepo(db') /\ Made(db') = Made(db)
    BY <1>1, <2>7, <2>8, SameNames
  <2>10. \A d \in Made(db) : /\ f[d].server # None /\ f[d].project = p
                             /\ f[d].key \in db.registry.offers[p]
    BY <2>1, <2>4 DEF f, Made
  <2>11. RebuildFits'
    BY <2>2, <2>7, <2>9, <2>10, SlotIsRepo DEF RebuildFits
  <2>12. MigrationTypeOK'
    BY <1>1, <1>2, <1>3, <2>7, MigrationTyped DEF MigrationInv, MigrationTypeOK, StepOf
  <2>13. NeverUnguarded'
    BY <1>1, <1>2 DEF NeverUnguarded, MigrationInv, SharedKey, SharedSlot, Active
  <2>14. QED
    BY <1>3, <2>11, <2>12, <2>13 DEF MigrationInv, StepKnows
<1>7. QED
  BY <1>5, <1>6

LEMMA TableRebuilt == MigrationInv /\ RebuildTable => MigrationInv'
<1> SUFFICES ASSUME MigrationInv, RebuildTable PROVE MigrationInv'
  OBVIOUS
<1>1. db \in DatabaseState /\ upgrade.to = 15 /\ ~SharedSlot(db) /\ upgrade \in StepOf
  BY DatabaseIs DEF RebuildTable, MigrationInv, MigrationTypeOK, StepKnows, StepOf
<1>2. UNCHANGED <<committed, changes, recorded>>
  BY DEF RebuildTable, InTransaction
<1>3. upgrade' = [step |-> "number", open |-> TRUE, to |-> 15]
  BY <1>1 DEF RebuildTable, Continue, StepOf
<1>4. PICK c \in SUBSET Dep : db' = [db EXCEPT !.guard = "repository", !.records = c]
  <2>1. CASE upgrade.open
    BY <2>1, ZenonT(60) DEF RebuildTable, InTransaction
  <2>2. CASE ~upgrade.open
    <3>1. db.records \in SUBSET Dep
      BY <1>1 DEF DatabaseState
    <3>2. QED
      BY <2>2, <3>1, ZenonT(60) DEF RebuildTable, InTransaction
  <2>3. QED
    BY <2>1, <2>2, ZenonT(60)
<1>5. db' \in Database /\ db'.dep = db.dep /\ db'.guard = "repository"
  BY <1>1, <1>4, DatabaseIs DEF DatabaseState
<1>6. ~SharedSlot(db')
  BY <1>1, <1>5, SameRows
<1>7. MigrationTypeOK'
  BY <1>2, <1>3, <1>5, MigrationTyped DEF MigrationInv, MigrationTypeOK, StepOf
<1>8. NeverUnguarded'
  BY <1>2 DEF NeverUnguarded, MigrationInv, SharedKey, SharedSlot, Active
<1>9. QED
  BY <1>3, <1>5, <1>6, <1>7, <1>8 DEF MigrationInv, RebuildFits, StepKnows

LEMMA ScopeDropped == MigrationInv /\ DropScopeIndexes => MigrationInv'
<1> SUFFICES ASSUME MigrationInv, DropScopeIndexes PROVE MigrationInv'
  OBVIOUS
<1> DEFINE y == [db EXCEPT !.started = TRUE]
<1>1. /\ db' = y /\ committed' = y /\ UNCHANGED <<changes, recorded>>
      /\ upgrade' = [step |-> "narrow", open |-> FALSE, to |-> 14]
      /\ db.revision = 15 /\ upgrade.step = "rest"
  BY DEF DropScopeIndexes, Immediately, Begin, Startable
<1>2. db \in Database /\ db = committed
  BY <1>1 DEF MigrationInv, MigrationTypeOK
<1>3. y \in Database /\ y.dep = db.dep /\ y.revision = 15 /\ y.guard = db.guard
  BY <1>1, <1>2, DatabaseIs DEF DatabaseState
<1> HIDE DEF y
<1>4. db.guard = "repository" /\ ~SharedSlot(db)
  BY <1>1, <1>2 DEF MigrationInv, NeverUnguarded
<1>5. ~SharedSlot(y)
  BY <1>3, <1>4, SameRows
<1>6. MigrationTypeOK'
  BY <1>1, <1>3, MigrationTyped DEF MigrationInv, MigrationTypeOK, StepOf
<1>7. QED
  BY <1>1, <1>3, <1>4, <1>5, <1>6 DEF MigrationInv, NeverUnguarded, RebuildFits, StepKnows

LEMMA TableNarrowed == MigrationInv /\ NarrowTable => MigrationInv'
<1> SUFFICES ASSUME MigrationInv, NarrowTable PROVE MigrationInv'
  OBVIOUS
<1> DEFINE f == [d \in Dep |-> [db.dep[d] EXCEPT !.project = None, !.server = None]]
<1>1. db \in DatabaseState /\ upgrade.to = 14 /\ ~SharedKey(db) /\ upgrade \in StepOf
  BY DatabaseIs DEF NarrowTable, MigrationInv, MigrationTypeOK, StepKnows, StepOf
<1>2. UNCHANGED <<committed, changes, recorded>>
  BY DEF NarrowTable, InTransaction
<1>3. upgrade' = [step |-> "number", open |-> TRUE, to |-> 14]
  BY <1>1 DEF NarrowTable, Continue, StepOf
<1>4. ASSUME NEW d \in Dep
      PROVE  /\ f[d] \in DepState /\ f[d].key = db.dep[d].key
             /\ f[d].repo = db.dep[d].repo /\ f[d].active = db.dep[d].active
  <2>1. db.dep[d] \in DepState
    BY <1>1 DEF DatabaseState
  <2>2. QED
    BY <2>1 DEF DepState
<1>5. f \in [Dep -> DepState]
  BY <1>4, ZenonT(60)
<1>6. db' = [db EXCEPT !.guard = "component", !.dep = f]
  BY SMTT(60) DEF NarrowTable, InTransaction
<1>7. \A d \in Dep : /\ f[d].key = db.dep[d].key /\ f[d].repo = db.dep[d].repo
                     /\ f[d].active = db.dep[d].active
  BY <1>4, ZenonT(60)
<1> HIDE DEF f
<1>8. db' \in Database /\ db'.dep = f /\ db'.guard = "component"
  BY <1>1, <1>5, <1>6, DatabaseIs DEF DatabaseState
<1>9. ~SharedKey(db')
  BY <1>1, <1>7, <1>8, SameNames, DatabaseIs
<1>10. MigrationTypeOK'
  BY <1>2, <1>3, <1>8, MigrationTyped DEF MigrationInv, MigrationTypeOK, StepOf
<1>11. NeverUnguarded'
  BY <1>2 DEF NeverUnguarded, MigrationInv, SharedKey, SharedSlot, Active
<1>12. QED
  BY <1>3, <1>8, <1>9, <1>10, <1>11 DEF MigrationInv, RebuildFits, StepKnows

LEMMA NumberWritten == MigrationInv /\ WriteNumber => MigrationInv'
<1> SUFFICES ASSUME MigrationInv, WriteNumber PROVE MigrationInv'
  OBVIOUS
<1> DEFINE y == [db EXCEPT !.revision = upgrade.to, !.started = FALSE]
<1>1. /\ db' = y /\ committed' = y /\ UNCHANGED <<changes, recorded>>
      /\ upgrade' = AtRest /\ upgrade.step = "number"
  BY DEF WriteNumber, Immediately
<1>2. db \in DatabaseState /\ upgrade.to \in {9, 10, 14, 15}
  BY DatabaseIs DEF MigrationInv, MigrationTypeOK
<1>3. y \in Database /\ y.dep = db.dep /\ y.revision = upgrade.to /\ y.guard = db.guard
  BY <1>2, DatabaseIs DEF DatabaseState
<1> HIDE DEF y
<1>4. \/ y.revision \in {10, 14} /\ y.guard = "component" /\ ~SharedKey(y)
      \/ y.revision = 15 /\ y.guard = "repository" /\ ~SharedSlot(y)
  <2>1. \/ upgrade.to \in {10, 14} /\ db.guard = "component" /\ ~SharedKey(db)
        \/ upgrade.to = 15 /\ db.guard = "repository" /\ ~SharedSlot(db)
    BY <1>1 DEF MigrationInv, StepKnows
  <2>2. QED
    BY <1>3, <2>1, SameRows
<1>5. AtRest \in StepOf /\ AtRest.step = "rest"
  BY DEF AtRest, StepOf
<1>6. MigrationTypeOK'
  BY <1>1, <1>3, <1>5, MigrationTyped DEF MigrationInv, MigrationTypeOK
<1>7. NeverUnguarded'
  BY <1>1, <1>4 DEF NeverUnguarded
<1>8. QED
  BY <1>1, <1>5, <1>6, <1>7, AtRestInv

LEMMA BrokenOff == MigrationInv /\ BreakOff => MigrationInv'
<1> SUFFICES ASSUME MigrationInv, BreakOff PROVE MigrationInv'
  OBVIOUS
<1>1. db' = committed /\ upgrade' = AtRest /\ UNCHANGED <<committed, changes, recorded>>
  BY DEF BreakOff
<1>2. AtRest \in StepOf /\ AtRest.step = "rest"
  BY DEF AtRest, StepOf
<1>3. MigrationTypeOK'
  BY <1>1, <1>2, MigrationTyped DEF MigrationInv, MigrationTypeOK
<1>4. NeverUnguarded'
  BY <1>1 DEF NeverUnguarded, MigrationInv, SharedKey, SharedSlot, Active
<1>5. QED
  BY <1>1, <1>2, <1>3, <1>4, AtRestInv

\* A step of the controller, which writes and commits at once.
LEMMA ControllerWrites ==
  ASSUME MigrationInv, Serving, NEW y \in Database, Immediately(y), UNCHANGED upgrade,
         changes' \in 0..MaxChanges, recorded' \subseteq Dep,
         y.revision = db.revision, y.guard = db.guard,
         db.revision >= 10 => \/ y.guard = "component" /\ ~SharedKey(y)
                              \/ y.guard = "repository" /\ ~SharedSlot(y)
  PROVE  MigrationInv'
<1>1. db' = y /\ committed' = y /\ upgrade'.step = "rest" /\ upgrade' \in StepOf
  BY DEF Immediately, Serving, MigrationInv, MigrationTypeOK, StepOf
<1>2. db = committed
  BY DEF Serving, MigrationInv, MigrationTypeOK
<1>3. MigrationTypeOK'
  BY <1>1, MigrationTyped
<1>4. NeverUnguarded'
  BY <1>1, <1>2 DEF NeverUnguarded, MigrationInv
<1>5. QED
  BY <1>1, <1>3, <1>4, AtRestInv

\* The guard in force forbids none of the rows there are.
LEMMA GuardHolds ==
  ASSUME MigrationInv, Serving, db.revision >= 10
  PROVE  \/ db.guard = "component" /\ ~SharedKey(db)
         \/ db.guard = "repository" /\ ~SharedSlot(db)
BY DEF MigrationInv, MigrationTypeOK, Serving, NeverUnguarded

LEMMA Deployed ==
  ASSUME NEW d \in Dep, NEW k \in Key, NEW r \in Repo, MigrationInv, Deploy(d, k, r)
  PROVE  MigrationInv'
<1>1. db \in DatabaseState /\ db.registry \in RegistryState
  BY DatabaseIs DEF MigrationInv, MigrationTypeOK, DatabaseState
<1>2. PICK p \in ProjectName \cup {None} :
        LET x == [db EXCEPT !.dep[d] =
                    [key |-> k, repo |-> r, active |-> TRUE, project |-> p,
                     server |-> IF p = None THEN None ELSE Resolved(db.registry, p, k)]] IN
        /\ IF db.revision < 15 THEN p = None
           ELSE p \in db.registry.there /\ k \in db.registry.offers[p]
                /\ Resolved(db.registry, p, k) # None
        /\ Admitted(x)
        /\ Immediately(x)
  BY DEF Deploy
<1> DEFINE entry == [key |-> k, repo |-> r, active |-> TRUE, project |-> p,
                   server |-> IF p = None THEN None ELSE Resolved(db.registry, p, k)]
<1>3. entry \in DepState
  <2>1. p # None => Resolved(db.registry, p, k) \in Server \cup {None}
    BY <1>1, <1>2, ResolvedServer
  <2>2. QED
    BY <2>1 DEF DepState
<1>4. Admitted([db EXCEPT !.dep[d] = entry]) /\ Immediately([db EXCEPT !.dep[d] = entry])
  BY <1>2
<1> HIDE DEF entry
<1> DEFINE y == [db EXCEPT !.dep[d] = entry]
<1>5. y \in Database /\ y.revision = db.revision /\ y.guard = db.guard
  BY <1>1, <1>3, DatabaseIs DEF DatabaseState
<1>6. Admitted(y) /\ Immediately(y)
  BY <1>4
<1> HIDE DEF y
<1>7. Serving /\ UNCHANGED <<upgrade, changes, recorded>>
  BY DEF Deploy
<1>8. db.revision >= 10 => \/ y.guard = "component" /\ ~SharedKey(y)
                           \/ y.guard = "repository" /\ ~SharedSlot(y)
  BY <1>5, <1>6, <1>7, GuardHolds DEF Admitted
<1>9. QED
  BY <1>5, <1>6, <1>7, <1>8, ControllerWrites DEF MigrationInv, MigrationTypeOK

LEMMA DeploymentEnded ==
  ASSUME NEW d \in Dep, MigrationInv, EndDeployment(d)
  PROVE  MigrationInv'
<1> DEFINE y == [db EXCEPT !.dep[d].active = FALSE]
<1>1. db \in DatabaseState /\ db.dep \in [Dep -> DepState]
  BY DatabaseIs DEF MigrationInv, MigrationTypeOK, DatabaseState
<1>2. Serving /\ Immediately(y) /\ UNCHANGED <<upgrade, changes, recorded>>
  BY DEF EndDeployment
<1>3. [db.dep[d] EXCEPT !.active = FALSE] \in DepState
  BY <1>1 DEF DepState
<1>4. y \in Database /\ y.revision = db.revision /\ y.guard = db.guard
      /\ y.dep = [db.dep EXCEPT ![d] = [db.dep[d] EXCEPT !.active = FALSE]]
  BY <1>1, <1>3, DatabaseIs DEF DatabaseState
<1>5. \A e \in Dep : /\ y.dep[e].key = db.dep[e].key /\ y.dep[e].repo = db.dep[e].repo
                     /\ y.dep[e].server = db.dep[e].server
                     /\ y.dep[e].active => db.dep[e].active
  BY <1>1, <1>4 DEF DepState
<1> HIDE DEF y
<1>6. Active(y) \subseteq Active(db) /\ Active(y) \subseteq Dep
  BY <1>5 DEF Active
<1>7. SharedKey(y) => SharedKey(db)
  BY <1>5, <1>6 DEF SharedKey
<1>8. SharedSlot(y) => SharedSlot(db)
  BY <1>5, <1>6 DEF SharedSlot
<1>9. QED
  BY <1>2, <1>4, <1>7, <1>8, GuardHolds, ControllerWrites DEF MigrationInv, MigrationTypeOK

\* A step of the controller that leaves the deployments alone.
LEMMA RowsLeftAlone ==
  ASSUME MigrationInv, Serving, NEW y \in Database, Immediately(y), UNCHANGED upgrade,
         changes' \in 0..MaxChanges, recorded' \subseteq Dep,
         y.revision = db.revision, y.guard = db.guard, y.dep = db.dep
  PROVE  MigrationInv'
<1>1. /\ SharedKey(y) <=> SharedKey(db)
      /\ SharedSlot(y) <=> SharedSlot(db)
  BY SameRows
<1>2. QED
  BY <1>1, GuardHolds, ControllerWrites

LEMMA PublishRecorded ==
  ASSUME NEW d \in Dep, MigrationInv, RecordPublish(d)
  PROVE  MigrationInv'
<1> DEFINE y == [db EXCEPT !.records = @ \cup {d}]
<1>1. db \in DatabaseState
  BY DatabaseIs DEF MigrationInv, MigrationTypeOK
<1>2. /\ Serving /\ Immediately(y) /\ UNCHANGED <<upgrade, changes>>
      /\ recorded' = recorded \cup {d}
  BY DEF RecordPublish
<1>3. y \in Database /\ y.revision = db.revision /\ y.guard = db.guard /\ y.dep = db.dep
  BY SMTT(60), <1>1, DatabaseIs DEF DatabaseState
<1> HIDE DEF y
<1>4. QED
  BY <1>2, <1>3, RowsLeftAlone DEF MigrationInv, MigrationTypeOK

LEMMA RegistryChanged == MigrationInv /\ ChangeRegistry => MigrationInv'
<1> SUFFICES ASSUME MigrationInv, ChangeRegistry PROVE MigrationInv'
  OBVIOUS
<1>1. db \in DatabaseState /\ db.registry \in RegistryState
  BY DatabaseIs DEF MigrationInv, MigrationTypeOK, DatabaseState
<1>2. /\ Serving /\ UNCHANGED <<upgrade, recorded>> /\ changes' \in 0..MaxChanges
      /\ recorded \subseteq Dep
  <2>1. Serving /\ changes < MaxChanges /\ changes' = changes + 1
        /\ UNCHANGED <<upgrade, recorded>>
    BY ZenonT(60) DEF ChangeRegistry
  <2>2. changes \in 0..MaxChanges /\ recorded \subseteq Dep
    BY DEF MigrationInv, MigrationTypeOK
  <2>3. changes' \in 0..MaxChanges
    BY <2>1, <2>2, MigrationAssumption DEF MigrationAssumption
  <2>4. QED
    BY <2>1, <2>2, <2>3, SMTT(60)
<1>3. ASSUME NEW q \in RegistryState, Immediately([db EXCEPT !.registry = q])
      PROVE  MigrationInv'
  <2> DEFINE y == [db EXCEPT !.registry = q]
  <2>1. y \in Database /\ y.revision = db.revision /\ y.guard = db.guard /\ y.dep = db.dep
    BY <1>1, DatabaseIs DEF DatabaseState
  <2>2. Immediately(y)
    BY <1>3
  <2> HIDE DEF y
  <2>3. QED
    BY <1>2, <2>1, <2>2, RowsLeftAlone
<1>4. CASE \E p \in ProjectName, k \in Key :
             Immediately([db EXCEPT !.registry.there = @ \cup {p},
                                    !.registry.offers[p] = @ \cup {k}])
  <2>1. PICK p \in ProjectName, k \in Key :
          Immediately([db EXCEPT !.registry.there = @ \cup {p},
                                 !.registry.offers[p] = @ \cup {k}])
    BY <1>4, ZenonT(60)
  <2> DEFINE q == [db.registry EXCEPT !.there = @ \cup {p}, !.offers[p] = @ \cup {k}]
  <2>2. q \in RegistryState
    BY <1>1 DEF RegistryState
  <2>3. [db EXCEPT !.registry.there = @ \cup {p}, !.registry.offers[p] = @ \cup {k}]
          = [db EXCEPT !.registry = q]
    BY <1>1 DEF DatabaseState, RegistryState
  <2> HIDE DEF q
  <2>4. QED
    BY <1>3, <2>1, <2>2, <2>3
<1>5. CASE \E s \in Server \cup {None}, p \in db.registry.there :
             Immediately([db EXCEPT !.registry.base[p] = s])
  <2>1. PICK s \in Server \cup {None}, p \in db.registry.there :
          Immediately([db EXCEPT !.registry.base[p] = s])
    BY <1>5
  <2> DEFINE q == [db.registry EXCEPT !.base[p] = s]
  <2>2. q \in RegistryState
    BY <1>1 DEF RegistryState
  <2>3. [db EXCEPT !.registry.base[p] = s] = [db EXCEPT !.registry = q]
    BY <1>1 DEF DatabaseState
  <2> HIDE DEF q
  <2>4. QED
    BY <1>3, <2>1, <2>2, <2>3
<1>6. CASE \E s \in Server \cup {None}, k \in Key :
             Immediately([db EXCEPT !.registry.own[k] = s])
  <2>1. PICK s \in Server \cup {None}, k \in Key :
          Immediately([db EXCEPT !.registry.own[k] = s])
    BY <1>6
  <2> DEFINE q == [db.registry EXCEPT !.own[k] = s]
  <2>2. q \in RegistryState
    BY <1>1 DEF RegistryState
  <2>3. [db EXCEPT !.registry.own[k] = s] = [db EXCEPT !.registry = q]
    BY <1>1 DEF DatabaseState
  <2> HIDE DEF q
  <2>4. QED
    BY <1>3, <2>1, <2>2, <2>3
<1>7. CASE \E s \in Server \cup {None} : Immediately([db EXCEPT !.registry.fallback = s])
  <2>1. PICK s \in Server \cup {None} : Immediately([db EXCEPT !.registry.fallback = s])
    BY <1>7
  <2> DEFINE q == [db.registry EXCEPT !.fallback = s]
  <2>2. q \in RegistryState
    BY <1>1 DEF RegistryState
  <2>3. [db EXCEPT !.registry.fallback = s] = [db EXCEPT !.registry = q]
    BY <1>1 DEF DatabaseState
  <2> HIDE DEF q
  <2>4. QED
    BY <1>3, <2>1, <2>2, <2>3
<1>8. QED
  BY <1>4, <1>5, <1>6, <1>7, ZenonT(60) DEF ChangeRegistry

LEMMA MigrationStays == MigrationInv /\ [MigrationNext]_migrationVars => MigrationInv'
<1> SUFFICES ASSUME MigrationInv, [MigrationNext]_migrationVars PROVE MigrationInv'
  OBVIOUS
<1>1. CASE MigrationStep
  BY <1>1, GuardCreated, RegistryCreated, RegistrySeeded, ColumnsAdded, RowsBackfilled,
     TableRebuilt, ScopeDropped, TableNarrowed, NumberWritten, BrokenOff DEF MigrationStep
<1>2. CASE ChangeRegistry
  BY <1>2, RegistryChanged
<1>3. ASSUME NEW d \in Dep,
             \/ EndDeployment(d) \/ RecordPublish(d)
             \/ \E k \in Key, r \in Repo : Deploy(d, k, r)
      PROVE  MigrationInv'
  BY <1>3, DeploymentEnded, PublishRecorded, Deployed
<1>4. CASE UNCHANGED migrationVars
  BY <1>4 DEF migrationVars, MigrationInv, MigrationTypeOK, NeverUnguarded, RebuildFits,
     StepKnows, SharedKey, SharedSlot, SharedRepo, Mappable, Made, Active, Candidates
<1>5. QED
  BY <1>1, <1>2, <1>3, <1>4 DEF MigrationNext

\* Wherever a revision breaks off, the promotion guard is on the table that is
\* committed, and the rows it forbids are not.
THEOREM GuardNeverOff == MigrationSpec => []NeverUnguarded
<1>1. MigrationInv => NeverUnguarded
  BY DEF MigrationInv
<1>2. QED
  BY MigrationInitInv, MigrationStays, <1>1, PTL DEF MigrationSpec

\* Once 0015 has begun to write, no row is refused by what it builds.
THEOREM RowsFit == MigrationSpec => []RebuildFits
<1>1. MigrationInv => RebuildFits
  BY DEF MigrationInv
<1>2. QED
  BY MigrationInitInv, MigrationStays, <1>1, PTL DEF MigrationSpec

----------------------------------------------------------------------------
(* The record of the calls of tools                                        *)

\* Where a call stands, and what the trail says of it by then.
Underway(q) ==
  LET n == call[q].number IN
  /\ \A entry \in trail : entry.wish = q => entry.number <= n
  /\ call[q].at = "none" => n = 0
  /\ call[q].at # "none" => n \in 1..MaxCalls
  /\ call[q].at \in {"none", "asked", "started"} => effects[q] = 0
  /\ call[q].at = "asked" => ~Recorded(q, n, {"started"} \cup Results)
  /\ call[q].at \in {"started", "ran"} =>
       Recorded(q, n, {"started"}) /\ ~Recorded(q, n, Results)
  /\ call[q].at = "ran" => call[q].result \in Results
  /\ call[q].at = "ran" /\ call[q].result = "refused" => effects[q] = 0
  /\ call[q].at = "ran" /\ call[q].result = "success" =>
       (effects[q] = 1 <=> call[q].tool \in Deploys)

AuditInv == AuditTypeOK /\ \A q \in Wish : Underway(q) /\ AnswerTrue(q)

Result == {"none", "not_started", "may_have_occurred", "lost"} \cup Results
CallState ==
  [tool : Tool, number : 0..MaxCalls, at : {"none", "asked", "started", "ran", "answered"},
   result : Result]
TrailRow == [wish : Wish, number : 1..MaxCalls, status : {"started"} \cup Results]

LEMMA AuditTyped ==
  AuditTypeOK <=> /\ mode \in {"off", "readonly", "staging", "full"}
                  /\ call \in [Wish -> CallState]
                  /\ trail \subseteq TrailRow
                  /\ effects \in [Wish -> Nat]
  BY DEF AuditTypeOK, CallState, Result, TrailRow

\* What a step leaves of a wish that it is not about.
LEMMA WishLeftAlone ==
  ASSUME NEW x \in Wish, Underway(x), AnswerTrue(x), UNCHANGED mode,
         call'[x] = call[x], effects'[x] = effects[x],
         \A entry : entry.wish = x => (entry \in trail' <=> entry \in trail)
  PROVE  Underway(x)' /\ AnswerTrue(x)'
<1>1. ASSUME NEW m, NEW S PROVE Recorded(x, m, S)' <=> Recorded(x, m, S)
  BY DEF Recorded
<1>2. Underway(x)'
  BY <1>1 DEF Underway
<1>3. AnswerTrue(x)'
  BY <1>1 DEF AnswerTrue, Permitted
<1>4. QED
  BY <1>2, <1>3

\* A step of one call, and what is to be shown of it.
LEMMA CallSteps ==
  ASSUME NEW q \in Wish, AuditInv, UNCHANGED mode, NEW c \in CallState,
         call' = [call EXCEPT ![q] = c],
         effects' \in [Wish -> Nat], \A x \in Wish : x # q => effects'[x] = effects[x],
         NEW R \in SUBSET TrailRow, trail' = trail \cup R, \A entry \in R : entry.wish = q,
         Underway(q)', AnswerTrue(q)'
  PROVE  AuditInv'
<1>1. call \in [Wish -> CallState] /\ trail \subseteq TrailRow
  BY AuditTyped DEF AuditInv
<1>2. AuditTypeOK'
  <2>1. mode' \in {"off", "readonly", "staging", "full"}
    BY AuditTyped DEF AuditInv
  <2>2. call' \in [Wish -> CallState] /\ trail' \subseteq TrailRow
    BY <1>1
  <2>3. QED
    BY <2>1, <2>2 DEF AuditTypeOK, CallState, Result, TrailRow
<1>3. ASSUME NEW x \in Wish, x # q PROVE Underway(x)' /\ AnswerTrue(x)'
  <2>1. call'[x] = call[x] /\ effects'[x] = effects[x]
    BY <1>1, <1>3
  <2>2. \A entry : entry.wish = x => (entry \in trail' <=> entry \in trail)
    BY <1>3
  <2>3. QED
    BY <2>1, <2>2, WishLeftAlone DEF AuditInv
<1>4. QED
  BY <1>2, <1>3 DEF AuditInv

\* A step of one call that writes nothing.
LEMMA QuietSteps ==
  ASSUME NEW q \in Wish, AuditInv, UNCHANGED <<mode, trail>>, NEW c \in CallState,
         call' = [call EXCEPT ![q] = c],
         effects' \in [Wish -> Nat], \A x \in Wish : x # q => effects'[x] = effects[x],
         Underway(q)', AnswerTrue(q)'
  PROVE  AuditInv'
<1>1. trail' = trail \cup {} /\ {} \in SUBSET TrailRow
  OBVIOUS
<1>2. QED
  BY <1>1, CallSteps, Zenon

LEMMA CallIs ==
  ASSUME NEW q \in Wish, AuditInv
  PROVE  /\ call \in [Wish -> CallState] /\ call[q] \in CallState /\ effects \in [Wish -> Nat]
         /\ effects[q] \in Nat /\ Underway(q) /\ AnswerTrue(q) /\ trail \subseteq TrailRow
  BY AuditTyped DEF AuditInv

LEMMA ToolAsked ==
  ASSUME NEW q \in Wish, AuditInv, AskTool(q)
  PROVE  AuditInv'
<1>1. /\ call \in [Wish -> CallState] /\ call[q] \in CallState /\ effects \in [Wish -> Nat]
      /\ Underway(q) /\ AnswerTrue(q) /\ trail \subseteq TrailRow
  BY CallIs
<1>2. PICK tool \in Tool :
        /\ call[q].at # "none" => tool = call[q].tool
        /\ call' = [call EXCEPT ![q] =
             [tool |-> tool, number |-> @.number + 1, at |-> "asked", result |-> "none"]]
  BY DEF AskTool
<1> DEFINE n == call[q].number
           c == [tool |-> tool, number |-> n + 1, at |-> "asked", result |-> "none"]
<1>3. /\ n \in 0..MaxCalls /\ n < MaxCalls /\ UNCHANGED <<mode, trail, effects>>
      /\ \/ call[q].at = "none"
         \/ call[q].at = "answered" /\ call[q].result \in Harmless
  BY <1>1 DEF AskTool, CallState
<1>4. c \in CallState /\ call' = [call EXCEPT ![q] = c] /\ call'[q] = c
  <2>1. n + 1 \in 0..MaxCalls
    BY <1>3, AuditAssumption
  <2>2. c \in CallState
    BY <2>1 DEF CallState, Result
  <2>3. call' = [call EXCEPT ![q] = c]
    BY <1>1, <1>2
  <2>4. QED
    BY <1>1, <2>2, <2>3
<1>5. effects[q] = 0
  BY <1>1, <1>3 DEF Underway, AnswerTrue
<1>6. \A entry \in trail : entry.wish = q => entry.number <= n
  BY <1>1 DEF Underway
<1>7. ASSUME NEW m, NEW S PROVE Recorded(q, m, S)' <=> Recorded(q, m, S)
  BY <1>3 DEF Recorded
<1>8. ASSUME NEW S PROVE ~Recorded(q, n + 1, S)
  BY <1>3, <1>6 DEF Recorded
<1>9. Underway(q)'
  <2>1. \A entry \in trail : entry.wish = q => entry.number <= n + 1
    BY <1>1, <1>3, <1>6 DEF TrailRow
  <2>2. n + 1 \in 1..MaxCalls
    BY <1>3, AuditAssumption
  <2>3. QED
    BY <1>3, <1>4, <1>5, <1>7, <1>8, <2>1, <2>2 DEF Underway
<1>10. ASSUME NEW m \in 1..MaxCalls, Recorded(q, m, Results), m < n + 1
       PROVE  Recorded(q, m, {"refused"})
  <2>1. CASE m < n
    BY <1>1, <1>10, <2>1 DEF AnswerTrue
  <2>2. CASE m = n
    <3>1. call[q].at = "answered" /\ call[q].result \in Harmless
      BY <1>1, <1>3, <1>10, <2>2 DEF Underway
    <3>2. CASE call[q].result = "refused"
      BY <1>1, <2>2, <3>1, <3>2 DEF AnswerTrue, Results
    <3>3. CASE call[q].result = "not_started"
      BY <1>1, <1>10, <2>2, <3>1, <3>3 DEF AnswerTrue, Recorded
    <3>4. QED
      BY <3>1, <3>2, <3>3 DEF Harmless
  <2>3. QED
    BY <1>3, <1>10, <2>1, <2>2
<1>11. AnswerTrue(q)'
  <2>1. effects'[q] <= 1 /\ effects'[q] # 1 /\ call'[q].at # "answered" /\ call'[q].number = n + 1
    BY <1>3, <1>4, <1>5
  <2>2. QED
    BY <1>7, <1>10, <2>1 DEF AnswerTrue
<1> HIDE DEF c
<1>12. QED
  BY <1>1, <1>3, <1>4, <1>9, <1>11, QuietSteps

\* A step that moves a call along and leaves its number and its tool.
LEMMA CallMoves ==
  ASSUME NEW q \in Wish, AuditInv, NEW at \in {"started", "ran", "answered"},
         NEW result \in Result,
         Moves(q, at, result)
  PROVE  \E c \in CallState : /\ call' = [call EXCEPT ![q] = c] /\ call'[q] = c
                              /\ c.at = at /\ c.result = result
                              /\ c.number = call[q].number /\ c.tool = call[q].tool
<1> DEFINE c == [call[q] EXCEPT !.at = at, !.result = result]
<1>1. call \in [Wish -> CallState] /\ call[q] \in CallState
  BY CallIs
<1>2. /\ c \in CallState /\ c.at = at /\ c.result = result
      /\ c.number = call[q].number /\ c.tool = call[q].tool
  BY <1>1 DEF CallState
<1>3. call' = [call EXCEPT ![q] = c]
  BY DEF Moves
<1>4. QED
  BY <1>1, <1>2, <1>3

\* The trail after a entry of the current call of q.
LEMMA TrailGrows ==
  ASSUME NEW q \in Wish, AuditInv, NEW status \in {"started"} \cup Results,
         call[q].at # "none", trail' = trail \cup {Row(q, status)}
  PROVE  /\ {Row(q, status)} \in SUBSET TrailRow
         /\ \A entry \in {Row(q, status)} : entry.wish = q
         /\ \A entry \in trail' : entry.wish = q => entry.number <= call[q].number
         /\ \A m, S : Recorded(q, m, S)' <=>
              \/ Recorded(q, m, S)
              \/ /\ m = call[q].number
                 /\ status \in S
<1>1. Underway(q) /\ call[q].number \in 1..MaxCalls
  BY CallIs DEF Underway
<1>2. Row(q, status) \in TrailRow /\ Row(q, status).wish = q
      /\ Row(q, status).number = call[q].number /\ Row(q, status).status = status
  BY <1>1 DEF Row, TrailRow
<1> HIDE DEF Row
<1>3. \A entry \in trail' : entry.wish = q => entry.number <= call[q].number
  <2>1. call[q].number <= call[q].number
    BY <1>1
  <2>2. QED
    BY <1>1, <1>2, <2>1 DEF Underway
<1>4. ASSUME NEW m, NEW S
      PROVE  Recorded(q, m, S)' <=> \/ Recorded(q, m, S)
                                   \/ /\ m = call[q].number
                                      /\ status \in S
  BY <1>2, Zenon DEF Recorded
<1>5. QED
  BY <1>2, <1>3, <1>4, Zenon

LEMMA StartRecorded ==
  ASSUME NEW q \in Wish, AuditInv, RecordStart(q)
  PROVE  AuditInv'
<1>1. /\ effects \in [Wish -> Nat] /\ Underway(q) /\ AnswerTrue(q)
  BY CallIs
<1>2. /\ call[q].at = "asked" /\ trail' = trail \cup {Row(q, "started")}
      /\ Moves(q, "started", "none") /\ UNCHANGED <<mode, effects>>
  BY DEF RecordStart
<1>3. PICK c \in CallState : /\ call' = [call EXCEPT ![q] = c] /\ call'[q] = c
                            /\ c.at = "started" /\ c.result = "none"
                            /\ c.number = call[q].number /\ c.tool = call[q].tool
  <2>1. "none" \in Result
    BY DEF Result
  <2>2. QED
    BY <1>2, <2>1, CallMoves
<1>4. /\ {Row(q, "started")} \in SUBSET TrailRow
      /\ \A entry \in {Row(q, "started")} : entry.wish = q
      /\ \A entry \in trail' : entry.wish = q => entry.number <= call[q].number
      /\ \A m, S : Recorded(q, m, S)' <=>
           \/ Recorded(q, m, S)
           \/ /\ m = call[q].number
              /\ "started" \in S
  BY <1>2, TrailGrows
<1>5. "started" \notin Results /\ "started" \notin {"refused"}
  BY DEF Results
<1>6. ASSUME NEW m PROVE /\ Recorded(q, m, Results)' <=> Recorded(q, m, Results)
                         /\ Recorded(q, m, {"refused"})' <=> Recorded(q, m, {"refused"})
  BY <1>4, <1>5
<1>7. ~Recorded(q, call[q].number, Results)
  BY <1>1, <1>2 DEF Underway, Recorded
<1>8. Underway(q)'
  BY <1>1, <1>2, <1>3, <1>4, <1>6, <1>7 DEF Underway
<1>9. effects[q] = 0
  BY <1>1, <1>2 DEF Underway
<1>10. AnswerTrue(q)'
  BY <1>1, <1>2, <1>3, <1>6, <1>9 DEF AnswerTrue
<1>11. QED
  BY <1>1, <1>2, <1>3, <1>4, <1>8, <1>10, CallSteps

LEMMA EndRecorded ==
  ASSUME NEW q \in Wish, AuditInv, RecordEnd(q)
  PROVE  AuditInv'
<1> PICK r : r = call[q].result
  OBVIOUS
<1> PICK n : n = call[q].number
  OBVIOUS
<1>1. /\ effects \in [Wish -> Nat] /\ Underway(q) /\ AnswerTrue(q)
  BY CallIs
<1>2. /\ call[q].at = "ran" /\ trail' = trail \cup {Row(q, r)}
      /\ Moves(q, "answered", r) /\ UNCHANGED <<mode, effects>>
  BY DEF RecordEnd, Answers
<1>3. r \in Results /\ r \in Result
  BY <1>1, <1>2 DEF Underway, Result
<1>4. PICK c \in CallState : /\ call' = [call EXCEPT ![q] = c] /\ call'[q] = c
                            /\ c.at = "answered" /\ c.result = r
                            /\ c.number = call[q].number /\ c.tool = call[q].tool
  BY <1>2, <1>3, CallMoves
<1>5. /\ {Row(q, r)} \in SUBSET TrailRow
      /\ \A entry \in {Row(q, r)} : entry.wish = q
      /\ \A entry \in trail' : entry.wish = q => entry.number <= n
      /\ \A m, S : Recorded(q, m, S)' <=>
           \/ Recorded(q, m, S)
           \/ /\ m = n
              /\ r \in S
  BY <1>2, <1>3, TrailGrows
<1>6. /\ Recorded(q, n, {"started"})
      /\ n \in 1..MaxCalls
      /\ r = "refused" => effects[q] = 0
      /\ r = "success" => (effects[q] = 1 <=> call[q].tool \in Deploys)
  BY <1>1, <1>2 DEF Underway
<1>7. Underway(q)'
  BY <1>2, <1>4, <1>5, <1>6 DEF Underway
<1>8. ASSUME NEW m \in 1..MaxCalls, Recorded(q, m, Results)', m < n
      PROVE  Recorded(q, m, {"refused"})'
  <2>1. Recorded(q, m, Results)
    BY <1>5, <1>6, <1>8
  <2>2. QED
    BY <1>1, <1>5, <1>8, <2>1 DEF AnswerTrue
<1>9. Recorded(q, n, {"started"})'
  BY <1>5, <1>6
<1>10. Recorded(q, n, {r})'
  BY <1>5
<1>11. AnswerTrue(q)'
  <2>1. r \notin {"not_started", "may_have_occurred", "lost"}
    BY <1>3 DEF Results
  <2>2. effects[q] <= 1 /\ (effects[q] = 1 => Permitted(call[q].tool))
    BY <1>1 DEF AnswerTrue
  <2>3. r \in Harmless => effects[q] = 0
    BY <1>6, <2>1 DEF Harmless
  <2>4. /\ effects'[q] = effects[q] /\ mode' = mode
        /\ call'[q].at = "answered" /\ call'[q].result = r
        /\ call'[q].number = n /\ call'[q].tool = call[q].tool
    BY <1>2, <1>4
  <2>5. effects'[q] <= 1 /\ (effects'[q] = 1 => Permitted(call[q].tool)')
    BY <2>2, <2>4 DEF Permitted
  <2>6. r = "success" => (effects'[q] = 1 <=> call[q].tool \in Deploys)
    BY <1>6, <2>4
  <2>7. r \in Harmless => effects'[q] = 0
    BY <2>3, <2>4
  <2>8. QED
    BY <1>8, <1>9, <1>10, <2>1, <2>4, <2>5, <2>6, <2>7 DEF AnswerTrue, Permitted
<1>12. QED
  BY <1>1, <1>2, <1>4, <1>5, <1>7, <1>11, CallSteps

\* A call that goes on or ends without a entry: the trail reads the same.
LEMMA TrailSame ==
  ASSUME NEW q \in Wish, UNCHANGED trail
  PROVE  \A m, S : Recorded(q, m, S)' <=> Recorded(q, m, S)
  BY DEF Recorded

LEMMA CallNotStarted ==
  ASSUME NEW q \in Wish, AuditInv, NotStarted(q)
  PROVE  AuditInv'
<1>1. effects \in [Wish -> Nat] /\ Underway(q) /\ AnswerTrue(q)
  BY CallIs
<1>2. /\ call[q].at = "asked" /\ Moves(q, "answered", "not_started")
      /\ UNCHANGED <<mode, trail, effects>> /\ "not_started" \in Result
  BY DEF NotStarted, Answers, Result
<1>3. PICK c \in CallState : /\ call' = [call EXCEPT ![q] = c] /\ call'[q] = c
                            /\ c.at = "answered" /\ c.result = "not_started"
                            /\ c.number = call[q].number /\ c.tool = call[q].tool
  BY <1>2, CallMoves
<1>4. \A m, S : Recorded(q, m, S)' <=> Recorded(q, m, S)
  BY <1>2, TrailSame
<1>5. Underway(q)'
  BY <1>1, <1>2, <1>3, <1>4 DEF Underway
<1>6. effects[q] = 0 /\ ~Recorded(q, call[q].number, {"started"} \cup Results)
  BY <1>1, <1>2 DEF Underway
<1>7. "not_started" \notin Results
  BY DEF Results
<1>8. AnswerTrue(q)'
  BY <1>1, <1>2, <1>3, <1>4, <1>6, <1>7 DEF AnswerTrue
<1>9. QED
  BY <1>1, <1>2, <1>3, <1>5, <1>8, QuietSteps

LEMMA CallRefused ==
  ASSUME NEW q \in Wish, AuditInv, Refuse(q)
  PROVE  AuditInv'
<1>1. effects \in [Wish -> Nat] /\ Underway(q) /\ AnswerTrue(q)
  BY CallIs
<1>2. /\ call[q].at = "started" /\ Moves(q, "ran", "refused")
      /\ UNCHANGED <<mode, trail, effects>> /\ "refused" \in Result /\ "refused" \in Results
  BY DEF Refuse, Result, Results
<1>3. PICK c \in CallState : /\ call' = [call EXCEPT ![q] = c] /\ call'[q] = c
                            /\ c.at = "ran" /\ c.result = "refused"
                            /\ c.number = call[q].number /\ c.tool = call[q].tool
  BY <1>2, CallMoves
<1>4. \A m, S : Recorded(q, m, S)' <=> Recorded(q, m, S)
  BY <1>2, TrailSame
<1>5. Underway(q)'
  BY <1>1, <1>2, <1>3, <1>4 DEF Underway
<1>6. AnswerTrue(q)'
  BY <1>1, <1>2, <1>3, <1>4 DEF AnswerTrue, Permitted
<1>7. QED
  BY <1>1, <1>2, <1>3, <1>5, <1>6, QuietSteps

LEMMA ToolRun ==
  ASSUME NEW q \in Wish, AuditInv, RunTool(q)
  PROVE  AuditInv'
<1>1. /\ effects \in [Wish -> Nat] /\ effects[q] \in Nat /\ Underway(q) /\ AnswerTrue(q)
  BY CallIs
<1>2. /\ call[q].at = "started" /\ Permitted(call[q].tool) /\ UNCHANGED <<mode, trail>>
      /\ effects[q] = 0
  BY <1>1 DEF RunTool, Underway
<1>3. PICK result \in Results :
        /\ Moves(q, "ran", result)
        /\ \/ /\ effects' = [effects EXCEPT ![q] = @ + 1]
              /\ call[q].tool \in Deploys /\ result # "refused"
           \/ /\ UNCHANGED effects
              /\ result = "success" => call[q].tool \notin Deploys
  <2>1. {"success", "refused", "failed"} = Results
    BY DEF Results
  <2>2. QED
    BY <2>1 DEF RunTool
<1>4. result \in Result
  BY DEF Result
<1>5. PICK c \in CallState : /\ call' = [call EXCEPT ![q] = c] /\ call'[q] = c
                            /\ c.at = "ran" /\ c.result = result
                            /\ c.number = call[q].number /\ c.tool = call[q].tool
  BY <1>3, <1>4, CallMoves
<1>6. \A m, S : Recorded(q, m, S)' <=> Recorded(q, m, S)
  BY <1>2, TrailSame
<1>7. /\ effects' \in [Wish -> Nat] /\ \A x \in Wish : x # q => effects'[x] = effects[x]
      /\ effects'[q] \in {0, 1}
      /\ result = "refused" => effects'[q] = 0
      /\ result = "success" => (effects'[q] = 1 <=> call[q].tool \in Deploys)
  BY <1>1, <1>2, <1>3
<1>8. Underway(q)'
  BY <1>1, <1>2, <1>5, <1>6, <1>7 DEF Underway
<1>9. /\ effects'[q] <= 1 /\ Permitted(call[q].tool)'
      /\ Recorded(q, call[q].number, {"started"})
  BY <1>1, <1>2, <1>5, <1>7 DEF Underway, Permitted
<1>10. AnswerTrue(q)'
  BY <1>1, <1>2, <1>5, <1>6, <1>9 DEF AnswerTrue, Permitted
<1>11. QED
  BY <1>2, <1>5, <1>7, <1>8, <1>10, QuietSteps

LEMMA EndNotRecorded ==
  ASSUME NEW q \in Wish, AuditInv, EndUnrecorded(q)
  PROVE  AuditInv'
<1>1. effects \in [Wish -> Nat] /\ Underway(q) /\ AnswerTrue(q)
  BY CallIs
<1>2. /\ call[q].at = "ran" /\ Moves(q, "answered", "may_have_occurred")
      /\ UNCHANGED <<mode, trail, effects>>
      /\ "may_have_occurred" \in Result /\ "may_have_occurred" \notin Results
      /\ "may_have_occurred" \notin Harmless
  BY DEF EndUnrecorded, Answers, Result, Results, Harmless
<1>3. PICK c \in CallState : /\ call' = [call EXCEPT ![q] = c] /\ call'[q] = c
                            /\ c.at = "answered" /\ c.result = "may_have_occurred"
                            /\ c.number = call[q].number /\ c.tool = call[q].tool
  BY <1>2, CallMoves
<1>4. \A m, S : Recorded(q, m, S)' <=> Recorded(q, m, S)
  BY <1>2, TrailSame
<1>5. Underway(q)' /\ ~Recorded(q, call[q].number, Results)
  BY <1>1, <1>2, <1>3, <1>4 DEF Underway
<1>6. AnswerTrue(q)'
  BY <1>1, <1>2, <1>3, <1>4, <1>5 DEF AnswerTrue, Permitted
<1>7. QED
  BY <1>1, <1>2, <1>3, <1>5, <1>6, QuietSteps

LEMMA AgentsCutOff ==
  ASSUME AuditInv, AuditCrash
  PROVE  AuditInv'
<1> DEFINE lost(q) == [call[q] EXCEPT !.at = "answered", !.result = "lost"]
<1>1. /\ call' = [q \in Wish |-> IF InFlight(q) THEN lost(q) ELSE call[q]]
      /\ UNCHANGED <<mode, trail, effects>>
  BY ZenonT(60) DEF AuditCrash
<1>2. \A q \in Wish : /\ call[q] \in CallState /\ lost(q) \in CallState
                      /\ lost(q).at = "answered" /\ lost(q).result = "lost"
                      /\ lost(q).number = call[q].number /\ lost(q).tool = call[q].tool
  BY CallIs DEF CallState, Result
<1> HIDE DEF lost
<1>3. AuditTypeOK'
  <2>1. call' \in [Wish -> CallState]
    BY <1>1, <1>2
  <2>2. /\ mode' \in {"off", "readonly", "staging", "full"}
        /\ trail' \subseteq TrailRow /\ effects' \in [Wish -> Nat]
    BY <1>1, AuditTyped DEF AuditInv
  <2>3. QED
    BY <2>1, <2>2 DEF AuditTypeOK, CallState, Result, TrailRow
<1>4. ASSUME NEW q \in Wish PROVE Underway(q)' /\ AnswerTrue(q)'
  <2>1. Underway(q) /\ AnswerTrue(q)
    BY CallIs
  <2>2. CASE ~InFlight(q)
    <3>1. call'[q] = call[q] /\ effects'[q] = effects[q]
      BY <1>1, <2>2
    <3>2. QED
      BY <1>1, <2>1, <3>1, WishLeftAlone
  <2>3. CASE InFlight(q)
    <3>1. /\ call'[q].at = "answered" /\ call'[q].result = "lost"
          /\ call'[q].number = call[q].number /\ call'[q].tool = call[q].tool
          /\ effects'[q] = effects[q] /\ UNCHANGED mode
          /\ call[q].at \in {"asked", "started", "ran"}
      BY <1>1, <1>2, <2>3 DEF InFlight
    <3>2. \A m, S : Recorded(q, m, S)' <=> Recorded(q, m, S)
      BY <1>1, TrailSame
    <3>3. "lost" \notin Results /\ "lost" \notin Harmless
      BY DEF Results, Harmless
    <3>4. ~Recorded(q, call[q].number, Results)
      BY <2>1, <3>1 DEF Underway, Recorded
    <3>5. Underway(q)'
      BY <1>1, <2>1, <3>1, <3>2 DEF Underway
    <3>6. AnswerTrue(q)'
      BY <2>1, <3>1, <3>2, <3>3, <3>4 DEF AnswerTrue, Permitted
    <3>7. QED
      BY <3>5, <3>6
  <2>4. QED
    BY <2>2, <2>3
<1>5. QED
  BY <1>3, <1>4 DEF AuditInv

LEMMA AuditInitInv == AuditInit => AuditInv
<1> SUFFICES ASSUME AuditInit PROVE AuditInv
  OBVIOUS
<1>1. /\ mode \in {"off", "readonly", "staging", "full"}
      /\ call = [q \in Wish |-> Uncalled]
      /\ trail = {} /\ effects = [q \in Wish |-> 0]
  BY DEF AuditInit
<1>2. Uncalled \in CallState /\ Uncalled.at = "none" /\ Uncalled.number = 0
  BY AuditAssumption DEF Uncalled, CallState, Result, Tool
<1> HIDE DEF Uncalled
<1>3. AuditTypeOK
  BY <1>1, <1>2, AuditTyped
<1>4. ASSUME NEW q \in Wish PROVE Underway(q) /\ AnswerTrue(q)
  <2>1. call[q].at = "none" /\ call[q].number = 0 /\ effects[q] = 0
    BY <1>1, <1>2
  <2>2. \A m, S : ~Recorded(q, m, S)
    BY <1>1 DEF Recorded
  <2>3. Underway(q)
    BY <1>1, <2>1 DEF Underway
  <2>4. AnswerTrue(q)
    BY <2>1, <2>2 DEF AnswerTrue
  <2>5. QED
    BY <2>3, <2>4
<1>5. QED
  BY <1>3, <1>4 DEF AuditInv

LEMMA AuditStays == AuditInv /\ [AuditNext]_auditVars => AuditInv'
<1> SUFFICES ASSUME AuditInv, [AuditNext]_auditVars PROVE AuditInv'
  OBVIOUS
<1>1. CASE \E q \in Wish :
             \/ AskTool(q) \/ RecordStart(q) \/ NotStarted(q) \/ Refuse(q)
             \/ RunTool(q) \/ RecordEnd(q) \/ EndUnrecorded(q)
  BY <1>1, ToolAsked, StartRecorded, CallNotStarted, CallRefused, ToolRun, EndRecorded,
     EndNotRecorded
<1>2. CASE AuditCrash
  BY <1>2, AgentsCutOff
<1>3. CASE UNCHANGED auditVars
  <2>1. \A entry : entry \in trail' <=> entry \in trail
    BY <1>3 DEF auditVars
  <2>2. ASSUME NEW q \in Wish PROVE Underway(q)' /\ AnswerTrue(q)'
    BY <1>3, <2>1, CallIs, WishLeftAlone DEF auditVars
  <2>3. AuditTypeOK'
    BY <1>3 DEF auditVars, AuditInv, AuditTypeOK
  <2>4. QED
    BY <2>2, <2>3 DEF AuditInv
<1>4. QED
  BY <1>1, <1>2, <1>3 DEF AuditNext

\* Whatever fails between the records of a call, its answer is true, and nobody
\* who goes by the answers has a thing done twice.
THEOREM AnswersAreTrue == AuditSpec => []AnswersTrue
<1>1. AuditInv => AnswersTrue
  BY DEF AuditInv, AnswersTrue
<1>2. QED
  BY AuditInitInv, AuditStays, <1>1, PTL DEF AuditSpec

----------------------------------------------------------------------------
(* The services together                                                   *)

ServicesInv ==
  /\ NotificationInv /\ ApprovalInv /\ RegistryInv
  /\ ConnectionsInv /\ MigrationInv /\ AuditInv

\* Whichever service is open, each makes a step of its own or stands still.
LEMMA StepOfEach ==
  [ServicesNext]_servicesVars =>
    /\ [NotificationNext]_notificationVars /\ [ApprovalNext]_approvalVars
    /\ [RegistryNext]_registryVars /\ [ConnectionsNext]_connectionVars
    /\ [MigrationNext]_migrationVars /\ [AuditNext]_auditVars
<1> USE DEF OpenNotification, OpenApproval, OpenRegistry, OpenConnections, OpenMigration,
            OpenAudit
<1>1. UNCHANGED servicesVars =>
        UNCHANGED <<notificationVars, approvalVars, registryVars, connectionVars,
                    migrationVars, auditVars>>
  BY DEF servicesVars
<1>2. QED
  BY <1>1 DEF ServicesNext

LEMMA TypesOfEach == ServicesInv => ServicesTypeOK
<1>1. ApprovalInv => ApprovalTypeOK
  BY DEF ApprovalInv, ApprovalTypeOK, ClerkState, Standing
<1>2. (ConnectionsInv => ConnectionTypeOK) /\ (MigrationInv => MigrationTypeOK)
  BY DEF ConnectionsInv, MigrationInv
<1>3. AuditInv => AuditTypeOK
  BY DEF AuditInv
<1>4. QED
  BY <1>1, <1>2, <1>3, NotificationTypes, RegistryTypes DEF ServicesInv, ServicesTypeOK

\* Whatever one of the services does, every table, request and worker of all of
\* them holds what it can hold: none disturbs the state of another.
THEOREM ServicesTyped == ServicesSpec => []ServicesTypeOK
<1>1. ServicesInit => ServicesInv
  BY NotificationInitInv, ApprovalInitInv, RegistryInitInv, ConnectionsInitInv,
     MigrationInitInv, AuditInitInv
  DEF ServicesInit, ServicesInv
<1>2. ServicesInv /\ [ServicesNext]_servicesVars => ServicesInv'
  BY StepOfEach, NotificationStep, ApprovalStep, RegistryStep, ConnectionsStep,
     MigrationStays, AuditStays
  DEF ServicesInv
<1>3. QED
  BY <1>1, <1>2, TypesOfEach, PTL DEF ServicesSpec

\* The services together are each of them: what holds of one by itself holds of
\* it beside the others.
THEOREM ServicesImplementEach ==
  ServicesSpec =>
    /\ NotificationSpec /\ ApprovalSpec /\ RegistrySpec
    /\ ConnectionsSpec /\ MigrationSpec /\ AuditSpec
<1>1. ServicesInit =>
        /\ NotificationInit /\ ApprovalInit /\ RegistryInit
        /\ ConnectionsInit /\ MigrationInit /\ AuditInit
  BY DEF ServicesInit
<1>2. QED
  BY <1>1, StepOfEach, PTL
     DEF ServicesSpec, NotificationSpec, ApprovalSpec, RegistrySpec, ConnectionsSpec,
         MigrationSpec, AuditSpec

\* So every promise of a service is kept with all of them at work, as the run
\* of the services checks it.
THEOREM ServicesKeepPromises ==
  ServicesSpec =>
    /\ [](AttemptsBounded /\ FlowAgrees /\ AnsweredOnce)
    /\ [](HistoryKept /\ PositionsDistinct)
    /\ [](VerdictOfToken /\ RotationHolds /\ DefaultStays)
    /\ [](NeverUnguarded /\ RebuildFits /\ AnswersTrue)
    /\ SlotsGuarded /\ SentStays
BY ServicesImplementEach, AttemptsAreBounded, SentMailStays, WorkflowAgrees,
   TransitionsAnsweredOnce, DeployedIsKept, OneOrder, EditsGuardSlots, VerdictsMatch,
   RotationsHold, DefaultKept, GuardNeverOff, RowsFit, AnswersAreTrue, PTL
=============================================================================

------------------------------ MODULE MCLaunch ------------------------------
(* Two components on one repository, and callers that meet two at a time.  *)
EXTENDS Launch
CONSTANTS backend, frontend, r1, schedule1, job1, plan1, human1

MCOf == [i \in Intent |-> IF i = human1 THEN frontend ELSE backend]

\* What is not over from the start in an initial state.
Live ==
  {i \in Schedule : schedule[i].status = "ABSENT"} \cup {j \in Job : job[j].token}
    \cup {p \in Plan : plan[p].status = "absent"} \cup (Human \ asked)
Editable == {c \in Component : edits[c] = 0}

MCInit ==
  /\ Init
  /\ route = [c \in Component |-> r1]
  /\ \/ Live = {schedule1, human1} /\ Editable = {} /\ visits = 0
     \/ Live = {job1, human1} /\ Editable = {} /\ visits = MaxVisits
     \/ Live \in {{job1}, {plan1}} /\ Editable = {backend} /\ visits = 0
MCSpec == MCInit /\ [][Next]_vars /\ Fairness
=============================================================================

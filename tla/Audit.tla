------------------------------- MODULE Audit -------------------------------
(***************************************************************************)
(* MCPService.invoke: a call of a tool by an agent is put on record before *)
(* it is looked at and after it has ended, each time in a transaction of   *)
(* its own.  What the tools do is in ReleasePlan and BundlePromotion; here *)
(* a tool has the effect of a deployment or has none.  An agent asks again *)
(* for the same thing only after an answer that says nothing was done.     *)
(***************************************************************************)
EXTENDS Naturals

CONSTANTS
  Wish,      \* what agents want done, each by one tool
  MaxCalls   \* bound on the calls for one of them

ASSUME AuditAssumption == MaxCalls \in Nat \ {0}

VARIABLES
  mode,      \* MCP_MODE, or "off": MCP_ENABLED is not set
  call,      \* of each wish, its latest call
  trail,     \* the table mcp_tool_invocations
  effects    \* of each wish, how often it was carried out

auditVars == <<mode, call, trail, effects>>

Tool == {"query", "deploy_staging", "promote_to_production", "rollback", "unregistered"}
Deploys == {"deploy_staging", "promote_to_production"}
Harmless == {"not_started", "refused"}
Uncalled == [tool |-> "query", number |-> 0, at |-> "none", result |-> "none"]

AuditInit ==
  /\ mode \in {"off", "readonly", "staging", "full"}
  /\ call = [q \in Wish |-> Uncalled]
  /\ trail = {} /\ effects = [q \in Wish |-> 0]

\* authorize; WRITE_TOOLS has rollback too, which no mode carries out.
Permitted(tool) ==
  /\ mode # "off"
  /\ \/ tool \notin Deploys \cup {"rollback"}
     \/ mode = "full"
     \/ mode = "staging" /\ tool = "deploy_staging"

InFlight(q) == call[q].at \in {"asked", "started", "ran"}
Row(q, status) == [wish |-> q, number |-> call[q].number, status |-> status]
Moves(q, at, result) == call' = [call EXCEPT ![q].at = at, ![q].result = result]
Answers(q, answer) == Moves(q, "answered", answer)

AskTool(q) ==
  /\ call[q].number < MaxCalls
  /\ \/ call[q].at = "none"
     \/ call[q].at = "answered" /\ call[q].result \in Harmless
  /\ \E tool \in Tool :
       /\ call[q].at # "none" => tool = call[q].tool
       /\ call' = [call EXCEPT ![q] =
            [tool |-> tool, number |-> @.number + 1, at |-> "asked", result |-> "none"]]
  /\ UNCHANGED <<mode, trail, effects>>

RecordStart(q) ==
  /\ call[q].at = "asked"
  /\ trail' = trail \cup {Row(q, "started")}
  /\ Moves(q, "started", "none")
  /\ UNCHANGED <<mode, effects>>

\* Mutant: a record that cannot be written does not stop the call.
StartUnrecorded(q) ==
  /\ call[q].at = "asked"
  /\ Moves(q, "started", "none")
  /\ UNCHANGED <<mode, trail, effects>>
NotStarted(q) ==
  /\ call[q].at = "asked"
  /\ Answers(q, "not_started")
  /\ UNCHANGED <<mode, trail, effects>>

Refuse(q) ==
  /\ call[q].at = "started"
  /\ ~Permitted(call[q].tool) \/ call[q].tool = "unregistered"
  /\ Moves(q, "ran", "refused")
  /\ UNCHANGED <<mode, trail, effects>>

\* The tool, and the redaction of its result: it may refuse by itself, and it
\* may fail before or after it has done something.
RunTool(q) ==
  /\ call[q].at = "started"
  /\ Permitted(call[q].tool) /\ call[q].tool # "unregistered"
  /\ \/ /\ call[q].tool \in Deploys
        /\ effects' = [effects EXCEPT ![q] = @ + 1]
        /\ \E result \in {"success", "failed"} : Moves(q, "ran", result)
     \/ /\ call[q].tool \in Deploys
        /\ UNCHANGED effects
        /\ \E result \in {"refused", "failed"} : Moves(q, "ran", result)
     \/ /\ call[q].tool \notin Deploys
        /\ UNCHANGED effects
        /\ \E result \in {"success", "failed"} : Moves(q, "ran", result)
  /\ UNCHANGED <<mode, trail>>

RecordEnd(q) ==
  /\ call[q].at = "ran"
  /\ trail' = trail \cup {Row(q, call[q].result)}
  /\ Answers(q, call[q].result)
  /\ UNCHANGED <<mode, effects>>

\* "execution may have occurred"
EndUnrecorded(q) ==
  /\ call[q].at = "ran"
  /\ Answers(q, "may_have_occurred")
  /\ UNCHANGED <<mode, trail, effects>>

\* The agents lose their connections.
AuditCrash ==
  /\ \E q \in Wish : InFlight(q)
  /\ call' = [q \in Wish |-> IF InFlight(q) THEN [call[q] EXCEPT !.at = "answered", !.result = "lost"]
                             ELSE call[q]]
  /\ UNCHANGED <<mode, trail, effects>>

AuditNext ==
  \/ \E q \in Wish :
       \/ AskTool(q) \/ RecordStart(q) \/ NotStarted(q) \/ Refuse(q)
       \/ RunTool(q) \/ RecordEnd(q) \/ EndUnrecorded(q)
  \/ AuditCrash

AuditSpec == AuditInit /\ [][AuditNext]_auditVars

----------------------------------------------------------------------------
Results == {"success", "refused", "failed"}
AuditTypeOK ==
  /\ mode \in {"off", "readonly", "staging", "full"}
  /\ call \in [Wish -> [tool : Tool, number : 0..MaxCalls,
                        at : {"none", "asked", "started", "ran", "answered"},
                        result : {"none", "not_started", "may_have_occurred", "lost"} \cup Results]]
  /\ trail \subseteq [wish : Wish, number : 1..MaxCalls, status : {"started"} \cup Results]
  /\ effects \in [Wish -> Nat]

Recorded(q, number, statuses) ==
  \E row \in trail : row.wish = q /\ row.number = number /\ row.status \in statuses

AnswerTrue(q) ==
  LET answer == call[q].result
      n == call[q].number IN
  /\ effects[q] <= 1
  /\ effects[q] = 1 => Permitted(call[q].tool) /\ Recorded(q, n, {"started"})
  /\ call[q].at = "answered" =>
       /\ answer \in Harmless => effects[q] = 0
       /\ answer = "success" => (effects[q] = 1 <=> call[q].tool \in Deploys)
       /\ answer = "not_started" => ~Recorded(q, n, {"started"} \cup Results)
       /\ answer \in Results => Recorded(q, n, {"started"}) /\ Recorded(q, n, {answer})
       /\ answer \in {"may_have_occurred", "lost"} => ~Recorded(q, n, Results)
  /\ \A m \in 1..MaxCalls :
       Recorded(q, m, Results) /\ m < n => Recorded(q, m, {"refused"})

\* docs/mcp.md: every call that is carried out is on record beforehand, an
\* answer is what the record says, "not started" and "may have occurred" are
\* said when they are true, and so an agent that asks again only when nothing
\* was done never has a thing done twice.
AnswersTrue == \A q \in Wish : AnswerTrue(q)
=============================================================================

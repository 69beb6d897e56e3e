-------------------------- MODULE CoordinatorProofs --------------------------
(***************************************************************************)
(* What holds of the coordinator for every set of tools, every iteration   *)
(* limit, both execution modes and plans of any length.                    *)
(***************************************************************************)
EXTENDS Coordinator, TLAPS

LEMMA PromptTypes ==
  ASSUME NEW steps \in Seq(Steps), NEW index \in Nat, NEW plan \in Nat,
         NEW ok \in BOOLEAN
  PROVE  /\ InitialPrompt(steps, index, plan) \in Prompts
         /\ ToolResultPrompt(ok, steps, index) \in Prompts
<1>1. /\ Ask("legacy") \in Prompts
      /\ Ask("query") \in Prompts
      /\ Ask("summary") \in Prompts
      /\ Ask("give_up") \in Prompts
      /\ Ask("observation") \in Prompts
  BY DEF Ask, Prompts, Kinds, NoStep, Step, Steps
<1>2. ASSUME index < Len(steps)
      PROVE  /\ Do(steps[index + 1]) \in Prompts
             /\ [kind |-> "retry", step |-> steps[index + 1]] \in Prompts
  <2>1. index + 1 \in 1 .. Len(steps)
    BY <1>2
  <2>2. steps[index + 1] \in Steps
    BY <2>1
  <2> QED
    BY <2>2 DEF Do, Prompts, Kinds
<1> QED
  BY <1>1, <1>2 DEF InitialPrompt, ToolResultPrompt

LEMMA RevisedType ==
  ASSUME NEW r \in Nat, NEW n \in Nat, query \in Nat
  PROVE  Revised(r, n) \in Seq(Steps)
BY DEF Revised, Step, Steps

LEMMA RememberType ==
  ASSUME TypeOK, NEW kind \in {"query", "plan", "observation", "answer"},
         Remember(kind)
  PROVE  conversation_history' \in Seq({"query", "plan", "observation", "answer"})
BY DEF Remember, TypeOK

LEMMA ReturnTypes ==
  ASSUME TypeOK, NEW s \in BOOLEAN, NEW e \in Errors, NEW n \in Nat, Return(s, e, n)
  PROVE  /\ pc' = "idle"
         /\ iteration' \in Nat
         /\ prompt' \in Prompts
         /\ result' \in [success : BOOLEAN, error : Errors, iterations : Nat]
<1>1. Ask("none") \in Prompts
  BY DEF Ask, Prompts, Kinds, NoStep, Step, Steps
<1> QED
  BY <1>1 DEF Return, TypeOK

\* What the head of a loop does to the variables it sets, on either branch.
LEMMA LoopHeadTypes ==
  ASSUME TypeOK, NEW n \in Nat, NEW p \in Prompts, LoopHead(n, p)
  PROVE  /\ pc' \in {"idle", "request"}
         /\ iteration' \in Nat
         /\ pc' = "request" => iteration' < MaxIterations
         /\ prompt' \in Prompts
         /\ result' \in [success : BOOLEAN, error : Errors, iterations : Nat]
<1>1. ASSUME n < MaxIterations, pc' = "request", iteration' = n, prompt' = p,
             result' = NoResult
      PROVE  result' \in [success : BOOLEAN, error : Errors, iterations : Nat]
  BY <1>1 DEF NoResult, Errors
<1>2. "max_iterations" \in Errors
  BY DEF Errors
<1> QED
  BY <1>1, <1>2, ReturnTypes DEF LoopHead

LEMMA SystemPromptType ==
  ASSUME NEW planning \in BOOLEAN, NEW ts \in SUBSET Tools
  PROVE  SystemPrompt(planning, ts) \in Generated
BY DEF SystemPrompt, Generated, Phases

LEMMA ExecuteTypes ==
  ASSUME TypeOK, NEW steps \in Seq(Steps), NEW index \in Nat,
         Execute(steps, index), planned' \in 0 .. Unparsed
  PROVE  TypeOK'
<1>1. InitialPrompt(steps, index, query) \in Prompts
  BY PromptTypes DEF TypeOK
<1>2. conversation_history' \in Seq({"query", "plan", "observation", "answer"})
  BY RememberType DEF Execute
<1>3. SystemPrompt(FALSE, tools) \in Generated
  BY SystemPromptType DEF TypeOK
<1>4. LoopHead(0, InitialPrompt(steps, index, query))
  BY DEF Execute
<1>5. /\ pc' \in {"idle", "request"}
      /\ iteration' \in Nat
      /\ pc' = "request" => iteration' < MaxIterations
      /\ prompt' \in Prompts
      /\ result' \in [success : BOOLEAN, error : Errors, iterations : Nat]
  BY <1>1, <1>4, LoopHeadTypes
<1>6. /\ current_plan' \in 0 .. query'
      /\ query' \in Nat
  BY DEF Execute, TypeOK
<1>7. /\ generated_system_prompt' \in Generated \cup {NoPrompt}
      /\ system_prompt' \in Generated \cup {NoPrompt, Custom}
  BY <1>3 DEF Execute, TypeOK
<1>8. /\ execution_mode' \in Modes
      /\ custom_prompt' \in BOOLEAN
      /\ tools' \subseteq Tools
      /\ current_plan_steps' \in Seq(Steps)
      /\ current_step_index' \in Nat
      /\ last_reflection' \in BOOLEAN
      /\ plan_revised' \in BOOLEAN
  BY DEF Execute, TypeOK, configVars
<1>9. /\ reflection_count' \in Nat
      /\ requests' \in Nat
      /\ done' \in Nat
  BY DEF Execute, TypeOK
<1> QED
  BY <1>2, <1>5, <1>6, <1>7, <1>8, <1>9 DEF TypeOK, Unparsed

LEMMA ReflectionTypes ==
  ASSUME TypeOK, NEW steps \in Seq(Steps), Reflection(steps), plan_revised' \in BOOLEAN
  PROVE  TypeOK'
<1>1. InitialPrompt(steps, current_step_index, current_plan) \in Prompts
  BY PromptTypes DEF TypeOK
<1>2. iteration + 1 \in Nat
  BY DEF TypeOK
<1>3. LoopHead(iteration + 1, InitialPrompt(steps, current_step_index, current_plan))
  BY DEF Reflection
<1> QED
  BY <1>1, <1>2, <1>3, LoopHeadTypes DEF Reflection, TypeOK, promptVars

LEMMA ToolReturnsTypes ==
  ASSUME TypeOK, NEW ok \in BOOLEAN, NEW index \in Nat, ToolReturns(ok, index),
         done' \in Nat
  PROVE  TypeOK'
<1>1. ToolResultPrompt(ok, current_plan_steps, index) \in Prompts
  BY PromptTypes DEF TypeOK
<1>2. conversation_history' \in Seq({"query", "plan", "observation", "answer"})
  BY RememberType DEF ToolReturns
<1>3. iteration + 1 \in Nat
  BY DEF TypeOK
<1>4. LoopHead(iteration + 1, ToolResultPrompt(ok, current_plan_steps, index))
  BY DEF ToolReturns
<1> QED
  BY <1>1, <1>2, <1>3, <1>4, LoopHeadTypes DEF ToolReturns, TypeOK, promptVars, reflectVars

LEMMA KeptStepsType ==
  ASSUME TypeOK
  PROVE  KeptSteps \in Seq(Steps)
BY DEF KeptSteps, TypeOK

\* The values a new coordinator and a new query start from are well typed.
LEMMA StartTypes ==
  /\ NoResult \in [success : BOOLEAN, error : Errors, iterations : Nat]
  /\ Ask("none") \in Prompts
  /\ Ask("query") \in Prompts
  /\ Unparsed \in 0 .. Unparsed
<1>1. NoResult \in [success : BOOLEAN, error : Errors, iterations : Nat]
  BY DEF NoResult, Errors
<1>2. Ask("none") \in Prompts /\ Ask("query") \in Prompts
  BY DEF Ask, Prompts, Kinds, NoStep, Step, Steps
<1>3. Unparsed \in 0 .. Unparsed
  BY CoordinatorAssumption DEF Unparsed
<1> QED
  BY <1>1, <1>2, <1>3

\* The coordinator's state is well typed, and a request or a tool call always
\* belongs to one of the MaxIterations rounds of its loop.
THEOREM TypeCorrect == Spec => []TypeOK
<1>1. Init => TypeOK
  <2> SUFFICES ASSUME Init
               PROVE  TypeOK
    OBVIOUS
  <2>1. /\ tools \subseteq Tools
        /\ generated_system_prompt \in Generated \cup {NoPrompt}
        /\ system_prompt \in Generated \cup {NoPrompt, Custom}
        /\ current_plan \in 0 .. query
        /\ current_plan_steps \in Seq(Steps)
        /\ conversation_history \in Seq({"query", "plan", "observation", "answer"})
    BY DEF Init
  <2> QED
    BY <2>1, StartTypes DEF Init, TypeOK
<1>2. TypeOK /\ [Next]_vars => TypeOK'
  <2> SUFFICES ASSUME TypeOK, [Next]_vars
               PROVE  TypeOK'
    OBVIOUS
  <2>1. ASSUME NEW t \in Tools, RegisterTool(t)
        PROVE  TypeOK'
    <3>1. tools' \in SUBSET Tools
      BY <2>1 DEF RegisterTool, TypeOK
    <3>2. SystemPrompt(FALSE, tools') \in Generated
      BY <3>1, SystemPromptType
    <3> QED
      BY <2>1, <3>1, <3>2 DEF RegisterTool, TypeOK, configVars, planVars, reflectVars
  <2>2. CASE ClearHistory
    BY <2>2 DEF ClearHistory, TypeOK, promptVars, planVars, reflectVars
  <2>3. CASE Query
    <3>1. /\ generated_system_prompt' \in Generated \cup {NoPrompt}
          /\ system_prompt' \in Generated \cup {NoPrompt, Custom}
      <4>1. SystemPrompt(execution_mode = "PLAN_REFLECT", tools) \in Generated
        BY SystemPromptType DEF TypeOK
      <4> QED
        BY <2>3, <4>1 DEF Query, PrepareConfig, TypeOK
    <3>2. conversation_history' \in Seq({"query", "plan", "observation", "answer"})
      BY <2>3, RememberType DEF Query
    <3>3. Ask("query") \in Prompts
      BY StartTypes
    <3>4. /\ pc' \in {"idle", "plan", "request"}
          /\ iteration' \in Nat
          /\ pc' = "request" => iteration' < MaxIterations
          /\ prompt' \in Prompts
          /\ result' \in [success : BOOLEAN, error : Errors, iterations : Nat]
      <4>1. CASE LoopHead(0, Ask("query"))
        BY <3>3, <4>1, LoopHeadTypes
      <4>2. CASE pc' = "plan" /\ iteration' = 0 /\ prompt' = Ask("query") /\ result' = NoResult
        BY <3>3, <4>2 DEF NoResult, Errors
      <4> QED
        BY <2>3, <4>1, <4>2 DEF Query
    <3>5. /\ current_plan' \in 0 .. query'
          /\ query' \in Nat
          /\ requests' \in Nat
          /\ done' \in Nat
      BY <2>3 DEF Query, TypeOK
    <3>6. planned' \in 0 .. Unparsed
      BY <2>3, CoordinatorAssumption DEF Query, Unparsed
    <3>7. /\ execution_mode' \in Modes
          /\ custom_prompt' \in BOOLEAN
          /\ tools' \subseteq Tools
          /\ current_plan_steps' \in Seq(Steps)
          /\ current_step_index' \in Nat
      BY <2>3 DEF Query, TypeOK, configVars
    <3>8. /\ last_reflection' \in BOOLEAN
          /\ reflection_count' \in Nat
          /\ plan_revised' \in BOOLEAN
      BY <2>3 DEF Query
    <3> QED
      BY <3>1, <3>2, <3>4, <3>5, <3>6, <3>7, <3>8 DEF TypeOK, Unparsed
  <2>4. CASE PlanningFails
    <3>1. "planning" \in Errors /\ Return(FALSE, "planning", 1)
      BY <2>4 DEF PlanningFails, Errors
    <3>2. /\ pc' = "idle"
          /\ iteration' \in Nat
          /\ prompt' \in Prompts
          /\ result' \in [success : BOOLEAN, error : Errors, iterations : Nat]
      BY <3>1, ReturnTypes
    <3> QED
      BY <2>4, <3>2 DEF PlanningFails, TypeOK, promptVars, planVars, reflectVars
  <2>5. ASSUME NEW n \in 0 .. MaxSteps, PlanParsed(n)
        PROVE  TypeOK'
    <3>1. planned' \in 0 .. Unparsed
      BY <2>5, CoordinatorAssumption DEF PlanParsed, Unparsed
    <3>2. Revised(0, n) \in Seq(Steps)
      BY RevisedType, CoordinatorAssumption DEF TypeOK
    <3>3. (IF n > 0 THEN 0 ELSE current_step_index) \in Nat
      BY DEF TypeOK
    <3> QED
      BY <2>5, <3>1, <3>2, <3>3, ExecuteTypes DEF PlanParsed
  <2>6. CASE PlanUnparsed
    <3>1. planned' \in 0 .. Unparsed
      BY <2>6 DEF PlanUnparsed, TypeOK
    <3> QED
      BY <2>6, <3>1, ExecuteTypes DEF PlanUnparsed, TypeOK
  <2>7. CASE RequestFails
    BY <2>7 DEF RequestFails, TypeOK, promptVars, planVars, reflectVars
  <2>8. CASE Answer
    <3>1. "none" \in Errors /\ iteration + 1 \in Nat
      BY DEF Errors, TypeOK
    <3>2. conversation_history' \in Seq({"query", "plan", "observation", "answer"})
      BY <2>8, RememberType DEF Answer
    <3>3. Return(TRUE, "none", iteration + 1)
      BY <2>8 DEF Answer
    <3>4. /\ pc' = "idle"
          /\ iteration' \in Nat
          /\ prompt' \in Prompts
          /\ result' \in [success : BOOLEAN, error : Errors, iterations : Nat]
      BY <3>1, <3>3, ReturnTypes
    <3> QED
      BY <2>8, <3>2, <3>4 DEF Answer, TypeOK, promptVars, planVars, reflectVars
  <2>9. CASE Reflect
    <3>1. current_plan_steps \in Seq(Steps) /\ plan_revised' \in BOOLEAN
      BY <2>9 DEF Reflect, TypeOK
    <3> QED
      BY <2>9, <3>1, ReflectionTypes DEF Reflect
  <2>10. ASSUME NEW n \in 0 .. MaxSteps, Revise(n)
         PROVE  TypeOK'
    <3>1. Revised(reflection_count + 1, n) \in Seq(Steps)
      BY RevisedType, CoordinatorAssumption DEF TypeOK
    <3>2. KeptSteps \o Revised(reflection_count + 1, n) \in Seq(Steps)
      BY <3>1, KeptStepsType
    <3> QED
      BY <2>10, <3>2, ReflectionTypes DEF Revise
  <2>11. CASE BadToolCall
    <3>1. {"parse", "not_found"} \subseteq Errors /\ iteration + 1 \in Nat
      BY DEF Errors, TypeOK
    <3>2. \/ Return(FALSE, "parse", iteration + 1)
          \/ Return(FALSE, "not_found", iteration + 1)
      BY <2>11 DEF BadToolCall
    <3>3. /\ pc' = "idle"
          /\ iteration' \in Nat
          /\ prompt' \in Prompts
          /\ result' \in [success : BOOLEAN, error : Errors, iterations : Nat]
      BY <3>1, <3>2, ReturnTypes
    <3> QED
      BY <2>11, <3>3 DEF BadToolCall, TypeOK, promptVars, planVars, reflectVars
  <2>12. CASE CallTool
    BY <2>12 DEF CallTool, TypeOK, promptVars, planVars, reflectVars
  <2>13. CASE ToolSucceeds
    <3>1. (IF execution_mode = "PLAN_REFLECT" THEN current_step_index + 1 ELSE current_step_index) \in Nat
      BY DEF TypeOK
    <3>2. done' \in Nat
      BY <2>13 DEF ToolSucceeds, TypeOK
    <3> QED
      BY <2>13, <3>1, <3>2, ToolReturnsTypes DEF ToolSucceeds
  <2>14. CASE ToolFails
    <3>1. current_step_index \in Nat /\ done' \in Nat
      BY <2>14 DEF ToolFails, TypeOK
    <3> QED
      BY <2>14, <3>1, ToolReturnsTypes DEF ToolFails
  <2>15. CASE Restart
    <3>1. /\ tools' \subseteq Tools
          /\ generated_system_prompt' \in Generated \cup {NoPrompt}
          /\ system_prompt' \in Generated \cup {NoPrompt, Custom}
          /\ current_plan' \in 0 .. query'
          /\ query' \in Nat
          /\ current_plan_steps' \in Seq(Steps)
          /\ conversation_history' \in Seq({"query", "plan", "observation", "answer"})
      BY <2>15 DEF Restart, TypeOK
    <3>2. planned' \in 0 .. Unparsed /\ prompt' \in Prompts
      BY <2>15, StartTypes DEF Restart
    <3>3. result' \in [success : BOOLEAN, error : Errors, iterations : Nat]
      BY <2>15, StartTypes DEF Restart
    <3> QED
      BY <2>15, <3>1, <3>2, <3>3 DEF Restart, TypeOK, Unparsed
  <2>16. CASE UNCHANGED vars
    BY <2>16 DEF vars, TypeOK
  <2> QED
    BY <2>1, <2>2, <2>3, <2>4, <2>5, <2>6, <2>7, <2>8, <2>9, <2>10, <2>11, <2>12,
       <2>13, <2>14, <2>15, <2>16 DEF Next, Respond, ToolAnswers
<1> QED
  BY <1>1, <1>2, PTL DEF Spec
-----------------------------------------------------------------------------
(***************************************************************************)
(* Counting.  A result's iterations equal the requests only because both   *)
(* follow the loop counter while the query runs; that is the strengthening. *)
(***************************************************************************)

\* The planning request a query makes before its loop.
Planning == IF execution_mode = "PLAN_REFLECT" THEN 1 ELSE 0

CountInv ==
  /\ pc = "plan" => execution_mode = "PLAN_REFLECT" /\ requests = 0
  /\ pc = "request" => requests = iteration + Planning
  /\ pc = "tool" => requests = iteration + 1 + Planning
  /\ pc # "idle" => result = NoResult
  /\ IterationsCountRequests

LEMMA ReturnCounts ==
  ASSUME NEW s \in BOOLEAN, NEW e, e # "planning", NEW n \in Nat,
         Return(s, e, n), requests' = n + Planning,
         execution_mode \in Modes, execution_mode' = execution_mode
  PROVE  CountInv'
<1>1. pc' = "idle" /\ result'.iterations = n + Planning
  BY DEF Return, Planning, Modes
<1> QED
  BY <1>1 DEF CountInv, IterationsCountRequests

LEMMA LoopHeadCounts ==
  ASSUME NEW n \in Nat, NEW p, LoopHead(n, p), requests' = n + Planning,
         execution_mode \in Modes, execution_mode' = execution_mode
  PROVE  CountInv'
<1>1. CASE n < MaxIterations /\ pc' = "request" /\ iteration' = n /\ result' = NoResult
  BY <1>1 DEF CountInv, IterationsCountRequests, Planning
<1>2. CASE Return(FALSE, "max_iterations", n)
  BY <1>2, ReturnCounts
<1> QED
  BY <1>1, <1>2 DEF LoopHead

LEMMA Counting == Spec => []CountInv
<1>1. Init => CountInv
  BY DEF Init, CountInv, IterationsCountRequests
<1>2. TypeOK /\ CountInv /\ [Next]_vars => CountInv'
  <2> SUFFICES ASSUME TypeOK, CountInv, [Next]_vars
               PROVE  CountInv'
    OBVIOUS
  <2>0. /\ iteration \in Nat /\ iteration + 1 \in Nat
        /\ requests \in Nat
        /\ execution_mode \in Modes
    BY DEF TypeOK
  <2>1. ASSUME NEW t \in Tools, RegisterTool(t)
        PROVE  CountInv'
    BY <2>1 DEF RegisterTool, CountInv, IterationsCountRequests, Planning, configVars
  <2>2. CASE ClearHistory
    BY <2>2 DEF ClearHistory, CountInv, IterationsCountRequests, Planning, promptVars
  <2>3. CASE Query
    <3>1. CASE execution_mode = "AGENTIC" /\ LoopHead(0, Ask("query"))
      <4>1. requests' = 0 + Planning /\ execution_mode' = execution_mode
        BY <2>3, <3>1 DEF Query, Planning, configVars
      <4> QED
        BY <2>0, <3>1, <4>1, LoopHeadCounts
    <3>2. CASE execution_mode = "PLAN_REFLECT" /\ pc' = "plan" /\ result' = NoResult
      BY <2>3, <3>2 DEF Query, CountInv, IterationsCountRequests, configVars
    <3> QED
      BY <2>3, <3>1, <3>2 DEF Query
  <2>4. CASE PlanningFails
    <3>1. requests' = 1
      BY <2>4 DEF PlanningFails, CountInv
    <3>2. pc' = "idle" /\ result'.iterations = 1
      BY <2>4 DEF PlanningFails, Return
    <3> QED
      BY <3>1, <3>2 DEF CountInv, IterationsCountRequests
  <2>5. ASSUME NEW steps, NEW index, Execute(steps, index)
        PROVE  CountInv'
    <3>1. requests' = 0 + Planning /\ execution_mode' = execution_mode
      BY <2>5 DEF Execute, CountInv, Planning, configVars
    <3> QED
      BY <2>0, <2>5, <3>1, LoopHeadCounts DEF Execute
  <2>6. CASE RequestFails
    BY <2>6 DEF RequestFails, CountInv, IterationsCountRequests
  <2>7. CASE Answer
    <3>1. requests' = (iteration + 1) + Planning /\ execution_mode' = execution_mode
      BY <2>0, <2>7 DEF Answer, CountInv, Planning, promptVars
    <3> QED
      BY <2>0, <2>7, <3>1, ReturnCounts DEF Answer
  <2>8. ASSUME NEW steps, Reflection(steps)
        PROVE  CountInv'
    <3>1. requests' = (iteration + 1) + Planning /\ execution_mode' = execution_mode
      BY <2>0, <2>8 DEF Reflection, CountInv, Planning, promptVars
    <3> QED
      BY <2>0, <2>8, <3>1, LoopHeadCounts DEF Reflection
  <2>9. CASE BadToolCall
    <3>1. requests' = (iteration + 1) + Planning /\ execution_mode' = execution_mode
      BY <2>0, <2>9 DEF BadToolCall, CountInv, Planning, promptVars
    <3> QED
      BY <2>0, <2>9, <3>1, ReturnCounts DEF BadToolCall
  <2>10. CASE CallTool
    BY <2>0, <2>10 DEF CallTool, CountInv, IterationsCountRequests, Planning, promptVars
  <2>11. ASSUME NEW ok, NEW index, ToolReturns(ok, index)
         PROVE  CountInv'
    <3>1. requests' = (iteration + 1) + Planning /\ execution_mode' = execution_mode
      BY <2>0, <2>11 DEF ToolReturns, CountInv, promptVars
    <3> QED
      BY <2>0, <2>11, <3>1, LoopHeadCounts DEF ToolReturns
  <2>12. CASE Restart
    BY <2>12 DEF Restart, CountInv, IterationsCountRequests
  <2>13. CASE UNCHANGED vars
    BY <2>13 DEF vars, CountInv, IterationsCountRequests, Planning
  <2> QED
    BY <2>1, <2>2, <2>3, <2>4, <2>5, <2>6, <2>7, <2>8, <2>9, <2>10, <2>11, <2>12, <2>13
    DEF Next, Respond, ToolAnswers, PlanParsed, PlanUnparsed, Reflect, Revise,
        ToolSucceeds, ToolFails
<1> QED
  BY <1>1, <1>2, TypeCorrect, PTL DEF Spec

\* Whatever the provider and the tools do, the iterations a result reports are
\* the provider requests the query made.
THEOREM IterationsCounted == Spec => []IterationsCountRequests
<1>1. CountInv => IterationsCountRequests
  BY DEF CountInv
<1> QED
  BY <1>1, Counting, PTL
-----------------------------------------------------------------------------
(***************************************************************************)
(* Refinement.  A step of the coordinator spends a request, ends the       *)
(* session's query or leaves the session as it is.                         *)
(***************************************************************************)

Limit == IF execution_mode = "PLAN_REFLECT" THEN MaxIterations + 1 ELSE MaxIterations

LEMMA LimitType == Limit \in Nat /\ Limit = MaxIterations + Planning /\ Planning \in Nat
BY CoordinatorAssumption DEF Limit, Planning

\* Only a new coordinator has another budget.
LEMMA LimitKept ==
  ASSUME [Next]_vars
  PROVE  Restart \/ UNCHANGED Limit
<1>1. CASE \E t \in Tools : RegisterTool(t)
  BY <1>1 DEF RegisterTool, Limit, configVars
<1>2. CASE ClearHistory \/ Query
  BY <1>2 DEF ClearHistory, Query, Limit, promptVars, configVars
<1>3. CASE Respond
  BY <1>3 DEF Respond, PlanningFails, PlanParsed, PlanUnparsed, Execute, RequestFails, Answer,
     Reflect, Revise, Reflection, BadToolCall, CallTool, Limit, promptVars, configVars
<1>4. CASE ToolAnswers
  BY <1>4 DEF ToolAnswers, ToolSucceeds, ToolFails, ToolReturns, Limit, promptVars
<1>5. CASE UNCHANGED vars
  BY <1>5 DEF vars, Limit
<1> QED
  BY <1>1, <1>2, <1>3, <1>4, <1>5 DEF Next

\* An error result ends the query in the session, a loop that goes on keeps
\* it busy and has a request left.
LEMMA ReturnStatus ==
  ASSUME NEW s \in BOOLEAN, NEW e, NEW n, Return(s, e, n), s \/ e # "none"
  PROVE  /\ Status' = "idle"
         /\ Outcome' = IF s THEN "success" ELSE "error"
BY DEF Return, Status, Outcome, NoResult

LEMMA LoopHeadStatus ==
  ASSUME NEW n \in Nat, NEW p, LoopHead(n, p)
  PROVE  \/ Status' = "busy" /\ Outcome' = "none" /\ n < MaxIterations
         \/ Status' = "idle" /\ Outcome' = "error"
<1>1. CASE n < MaxIterations /\ pc' = "request" /\ result' = NoResult
  BY <1>1 DEF Status, Outcome
<1>2. CASE Return(FALSE, "max_iterations", n)
  BY <1>2, ReturnStatus
<1> QED
  BY <1>1, <1>2 DEF LoopHead

\* The session a query runs in: it is busy and nothing has come of it yet.
LEMMA BusySession ==
  ASSUME TypeOK, CountInv, pc \in {"plan", "request", "tool"}
  PROVE  /\ Status = "busy"
         /\ Outcome = "none"
         /\ requests \in Nat
         /\ pc # "tool" => requests < Limit
<1>1. Status = "busy" /\ Outcome = "none"
  BY DEF CountInv, Status, Outcome
<1>2. CASE pc = "plan"
  BY <1>1, <1>2, CoordinatorAssumption DEF TypeOK, CountInv, Limit
<1>3. CASE pc = "request"
  <2>1. requests = iteration + Planning /\ iteration < MaxIterations
    BY <1>3 DEF TypeOK, CountInv
  <2> QED
    BY <1>1, <1>3, <2>1, LimitType, CoordinatorAssumption DEF TypeOK
<1> QED
  BY <1>1, <1>2, <1>3 DEF TypeOK

\* The coordinator implements the abstract session: no query makes more
\* requests than its budget, and every query has one outcome.
THEOREM Refinement == Spec => ImplementsSession
<1>1. Init => S!Init
  BY LimitType DEF Init, S!Init, Status, Outcome, Limit
<1>2. TypeOK /\ CountInv /\ [Next]_vars => [S!Next]_(S!vars)
  <2> SUFFICES ASSUME TypeOK, CountInv, [Next]_vars
               PROVE  Restart \/ S!Query \/ UNCHANGED <<Status, requests, Outcome>>
    <3>1. CASE Restart
      <4>1. Limit' \in Nat
        BY CoordinatorAssumption DEF Limit
      <4> QED
        BY <3>1, <4>1 DEF Restart, S!Next, S!Restart, Status, Outcome, Limit
    <3> QED
      BY <3>1, LimitKept DEF S!Next, S!vars, Limit
  <2> USE DEF S!Query
  <2>1. CASE \/ \E t \in Tools : RegisterTool(t)
             \/ ClearHistory
    BY <2>1 DEF RegisterTool, ClearHistory, Status, Outcome
  <2>2. CASE Query
    <3>1. Status = "idle" /\ requests' = 0
      BY <2>2 DEF Query, Status
    <3>2. CASE LoopHead(0, Ask("query"))
      BY <3>1, <3>2, LoopHeadStatus DEF S!Ask, S!Refuse
    <3>3. CASE pc' = "plan" /\ result' = NoResult
      BY <3>1, <3>3 DEF S!Ask, Status, Outcome
    <3> QED
      BY <2>2, <3>2, <3>3 DEF Query
  <2>3. CASE PlanningFails
    <3>1. Status' = "idle" /\ Outcome' = "error"
      BY <2>3, ReturnStatus DEF PlanningFails
    <3>2. pc \in {"plan", "request", "tool"} /\ pc # "tool" /\ requests' = requests + 1
      BY <2>3 DEF PlanningFails
    <3> QED
      BY <3>1, <3>2, BusySession, LimitType DEF S!Fail, Limit
  <2>4. ASSUME NEW steps, NEW index, Execute(steps, index)
        PROVE  S!Query
    <3>1. pc \in {"plan", "request", "tool"} /\ pc # "tool" /\ requests' = requests + 1
      BY <2>4 DEF Execute
    <3>2. \/ Status' = "busy" /\ Outcome' = "none"
          \/ Status' = "idle" /\ Outcome' = "error"
      BY <2>4, LoopHeadStatus DEF Execute
    <3> QED
      BY <3>1, <3>2, BusySession, LimitType DEF S!Spend, S!Fail, Limit
  <2>5. CASE RequestFails
    <3>1. Status' = "crashed" /\ Outcome' = Outcome
      BY <2>5 DEF RequestFails, Status, Outcome
    <3>2. pc \in {"plan", "request", "tool"} /\ pc # "tool" /\ requests' = requests + 1
      BY <2>5 DEF RequestFails
    <3> QED
      BY <3>1, <3>2, BusySession DEF S!Crash, Limit
  <2>6. CASE Answer
    <3>1. Status' = "idle" /\ Outcome' = "success"
      BY <2>6, ReturnStatus DEF Answer
    <3>2. pc \in {"plan", "request", "tool"} /\ pc # "tool" /\ requests' = requests + 1
      BY <2>6 DEF Answer
    <3> QED
      BY <3>1, <3>2, BusySession DEF S!Succeed, Limit
  <2>7. ASSUME NEW steps, Reflection(steps)
        PROVE  S!Query
    <3>1. pc \in {"plan", "request", "tool"} /\ pc # "tool" /\ requests' = requests + 1
      BY <2>7 DEF Reflection
    <3>2. \/ Status' = "busy" /\ Outcome' = "none"
          \/ Status' = "idle" /\ Outcome' = "error"
      <4>1. iteration + 1 \in Nat
        BY DEF TypeOK
      <4> QED
        BY <2>7, <4>1, LoopHeadStatus DEF Reflection
    <3> QED
      BY <3>1, <3>2, BusySession, LimitType DEF S!Spend, S!Fail, Limit
  <2>8. CASE BadToolCall
    <3>1. Status' = "idle" /\ Outcome' = "error"
      <4>1. CASE Return(FALSE, "parse", iteration + 1)
        BY <4>1 DEF Return, Status, Outcome, NoResult
      <4>2. CASE Return(FALSE, "not_found", iteration + 1)
        BY <4>2 DEF Return, Status, Outcome, NoResult
      <4> QED
        BY <2>8, <4>1, <4>2 DEF BadToolCall
    <3>2. pc \in {"plan", "request", "tool"} /\ pc # "tool" /\ requests' = requests + 1
      BY <2>8 DEF BadToolCall
    <3> QED
      BY <3>1, <3>2, BusySession, LimitType DEF S!Fail, Limit
  <2>9. CASE CallTool
    <3>1. Status' = "busy" /\ Outcome' = Outcome
      BY <2>9 DEF CallTool, Status, Outcome
    <3>2. pc \in {"plan", "request", "tool"} /\ pc # "tool" /\ requests' = requests + 1
      BY <2>9 DEF CallTool
    <3> QED
      BY <3>1, <3>2, BusySession DEF S!Spend, Limit
  <2>10. ASSUME NEW ok, NEW index, ToolReturns(ok, index)
         PROVE  S!Query \/ UNCHANGED <<Status, requests, Outcome>>
    <3>1. pc \in {"plan", "request", "tool"} /\ requests' = requests
      BY <2>10 DEF ToolReturns
    <3>2. \/ Status' = "busy" /\ Outcome' = "none"
          \/ Status' = "idle" /\ Outcome' = "error"
      <4>1. iteration + 1 \in Nat
        BY DEF TypeOK
      <4> QED
        BY <2>10, <4>1, LoopHeadStatus DEF ToolReturns
    <3> QED
      BY <3>1, <3>2, BusySession, LimitType DEF S!Fail, Limit
  <2>11. CASE UNCHANGED vars
    BY <2>11 DEF vars, Status, Outcome
  <2> QED
    BY <2>1, <2>2, <2>3, <2>4, <2>5, <2>6, <2>7, <2>8, <2>9, <2>10, <2>11
    DEF Next, Respond, ToolAnswers, PlanParsed, PlanUnparsed, Reflect, Revise,
        ToolSucceeds, ToolFails
<1> QED
  BY <1>1, <1>2, TypeCorrect, Counting, PTL DEF Spec, ImplementsSession, S!Spec
-----------------------------------------------------------------------------
(***************************************************************************)
(* Plans.  The prompt always fits the steps and the index it was built     *)
(* from, and the index counts the successes of a query whose plan had      *)
(* steps; a plan is parsed only in the planning phase of PLAN_REFLECT.     *)
(***************************************************************************)

Fits(p, steps, index) ==
  /\ p.kind \in {"step", "retry"} =>
       index < Len(steps) /\ p.step = steps[index + 1]
  /\ p.kind = "summary" => index >= Len(steps)

PlanInv ==
  /\ StepsOfThisQuery
  /\ Fits(prompt, current_plan_steps, current_step_index)
  /\ planned \in 1 .. MaxSteps => current_step_index = done
  /\ pc = "plan" => planned = Unparsed /\ done = 0
  /\ execution_mode = "AGENTIC" => planned = Unparsed

LEMMA UnparsedIsNoCount == Unparsed \notin 1 .. MaxSteps
BY CoordinatorAssumption DEF Unparsed

\* Every prompt the two builders return fits.
LEMMA PromptsFit ==
  ASSUME NEW steps \in Seq(Steps), NEW index \in Nat, NEW plan, NEW ok \in BOOLEAN
  PROVE  /\ Fits(InitialPrompt(steps, index, plan), steps, index)
         /\ Fits(ToolResultPrompt(ok, steps, index), steps, index)
BY DEF Fits, InitialPrompt, ToolResultPrompt, Ask, Do

\* A prompt that orders no step fits any plan.
LEMMA PlainPromptsFit ==
  ASSUME NEW steps, NEW index, NEW k \in {"none", "query"}
  PROVE  Fits(Ask(k), steps, index)
BY DEF Fits, Ask

LEMMA LoopHeadFits ==
  ASSUME NEW n, NEW p, NEW steps, NEW index, LoopHead(n, p), Fits(p, steps, index)
  PROVE  Fits(prompt', steps, index) /\ pc' # "plan"
<1>1. CASE prompt' = p /\ pc' = "request"
  BY <1>1
<1>2. CASE prompt' = Ask("none") /\ pc' = "idle"
  BY <1>2, PlainPromptsFit
<1> QED
  BY <1>1, <1>2 DEF LoopHead, Return

LEMMA ReturnFits ==
  ASSUME NEW s, NEW e, NEW n, NEW steps, NEW index, Return(s, e, n)
  PROVE  Fits(prompt', steps, index) /\ pc' # "plan"
BY PlainPromptsFit DEF Return

\* A revision keeps the steps up to the index and puts its own behind them.
Keeps(new, r) ==
  /\ \A i \in 1 .. Len(new) :
       \/ i \in 1 .. Len(current_plan_steps) /\ new[i] = current_plan_steps[i]
       \/ new[i] = Step(query, r)
  /\ \A i \in 1 .. Len(current_plan_steps) : i <= current_step_index =>
       i <= Len(new) /\ new[i] = current_plan_steps[i]

LEMMA RevisionKeeps ==
  ASSUME TypeOK, NEW r \in Nat, NEW n \in Nat
  PROVE  Keeps(KeptSteps \o Revised(r, n), r)
<1> DEFINE new == KeptSteps \o Revised(r, n)
<1>1. /\ Len(Revised(r, n)) = n
      /\ Revised(r, n) \in Seq(Steps)
      /\ \A i \in 1 .. n : Revised(r, n)[i] = Step(query, r)
  <2>1. Revised(r, n) \in Seq(Steps)
    BY RevisedType DEF TypeOK
  <2> QED
    BY <2>1 DEF Revised
<1>2. KeptSteps \in Seq(Steps)
  BY KeptStepsType
<1>3. /\ Len(KeptSteps) <= Len(current_plan_steps)
      /\ \A i \in 1 .. Len(KeptSteps) : KeptSteps[i] = current_plan_steps[i]
      /\ \A i \in 1 .. Len(current_plan_steps) :
           i <= current_step_index => i <= Len(KeptSteps)
  BY DEF KeptSteps, TypeOK
<1>4. /\ Len(new) = Len(KeptSteps) + n
      /\ \A i \in 1 .. Len(new) :
           new[i] = IF i <= Len(KeptSteps) THEN KeptSteps[i]
                    ELSE Revised(r, n)[i - Len(KeptSteps)]
  BY <1>1, <1>2
<1> HIDE DEF new
<1>5. ASSUME NEW i \in 1 .. Len(new)
      PROVE  \/ i \in 1 .. Len(current_plan_steps) /\ new[i] = current_plan_steps[i]
             \/ new[i] = Step(query, r)
  <2>0. /\ Len(KeptSteps) \in Nat /\ Len(current_plan_steps) \in Nat
        /\ Len(new) \in Nat /\ i \in Nat
    BY <1>2, <1>4 DEF TypeOK
  <2>1. CASE i <= Len(KeptSteps)
    BY <1>3, <1>4, <2>0, <2>1
  <2>2. CASE ~(i <= Len(KeptSteps))
    <3>1. i - Len(KeptSteps) \in 1 .. n
      BY <1>4, <2>0, <2>2
    <3> QED
      BY <1>1, <1>4, <2>2, <3>1
  <2> QED
    BY <2>1, <2>2
<1>6. ASSUME NEW i \in 1 .. Len(current_plan_steps), i <= current_step_index
      PROVE  i <= Len(new) /\ new[i] = current_plan_steps[i]
  <2>1. Len(KeptSteps) \in Nat /\ i \in 1 .. Len(KeptSteps)
    BY <1>2, <1>3, <1>6
  <2> QED
    BY <1>3, <1>4, <2>1
<1>7. Keeps(new, r)
  BY <1>5, <1>6 DEF Keeps
<1> QED
  BY <1>7 DEF new

LEMMA PlanKept == Spec => []PlanInv
<1>1. Init => PlanInv
  <2> SUFFICES ASSUME Init
               PROVE  PlanInv
    OBVIOUS
  <2>1. planned = Unparsed /\ pc # "plan" /\ Fits(prompt, current_plan_steps, current_step_index)
    BY PlainPromptsFit DEF Init
  <2> QED
    BY <2>1, UnparsedIsNoCount DEF PlanInv, StepsOfThisQuery
<1>2. TypeOK /\ CountInv /\ PlanInv /\ [Next]_vars => PlanInv'
  <2> SUFFICES ASSUME TypeOK, CountInv, PlanInv, [Next]_vars
               PROVE  PlanInv'
    OBVIOUS
  <2>0. /\ current_plan_steps \in Seq(Steps)
        /\ current_step_index \in Nat
        /\ reflection_count + 1 \in Nat
        /\ done \in Nat
        /\ Fits(prompt, current_plan_steps, current_step_index)
    BY DEF TypeOK, PlanInv
  <2>1. ASSUME NEW t \in Tools, RegisterTool(t)
        PROVE  PlanInv'
    BY <2>1 DEF RegisterTool, PlanInv, StepsOfThisQuery, configVars, planVars
  <2>2. CASE ClearHistory
    BY <2>2 DEF ClearHistory, PlanInv, StepsOfThisQuery, promptVars, planVars
  <2>3. CASE Query
    <3>1. planned' = Unparsed /\ done' = 0
      BY <2>3 DEF Query
    <3>2. Fits(prompt', current_plan_steps', current_step_index')
      <4>1. CASE LoopHead(0, Ask("query"))
        BY <4>1, LoopHeadFits, PlainPromptsFit
      <4>2. CASE prompt' = Ask("query")
        BY <4>2, PlainPromptsFit
      <4> QED
        BY <2>3, <4>1, <4>2 DEF Query
    <3> QED
      BY <3>1, <3>2, UnparsedIsNoCount DEF PlanInv, StepsOfThisQuery
  <2>4. CASE PlanningFails
    <3>1. Fits(prompt', current_plan_steps', current_step_index') /\ pc' # "plan"
      BY <2>4, ReturnFits DEF PlanningFails
    <3>2. planned' = Unparsed
      BY <2>4 DEF PlanningFails, PlanInv
    <3> QED
      BY <3>1, <3>2, UnparsedIsNoCount DEF PlanInv, StepsOfThisQuery
  <2>5. ASSUME NEW steps \in Seq(Steps), NEW index \in Nat, Execute(steps, index)
        PROVE  /\ Fits(prompt', current_plan_steps', current_step_index')
               /\ pc' # "plan"
               /\ execution_mode' # "AGENTIC"
               /\ query' = query
               /\ done' = 0
               /\ current_plan_steps' = steps
               /\ current_step_index' = index
    <3>1. Fits(InitialPrompt(steps, index, query), steps, index)
      BY PromptsFit
    <3>2. Fits(prompt', steps, index) /\ pc' # "plan"
      BY <2>5, <3>1, LoopHeadFits DEF Execute
    <3> QED
      BY <2>5, <3>2 DEF Execute, PlanInv, CountInv, configVars
  <2>6. ASSUME NEW n \in 0 .. MaxSteps, PlanParsed(n)
        PROVE  PlanInv'
    <3>1. n \in Nat /\ Revised(0, n) \in Seq(Steps)
      BY RevisedType, CoordinatorAssumption DEF TypeOK
    <3>2. (IF n > 0 THEN 0 ELSE current_step_index) \in Nat
      BY <2>0
    <3>3. /\ Fits(prompt', current_plan_steps', current_step_index')
          /\ pc' # "plan" /\ execution_mode' # "AGENTIC"
          /\ query' = query /\ done' = 0
          /\ current_plan_steps' = Revised(0, n)
          /\ current_step_index' = IF n > 0 THEN 0 ELSE current_step_index
      BY <2>5, <2>6, <3>1, <3>2 DEF PlanParsed
    <3>4. planned' = n
      BY <2>6 DEF PlanParsed
    <3>5. StepsOfThisQuery'
      BY <3>1, <3>3 DEF StepsOfThisQuery, Revised, Step
    <3> QED
      BY <3>1, <3>3, <3>4, <3>5 DEF PlanInv
  <2>7. CASE PlanUnparsed
    <3>1. /\ Fits(prompt', current_plan_steps', current_step_index')
          /\ pc' # "plan"
      BY <2>0, <2>5, <2>7 DEF PlanUnparsed
    <3>2. planned' = Unparsed
      BY <2>7 DEF PlanUnparsed, Execute, PlanInv
    <3> QED
      BY <3>1, <3>2, UnparsedIsNoCount DEF PlanInv, StepsOfThisQuery
  <2>8. CASE RequestFails
    BY <2>8 DEF RequestFails, PlanInv, StepsOfThisQuery, promptVars, planVars
  <2>9. CASE Answer
    <3>1. Fits(prompt', current_plan_steps', current_step_index') /\ pc' # "plan"
      BY <2>9, ReturnFits DEF Answer
    <3> QED
      BY <2>9, <3>1 DEF Answer, PlanInv, StepsOfThisQuery, promptVars, planVars
  <2>10. ASSUME NEW steps \in Seq(Steps), Reflection(steps),
                planned # Unparsed => \A i \in 1 .. Len(steps) : steps[i].query = query
         PROVE  PlanInv'
    <3>1. Fits(InitialPrompt(steps, current_step_index, current_plan), steps, current_step_index)
      BY <2>0, PromptsFit
    <3>2. Fits(prompt', steps, current_step_index) /\ pc' # "plan"
      BY <2>10, <3>1, LoopHeadFits DEF Reflection
    <3> QED
      BY <2>10, <3>2 DEF Reflection, PlanInv, StepsOfThisQuery, promptVars
  <2>11. CASE Reflect
    BY <2>0, <2>10, <2>11 DEF Reflect, PlanInv, StepsOfThisQuery
  <2>12. ASSUME NEW n \in 0 .. MaxSteps, Revise(n)
         PROVE  PlanInv'
    <3> DEFINE new == KeptSteps \o Revised(reflection_count + 1, n)
    <3>1. n \in Nat /\ new \in Seq(Steps)
      <4>1. n \in Nat /\ query \in Nat
        BY CoordinatorAssumption DEF TypeOK
      <4>2. Revised(reflection_count + 1, n) \in Seq(Steps) /\ KeptSteps \in Seq(Steps)
        BY <2>0, <4>1, KeptStepsType, RevisedType
      <4> QED
        BY <4>2
    <3>2. ASSUME planned # Unparsed, NEW i \in 1 .. Len(new)
          PROVE  new[i].query = query
      <4>1. \/ i \in 1 .. Len(current_plan_steps) /\ new[i] = current_plan_steps[i]
            \/ new[i] = Step(query, reflection_count + 1)
        <5>1. Keeps(new, reflection_count + 1)
          BY <2>0, <3>1, RevisionKeeps
        <5> QED
          BY <5>1 DEF Keeps
      <4> QED
        BY <3>2, <4>1 DEF PlanInv, StepsOfThisQuery, Step
    <3>3. Reflection(new)
      BY <2>12 DEF Revise
    <3> HIDE DEF new
    <3> QED
      BY <2>10, <3>1, <3>2, <3>3
  <2>13. CASE BadToolCall
    <3>1. Fits(prompt', current_plan_steps', current_step_index') /\ pc' # "plan"
      BY <2>13, ReturnFits DEF BadToolCall
    <3> QED
      BY <2>13, <3>1 DEF BadToolCall, PlanInv, StepsOfThisQuery, promptVars, planVars
  <2>14. CASE CallTool
    BY <2>14 DEF CallTool, PlanInv, StepsOfThisQuery, promptVars, planVars
  <2>15. ASSUME NEW ok \in BOOLEAN, NEW index \in Nat, ToolReturns(ok, index),
                planned \in 1 .. MaxSteps => index = done'
         PROVE  PlanInv'
    <3>1. Fits(ToolResultPrompt(ok, current_plan_steps, index), current_plan_steps, index)
      BY <2>0, PromptsFit
    <3>2. Fits(prompt', current_plan_steps, index) /\ pc' # "plan"
      BY <2>15, <3>1, LoopHeadFits DEF ToolReturns
    <3> QED
      BY <2>15, <3>2 DEF ToolReturns, PlanInv, StepsOfThisQuery, promptVars
  <2>16. CASE ToolSucceeds
    <3> DEFINE index == IF execution_mode = "PLAN_REFLECT" THEN current_step_index + 1
                        ELSE current_step_index
    <3>1. index \in Nat
      BY <2>0
    <3>2. planned \in 1 .. MaxSteps => execution_mode = "PLAN_REFLECT"
      BY UnparsedIsNoCount DEF PlanInv, TypeOK, Modes
    <3>3. planned \in 1 .. MaxSteps => index = done'
      BY <2>16, <3>2 DEF ToolSucceeds, PlanInv
    <3> QED
      BY <2>15, <2>16, <3>1, <3>3 DEF ToolSucceeds
  <2>17. CASE ToolFails
    BY <2>0, <2>15, <2>17 DEF ToolFails, PlanInv
  <2>18. CASE Restart
    <3>1. /\ planned' = Unparsed /\ pc' # "plan"
          /\ Fits(prompt', current_plan_steps', current_step_index')
      BY <2>18, PlainPromptsFit DEF Restart
    <3> QED
      BY <3>1, UnparsedIsNoCount DEF PlanInv, StepsOfThisQuery
  <2>19. CASE UNCHANGED vars
    BY <2>19 DEF vars, PlanInv, StepsOfThisQuery
  <2> QED
    BY <2>1, <2>2, <2>3, <2>4, <2>6, <2>7, <2>8, <2>9, <2>11, <2>12, <2>13, <2>14,
       <2>16, <2>17, <2>18, <2>19 DEF Next, Respond, ToolAnswers
<1> QED
  BY <1>1, <1>2, TypeCorrect, Counting, PTL DEF Spec

\* Whatever comes back from the model, once a query's plan has been parsed all
\* the steps are that query's.
THEOREM StepsBelong == Spec => []StepsOfThisQuery
<1>1. PlanInv => StepsOfThisQuery
  BY DEF PlanInv
<1> QED
  BY <1>1, PlanKept, PTL

\* A prompt never orders a step other than the one at the index.
THEOREM CurrentStepOrdered == Spec => []PromptOrdersCurrentStep
<1>1. PlanInv => PromptOrdersCurrentStep
  BY DEF PlanInv, Fits, PromptOrdersCurrentStep
<1> QED
  BY <1>1, PlanKept, PTL

\* The index of a query with a parsed plan is the number of its successful
\* tool calls, and the summary waits for as many as there are steps.
THEOREM IndexIsSuccesses == Spec => []IndexCountsSuccesses
<1>1. PlanInv => IndexCountsSuccesses
  BY DEF PlanInv, Fits, IndexCountsSuccesses
<1> QED
  BY <1>1, PlanKept, PTL

\* No reflection, revision or tool result rewrites a step before the index.
THEOREM DoneIsKept == Spec => DoneStepsKept
<1>1. TypeOK /\ [Next]_vars => [(pc \in {"request", "tool"}) => DoneKept]_vars
  <2> SUFFICES ASSUME TypeOK, Next, pc \in {"request", "tool"}
               PROVE  DoneKept
    OBVIOUS
  <2>1. CASE UNCHANGED current_plan_steps
    BY <2>1 DEF DoneKept, TypeOK
  <2>2. ASSUME NEW n \in 0 .. MaxSteps, Revise(n)
        PROVE  DoneKept
    <3>1. n \in Nat /\ reflection_count + 1 \in Nat
      BY CoordinatorAssumption DEF TypeOK
    <3>2. current_plan_steps' = KeptSteps \o Revised(reflection_count + 1, n)
      BY <2>2 DEF Revise, Reflection
    <3> QED
      BY <3>1, <3>2, RevisionKeeps DEF DoneKept, Keeps
  <2>3. CASE Respond
    BY <2>1, <2>2, <2>3 DEF Respond, PlanningFails, PlanParsed, PlanUnparsed, Execute,
       RequestFails, Answer, Reflect, Reflection, BadToolCall, CallTool, planVars
  <2>4. CASE ToolAnswers
    BY <2>1, <2>4 DEF ToolAnswers, ToolSucceeds, ToolFails, ToolReturns
  <2> QED
    BY <2>3, <2>4 DEF Next, RegisterTool, ClearHistory, Query, Restart
<1> QED
  BY <1>1, TypeCorrect, PTL DEF Spec, DoneStepsKept

\* The cached prompt and the prompt of a running query list the registered
\* tools; tools are registered between queries only.
THEOREM ToolsListed == Spec => []PromptListsTools
<1>1. Init => PromptListsTools
  BY DEF Init, PromptListsTools
<1>2. TypeOK /\ PromptListsTools /\ [Next]_vars => PromptListsTools'
  <2> SUFFICES ASSUME TypeOK, PromptListsTools, [Next]_vars
               PROVE  PromptListsTools'
    OBVIOUS
  <2>1. ASSUME NEW t \in Tools, RegisterTool(t)
        PROVE  PromptListsTools'
    BY <2>1 DEF RegisterTool, PromptListsTools, SystemPrompt
  <2>2. CASE ClearHistory
    BY <2>2 DEF ClearHistory, PromptListsTools, promptVars
  <2>3. CASE Query
    <3>1. CASE custom_prompt /\ system_prompt' = Custom /\ UNCHANGED generated_system_prompt
      BY <2>3, <3>1 DEF Query, PromptListsTools
    <3>2. CASE /\ generated_system_prompt' =
                    IF generated_system_prompt = NoPrompt
                    THEN SystemPrompt(execution_mode = "PLAN_REFLECT", tools)
                    ELSE generated_system_prompt
               /\ system_prompt' = generated_system_prompt'
      <4>1. generated_system_prompt'.lists = tools
        BY <3>2 DEF PromptListsTools, SystemPrompt
      <4> QED
        BY <2>3, <3>2, <4>1 DEF Query, PromptListsTools
    <3> QED
      BY <2>3, <3>1, <3>2 DEF Query, PrepareConfig
  <2>4. ASSUME NEW steps, NEW index, Execute(steps, index)
        PROVE  PromptListsTools'
    BY <2>4 DEF Execute, PromptListsTools, SystemPrompt
  <2>5. CASE UNCHANGED promptVars /\ (pc' \in {"plan", "request", "tool"} => pc \in {"plan", "request", "tool"})
    BY <2>5 DEF PromptListsTools, promptVars
  <2>6. CASE PlanningFails \/ RequestFails \/ Answer \/ BadToolCall \/ CallTool
    BY <2>5, <2>6 DEF PlanningFails, RequestFails, Answer, BadToolCall, CallTool
  <2>7. CASE Reflect \/ \E n \in 0 .. MaxSteps : Revise(n)
    BY <2>5, <2>7 DEF Reflect, Revise, Reflection
  <2>8. CASE ToolAnswers
    BY <2>5, <2>8 DEF ToolAnswers, ToolSucceeds, ToolFails, ToolReturns
  <2>9. CASE Restart
    BY <2>9 DEF Restart, PromptListsTools
  <2>10. CASE UNCHANGED vars
    BY <2>10 DEF vars, PromptListsTools
  <2> QED
    BY <2>1, <2>2, <2>3, <2>4, <2>6, <2>7, <2>8, <2>9, <2>10
    DEF Next, Respond, PlanParsed, PlanUnparsed
<1> QED
  BY <1>1, <1>2, TypeCorrect, PTL DEF Spec
=============================================================================

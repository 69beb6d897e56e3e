---------------------------- MODULE Coordinator ----------------------------
(***************************************************************************)
(* The AI coordinator (ai/gs_core_ai_coordinator.c): one query at a time,  *)
(* executed either as a ReAct loop (AGENTIC) or as a plan whose steps are  *)
(* executed, reflected upon and revised (PLAN_REFLECT).                    *)
(*                                                                         *)
(* The provider (a language model behind HTTP) and the tools are the       *)
(* environment: every action below is the whole of what the coordinator    *)
(* does between two of their answers.  Texts are abstracted to what the    *)
(* code tells apart: a step of a plan is the query and the revision it     *)
(* came from, a prompt is what it asks the model to do.                    *)
(***************************************************************************)
EXTENDS Naturals, Sequences

CONSTANTS
  Tools,               \* the tools a program may register
  MaxIterations,       \* config.max_iterations
  MaxQueries,          \* bound: queries asked in a behaviour
  MaxSteps             \* bound: steps a plan or a revision may list

ASSUME CoordinatorAssumption ==
  /\ MaxIterations \in Nat
  /\ MaxQueries \in Nat
  /\ MaxSteps \in Nat

VARIABLES
  execution_mode,           \* config.execution_mode
  custom_prompt,            \* is config.system_prompt set?
  tools,                    \* registered tools
  generated_system_prompt,  \* cached prompt, or NoPrompt
  system_prompt,            \* prompt of the running query's provider config
  current_plan,             \* query whose plan is stored, 0 for NULL
  current_plan_steps,       \* parsed steps, <<>> for NULL
  current_step_index,       \* 0-based, as in the code
  last_reflection,          \* is a reflection stored?
  reflection_count,
  plan_revised,
  conversation_history,     \* kinds of the messages kept
  pc,                       \* where the query waits
  iteration,                \* loop counter of the running loop
  prompt,                   \* the prompt of the next request
  result,                   \* what the latest query returned, or NoResult
  \* History variables: no counterpart in the code, read by properties only.
  query,                    \* queries asked so far
  requests,                 \* requests the latest query has issued
  done,                     \* tool calls of the latest query that succeeded
  planned                   \* steps parsed from its plan, Unparsed if none was

vars == <<execution_mode, custom_prompt, tools, generated_system_prompt,
          system_prompt, current_plan, current_plan_steps, current_step_index,
          last_reflection, reflection_count, plan_revised,
          conversation_history, pc, iteration, prompt, result, query, requests,
          done, planned>>

configVars  == <<execution_mode, custom_prompt>>
promptVars  == <<execution_mode, custom_prompt, tools, generated_system_prompt, system_prompt>>
planVars    == <<current_plan, current_plan_steps, current_step_index>>
reflectVars == <<last_reflection, reflection_count, plan_revised>>
-----------------------------------------------------------------------------
Modes     == {"AGENTIC", "PLAN_REFLECT"}
Phases    == {"agentic", "planning", "execution"}
NoPrompt  == [phase |-> "none", lists |-> {}]
Custom    == [phase |-> "custom", lists |-> {}]
Generated == [phase : Phases, lists : SUBSET Tools]

NoResult == [success |-> FALSE, error |-> "none", iterations |-> 0]
Errors   == {"none", "planning", "parse", "not_found", "max_iterations"}
Unparsed == MaxSteps + 1

Step(q, r) == [query |-> q, revision |-> r]
Steps      == [query : Nat, revision : Nat]
Revised(r, n) == [i \in 1 .. n |-> Step(query, r)]

NoStep  == Step(0, 0)
Ask(k)  == [kind |-> k, step |-> NoStep]
Do(s)   == [kind |-> "step", step |-> s]
Kinds   == {"none", "query", "legacy", "step", "summary", "retry",
            "give_up", "observation"}
Prompts == [kind : Kinds, step : Steps]

\* _generate_system_prompt: only PLAN_REFLECT has a planning variant.
SystemPrompt(planning, ts) ==
  [phase |-> IF execution_mode = "AGENTIC" THEN "agentic"
             ELSE IF planning THEN "planning" ELSE "execution",
   lists |-> ts]

\* _build_initial_prompt
InitialPrompt(steps, index, plan) ==
  IF index < Len(steps) THEN Do(steps[index + 1])
  ELSE IF plan # 0 THEN Ask("legacy") ELSE Ask("query")

\* The prompt after a tool call, in _build_plan_reflect_tool_result_prompt:
\* success looks at the step after the one done, failure at the same step.
ToolResultPrompt(ok, steps, index) ==
  IF execution_mode = "AGENTIC" THEN Ask("observation")
  ELSE IF index < Len(steps)
       THEN IF ok THEN Do(steps[index + 1])
                  ELSE [kind |-> "retry", step |-> steps[index + 1]]
       ELSE IF ok THEN Ask("summary") ELSE Ask("give_up")
-----------------------------------------------------------------------------
Init ==
  /\ execution_mode \in Modes
  /\ custom_prompt \in BOOLEAN
  /\ tools = {}
  /\ generated_system_prompt = NoPrompt
  /\ system_prompt = NoPrompt
  /\ current_plan = 0
  /\ current_plan_steps = <<>>
  /\ current_step_index = 0
  /\ last_reflection = FALSE
  /\ reflection_count = 0
  /\ plan_revised = FALSE
  /\ conversation_history = <<>>
  /\ pc = "idle"
  /\ iteration = 0
  /\ prompt = Ask("none")
  /\ result = NoResult
  /\ query = 0
  /\ requests = 0
  /\ done = 0
  /\ planned = Unparsed

Remember(kind) == conversation_history' = Append(conversation_history, kind)

\* Mutant: the planning request is not added to the reported iterations.
ReturnLoopCount(success, error, n) ==
  /\ pc' = "idle"
  /\ prompt' = Ask("none")
  /\ result' = [success |-> success, error |-> error, iterations |-> n]
  /\ UNCHANGED iteration

\* Mutant: a planning request is counted that was never made.
ReturnPlanned(success, error, n) ==
  /\ pc' = "idle"
  /\ prompt' = Ask("none")
  /\ result' = [success |-> success, error |-> error, iterations |-> n + 1]
  /\ UNCHANGED iteration

\* _build_success_result and _build_error_result.  A loop that ends after its
\* n-th request reports n, and query() adds the planning request.
Return(success, error, n) ==
  /\ pc' = "idle"
  /\ prompt' = Ask("none")
  /\ result' = [success |-> success, error |-> error, iterations |->
                  IF execution_mode = "PLAN_REFLECT" /\ error # "planning"
                  THEN n + 1 ELSE n]
  /\ UNCHANGED iteration

\* Mutant: the loop runs once too often.
LoopHeadOffByOne(n, p) ==
  \/ /\ n <= MaxIterations
     /\ pc' = "request"
     /\ iteration' = n
     /\ prompt' = p
     /\ result' = NoResult
  \/ /\ n > MaxIterations
     /\ Return(FALSE, "max_iterations", n)

\* Mutant: nothing is returned when the iterations are used up.
LoopHeadNoExit(n, p) ==
  /\ n < MaxIterations
  /\ pc' = "request"
  /\ iteration' = n
  /\ prompt' = p
  /\ result' = NoResult

\* The head of both loops: ask again, or give up after MaxIterations requests.
LoopHead(n, p) ==
  \/ /\ n < MaxIterations
     /\ pc' = "request"
     /\ iteration' = n
     /\ prompt' = p
     /\ result' = NoResult
  \/ /\ n >= MaxIterations
     /\ Return(FALSE, "max_iterations", n)

\* Mutant: the cached prompt survives the registration.
RegisterToolKeepPrompt(t) ==
  /\ pc = "idle"
  /\ t \notin tools
  /\ tools' = tools \cup {t}
  /\ UNCHANGED <<configVars, generated_system_prompt, system_prompt, planVars, reflectVars,
                 conversation_history, pc, iteration, prompt, result, query,
                 requests, done, planned>>

\* gs_core_ai_coordinator_register_tool for a name that is new.
RegisterTool(t) ==
  /\ pc = "idle"
  /\ t \notin tools
  /\ tools' = tools \cup {t}
  /\ generated_system_prompt' = SystemPrompt(FALSE, tools')
  /\ UNCHANGED <<configVars, system_prompt, planVars, reflectVars, conversation_history,
                 pc, iteration, prompt, result, query, requests, done, planned>>

\* gs_core_ai_coordinator_clear_history
ClearHistory ==
  /\ pc = "idle"
  /\ conversation_history' = <<>>
  /\ UNCHANGED <<promptVars, planVars, reflectVars, pc, iteration, prompt,
                 result, query, requests, done, planned>>

\* _prepare_provider_config
PrepareConfig ==
  \/ /\ custom_prompt
     /\ system_prompt' = Custom
     /\ UNCHANGED generated_system_prompt
  \/ /\ ~custom_prompt
     /\ generated_system_prompt' =
          IF generated_system_prompt = NoPrompt
          THEN SystemPrompt(execution_mode = "PLAN_REFLECT", tools)
          ELSE generated_system_prompt
     /\ system_prompt' = generated_system_prompt'

\* gs_core_ai_coordinator_query up to the first provider request.  The plan
\* and the reflection are cleared; the parsed steps and the index are not.
Query ==
  /\ pc = "idle"
  /\ query < MaxQueries
  /\ PrepareConfig
  /\ current_plan' = 0
  /\ last_reflection' = FALSE
  /\ reflection_count' = 0
  /\ plan_revised' = FALSE
  /\ Remember("query")
  /\ query' = query + 1
  /\ requests' = 0
  /\ done' = 0
  /\ planned' = Unparsed
  /\ \/ /\ execution_mode = "AGENTIC"
        /\ LoopHead(0, Ask("query"))
     \/ /\ execution_mode = "PLAN_REFLECT"
        /\ pc' = "plan"
        /\ iteration' = 0
        /\ prompt' = Ask("query")
        /\ result' = NoResult
  /\ UNCHANGED <<configVars, tools, current_plan_steps, current_step_index>>
-----------------------------------------------------------------------------
\* _execute_planning_phase when the provider fails, when the response holds
\* no plan and when its braces do not balance.
PlanningFails ==
  /\ pc = "plan"
  /\ requests' = requests + 1
  /\ Return(FALSE, "planning", 1)
  /\ UNCHANGED <<promptVars, planVars, reflectVars, conversation_history,
                 query, done, planned>>

\* The rest of _execute_planning_phase once a plan has been extracted, and
\* query() up to the first request of the execution loop.
Execute(steps, index) ==
  /\ pc = "plan"
  /\ requests' = requests + 1
  /\ current_plan' = query
  /\ current_plan_steps' = steps
  /\ current_step_index' = index
  /\ Remember("plan")
  /\ system_prompt' = SystemPrompt(FALSE, tools)
  /\ reflection_count' = 0
  /\ plan_revised' = FALSE
  /\ LoopHead(0, InitialPrompt(steps, index, query))
  /\ UNCHANGED <<configVars, tools, generated_system_prompt, last_reflection,
                 query, done>>

\* Mutant: the parsed steps are pushed behind those of an earlier query.
PlanParsedAppend(n) ==
  /\ Execute(current_plan_steps \o Revised(0, n),
             IF n > 0 THEN 0 ELSE current_step_index)
  /\ planned' = n

\* The plan is JSON: its steps replace the old ones, and the index restarts
\* only when there is a step.
PlanParsed(n) ==
  /\ Execute(Revised(0, n), IF n > 0 THEN 0 ELSE current_step_index)
  /\ planned' = n

\* The braces balance but the text is no JSON: steps and index are kept.
PlanUnparsed ==
  /\ Execute(current_plan_steps, current_step_index)
  /\ UNCHANGED planned
-----------------------------------------------------------------------------
\* The provider fails inside a loop.  The response is freed, which clears its
\* error_message, and the cleared pointer is given to strlen.
RequestFails ==
  /\ pc = "request"
  /\ requests' = requests + 1
  /\ pc' = "crashed"
  /\ UNCHANGED <<promptVars, planVars, reflectVars, conversation_history,
                 iteration, prompt, result, query, done, planned>>

\* The response is neither a reflection nor a tool call: the final answer.
Answer ==
  /\ pc = "request"
  /\ requests' = requests + 1
  /\ Remember("answer")
  /\ Return(TRUE, "none", iteration + 1)
  /\ UNCHANGED <<promptVars, planVars, reflectVars, query, done, planned>>

\* Mutant: the prompt is not rebuilt after a reflection.
ReflectionKeepPrompt(steps) ==
  /\ pc = "request"
  /\ execution_mode = "PLAN_REFLECT"
  /\ requests' = requests + 1
  /\ last_reflection' = TRUE
  /\ reflection_count' = reflection_count + 1
  /\ current_plan_steps' = steps
  /\ LoopHead(iteration + 1, prompt)
  /\ UNCHANGED <<promptVars, current_plan, current_step_index,
                 conversation_history, query, done, planned>>

\* Any reflection: it is stored, and the prompt is rebuilt from the plan.
Reflection(steps) ==
  /\ pc = "request"
  /\ execution_mode = "PLAN_REFLECT"
  /\ requests' = requests + 1
  /\ last_reflection' = TRUE
  /\ reflection_count' = reflection_count + 1
  /\ current_plan_steps' = steps
  /\ LoopHead(iteration + 1, InitialPrompt(steps, current_step_index, current_plan))
  /\ UNCHANGED <<promptVars, current_plan, current_step_index,
                 conversation_history, query, done, planned>>

\* A reflection that revises nothing, or whose revision is malformed.
Reflect ==
  /\ Reflection(current_plan_steps)
  /\ UNCHANGED plan_revised

\* Mutant: a revision replaces the whole plan.
NoKeptSteps == <<>>

\* _update_plan_from_reflection: the steps from the index on make room for
\* the n revised ones.
KeptSteps ==
             IF current_step_index < Len(current_plan_steps)
             THEN SubSeq(current_plan_steps, 1, current_step_index)
             ELSE current_plan_steps

Revise(n) ==
  /\ Reflection(KeptSteps \o Revised(reflection_count + 1, n))
  /\ plan_revised' = TRUE

\* _execute_tool_call gives up: the call does not parse, or the tool does not
\* exist.
BadToolCall ==
  /\ pc = "request"
  /\ requests' = requests + 1
  /\ \/ Return(FALSE, "parse", iteration + 1)
     \/ Return(FALSE, "not_found", iteration + 1)
  /\ UNCHANGED <<promptVars, planVars, reflectVars, conversation_history,
                 query, done, planned>>

\* _execute_tool_call finds the tool and runs it.
CallTool ==
  /\ pc = "request"
  /\ tools # {}
  /\ requests' = requests + 1
  /\ pc' = "tool"
  /\ UNCHANGED <<promptVars, planVars, reflectVars, conversation_history,
                 iteration, prompt, result, query, done, planned>>

\* The tool returns: the next prompt is built, which in PLAN_REFLECT advances
\* the index on success, and goes into the history.
ToolReturns(ok, index) ==
  /\ pc = "tool"
  /\ current_step_index' = index
  /\ Remember("observation")
  /\ LoopHead(iteration + 1, ToolResultPrompt(ok, current_plan_steps, index))
  /\ UNCHANGED <<promptVars, current_plan, current_plan_steps, reflectVars,
                 query, requests, planned>>

ToolSucceeds ==
  /\ ToolReturns(TRUE, IF execution_mode = "PLAN_REFLECT" THEN current_step_index + 1
                                                ELSE current_step_index)
  /\ done' = done + 1

\* Mutant: a failed step counts as done, as the comment below has it.
ToolFailsAdvance ==
  /\ ToolReturns(FALSE, current_step_index + 1)
  /\ UNCHANGED done

\* The step that failed is ordered again.  The source's comment ("Try to continue
\* with next step despite error", line 849) and the prompt it builds ("Continuing
\* with next step anyway.", line 861) promise the step after it.
ToolFails ==
  /\ ToolReturns(FALSE, current_step_index)
  /\ UNCHANGED done

\* gs_core_ai_coordinator_free, or the end of a crashed process, and then
\* gs_core_ai_coordinator_create for the next coordinator.
Restart ==
  /\ pc \in {"idle", "crashed"}
  /\ execution_mode' \in Modes
  /\ custom_prompt' \in BOOLEAN
  /\ tools' = {}
  /\ generated_system_prompt' = NoPrompt
  /\ system_prompt' = NoPrompt
  /\ current_plan' = 0
  /\ current_plan_steps' = <<>>
  /\ current_step_index' = 0
  /\ last_reflection' = FALSE
  /\ reflection_count' = 0
  /\ plan_revised' = FALSE
  /\ conversation_history' = <<>>
  /\ pc' = "idle"
  /\ iteration' = 0
  /\ prompt' = Ask("none")
  /\ result' = NoResult
  /\ requests' = 0
  /\ done' = 0
  /\ planned' = Unparsed
  /\ UNCHANGED query
-----------------------------------------------------------------------------
Respond ==
  \/ PlanningFails
  \/ \E n \in 0 .. MaxSteps : PlanParsed(n)
  \/ PlanUnparsed
  \/ RequestFails
  \/ Answer
  \/ Reflect
  \/ \E n \in 0 .. MaxSteps : Revise(n)
  \/ BadToolCall
  \/ CallTool

ToolAnswers == ToolSucceeds \/ ToolFails

Next ==
  \/ \E t \in Tools : RegisterTool(t)
  \/ ClearHistory
  \/ Query
  \/ Respond
  \/ ToolAnswers
  \/ Restart

Spec == Init /\ [][Next]_vars

\* The provider always answers or times out (every request carries a curl
\* timeout) and a tool returns; nobody is obliged to ask or to restart.
Fairness == WF_vars(Respond) /\ WF_vars(ToolAnswers)

FairSpec == Spec /\ Fairness
-----------------------------------------------------------------------------
\* Types, and the loop counter's range: a request or a tool call of a loop
\* always belongs to one of its MaxIterations rounds.
TypeOK ==
  /\ execution_mode \in Modes
  /\ custom_prompt \in BOOLEAN
  /\ tools \subseteq Tools
  /\ generated_system_prompt \in Generated \cup {NoPrompt}
  /\ system_prompt \in Generated \cup {NoPrompt, Custom}
  /\ current_plan \in 0 .. query
  /\ current_plan_steps \in Seq(Steps)
  /\ current_step_index \in Nat
  /\ last_reflection \in BOOLEAN
  /\ reflection_count \in Nat
  /\ plan_revised \in BOOLEAN
  /\ conversation_history \in Seq({"query", "plan", "observation", "answer"})
  /\ pc \in {"idle", "plan", "request", "tool", "crashed"}
  /\ iteration \in Nat
  /\ pc \in {"request", "tool"} => iteration < MaxIterations
  /\ prompt \in Prompts
  /\ result \in [success : BOOLEAN, error : Errors, iterations : Nat]
  /\ query \in Nat
  /\ requests \in Nat
  /\ done \in Nat
  /\ planned \in 0 .. Unparsed

\* A cached system prompt is never stale: it lists exactly the registered
\* tools, and so does the prompt of a query that is being executed with it.
PromptListsTools ==
  /\ generated_system_prompt # NoPrompt => generated_system_prompt.lists = tools
  /\ pc \in {"plan", "request", "tool"} /\ system_prompt # Custom
       => system_prompt.lists = tools

\* Once a query's plan has been parsed, no step of an earlier query is left
\* among the steps the loop will ask the model to execute.
StepsOfThisQuery ==
  planned # Unparsed =>
    \A i \in 1 .. Len(current_plan_steps) : current_plan_steps[i].query = query

\* A prompt that orders a step orders the step at the index, whatever
\* reflections, revisions and tool calls came before it.
PromptOrdersCurrentStep ==
  pc \in {"request", "tool"} /\ prompt.kind \in {"step", "retry"} =>
    /\ current_step_index < Len(current_plan_steps)
    /\ prompt.step = current_plan_steps[current_step_index + 1]

\* Steps are counted as done one by one, by successful tool calls only: in a
\* query whose plan had steps the index is the number of tool calls that
\* succeeded, so the summary is never asked for before that many successes.
\* This is what the code does, and not what lines 849 and 861 say of a failed step:
\* going on with the next one, as ToolFailsAdvance does, breaks it.
IndexCountsSuccesses ==
  planned \in 1 .. MaxSteps =>
    /\ current_step_index = done
    /\ prompt.kind = "summary" => done >= Len(current_plan_steps)

\* The iterations a result reports are the provider requests of the query,
\* the planning request included.
IterationsCountRequests ==
  result # NoResult => result.iterations = requests

\* Within a query the steps already done are never rewritten: a revision only
\* touches what is left of the plan.
DoneKept ==
  \A i \in 1 .. Len(current_plan_steps) : i <= current_step_index =>
    /\ i <= Len(current_plan_steps')
    /\ current_plan_steps'[i] = current_plan_steps[i]

DoneStepsKept == [][(pc \in {"request", "tool"}) => DoneKept]_vars

\* Every query ends, with a result or with the crash of RequestFails.
QueryReturns == pc \in {"plan", "request", "tool"} ~> pc \in {"idle", "crashed"}

\* The coordinator implements the abstract session: planning is one more
\* request of the budget.
Status  == IF pc \in {"idle", "crashed"} THEN pc ELSE "busy"
Outcome == IF result = NoResult THEN "none"
           ELSE IF result.success THEN "success" ELSE "error"

S == INSTANCE Session WITH
       budget  <- IF execution_mode = "PLAN_REFLECT" THEN MaxIterations + 1 ELSE MaxIterations,
       status  <- Status,
       spent   <- requests,
       outcome <- Outcome

ImplementsSession == S!Spec
-----------------------------------------------------------------------------
(* What comments of the code say of it and the code does not do. *)

\* "char* error_message; // Error message if failed": a query whose provider
\* fails comes back with an error result.
FailureIsReported == pc # "crashed"

\* "Clear previous plan and state": a query never asks for a step that an
\* earlier query planned.
NoStepOfEarlierQuery ==
  pc = "request" /\ prompt.kind = "step" => prompt.step.query = query
=============================================================================

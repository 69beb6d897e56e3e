------------------------------ MODULE Session ------------------------------
(***************************************************************************)
(* What the AI coordinator promises to the program that queries it: a      *)
(* query holds a budget of provider requests, spends it one request at a   *)
(* time and ends in exactly one outcome.  Plans, tools, reflections and    *)
(* prompts are below this level; Coordinator.tla implements it.            *)
(***************************************************************************)
EXTENDS Naturals

VARIABLES
  budget,              \* provider requests one query of the session may issue
  status,              \* "idle", "busy" or "crashed"
  spent,               \* requests issued by the latest query
  outcome              \* "none", "success" or "error": how that query ended

vars == <<budget, status, spent, outcome>>

Init ==
  /\ budget \in Nat
  /\ status = "idle"
  /\ spent = 0
  /\ outcome = "none"

\* The caller asks: nothing is spent, and the previous outcome is gone.
Ask ==
  /\ status = "idle"
  /\ status' = "busy"
  /\ spent' = 0
  /\ outcome' = "none"

\* One request is sent to the provider and its answer leads to more work.
Spend ==
  /\ status = "busy"
  /\ spent < budget
  /\ spent' = spent + 1
  /\ UNCHANGED <<status, outcome>>

\* The query ends with an answer, on the request that brought it.
Succeed ==
  /\ status = "busy"
  /\ spent < budget
  /\ spent' = spent + 1
  /\ status' = "idle"
  /\ outcome' = "success"

\* The query ends in an error, with or without one more request.
Fail ==
  /\ status = "busy"
  /\ spent' \in spent .. (IF spent < budget THEN spent + 1 ELSE spent)
  /\ status' = "idle"
  /\ outcome' = "error"

\* The query brings the process down.
Crash ==
  /\ status = "busy"
  /\ spent < budget
  /\ spent' = spent + 1
  /\ status' = "crashed"
  /\ UNCHANGED outcome

\* The session is thrown away, or its process died, and a new one starts.
Restart ==
  /\ status # "busy"
  /\ budget' \in Nat
  /\ status' = "idle"
  /\ spent' = 0
  /\ outcome' = "none"

\* A query that is not allowed a single request fails where it stands.
Refuse ==
  /\ status = "idle"
  /\ spent' = 0
  /\ outcome' = "error"
  /\ UNCHANGED status

Query == Ask \/ Spend \/ Succeed \/ Fail \/ Crash \/ Refuse

Next ==
  \/ Query /\ UNCHANGED budget
  \/ Restart

Spec == Init /\ [][Next]_vars
=============================================================================

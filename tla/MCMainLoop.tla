---------------------------- MODULE MCMainLoop ----------------------------
(***************************************************************************)
(* What the main thread polls in every frame, for TLC: the program's       *)
(* asyncs and, in the editor, the library of the application.  They share  *)
(* no state, and a behaviour runs one part and leaves the others as they   *)
(* are at the start.                                                       *)
(***************************************************************************)
EXTENDS AsyncTask, ReloadState

CONSTANTS a1, a2, w1, w2, w3

VARIABLE part          \* the part that runs

TwoAsyncs    == {a1, a2}
ThreeWorkers == {w1, w2, w3}

\* One async on two workers, with a task whose pieces are split: while one worker
\* spins in the runner, the other is the only one that executes pieces.
Halves == INSTANCE AsyncTask WITH Asyncs <- {a1}, Workers <- {w1, w2}, MinRange <- 1

Reload == INSTANCE HotReload

async  == <<flags, run_count, pipe, stack, dispatched, called>>
reload == <<pc, app_dll, editor_dll, clock, fstats, hot_reload_begin, app, loads, missed>>
loop   == <<part, async, reload>>

LoopInit ==
  /\ part \in {"asyncs", "split", "reload"}
  /\ Init
  /\ Reload!Init
  /\ part # "reload" => app_dll.state = "absent" /\ editor_dll.state = "absent"

LoopNext ==
  \/ part = "asyncs" /\ Next /\ UNCHANGED <<part, reload>>
  \/ part = "split" /\ Halves!Next /\ UNCHANGED <<part, reload>>
  \/ part = "reload" /\ Reload!Next /\ UNCHANGED <<part, async>>

\* The fairness of the parts, of each while it runs.
LoopSpec ==
  /\ LoopInit /\ [][LoopNext]_loop
  /\ \A t \in Threads :
       WF_async(\/ part = "asyncs" /\ Execute(t)
                \/ part = "split" /\ t \in Halves!Threads /\ Halves!Execute(t))
  /\ \A a \in Asyncs :
       /\ WF_async(\/ part = "asyncs" /\ InCall(a)
                   \/ part = "split" /\ a = a1 /\ Halves!InCall(a))
       /\ WF_async(\/ part = "asyncs" /\ Finish(a)
                   \/ part = "split" /\ a = a1 /\ Halves!Finish(a))
  /\ WF_reload(part = "reload" /\ Reload!Editor)
  /\ WF_reload(part = "reload" /\ Reload!EndBuild)
===========================================================================

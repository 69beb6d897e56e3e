----------------------------- MODULE HotReload -----------------------------
(***************************************************************************)
(* Hot reload in the editor (editor/gs_core_editor.c): a linker writes the *)
(* library of the application, the editor compares its modification time   *)
(* in every frame, copies the library and replaces the running             *)
(* application by the copy.                                                *)
(*                                                                         *)
(* Files change between any two steps of the editor.  A write does not     *)
(* always change the modification time: it is counted in seconds.          *)
(***************************************************************************)
EXTENDS Naturals, ReloadState

vars == <<pc, app_dll, editor_dll, clock, fstats, hot_reload_begin, app, loads, missed>>
files == <<app_dll, clock>>
-----------------------------------------------------------------------------
\* gs_platform_file_stats: all zero without a file.
ModifiedTime == IF app_dll.state = "absent" THEN 0 ELSE app_dll.time

Init ==
  /\ pc = "reload"
  /\ app_dll \in [state : {"absent", "whole"}, version : {1}, time : {1}]
  /\ editor_dll \in [state : {"absent", "whole"}, version : {1}]
  /\ clock = 1
  /\ fstats = 0
  /\ hot_reload_begin = FALSE
  /\ app = 0
  /\ loads = 0
  /\ missed = FALSE
-----------------------------------------------------------------------------
(* The linker. *)

Write(state, version) ==
  /\ \E t \in {clock, clock + 1} :
       /\ t <= MaxClock
       /\ clock' = t
       /\ app_dll' = [state |-> state, version |-> version, time |-> t]
       /\ missed' = (t = fstats \/ pc = "stat")
  /\ UNCHANGED <<pc, editor_dll, fstats, hot_reload_begin, app, loads>>

BeginBuild ==
  /\ app_dll.state # "part"
  /\ app_dll.version < MaxBuilds
  /\ Write("part", app_dll.version + 1)

EndBuild ==
  /\ app_dll.state = "part"
  /\ Write("whole", app_dll.version)

Clean ==
  /\ app_dll.state = "whole"
  /\ app_dll' = [app_dll EXCEPT !.state = "absent"]
  /\ UNCHANGED <<pc, editor_dll, clock, fstats, hot_reload_begin, app, loads, missed>>
-----------------------------------------------------------------------------
(* The editor. *)

\* Mutant: a second change takes the first one back.
ChangedTwice ==
  /\ pc = "frame"
  /\ ModifiedTime # fstats
  /\ hot_reload_begin' = ~hot_reload_begin
  /\ fstats' = ModifiedTime
  /\ UNCHANGED <<pc, files, editor_dll, app, loads, missed>>

\* A frame of gs_core_editor_update that finds another time: wait for it to
\* stay the same.
Changed ==
  /\ pc = "frame"
  /\ ModifiedTime # fstats
  /\ hot_reload_begin' = TRUE
  /\ fstats' = ModifiedTime
  /\ UNCHANGED <<pc, files, editor_dll, app, loads, missed>>

\* A frame that finds the time of the frame before.
Settled ==
  /\ pc = "frame"
  /\ ModifiedTime = fstats
  /\ hot_reload_begin
  /\ pc' = "reload"
  /\ UNCHANGED <<files, editor_dll, fstats, hot_reload_begin, app, loads, missed>>

\* gs_core_editor_app_hot_reload without a file to copy.
NoFile ==
  /\ pc = "reload"
  /\ app_dll.state = "absent"
  /\ pc' = IF hot_reload_begin THEN "frame" ELSE "stat"
  /\ UNCHANGED <<files, editor_dll, fstats, hot_reload_begin, app, loads, missed>>

\* Mutant: the application is not unloaded.
UnloadNot ==
  /\ pc = "reload"
  /\ app_dll.state # "absent"
  /\ editor_dll' = [editor_dll EXCEPT !.state = "absent"]
  /\ pc' = "copy"
  /\ UNCHANGED <<files, fstats, hot_reload_begin, app, loads, missed>>

\* The previous copy is unloaded and deleted, if there is one.
Unload ==
  /\ pc = "reload"
  /\ app_dll.state # "absent"
  /\ IF editor_dll.state = "absent"
     THEN UNCHANGED <<app, loads>>
     ELSE /\ app' = 0
          /\ loads' = IF app = 0 THEN loads ELSE loads - 1
  /\ editor_dll' = [editor_dll EXCEPT !.state = "absent"]
  /\ pc' = "copy"
  /\ UNCHANGED <<files, fstats, hot_reload_begin, missed>>

\* What the reload has left to do when the copy is made or not.
Reloaded ==
  /\ hot_reload_begin' = FALSE
  /\ pc' = IF hot_reload_begin THEN "frame" ELSE "stat"

\* The file cannot be read any more, or not yet.
CopyFails ==
  /\ pc = "copy"
  /\ missed' = TRUE
  /\ Reloaded
  /\ UNCHANGED <<files, editor_dll, fstats, app, loads>>

\* Mutant: hot_reload_begin stays set.
CopyLoadAgain ==
  /\ pc = "copy"
  /\ app_dll.state # "absent"
  /\ editor_dll' = [state |-> app_dll.state, version |-> app_dll.version]
  /\ IF app_dll.state = "whole"
     THEN app' = app_dll.version /\ loads' = loads + 1
     ELSE UNCHANGED <<app, loads>>
  /\ missed' = FALSE
  /\ pc' = IF hot_reload_begin THEN "frame" ELSE "stat"
  /\ UNCHANGED <<files, fstats, hot_reload_begin>>

\* The copy is made of what the linker has written by then and loaded; half a
\* library does not load.
CopyLoad ==
  /\ pc = "copy"
  /\ app_dll.state # "absent"
  /\ editor_dll' = [state |-> app_dll.state, version |-> app_dll.version]
  /\ IF app_dll.state = "whole"
     THEN app' = app_dll.version /\ loads' = loads + 1
     ELSE UNCHANGED <<app, loads>>
  /\ missed' = FALSE
  /\ Reloaded
  /\ UNCHANGED <<files, fstats>>

\* The end of gs_core_editor_init.
InitStats ==
  /\ pc = "stat"
  /\ fstats' = ModifiedTime
  /\ pc' = "frame"
  /\ UNCHANGED <<files, editor_dll, hot_reload_begin, app, loads, missed>>

Editor ==
  \/ Changed
  \/ Settled
  \/ NoFile
  \/ Unload
  \/ CopyFails
  \/ CopyLoad
  \/ InitStats

Next == BeginBuild \/ EndBuild \/ Clean \/ Editor

Spec == Init /\ [][Next]_vars

\* The editor runs frames and a build that was begun ends.
FairSpec == Spec /\ WF_vars(Editor) /\ WF_vars(EndBuild)
=============================================================================

---------------------------- MODULE ReloadState ----------------------------
(***************************************************************************)
(* What the editor, the linker and the file system keep for a hot reload   *)
(* (editor/gs_core_editor.c), and what is said of it; HotReload has the    *)
(* steps.                                                                  *)
(***************************************************************************)
EXTENDS Naturals

CONSTANTS
  MaxBuilds,           \* bound: versions the linker writes
  MaxClock             \* bound: modification times

VARIABLES
  pc,                  \* what the editor does next; the first reload is part of its
                       \* initialisation, before hot_reload_begin is ever set
  app_dll,             \* g_app_path: the file the linker writes
  editor_dll,          \* g_editor_path: the copy the editor loads
  clock,               \* time of the last write
  fstats,              \* app.fstats.modified_time, 0 while there is no file
  hot_reload_begin,    \* app.hot_reload_begin
  app,                 \* version of app.app, 0 when there is none
  \* History variables, read by properties only.
  loads,               \* libraries loaded and not unloaded
  missed               \* the last write is not copied and will not be noticed
-----------------------------------------------------------------------------
Versions == 1 .. MaxBuilds
States   == {"absent", "part", "whole"}
-----------------------------------------------------------------------------
\* Types.
ReloadTypeOK ==
  /\ pc \in {"reload", "copy", "stat", "frame"}
  /\ app_dll \in [state : States, version : Versions, time : 1 .. MaxClock]
  /\ editor_dll \in [state : States, version : Versions]
  /\ clock \in 1 .. MaxClock
  /\ fstats \in 0 .. MaxClock
  /\ hot_reload_begin \in BOOLEAN
  /\ app \in {0} \cup Versions
  /\ loads \in 0 .. 1
  /\ missed \in BOOLEAN

\* The application that runs was loaded from the file that is there, and from
\* no other: unloading depends on the file, not on the application, and still
\* no library is left loaded, loaded twice or overwritten while it runs.
RunsItsCopy ==
  /\ ReloadTypeOK
  /\ IF app = 0
     THEN loads = 0
     ELSE loads = 1 /\ editor_dll = [state |-> "whole", version |-> app]

\* Once the linker has stopped, the newest build runs, whatever the linker
\* wrote during a reload.  A write is missed for good if the copy fails, if it
\* carries a time the editor has seen already or if it comes while the editor
\* is initialised, between the copy and the time.
NewestRuns ==
  <>[](app_dll.state = "whole" /\ ~missed => app = app_dll.version)

\* A change leads to one reload and not to reloads for ever.
ReloadsEnd == <>[](app_dll.state # "absent" => pc = "frame")
=============================================================================

------------------------------- MODULE Host --------------------------------
(***************************************************************************)
(* The host: what gs_core_new starts and gs_core_free stops, the meta      *)
(* registry, the entities and the renderables of the scene, the console,   *)
(* and the application that runs on it, linked to it or loaded as a        *)
(* library by the editor (core/gs_core.c, gs_core_app.c, gs_core_object.c, *)
(* gs_core_entity.c, gs_core_graphics.c, the generated registration).      *)
(*                                                                         *)
(* Everything runs in one thread.  Start and shutdown are scripts: `todo`  *)
(* is what is left of them, and with none left the application runs.  A    *)
(* vtable and a callback lie in the library of their class: library 0 is   *)
(* the program, others are the application's builds.  What would crash the *)
(* program is recorded in `faults`.                                        *)
(***************************************************************************)
EXTENDS MetaClasses, Integers, Sequences, FiniteSets, FiniteSetsExt

CONSTANTS
  Entities,            \* entities an application allocates
  Slots,               \* bound: indices of renderables
  MaxLibs              \* bound: builds of the application that are loaded

VARIABLES
  todo,                \* steps of start or shutdown that are left
  editor,              \* the program is the editor, not GS_CORE_APP_STANDALONE
  up,                  \* systems of g_core that run
  build,               \* builds of the application loaded so far
  info,                \* meta->info: class -> library of its vtable, if it has one
  components,          \* ents->components: class -> library of the ctor and dtor
                       \* flecs calls for its components
  systems,             \* systems flecs calls: <<class, library>>
  world,               \* entity -> class of component -> its data
  renderables,         \* scene.renderables: valid handles
  held,                \* renderables created and in no component
  app,                 \* gs_core_app_instance(): its state, or Null
  commands,            \* ddt.commands: handle -> <<name, library>>
  shown,               \* what the console widget lists (ddt.ddt.commands)
  cvars,               \* cvars.registry: name -> <<handle, library of val>>
  faults               \* reads of what is not there any more

console == <<commands, shown, cvars>>
scene   == <<renderables, held>>
meta    == <<info, components, systems>>
vars    == <<todo, editor, up, build, meta, world, scene, app, console, faults>>
-----------------------------------------------------------------------------
\* What an application declares: itself, a component, a system, a variable.
AppClasses ==
  [app_t           |-> Class("gs_core_app_t", [app_init |-> "init", app_update |-> "update",
                                               app_shutdown |-> "shutdown"]),
   app_component_t |-> Class("gs_core_entities_component_t", [dtor |-> "app_dtor"]),
   app_system_t    |-> Class("gs_core_entities_system_t", [callback |-> "app_cb"])]
AppCvars == {"app_cvar"}

Classes    == Over(CoreClasses, AppClasses)
Transform  == "gs_core_component_transform_t"
Renderable == "gs_core_component_renderable_t"
Components(classes) == Derived(classes, "gs_core_entities_component_t")
Systems(classes)    == Derived(classes, "gs_core_entities_system_t")

New(s)  == <<"new", s>>
Free(s) == <<"free", s>>
Each(op(_), names) == [i \in DOMAIN names |-> op(names[i])]

\* gs_core_new, in its order.
StartOrder ==
  Each(New, <<"sched", "meta", "register", "assets", "physics", "entities",
              "network", "ai", "gfx", "ecs", "entity", "commands">>)

\* gs_core_free, in its order.
StopOrder ==
  Each(Free, <<"sched", "register", "network", "entities", "physics", "gfx", "assets">>)

\* gs_core_editor_library_load and _gs_core_app_init.
AppStart == Each(New, <<"app", "app_meta", "app_init">>)
\* _gs_core_app_shutdown, and what gs_core_editor_library_unload does after it.
AppStop  == Each(Free, <<"app_shutdown", "app_meta", "app">>)

Structs == {"sched", "meta", "assets", "physics", "entities", "network", "ai", "gfx"}

Init ==
  /\ editor \in BOOLEAN
  /\ todo = IF editor THEN StartOrder
            ELSE <<New("app")>> \o StartOrder \o Tail(AppStart)
  /\ up = {}
  /\ build = 0
  /\ info = <<>>
  /\ components = <<>> /\ systems = {}
  /\ world = <<>>
  /\ renderables = {} /\ held = {}
  /\ app = Null
  /\ commands = <<>> /\ shown = {} /\ cvars = <<>>
  /\ faults = {}

\* The library of the application, and those that are loaded.
AppLib == IF editor THEN build ELSE 0
Libs   == {0} \cup (IF app = Null THEN {} ELSE {AppLib})
Running == todo = <<>> /\ app # Null /\ "entities" \in up

Do(step) == todo # <<>> /\ Head(todo) = step /\ todo' = Tail(todo)
Fault(ok, what) == faults' = IF ok THEN faults ELSE faults \cup {what}
-----------------------------------------------------------------------------
(* The console. *)

\* gs_slot_array_insert takes the lowest index that is free.
FreeHandle(used) == Min({h \in 0 .. Cardinality(used) : h \notin used})

Put(f, k, v) == [x \in DOMAIN f \cup {k} |-> IF x = k THEN v ELSE f[x]]
Drop(f, k)   == [x \in DOMAIN f \ {k} |-> f[x]]

\* gs_core_ddt_cmd_register
CmdRegister(cmds, cmd) == Put(cmds, FreeHandle(DOMAIN cmds), cmd)

\* gs_core_ddt_cmd_unregister
CmdUnregister(h) ==
  /\ commands' = Drop(commands, h)
  /\ shown' = {commands'[x] : x \in DOMAIN commands'}

\* gs_core_cvar_register of what the application declares; one that exists is kept.
CvarsRegister(lib) ==
  LET n == CHOOSE c \in AppCvars : TRUE
      h == FreeHandle(DOMAIN commands)
  IN  IF n \in DOMAIN cvars THEN UNCHANGED console
      ELSE /\ commands' = CmdRegister(commands, <<n, lib>>)
           /\ shown' = {commands'[x] : x \in DOMAIN commands'}
           /\ cvars' = Put(cvars, n, <<h, lib>>)

\* Mutant: the command goes and the variable stays.
CvarsForgotten ==
  LET n == CHOOSE c \in AppCvars : TRUE
  IN  IF n \notin DOMAIN cvars THEN UNCHANGED console
      ELSE CmdUnregister(cvars[n][1]) /\ UNCHANGED cvars

\* gs_core_cvar_unregister of the same
CvarsUnregister ==
  LET n == CHOOSE c \in AppCvars : TRUE
  IN  IF n \notin DOMAIN cvars THEN UNCHANGED console
      ELSE CmdUnregister(cvars[n][1]) /\ cvars' = Drop(cvars, n)

\* gs_core_ddt_cvar_cmd: the console runs the command of a variable, which
\* gs_core_cvar_get finds by the name of the command.
CvarCmd ==
  /\ Running
  /\ \E h \in DOMAIN commands :
       LET n == commands[h][1] IN
       /\ n \in AppCvars
       /\ Fault(/\ commands[h][2] \in Libs
                /\ n \in DOMAIN cvars => cvars[n][2] \in Libs, "console")
  /\ UNCHANGED <<todo, editor, up, build, meta, world, scene, app, console>>

\* gs_core_ddt_help_cmd and gs_core_ddt_clear_cmd
AddCommands ==
  /\ Do(New("commands"))
  /\ commands' = CmdRegister(CmdRegister(commands, <<"help", 0>>), <<"clear", 0>>)
  /\ shown' = {commands'[x] : x \in DOMAIN commands'}
  /\ UNCHANGED <<editor, up, build, meta, world, scene, app, cvars, faults>>
-----------------------------------------------------------------------------
(* Meta data. *)

\* The generated meta_register: every class gets its vtable.
Registered(classes, lib) ==
  info' = Over([c \in DOMAIN classes |-> lib], info)

\* The generated meta_unregister frees the vtables.
Unregistered(classes) ==
  info' = [c \in DOMAIN info \ DOMAIN classes |-> info[c]]

\* Mutant: the systems of the classes stay with flecs.
SystemsKept(classes) == systems' = systems

\* gs_core_entities_system_unregister_internal for each of them
SystemsUnregistered(classes) ==
  systems' = {s \in systems : s[1] \notin Systems(classes)}

\* The generated meta_ecs_register: components first, then systems, which ask
\* for their components by class.  flecs keeps the ctor and the dtor a component
\* was registered with first; unregistering a component does nothing.
EcsRegistered(classes, lib) ==
  /\ components' = Over(components, [c \in Components(classes) |-> lib])
  /\ systems' = systems \cup {<<c, lib>> : c \in Systems(classes)}

\* gs_core_meta_registry_new, gs_core_assets_new, gs_core_entities_new, ...
NewStruct ==
  /\ \E s \in Structs : Do(New(s)) /\ up' = up \cup {s}
  /\ UNCHANGED <<editor, build, meta, world, scene, app, console, faults>>

MetaRegister ==
  /\ Do(New("register"))
  /\ Registered(CoreClasses, 0)
  /\ Fault("meta" \in up, "registry")
  /\ UNCHANGED <<editor, up, build, components, systems, world, scene, app, console>>

EcsRegister ==
  /\ Do(New("ecs"))
  /\ EcsRegistered(CoreClasses, 0)
  /\ Fault({"meta", "entities"} \subseteq up, "entities")
  /\ UNCHANGED <<editor, up, build, info, world, scene, app, console>>

\* gs_core_entities_allocate: every entity has a tag, whose component must exist.
DefaultEntity ==
  /\ Do(New("entity"))
  /\ Fault("gs_core_component_tag_t" \in DOMAIN components, "component")
  /\ UNCHANGED <<editor, up, build, meta, world, scene, app, console>>

MetaUnregister ==
  /\ Do(Free("register"))
  /\ Unregistered(CoreClasses)
  /\ SystemsUnregistered(CoreClasses)
  /\ Fault({"meta", "entities"} \subseteq up, "entities")
  /\ UNCHANGED <<editor, up, build, components, world, scene, app, console>>
-----------------------------------------------------------------------------
(* Entities. *)

\* What reads the vtable of a class: it is absent, or must be loaded.
Callable(c) == c \in DOMAIN info => info[c] \in Libs

Handles(es) == {world[e][Renderable] : e \in {x \in es : Renderable \in DOMAIN world[x]}}

\* Mutant: the dtor of a component is the empty one of its base.
DestroyedByNobody(es) ==
  /\ UNCHANGED renderables
  /\ Fault(TRUE, "dtor")

\* _gs_core_entities_component_dtor_internal for every component of the
\* entities: without a vtable the dtor is not called.
Destroyed(es) ==
  LET classes == UNION {DOMAIN world[e] : e \in es}
      dtor    == VtableInit(Classes, Renderable).dtor # Null
  IN  /\ renderables' = renderables \
           (IF dtor /\ Renderable \in DOMAIN info THEN Handles(es) ELSE {})
      /\ faults' = faults \cup {"actions" : c \in {x \in classes : components[x] \notin Libs}}
                        \cup {"dtor" : c \in {x \in classes : ~Callable(x)}}
                        \cup {"scene" : h \in IF "gfx" \in up THEN {} ELSE Handles(es)}

\* gs_core_entities_allocate, called by the application
Allocate ==
  /\ Running
  /\ \E e \in Entities \ DOMAIN world : world' = Put(world, e, <<>>)
  /\ Fault("gs_core_component_tag_t" \in DOMAIN components, "component")
  /\ UNCHANGED <<todo, editor, up, build, meta, scene, app, console>>

\* gs_core_entities_component_add replaces the data of a component that is there.
Add(e, c, data) ==
  /\ world' = [world EXCEPT ![e] = Put(@, c, data)]
  /\ Fault(c \in DOMAIN components, "component")

ComponentAdd ==
  /\ Running
  /\ \E e \in DOMAIN world, c \in {Transform, "app_component_t"} : Add(e, c, 0)
  /\ UNCHANGED <<todo, editor, up, build, meta, scene, app, console>>

\* Each renderable is given to one component; the one it replaces is the
\* application's again.
RenderableAdd ==
  /\ Running
  /\ \E e \in DOMAIN world, h \in held :
       /\ Add(e, Renderable, h)
       /\ held' = (held \ {h}) \cup Handles({e})
  /\ UNCHANGED <<todo, editor, up, build, meta, renderables, app, console>>

\* gs_core_graphics_scene_renderable_create
RenderableCreate ==
  /\ Running
  /\ LET h == FreeHandle(renderables) IN
       /\ h \in Slots
       /\ renderables' = renderables \cup {h}
       /\ held' = held \cup {h}
  /\ UNCHANGED <<todo, editor, up, build, meta, world, app, console, faults>>

\* gs_core_graphics_scene_renderable_destroy
RenderableDestroy ==
  /\ Running
  /\ \E h \in held : renderables' = renderables \ {h} /\ held' = held \ {h}
  /\ UNCHANGED <<todo, editor, up, build, meta, world, app, console, faults>>

\* gs_core_entities_deallocate
Deallocate ==
  /\ Running
  /\ \E e \in DOMAIN world : world' = Drop(world, e) /\ Destroyed({e})
  /\ UNCHANGED <<todo, editor, up, build, meta, held, app, console>>

\* gs_core_entities_shutdown: ecs_fini destructs entity by entity.
EntitiesShutdown ==
  /\ Do(Free("entities"))
  /\ Destroyed(DOMAIN world)
  /\ world' = <<>>
  /\ systems' = {}
  /\ up' = up \ {"entities"}
  /\ UNCHANGED <<editor, build, info, components, held, app, console>>
-----------------------------------------------------------------------------
(* The application. *)

\* gs_core_cast_vt(app, gs_core_app_t)->f(): nobody asks whether it is there.
AppCallable == app # Null /\ "app_t" \in DOMAIN info /\ info["app_t"] \in Libs

\* GS_CORE_APP_DEFINE's _gs_core_app_new, or the user data of the program.
AppNew ==
  /\ Do(New("app"))
  /\ app' = IF editor THEN "STOPPED" ELSE "PLAYING"
  /\ build' = IF editor THEN build + 1 ELSE build
  /\ UNCHANGED <<editor, up, meta, world, scene, console, faults>>

AppMetaRegister ==
  /\ Do(New("app_meta"))
  /\ CvarsRegister(AppLib)
  /\ Registered(AppClasses, AppLib)
  /\ EcsRegistered(AppClasses, AppLib)
  /\ Fault({"meta", "entities"} \subseteq up, "entities")
  /\ UNCHANGED <<editor, up, build, world, scene, app>>

AppInit ==
  /\ Do(New("app_init"))
  /\ Fault(AppCallable, "app vtable")
  /\ UNCHANGED <<editor, up, build, meta, world, scene, app, console>>

\* The generated callback of a system: it ticks while the application plays.
Ticks(s) ==
  /\ s[2] \in Libs
  /\ app # Null
  /\ app = "PLAYING" => s[1] \in DOMAIN info /\ info[s[1]] \in Libs

\* gs_core_system_renderable_cb asks the scene for the renderable of every
\* entity that has both components.
CallbackFinds ==
  \A e \in DOMAIN world :
    {Transform, Renderable} \subseteq DOMAIN world[e] => world[e][Renderable] \in renderables

\* _gs_core_app_update
AppUpdate ==
  /\ Running
  /\ Fault(/\ app = "PLAYING" => AppCallable
           /\ \A s \in systems : Ticks(s)
           /\ app = "PLAYING" => CallbackFinds, "update")
  /\ UNCHANGED <<todo, editor, up, build, meta, world, scene, app, console>>

\* The application pauses itself; the editor's key plays and stops it.
SetState ==
  /\ Running
  /\ \E s \in {"STOPPED", "PLAYING", "PAUSED"} \ {app} : app' = s
  /\ UNCHANGED <<todo, editor, up, build, meta, world, scene, console, faults>>

\* _gs_core_app_shutdown calls the application first, which deallocates the
\* entities it remembers.
AppShutdown ==
  /\ Do(Free("app_shutdown"))
  /\ IF AppCallable
     THEN \E es \in SUBSET DOMAIN world :
            /\ world' = [e \in DOMAIN world \ es |-> world[e]]
            /\ Destroyed(es)
     ELSE Fault(FALSE, "app vtable") /\ UNCHANGED <<world, renderables>>
  /\ UNCHANGED <<editor, up, build, meta, held, app, console>>

AppMetaUnregister ==
  /\ Do(Free("app_meta"))
  /\ CvarsUnregister
  /\ Unregistered(AppClasses)
  /\ SystemsUnregistered(AppClasses)
  /\ Fault({"meta", "entities"} \subseteq up, "entities")
  /\ UNCHANGED <<editor, up, build, components, world, scene, app>>

\* gs_platform_library_unload, gs_core_app_instance_set(NULL)
AppUnload ==
  /\ Do(Free("app"))
  /\ app' = Null
  /\ UNCHANGED <<editor, up, build, meta, world, scene, console, faults>>

\* gs_core_editor_library_load, in the editor's init or after a reload
LibraryLoad ==
  /\ editor /\ todo = <<>> /\ app = Null /\ "entities" \in up
  /\ build < MaxLibs
  /\ todo' = AppStart
  /\ UNCHANGED <<editor, up, build, meta, world, scene, app, console, faults>>

\* gs_core_editor_library_unload before a reload
LibraryUnload ==
  /\ editor /\ Running
  /\ todo' = AppStop
  /\ UNCHANGED <<editor, up, build, meta, world, scene, app, console, faults>>

\* _gs_core_app_shutdown of the program, gs_core_editor_shutdown of the editor:
\* each frees the core last.
Quit ==
  /\ todo = <<>> /\ "entities" \in up
  /\ todo' = (CASE ~editor               -> SubSeq(AppStop, 1, 2)
                [] editor /\ app = Null -> <<>>
                [] OTHER                -> AppStop) \o StopOrder
  /\ UNCHANGED <<editor, up, build, meta, world, scene, app, console, faults>>

\* gs_core_network_shutdown, gs_core_physics_shutdown, gs_core_assets_shutdown
FreeStruct ==
  /\ \E s \in {"sched", "network", "physics", "assets"} :
       Do(Free(s)) /\ Fault(s \in up, s) /\ up' = up \ {s}
  /\ UNCHANGED <<editor, build, meta, world, scene, app, console>>

\* gs_core_graphics_shutdown
GfxShutdown ==
  /\ Do(Free("gfx"))
  /\ renderables' = {}
  /\ up' = up \ {"gfx"}
  /\ UNCHANGED <<editor, build, meta, world, held, app, console, faults>>

Ended == todo = <<>> /\ "entities" \notin up /\ UNCHANGED vars

Next ==
  \/ NewStruct \/ MetaRegister \/ EcsRegister \/ DefaultEntity \/ AddCommands
  \/ AppNew \/ AppMetaRegister \/ AppInit
  \/ AppUpdate \/ SetState \/ CvarCmd
  \/ Allocate \/ ComponentAdd \/ Deallocate
  \/ RenderableCreate \/ RenderableAdd \/ RenderableDestroy
  \/ LibraryLoad \/ LibraryUnload \/ Quit
  \/ AppShutdown \/ AppMetaUnregister \/ AppUnload
  \/ MetaUnregister \/ EntitiesShutdown \/ FreeStruct \/ GfxShutdown
  \/ Ended

Spec == Init /\ [][Next]_vars
-----------------------------------------------------------------------------
\* Nothing is called or read that is not there: no vtable, callback or value in
\* a library that is gone, no component before it is registered, no system
\* before its start or after its end, no handle whose renderable is destroyed.
\* Only the ctor and dtor of a component outlive the library they lie in: flecs
\* keeps them, as unregistering a component does nothing.
NoFault == faults \subseteq IF editor THEN {"actions"} ELSE {}

\* While the meta data is registered a renderable lives as long as what owns
\* it: every component finds its own, none is left without an owner.
SceneMatchesWorld ==
  Renderable \in DOMAIN info /\ "gfx" \in up =>
    /\ renderables = held \cup Handles(DOMAIN world)
    /\ held \cap Handles(DOMAIN world) = {}
    /\ \A e, f \in {x \in DOMAIN world : Renderable \in DOMAIN world[x]} :
         e # f => world[e][Renderable] # world[f][Renderable]

\* The console lists the commands that are registered, and the variables with a
\* command are those in the registry.
ConsoleAgrees ==
  /\ shown = {commands[h] : h \in DOMAIN commands}
  /\ \A n \in DOMAIN cvars :
       cvars[n][1] \in DOMAIN commands /\ commands[cvars[n][1]] = <<n, cvars[n][2]>>
  /\ \A h \in DOMAIN commands :
       commands[h][1] \in AppCvars => commands[h][1] \in DOMAIN cvars
=============================================================================

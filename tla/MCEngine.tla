------------------------------ MODULE MCEngine ------------------------------
(***************************************************************************)
(* Small instances, for TLC, of the parts of the engine that share no      *)
(* state.  A behaviour runs one of them and leaves the others as they are  *)
(* at the start, so that the run checks them side by side and not their    *)
(* product.                                                                *)
(***************************************************************************)
EXTENDS Physics, Engine, Exchange, FiniteSets, TLC

CONSTANTS
  u8, u16,                         \* the VM's values
  old, mid, new, u32, u64, str,    \* properties and their types
  NoPath                           \* a path that leads nowhere

VARIABLES
  part,                            \* the part that runs
  order, asked, answer

\* One body with all its flags, one whose attributes are set, and two bodies with
\* less: these share a shape or have one each.
One == INSTANCE Physics WITH MaxBodies <- 1, MaxShapes <- 1, AttrValues <- {1}
Set == INSTANCE Physics WITH MaxBodies <- 1, MaxShapes <- 1, Flags <- {"kinematic"}
Two == INSTANCE Physics WITH
  Types <- {}, Flags <- {}, AttrValues <- {1}, Offsets <- {0}

\* A value of one byte and one of two.
MCSize == u8 :> 1 @@ u16 :> 2

Type(name, stars) == [name |-> name, stars |-> stars]
NoType            == Type("", 0)
Field(t)          == [container |-> "none", type |-> t, key |-> NoType, elem |-> NoType]
Plain ==
  [base |-> "obj", declares |-> {}, overrides |-> {}, decls |-> {}, fields |-> <<>>]
Overriding(base, decls) == [Plain EXCEPT !.base = base, !.overrides = {"callback"}, !.decls = decls]
Constructed(base)       ==
  [Plain EXCEPT !.base = base, !.overrides = {"ctor", "callback"}, !.decls = {"ctor", "callback"}]

\* Two header files of the core, one of the editor, and a project whose class
\* mover derives from a class of the core that overrides the same slot.  The
\* views override ctor, as those of the editor do; a plugin has a view below one.
MCEntries ==
  "source" :> {"core", "editor"} @@ "core" :> {"object.h", "app.h"}
  @@ "editor" :> {"views.h"} @@ "project" :> {"game.h", "game.c"}
  @@ "plugin" :> {"map.h"}
MCContents ==
  "object.h" :> <<"obj", "system", "renderable">> @@ "app.h" :> <<"app">>
  @@ "views.h" :> <<"view", "scene">> @@ "game.h" :> <<"game", "mover">> @@ "game.c" :> <<"hidden">>
  @@ "map.h" :> <<"map">>
MCClasses ==
  [obj        |-> [Plain EXCEPT !.base = "base_t", !.declares = {"serialize"}],
   system     |-> [Plain EXCEPT !.declares = {"callback"}],
   renderable |-> [Overriding("system", {}) EXCEPT
                     !.fields = <<Field(Type("mesh_t", 1)), Field(Type("vqs", 0))>>],
   app        |-> [Plain EXCEPT
                     !.fields = <<Field(Type("float", 0)), Field(Type("char", 2)), Field(Type("uuid", 0)),
                                  [container |-> "table", type |-> NoType,
                                   key |-> Type("id_t", 0), elem |-> Type("mesh_t", 0)]>>],
   view       |-> [Plain EXCEPT !.declares = {"callback"}],
   scene      |-> Constructed("view"),
   map        |-> Constructed("scene"),
   game       |-> [Plain EXCEPT !.base = "app", !.declares = {"callback", "run"}, !.overrides = {"serialize"},
                     !.fields = <<[Field(Type("score_t", 0)) EXCEPT !.container = "array"]>>],
   mover      |-> Overriding("renderable", {"callback"}),
   hidden     |-> Plain]
MCMapped == {Type("float", 0), Type("char", 1), Type("vqs", 0), Type("uuid", 0)}
MCRuns   == <<"core", "project", "editor", "plugin">>
MCArgs   == [core |-> <<"core">>, editor |-> <<"editor", "100">>,
             project |-> <<"project", "source", "200">>, plugin |-> <<"plugin", "editor", "300">>]
MCNumber == "100" :> 100 @@ "200" :> 200 @@ "300" :> 300

Prop(name, type, bytes) == [name |-> name, type |-> type, size |-> bytes]

\* A class whose properties are reordered, then retyped (one to a type that is
\* not written, one to an array), and of which one is dropped at last.
MCVersions ==
  << <<Prop(old, u32, 1), Prop(new, u64, 2), Prop(mid, u32, 1)>>,
     <<Prop(mid, u32, 1), Prop(new, u32, 1), Prop(old, u32, 1)>>,
     <<Prop(new, str, 2), Prop(old, u32, 3), Prop(mid, u32, 1)>>,
     <<Prop(new, u32, 1), Prop(mid, u32, 1)>> >>
MCScalars == u32 :> 1 @@ u64 :> 2

\* A directory with a directory in it and so on; a file with two matches, one
\* with a line that fgets reads in two pieces, one with more lines than are
\* stored, one that is too large, and one that is as closed as its directory.
Line(units, at) == [units |-> units, at |-> at]
Search == INSTANCE SearchTools WITH
  Entries <- ("source" :> {"core", "notes"} @@ "core" :> {"app.c", "gen", "lib"}
              @@ "gen" :> {"big.c", "huge.c"} @@ "lib" :> {"main.c"}),
  Lines <- ("notes" :> <<Line(3, 3), Line(1, 1)>>
            @@ "app.c" :> <<Line(1, 1), Line(2, 0), Line(1, 1)>>
            @@ "big.c" :> <<Line(1, 1), Line(1, 0), Line(1, 0), Line(1, 1), Line(1, 1)>>
            @@ "huge.c" :> <<Line(1, 0), Line(2, 1)>>
            @@ "main.c" :> <<Line(1, 1)>>),
  Accepted <- {"app.c", "big.c", "huge.c", "main.c"}, Missing <- NoPath,
  Closed <- {"lib", "main.c"}, Large <- {"huge.c"},
  Limits <- {0, 1, 3}, LineBuffer <- 2, MaxLines <- 3

physics   == <<system, shapes, bodies, gravity>>
host      == <<todo, editor, up, build, info, components, systems, world, renderables, held,
               app, commands, shown, cvars, faults>>
vm        == <<exported, imported, elements, position, mem, calls>>
generator == <<listing, hashing, run, unread, classes, customs, out>>
saving    == <<version, obj, file, saved, loaded>>
sending   == <<sendIds, recvIds, sender, receiver, sent, kept>>
search    == <<order, asked, answer>>
web       == <<reader, maxSize, received, capacity, data, size, truncated, whole, result>>
connection ==
  <<enetHost, hostType, union, peers, clean, misused>>
engine    == <<part, physics, host, vm, generator, saving, sending, search, web, connection>>

EngineInit ==
  /\ part \in {"flags", "attributes", "bodies", "host", "vm", "generator", "saving", "sending",
              "search", "web", "connection"}
  /\ Init /\ Script!Init /\ Saving!Init /\ Web!Init /\ Connection!Init
  /\ Core!Init /\ (part # "host" => ~editor)
  /\ IF part = "generator" THEN Tool!Init
     ELSE /\ listing = <<>> /\ hashing = <<>> /\ run = "" /\ unread = <<>>
          /\ classes = <<>> /\ customs = <<>> /\ out = <<>>
  /\ IF part = "sending" THEN Sending!Init
     ELSE /\ sendIds = <<>> /\ recvIds = <<>> /\ sender = <<>> /\ receiver = <<>>
          /\ sent = <<>> /\ kept = <<>>
  /\ IF part = "search" THEN Search!Init ELSE order = <<>> /\ asked = Search!NoCall /\ answer = <<>>

EngineNext ==
  \/ /\ part = "flags" /\ One!Next
     /\ UNCHANGED <<part, host, vm, generator, saving, sending, search, web, connection>>
  \/ /\ part = "attributes" /\ Set!Next
     /\ UNCHANGED <<part, host, vm, generator, saving, sending, search, web, connection>>
  \/ /\ part = "bodies" /\ Two!Next
     /\ UNCHANGED <<part, host, vm, generator, saving, sending, search, web, connection>>
  \/ /\ part = "host" /\ Core!Next
     /\ UNCHANGED <<part, physics, vm, generator, saving, sending, search, web, connection>>
  \/ /\ part = "vm" /\ Script!Next
     /\ UNCHANGED <<part, physics, host, generator, saving, sending, search, web, connection>>
  \/ /\ part = "generator" /\ Tool!Next
     /\ UNCHANGED <<part, physics, host, vm, saving, sending, search, web, connection>>
  \/ /\ part = "saving" /\ Saving!Next
     /\ UNCHANGED <<part, physics, host, vm, generator, sending, search, web, connection>>
  \/ /\ part = "sending" /\ Sending!Next
     /\ UNCHANGED <<part, physics, host, vm, generator, saving, search, web, connection>>
  \/ /\ part = "search" /\ Search!Next
     /\ UNCHANGED <<part, physics, host, vm, generator, saving, sending, web, connection>>
  \/ /\ part = "web" /\ Web!Next
     /\ UNCHANGED <<part, physics, host, vm, generator, saving, sending, search, connection>>
  \/ /\ part = "connection" /\ Connection!Next
     /\ UNCHANGED <<part, physics, host, vm, generator, saving, sending, search, web>>

EngineSpec == EngineInit /\ [][EngineNext]_engine
-----------------------------------------------------------------------------
\* The properties of the parts, under the names their modules state them with;
\* those of Physics, Engine and Exchange are the modules' own.

\* What two runs of the generator wrote can be linked into one program.
RunsAgree == Tool!RunsAgree

\* What a program reads without the condition of LoadsWhatWasSaved, as
\* core/gs_core_object.c:232 has it.
SkipsWhatDoesNotMatch == Saving!SkipsWhatDoesNotMatch

\* A search finds the first max_results of all matches in the files it reads,
\* and no others.
SearchesFindTheFirst == Search!SearchesFindTheFirst

\* Matches that the limit has cut off are told, as ai/tools/gs_core_ai_tools_fs.h:142
\* has it.
TruncatedIsTold == Search!TruncatedIsTold
=============================================================================

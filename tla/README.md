# Formal model of gs_core

gs_core is a C framework for small 3D programs: an application core with
generated meta data, assets, entities, physics and networking, an editor that
reloads the application while it runs, and a coordinator that lets a language
model answer questions with tools. The modules of this directory model the
parts of it that keep state and make decisions, TLC checks them on small
instances, and TLAPS proves the most important properties for every instance.
Paths below are relative to `src/source/`.

## The system

| Component | State it keeps | Operations | Model |
|---|---|---|---|
| AI coordinator (`ai/gs_core_ai_coordinator.c`) | tools, cached prompt, plan, steps, index, reflection, history | create, register a tool, query, clear, free | `Coordinator`, `Session` |
| File and code tools (`ai/tools/*_fs.c`, `*_code.c`) | nothing between calls | search, list | `SearchTools` |
| HTTP tool, Ollama provider (`ai/tools/*_http.c`, `ai/providers/`) | a response buffer per request | one request | `Responses` |
| Asynchronous tasks (`core/gs_core.c:392-432`) | flags of an async, run counts and pipes of the scheduler | dispatch, running, finish | `AsyncTask` |
| Core and application (`core/gs_core.c:214-343`, `core/gs_core_app.c`) | the systems that run, the application | new, free, init, update, shutdown | `Host` |
| Console (`core/gs_core.c:44-196`, `371-390`) | commands, variables | register, unregister, execute | `Host` |
| Meta data (`core/gs_core_object.c`, `core/generated/`) | registry of classes and vtables | register, look up | `MetaClasses`, `Host` |
| Serialization (`core/gs_core_object.c`) | a byte buffer | serialize, deserialize | `ObjectSerialization` |
| Entities, components (`core/gs_core_entity.c`, `core/gs_core_components.c`) | flecs' world, table of components | allocate, add, systems; the network forms | `Host`, `EntityReplication` |
| Graphics scene (`core/gs_core_graphics.c`) | slot array of renderables | create, destroy | `Host`; drawing is not modelled |
| Physics (`core/gs_core_physics.cpp`) | Bullet's world, a description of each body and shape | setters, getters, update | `Physics` |
| Native script VM (`core/gs_core_vm.c`) | stack of elements and bytes, registered functions | push, pop, clear, exec | `NativeVM` |
| Assets (`core/gs_core_asset.c`) | per importer: two slot arrays, two tables, a default | import, add, free, get, shutdown | `AssetManager` |
| Network (`core/gs_core_network.c`) | the server's table of clients, the client's peer and id; the host | create, update, send, disconnect, destroy | `Network`, `NetworkHost` |
| Memory debugger (`core/gs_core_config.c`) | hash table of blocks, counters | malloc, realloc, free, report | `MemTable`, `MemRecords` |
| Editor hot reload (`editor/gs_core_editor.c`) | times, copy of the library, running application | update, reload | `HotReload` |
| Reflection generator (`reflection/reflection.c`) | classes, types, offsets of one run | read files, write code | `Reflection` |
| Path finding, file watcher, crash handler, views, `proj_gen/` | | drawing, platform calls, templates | not modelled |

How they interact. The application calls everything from its main thread, once
per frame, through the singletons that `gs_core_new` creates. The reflection
generator runs before the compiler, once for the core, once for each project
and once for the editor, and what the runs wrote is linked into one program. There are three
sources of concurrency: the workers of the task scheduler, the other processes
behind the network, and the linker that writes the library the editor is about
to load. The coordinator is synchronous; its hard part is that state of one
query outlives it and that prompts, plans and indices change in many places.
The memory debugger lies under every allocation of every thread.

What is hard to test, and so what the properties are about: `PROJECT.json` lists the
hazards with their lines. In short: stale plans and prompts, off-by-one in the
shared budget of requests, interleavings of adding, counting and finishing
tasks, slots and ids that are used again, files that change between two steps
of a reload, clients that vanish, probe paths through removed entries, the
order of start and shutdown around a library that comes and goes, copies of one
fact in two places (a body and its description, a console command and its
variable), calls within calls on one stack, files of an older program, and
buffers and limits that are met in the middle of something.

## The modules and the code

### Coordinator, Session

A query is executed either as a ReAct loop (AGENTIC) or in two phases, a
planning request and an execution loop (PLAN_REFLECT). The provider and the
tools are the environment: an action is everything the coordinator does between
two of their answers. Variables have the names of the fields of
`gs_core_ai_coordinator_t`; `pc`, `iteration` and `prompt` are the locals of the loops;
`query`, `requests`, `done` and `planned` are history. Texts are reduced to what the
code tells apart: a step of a plan is the query and the revision it came from,
a prompt is what it asks for. `LoopHead` is the `while` of both loops, `Execute` the
second half of the planning phase, `Reflection` and `KeptSteps` the revision of a plan.

`Session` is what a caller relies on: a query has a budget of requests (one more
in PLAN_REFLECT, for the plan), spends it one by one and ends in one outcome.

Run `coordinator`: a system prompt lists exactly the registered tools (`PromptListsTools`); once a plan is
parsed no step of an earlier query is left (`StepsOfThisQuery`); a prompt orders the step at the
index; the index counts successful tool calls (`IndexCountsSuccesses`, which is not what the comment at
`gs_core_ai_coordinator.c:849` says, see below); the iterations reported are the
requests made; steps already done survive revisions; every query returns; the
refinement of `Session`. Bounds: one tool, two queries, four iterations, plans and
revisions of up to two steps. Two queries are what a leak from one to the next
takes; four iterations hold a failure, a success and a revision before the
last answer.

### AsyncTask

A dispatched async is a task of one piece, the runner, that a worker executes:
it adds the program's own task and spins until that one is done. The module
models dispatch, runner and `finish()` and, from the vendored `sched.h`, adding, splitting, taking
and joining, at the granularity of the accesses to shared variables. A task is added in parts
(`Added`, by `range_to_split`), and a thread that takes a part larger than `range_to_run` keeps its beginning and
writes the rest in parts to its own pipe, where others can take them before it counts them (`Split`, `CountParts`).
A thread is a stack of frames, because a join executes other tasks while it waits. The
constant `Client` says when the program dispatches again: after `finish()` (the contract the
runs assume), as soon as `running()` is false, or from the callback.

Splitting breaks the count. `scheduler_add` hides what it has not counted yet behind an offset of -1, a
split does not: the parts of a split can be executed, and the count brought to zero, while the thread that split the
piece has its own part to run. Run `async_split` shows what follows: the callback is called while the task runs. So
`CountsTellTheTruth`, and what rests on it, is claimed where the source makes it true: for tasks that are not split
(`NeverSplit`, which the proofs have as hypothesis: `range_to_run` is no less than `range_to_split`, as for a task that is
smaller than twice the number of workers, or whose `part` is at least its size over that number), and where only one
thread executes pieces.

Run `main_loop`, parts `asyncs` and `split`: a count of zero means that no piece waits or runs, and an async that is
done has nothing running (`CountsTellTheTruth`); one callback for each dispatch; every dispatched
async is finished some day; `finish()` returns. Bounds: two asyncs on three workers with a task of two parts,
which are not split; and one async on two workers, with a task of size four that is added in two parts of two, each of which
is split: one worker spins in the runner, so the other is the only one that executes pieces, until the main thread joins. Two
dispatches each. Pipes are never full (they hold 512 pieces), which leaves out what a thread does then: it executes the piece in place.

### AssetManager

Slot arrays and tables as functions; a slot array gives out the lowest free
index. `Store` is the common part of importing and adding. Run `resources`, part assets: assets, records,
handles and uuids lead to each other and back, whatever was freed, although the uuid
table is filled with slots of assets (`LookupsAgree`); the default asset survives; the
shutdown frees everything. Bounds: an importer that
has a default and one that has not, slots 0 to 3, five assets, so that slots are used
again in every order. The run's module is `MCResources`, where assets are an instance beside the memory table;
`AssetState` has the variables, the lookups and the properties, so that the run and the proofs speak of the same ones.

### HotReload

One action for each kind of frame of `gs_core_editor_update`, and the reload in two halves, between which
the linker may write. Modification times have a resolution of a second, so a
write may leave the time as it is. Run `main_loop`, part `reload` (`MCMainLoop` has it as an instance
beside the asyncs; `ReloadState` has the variables and the properties of both): what runs was loaded from the copy that is
there, and nothing else stays loaded; when the linker has stopped, the newest
build runs; reloads end. Bounds: three builds, five times.

### Network

The server's table, the clients' ends, and of ENet the states of a peer and the
handshakes (from the vendored `enet.h`). Commands in flight are sets, so they overtake each
other. A client is one call of `gs_core_network_client_create`; it may give up, leave or crash at any time.
Run `network`: between polls both sides agree on ids and the table reaches the same clients as
a broadcast (`TableAgrees`); ids announced to the program reach the client they were announced
for, and calls name their sender, although slots are used again; leaving is
noticed. Bounds: three clients for two slots, and one call, one disconnect by the server
and one crash.

### MemTable, MemRecords

The table is guarded by one spinlock, so an operation of it is a step; the
operating system's calls before and after it are steps of their own. `MemRecords` is the
abstract table, a function from blocks to sizes. Run `resources`, part memory: a probe finds every block
the program holds, with its size, and the report lists only live blocks (`RecordsHeld`); its counters
agree; double frees are reported and others are not, unless the record was
lost (`FreesJudged`); the refinement. Bounds: two threads, four blocks of which three collide, three
slots (so probes wrap around and the table can be full), four calls.

### Engine, Exchange, MCEngine and the parts they run

The remaining modules share no state with each other. `Engine` holds an instance of `Host`,
`NativeVM`, `Responses` and `NetworkHost`, `Exchange` one of `Reflection`, `ObjectSerialization` and `EntityReplication`, with what is assumed of
their constants and their properties under the names the proofs use too. `MCEngine` adds
the other parts and a variable `part`: a behaviour runs one part and leaves the
others at their start, so that run `engine` checks them side by side. Physics
has three instances. About 313000 states.

**Host, MetaClasses.** `MetaClasses` is the table of generated classes: of each its
base and the slots of its vtable that it sets itself. `Host` is the program around the
application. Start and shutdown are scripts (`StartOrder`, `StopOrder`, and what the application
adds to them); `todo` is what is left of the script, each entry a step with what it
needs and does. A vtable, a callback and the value of a console variable lie in
a library, and the editor loads and unloads libraries; whatever uses what is not
there goes to `faults`. Flecs is external: it keeps the constructor and destructor
of a component. Properties: `NoFault`, for the program and, but for those constructors, for the
editor; `SceneMatchesWorld`, that a renderable lives exactly as long as the component or variable that
owns it; `ConsoleAgrees`, that what the console shows, the commands and the variables list
the same. Bounds: two entities, two renderables, two builds of the application.

**Physics.** A body is its description and what Bullet made of it. Each setter of
`gs_core_physics.cpp` is an action, and `Update` is what a simulation step does to places, sleep and motion
states: one step of a 60th of a second, after which the motion state of a body that moved is not its place but a step behind
it (Bullet's latency interpolation). Bullet clamps dampings to 0 and 1, and gives a body that joins the world, or one that is simulated
when the world's gravity is set, that gravity for its own. `CopiesAgree`: description and body stay the same
through any order of setters, but for these two attributes, and the motion state the program reads is the body's place unless a simulation step
was the last to move it (`carried`, a history field). So `refresh_transform`, which sets what was read, puts a moving
body back by a step.
`OneShapeChanges`: a call moves or scales only bodies of one shape. `MadeForGood`: what `add_body` and
the first kinematic moment decide is never undone: a body made without mass is
never moved by a step, and a body that was kinematic never sleeps. Bounds: one body of one shape with all flags, one whose attributes (a damping and
the gravity, 1 or 2) are set too, and two bodies of two shapes with less; two places.

**NativeVM.** The stack is elements over a byte buffer; pop leaves bytes behind.
A script function is whatever pushes, pops, clears and calls up to its
return. `ResultsAreTheCalls`: bytes of two values never overlap, and a call returns what it and the calls in it left
above its arguments, less what it took from below. `StackDiscipline`: a step changes the stack
at its top only. Bounds: values of one and two bytes, stack and calls
of three, two result slots and a return buffer of four bytes, so that each limit is met.

**Reflection.** One run of the generator reads the directories it depends on, then
its own, in any order `readdir` gives, and writes ids, custom types, vtables, signatures and
macros. `RunsAgree`: when the runs of core and project are linked, no class takes another's place in the registry, and a type
has one id. `VtablesWhole`: a vtable has the slots of all classes it derives from, each with the nearest override, its macro has
every slot the class declares, and an override has the signature of the class that introduced the slot. The slots `ctor` and
`info`, which every vtable has and no class declares (`CoreSlots`), can be overridden too, as the editor's views do; below another such
override the tool has no signature to copy and returns in the middle of its output (`Unreadable`, `reflection.c:1423`). Then nothing
that was generated can be used, and the property says that this happens for these slots only. Bounds: ten classes, some of which override a slot over
two levels, one `ctor` over two levels, the three runs of the repository's build scripts, and a run of a plugin to the editor.

**ObjectSerialization.** A buffer of units that say which value they are part of,
and four versions of one class, in which properties move, change type and go.
`LoadsWhatWasSaved`: a newer program gets back each value whose property is as it was, as long as what it
skips has the size in its header. The comment in the code has no such condition
(run `old_files`).

**EntityReplication.** Two programs, each with its own flecs ids; a packet written in any order of
components. `EntityReplicates`: with equal ids the receiver has what the sender had, and what it had
besides is as it was. Bounds: two components, three ids, two values.

**SearchTools.** The walks of five tools over a small tree, with entries in any order. Lines are
what a tool takes for lines: `search_files` splits long ones, the code tools
join what comes after the last line they store. Every tool passes over what it cannot open, and the code tools over files above
10 MB (`Reads`), and none says so. `SearchesFindTheFirst` compares a search with the list of all
matches in the files that are read, defined without the walk; the list is exact for files whose lines fit (`Fits`). What the limit cuts off is announced only
if another file is opened (run `truncated`). Bounds: four directories, one of which cannot be opened, five files, among them one with a line in two
pieces, one with more lines than are stored, one that is too large and one that cannot be opened, limits 0, 1 and 3.

**NetworkHost.** One program's host through creations, uses and destructions in any order; a freed host stays
in the pointer, and table and peer are a union. `DeadHostUnused`, a part of `NoFault`: no call uses or
destroys a freed host or mistakes the union, except that `is_connected` reads a freed host, for a program whose `client_create` replaces
no live host and finds one. `Network` has what this leaves out, the single peers.

**Responses.** The two buffers in which curl's chunks are collected; a cell holds
a byte's number, the terminator, or what was there. `ResponseKept`: no cell outside is written,
the bytes are in order up to `max_size`, `truncated` is true exactly when some are missing, and the content is what
was kept, for a body with bytes that was not cut within a chunk (nothing terminates others). Bounds: capacity
4, `max_size` 0, 2, 4 and 6, chunks up to 3, bodies up to 8: every meeting of chunk, limit
and capacity.

## Disagreements between the code and what it says

Each of these is a run that TLC must find violated.

- `coordinator_failure_reported`: a provider that fails inside a loop does not lead to an error result: the
  response is freed, which clears the message that is then read (`gs_core_ai_coordinator.c:1216`).
- `coordinator_stale_steps`: "Clear previous plan and state" leaves steps and index (`:1415`); a plan that is not
  JSON then orders steps of an earlier query.
- `async_split`: a task that is split when it is taken can have a count of zero while a part of it runs, so that the "Callback when
  completed" (`core/gs_core.h:107`) is called while it runs (`sched.h:903`).
- `async_starved`: as many asyncs as workers, and nobody executes their tasks (`gs_core.c:397`).
- `network_timeout`: clients that time out stay in the list of connected clients (`gs_core_network.c:694`).
- `old_files`: a property that does not match is skipped by the size in its header, which is not what was
  written of an array or of a type without a case (`gs_core_object.c:239`).
- `truncated`: what a limit cuts off within the last file a search opens is not announced, though `truncated` is "Whether results were
  truncated" (`gs_core_ai_tools_fs.h:142`, `gs_core_ai_tools_code.h:94` and `:116`).

Other observations, which no run is spent on; most are in the models.

- Coordinator: after a tool error in PLAN_REFLECT the code orders the step at the index, which is the one that failed. The comment there says
  "Try to continue with next step despite error" (`gs_core_ai_coordinator.c:849`) and the prompt it builds "Continuing with next step anyway." (`:861`).
  `IndexCountsSuccesses` passes because it states what the code does; its mutant `ToolFailsAdvance` is what comment and prompt say. The
  execution phase replaces a custom system prompt (`gs_core_ai_coordinator.c:1452`), and the planning
  request uses the execution prompt if a tool was registered before (`:1394`). A revision that arrives
  after the last step is lost below the index (`:543`).
- Asyncs: a dispatch between DONE and
  `finish()` can make `finish()` hang, and one from the callback is overwritten: `FinishReturns` fails with
  `Client = "polls"`, and a callback is missed with `Client = "callback"`.
- Assets: uuids and names of freed assets stay in their
  tables (`gs_core_asset.c:688`), textures can be imported but not added because their handle is zero
  (`:487`), and numbers in paths repeat after a free (`:518`).
- Reload: one whose copy fails leaves the
  editor without an application until the linker writes again, and a build that
  ends between copy and time sample of the initialisation is not loaded.
- Memory: the record of a block is dropped before its `realloc`, and stays so when that fails (`gs_core_config.c:302`);
  freeing the block is then reported as a double free.
- Host: the constructor and destructor of a component of an
  unloaded library stay with flecs, because unregistering a component is empty
  (`gs_core_entity.c:225`). After `gs_core_free`, `g_core` still points to what was freed.
- Physics: `body_get_shape_type` uses a body's handle as a shape's (`gs_core_physics.cpp:773`), `set_awake(false)` wakes (`:424`), a ray
  that misses keeps an older hit (`:352`), the shutdown deletes dispatcher and broadphase before the world
  (`:210`), getters of flags report what `add_body` was given, and `remove_body` is empty.
- Network: after a host was destroyed a server cannot be created (`gs_core_network.c:220`), although `:49` says "Ability to start/stop
  server and client hosts": the handle is returned, and nothing happens through it.
- VM: NULL pointers among the arguments are dropped without an error, registering a name again keeps the old
  function, results that fill the buffer exactly are lost (`gs_core_vm.c:706`).
- Serialization: a property the class does not have is looked up outside its table (`gs_core_object.c:230`).
- Replication: components that were removed are not transmitted, and with different ids
  in the two programs data of one class is read into another (`gs_core_entity.c:364`).
- Generator: the editor's script passes the id offset in the place of a directory
  (`editor_cl.bat:64`), so the editor's classes take ids from 1 and overwrite the core's. An override of `ctor` by `_default` or `_decl` below a class that overrides it so ends the tool in the middle of its output
  (`reflection.c:1423`). `_ctor`
  blocks are parsed but never written (`reflection.c:629`), so what the ones in `gs_core_components.h:79` set is lost.
- Tools: files that are too large or cannot be opened are passed over without a word (`gs_core_ai_tools_code.c:167-173`, `gs_core_ai_tools_fs.c:516`). A call at the beginning of a line is taken for a function. The content type is read
  after its owner is cleaned up (`gs_core_ai_tools_http.c:259`), and so is Ollama's finish reason (`gs_core_ai_ollama_provider.c:147`). A response
  that is cut within a chunk, or empty, is not terminated (`gs_core_ai_tools_http.c:97`).

## Fairness

Only the temporal properties use it. Coordinator: a provider answers or times
out (every request has a curl timeout) and a tool returns. AsyncTask: threads
run, the program's functions return and it calls `finish()` every frame. HotReload: the
editor runs frames, and a build that was begun ends. Network: both sides poll
every frame and the network delivers. Nobody is obliged to ask, dispatch, build, join
or leave. The other specifications have no liveness properties: each call of theirs is
one step, or a script that nothing can hold up.

## Proofs

All theorems hold for any values of the constants that satisfy the named
assumption of the module; the assumptions say that bounds are natural numbers,
that sets do not overlap, that the workers are finitely many (they are the scheduler's array of threads),
that the value for "no client" is no client, and that the hash function stays in range.
What is assumed of the constants of an instance is named in `Engine` or `Exchange`, which has it. Those of `Host` need no assumption.

- `CoordinatorProofs`. `TypeCorrect`: the type invariant is inductive; its conjunct on `iteration` is what
  the loops' guards give. `IterationsCounted`: with the invariant `CountInv`, which relates requests to the round of the loop and to
  the planning request. `StepsBelong`, `CurrentStepOrdered`, `IndexIsSuccesses`: with the invariant `PlanInv`,
  whose core is `Fits`: at all times, and not only while a query runs, the prompt fits the
  steps and the index it was built from. It is needed because the tool's answer is turned into a prompt
  one round before the prompt is used. `DoneIsKept`: from what a revision keeps (`RevisionKeeps`). `ToolsListed` is
  inductive as it stands. `Refinement`: every action of the coordinator is a step of `Session` or a
  stutter, from `TypeOK` and `CountInv`.
- `AsyncProofs`. `CountsTellTheTruthHolds` and `OneCallbackHolds`, for a program that finishes an async before it
  dispatches it again (hypothesis `Client = "finishes"`) and a task that is not split when its parts are taken (hypothesis
  `NeverSplit`), because without these they are
  false, as TLC shows. Under `NeverSplit` no taken piece is larger than `range_to_run`, since every part was cut by `range_to_split`. The invariant counts: `run_count` of a task is the number of its pieces that wait in a pipe or
  are executed, less what `scheduler_add` has yet to put on it (`Counts`), which holds at every point of the handshake and not only
  when a call is over. A thread that adds while others take is why: the count may be negative, but it is never
  zero too early. `OneRunner` (a runner waits, or runs at one point on one thread), `RunnerFlags` and `CallFlags` say
  what the flags mean at each point of the runner and of the main thread's call. `Shape` says which stacks there
  are: `LooksIdle` shows from the counts that the join inside the runner never waits, so that tasks run only on idle workers and
  on the join that ends `finish()`. What holds of one async is preserved by every step that has nothing
  to do with it (`SameAsync`), so that each step is about one.
- `AssetProofs`. The inductive invariant says that the two slot arrays are always filled
  alike (`Alike`): that is what makes a table of asset slots find records, and why a
  slot that is free in one array is free in the other (`SameFreeSlot`). `LookupsHold` from `RoundTripHolds` and `UuidFinds`;
  `HandlesStable`, `ShutdownFrees`. `DefaultKeptHolds`: with `KeptInv`, which says that the number in a path
  is below the number of assets as long as none was freed, and that the default asset keeps the first slot.
- `NetworkProofs`. `TableAgreesHolds`, `IdsReachTheirClientHolds` and `CallsNameTheirSenderHolds`: the invariant follows one
  connection. No client has two peers (`PeersTaken`), a client that still asks has been offered nothing
  (`AsksOnce`), the slot it is offered is its peer's (`SlotsOffered`), and a peer is connected only while it is
  in the table and announced (`Reported`). `AsksOnce` is what keeps an answer to an earlier
  connection from being taken for one to a later: a client object connects once. Without crashes no peer
  of the table is free or unreported (`NoGhosts`).
- `PhysicsProofs`. `CopiesAgreeHolds`, `OneShapeChangesHolds` and `MadeForGoodHolds`, for any attributes, which dampings and gravity may be among, and any
  motion states a step leaves: the invariant adds to the agreement of the two copies the types of both,
  that descriptions name shapes there are, and that a kinematic body has its deactivation disabled. Each
  helper has a lemma on the fields it keeps (`Keeps`).
- `MemProofs`. The invariant says that the probe path to every entry has no slot that was never
  used (`PathsHold`), that a block has one entry (`OneEntry`), and that threads own the blocks of the calls they are in
  (`CallsOwn`). From it `RecordsHeldHolds`, `FreesJudgedHolds` and the refinement `ImplementsRecords`, whose hard part is that the
  number of entries is the number of recorded blocks (`RecordedCardinality`). `CountsAgreeHolds` relates the
  statistics to a sum over the slots (`CountInv`). It needs induction over finite sets, which `SmallestSet` gives: if a claim fails of
  some finite set, it fails of one of whose subsets it holds.
- `EngineProofs`, about instances of `Engine`. `ResponseKeptHolds`: the invariant adds to the property that behind a chunk that
  was kept whole there is room for the terminator, and it is there (`Closed`). `ContentIsBytes` turns
  that into what `strlen` and `strcpy` make of the buffer. `ResultsAreTheCallsHolds` and `StackDisciplineHolds`: the
  invariant `VMInv` says that every element lies over a value of its size and no two values in the buffer overlap (`Sound`), and
  that each running call's history is the stack above its least height (`CallKeeps`). Exec pushes its arguments by a
  fold; what it adds (`PushesAdd`) is proved by a least number of arguments for which it would not.
  `ConnectionHolds`: a destroyed host has no type, and as long as no creation failed half way the type tells what the union holds.
  `SceneMatchesWorldHolds`, `ConsoleAgreesHolds` and `NoFaultHolds`, for the program and the editor over any number of reloads: the steps of the
  scripts are ranked (`Rank`), and what is left of a script is a rising sequence of them (`InOrder`), so that the step
  at its head says which others are done. Of each step that is left or done the invariant `HostInv` says what
  it means: which systems run (`UpInv`), which classes are registered and that each lies in the program or in the library
  that is loaded (`RegistryInv`), what flecs and the console know (`EcsInv`, `ConsoleInv`), and that the world's
  components are known to flecs (`WorldInv`). The proof has a lemma for each action, and others for what a step leaves
  alone. That the dtor of a renderable is its own and not its base's is read off the tables of the vtables (`DtorKnown`):
  the recursive function that fills them exists because no class has more than three above it.
- `ExchangeProofs`, about the reload and the instances of `Exchange`. `RunsItsCopyHolds`, for at least one build and one time: with the state between the two
  halves of a reload (`Between`).
  `EntityReplicatesHolds`, without an assumption: the part read last of a packet is the one the fold has as its greatest
  number (`FoldReceives`), so that the receiver's entity can be followed from part to part (`PartTurns`), and after each of them it
  is what it was under the parts read so far. The invariant `RepInv` adds to the property that ids are distinct
  and entities are finite functions. `LoadsWhatWasSavedHolds`, for any two versions of a class: the file is a chain of records, each
  as wide as its type is (`Records`, proved along the writer's fold), and the reader stands at the beginning of a record before
  each turn (`Turn`, along the reader's). What the class reads under a name that is not its own, or skips by a
  size that is not what was written, would put it elsewhere: the condition of the property is what excludes both (`CanRead`).
  `SavingAssumption` says that within a version no two properties have one name, and that values of the types both switches
  know are not empty. `VtablesWholeHolds`, for any files, classes and runs: the functions that list a directory's files, a class's
  line of descent and its vtable exist because a smallest set of directories or classes for which there were none would have a member
  that no other one contains or derives from (`FilesExist`, `ChainExists`). Line and vtable are compared from the root
  down (`AllInherit`). The macro's first line without a backslash is where every declared slot has been met, because only then
  has the count reached theirs (`AllMet`), or is the base's when none is declared (`MacrosFit`). The invariant `GenInv` says
  that what a run has read and has yet to read is all its classes, so that a signature is searched for
  in the whole line. `GeneratorAssumption` says that the sets are finite, that directories do not contain and classes do not derive from
  themselves, and that a class which overrides a slot other than the built-in ones (`CoreSlots`), and from which another derives, has above it,
  among the classes the run reads, one that declares the slot: of these a compiler refuses the initialisation of a slot that no base
  declares. A built-in slot it accepts (`ctor`, `gs_core_object.h:122`), so nothing is assumed of those, and `Unreadable` has the case.

Only model-checked: of `MCEngine` `RunsAgree`, which is about the repository's own build scripts (the offsets they pass and how many
classes their directories have) and not about any others, and `SearchesFindTheFirst` (`SearchTools` has RECURSIVE operators,
with which the prover has no arithmetic); and all liveness properties, which are out of the prover's reach.

## What is not modelled, and why

The path finder is an empty singleton and the file watcher passes a callback on, unused. Crash handlers print and
end the program. Views and drawing keep no state another part reads. The project generator asks questions and copies
templates. Texts are abstracted everywhere, so lexers (of the generator and of the code tools), prompts, layouts of files
and the wording of results are left out; what the parts that are
modelled leave out is in the note of each component in `PROJECT.json`. In short: contents of assets, the layout of remote procedure calls, ray casts and forces inside a simulation step, lambdas and console variables of
the generator, Lua and WASM backends of the VM (the first is called legacy, the second is a stub), the constructors of
providers and results, and the request an HTTP tool sends.

## Plan

The modules above are done. What is left, by importance:

1. A proof about the search tools, with their recursion written as functions.
2. Saving and loading assets by way of `ObjectSerialization`.

## Running

`tlc -config MCCoordinator.cfg MCCoordinator` and likewise for the other configurations; those with the
name of a property in theirs are expected to find it violated. `tlapm CoordinatorProofs.tla` and
likewise for `AsyncProofs`, `AssetProofs`, `MemProofs`, `NetworkProofs`, `PhysicsProofs`, `EngineProofs` and `ExchangeProofs`. The mutants that `PROJECT.json` names are the definitions
marked "Mutant:"; each replaces the definition below it by what a plausible
mistake would make of it, and breaks the property it is listed with.

------------------------------- MODULE Engine -------------------------------
(***************************************************************************)
(* Parts of the engine that share no state: the host and the application   *)
(* on it, the script VM, the buffers for answers of HTTP servers and the   *)
(* network's host.  Here are their constants and variables, and the        *)
(* properties that make them correct under the names they are known by.    *)
(***************************************************************************)
EXTENDS Naturals

CONSTANTS
  Entities, Slots, MaxLibs,                       \* Host
  FnNames, Fns, NoFn, Values, NullPtr, Size,      \* NativeVM
  ArgsMax, RetMax, RetBuffer, MaxStack, MaxPosition, MaxCalls,
  Capacity, MaxSizes, MaxChunk, MaxBody           \* Responses

\* A value takes at least a byte, and a NULL pointer is no value.
ASSUME ScriptAssumption ==
  /\ Size \in [Values -> Nat \ {0}] /\ NullPtr \notin Values
  /\ ArgsMax \in Nat /\ RetMax \in Nat /\ RetBuffer \in Nat \ {0} /\ MaxStack \in Nat

\* The limits for an answer are numbers.
ASSUME WebAssumption ==
  Capacity \in Nat /\ MaxSizes \subseteq Nat /\ MaxBody \in Nat /\ MaxChunk \in Nat

VARIABLES
  todo, editor, up, build, info, components, systems, world, renderables, held,
  app, commands, shown, cvars, faults,
  exported, imported, elements, position, mem, calls,
  reader, maxSize, received, capacity, data, size, truncated, whole, result,
  enetHost, hostType, union, peers, clean, misused

Core       == INSTANCE Host
Script     == INSTANCE NativeVM
Web        == INSTANCE Responses
Connection == INSTANCE NetworkHost
-----------------------------------------------------------------------------
\* Nothing of the engine is used before its start or after its end, and no host
\* of the network after it was destroyed.
NoFault == Core!NoFault /\ Connection!DeadHostUnused

\* The scene's renderables are those of the components that hold their handles.
SceneMatchesWorld == Core!SceneMatchesWorld

\* The console lists the commands and variables that are registered.
ConsoleAgrees == Core!ConsoleAgrees

\* The values on the VM's stack keep the bytes they were pushed with, and a call
\* of a script function returns what is left of its own results.
ResultsAreTheCalls == Script!StackSound /\ Script!ResultsAreTheCalls

\* What lies below the top of the stack changes only by being taken off it.
StackDiscipline == Script!StackDiscipline

\* What a server sent is kept in order, up to max_size and inside the buffer.
ResponseKept == Web!ResponseKept
=============================================================================

------------------------------ MODULE NativeVM ------------------------------
(***************************************************************************)
(* The native script VM (core/gs_core_vm.c): C functions registered under  *)
(* a name, and one state whose stack carries arguments and results.  The   *)
(* stack is a byte buffer that is only written at its end, and an array of *)
(* elements that say where in the buffer each value lies: a pop takes      *)
(* elements away and leaves the bytes.                                     *)
(*                                                                         *)
(* What a script function does between its call and its return is up to    *)
(* it: it pushes, pops, clears and executes other functions.  The buffer's *)
(* growth, the Lua and WASM backends and logging are left out.             *)
(***************************************************************************)
EXTENDS Integers, Sequences, FiniteSets, SequencesExt

CONSTANTS
  FnNames,               \* names functions are registered under
  Fns,                 \* C functions
  NoFn,                \* no function is registered under the name
  Values,              \* values of a type that stack_push knows
  NullPtr,             \* a pointer or string argument that is NULL
  Size,                \* bytes a value takes
  ArgsMax,             \* GS_CORE_VM_EXEC_ARGS_MAX
  RetMax,              \* GS_CORE_VM_EXEC_RET_MAX
  RetBuffer,           \* GS_CORE_VM_EXEC_RET_BUFFER_SIZE
  MaxStack,            \* bound: elements, below GS_CORE_VM_STACK_SIZE
  MaxPosition,         \* bound: bytes in the buffer
  MaxCalls             \* bound: calls within each other

VARIABLES
  exported, imported,  \* NATIVE_gs_core_vm_store_t: name -> function
  elements,            \* N->elements: where each value lies, the top is last
  position,            \* N->stack.commands.position
  mem,                 \* the values that lie whole in the buffer
  calls                \* running functions, the innermost first

vars == <<exported, imported, elements, position, mem, calls>>
-----------------------------------------------------------------------------
\* NATIVE_gs_core_vm_stack_get: the value an element's position points to.
\* Bytes that were written over since are no value.
Read(e) ==
  LET here == {c \in mem : c.at = e.at /\ c.size = e.size}
  IN  IF here = {} THEN NullPtr ELSE (CHOOSE c \in here : TRUE).val

Stack == [i \in DOMAIN elements |-> Read(elements[i])]

\* Writing a value at the end of the buffer destroys what lay there.
Written(m, p, v) ==
  {c \in m : c.at + c.size <= p \/ c.at >= p + Size[v]}
    \cup {[at |-> p, size |-> Size[v], val |-> v]}

\* History kept with each running call: `low` is the least height the stack had
\* since the function began, `mine` the values above it.
Grown(cs, vs) == [i \in DOMAIN cs |-> [cs[i] EXCEPT !.mine = @ \o vs]]
Shrunk(cs, n) ==
  [i \in DOMAIN cs |->
     [cs[i] EXCEPT !.low  = IF n < @ THEN n ELSE @,
                   !.mine = SubSeq(@, 1, n - cs[i].low)]]

\* NATIVE_gs_core_vm_stack_push; a NULL pointer is not pushed, and nobody is told.
\* `values` is history: what has been pushed.
Pushed(s, v) ==
  IF v = NullPtr THEN s
  ELSE [elements |-> Append(s.elements, [at |-> s.position, size |-> Size[v]]),
        position |-> s.position + Size[v],
        mem      |-> Written(s.mem, s.position, v),
        values   |-> Append(s.values, v)]

Now == [elements |-> elements, position |-> position, mem |-> mem, values |-> <<>>]
SetStack(s) ==
  /\ Len(s.elements) <= MaxStack
  /\ s.position <= MaxPosition
  /\ elements' = s.elements
  /\ position' = s.position
  /\ mem' = s.mem

Init ==
  /\ exported = [n \in FnNames |-> NoFn]
  /\ imported = [n \in FnNames |-> NoFn]
  /\ elements = <<>> /\ position = 0 /\ mem = {}
  /\ calls = <<>>
-----------------------------------------------------------------------------
\* Under a name that is taken the function stays the one that came first.
RegisterExport(n, f) ==
  /\ exported' = IF exported[n] = NoFn THEN [exported EXCEPT ![n] = f] ELSE exported
  /\ UNCHANGED <<imported, elements, position, mem, calls>>

RegisterImport(n, f) ==
  /\ imported' = IF imported[n] = NoFn THEN [imported EXCEPT ![n] = f] ELSE imported
  /\ UNCHANGED <<exported, elements, position, mem, calls>>

\* engine->stack_push by the host, or by the function that runs.
Push(v) ==
  LET s == Pushed(Now, v)
  IN  /\ SetStack(s)
      /\ calls' = Grown(calls, s.values)
      /\ UNCHANGED <<exported, imported>>

\* Mutant: a pop gives the bytes back from where the last element left begins.
PopRewinds(n) ==
  LET left == IF Len(elements) < n THEN 0 ELSE Len(elements) - n
  IN  /\ elements' = SubSeq(elements, 1, left)
      /\ position' = IF left = 0 THEN 0 ELSE elements[left].at
      /\ calls' = Shrunk(calls, left)
      /\ UNCHANGED <<exported, imported, mem>>

\* NATIVE_gs_core_vm_stack_pop: at most what there is; the buffer keeps its end.
Pop(n) ==
  LET left == IF Len(elements) < n THEN 0 ELSE Len(elements) - n
  IN  /\ elements # <<>>
      /\ elements' = SubSeq(elements, 1, left)
      /\ calls' = Shrunk(calls, left)
      /\ UNCHANGED <<exported, imported, position, mem>>

\* NATIVE_gs_core_vm_stack_clear: the buffer and the elements together.
Clear ==
  /\ elements' = <<>>
  /\ position' = 0
  /\ calls' = Shrunk(calls, 0)
  /\ UNCHANGED <<exported, imported, mem>>

\* script_exec up to the call: the arguments are pushed in their order.  (With a
\* name nobody exported it returns an empty record whose err is GS_CORE_VM_OK.)
Exec(f, args) ==
  LET s == FoldLeft(Pushed, Now, args)
  IN  /\ f # NoFn
      /\ Len(calls) < MaxCalls
      /\ SetStack(s)
      /\ calls' = <<[before |-> Len(elements), top |-> Len(s.elements),
                      low |-> Len(s.elements), mine |-> <<>>]>>
                    \o Grown(calls, s.values)
      /\ UNCHANGED <<exported, imported>>

\* How many of the values vs fit: one that would fill the buffer to its last
\* byte ends the collection.
Bytes(vs) == FoldLeft(LAMBDA sum, v : sum + Size[v], 0, vs)

Fitting(vs) ==
  LET fits(k) == k <= RetMax /\ \A j \in 1 .. k : Bytes(SubSeq(vs, 1, j)) < RetBuffer
  IN  SubSeq(vs, 1, CHOOSE k \in 0 .. Len(vs) : fits(k) /\ (k < Len(vs) => ~fits(k + 1)))

\* Mutant: the height is taken before the arguments are pushed.
CollectedWithArguments(c) == Fitting(SubSeq(Stack, c.before + 1, Len(Stack)))

\* The results script_exec collects when the function of call c returns: what
\* lies above the arguments.
Collected(c) == Fitting(SubSeq(Stack, c.top + 1, Len(Stack)))

\* script_exec after the call: the results are copied (Collected), and the whole
\* stack is cleared, whoever had pushed what was on it.
Return ==
  /\ calls # <<>>
  /\ elements' = <<>>
  /\ position' = 0
  /\ calls' = Shrunk(Tail(calls), 0)
  /\ UNCHANGED <<exported, imported, mem>>

Next ==
  \/ \E n \in FnNames, f \in Fns : RegisterExport(n, f) \/ RegisterImport(n, f)
  \/ \E v \in Values \cup {NullPtr} : Push(v)
  \/ \E n \in 1 .. MaxStack : Pop(n)
  \/ Clear
  \/ \E f \in Fns \cup {exported[n] : n \in FnNames},
        args \in BoundedSeq(Values \cup {NullPtr}, ArgsMax) : Exec(f, args)
  \/ Return

Spec == Init /\ [][Next]_vars
-----------------------------------------------------------------------------
TypeOK ==
  /\ {exported, imported} \subseteq [FnNames -> Fns \cup {NoFn}]
  /\ elements \in Seq([at : Nat, size : Nat])
  /\ position \in Nat
  /\ mem \subseteq [at : Nat, size : Nat, val : Values]

\* The bytes of two elements never overlap, none reaches past the end of the
\* buffer, and each holds the value that was pushed: although pop leaves bytes
\* behind and clear starts over at the front, no push writes into a value that
\* is still on the stack.
StackSound ==
  /\ TypeOK
  /\ \A i \in DOMAIN elements :
       /\ elements[i].at + elements[i].size <= position
       /\ \A j \in 1 .. i - 1 : elements[j].at + elements[j].size <= elements[i].at
       /\ Stack[i] \in Values

\* A call returns what its function and the functions under it left above its
\* arguments, in their order, as far as the return buffer goes; of these it
\* loses as many from the front as the stack once fell below its arguments.  So
\* a function that pops its arguments, or executes another one (which clears
\* the stack), loses that many of its results.  And what it returns always fits
\* the slots and the bytes of gs_core_vm_exec_ret_t.
ResultsAreTheCalls ==
  calls # <<>> =>
    LET c == Head(calls)
    IN  /\ Collected(c) = Fitting(SubSeq(c.mine, c.top - c.low + 1, Len(c.mine)))
        /\ Len(Collected(c)) <= RetMax /\ Bytes(Collected(c)) < RetBuffer

\* The stack is one: a step of anybody adds values at the top or takes them from
\* the top, and leaves the ones under it as they were.
StackDiscipline ==
  [][\/ IsPrefix(Stack, Stack')
     \/ IsPrefix(Stack', Stack)]_vars
=============================================================================

------------------------------ MODULE AsyncTask ------------------------------
(***************************************************************************)
(* Asynchronous tasks (gs_core_sched_async_* in core/gs_core.c) on the     *)
(* task scheduler (sched.h).  A dispatched async is a task of one piece,   *)
(* the runner, that a worker executes: it adds the program's own task and  *)
(* spins until that one is done.  The main thread polls finish().          *)
(*                                                                         *)
(* A thread is a stack of frames, the innermost first: a join executes     *)
(* whatever task it finds while it waits, on top of the frame it is in.    *)
(* Pieces that are written together appear in the pipe together; pipes are *)
(* unordered, and workers poll them (the semaphore they sleep on is left   *)
(* out).  Bound: no pipe is ever full.  A pipe has room for 512 pieces     *)
(* (SCHED_PIPE_SIZE), which it takes hundreds of asyncs outstanding at     *)
(* once to fill; a thread then executes what it cannot write in place.     *)
(***************************************************************************)
EXTENDS Integers, Sequences, FiniteSets

CONSTANTS
  Asyncs,              \* the program's async objects
  Workers,             \* threads of the scheduler, without the main thread
  Main,                \* the main thread, which owns a pipe and joins too
  Size,                \* async->tcnt, the size of a program's task
  MinRange,            \* async->part; 0 counts as 1, in Size too
  Client,              \* when the program dispatches, see MayDispatch
  MaxDispatch          \* bound: dispatches of one async

ASSUME AsyncAssumption ==
  /\ IsFiniteSet(Workers)
  /\ Main \notin Workers
  /\ Size \in Nat \ {0}
  /\ MinRange \in Nat \ {0}
  /\ MaxDispatch \in Nat
  /\ Client \in {"finishes", "polls", "callback"}

VARIABLES
  flags,               \* async->flags: "none", "running" or "done"
  run_count,           \* run_count of async->atask and async->rtask
  pipe,                \* pieces each thread has added and nobody has taken
  stack,               \* what each thread is executing
  dispatched,          \* dispatches of each async; tells its pieces apart
  \* History variable, read by properties only.
  called               \* calls of its callback

vars == <<flags, run_count, pipe, stack, dispatched, called>>
-----------------------------------------------------------------------------
Threads == Workers \cup {Main}
Kinds   == {"atask", "rtask"}
Labels  == {"add", "count", "add_rtask", "count_rtask", "poll", "set_done",
            "join_rtask", "end_runner", "work", "count_parts", "callback", "join_atask"}

TaskSize == [atask |-> 1, rtask |-> Size]
TaskMin  == [atask |-> 1, rtask |-> MinRange]

\* The part of a task from start to end.
Piece(kind, a, d, start, end) ==
  [kind |-> kind, async |-> a, dispatch |-> d, start |-> start, end |-> end]
AllPieces == [kind : Kinds, async : Asyncs, dispatch : 1 .. MaxDispatch,
              start : 0 .. Size - 1, end : 1 .. Size]

\* parts: the number of parts that a thread has written and will count.
Frame(l, a)   == [at |-> l, async |-> a, parts |-> 0]
CountFrame(a, n) == [at |-> "count_parts", async |-> a, parts |-> n]
Frames == [at : Labels, async : Asyncs, parts : 0 .. Size]
At(t, l, a) == stack[t] # <<>> /\ Head(stack[t]) = Frame(l, a)

Push(t, l, a) == stack' = [stack EXCEPT ![t] = <<Frame(l, a)>> \o @]
Goto(t, l, a) == stack' = [stack EXCEPT ![t] = <<Frame(l, a)>> \o Tail(@)]
Return(t)     == stack' = [stack EXCEPT ![t] = Tail(@)]

Init ==
  /\ flags = [a \in Asyncs |-> "none"]
  /\ run_count = [k \in Asyncs \X Kinds |-> 0]
  /\ pipe = [t \in Threads |-> {}]
  /\ stack = [t \in Threads |-> <<>>]
  /\ dispatched = [a \in Asyncs |-> 0]
  /\ called = [a \in Asyncs |-> 0]
-----------------------------------------------------------------------------
(* The scheduler. *)

SmallerOf(m, n) == IF m < n THEN m ELSE n
LargerOf(m, n)  == IF m > n THEN m ELSE n

\* scheduler_init: pieces that fill all threads, and those a task starts with,
\* at most SCHED_MAX_NUM_INITIAL_PARTITIONS.
Partitions     == IF Workers = {} THEN 1 ELSE (Cardinality(Workers) + 1) * Cardinality(Workers)
InitPartitions == IF Workers = {} THEN 1 ELSE SmallerOf(Cardinality(Workers), 64)

\* The size of a piece that is executed at once, and of one that is added.
RangeToRun(kind)   == LargerOf(TaskSize[kind] \div Partitions, TaskMin[kind])
RangeToSplit(kind) == LargerOf(TaskSize[kind] \div InitPartitions, TaskMin[kind])

\* sched_split_task, until nothing is left: where the pieces begin, and the pieces.
Starts(start, end, range) == {i \in start .. end - 1 : (i - start) % range = 0}
Divide(p, range) ==
  {Piece(p.kind, p.async, p.dispatch, i, SmallerOf(i + range, p.end)) :
     i \in Starts(p.start, p.end, range)}

\* The pieces of the latest dispatch of a task.
Added(kind, a) ==
  Divide(Piece(kind, a, dispatched[a], 0, TaskSize[kind]), RangeToSplit(kind))

\* scheduler_add up to the atomic add: the count starts at -1 and the pieces
\* go into the pipe of the calling thread, where others can take them.
Add(t, kind, a) ==
  /\ run_count' = [run_count EXCEPT ![<<a, kind>>] = -1]
  /\ pipe' = [pipe EXCEPT ![t] = @ \cup Added(kind, a)]

NumAdded(kind) == Cardinality(Starts(0, TaskSize[kind], RangeToSplit(kind)))

\* Mutant: the offset is forgotten.
CountNoOffset(kind, a) == run_count' = [run_count EXCEPT ![<<a, kind>>] = @ + NumAdded(kind)]

\* The atomic add that ends scheduler_add: the pieces written and the offset.
Count(kind, a) == run_count' = [run_count EXCEPT ![<<a, kind>>] = @ + NumAdded(kind) + 1]

\* A thread that has executed a piece takes it off the count.
Finished(kind, a) == run_count' = [run_count EXCEPT ![<<a, kind>>] = @ - 1]

\* A worker without a task looks for one, and so does a join that must wait.
Looks(t) ==
  \/ t # Main /\ stack[t] = <<>>
  \/ \E a \in Asyncs : \/ At(t, "join_rtask", a) /\ run_count[<<a, "rtask">>] # 0
                       \/ At(t, "join_atask", a) /\ run_count[<<a, "atask">>] # 0

\* What a thread executes for a piece.
Body(kind) == IF kind = "atask" THEN "add_rtask" ELSE "work"

\* A piece that is small enough is executed.
Run(t, s, p) ==
  /\ p.end - p.start <= RangeToRun(p.kind)
  /\ pipe' = [pipe EXCEPT ![s] = @ \ {p}]
  /\ Push(t, Body(p.kind), p.async)

\* Of a larger one the thread keeps the first part.  The others go into its own
\* pipe, where they can be taken before it has counted them.
Split(t, s, p) ==
  LET rest == [p EXCEPT !.start = @ + RangeToRun(p.kind)]
      n    == Cardinality(Starts(rest.start, rest.end, RangeToRun(p.kind)))
  IN  /\ p.end - p.start > RangeToRun(p.kind)
      /\ pipe' = [pipe EXCEPT ![s] = @ \ {p}, ![t] = @ \cup Divide(rest, RangeToRun(p.kind))]
      /\ stack' = [stack EXCEPT ![t] = <<CountFrame(p.async, n), Frame(Body(p.kind), p.async)>> \o @]

\* sched_try_running_task: the thread's own pipe first, then the others'.
Take(t) ==
  /\ Looks(t)
  /\ \E s \in Threads : \E p \in pipe[s] :
       /\ s # t => pipe[t] = {}
       /\ Run(t, s, p) \/ Split(t, s, p)
  /\ UNCHANGED <<flags, run_count, dispatched, called>>

\* Mutant: the parts are not counted.
CountPartsNot(t, a) ==
  /\ stack[t] # <<>> /\ Head(stack[t]).at = "count_parts" /\ Head(stack[t]).async = a
  /\ Return(t)
  /\ UNCHANGED <<flags, run_count, pipe, dispatched, called>>

\* The atomic add that ends a split, of which only the program's task is large enough.
CountParts(t, a) ==
  /\ stack[t] # <<>> /\ Head(stack[t]).at = "count_parts" /\ Head(stack[t]).async = a
  /\ run_count' = [run_count EXCEPT ![<<a, "rtask">>] = @ + Head(stack[t]).parts]
  /\ Return(t)
  /\ UNCHANGED <<flags, pipe, dispatched, called>>

\* The program's own function returns.
Work(t, a) ==
  /\ At(t, "work", a)
  /\ Finished("rtask", a)
  /\ Return(t)
  /\ UNCHANGED <<flags, pipe, dispatched, called>>
-----------------------------------------------------------------------------
(* The runner, __gs_core_sched_async_thread_runner. *)

AddWork(t, a) ==
  /\ At(t, "add_rtask", a)
  /\ Add(t, "rtask", a)
  /\ Goto(t, "count_rtask", a)
  /\ UNCHANGED <<flags, dispatched, called>>

CountWork(t, a) ==
  /\ At(t, "count_rtask", a)
  /\ Count("rtask", a)
  /\ Goto(t, "poll", a)
  /\ UNCHANGED <<flags, pipe, dispatched, called>>

\* One round of the loop that leaves it; the others only spin.
Poll(t, a) ==
  /\ At(t, "poll", a)
  /\ \/ /\ flags[a] = "done"
        /\ Goto(t, "end_runner", a)
     \/ /\ flags[a] # "done"
        /\ run_count[<<a, "rtask">>] = 0
        /\ Goto(t, "set_done", a)
  /\ UNCHANGED <<flags, run_count, pipe, dispatched, called>>

\* Mutant: the flags are left alone.
SetDoneNot(t, a) ==
  /\ At(t, "set_done", a)
  /\ Goto(t, "join_rtask", a)
  /\ UNCHANGED <<flags, run_count, pipe, dispatched, called>>

SetDone(t, a) ==
  /\ At(t, "set_done", a)
  /\ flags' = [flags EXCEPT ![a] = "done"]
  /\ Goto(t, "join_rtask", a)
  /\ UNCHANGED <<run_count, pipe, dispatched, called>>

JoinWork(t, a) ==
  /\ At(t, "join_rtask", a)
  /\ run_count[<<a, "rtask">>] = 0
  /\ Goto(t, "end_runner", a)
  /\ UNCHANGED <<flags, run_count, pipe, dispatched, called>>

EndRunner(t, a) ==
  /\ At(t, "end_runner", a)
  /\ Finished("atask", a)
  /\ Return(t)
  /\ UNCHANGED <<flags, pipe, dispatched, called>>
-----------------------------------------------------------------------------
(* The program's calls, from the main thread. *)

\* When the program calls dispatch: after finish() has returned true, as soon
\* as running() is false, or from the callback too.
MayDispatch(a) ==
  \/ Client = "finishes" /\ stack[Main] = <<>> /\ flags[a] = "none"
  \/ Client = "polls" /\ stack[Main] = <<>>
  \/ Client = "callback" /\ \/ stack[Main] = <<>> /\ flags[a] = "none"
                            \/ At(Main, "callback", a)

\* gs_core_sched_async_dispatch, for an async that is not running.
Dispatch(a) ==
  /\ dispatched[a] < MaxDispatch
  /\ MayDispatch(a)
  /\ flags[a] # "running"
  /\ flags' = [flags EXCEPT ![a] = "running"]
  /\ dispatched' = [dispatched EXCEPT ![a] = @ + 1]
  /\ Push(Main, "add", a)
  /\ UNCHANGED <<run_count, pipe, called>>

AddRunner(a) ==
  /\ At(Main, "add", a)
  /\ Add(Main, "atask", a)
  /\ Goto(Main, "count", a)
  /\ UNCHANGED <<flags, dispatched, called>>

CountRunner(a) ==
  /\ At(Main, "count", a)
  /\ Count("atask", a)
  /\ Return(Main)
  /\ UNCHANGED <<flags, pipe, dispatched, called>>

\* gs_core_sched_async_finish when it does not return false: the callback...
Finish(a) ==
  /\ stack[Main] = <<>>
  /\ flags[a] = "done"
  /\ called' = [called EXCEPT ![a] = @ + 1]
  /\ Push(Main, "callback", a)
  /\ UNCHANGED <<flags, run_count, pipe, dispatched>>

\* Mutant: the flags are not cleared.
KeepFlags(a) ==
  /\ At(Main, "callback", a)
  /\ Goto(Main, "join_atask", a)
  /\ UNCHANGED <<flags, run_count, pipe, dispatched, called>>

\* ... then the flags are cleared ...
ClearFlags(a) ==
  /\ At(Main, "callback", a)
  /\ flags' = [flags EXCEPT ![a] = "none"]
  /\ Goto(Main, "join_atask", a)
  /\ UNCHANGED <<run_count, pipe, dispatched, called>>

\* ... and the runner is joined.
JoinRunner(a) ==
  /\ At(Main, "join_atask", a)
  /\ run_count[<<a, "atask">>] = 0
  /\ Return(Main)
  /\ UNCHANGED <<flags, run_count, pipe, dispatched, called>>
-----------------------------------------------------------------------------
Execute(t) ==
  \/ Take(t)
  \/ \E a \in Asyncs : \/ CountParts(t, a)
                       \/ Work(t, a)
                       \/ AddWork(t, a)
                       \/ CountWork(t, a)
                       \/ Poll(t, a)
                       \/ SetDone(t, a)
                       \/ JoinWork(t, a)
                       \/ EndRunner(t, a)

InCall(a) == AddRunner(a) \/ CountRunner(a) \/ ClearFlags(a) \/ JoinRunner(a)

Next ==
  \/ \E t \in Threads : Execute(t)
  \/ \E a \in Asyncs : Dispatch(a) \/ Finish(a) \/ InCall(a)

Spec == Init /\ [][Next]_vars

\* Threads run, a program's function and callback return, and the program
\* calls finish() every frame; nobody has to dispatch.
Fairness ==
  /\ \A t \in Threads : WF_vars(Execute(t))
  /\ \A a \in Asyncs : WF_vars(InCall(a)) /\ WF_vars(Finish(a))

FairSpec == Spec /\ Fairness
-----------------------------------------------------------------------------
\* The program's task is divided when it is added and not again: it is small,
\* or MinRange is at least its size over the number of workers.
NeverSplit == RangeToSplit("rtask") <= RangeToRun("rtask")

\* Types.  If the program finishes its asyncs, no task is executed on top of
\* another: only the main thread, in a join, executes tasks inside a call.
TypeOK ==
  /\ flags \in [Asyncs -> {"none", "running", "done"}]
  /\ run_count \in [Asyncs \X Kinds -> Int]
  /\ pipe \in [Threads -> SUBSET AllPieces]
  /\ stack \in [Threads -> Seq(Frames)]
  /\ Client = "finishes" =>
       \A t \in Threads :
         LET counting == stack[t] # <<>> /\ Head(stack[t]).at = "count_parts"
         IN  Len(stack[t]) <= (IF t = Main THEN 2 ELSE 1) + (IF counting THEN 1 ELSE 0)
  /\ dispatched \in [Asyncs -> 0 .. MaxDispatch]
  /\ called \in [Asyncs -> Nat]

\* Is a thread in a frame with one of these labels for this async?
InFrame(a, labels) ==
  \E t \in Threads : \E i \in 1 .. Len(stack[t]) :
    stack[t][i].async = a /\ stack[t][i].at \in labels

RunnerLabels == {"add_rtask", "count_rtask", "poll", "set_done", "join_rtask",
                 "end_runner"}

Outstanding(kind, a) ==
  \/ \E t \in Threads : \E p \in pipe[t] : p.kind = kind /\ p.async = a
  \/ InFrame(a, IF kind = "atask" THEN RunnerLabels ELSE {"work"})

\* A count of zero means what sched_task_done takes it for once the task is
\* added: none of its pieces is waiting or being executed, however adding and
\* taking interleave.  This and what rests on it take tasks that are not split,
\* or only one thread that executes pieces, see CallbackAfterTask.
ZeroMeansFinished ==
  \A a \in Asyncs, kind \in Kinds :
    /\ run_count[<<a, kind>>] = 0
    /\ ~InFrame(a, IF kind = "atask" THEN {"count"} ELSE {"count_rtask"})
    => ~Outstanding(kind, a)

\* An async that says it is done has nothing of the program's task running,
\* so its callback may use what the task produced.
DoneMeansRun == \A a \in Asyncs : flags[a] = "done" => ~Outstanding("rtask", a)

\* What a count of zero and a flag say of a task is true.
CountsTellTheTruth == TypeOK /\ ZeroMeansFinished /\ DoneMeansRun

\* The callback is called once for each dispatch: an async that is running or
\* done is the one dispatch that has not been called back, unless the
\* callback is the frame the main thread is in.
OneCallback ==
  \A a \in Asyncs :
    called[a] + (IF flags[a] = "none" \/ InFrame(a, {"callback"}) THEN 0 ELSE 1)
      = dispatched[a]

\* An async that was dispatched is run and finished with some day.  It takes
\* more workers than asyncs: each runner keeps a worker while it spins.
AsyncEnds == \A a \in Asyncs : flags[a] = "running" ~> flags[a] = "none"

\* finish() returns: the join in it never waits for a runner that is over.
\* The program must not dispatch again before it has called finish().
FinishReturns ==
  \A a \in Asyncs : At(Main, "join_atask", a) ~> ~At(Main, "join_atask", a)
-----------------------------------------------------------------------------
\* "Callback when completed": every dispatch is called back some day.  A
\* callback that dispatches its async again may lose the second call.
CallbackWhenCompleted ==
  \A a \in Asyncs : \A n \in 1 .. MaxDispatch :
    dispatched[a] >= n ~> called[a] >= n

\* The callback runs when the task is completed (core/gs_core.h:107), and not
\* while a thread still has a piece of it to run.  Once a task is split it may:
\* its parts can be executed before they are counted, and the count is zero
\* while the thread that split a piece has its own part to run.
CallbackAfterTask ==
  \A a \in Asyncs : At(Main, "callback", a) => ~Outstanding("rtask", a)
=============================================================================

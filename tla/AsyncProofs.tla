----------------------------- MODULE AsyncProofs -----------------------------
(***************************************************************************)
(* For a program that finishes its asyncs before it dispatches them again, *)
(* and whose tasks are divided once and not split again (NeverSplit),      *)
(* counts and flags tell the truth and every dispatch is called back once, *)
(* for any asyncs, workers and task sizes.  The argument counts: the count *)
(* of a task is the number of its pieces that wait in a pipe or are being  *)
(* executed, less what scheduler_add has yet to put on it.                 *)
(***************************************************************************)
EXTENDS AsyncTask, FiniteSetTheorems, SequenceTheorems, TLAPS

TaskLabels == RunnerLabels \cup {"work"}
CallLabels == {"add", "count", "callback", "join_atask"}

\* A worker executes one task at most; the main thread is in one call at most,
\* and executes a task only on top of the join that ends finish().
Shape ==
  /\ \A t \in Workers :
       \/ stack[t] = <<>>
       \/ \E l \in TaskLabels, a \in Asyncs : stack[t] = <<Frame(l, a)>>
  /\ \/ stack[Main] = <<>>
     \/ \E l \in CallLabels, a \in Asyncs : stack[Main] = <<Frame(l, a)>>
     \/ \E l \in TaskLabels, b, a \in Asyncs :
          stack[Main] = <<Frame(l, b), Frame("join_atask", a)>>

\* Is a main thread with stack s in this part of a call for async a?
CallIn(s, l, a) ==
  \/ s = <<Frame(l, a)>>
  \/ \E f \in [at : TaskLabels, async : Asyncs, parts : {0}] : s = <<f, Frame(l, a)>>

Calls(l, a) == CallIn(stack[Main], l, a)

\* A task that is not split is divided once, when it is added: its pieces are told
\* apart by where they begin, and those in the pipes are of the latest dispatch.
Places == 0 .. Size - 1
Begins(k) == Starts(0, TaskSize[k], RangeToSplit(k))
Parts == NumAdded("rtask")

PieceAt(k, a, n) == Piece(k, a, dispatched[a], n, SmallerOf(n + RangeToSplit(k), TaskSize[k]))
Has(t, k, a, n) == PieceAt(k, a, n) \in pipe[t]
Recent == {p \in AllPieces : \E n \in Places : p = PieceAt(p.kind, p.async, n)}

\* The pieces of the program's task of a that wait, and the threads that execute one.
Waiting(a) == {x \in Threads \X Places : Has(x[1], "rtask", a, x[2])}
Working(a) == {t \in Threads : At(t, "work", a)}
Unfinished(a) == Cardinality(Waiting(a)) + Cardinality(Working(a))

RunnerWaits(a) == \E t \in Threads, n \in Places : Has(t, "atask", a, n)
RunnerRuns(a)  == \E t \in Threads, l \in RunnerLabels : At(t, l, a)
Counting(a)    == \E t \in Threads : At(t, "count_rtask", a)

Typed ==
  /\ flags \in [Asyncs -> {"none", "running", "done"}]
  /\ run_count \in [Asyncs \X Kinds -> Int]
  /\ pipe \in [Threads -> SUBSET Recent]
  /\ stack \in [Threads -> Seq(Frames)]
  /\ dispatched \in [Asyncs -> 0 .. MaxDispatch]
  /\ called \in [Asyncs -> Nat]

\* There is one runner of an async at most, waiting or running.
OneRunner(a) ==
  /\ \A t, u \in Threads, n, m \in Places :
       Has(t, "atask", a, n) /\ Has(u, "atask", a, m) => t = u /\ n = m
  /\ \A t, u \in Threads, l, m \in RunnerLabels :
       At(t, l, a) /\ At(u, m, a) => t = u /\ l = m
  /\ ~(RunnerWaits(a) /\ RunnerRuns(a))

\* The counts of the runner and of the program's task.
Counts(a) ==
  /\ run_count[<<a, "atask">>] = (IF RunnerWaits(a) \/ RunnerRuns(a) THEN 1 ELSE 0)
                               - (IF Calls("count", a) THEN 2 ELSE 0)
  /\ run_count[<<a, "rtask">>] = Unfinished(a) - (IF Counting(a) THEN Parts + 1 ELSE 0)
  /\ Unfinished(a) <= Parts

\* The flags follow the runner ...
RunnerFlags(a) ==
  /\ RunnerWaits(a) => flags[a] = "running"
  /\ \A t \in Threads, l \in RunnerLabels : At(t, l, a) =>
       (flags[a] = "running" <=> l \notin {"join_rtask", "end_runner"})
  /\ Unfinished(a) # 0 => \E t \in Threads : At(t, "count_rtask", a) \/ At(t, "poll", a)

\* ... and the calls the flags.
CallFlags(a) ==
  /\ Calls("add", a) => flags[a] = "running" /\ ~RunnerWaits(a) /\ ~RunnerRuns(a)
  /\ Calls("count", a) => flags[a] # "none"
  /\ Calls("callback", a) => flags[a] = "done"
  /\ Calls("join_atask", a) => flags[a] = "none"
  /\ flags[a] = "none" /\ (RunnerWaits(a) \/ RunnerRuns(a)) => Calls("join_atask", a)

Called(a) ==
  called[a] + (IF flags[a] = "none" \/ Calls("callback", a) THEN 0 ELSE 1) = dispatched[a]

\* What holds of one async, whatever the others do.
Sound(a) == OneRunner(a) /\ Counts(a) /\ RunnerFlags(a) /\ CallFlags(a) /\ Called(a)

Inv == Typed /\ Shape /\ \A a \in Asyncs : Sound(a)

\* A step that has nothing to do with async a.
Same(a) ==
  /\ flags'[a] = flags[a]
  /\ \A k \in Kinds : run_count'[<<a, k>>] = run_count[<<a, k>>]
  /\ \A t \in Threads, k \in Kinds, n \in Places :
       Has(t, k, a, n)' <=> Has(t, k, a, n)
  /\ \A t \in Threads, l \in TaskLabels : At(t, l, a)' <=> At(t, l, a)
  /\ \A l \in CallLabels : Calls(l, a)' <=> Calls(l, a)
  /\ dispatched'[a] = dispatched[a]
  /\ called'[a] = called[a]
-----------------------------------------------------------------------------
(* Stacks of at most two frames. *)

LEMMA Stacks ==
  ASSUME NEW f, NEW g
  PROVE  /\ Head(<<f>>) = f /\ Tail(<<f>>) = <<>>
         /\ Head(<<f, g>>) = f /\ Tail(<<f, g>>) = <<g>>
         /\ <<f>> \o <<>> = <<f>> /\ <<f>> \o <<g>> = <<f, g>>
         /\ <<f>> # <<>> /\ <<f, g>> # <<>>
         /\ <<f>>[1] = f /\ <<f, g>>[1] = f /\ <<f, g>>[2] = g
         /\ Len(<<>>) = 0 /\ Len(<<f>>) = 1 /\ Len(<<f, g>>) = 2
  <1>1. Head(<<f>>) = f /\ Head(<<f, g>>) = f
    OBVIOUS
  <1>2. Tail(<<f>>) = <<>>
    OBVIOUS
  <1>3. Tail(<<f, g>>) = <<g>>
    OBVIOUS
  <1>4. <<f>> \o <<>> = <<f>>
    OBVIOUS
  <1>5. <<f>> \o <<g>> = <<f, g>>
    <2>1. Append(<<f>>, g) = <<f>> \o <<g>>
      BY AppendIsConcat, <<f>> \in Seq({f, g}), g \in {f, g}
    <2>2. Append(<<f>>, g) = <<f, g>>
      <3>1. Append(<<f>>, g) \in Seq({f, g}) /\ <<f, g>> \in Seq({f, g})
        OBVIOUS
      <3>2. Len(Append(<<f>>, g)) = 2 /\ Len(<<f, g>>) = 2
        OBVIOUS
      <3>3. Append(<<f>>, g)[1] = f /\ Append(<<f>>, g)[2] = g
        OBVIOUS
      <3>4. \A i \in 1 .. 2 : Append(<<f>>, g)[i] = <<f, g>>[i]
        BY <3>3
      <3>. QED  BY <3>1, <3>2, <3>4, SeqEqual
    <2>. QED  BY <2>1, <2>2
  <1>6. <<f>> # <<>> /\ <<f, g>> # <<>>
    OBVIOUS
  <1>7. <<f>>[1] = f /\ <<f, g>>[1] = f /\ <<f, g>>[2] = g
    OBVIOUS
  <1>8. Len(<<>>) = 0 /\ Len(<<f>>) = 1 /\ Len(<<f, g>>) = 2
    OBVIOUS
  <1>. QED  BY <1>1, <1>2, <1>3, <1>4, <1>5, <1>6, <1>7, <1>8

LEMMA FrameEqual ==
  ASSUME NEW l, NEW a, NEW m, NEW b
  PROVE  Frame(l, a) = Frame(m, b) <=> l = m /\ a = b
  BY DEF Frame

LEMMA LabelSets ==
  /\ TaskLabels \subseteq Labels /\ CallLabels \subseteq Labels
  /\ TaskLabels \cap CallLabels = {}
  /\ RunnerLabels \subseteq TaskLabels /\ "work" \in TaskLabels /\ "work" \notin RunnerLabels
  BY DEF TaskLabels, CallLabels, RunnerLabels, Labels

LEMMA MainIsThread == Main \in Threads /\ Workers \subseteq Threads
                      /\ \A t \in Threads : t # Main => t \in Workers
  BY DEF Threads

\* The frames a thread of this shape may be in.
LEMMA StackOf ==
  ASSUME Shape, NEW t \in Threads
  PROVE  \/ stack[t] = <<>>
         \/ \E l \in TaskLabels, a \in Asyncs : t # Main /\ stack[t] = <<Frame(l, a)>>
         \/ \E l \in CallLabels, a \in Asyncs : t = Main /\ stack[t] = <<Frame(l, a)>>
         \/ \E l \in TaskLabels, b, a \in Asyncs :
              t = Main /\ stack[t] = <<Frame(l, b), Frame("join_atask", a)>>
  BY AsyncAssumption DEF Shape, Threads

\* A thread in a task.
LEMMA InTask ==
  ASSUME Shape, NEW t \in Threads, NEW l \in TaskLabels, NEW a \in Asyncs, At(t, l, a)
  PROVE  \/ t # Main /\ stack[t] = <<Frame(l, a)>>
         \/ \E b \in Asyncs : t = Main /\ stack[t] = <<Frame(l, a), Frame("join_atask", b)>>
  <1>1. stack[t] # <<>> /\ Head(stack[t]) = Frame(l, a)
    BY DEF At
  <1>2. CASE \E m \in TaskLabels, b \in Asyncs : t # Main /\ stack[t] = <<Frame(m, b)>>
    BY <1>1, <1>2, Stacks
  <1>3. CASE \E m \in CallLabels, b \in Asyncs : t = Main /\ stack[t] = <<Frame(m, b)>>
    <2>1. PICK m \in CallLabels, b \in Asyncs : stack[t] = <<Frame(m, b)>>
      BY <1>3
    <2>2. Frame(m, b) = Frame(l, a)
      BY <1>1, <2>1, Stacks
    <2>. QED  BY <2>2, FrameEqual, LabelSets
  <1>4. CASE \E m \in TaskLabels, c, b \in Asyncs :
               t = Main /\ stack[t] = <<Frame(m, c), Frame("join_atask", b)>>
    <2>1. PICK m \in TaskLabels, c \in Asyncs, b \in Asyncs :
            t = Main /\ stack[t] = <<Frame(m, c), Frame("join_atask", b)>>
      BY <1>4
    <2>2. Frame(m, c) = Frame(l, a)
      BY <1>1, <2>1, Stacks
    <2>. QED  BY <2>1, <2>2
  <1>. QED  BY <1>1, <1>2, <1>3, <1>4, StackOf

\* The main thread at the head of a call.
LEMMA InCallOnly ==
  ASSUME Shape, NEW t \in Threads, NEW l \in CallLabels, NEW a \in Asyncs, At(t, l, a)
  PROVE  t = Main /\ stack[Main] = <<Frame(l, a)>>
  <1>1. stack[t] # <<>> /\ Head(stack[t]) = Frame(l, a)
    BY DEF At
  <1>2. CASE \E m \in TaskLabels, b \in Asyncs : t # Main /\ stack[t] = <<Frame(m, b)>>
    <2>1. PICK m \in TaskLabels, b \in Asyncs : stack[t] = <<Frame(m, b)>>
      BY <1>2
    <2>2. Frame(m, b) = Frame(l, a)
      BY <1>1, <2>1, Stacks
    <2>. QED  BY <2>2, FrameEqual, LabelSets
  <1>3. CASE \E m \in CallLabels, b \in Asyncs : t = Main /\ stack[t] = <<Frame(m, b)>>
    BY <1>1, <1>3, Stacks
  <1>4. CASE \E m \in TaskLabels, c, b \in Asyncs :
               t = Main /\ stack[t] = <<Frame(m, c), Frame("join_atask", b)>>
    <2>1. PICK m \in TaskLabels, c \in Asyncs, b \in Asyncs :
            stack[t] = <<Frame(m, c), Frame("join_atask", b)>>
      BY <1>4
    <2>2. Frame(m, c) = Frame(l, a)
      BY <1>1, <2>1, Stacks
    <2>. QED  BY <2>2, FrameEqual, LabelSets
  <1>. QED  BY <1>1, <1>2, <1>3, <1>4, StackOf

LEMMA CallsIn ==
  ASSUME NEW l \in CallLabels, NEW a \in Asyncs
  PROVE  /\ ~CallIn(<<>>, l, a)
         /\ \A m, b : CallIn(<<Frame(m, b)>>, l, a) <=> l = m /\ a = b
         /\ \A k \in TaskLabels, c \in Asyncs : \A m, b :
              CallIn(<<Frame(k, c), Frame(m, b)>>, l, a) <=> l = m /\ a = b
  <1>1. ~CallIn(<<>>, l, a)
    BY DEF CallIn
  <1>2. ASSUME NEW m, NEW b
        PROVE  CallIn(<<Frame(m, b)>>, l, a) <=> l = m /\ a = b
    <2>1. \A f : <<Frame(m, b)>> # <<f, Frame(l, a)>>
      OBVIOUS
    <2>2. <<Frame(m, b)>> = <<Frame(l, a)>> <=> Frame(m, b) = Frame(l, a)
      OBVIOUS
    <2>. QED  BY <2>1, <2>2, FrameEqual DEF CallIn
  <1>3. ASSUME NEW k \in TaskLabels, NEW c \in Asyncs, NEW m, NEW b
        PROVE  CallIn(<<Frame(k, c), Frame(m, b)>>, l, a) <=> l = m /\ a = b
    <2>1. <<Frame(k, c), Frame(m, b)>> # <<Frame(l, a)>>
      OBVIOUS
    <2>2. \A f : <<Frame(k, c), Frame(m, b)>> = <<f, Frame(l, a)>>
                   <=> f = Frame(k, c) /\ Frame(m, b) = Frame(l, a)
      OBVIOUS
    <2>3. Frame(k, c) \in [at : TaskLabels, async : Asyncs, parts : {0}]
      BY DEF Frame
    <2>. QED  BY <2>1, <2>2, <2>3, FrameEqual DEF CallIn
  <1>. QED  BY <1>1, <1>2, <1>3

\* The frames a step leaves on the thread that takes it.
LEMMA OneStack ==
  ASSUME Typed, NEW t \in Threads, NEW s, stack' = [stack EXCEPT ![t] = s]
  PROVE  /\ stack'[t] = s
         /\ \A u \in Threads : u # t => stack'[u] = stack[u]
         /\ \A u \in Threads : \A l, a : u # t => (At(u, l, a)' <=> At(u, l, a))
  BY DEF Typed, At

LEMMA FrameType ==
  ASSUME NEW l \in Labels, NEW a \in Asyncs
  PROVE  Frame(l, a) \in Frames
  BY AsyncAssumption DEF Frame, Frames

\* What a thread that takes a piece, or goes on with one, executes afterwards:
\* a worker that task only ...
LEMMA WorkerTask ==
  ASSUME Typed, Shape, NEW t \in Threads, NEW l \in TaskLabels, NEW a \in Asyncs,
         t # Main, stack' = [stack EXCEPT ![t] = <<Frame(l, a)>>]
  PROVE  /\ (stack \in [Threads -> Seq(Frames)])'
         /\ Shape'
         /\ \A u \in Threads, m \in TaskLabels, c \in Asyncs :
              At(u, m, c)' <=> IF u = t THEN m = l /\ c = a ELSE At(u, m, c)
         /\ \A m \in CallLabels, c \in Asyncs : Calls(m, c)' <=> Calls(m, c)
  <1>1. stack'[t] = <<Frame(l, a)>> /\ stack'[Main] = stack[Main]
    BY OneStack, MainIsThread
  <1>2. (stack \in [Threads -> Seq(Frames)])'
    <2>1. Frame(l, a) \in Frames
      BY LabelSets, FrameType
    <2>2. <<Frame(l, a)>> \in Seq(Frames)
      BY <2>1
    <2>. QED  BY <2>2 DEF Typed
  <1>3. Shape'
    <2>1. \A u \in Workers : u # t => stack'[u] = stack[u]
      BY OneStack, MainIsThread
    <2>. QED  BY <1>1, <2>1, MainIsThread DEF Shape
  <1>4. \A m, c : At(t, m, c)' <=> m = l /\ c = a
    BY <1>1, Stacks, FrameEqual DEF At
  <1>5. \A u \in Threads, m \in TaskLabels, c \in Asyncs :
          At(u, m, c)' <=> IF u = t THEN m = l /\ c = a ELSE At(u, m, c)
    <2>1. \A u \in Threads, m \in TaskLabels, c \in Asyncs :
            u # t => (At(u, m, c)' <=> At(u, m, c))
      BY OneStack
    <2>. QED  BY <1>4, <2>1
  <1>6. \A m \in CallLabels, c \in Asyncs : Calls(m, c)' <=> Calls(m, c)
    BY <1>1 DEF Calls
  <1>. QED  BY <1>2, <1>3, <1>5, <1>6

\* The main thread in no call, at the head of one, or in a task on top of one.
LEMMA CallsNone ==
  ASSUME stack[Main] = <<>>
  PROVE  \A m \in CallLabels, c \in Asyncs : ~Calls(m, c)
  BY CallsIn DEF Calls

LEMMA CallsOne ==
  ASSUME NEW n \in CallLabels, NEW b \in Asyncs, stack[Main] = <<Frame(n, b)>>
  PROVE  \A m \in CallLabels, c \in Asyncs : Calls(m, c) <=> m = n /\ c = b
  <1>1. \A m, c : Calls(m, c) <=> CallIn(<<Frame(n, b)>>, m, c)
    BY DEF Calls
  <1>. QED  BY <1>1, CallsIn

LEMMA CallsUnder ==
  ASSUME NEW k \in TaskLabels, NEW d \in Asyncs, NEW n \in CallLabels, NEW b \in Asyncs,
         stack[Main] = <<Frame(k, d), Frame(n, b)>>
  PROVE  \A m \in CallLabels, c \in Asyncs : Calls(m, c) <=> m = n /\ c = b
  <1>1. \A m, c : Calls(m, c) <=> CallIn(<<Frame(k, d), Frame(n, b)>>, m, c)
    BY DEF Calls
  <1>2. \A m \in CallLabels, c \in Asyncs :
          CallIn(<<Frame(k, d), Frame(n, b)>>, m, c) <=> m = n /\ c = b
    BY CallsIn
  <1>. QED  BY <1>1, <1>2

\* ... and the main thread the task on top of the join it is in.
LEMMA MainTask ==
  ASSUME Typed, Shape, NEW l \in TaskLabels, NEW a \in Asyncs, NEW b \in Asyncs,
         \A m \in CallLabels, c \in Asyncs : Calls(m, c) <=> m = "join_atask" /\ c = b,
         stack' = [stack EXCEPT ![Main] = <<Frame(l, a), Frame("join_atask", b)>>]
  PROVE  /\ (stack \in [Threads -> Seq(Frames)])'
         /\ Shape'
         /\ \A u \in Threads, m \in TaskLabels, c \in Asyncs :
              At(u, m, c)' <=> IF u = Main THEN m = l /\ c = a ELSE At(u, m, c)
         /\ \A m \in CallLabels, c \in Asyncs : Calls(m, c)' <=> Calls(m, c)
  <1>1. stack'[Main] = <<Frame(l, a), Frame("join_atask", b)>>
    BY OneStack, MainIsThread
  <1>2. (stack \in [Threads -> Seq(Frames)])'
    <2>1. /\ Frame(l, a) \in Frames
          /\ Frame("join_atask", b) \in Frames
      BY LabelSets, FrameType DEF CallLabels
    <2>2. <<Frame(l, a), Frame("join_atask", b)>> \in Seq(Frames)
      BY <2>1
    <2>. QED  BY <2>2 DEF Typed
  <1>3. Shape'
    <2>1. \A u \in Workers : stack'[u] = stack[u]
      BY OneStack, MainIsThread, AsyncAssumption
    <2>. QED  BY <1>1, <2>1 DEF Shape
  <1>4. \A m, c : At(Main, m, c)' <=> m = l /\ c = a
    BY <1>1, Stacks, FrameEqual DEF At
  <1>5. \A u \in Threads, m \in TaskLabels, c \in Asyncs :
          At(u, m, c)' <=> IF u = Main THEN m = l /\ c = a ELSE At(u, m, c)
    <2>1. \A u \in Threads, m \in TaskLabels, c \in Asyncs :
            u # Main => (At(u, m, c)' <=> At(u, m, c))
      BY OneStack, MainIsThread
    <2>. QED  BY <1>4, <2>1
  <1>6. \A m \in CallLabels, c \in Asyncs : Calls(m, c)' <=> m = "join_atask" /\ c = b
    <2>1. \A m, c : Calls(m, c)' <=> CallIn(<<Frame(l, a), Frame("join_atask", b)>>, m, c)
      BY <1>1 DEF Calls
    <2>2. \A m \in CallLabels, c \in Asyncs :
            CallIn(<<Frame(l, a), Frame("join_atask", b)>>, m, c) <=> m = "join_atask" /\ c = b
      BY CallsIn
    <2>. QED  BY <2>1, <2>2
  <1>. QED  BY <1>2, <1>3, <1>5, <1>6

LEMMA TaskGoto ==
  ASSUME Typed, Shape, NEW t \in Threads, NEW k \in TaskLabels, NEW a \in Asyncs,
         At(t, k, a), NEW l \in TaskLabels, Goto(t, l, a)
  PROVE  /\ (stack \in [Threads -> Seq(Frames)])'
         /\ Shape'
         /\ \A u \in Threads, m \in TaskLabels, c \in Asyncs :
              At(u, m, c)' <=> IF u = t THEN m = l /\ c = a ELSE At(u, m, c)
         /\ \A m \in CallLabels, c \in Asyncs : Calls(m, c)' <=> Calls(m, c)
  <1>1. CASE t # Main /\ stack[t] = <<Frame(k, a)>>
    <2>1. stack' = [stack EXCEPT ![t] = <<Frame(l, a)>>]
      BY <1>1, Stacks DEF Goto
    <2>. QED  BY <1>1, <2>1, WorkerTask
  <1>2. ASSUME NEW b \in Asyncs, t = Main,
               stack[t] = <<Frame(k, a), Frame("join_atask", b)>>
        PROVE  /\ (stack \in [Threads -> Seq(Frames)])'
               /\ Shape'
               /\ \A u \in Threads, m \in TaskLabels, c \in Asyncs :
                    At(u, m, c)' <=> IF u = t THEN m = l /\ c = a ELSE At(u, m, c)
               /\ \A m \in CallLabels, c \in Asyncs : Calls(m, c)' <=> Calls(m, c)
    <2>1. stack' = [stack EXCEPT ![Main] = <<Frame(l, a), Frame("join_atask", b)>>]
      <3>1. Tail(stack[t]) = <<Frame("join_atask", b)>>
        BY <1>2, Stacks
      <3>2. <<Frame(l, a)>> \o <<Frame("join_atask", b)>> = <<Frame(l, a), Frame("join_atask", b)>>
        BY Stacks
      <3>. QED  BY <1>2, <3>1, <3>2 DEF Goto
    <2>2. "join_atask" \in CallLabels /\ stack[Main] = <<Frame(k, a), Frame("join_atask", b)>>
      BY <1>2 DEF CallLabels
    <2>3. \A m \in CallLabels, c \in Asyncs : Calls(m, c) <=> m = "join_atask" /\ c = b
      BY <2>2, CallsUnder
    <2>4. /\ (stack \in [Threads -> Seq(Frames)])'
          /\ Shape'
          /\ \A u \in Threads, m \in TaskLabels, c \in Asyncs :
               At(u, m, c)' <=> IF u = Main THEN m = l /\ c = a ELSE At(u, m, c)
          /\ \A m \in CallLabels, c \in Asyncs : Calls(m, c)' <=> Calls(m, c)
      BY <2>1, <2>3, MainTask
    <2>. QED  BY <1>2, <2>4
  <1>. QED  BY <1>1, <1>2, InTask

\* A thread that may take a piece: an idle worker, or a join that ends finish().
Idle(t) == \/ t # Main /\ stack[t] = <<>>
           \/ t = Main /\ \E b \in Asyncs : stack[t] = <<Frame("join_atask", b)>>

LEMMA TaskPush ==
  ASSUME Typed, Shape, NEW t \in Threads, Idle(t), NEW a \in Asyncs,
         NEW l \in TaskLabels, Push(t, l, a)
  PROVE  /\ (stack \in [Threads -> Seq(Frames)])'
         /\ Shape'
         /\ \A u \in Threads, m \in TaskLabels, c \in Asyncs :
              At(u, m, c)' <=> IF u = t THEN m = l /\ c = a ELSE At(u, m, c)
         /\ \A m \in CallLabels, c \in Asyncs : Calls(m, c)' <=> Calls(m, c)
         /\ \A m \in TaskLabels, c \in Asyncs : ~At(t, m, c)
  <1>1. CASE t # Main /\ stack[t] = <<>>
    <2>1. stack' = [stack EXCEPT ![t] = <<Frame(l, a)>>]
      BY <1>1, Stacks DEF Push
    <2>2. \A m \in TaskLabels, c \in Asyncs : ~At(t, m, c)
      BY <1>1 DEF At
    <2>. QED  BY <1>1, <2>1, <2>2, WorkerTask
  <1>2. ASSUME NEW b \in Asyncs, t = Main, stack[t] = <<Frame("join_atask", b)>>
        PROVE  /\ (stack \in [Threads -> Seq(Frames)])'
               /\ Shape'
               /\ \A u \in Threads, m \in TaskLabels, c \in Asyncs :
                    At(u, m, c)' <=> IF u = t THEN m = l /\ c = a ELSE At(u, m, c)
               /\ \A m \in CallLabels, c \in Asyncs : Calls(m, c)' <=> Calls(m, c)
               /\ \A m \in TaskLabels, c \in Asyncs : ~At(t, m, c)
    <2>1. stack' = [stack EXCEPT ![Main] = <<Frame(l, a), Frame("join_atask", b)>>]
      <3>1. <<Frame(l, a)>> \o <<Frame("join_atask", b)>> = <<Frame(l, a), Frame("join_atask", b)>>
        BY Stacks
      <3>. QED  BY <1>2, <3>1 DEF Push
    <2>2. \A m \in CallLabels, c \in Asyncs : Calls(m, c) <=> m = "join_atask" /\ c = b
      <3>1. "join_atask" \in CallLabels /\ stack[Main] = <<Frame("join_atask", b)>>
        BY <1>2 DEF CallLabels
      <3>. QED  BY <3>1, CallsOne
    <2>3. \A m \in TaskLabels, c \in Asyncs : ~At(t, m, c)
      <3>1. Head(stack[t]) = Frame("join_atask", b)
        BY <1>2, Stacks
      <3>2. "join_atask" \notin TaskLabels
        BY LabelSets DEF CallLabels
      <3>. QED  BY <3>1, <3>2, FrameEqual DEF At
    <2>4. /\ (stack \in [Threads -> Seq(Frames)])'
          /\ Shape'
          /\ \A u \in Threads, m \in TaskLabels, c \in Asyncs :
               At(u, m, c)' <=> IF u = Main THEN m = l /\ c = a ELSE At(u, m, c)
          /\ \A m \in CallLabels, c \in Asyncs : Calls(m, c)' <=> Calls(m, c)
      BY <2>1, <2>2, MainTask
    <2>. QED  BY <1>2, <2>3, <2>4
  <1>. QED  BY <1>1, <1>2 DEF Idle

LEMMA TaskGone ==
  ASSUME Typed, Shape, NEW t \in Threads, NEW k \in TaskLabels, NEW a \in Asyncs,
         At(t, k, a), Return(t)
  PROVE  /\ (stack \in [Threads -> Seq(Frames)])'
         /\ Shape'
         /\ \A u \in Threads, m \in TaskLabels, c \in Asyncs :
              At(u, m, c)' <=> u # t /\ At(u, m, c)
         /\ \A m \in CallLabels, c \in Asyncs : Calls(m, c)' <=> Calls(m, c)
  <1>1. CASE t # Main /\ stack[t] = <<Frame(k, a)>>
    <2>1. stack' = [stack EXCEPT ![t] = <<>>]
      BY <1>1, Stacks DEF Return
    <2>2. stack'[t] = <<>> /\ stack'[Main] = stack[Main]
      BY <1>1, <2>1, OneStack, MainIsThread
    <2>3. (stack \in [Threads -> Seq(Frames)])'
      <3>1. <<>> \in Seq(Frames)
        OBVIOUS
      <3>. QED  BY <2>1, <3>1 DEF Typed
    <2>4. Shape'
      <3>1. \A u \in Workers : u # t => stack'[u] = stack[u]
        BY <2>1, OneStack, MainIsThread
      <3>. QED  BY <1>1, <2>2, <3>1, MainIsThread DEF Shape
    <2>5. \A m, c : ~At(t, m, c)'
      BY <2>2 DEF At
    <2>6. \A u \in Threads : \A m, c : u # t => (At(u, m, c)' <=> At(u, m, c))
      BY <2>1, OneStack
    <2>7. \A m \in CallLabels, c \in Asyncs : Calls(m, c)' <=> Calls(m, c)
      BY <2>2 DEF Calls
    <2>. QED  BY <2>3, <2>4, <2>5, <2>6, <2>7
  <1>2. ASSUME NEW b \in Asyncs, t = Main,
               stack[t] = <<Frame(k, a), Frame("join_atask", b)>>
        PROVE  /\ (stack \in [Threads -> Seq(Frames)])'
               /\ Shape'
               /\ \A u \in Threads, m \in TaskLabels, c \in Asyncs :
                    At(u, m, c)' <=> u # t /\ At(u, m, c)
               /\ \A m \in CallLabels, c \in Asyncs : Calls(m, c)' <=> Calls(m, c)
    <2>1. stack' = [stack EXCEPT ![t] = <<Frame("join_atask", b)>>]
      BY <1>2, Stacks DEF Return
    <2>2. stack'[t] = <<Frame("join_atask", b)>>
      BY <2>1, OneStack
    <2>3. (stack \in [Threads -> Seq(Frames)])'
      <3>1. Frame("join_atask", b) \in Frames
        BY FrameType DEF Labels
      <3>2. <<Frame("join_atask", b)>> \in Seq(Frames)
        BY <3>1
      <3>. QED  BY <2>1, <3>2 DEF Typed
    <2>4. Shape'
      <3>1. \A u \in Workers : stack'[u] = stack[u]
        BY <1>2, <2>1, OneStack, MainIsThread, AsyncAssumption
      <3>. QED  BY <1>2, <2>2, <3>1 DEF Shape, CallLabels
    <2>5. \A m \in TaskLabels : \A c : ~At(t, m, c)'
      <3>1. Head(stack'[t]) = Frame("join_atask", b)
        BY <2>2, Stacks
      <3>2. "join_atask" \notin TaskLabels
        BY LabelSets DEF CallLabels
      <3>. QED  BY <3>1, <3>2, FrameEqual DEF At
    <2>6. \A u \in Threads : \A m, c : u # t => (At(u, m, c)' <=> At(u, m, c))
      BY <2>1, OneStack
    <2>7. \A m \in CallLabels, c \in Asyncs : Calls(m, c)' <=> m = "join_atask" /\ c = b
      <3>1. \A m, c : Calls(m, c)' <=> CallIn(<<Frame("join_atask", b)>>, m, c)
        BY <1>2, <2>2 DEF Calls
      <3>. QED  BY <3>1, CallsIn
    <2>8. \A m \in CallLabels, c \in Asyncs : Calls(m, c) <=> m = "join_atask" /\ c = b
      <3>1. "join_atask" \in CallLabels /\ stack[Main] = <<Frame(k, a), Frame("join_atask", b)>>
        BY <1>2 DEF CallLabels
      <3>. QED  BY <3>1, CallsUnder
    <2>. QED  BY <2>3, <2>4, <2>5, <2>6, <2>7, <2>8
  <1>. QED  BY <1>1, <1>2, InTask

\* A call of the main thread, which executes no task then.
LEMMA CallStep ==
  ASSUME Typed, Shape, NEW s, stack' = [stack EXCEPT ![Main] = s],
         \/ stack[Main] = <<>>
         \/ \E k \in CallLabels, b \in Asyncs : stack[Main] = <<Frame(k, b)>>,
         \/ s = <<>>
         \/ \E k \in CallLabels, b \in Asyncs : s = <<Frame(k, b)>>
  PROVE  /\ (stack \in [Threads -> Seq(Frames)])'
         /\ Shape'
         /\ \A u \in Threads, m \in TaskLabels, c \in Asyncs : At(u, m, c)' <=> At(u, m, c)
         /\ \A m, c : Calls(m, c)' <=> CallIn(s, m, c)
  <1>1. stack'[Main] = s
    BY OneStack, MainIsThread
  <1>2. (stack \in [Threads -> Seq(Frames)])'
    <2>1. s \in Seq(Frames)
      <3>1. CASE s = <<>>
        BY <3>1
      <3>2. ASSUME NEW k \in CallLabels, NEW b \in Asyncs, s = <<Frame(k, b)>>
            PROVE  s \in Seq(Frames)
        <4>1. Frame(k, b) \in Frames
          BY FrameType, LabelSets
        <4>. QED  BY <3>2, <4>1
      <3>. QED  BY <3>1, <3>2
    <2>. QED  BY <2>1 DEF Typed
  <1>3. \A u \in Workers : stack'[u] = stack[u]
    BY OneStack, MainIsThread, AsyncAssumption
  <1>4. Shape'
    BY <1>1, <1>3 DEF Shape
  <1>5. \A m \in TaskLabels, c \in Asyncs : ~At(Main, m, c)
    <2>1. CASE stack[Main] = <<>>
      BY <2>1 DEF At
    <2>2. ASSUME NEW k \in CallLabels, NEW b \in Asyncs, stack[Main] = <<Frame(k, b)>>
          PROVE  \A m \in TaskLabels, c \in Asyncs : ~At(Main, m, c)
      <3>1. Head(stack[Main]) = Frame(k, b)
        BY <2>2, Stacks
      <3>. QED  BY <3>1, LabelSets, FrameEqual DEF At
    <2>. QED  BY <2>1, <2>2
  <1>6. \A m \in TaskLabels, c \in Asyncs : ~At(Main, m, c)'
    <2>1. CASE s = <<>>
      BY <1>1, <2>1 DEF At
    <2>2. ASSUME NEW k \in CallLabels, NEW b \in Asyncs, s = <<Frame(k, b)>>
          PROVE  \A m \in TaskLabels, c \in Asyncs : ~At(Main, m, c)'
      <3>1. Head(stack'[Main]) = Frame(k, b)
        BY <1>1, <2>2, Stacks
      <3>. QED  BY <3>1, LabelSets, FrameEqual DEF At
    <2>. QED  BY <2>1, <2>2
  <1>7. \A u \in Threads : \A m, c : u # Main => (At(u, m, c)' <=> At(u, m, c))
    BY OneStack, MainIsThread
  <1>8. \A m, c : Calls(m, c)' <=> CallIn(s, m, c)
    BY <1>1 DEF Calls
  <1>. QED  BY <1>2, <1>4, <1>5, <1>6, <1>7, <1>8
-----------------------------------------------------------------------------
(* Counting pieces. *)

LEMMA PieceEq ==
  ASSUME NEW k, NEW a, NEW n, NEW j, NEW b, NEW m
  PROVE  /\ PieceAt(k, a, n) = PieceAt(j, b, m) <=> k = j /\ a = b /\ n = m
         /\ PieceAt(k, a, n).kind = k /\ PieceAt(k, a, n).async = a
  BY DEF PieceAt, Piece

\* The sizes of pieces.
LEMMA Ranges ==
  ASSUME NEW k \in Kinds
  PROVE  /\ TaskSize[k] \in 1 .. Size /\ RangeToSplit(k) \in Nat \ {0} /\ RangeToRun(k) \in Nat
         /\ TaskSize["atask"] = 1 /\ RangeToRun(k) >= 1
  <1>1. /\ TaskSize[k] \in 1 .. Size /\ TaskMin[k] \in Nat \ {0} /\ TaskSize["atask"] = 1
    BY AsyncAssumption DEF Kinds, TaskSize, TaskMin
  <1>2. Cardinality(Workers) \in Nat /\ (Workers # {} => Cardinality(Workers) # 0)
    BY AsyncAssumption, FS_CardinalityType, FS_EmptySet
  <1>3. ASSUME NEW c \in Nat \ {0}
        PROVE  LargerOf(TaskSize[k] \div c, TaskMin[k]) \in Nat \ {0}
    <2>1. TaskSize[k] \div c \in Int
      BY <1>1
    <2>. QED  BY <1>1, <2>1 DEF LargerOf
  <1>4. InitPartitions \in Nat \ {0}
    BY <1>2 DEF InitPartitions, SmallerOf
  <1>5. Partitions \in Nat \ {0}
    <2>1. ASSUME NEW c \in Nat \ {0}
          PROVE  (c + 1) * c \in Nat \ {0}
      BY SMT
    <2>. QED  BY <1>2, <2>1 DEF Partitions
  <1>6. RangeToSplit(k) \in Nat \ {0}
    BY <1>3, <1>4 DEF RangeToSplit
  <1>7. RangeToRun(k) \in Nat \ {0}
    BY <1>3, <1>5 DEF RangeToRun
  <1>. QED  BY <1>1, <1>6, <1>7

LEMMA BeginsIn ==
  ASSUME NEW k \in Kinds
  PROVE  Begins(k) \subseteq Places /\ Begins(k) \subseteq 0 .. TaskSize[k] - 1
  BY Ranges, AsyncAssumption DEF Begins, Starts, Places

\* The runner's task has one piece, the program's as many as are added.
LEMMA PartsNat ==
  /\ Begins("atask") = {0} /\ NumAdded("atask") = 1 /\ 0 \in Places
  /\ Parts \in Nat /\ Cardinality(Begins("rtask")) = Parts /\ IsFiniteSet(Begins("rtask"))
  <1>1. "atask" \in Kinds /\ "rtask" \in Kinds
    BY DEF Kinds
  <1>2. Begins("atask") = {0}
    <2>1. PICK r \in Nat \ {0} : r = RangeToSplit("atask")
      BY <1>1, Ranges
    <2>2. 0 % r = 0
      OBVIOUS
    <2>3. Begins("atask") = {i \in 0 .. 1 - 1 : (i - 0) % r = 0}
      BY <1>1, <2>1, Ranges DEF Begins, Starts
    <2>. QED  BY <2>2, <2>3
  <1>3. NumAdded("atask") = 1
    BY <1>2, FS_Singleton DEF NumAdded, Begins
  <1>4. Cardinality(Begins("rtask")) = Parts
    BY DEF Parts, NumAdded, Begins
  <1>5. IsFiniteSet(Begins("rtask"))
    <2>1. IsFiniteSet(Places)
      BY AsyncAssumption, FS_Interval DEF Places
    <2>. QED  BY <1>1, <2>1, BeginsIn, FS_Subset
  <1>. QED  BY <1>2, <1>3, <1>4, <1>5, AsyncAssumption, FS_CardinalityType DEF Places

LEMMA FiniteParts ==
  ASSUME NEW a
  PROVE  /\ IsFiniteSet(Threads)
         /\ IsFiniteSet(Waiting(a)) /\ Cardinality(Waiting(a)) \in Nat
         /\ IsFiniteSet(Working(a)) /\ Cardinality(Working(a)) \in Nat
  <1>1. IsFiniteSet(Threads)
    BY AsyncAssumption, FS_AddElement DEF Threads
  <1>2. IsFiniteSet(Places)
    BY AsyncAssumption, FS_Interval DEF Places
  <1>3. IsFiniteSet(Threads \X Places)
    BY <1>1, <1>2, FS_Product
  <1>4. Waiting(a) \in SUBSET (Threads \X Places)
    BY DEF Waiting
  <1>5. Working(a) \in SUBSET Threads
    BY DEF Working
  <1>. QED  BY <1>1, <1>2, <1>3, <1>4, <1>5, FS_Subset, FS_CardinalityType

\* Every piece in a pipe is of the latest dispatch of its task.
LEMMA PieceForm ==
  ASSUME Typed, NEW s \in Threads, NEW p \in pipe[s]
  PROVE  \E k \in Kinds, a \in Asyncs, n \in Places :
           p = PieceAt(k, a, n) /\ p.kind = k /\ p.async = a /\ Has(s, k, a, n)
  <1>1. p \in Recent
    BY DEF Typed
  <1>2. p \in AllPieces
    BY <1>1 DEF Recent
  <1>3. p.kind \in Kinds /\ p.async \in Asyncs
    BY <1>2 DEF AllPieces
  <1>4. PICK n \in Places : p = PieceAt(p.kind, p.async, n)
    BY <1>1 DEF Recent
  <1>. QED  BY <1>3, <1>4 DEF Has

\* A step that leaves the pipes alone and dispatches a, if any async, while
\* none of its pieces is in a pipe.
LEMMA PipesKept ==
  ASSUME Typed, pipe' = pipe, NEW a \in Asyncs,
         \A b \in Asyncs : b # a => dispatched'[b] = dispatched[b],
         \/ dispatched'[a] = dispatched[a]
         \/ ~RunnerWaits(a) /\ Waiting(a) = {}
  PROVE  /\ (pipe \in [Threads -> SUBSET Recent])'
         /\ \A t \in Threads, k \in Kinds, b \in Asyncs, n \in Places :
              Has(t, k, b, n)' <=> Has(t, k, b, n)
  <1>1. CASE dispatched'[a] = dispatched[a]
    <2>1. \A b \in Asyncs : dispatched'[b] = dispatched[b]
      BY <1>1
    <2>2. \A k, n : \A b \in Asyncs : PieceAt(k, b, n)' = PieceAt(k, b, n)
      BY <2>1 DEF PieceAt
    <2>3. Recent' = Recent
      <3>1. \A p \in AllPieces : p.async \in Asyncs
        BY DEF AllPieces
      <3>. QED  BY <2>2, <3>1 DEF Recent
    <2>. QED  BY <2>2, <2>3 DEF Typed, Has
  <1>2. CASE ~RunnerWaits(a) /\ Waiting(a) = {}
    <2>1. ASSUME NEW t \in Threads, NEW p \in pipe[t]
          PROVE  p.async # a
      <3>1. PICK k \in Kinds, b \in Asyncs, n \in Places : p.async = b /\ Has(t, k, b, n)
        BY PieceForm
      <3>2. ~Has(t, "atask", a, n) /\ ~Has(t, "rtask", a, n)
        <4>1. <<t, n>> \notin Waiting(a) /\ <<t, n>> \in Threads \X Places
          BY <1>2
        <4>2. ~Has(t, "rtask", a, n)
          BY <4>1 DEF Waiting
        <4>. QED  BY <1>2, <4>2 DEF RunnerWaits
      <3>. QED  BY <3>1, <3>2 DEF Kinds
    <2>2. \A k, n : \A b \in Asyncs : b # a => PieceAt(k, b, n)' = PieceAt(k, b, n)
      BY DEF PieceAt
    <2>3. ASSUME NEW t \in Threads, NEW p \in pipe[t]
          PROVE  p \in Recent'
      <3>1. PICK k \in Kinds, b \in Asyncs, n \in Places :
              p = PieceAt(k, b, n) /\ p.kind = k /\ p.async = b
        BY PieceForm
      <3>2. p = PieceAt(p.kind, p.async, n)'
        BY <2>1, <2>2, <3>1
      <3>3. p \in AllPieces
        BY DEF Typed, Recent
      <3>. QED  BY <3>1, <3>2, <3>3 DEF Recent
    <2>4. ASSUME NEW t \in Threads, NEW k \in Kinds, NEW b \in Asyncs, NEW n \in Places
          PROVE  Has(t, k, b, n)' <=> Has(t, k, b, n)
      <3>1. CASE b # a
        BY <2>2, <3>1 DEF Has
      <3>2. CASE b = a
        <4>1. PieceAt(k, a, n)'.async = a
          BY DEF PieceAt, Piece
        <4>. QED  BY <2>1, <3>2, <4>1, PieceEq DEF Has
      <3>. QED  BY <3>1, <3>2
    <2>. QED  BY <2>3, <2>4 DEF Typed
  <1>. QED  BY <1>1, <1>2

LEMMA PipesSame ==
  ASSUME Typed, pipe' = pipe, dispatched' = dispatched
  PROVE  /\ (pipe \in [Threads -> SUBSET Recent])'
         /\ \A t \in Threads, k \in Kinds, b \in Asyncs, n \in Places :
              Has(t, k, b, n)' <=> Has(t, k, b, n)
  <1>1. \A k, b, n : PieceAt(k, b, n)' = PieceAt(k, b, n)
    BY DEF PieceAt
  <1>2. Recent' = Recent
    BY <1>1 DEF Recent
  <1>. QED  BY <1>1, <1>2 DEF Typed, Has

LEMMA UnfinishedNat ==
  ASSUME NEW a
  PROVE  /\ Unfinished(a) \in Nat
         /\ Unfinished(a) = 0 => Waiting(a) = {} /\ Working(a) = {}
  <1>1. Unfinished(a) = 0 => Cardinality(Waiting(a)) = 0 /\ Cardinality(Working(a)) = 0
    BY FiniteParts DEF Unfinished
  <1>2. Unfinished(a) \in Nat
    BY FiniteParts DEF Unfinished
  <1>. QED  BY <1>1, <1>2, FiniteParts, FS_EmptySet

LEMMA WaitingHas ==
  ASSUME NEW a, NEW t \in Threads, NEW n \in Places
  PROVE  <<t, n>> \in Waiting(a) <=> Has(t, "rtask", a, n)
  BY DEF Waiting

\* A step that leaves the pieces of a, or what is executed for a, alone.
LEMMA SamePieces ==
  ASSUME NEW a, \A t \in Threads, n \in Places :
                  Has(t, "rtask", a, n)' <=> Has(t, "rtask", a, n)
  PROVE  Waiting(a)' = Waiting(a)
  BY DEF Waiting

LEMMA SameRunner ==
  ASSUME NEW a, \A t \in Threads, n \in Places :
                  Has(t, "atask", a, n)' <=> Has(t, "atask", a, n)
  PROVE  RunnerWaits(a)' <=> RunnerWaits(a)
  BY DEF RunnerWaits

LEMMA SameWork ==
  ASSUME NEW a, \A t \in Threads : At(t, "work", a)' <=> At(t, "work", a)
  PROVE  Working(a)' = Working(a)
  BY DEF Working

LEMMA SameAsync ==
  ASSUME NEW a, Sound(a), Same(a)
  PROVE  Sound(a)'
  <1>1. Waiting(a)' = Waiting(a) /\ (RunnerWaits(a)' <=> RunnerWaits(a))
    BY SamePieces, SameRunner DEF Same, Kinds
  <1>2. Working(a)' = Working(a)
    BY SameWork, LabelSets DEF Same
  <1>3. Unfinished(a)' = Unfinished(a)
    BY <1>1, <1>2 DEF Unfinished
  <1>4. \A t \in Threads, l \in RunnerLabels : At(t, l, a)' <=> At(t, l, a)
    BY LabelSets DEF Same
  <1>5. RunnerRuns(a)' <=> RunnerRuns(a)
    BY <1>4 DEF RunnerRuns
  <1>6. Counting(a)' <=> Counting(a)
    BY <1>4 DEF Counting, RunnerLabels
  <1>7. OneRunner(a)'
    <2>1. /\ \A t, u \in Threads, n, m \in Places :
               Has(t, "atask", a, n) /\ Has(u, "atask", a, m) => t = u /\ n = m
          /\ \A t, u \in Threads, l, m \in RunnerLabels :
               At(t, l, a) /\ At(u, m, a) => t = u /\ l = m
          /\ ~(RunnerWaits(a) /\ RunnerRuns(a))
      BY DEF Sound, OneRunner
    <2>2. \A t \in Threads, n \in Places :
            Has(t, "atask", a, n)' <=> Has(t, "atask", a, n)
      BY DEF Same, Kinds
    <2>3. \A t, u \in Threads, n, m \in Places :
            Has(t, "atask", a, n)' /\ Has(u, "atask", a, m)' => t = u /\ n = m
      BY <2>1, <2>2
    <2>4. \A t, u \in Threads, l, m \in RunnerLabels :
            At(t, l, a)' /\ At(u, m, a)' => t = u /\ l = m
      BY <2>1, <1>4
    <2>5. ~(RunnerWaits(a)' /\ RunnerRuns(a)')
      BY <2>1, <1>1, <1>5
    <2>. QED  BY <2>3, <2>4, <2>5 DEF OneRunner
  <1>8. Counts(a)'
    BY <1>1, <1>3, <1>5, <1>6 DEF Sound, Counts, Same, Kinds, CallLabels
  <1>9. RunnerFlags(a)'
    BY <1>1, <1>3, <1>4 DEF Sound, RunnerFlags, Same, RunnerLabels
  <1>10. CallFlags(a)'
    BY <1>1, <1>5 DEF Sound, CallFlags, Same, CallLabels
  <1>11. Called(a)'
    BY DEF Sound, Called, Same, CallLabels
  <1>. QED  BY <1>7, <1>8, <1>9, <1>10, <1>11 DEF Sound
-----------------------------------------------------------------------------
(* What the steps of the scheduler do to counts and pipes. *)

LEMMA CountSet ==
  ASSUME Typed, NEW k \in Kinds, NEW a \in Asyncs, NEW n \in Int,
         run_count' = [run_count EXCEPT ![<<a, k>>] = n]
  PROVE  /\ run_count' \in [Asyncs \X Kinds -> Int]
         /\ run_count'[<<a, k>>] = n
         /\ \A j \in Kinds, b \in Asyncs :
              j # k \/ b # a => run_count'[<<b, j>>] = run_count[<<b, j>>]
  <1>1. <<a, k>> \in Asyncs \X Kinds
    OBVIOUS
  <1>2. \A j \in Kinds, b \in Asyncs :
          <<b, j>> \in Asyncs \X Kinds /\ (j # k \/ b # a => <<b, j>> # <<a, k>>)
    OBVIOUS
  <1>. QED  BY <1>1, <1>2 DEF Typed

LEMMA CountType ==
  ASSUME Typed, NEW k \in Kinds, NEW a \in Asyncs
  PROVE  run_count[<<a, k>>] \in Int
  BY DEF Typed

\* An async that is running has been dispatched.
LEMMA DispatchedOnce ==
  ASSUME Inv, NEW a \in Asyncs, flags[a] = "running"
  PROVE  dispatched[a] \in 1 .. MaxDispatch
  <1>1. Typed /\ Sound(a) /\ ~Calls("callback", a)
    BY DEF Inv, Sound, CallFlags
  <1>2. called[a] \in Nat /\ dispatched[a] \in 0 .. MaxDispatch /\ called[a] + 1 = dispatched[a]
    BY <1>1 DEF Sound, Called, Typed
  <1>. QED  BY <1>2, AsyncAssumption

LEMMA PieceType ==
  ASSUME NEW k \in Kinds, NEW a \in Asyncs, NEW n \in Begins(k), dispatched[a] \in 1 .. MaxDispatch
  PROVE  PieceAt(k, a, n) \in Recent
  <1>1. n \in 0 .. TaskSize[k] - 1 /\ n \in Places
    BY BeginsIn
  <1>2. PICK m, r \in Nat : m = TaskSize[k] /\ r = RangeToSplit(k) /\ r # 0 /\ m \in 1 .. Size
    BY Ranges, AsyncAssumption
  <1>3. SmallerOf(n + r, m) \in 1 .. Size
    BY <1>1, <1>2, AsyncAssumption DEF SmallerOf
  <1>4. PieceAt(k, a, n) \in AllPieces
    BY <1>1, <1>2, <1>3 DEF PieceAt, Piece, AllPieces, Places
  <1>. QED  BY <1>1, <1>4, PieceEq DEF Recent

\* The pieces that scheduler_add writes.
LEMMA AddedAt ==
  ASSUME NEW k, NEW a
  PROVE  Added(k, a) = {PieceAt(k, a, n) : n \in Begins(k)}
  <1>. DEFINE p == Piece(k, a, dispatched[a], 0, TaskSize[k])
  <1>1. /\ p.kind = k /\ p.async = a /\ p.dispatch = dispatched[a]
        /\ p.start = 0 /\ p.end = TaskSize[k]
    BY DEF Piece
  <1>. HIDE DEF p
  <1>2. Divide(p, RangeToSplit(k)) = {PieceAt(k, a, n) : n \in Begins(k)}
    BY <1>1 DEF Divide, PieceAt, Begins
  <1>. QED  BY <1>2 DEF Added, p

AddedBy(t, k, a) ==
  /\ run_count' \in [Asyncs \X Kinds -> Int]
  /\ (pipe \in [Threads -> SUBSET Recent])'
  /\ run_count'[<<a, k>>] = -1
  /\ \A j \in Kinds, b \in Asyncs :
       j # k \/ b # a => run_count'[<<b, j>>] = run_count[<<b, j>>]
  /\ \A u \in Threads, j \in Kinds, b \in Asyncs, m \in Places :
       Has(u, j, b, m)' <=> Has(u, j, b, m) \/ (u = t /\ j = k /\ b = a /\ m \in Begins(k))

LEMMA AddStep ==
  ASSUME Typed, NEW t \in Threads, NEW k \in Kinds, NEW a \in Asyncs, Add(t, k, a),
         dispatched' = dispatched, dispatched[a] \in 1 .. MaxDispatch
  PROVE  AddedBy(t, k, a)
  <1>1. run_count' = [run_count EXCEPT ![<<a, k>>] = -1] /\ -1 \in Int
    BY DEF Add
  <1>2. pipe' = [pipe EXCEPT ![t] = @ \cup {PieceAt(k, a, n) : n \in Begins(k)}]
    BY AddedAt DEF Add
  <1>3. \A j, b, n : PieceAt(j, b, n)' = PieceAt(j, b, n)
    BY DEF PieceAt
  <1>4. Recent' = Recent
    BY <1>3 DEF Recent
  <1>5. \A n \in Begins(k) : PieceAt(k, a, n) \in Recent
    BY PieceType
  <1>6. (pipe \in [Threads -> SUBSET Recent])'
    BY <1>2, <1>4, <1>5 DEF Typed
  <1>7. ASSUME NEW u \in Threads, NEW j \in Kinds, NEW b \in Asyncs, NEW m \in Places
        PROVE  Has(u, j, b, m)'
                 <=> Has(u, j, b, m) \/ (u = t /\ j = k /\ b = a /\ m \in Begins(k))
    <2>1. PieceAt(j, b, m) \in {PieceAt(k, a, n) : n \in Begins(k)}
            <=> j = k /\ b = a /\ m \in Begins(k)
      BY PieceEq
    <2>2. CASE u = t
      <3>1. pipe'[u] = pipe[u] \cup {PieceAt(k, a, n) : n \in Begins(k)}
        BY <1>2, <2>2 DEF Typed
      <3>. QED  BY <1>3, <2>1, <2>2, <3>1 DEF Has
    <2>3. CASE u # t
      <3>1. pipe'[u] = pipe[u]
        BY <1>2, <2>3 DEF Typed
      <3>. QED  BY <1>3, <2>3, <3>1 DEF Has
    <2>. QED  BY <2>2, <2>3
  <1>. QED  BY <1>1, <1>6, <1>7, CountSet DEF AddedBy

\* A piece taken from a pipe.
LEMMA TakeStep ==
  ASSUME Typed, NEW s \in Threads, NEW k \in Kinds, NEW a \in Asyncs, NEW n \in Places,
         pipe' = [pipe EXCEPT ![s] = @ \ {PieceAt(k, a, n)}], dispatched' = dispatched
  PROVE  /\ (pipe \in [Threads -> SUBSET Recent])'
         /\ \A u \in Threads, j \in Kinds, b \in Asyncs, m \in Places :
              Has(u, j, b, m)' <=> Has(u, j, b, m) /\ ~(u = s /\ j = k /\ b = a /\ m = n)
  <1>1. \A j, b, m : PieceAt(j, b, m)' = PieceAt(j, b, m)
    BY DEF PieceAt
  <1>2. Recent' = Recent
    BY <1>1 DEF Recent
  <1>3. (pipe \in [Threads -> SUBSET Recent])'
    BY <1>2 DEF Typed
  <1>4. ASSUME NEW u \in Threads, NEW j \in Kinds, NEW b \in Asyncs, NEW m \in Places
        PROVE  Has(u, j, b, m)' <=> Has(u, j, b, m) /\ ~(u = s /\ j = k /\ b = a /\ m = n)
    <2>1. PieceAt(j, b, m) = PieceAt(k, a, n) <=> j = k /\ b = a /\ m = n
      BY PieceEq
    <2>2. CASE u = s
      <3>1. pipe'[u] = pipe[u] \ {PieceAt(k, a, n)}
        BY <2>2 DEF Typed
      <3>. QED  BY <1>1, <2>1, <2>2, <3>1 DEF Has
    <2>3. CASE u # s
      <3>1. pipe'[u] = pipe[u]
        BY <2>3 DEF Typed
      <3>. QED  BY <1>1, <2>3, <3>1 DEF Has
    <2>. QED  BY <2>2, <2>3
  <1>. QED  BY <1>3, <1>4

LEMMA Step ==
  ASSUME Inv, NEW a \in Asyncs, Typed', Shape', Sound(a)', \A b \in Asyncs : b # a => Same(b)
  PROVE  Inv'
  <1>1. \A b \in Asyncs : Sound(b)'
    BY SameAsync DEF Inv
  <1>. QED  BY <1>1 DEF Inv
-----------------------------------------------------------------------------
(* The steps of the runner. *)

LEMMA AtOne ==
  ASSUME NEW t, NEW l, NEW a, NEW m, NEW b, At(t, l, a), At(t, m, b)
  PROVE  l = m /\ a = b
  BY FrameEqual DEF At

\* What is known of an async whose runner is at this point.
LEMMA RunnerAt ==
  ASSUME Inv, NEW t \in Threads, NEW l \in RunnerLabels, NEW a \in Asyncs, At(t, l, a)
  PROVE  /\ RunnerRuns(a) /\ ~RunnerWaits(a)
         /\ \A u \in Threads, m \in RunnerLabels : At(u, m, a) <=> u = t /\ m = l
         /\ flags[a] = "running" <=> l \notin {"join_rtask", "end_runner"}
         /\ Counting(a) <=> l = "count_rtask"
         /\ l \notin {"count_rtask", "poll"} => Unfinished(a) = 0
         /\ ~Calls("add", a)
         /\ run_count[<<a, "rtask">>] = 0 /\ l # "count_rtask" => Unfinished(a) = 0
  <1>1. OneRunner(a) /\ RunnerFlags(a) /\ CallFlags(a) /\ Counts(a)
    BY DEF Inv, Sound
  <1>2. RunnerRuns(a)
    BY DEF RunnerRuns
  <1>3. ~RunnerWaits(a)
    BY <1>1, <1>2 DEF OneRunner
  <1>4. \A u \in Threads, m \in RunnerLabels : At(u, m, a) <=> u = t /\ m = l
    BY <1>1 DEF OneRunner
  <1>5. flags[a] = "running" <=> l \notin {"join_rtask", "end_runner"}
    BY <1>1 DEF RunnerFlags
  <1>6. "count_rtask" \in RunnerLabels /\ "poll" \in RunnerLabels
    BY DEF RunnerLabels
  <1>7. Counting(a) <=> l = "count_rtask"
    BY <1>4, <1>6 DEF Counting
  <1>8. l \notin {"count_rtask", "poll"} => Unfinished(a) = 0
    BY <1>1, <1>4, <1>6 DEF RunnerFlags
  <1>9. ~Calls("add", a)
    BY <1>1, <1>2 DEF CallFlags
  <1>10. run_count[<<a, "rtask">>] = 0 /\ l # "count_rtask" => Unfinished(a) = 0
    <2>1. l # "count_rtask" => run_count[<<a, "rtask">>] = Unfinished(a)
      BY <1>1, <1>7, UnfinishedNat DEF Counts
    <2>. QED  BY <2>1
  <1>. QED  BY <1>2, <1>3, <1>4, <1>5, <1>7, <1>8, <1>9, <1>10

\* The runner goes from one point to the next.
RunnerGoes(t, l, a) ==
  /\ (stack \in [Threads -> Seq(Frames)])'
  /\ Shape'
  /\ \A b \in Asyncs : b # a =>
       \A u \in Threads, m \in TaskLabels : At(u, m, b)' <=> At(u, m, b)
  /\ \A u \in Threads, m \in RunnerLabels : At(u, m, a)' <=> u = t /\ m = l
  /\ Working(a)' = Working(a)
  /\ \A m \in CallLabels, b \in Asyncs : Calls(m, b)' <=> Calls(m, b)
  /\ RunnerRuns(a)'
  /\ Counting(a)' <=> l = "count_rtask"

LEMMA RunnerGoto ==
  ASSUME Inv, NEW t \in Threads, NEW k \in RunnerLabels, NEW l \in RunnerLabels,
         NEW a \in Asyncs, At(t, k, a), Goto(t, l, a)
  PROVE  RunnerGoes(t, l, a)
  <1>1. k \in TaskLabels /\ l \in TaskLabels /\ k # "work" /\ l # "work"
    BY LabelSets
  <1>2. /\ (stack \in [Threads -> Seq(Frames)])'
        /\ Shape'
        /\ \A u \in Threads, m \in TaskLabels, c \in Asyncs :
             At(u, m, c)' <=> IF u = t THEN m = l /\ c = a ELSE At(u, m, c)
        /\ \A m \in CallLabels, c \in Asyncs : Calls(m, c)' <=> Calls(m, c)
    BY <1>1, TaskGoto DEF Inv
  <1>3. \A m \in TaskLabels, b \in Asyncs : At(t, m, b) <=> m = k /\ b = a
    BY AtOne
  <1>4. \A b \in Asyncs : b # a =>
          \A u \in Threads, m \in TaskLabels : At(u, m, b)' <=> At(u, m, b)
    BY <1>2, <1>3
  <1>5. \A u \in Threads, m \in RunnerLabels : At(u, m, a)' <=> u = t /\ m = l
    <2>1. \A u \in Threads, m \in RunnerLabels : At(u, m, a) <=> u = t /\ m = k
      BY RunnerAt
    <2>. QED  BY <1>2, <2>1, LabelSets
  <1>6. Working(a)' = Working(a)
    <2>1. \A u \in Threads : At(u, "work", a)' <=> At(u, "work", a)
      BY <1>1, <1>2, <1>3, LabelSets
    <2>. QED  BY <2>1, SameWork
  <1>7. RunnerRuns(a)'
    BY <1>5 DEF RunnerRuns
  <1>8. Counting(a)' <=> l = "count_rtask"
    BY <1>5 DEF Counting, RunnerLabels
  <1>. QED  BY <1>2, <1>4, <1>5, <1>6, <1>7, <1>8 DEF RunnerGoes

LEMMA AddWorkStep ==
  ASSUME Inv, NEW t \in Threads, NEW a \in Asyncs, AddWork(t, a)
  PROVE  Inv'
  <1>1. /\ At(t, "add_rtask", a) /\ Add(t, "rtask", a) /\ Goto(t, "count_rtask", a)
        /\ flags' = flags /\ dispatched' = dispatched /\ called' = called
    BY DEF AddWork
  <1>2. /\ "add_rtask" \in RunnerLabels /\ "count_rtask" \in RunnerLabels
        /\ "rtask" \in Kinds /\ "atask" \in Kinds
    BY DEF RunnerLabels, Kinds
  <1>3. Typed /\ Sound(a)
    BY DEF Inv
  <1>4. AddedBy(t, "rtask", a)
    <2>1. flags[a] = "running"
      BY <1>1, <1>2, RunnerAt
    <2>. QED  BY <1>1, <1>2, <1>3, <2>1, DispatchedOnce, AddStep
  <1>5. RunnerGoes(t, "count_rtask", a)
    BY <1>1, <1>2, RunnerGoto
  <1>6. /\ RunnerRuns(a) /\ ~RunnerWaits(a) /\ flags[a] = "running" /\ Unfinished(a) = 0
        /\ ~Calls("add", a)
    BY <1>1, <1>2, RunnerAt
  <1>7. Typed'
    BY <1>1, <1>3, <1>4, <1>5 DEF Typed, AddedBy, RunnerGoes
  <1>8. \A b \in Asyncs : b # a => Same(b)
    BY <1>1, <1>4, <1>5 DEF Same, AddedBy, RunnerGoes
  <1>9. RunnerWaits(a)' <=> RunnerWaits(a)
    <2>1. \A u \in Threads, n \in Places :
            Has(u, "atask", a, n)' <=> Has(u, "atask", a, n)
      BY <1>2, <1>4 DEF AddedBy
    <2>. QED  BY <2>1, SameRunner
  <1>10. OneRunner(a)'
    BY <1>5, <1>6, <1>9 DEF OneRunner, RunnerGoes, RunnerWaits
  <1>11. Unfinished(a)' = Parts
    <2>1. Waiting(a) = {} /\ Working(a) = {}
      BY <1>6, UnfinishedNat
    <2>2. \A u \in Threads, m \in Places :
            Has(u, "rtask", a, m)' <=> u = t /\ m \in Begins("rtask")
      <3>1. \A u \in Threads, m \in Places : ~Has(u, "rtask", a, m)
        BY <2>1, WaitingHas
      <3>. QED  BY <1>2, <1>4, <3>1 DEF AddedBy
    <2>3. Waiting(a)' = {t} \X Begins("rtask")
      <3>1. Begins("rtask") \subseteq Places
        BY <1>2, BeginsIn
      <3>. QED  BY <2>2, <3>1 DEF Waiting
    <2>4. Cardinality({t} \X Begins("rtask")) = Cardinality({t}) * Cardinality(Begins("rtask"))
      BY FS_Singleton, FS_Product, PartsNat
    <2>5. Cardinality({t}) = 1 /\ Cardinality(Begins("rtask")) = Parts
      BY FS_Singleton, PartsNat
    <2>6. Cardinality({t} \X Begins("rtask")) = Parts
      BY <2>4, <2>5, PartsNat
    <2>7. Cardinality(Waiting(a)') = Parts /\ Cardinality(Working(a)') = 0
      BY <1>5, <2>1, <2>3, <2>6, FS_EmptySet DEF RunnerGoes
    <2>. QED  BY <2>7, PartsNat DEF Unfinished
  <1>12. Counts(a)'
    <2>1. run_count'[<<a, "atask">>] = run_count[<<a, "atask">>]
      BY <1>2, <1>4 DEF AddedBy
    <2>2. -1 = Parts - (Parts + 1)
      BY PartsNat
    <2>3. Parts <= Parts
      BY PartsNat
    <2>4. Calls("count", a)' <=> Calls("count", a)
      BY <1>5 DEF CallLabels, RunnerGoes
    <2>5. run_count[<<a, "atask">>] = (IF RunnerWaits(a) \/ RunnerRuns(a) THEN 1 ELSE 0)
                                        - (IF Calls("count", a) THEN 2 ELSE 0)
      BY <1>3 DEF Sound, Counts
    <2>6. run_count'[<<a, "atask">>] = (IF RunnerWaits(a)' \/ RunnerRuns(a)' THEN 1 ELSE 0)
                                         - (IF Calls("count", a)' THEN 2 ELSE 0)
      BY <1>5, <1>6, <2>1, <2>4, <2>5 DEF RunnerGoes
    <2>7. run_count'[<<a, "rtask">>] = Unfinished(a)' - (IF Counting(a)' THEN Parts + 1 ELSE 0)
      BY <1>4, <1>5, <1>11, <2>2 DEF AddedBy, RunnerGoes
    <2>. QED  BY <1>11, <2>3, <2>6, <2>7 DEF Counts
  <1>13. RunnerFlags(a)'
    BY <1>1, <1>2, <1>5, <1>6, <1>9 DEF RunnerFlags, RunnerGoes
  <1>14. CallFlags(a)'
    BY <1>1, <1>3, <1>5, <1>6, <1>9 DEF Sound, CallFlags, CallLabels, RunnerGoes
  <1>15. Called(a)'
    BY <1>1, <1>3, <1>5 DEF Sound, Called, CallLabels, RunnerGoes
  <1>. QED  BY <1>5, <1>7, <1>8, <1>10, <1>12, <1>13, <1>14, <1>15, Step DEF Sound, RunnerGoes

\* The runner's other steps leave the pipes alone.
LEMMA RunnerStep ==
  ASSUME Inv, NEW t \in Threads, NEW k \in RunnerLabels, NEW l \in RunnerLabels,
         NEW a \in Asyncs, At(t, k, a), Goto(t, l, a),
         pipe' = pipe, dispatched' = dispatched, called' = called,
         NEW f \in {"none", "running", "done"}, flags' = [flags EXCEPT ![a] = f],
         f = flags[a] \/ (flags[a] = "running" /\ f = "done"),
         f = "running" <=> l \notin {"join_rtask", "end_runner"},
         NEW n \in Int, run_count' = [run_count EXCEPT ![<<a, "rtask">>] = n],
         n = Unfinished(a),
         l # "count_rtask", l # "poll" => Unfinished(a) = 0
  PROVE  Inv'
  <1>1. RunnerGoes(t, l, a)
    BY RunnerGoto
  <1>2. Typed /\ Sound(a) /\ "rtask" \in Kinds /\ "atask" \in Kinds /\ "rtask" # "atask"
    BY DEF Inv, Kinds
  <1>3. /\ run_count' \in [Asyncs \X Kinds -> Int]
        /\ run_count'[<<a, "rtask">>] = n
        /\ \A j \in Kinds, b \in Asyncs :
             j # "rtask" \/ b # a => run_count'[<<b, j>>] = run_count[<<b, j>>]
    BY <1>2, CountSet
  <1>4. /\ RunnerRuns(a) /\ ~RunnerWaits(a) /\ ~Calls("add", a)
    BY RunnerAt
  <1>5. flags' \in [Asyncs -> {"none", "running", "done"}] /\ flags'[a] = f
        /\ \A b \in Asyncs : b # a => flags'[b] = flags[b]
    BY <1>2 DEF Typed
  <1>6. Typed'
    BY PipesSame, <1>1, <1>2, <1>3, <1>5 DEF Typed, RunnerGoes
  <1>7. \A b \in Asyncs : b # a => Same(b)
    BY PipesSame, <1>1, <1>2, <1>3, <1>5 DEF Same, RunnerGoes
  <1>8. (RunnerWaits(a)' <=> RunnerWaits(a)) /\ Waiting(a)' = Waiting(a)
    BY <1>2, PipesSame, SameRunner, SamePieces
  <1>9. Unfinished(a)' = Unfinished(a)
    BY <1>1, <1>8 DEF Unfinished, RunnerGoes
  <1>10. OneRunner(a)'
    BY PipesSame, <1>1, <1>2, <1>4, <1>8 DEF Sound, OneRunner, RunnerGoes
  <1>11. Counts(a)'
    <2>1. run_count'[<<a, "atask">>] = run_count[<<a, "atask">>]
      BY <1>2, <1>3
    <2>2. Calls("count", a)' <=> Calls("count", a)
      BY <1>1 DEF CallLabels, RunnerGoes
    <2>3. run_count[<<a, "atask">>] = (IF RunnerWaits(a) \/ RunnerRuns(a) THEN 1 ELSE 0)
                                        - (IF Calls("count", a) THEN 2 ELSE 0)
      BY <1>2 DEF Sound, Counts
    <2>4. run_count'[<<a, "atask">>] = (IF RunnerWaits(a)' \/ RunnerRuns(a)' THEN 1 ELSE 0)
                                         - (IF Calls("count", a)' THEN 2 ELSE 0)
      BY <1>1, <1>4, <2>1, <2>2, <2>3 DEF RunnerGoes
    <2>5. ~Counting(a)'
      BY <1>1 DEF RunnerGoes
    <2>6. run_count'[<<a, "rtask">>] = Unfinished(a)' - (IF Counting(a)' THEN Parts + 1 ELSE 0)
      BY <1>3, <1>9, <2>5
    <2>7. Unfinished(a)' <= Parts
      BY <1>2, <1>9 DEF Sound, Counts
    <2>. QED  BY <2>4, <2>6, <2>7 DEF Counts
  <1>12. RunnerFlags(a)'
    <2>1. \A u \in Threads, m \in RunnerLabels : At(u, m, a)' <=> u = t /\ m = l
      BY <1>1 DEF RunnerGoes
    <2>2. Unfinished(a)' # 0 => At(t, "poll", a)'
      BY <1>9, <2>1 DEF RunnerLabels
    <2>. QED  BY <1>4, <1>5, <1>8, <2>1, <2>2 DEF RunnerFlags
  <1>13. CallFlags(a)'
    <2>1. \A m \in CallLabels : Calls(m, a)' <=> Calls(m, a)
      BY <1>1 DEF RunnerGoes
    <2>2. flags[a] = "running" => ~Calls("callback", a) /\ ~Calls("join_atask", a)
      BY <1>2 DEF Sound, CallFlags
    <2>. QED  BY <1>1, <1>2, <1>4, <1>5, <1>8, <2>1, <2>2 DEF Sound, CallFlags, CallLabels, RunnerGoes
  <1>14. Called(a)'
    <2>1. Calls("callback", a)' <=> Calls("callback", a)
      BY <1>1 DEF RunnerGoes, CallLabels
    <2>2. f = "none" <=> flags[a] = "none"
      OBVIOUS
    <2>. QED  BY <1>2, <1>5, <2>1, <2>2 DEF Sound, Called
  <1>. QED  BY <1>1, <1>6, <1>7, <1>10, <1>11, <1>12, <1>13, <1>14, Step DEF Sound, RunnerGoes

LEMMA CountWorkStep ==
  ASSUME Inv, NEW t \in Threads, NEW a \in Asyncs, CountWork(t, a)
  PROVE  Inv'
  <1>1. /\ At(t, "count_rtask", a) /\ Count("rtask", a) /\ Goto(t, "poll", a)
        /\ flags' = flags /\ pipe' = pipe /\ dispatched' = dispatched /\ called' = called
    BY DEF CountWork
  <1>2. "count_rtask" \in RunnerLabels /\ "poll" \in RunnerLabels
    BY DEF RunnerLabels
  <1>3. Counting(a) /\ flags[a] = "running"
    BY <1>1, <1>2, RunnerAt
  <1>4. run_count[<<a, "rtask">>] = Unfinished(a) - (Parts + 1) /\ Unfinished(a) \in Int
    <2>1. run_count[<<a, "rtask">>] = Unfinished(a) - (IF Counting(a) THEN Parts + 1 ELSE 0)
      BY DEF Inv, Sound, Counts
    <2>2. Unfinished(a) \in Int
      BY UnfinishedNat
    <2>. QED  BY <1>3, <2>1, <2>2
  <1>5. run_count[<<a, "rtask">>] + Parts + 1 = Unfinished(a)
    BY <1>4, PartsNat
  <1>6. run_count' = [run_count EXCEPT ![<<a, "rtask">>] = Unfinished(a)]
    BY <1>1, <1>5 DEF Count, Parts
  <1>7. flags' = [flags EXCEPT ![a] = "running"]
    BY <1>1, <1>3 DEF Inv, Typed
  <1>. QED  BY <1>1, <1>2, <1>3, <1>4, <1>6, <1>7, RunnerStep

\* The steps that leave the counts alone too: run_count is what it is.
LEMMA SameCount ==
  ASSUME Inv, NEW a \in Asyncs, run_count' = run_count
  PROVE  run_count' = [run_count EXCEPT ![<<a, "rtask">>] = run_count[<<a, "rtask">>]]
         /\ run_count[<<a, "rtask">>] \in Int
  <1>1. run_count \in [Asyncs \X Kinds -> Int] /\ <<a, "rtask">> \in Asyncs \X Kinds
    BY DEF Inv, Typed, Kinds
  <1>. QED  BY <1>1

LEMMA SameFlags ==
  ASSUME Inv, NEW a \in Asyncs, flags' = flags
  PROVE  flags' = [flags EXCEPT ![a] = flags[a]] /\ flags[a] \in {"none", "running", "done"}
  BY DEF Inv, Typed

\* Away from scheduler_add the count of the program's task is what is left of it.
LEMMA CountIsLeft ==
  ASSUME Inv, NEW t \in Threads, NEW l \in RunnerLabels, NEW a \in Asyncs, At(t, l, a),
         l # "count_rtask"
  PROVE  run_count[<<a, "rtask">>] = Unfinished(a)
  <1>1. ~Counting(a)
    BY RunnerAt
  <1>2. run_count[<<a, "rtask">>] = Unfinished(a) - (IF Counting(a) THEN Parts + 1 ELSE 0)
    BY DEF Inv, Sound, Counts
  <1>3. Unfinished(a) \in Int
    BY UnfinishedNat
  <1>. QED  BY <1>1, <1>2, <1>3

LEMMA PollStep ==
  ASSUME Inv, NEW t \in Threads, NEW a \in Asyncs, Poll(t, a)
  PROVE  Inv'
  <1>1. /\ At(t, "poll", a) /\ flags' = flags /\ run_count' = run_count /\ pipe' = pipe
        /\ dispatched' = dispatched /\ called' = called
    BY DEF Poll
  <1>2. "poll" \in RunnerLabels /\ "set_done" \in RunnerLabels
    BY DEF RunnerLabels
  <1>3. flags[a] = "running"
    BY <1>1, <1>2, RunnerAt
  <1>4. run_count[<<a, "rtask">>] = 0 /\ Goto(t, "set_done", a)
    BY <1>3 DEF Poll
  <1>5. run_count[<<a, "rtask">>] = Unfinished(a)
    BY <1>1, <1>2, CountIsLeft
  <1>. QED  BY <1>1, <1>2, <1>3, <1>4, <1>5, SameCount, SameFlags, RunnerStep

LEMMA SetDoneStep ==
  ASSUME Inv, NEW t \in Threads, NEW a \in Asyncs, SetDone(t, a)
  PROVE  Inv'
  <1>1. /\ At(t, "set_done", a) /\ Goto(t, "join_rtask", a)
        /\ flags' = [flags EXCEPT ![a] = "done"] /\ run_count' = run_count /\ pipe' = pipe
        /\ dispatched' = dispatched /\ called' = called
    BY DEF SetDone
  <1>2. "set_done" \in RunnerLabels /\ "join_rtask" \in RunnerLabels
    BY DEF RunnerLabels
  <1>3. flags[a] = "running" /\ Unfinished(a) = 0
    BY <1>1, <1>2, RunnerAt
  <1>4. run_count[<<a, "rtask">>] = Unfinished(a)
    BY <1>1, <1>2, CountIsLeft
  <1>5. run_count' = [run_count EXCEPT ![<<a, "rtask">>] = run_count[<<a, "rtask">>]]
        /\ run_count[<<a, "rtask">>] \in Int
    BY <1>1, SameCount
  <1>6. PICK f \in {"none", "running", "done"} : f = "done"
    OBVIOUS
  <1>7. PICK l \in RunnerLabels : l = "join_rtask"
    BY <1>2
  <1>8. PICK k \in RunnerLabels : k = "set_done"
    BY <1>2
  <1>9. PICK n \in Int : n = run_count[<<a, "rtask">>]
    BY <1>5
  <1>10. run_count' = [run_count EXCEPT ![<<a, "rtask">>] = n] /\ n = Unfinished(a)
    BY <1>4, <1>5, <1>9
  <1>11. /\ At(t, k, a) /\ Goto(t, l, a) /\ flags' = [flags EXCEPT ![a] = f]
        /\ (f = "running" <=> l \notin {"join_rtask", "end_runner"})
        /\ l # "count_rtask" /\ (l # "poll" => Unfinished(a) = 0)
        /\ (f = flags[a] \/ (flags[a] = "running" /\ f = "done"))
    BY <1>1, <1>3, <1>6, <1>7, <1>8
  <1>12. pipe' = pipe /\ dispatched' = dispatched /\ called' = called
    BY <1>1
  <1>. QED  BY <1>10, <1>11, <1>12, RunnerStep

LEMMA JoinWorkStep ==
  ASSUME Inv, NEW t \in Threads, NEW a \in Asyncs, JoinWork(t, a)
  PROVE  Inv'
  <1>1. /\ At(t, "join_rtask", a) /\ Goto(t, "end_runner", a)
        /\ flags' = flags /\ run_count' = run_count /\ pipe' = pipe
        /\ dispatched' = dispatched /\ called' = called
    BY DEF JoinWork
  <1>2. "join_rtask" \in RunnerLabels /\ "end_runner" \in RunnerLabels
    BY DEF RunnerLabels
  <1>3. flags[a] # "running" /\ Unfinished(a) = 0
    <2>1. flags[a] = "running" <=> "join_rtask" \notin {"join_rtask", "end_runner"}
      BY <1>1, <1>2, RunnerAt
    <2>2. Unfinished(a) = 0
      <3>1. PICK l \in RunnerLabels : l = "join_rtask"
        BY <1>2
      <3>2. At(t, l, a)
        BY <1>1, <3>1
      <3>3. l \notin {"count_rtask", "poll"} => Unfinished(a) = 0
        BY <3>2, RunnerAt
      <3>. QED  BY <3>1, <3>3
    <2>. QED  BY <2>1, <2>2
  <1>4. run_count[<<a, "rtask">>] = Unfinished(a)
    BY <1>1, <1>2, CountIsLeft
  <1>. QED  BY <1>1, <1>2, <1>3, <1>4, SameCount, SameFlags, RunnerStep

LEMMA EndRunnerStep ==
  ASSUME Inv, NEW t \in Threads, NEW a \in Asyncs, EndRunner(t, a)
  PROVE  Inv'
  <1>1. /\ At(t, "end_runner", a) /\ Finished("atask", a) /\ Return(t)
        /\ flags' = flags /\ pipe' = pipe /\ dispatched' = dispatched /\ called' = called
    BY DEF EndRunner
  <1>2. PICK l \in RunnerLabels : l = "end_runner"
    BY DEF RunnerLabels
  <1>3. At(t, l, a) /\ l \in TaskLabels
    BY <1>1, <1>2, LabelSets
  <1>4. Typed /\ Shape /\ Sound(a) /\ "rtask" \in Kinds /\ "atask" \in Kinds /\ "rtask" # "atask"
    BY DEF Inv, Kinds
  <1>5. /\ (stack \in [Threads -> Seq(Frames)])'
        /\ Shape'
        /\ \A u \in Threads, m \in TaskLabels, c \in Asyncs :
             At(u, m, c)' <=> u # t /\ At(u, m, c)
        /\ \A m \in CallLabels, c \in Asyncs : Calls(m, c)' <=> Calls(m, c)
    BY <1>1, <1>3, <1>4, TaskGone
  <1>6. RunnerRuns(a) /\ ~RunnerWaits(a) /\ ~Calls("add", a)
    BY <1>3, RunnerAt
  <1>7. Unfinished(a) = 0 /\ flags[a] # "running"
    <2>1. l \notin {"count_rtask", "poll"} => Unfinished(a) = 0
      BY <1>3, RunnerAt
    <2>2. flags[a] = "running" <=> l \notin {"join_rtask", "end_runner"}
      BY <1>3, RunnerAt
    <2>. QED  BY <1>2, <2>1, <2>2
  <1>8. \A u \in Threads, m \in RunnerLabels : At(u, m, a) <=> u = t /\ m = l
    BY <1>3, RunnerAt
  <1>9. \A u \in Threads, m \in RunnerLabels : ~At(u, m, a)'
    BY <1>5, <1>8, LabelSets
  <1>10. \A b \in Asyncs : b # a =>
           \A u \in Threads, m \in TaskLabels : At(u, m, b)' <=> At(u, m, b)
    <2>1. \A m, b : At(t, m, b) => b = a
      BY <1>3, AtOne
    <2>. QED  BY <1>5, <2>1
  <1>11. Working(a)' = Working(a)
    <2>1. ~At(t, "work", a)
      BY <1>1, AtOne
    <2>2. \A u \in Threads : At(u, "work", a)' <=> At(u, "work", a)
      BY <1>5, <2>1, LabelSets
    <2>. QED  BY <2>2, SameWork
  <1>12. run_count[<<a, "atask">>] \in Int
    BY <1>4, CountType
  <1>13. /\ run_count' \in [Asyncs \X Kinds -> Int]
         /\ run_count'[<<a, "atask">>] = run_count[<<a, "atask">>] - 1
         /\ \A j \in Kinds, b \in Asyncs :
              j # "atask" \/ b # a => run_count'[<<b, j>>] = run_count[<<b, j>>]
    <2>1. PICK n \in Int : n = run_count[<<a, "atask">>] - 1
      BY <1>12
    <2>2. run_count' = [run_count EXCEPT ![<<a, "atask">>] = n]
      BY <1>1, <2>1 DEF Finished
    <2>. QED  BY <1>4, <2>1, <2>2, CountSet
  <1>14. Typed'
    BY PipesSame, <1>1, <1>4, <1>5, <1>13 DEF Typed
  <1>15. \A b \in Asyncs : b # a => Same(b)
    BY PipesSame, <1>1, <1>4, <1>5, <1>10, <1>13 DEF Same
  <1>16. (RunnerWaits(a)' <=> RunnerWaits(a)) /\ Waiting(a)' = Waiting(a)
    BY <1>1, <1>4, PipesSame, SameRunner, SamePieces
  <1>17. ~RunnerRuns(a)' /\ ~Counting(a)'
    BY <1>9 DEF RunnerRuns, Counting, RunnerLabels
  <1>18. Unfinished(a)' = Unfinished(a)
    BY <1>11, <1>16 DEF Unfinished
  <1>19. OneRunner(a)'
    BY PipesSame, <1>1, <1>4, <1>9, <1>17 DEF Sound, OneRunner
  <1>20. Counts(a)'
    <2>1. Calls("count", a)' <=> Calls("count", a)
      BY <1>5 DEF CallLabels
    <2>2. run_count[<<a, "atask">>] = 1 - (IF Calls("count", a) THEN 2 ELSE 0)
      BY <1>4, <1>6 DEF Sound, Counts
    <2>3. run_count'[<<a, "atask">>] = 0 - (IF Calls("count", a)' THEN 2 ELSE 0)
      BY <1>13, <2>1, <2>2
    <2>4. run_count[<<a, "rtask">>] = Unfinished(a)
      BY <1>2, <1>3, CountIsLeft
    <2>5. run_count'[<<a, "rtask">>] = Unfinished(a)'
      BY <1>4, <1>13, <1>18, <2>4
    <2>6. Unfinished(a)' <= Parts
      BY <1>4, <1>18 DEF Sound, Counts
    <2>7. Unfinished(a)' \in Int
      BY <1>18, UnfinishedNat
    <2>8. run_count'[<<a, "rtask">>] = Unfinished(a)' - (IF Counting(a)' THEN Parts + 1 ELSE 0)
      BY <1>17, <2>5, <2>7
    <2>9. run_count'[<<a, "atask">>] = (IF RunnerWaits(a)' \/ RunnerRuns(a)' THEN 1 ELSE 0)
                                         - (IF Calls("count", a)' THEN 2 ELSE 0)
      BY <1>6, <1>16, <1>17, <2>3
    <2>. QED  BY <2>6, <2>8, <2>9 DEF Counts
  <1>21. RunnerFlags(a)'
    BY <1>6, <1>7, <1>9, <1>16, <1>18 DEF RunnerFlags
  <1>22. CallFlags(a)'
    BY <1>1, <1>4, <1>5, <1>6, <1>16, <1>17 DEF Sound, CallFlags, CallLabels
  <1>23. Called(a)'
    BY <1>1, <1>4, <1>5 DEF Sound, Called, CallLabels
  <1>. QED  BY <1>5, <1>14, <1>15, <1>19, <1>20, <1>21, <1>22, <1>23, Step DEF Sound

LEMMA WorkStep ==
  ASSUME Inv, NEW t \in Threads, NEW a \in Asyncs, Work(t, a)
  PROVE  Inv'
  <1>1. /\ At(t, "work", a) /\ Finished("rtask", a) /\ Return(t)
        /\ flags' = flags /\ pipe' = pipe /\ dispatched' = dispatched /\ called' = called
    BY DEF Work
  <1>2. Typed /\ Shape /\ Sound(a) /\ "rtask" \in Kinds /\ "atask" \in Kinds /\ "rtask" # "atask"
    BY DEF Inv, Kinds
  <1>3. /\ (stack \in [Threads -> Seq(Frames)])'
        /\ Shape'
        /\ \A u \in Threads, m \in TaskLabels, c \in Asyncs :
             At(u, m, c)' <=> u # t /\ At(u, m, c)
        /\ \A m \in CallLabels, c \in Asyncs : Calls(m, c)' <=> Calls(m, c)
    BY <1>1, <1>2, LabelSets, TaskGone
  <1>4. \A m, b : At(t, m, b) => m = "work" /\ b = a
    BY <1>1, AtOne
  <1>5. \A b \in Asyncs : b # a =>
          \A u \in Threads, m \in TaskLabels : At(u, m, b)' <=> At(u, m, b)
    BY <1>3, <1>4
  <1>6. \A u \in Threads, m \in RunnerLabels : At(u, m, a)' <=> At(u, m, a)
    BY <1>3, <1>4, LabelSets
  <1>7. run_count[<<a, "rtask">>] \in Int
    BY <1>2, CountType
  <1>8. /\ run_count' \in [Asyncs \X Kinds -> Int]
        /\ run_count'[<<a, "rtask">>] = run_count[<<a, "rtask">>] - 1
        /\ \A j \in Kinds, b \in Asyncs :
             j # "rtask" \/ b # a => run_count'[<<b, j>>] = run_count[<<b, j>>]
    <2>1. PICK n \in Int : n = run_count[<<a, "rtask">>] - 1
      BY <1>7
    <2>2. run_count' = [run_count EXCEPT ![<<a, "rtask">>] = n]
      BY <1>1, <2>1 DEF Finished
    <2>. QED  BY <1>2, <2>1, <2>2, CountSet
  <1>9. Typed'
    BY PipesSame, <1>1, <1>2, <1>3, <1>8 DEF Typed
  <1>10. \A b \in Asyncs : b # a => Same(b)
    BY PipesSame, <1>1, <1>2, <1>3, <1>5, <1>8 DEF Same
  <1>11. (RunnerWaits(a)' <=> RunnerWaits(a)) /\ Waiting(a)' = Waiting(a)
    BY <1>1, <1>2, PipesSame, SameRunner, SamePieces
  <1>12. (RunnerRuns(a)' <=> RunnerRuns(a)) /\ (Counting(a)' <=> Counting(a))
    BY <1>6 DEF RunnerRuns, Counting, RunnerLabels
  <1>13. Unfinished(a)' = Unfinished(a) - 1 /\ Unfinished(a) \in Nat
    <2>1. Working(a)' = Working(a) \ {t} /\ t \in Working(a)
      BY <1>1, <1>3, LabelSets DEF Working
    <2>2. Cardinality(Working(a)') = Cardinality(Working(a)) - 1
      BY <2>1, FiniteParts, FS_RemoveElement
    <2>3. Cardinality(Working(a)) \in Nat /\ Cardinality(Waiting(a)) \in Nat
      BY FiniteParts
    <2>. QED  BY <1>11, <2>2, <2>3 DEF Unfinished
  <1>14. OneRunner(a)'
    BY PipesSame, <1>1, <1>2, <1>6, <1>11, <1>12 DEF Sound, OneRunner
  <1>15. Counts(a)'
    <2>1. Calls("count", a)' <=> Calls("count", a)
      BY <1>3 DEF CallLabels
    <2>2. run_count[<<a, "atask">>] = (IF RunnerWaits(a) \/ RunnerRuns(a) THEN 1 ELSE 0)
                                        - (IF Calls("count", a) THEN 2 ELSE 0)
      BY <1>2 DEF Sound, Counts
    <2>3. run_count'[<<a, "atask">>] = run_count[<<a, "atask">>]
      BY <1>2, <1>8
    <2>4. run_count'[<<a, "atask">>] = (IF RunnerWaits(a)' \/ RunnerRuns(a)' THEN 1 ELSE 0)
                                         - (IF Calls("count", a)' THEN 2 ELSE 0)
      BY <1>11, <1>12, <2>1, <2>2, <2>3
    <2>5. run_count[<<a, "rtask">>] = Unfinished(a) - (IF Counting(a) THEN Parts + 1 ELSE 0)
      BY <1>2 DEF Sound, Counts
    <2>6. run_count'[<<a, "rtask">>] = Unfinished(a)' - (IF Counting(a)' THEN Parts + 1 ELSE 0)
      BY <1>8, <1>12, <1>13, <2>5, PartsNat
    <2>7. Unfinished(a)' <= Parts
      BY <1>2, <1>13, PartsNat DEF Sound, Counts
    <2>. QED  BY <2>4, <2>6, <2>7 DEF Counts
  <1>16. RunnerFlags(a)'
    <2>1. Unfinished(a)' # 0 => \E u \in Threads : At(u, "count_rtask", a) \/ At(u, "poll", a)
      <3>1. t \in Working(a)
        BY <1>1 DEF Working
      <3>2. Unfinished(a) # 0
        BY <3>1, UnfinishedNat
      <3>. QED  BY <1>2, <3>2 DEF Sound, RunnerFlags
    <2>2. Unfinished(a)' # 0 => \E u \in Threads : At(u, "count_rtask", a)' \/ At(u, "poll", a)'
      BY <1>6, <2>1 DEF RunnerLabels
    <2>3. \A u \in Threads, l \in RunnerLabels : At(u, l, a)' =>
            (flags[a] = "running" <=> l \notin {"join_rtask", "end_runner"})
      BY <1>2, <1>6 DEF Sound, RunnerFlags
    <2>4. RunnerWaits(a)' => flags[a] = "running"
      BY <1>2, <1>11 DEF Sound, RunnerFlags
    <2>. QED  BY <1>1, <2>2, <2>3, <2>4 DEF RunnerFlags
  <1>17. CallFlags(a)'
    BY <1>1, <1>2, <1>3, <1>11, <1>12 DEF Sound, CallFlags, CallLabels
  <1>18. Called(a)'
    BY <1>1, <1>2, <1>3 DEF Sound, Called, CallLabels
  <1>. QED  BY <1>3, <1>9, <1>10, <1>14, <1>15, <1>16, <1>17, <1>18, Step DEF Sound
-----------------------------------------------------------------------------
(* Taking a piece. *)

\* The join in the runner never waits, so only idle workers take pieces, and
\* the main thread in the join that ends finish().
LEMMA LooksIdle ==
  ASSUME Inv, NEW t \in Threads, Looks(t)
  PROVE  Idle(t)
  <1>1. CASE t # Main /\ stack[t] = <<>>
    BY <1>1 DEF Idle
  <1>2. ASSUME NEW a \in Asyncs, At(t, "join_rtask", a), run_count[<<a, "rtask">>] # 0
        PROVE  Idle(t)
    <2>1. PICK l \in RunnerLabels : l = "join_rtask"
      BY DEF RunnerLabels
    <2>2. At(t, l, a) /\ l # "count_rtask" /\ l # "poll"
      BY <1>2, <2>1
    <2>3. run_count[<<a, "rtask">>] = Unfinished(a)
      BY <2>2, CountIsLeft
    <2>4. l \notin {"count_rtask", "poll"} => Unfinished(a) = 0
      BY <2>2, RunnerAt
    <2>. QED  BY <1>2, <2>2, <2>3, <2>4
  <1>3. ASSUME NEW a \in Asyncs, At(t, "join_atask", a)
        PROVE  Idle(t)
    <2>1. "join_atask" \in CallLabels /\ Shape
      BY DEF CallLabels, Inv
    <2>2. t = Main /\ stack[Main] = <<Frame("join_atask", a)>>
      BY <1>3, <2>1, InCallOnly
    <2>. QED  BY <2>2 DEF Idle
  <1>. QED  BY <1>1, <1>2, <1>3 DEF Looks

LEMMA TakeRunner ==
  ASSUME Inv, NEW t \in Threads, Idle(t), NEW s \in Threads, NEW a \in Asyncs,
         NEW n \in Places, Has(s, "atask", a, n),
         pipe' = [pipe EXCEPT ![s] = @ \ {PieceAt("atask", a, n)}],
         Push(t, "add_rtask", a),
         flags' = flags, run_count' = run_count, dispatched' = dispatched, called' = called
  PROVE  Inv'
  <1>1. Typed /\ Shape /\ Sound(a) /\ "rtask" \in Kinds /\ "atask" \in Kinds /\ "rtask" # "atask"
    BY DEF Inv, Kinds
  <1>2. "add_rtask" \in RunnerLabels /\ "add_rtask" \in TaskLabels
    BY LabelSets DEF RunnerLabels
  <1>3. /\ (stack \in [Threads -> Seq(Frames)])'
        /\ Shape'
        /\ \A u \in Threads, m \in TaskLabels, c \in Asyncs :
             At(u, m, c)' <=> IF u = t THEN m = "add_rtask" /\ c = a ELSE At(u, m, c)
        /\ \A m \in CallLabels, c \in Asyncs : Calls(m, c)' <=> Calls(m, c)
        /\ \A m \in TaskLabels, c \in Asyncs : ~At(t, m, c)
    BY <1>1, <1>2, TaskPush
  <1>4. /\ (pipe \in [Threads -> SUBSET Recent])'
        /\ \A u \in Threads, j \in Kinds, b \in Asyncs, m \in Places :
             Has(u, j, b, m)'
               <=> Has(u, j, b, m) /\ ~(u = s /\ j = "atask" /\ b = a /\ m = n)
    BY <1>1, TakeStep
  <1>5. RunnerWaits(a)
    BY DEF RunnerWaits
  <1>6. ~RunnerRuns(a) /\ flags[a] = "running"
    BY <1>1, <1>5 DEF Sound, OneRunner, RunnerFlags
  <1>7. \A u \in Threads, m \in RunnerLabels : ~At(u, m, a)
    BY <1>6 DEF RunnerRuns
  <1>8. Unfinished(a) = 0 /\ ~Counting(a)
    BY <1>1, <1>7 DEF Sound, RunnerFlags, RunnerLabels, Counting
  <1>9. \A u \in Threads, m \in RunnerLabels : At(u, m, a)' <=> u = t /\ m = "add_rtask"
    BY <1>3, <1>7, LabelSets
  <1>10. \A b \in Asyncs : b # a =>
           \A u \in Threads, m \in TaskLabels : At(u, m, b)' <=> At(u, m, b)
    BY <1>3
  <1>11. Working(a)' = Working(a)
    <2>1. "work" \in TaskLabels /\ "work" # "add_rtask"
      BY LabelSets
    <2>2. \A u \in Threads : At(u, "work", a)' <=> At(u, "work", a)
      BY <1>3, <2>1
    <2>. QED  BY <2>2, SameWork
  <1>12. Waiting(a)' = Waiting(a)
    <2>1. \A u \in Threads, m \in Places :
            Has(u, "rtask", a, m)' <=> Has(u, "rtask", a, m)
      BY <1>1, <1>4
    <2>. QED  BY <2>1, SamePieces
  <1>13. ~RunnerWaits(a)'
    <2>1. \A u \in Threads, m \in Places : Has(u, "atask", a, m) => u = s /\ m = n
      BY <1>1 DEF Sound, OneRunner
    <2>2. \A u \in Threads, m \in Places : ~Has(u, "atask", a, m)'
      BY <1>1, <1>4, <2>1
    <2>. QED  BY <2>2 DEF RunnerWaits
  <1>14. RunnerRuns(a)' /\ ~Counting(a)'
    BY <1>2, <1>9 DEF RunnerRuns, Counting, RunnerLabels
  <1>15. Unfinished(a)' = Unfinished(a)
    BY <1>11, <1>12 DEF Unfinished
  <1>16. Typed'
    BY <1>1, <1>3, <1>4 DEF Typed
  <1>17. \A b \in Asyncs : b # a => Same(b)
    BY <1>3, <1>4, <1>10 DEF Same
  <1>18. OneRunner(a)'
    BY <1>9, <1>13 DEF OneRunner, RunnerWaits
  <1>19. Counts(a)'
    <2>1. Calls("count", a)' <=> Calls("count", a)
      BY <1>3 DEF CallLabels
    <2>2. run_count[<<a, "atask">>] = (IF RunnerWaits(a)' \/ RunnerRuns(a)' THEN 1 ELSE 0)
                                        - (IF Calls("count", a)' THEN 2 ELSE 0)
      BY <1>1, <1>5, <1>14, <2>1 DEF Sound, Counts
    <2>3. run_count[<<a, "rtask">>] = Unfinished(a) - (IF Counting(a) THEN Parts + 1 ELSE 0)
      BY <1>1 DEF Sound, Counts
    <2>4. run_count[<<a, "rtask">>] = Unfinished(a)' - (IF Counting(a)' THEN Parts + 1 ELSE 0)
      BY <1>8, <1>14, <1>15, <2>3
    <2>5. Unfinished(a)' <= Parts
      BY <1>8, <1>15, PartsNat
    <2>. QED  BY <2>2, <2>4, <2>5 DEF Counts
  <1>20. RunnerFlags(a)'
    BY <1>6, <1>8, <1>9, <1>13, <1>15 DEF RunnerFlags
  <1>21. CallFlags(a)'
    <2>1. \A m \in CallLabels : Calls(m, a)' <=> Calls(m, a)
      BY <1>3
    <2>. QED  BY <1>1, <1>5, <1>6, <2>1 DEF Sound, CallFlags, CallLabels
  <1>22. Called(a)'
    BY <1>1, <1>3 DEF Sound, Called, CallLabels
  <1>. QED  BY <1>3, <1>16, <1>17, <1>18, <1>19, <1>20, <1>21, <1>22, Step DEF Sound

LEMMA TakeWork ==
  ASSUME Inv, NEW t \in Threads, Idle(t), NEW s \in Threads, NEW a \in Asyncs,
         NEW n \in Places, Has(s, "rtask", a, n),
         pipe' = [pipe EXCEPT ![s] = @ \ {PieceAt("rtask", a, n)}],
         Push(t, "work", a),
         flags' = flags, run_count' = run_count, dispatched' = dispatched, called' = called
  PROVE  Inv'
  <1>1. Typed /\ Shape /\ Sound(a) /\ "rtask" \in Kinds /\ "atask" \in Kinds /\ "rtask" # "atask"
    BY DEF Inv, Kinds
  <1>2. "work" \in TaskLabels
    BY LabelSets
  <1>3. /\ (stack \in [Threads -> Seq(Frames)])'
        /\ Shape'
        /\ \A u \in Threads, m \in TaskLabels, c \in Asyncs :
             At(u, m, c)' <=> IF u = t THEN m = "work" /\ c = a ELSE At(u, m, c)
        /\ \A m \in CallLabels, c \in Asyncs : Calls(m, c)' <=> Calls(m, c)
        /\ \A m \in TaskLabels, c \in Asyncs : ~At(t, m, c)
    BY <1>1, <1>2, TaskPush
  <1>4. /\ (pipe \in [Threads -> SUBSET Recent])'
        /\ \A u \in Threads, j \in Kinds, b \in Asyncs, m \in Places :
             Has(u, j, b, m)'
               <=> Has(u, j, b, m) /\ ~(u = s /\ j = "rtask" /\ b = a /\ m = n)
    BY <1>1, TakeStep
  <1>5. \A u \in Threads, m \in RunnerLabels : At(u, m, a)' <=> At(u, m, a)
    BY <1>3, LabelSets
  <1>6. \A b \in Asyncs : b # a =>
          \A u \in Threads, m \in TaskLabels : At(u, m, b)' <=> At(u, m, b)
    BY <1>3
  <1>7. (RunnerRuns(a)' <=> RunnerRuns(a)) /\ (Counting(a)' <=> Counting(a))
    BY <1>5 DEF RunnerRuns, Counting, RunnerLabels
  <1>8. \A u \in Threads, m \in Places :
          Has(u, "atask", a, m)' <=> Has(u, "atask", a, m)
    BY <1>1, <1>4
  <1>9. RunnerWaits(a)' <=> RunnerWaits(a)
    BY <1>8, SameRunner
  <1>10. Unfinished(a)' = Unfinished(a)
    <2>1. Working(a)' = Working(a) \cup {t} /\ t \notin Working(a)
      BY <1>2, <1>3 DEF Working
    <2>2. <<s, n>> \in Waiting(a)
      BY WaitingHas
    <2>3. \A u \in Threads, m \in Places :
            Has(u, "rtask", a, m)'
              <=> Has(u, "rtask", a, m) /\ <<u, m>> # <<s, n>>
      BY <1>1, <1>4
    <2>4. Waiting(a)' = Waiting(a) \ {<<s, n>>}
      BY <2>3 DEF Waiting
    <2>5. Cardinality(Working(a)') = Cardinality(Working(a)) + 1
      BY <2>1, FiniteParts, FS_AddElement
    <2>6. Cardinality(Waiting(a)') = Cardinality(Waiting(a)) - 1
      BY <2>2, <2>4, FiniteParts, FS_RemoveElement
    <2>7. Cardinality(Working(a)) \in Nat /\ Cardinality(Waiting(a)) \in Nat
      BY FiniteParts
    <2>. QED  BY <2>5, <2>6, <2>7 DEF Unfinished
  <1>11. Typed'
    BY <1>1, <1>3, <1>4 DEF Typed
  <1>12. \A b \in Asyncs : b # a => Same(b)
    BY <1>3, <1>4, <1>6 DEF Same
  <1>13. OneRunner(a)'
    <2>1. \A u, v \in Threads, l, m \in Places :
            Has(u, "atask", a, l)' /\ Has(v, "atask", a, m)' => u = v /\ l = m
      BY <1>1, <1>8 DEF Sound, OneRunner
    <2>. QED  BY <1>1, <1>5, <1>7, <1>9, <2>1 DEF Sound, OneRunner
  <1>14. Counts(a)'
    <2>1. Calls("count", a)' <=> Calls("count", a)
      BY <1>3 DEF CallLabels
    <2>. QED  BY <1>1, <1>7, <1>9, <1>10, <2>1 DEF Sound, Counts
  <1>15. RunnerFlags(a)'
    <2>1. Unfinished(a)' # 0 => \E u \in Threads : At(u, "count_rtask", a)' \/ At(u, "poll", a)'
      BY <1>1, <1>5, <1>10 DEF Sound, RunnerFlags, RunnerLabels
    <2>2. \A u \in Threads, l \in RunnerLabels : At(u, l, a)' =>
            (flags[a] = "running" <=> l \notin {"join_rtask", "end_runner"})
      BY <1>1, <1>5 DEF Sound, RunnerFlags
    <2>3. RunnerWaits(a)' => flags[a] = "running"
      BY <1>1, <1>9 DEF Sound, RunnerFlags
    <2>. QED  BY <2>1, <2>2, <2>3 DEF RunnerFlags
  <1>16. CallFlags(a)'
    <2>1. \A m \in CallLabels : Calls(m, a)' <=> Calls(m, a)
      BY <1>3
    <2>. QED  BY <1>1, <1>7, <1>9, <2>1 DEF Sound, CallFlags, CallLabels
  <1>17. Called(a)'
    BY <1>1, <1>3 DEF Sound, Called, CallLabels
  <1>. QED  BY <1>3, <1>11, <1>12, <1>13, <1>14, <1>15, <1>16, <1>17, Step DEF Sound

\* No piece is larger than what is executed at once.
LEMMA WholePieces ==
  ASSUME NeverSplit, NEW k \in Kinds, NEW a, NEW n \in Places
  PROVE  ~(PieceAt(k, a, n).end - PieceAt(k, a, n).start > RangeToRun(k))
  <1>1. PICK m, r, q \in Nat : m = TaskSize[k] /\ r = RangeToSplit(k) /\ q = RangeToRun(k)
    BY Ranges, AsyncAssumption
  <1>2. PieceAt(k, a, n).start = n /\ PieceAt(k, a, n).end = SmallerOf(n + r, m) /\ n \in Nat
    BY <1>1, AsyncAssumption DEF PieceAt, Piece, Places
  <1>3. CASE k = "rtask"
    <2>1. r <= q
      BY <1>1, <1>3 DEF NeverSplit
    <2>. QED  BY <1>1, <1>2, <2>1 DEF SmallerOf
  <1>4. CASE k = "atask"
    <2>1. m = 1 /\ q >= 1
      BY <1>1, <1>4, Ranges
    <2>. QED  BY <1>1, <1>2, <2>1 DEF SmallerOf
  <1>. QED  BY <1>3, <1>4 DEF Kinds

LEMMA TakeAny ==
  ASSUME NeverSplit, Inv, NEW t \in Threads, Take(t)
  PROVE  Inv'
  <1>1. /\ flags' = flags /\ run_count' = run_count
        /\ dispatched' = dispatched /\ called' = called /\ Idle(t)
    BY LooksIdle DEF Take
  <1>2. PICK s \in Threads : \E p \in pipe[s] : Run(t, s, p) \/ Split(t, s, p)
    BY DEF Take
  <1>3. PICK p \in pipe[s] : Run(t, s, p) \/ Split(t, s, p)
    BY <1>2
  <1>4. PICK k \in Kinds, a \in Asyncs, n \in Places :
          p = PieceAt(k, a, n) /\ p.kind = k /\ p.async = a /\ Has(s, k, a, n)
    BY <1>2, <1>3, PieceForm DEF Inv
  <1>5. pipe' = [pipe EXCEPT ![s] = @ \ {PieceAt(k, a, n)}] /\ Push(t, Body(k), a)
    BY <1>3, <1>4, WholePieces DEF Run, Split
  <1>6. CASE k = "atask"
    BY <1>1, <1>2, <1>4, <1>5, <1>6, TakeRunner DEF Body
  <1>7. CASE k = "rtask"
    BY <1>1, <1>2, <1>4, <1>5, <1>7, TakeWork DEF Body
  <1>. QED  BY <1>4, <1>6, <1>7 DEF Kinds
-----------------------------------------------------------------------------
(* The program's calls. *)

\* What a call that leaves the pipes alone leaves alone.
LEMMA Quiet ==
  ASSUME Inv, NEW a \in Asyncs,
         \A t \in Threads, k \in Kinds, n \in Places : Has(t, k, a, n)' <=> Has(t, k, a, n),
         \A u \in Threads, m \in TaskLabels : At(u, m, a)' <=> At(u, m, a)
  PROVE  /\ RunnerWaits(a)' <=> RunnerWaits(a)
         /\ RunnerRuns(a)' <=> RunnerRuns(a)
         /\ Counting(a)' <=> Counting(a)
         /\ Unfinished(a)' = Unfinished(a)
         /\ OneRunner(a)'
         /\ (Unfinished(a)' # 0 => \E t \in Threads : At(t, "count_rtask", a)' \/ At(t, "poll", a)')
  <1>1. \A u \in Threads, m \in RunnerLabels : At(u, m, a)' <=> At(u, m, a)
    BY LabelSets
  <1>2. (RunnerWaits(a)' <=> RunnerWaits(a)) /\ Waiting(a)' = Waiting(a)
    BY SameRunner, SamePieces DEF Kinds
  <1>3. (RunnerRuns(a)' <=> RunnerRuns(a)) /\ (Counting(a)' <=> Counting(a))
    BY <1>1 DEF RunnerRuns, Counting, RunnerLabels
  <1>4. Working(a)' = Working(a)
    BY SameWork, LabelSets
  <1>5. Unfinished(a)' = Unfinished(a)
    BY <1>2, <1>4 DEF Unfinished
  <1>6. OneRunner(a)'
    <2>1. OneRunner(a)
      BY DEF Inv, Sound
    <2>. QED  BY <1>1, <1>2, <1>3, <2>1 DEF OneRunner, Kinds
  <1>7. Unfinished(a)' # 0 => \E t \in Threads : At(t, "count_rtask", a)' \/ At(t, "poll", a)'
    <2>1. RunnerFlags(a)
      BY DEF Inv, Sound
    <2>. QED  BY <1>1, <1>5, <2>1 DEF RunnerFlags, RunnerLabels
  <1>. QED  BY <1>2, <1>3, <1>5, <1>6, <1>7

\* A call that dispatches or finishes a: the flags change, the counts do not.
LEMMA FlagsCall ==
  ASSUME Inv, NEW a \in Asyncs, pipe' = pipe, run_count' = run_count,
         NEW f \in {"none", "running", "done"}, flags' = [flags EXCEPT ![a] = f],
         NEW l \in CallLabels, l # "count", \A c \in Asyncs : ~Calls("count", c),
         stack' = [stack EXCEPT ![Main] = <<Frame(l, a)>>],
         \/ stack[Main] = <<>>
         \/ \E k \in CallLabels : stack[Main] = <<Frame(k, a)>>,
         dispatched'[a] = dispatched[a] \/ (~RunnerWaits(a) /\ Waiting(a) = {}),
         dispatched' \in [Asyncs -> 0 .. MaxDispatch], called' \in [Asyncs -> Nat],
         \A b \in Asyncs : b # a => dispatched'[b] = dispatched[b] /\ called'[b] = called[b],
         RunnerWaits(a) => f = "running",
         \A t \in Threads, m \in RunnerLabels : At(t, m, a) =>
           (f = "running" <=> m \notin {"join_rtask", "end_runner"}),
         l = "add" => f = "running" /\ ~RunnerWaits(a) /\ ~RunnerRuns(a),
         l = "callback" => f = "done",
         l = "join_atask" => f = "none",
         f = "none" => l = "join_atask",
         called'[a] + (IF f = "none" \/ l = "callback" THEN 0 ELSE 1) = dispatched'[a]
  PROVE  Inv'
  <1>1. Typed /\ Shape /\ Sound(a)
    BY DEF Inv
  <1>2. /\ (stack \in [Threads -> Seq(Frames)])'
        /\ Shape'
        /\ \A u \in Threads, m \in TaskLabels, c \in Asyncs : At(u, m, c)' <=> At(u, m, c)
        /\ \A m, c : Calls(m, c)' <=> CallIn(<<Frame(l, a)>>, m, c)
    <2>1. PICK s : s = <<Frame(l, a)>>
      OBVIOUS
    <2>2. stack' = [stack EXCEPT ![Main] = s]
          /\ \E k \in CallLabels, b \in Asyncs : s = <<Frame(k, b)>>
      BY <2>1
    <2>. QED  BY <1>1, <2>1, <2>2, CallStep
  <1>3. \A m \in CallLabels, c \in Asyncs : Calls(m, c)' <=> m = l /\ c = a
    BY <1>2, CallsIn
  <1>4. \A m \in CallLabels, c \in Asyncs : c # a => ~Calls(m, c)
    BY CallsNone, CallsOne
  <1>0. /\ (pipe \in [Threads -> SUBSET Recent])'
        /\ \A t \in Threads, k \in Kinds, b \in Asyncs, n \in Places :
             Has(t, k, b, n)' <=> Has(t, k, b, n)
    BY <1>1, PipesKept
  <1>5. /\ RunnerWaits(a)' <=> RunnerWaits(a)
        /\ RunnerRuns(a)' <=> RunnerRuns(a)
        /\ Counting(a)' <=> Counting(a)
        /\ Unfinished(a)' = Unfinished(a)
        /\ OneRunner(a)'
        /\ (Unfinished(a)' # 0 => \E t \in Threads : At(t, "count_rtask", a)' \/ At(t, "poll", a)')
    BY <1>0, <1>2, Quiet
  <1>6. flags' \in [Asyncs -> {"none", "running", "done"}] /\ flags'[a] = f
        /\ \A b \in Asyncs : b # a => flags'[b] = flags[b]
    BY <1>1 DEF Typed
  <1>7. Typed'
    BY <1>0, <1>1, <1>2, <1>6 DEF Typed
  <1>8. \A b \in Asyncs : b # a => Same(b)
    BY <1>0, <1>2, <1>3, <1>4, <1>6 DEF Same
  <1>9. Counts(a)'
    <2>1. ~Calls("count", a)' /\ ~Calls("count", a)
      BY <1>3 DEF CallLabels
    <2>. QED  BY <1>1, <1>5, <2>1 DEF Sound, Counts
  <1>10. RunnerFlags(a)'
    <2>1. \A t \in Threads, m \in RunnerLabels : At(t, m, a)' =>
            (flags'[a] = "running" <=> m \notin {"join_rtask", "end_runner"})
      BY <1>2, <1>6, LabelSets
    <2>. QED  BY <1>5, <1>6, <2>1 DEF RunnerFlags
  <1>11. CallFlags(a)'
    BY <1>3, <1>5, <1>6 DEF CallFlags, CallLabels
  <1>12. Called(a)'
    <2>1. Calls("callback", a)' <=> l = "callback"
      BY <1>3 DEF CallLabels
    <2>. QED  BY <1>6, <2>1 DEF Called
  <1>. QED  BY <1>2, <1>5, <1>7, <1>8, <1>9, <1>10, <1>11, <1>12, Step DEF Sound

LEMMA DispatchStep ==
  ASSUME Client = "finishes", Inv, NEW a \in Asyncs, Dispatch(a)
  PROVE  Inv'
  <1>1. /\ dispatched[a] < MaxDispatch /\ stack[Main] = <<>> /\ flags[a] = "none"
        /\ flags' = [flags EXCEPT ![a] = "running"]
        /\ dispatched' = [dispatched EXCEPT ![a] = @ + 1]
        /\ run_count' = run_count /\ pipe' = pipe /\ called' = called
    BY DEF Dispatch, MayDispatch
  <1>2. stack' = [stack EXCEPT ![Main] = <<Frame("add", a)>>]
    BY <1>1, Stacks DEF Dispatch, Push
  <1>3. Typed /\ Sound(a)
    BY DEF Inv
  <1>4. \A m \in CallLabels, c \in Asyncs : ~Calls(m, c)
    BY <1>1, CallsNone
  <1>5. ~RunnerWaits(a) /\ ~RunnerRuns(a)
    BY <1>1, <1>3, <1>4 DEF Sound, CallFlags, CallLabels
  <1>6. /\ dispatched' \in [Asyncs -> 0 .. MaxDispatch]
        /\ dispatched'[a] = dispatched[a] + 1
        /\ \A b \in Asyncs : b # a => dispatched'[b] = dispatched[b]
    BY <1>1, <1>3, AsyncAssumption DEF Typed
  <1>7. called'[a] + 1 = dispatched'[a]
    BY <1>1, <1>3, <1>6 DEF Sound, Called, Typed
  <1>8. PICK f \in {"none", "running", "done"} : f = "running"
    OBVIOUS
  <1>9. PICK l \in CallLabels : l = "add"
    BY DEF CallLabels
  <1>10. \A t \in Threads, m \in RunnerLabels : ~At(t, m, a)
    BY <1>5 DEF RunnerRuns
  <1>11. /\ flags' = [flags EXCEPT ![a] = f] /\ stack' = [stack EXCEPT ![Main] = <<Frame(l, a)>>]
         /\ l # "count" /\ \A c \in Asyncs : ~Calls("count", c)
    BY <1>1, <1>2, <1>4, <1>8, <1>9 DEF CallLabels
  <1>12. called'[a] + (IF f = "none" \/ l = "callback" THEN 0 ELSE 1) = dispatched'[a]
    BY <1>7, <1>8, <1>9
  <1>13. called' \in [Asyncs -> Nat] /\ \A b \in Asyncs : called'[b] = called[b]
    BY <1>1, <1>3 DEF Typed
  <1>14. run_count' = run_count /\ pipe' = pipe /\ stack[Main] = <<>>
    BY <1>1
  <1>15. /\ l = "add" => f = "running" /\ ~RunnerWaits(a) /\ ~RunnerRuns(a)
         /\ l = "callback" => f = "done"
         /\ l = "join_atask" => f = "none"
         /\ f = "none" => l = "join_atask"
         /\ RunnerWaits(a) => f = "running"
    BY <1>5, <1>8, <1>9
  <1>16. ~RunnerWaits(a) /\ Waiting(a) = {}
    BY <1>3, <1>5, UnfinishedNat DEF Sound, RunnerFlags, RunnerRuns, RunnerLabels
  <1>. QED  BY <1>6, <1>10, <1>11, <1>12, <1>13, <1>14, <1>15, <1>16, FlagsCall

LEMMA FinishStep ==
  ASSUME Inv, NEW a \in Asyncs, Finish(a)
  PROVE  Inv'
  <1>1. /\ stack[Main] = <<>> /\ flags[a] = "done"
        /\ called' = [called EXCEPT ![a] = @ + 1]
        /\ flags' = flags /\ dispatched' = dispatched
        /\ run_count' = run_count /\ pipe' = pipe
    BY DEF Finish
  <1>2. stack' = [stack EXCEPT ![Main] = <<Frame("callback", a)>>]
    BY <1>1, Stacks DEF Finish, Push
  <1>3. Typed /\ Sound(a)
    BY DEF Inv
  <1>4. \A m \in CallLabels, c \in Asyncs : ~Calls(m, c)
    BY <1>1, CallsNone
  <1>5. /\ called' \in [Asyncs -> Nat] /\ called'[a] = called[a] + 1
        /\ \A b \in Asyncs : b # a => called'[b] = called[b]
    BY <1>1, <1>3 DEF Typed
  <1>6. called'[a] + 0 = dispatched'[a]
    <2>1. ~Calls("callback", a)
      BY <1>4 DEF CallLabels
    <2>2. called[a] + 1 = dispatched[a]
      BY <1>1, <1>3, <2>1 DEF Sound, Called
    <2>3. called[a] \in Nat
      BY <1>3 DEF Typed
    <2>. QED  BY <1>1, <1>5, <2>2, <2>3
  <1>7. PICK f \in {"none", "running", "done"} : f = "done"
    OBVIOUS
  <1>8. PICK l \in CallLabels : l = "callback"
    BY DEF CallLabels
  <1>9. ~RunnerWaits(a)
    BY <1>1, <1>3 DEF Sound, RunnerFlags
  <1>10. \A t \in Threads, m \in RunnerLabels : At(t, m, a) =>
           (f = "running" <=> m \notin {"join_rtask", "end_runner"})
    BY <1>1, <1>3, <1>7 DEF Sound, RunnerFlags
  <1>11. /\ flags' = [flags EXCEPT ![a] = f] /\ stack' = [stack EXCEPT ![Main] = <<Frame(l, a)>>]
         /\ l # "count" /\ \A c \in Asyncs : ~Calls("count", c)
    BY <1>1, <1>2, <1>3, <1>4, <1>7, <1>8 DEF CallLabels, Typed
  <1>12. called'[a] + (IF f = "none" \/ l = "callback" THEN 0 ELSE 1) = dispatched'[a]
    BY <1>6, <1>8
  <1>13. dispatched' \in [Asyncs -> 0 .. MaxDispatch]
         /\ \A b \in Asyncs : dispatched'[b] = dispatched[b]
    BY <1>1, <1>3 DEF Typed
  <1>14. run_count' = run_count /\ pipe' = pipe /\ stack[Main] = <<>>
    BY <1>1
  <1>15. /\ l = "add" => f = "running" /\ ~RunnerWaits(a) /\ ~RunnerRuns(a)
         /\ l = "callback" => f = "done"
         /\ l = "join_atask" => f = "none"
         /\ f = "none" => l = "join_atask"
         /\ RunnerWaits(a) => f = "running"
    BY <1>7, <1>8, <1>9
  <1>. QED  BY <1>5, <1>10, <1>11, <1>12, <1>13, <1>14, <1>15, FlagsCall

LEMMA ClearFlagsStep ==
  ASSUME Inv, NEW a \in Asyncs, ClearFlags(a)
  PROVE  Inv'
  <1>1. /\ At(Main, "callback", a) /\ Goto(Main, "join_atask", a)
        /\ flags' = [flags EXCEPT ![a] = "none"]
        /\ dispatched' = dispatched /\ called' = called
        /\ run_count' = run_count /\ pipe' = pipe
    BY DEF ClearFlags
  <1>2. Typed /\ Shape /\ Sound(a) /\ Main \in Threads
    BY MainIsThread DEF Inv
  <1>3. PICK k \in CallLabels : k = "callback"
    BY DEF CallLabels
  <1>4. stack[Main] = <<Frame(k, a)>>
    BY <1>1, <1>2, <1>3, InCallOnly
  <1>5. \A m \in CallLabels, c \in Asyncs : Calls(m, c) <=> m = k /\ c = a
    BY <1>4, CallsOne
  <1>6. flags[a] = "done" /\ Calls("callback", a)
    BY <1>2, <1>3, <1>5 DEF Sound, CallFlags
  <1>7. stack' = [stack EXCEPT ![Main] = <<Frame("join_atask", a)>>]
    <2>1. Tail(stack[Main]) = <<>>
      BY <1>4, Stacks
    <2>2. <<Frame("join_atask", a)>> \o <<>> = <<Frame("join_atask", a)>>
      BY Stacks
    <2>. QED  BY <1>1, <2>1, <2>2 DEF Goto
  <1>8. called[a] + 0 = dispatched[a]
    BY <1>2, <1>6 DEF Sound, Called
  <1>9. PICK f \in {"none", "running", "done"} : f = "none"
    OBVIOUS
  <1>10. PICK l \in CallLabels : l = "join_atask"
    BY DEF CallLabels
  <1>11. ~RunnerWaits(a)
    BY <1>2, <1>6 DEF Sound, RunnerFlags
  <1>12. \A t \in Threads, m \in RunnerLabels : At(t, m, a) =>
           (f = "running" <=> m \notin {"join_rtask", "end_runner"})
    BY <1>2, <1>6, <1>9 DEF Sound, RunnerFlags
  <1>13. /\ flags' = [flags EXCEPT ![a] = f] /\ stack' = [stack EXCEPT ![Main] = <<Frame(l, a)>>]
         /\ l # "count" /\ \A c \in Asyncs : ~Calls("count", c)
    BY <1>1, <1>3, <1>5, <1>7, <1>9, <1>10 DEF CallLabels
  <1>14. called'[a] + (IF f = "none" \/ l = "callback" THEN 0 ELSE 1) = dispatched'[a]
    BY <1>1, <1>8, <1>9
  <1>15. /\ dispatched' \in [Asyncs -> 0 .. MaxDispatch] /\ called' \in [Asyncs -> Nat]
         /\ \A b \in Asyncs : dispatched'[b] = dispatched[b] /\ called'[b] = called[b]
    BY <1>1, <1>2 DEF Typed
  <1>16. run_count' = run_count /\ pipe' = pipe /\ \E m \in CallLabels : stack[Main] = <<Frame(m, a)>>
    BY <1>1, <1>4
  <1>17. /\ l = "add" => f = "running" /\ ~RunnerWaits(a) /\ ~RunnerRuns(a)
         /\ l = "callback" => f = "done"
         /\ l = "join_atask" => f = "none"
         /\ f = "none" => l = "join_atask"
         /\ RunnerWaits(a) => f = "running"
    BY <1>9, <1>10, <1>11
  <1>. QED  BY <1>12, <1>13, <1>14, <1>15, <1>16, <1>17, FlagsCall

LEMMA JoinRunnerStep ==
  ASSUME Inv, NEW a \in Asyncs, JoinRunner(a)
  PROVE  Inv'
  <1>1. /\ At(Main, "join_atask", a) /\ run_count[<<a, "atask">>] = 0 /\ Return(Main)
        /\ flags' = flags /\ dispatched' = dispatched /\ called' = called
        /\ run_count' = run_count /\ pipe' = pipe
    BY DEF JoinRunner
  <1>2. Typed /\ Shape /\ Sound(a) /\ Main \in Threads
    BY MainIsThread DEF Inv
  <1>3. PICK k \in CallLabels : k = "join_atask"
    BY DEF CallLabels
  <1>4. stack[Main] = <<Frame(k, a)>>
    BY <1>1, <1>2, <1>3, InCallOnly
  <1>5. \A m \in CallLabels, c \in Asyncs : Calls(m, c) <=> m = k /\ c = a
    BY <1>4, CallsOne
  <1>6. ~Calls("count", a) /\ Calls("join_atask", a) /\ ~Calls("callback", a)
    BY <1>3, <1>5 DEF CallLabels
  <1>7. flags[a] = "none" /\ ~RunnerWaits(a) /\ ~RunnerRuns(a)
    BY <1>1, <1>2, <1>6 DEF Sound, CallFlags, Counts
  <1>8. /\ (stack \in [Threads -> Seq(Frames)])'
        /\ Shape'
        /\ \A u \in Threads, m \in TaskLabels, c \in Asyncs : At(u, m, c)' <=> At(u, m, c)
        /\ \A m, c : Calls(m, c)' <=> CallIn(<<>>, m, c)
    <2>1. stack' = [stack EXCEPT ![Main] = <<>>]
      BY <1>1, <1>4, Stacks DEF Return
    <2>. QED  BY <1>2, <1>4, <2>1, CallStep
  <1>9. \A m \in CallLabels, c \in Asyncs : ~Calls(m, c)'
    BY <1>8, CallsIn
  <1>10. /\ RunnerWaits(a)' <=> RunnerWaits(a)
         /\ RunnerRuns(a)' <=> RunnerRuns(a)
         /\ Counting(a)' <=> Counting(a)
         /\ Unfinished(a)' = Unfinished(a)
         /\ OneRunner(a)'
         /\ (Unfinished(a)' # 0 => \E t \in Threads : At(t, "count_rtask", a)' \/ At(t, "poll", a)')
    BY <1>1, <1>2, <1>8, PipesSame, Quiet
  <1>11. Typed'
    BY PipesSame, <1>1, <1>2, <1>8 DEF Typed
  <1>12. \A b \in Asyncs : b # a => Same(b)
    BY PipesSame, <1>1, <1>2, <1>5, <1>8, <1>9 DEF Same
  <1>13. Counts(a)'
    <2>1. ~Calls("count", a)'
      BY <1>9 DEF CallLabels
    <2>. QED  BY <1>1, <1>2, <1>6, <1>10, <2>1 DEF Sound, Counts
  <1>14. RunnerFlags(a)'
    <2>1. \A t \in Threads, m \in RunnerLabels : ~At(t, m, a)'
      BY <1>7, <1>8, LabelSets DEF RunnerRuns
    <2>. QED  BY <1>7, <1>10, <2>1 DEF RunnerFlags
  <1>15. CallFlags(a)'
    BY <1>7, <1>9, <1>10 DEF CallFlags, CallLabels
  <1>16. Called(a)'
    BY <1>1, <1>2, <1>7 DEF Sound, Called
  <1>. QED  BY <1>8, <1>10, <1>11, <1>12, <1>13, <1>14, <1>15, <1>16, Step DEF Sound

LEMMA AddRunnerStep ==
  ASSUME Inv, NEW a \in Asyncs, AddRunner(a)
  PROVE  Inv'
  <1>1. /\ At(Main, "add", a) /\ Add(Main, "atask", a) /\ Goto(Main, "count", a)
        /\ flags' = flags /\ dispatched' = dispatched /\ called' = called
    BY DEF AddRunner
  <1>2. /\ Typed /\ Shape /\ Sound(a) /\ Main \in Threads
        /\ "rtask" \in Kinds /\ "atask" \in Kinds /\ "rtask" # "atask"
    BY MainIsThread DEF Inv, Kinds
  <1>3. PICK k \in CallLabels : k = "add"
    BY DEF CallLabels
  <1>4. stack[Main] = <<Frame(k, a)>>
    BY <1>1, <1>2, <1>3, InCallOnly
  <1>5. \A m \in CallLabels, c \in Asyncs : Calls(m, c) <=> m = k /\ c = a
    BY <1>4, CallsOne
  <1>6. ~Calls("count", a) /\ Calls("add", a) /\ ~Calls("callback", a)
    BY <1>3, <1>5 DEF CallLabels
  <1>7. flags[a] = "running" /\ ~RunnerWaits(a) /\ ~RunnerRuns(a)
    BY <1>2, <1>6 DEF Sound, CallFlags
  <1>8. /\ (stack \in [Threads -> Seq(Frames)])'
        /\ Shape'
        /\ \A u \in Threads, m \in TaskLabels, c \in Asyncs : At(u, m, c)' <=> At(u, m, c)
        /\ \A m \in CallLabels, c \in Asyncs : Calls(m, c)' <=> m = "count" /\ c = a
    <2>1. Tail(stack[Main]) = <<>>
      BY <1>4, Stacks
    <2>2. <<Frame("count", a)>> \o <<>> = <<Frame("count", a)>>
      BY Stacks
    <2>3. stack' = [stack EXCEPT ![Main] = <<Frame("count", a)>>]
      BY <1>1, <2>1, <2>2 DEF Goto
    <2>4. PICK s : s = <<Frame("count", a)>>
      OBVIOUS
    <2>5. stack' = [stack EXCEPT ![Main] = s]
          /\ \E m \in CallLabels, b \in Asyncs : s = <<Frame(m, b)>>
      BY <2>3, <2>4 DEF CallLabels
    <2>6. /\ (stack \in [Threads -> Seq(Frames)])'
          /\ Shape'
          /\ \A u \in Threads, m \in TaskLabels, c \in Asyncs : At(u, m, c)' <=> At(u, m, c)
          /\ \A m, c : Calls(m, c)' <=> CallIn(s, m, c)
      BY <1>2, <1>4, <2>5, CallStep
    <2>. QED  BY <2>4, <2>6, CallsIn
  <1>9. AddedBy(Main, "atask", a)
    BY <1>1, <1>2, <1>7, DispatchedOnce, AddStep
  <1>10. \A u \in Threads, n \in Places : Has(u, "atask", a, n)' <=> u = Main /\ n = 0
    <2>1. \A u \in Threads, n \in Places : ~Has(u, "atask", a, n)
      BY <1>7 DEF RunnerWaits
    <2>. QED  BY <1>2, <1>9, <2>1, PartsNat DEF AddedBy
  <1>11. RunnerWaits(a)'
    BY <1>2, <1>10, PartsNat DEF RunnerWaits
  <1>12. \A u \in Threads, m \in RunnerLabels : ~At(u, m, a) /\ ~At(u, m, a)'
    BY <1>7, <1>8, LabelSets DEF RunnerRuns
  <1>13. ~RunnerRuns(a)' /\ ~Counting(a) /\ ~Counting(a)'
    BY <1>12 DEF RunnerRuns, Counting, RunnerLabels
  <1>14. Unfinished(a)' = Unfinished(a)
    <2>1. \A u \in Threads, n \in Places :
            Has(u, "rtask", a, n)' <=> Has(u, "rtask", a, n)
      BY <1>2, <1>9 DEF AddedBy
    <2>2. Waiting(a)' = Waiting(a) /\ Working(a)' = Working(a)
      BY <1>8, <2>1, SamePieces, SameWork, LabelSets
    <2>. QED  BY <2>2 DEF Unfinished
  <1>15. Typed'
    BY <1>1, <1>2, <1>8, <1>9 DEF Typed, AddedBy
  <1>16. \A b \in Asyncs : b # a => Same(b)
    BY <1>1, <1>5, <1>8, <1>9 DEF Same, AddedBy
  <1>17. OneRunner(a)'
    BY <1>10, <1>12, <1>13 DEF OneRunner
  <1>18. Counts(a)'
    <2>1. Calls("count", a)'
      BY <1>8 DEF CallLabels
    <2>2. run_count'[<<a, "atask">>] = -1
      BY <1>9 DEF AddedBy
    <2>3. run_count'[<<a, "atask">>] = (IF RunnerWaits(a)' \/ RunnerRuns(a)' THEN 1 ELSE 0)
                                         - (IF Calls("count", a)' THEN 2 ELSE 0)
      BY <1>11, <2>1, <2>2
    <2>4. run_count'[<<a, "rtask">>] = run_count[<<a, "rtask">>]
      BY <1>2, <1>9 DEF AddedBy
    <2>5. run_count[<<a, "rtask">>] = Unfinished(a) - (IF Counting(a) THEN Parts + 1 ELSE 0)
          /\ Unfinished(a) <= Parts
      BY <1>2 DEF Sound, Counts
    <2>6. run_count'[<<a, "rtask">>] = Unfinished(a)' - (IF Counting(a)' THEN Parts + 1 ELSE 0)
          /\ Unfinished(a)' <= Parts
      BY <1>13, <1>14, <2>4, <2>5
    <2>. QED  BY <2>3, <2>6 DEF Counts
  <1>19. RunnerFlags(a)'
    <2>1. Unfinished(a) = 0
      BY <1>2, <1>12 DEF Sound, RunnerFlags, RunnerLabels
    <2>. QED  BY <1>1, <1>7, <1>12, <1>14, <2>1 DEF RunnerFlags
  <1>20. CallFlags(a)'
    BY <1>1, <1>7, <1>8 DEF CallFlags, CallLabels
  <1>21. Called(a)'
    <2>1. ~Calls("callback", a)'
      BY <1>8 DEF CallLabels
    <2>. QED  BY <1>1, <1>2, <1>6, <2>1 DEF Sound, Called
  <1>. QED  BY <1>8, <1>15, <1>16, <1>17, <1>18, <1>19, <1>20, <1>21, Step DEF Sound

LEMMA CountRunnerStep ==
  ASSUME Inv, NEW a \in Asyncs, CountRunner(a)
  PROVE  Inv'
  <1>1. /\ At(Main, "count", a) /\ Count("atask", a) /\ Return(Main)
        /\ flags' = flags /\ pipe' = pipe /\ dispatched' = dispatched /\ called' = called
    BY DEF CountRunner
  <1>2. /\ Typed /\ Shape /\ Sound(a) /\ Main \in Threads
        /\ "rtask" \in Kinds /\ "atask" \in Kinds /\ "rtask" # "atask"
    BY MainIsThread DEF Inv, Kinds
  <1>3. PICK k \in CallLabels : k = "count"
    BY DEF CallLabels
  <1>4. stack[Main] = <<Frame(k, a)>>
    BY <1>1, <1>2, <1>3, InCallOnly
  <1>5. \A m \in CallLabels, c \in Asyncs : Calls(m, c) <=> m = k /\ c = a
    BY <1>4, CallsOne
  <1>6. Calls("count", a) /\ ~Calls("callback", a)
    BY <1>3, <1>5 DEF CallLabels
  <1>7. flags[a] # "none"
    BY <1>2, <1>6 DEF Sound, CallFlags
  <1>8. /\ (stack \in [Threads -> Seq(Frames)])'
        /\ Shape'
        /\ \A u \in Threads, m \in TaskLabels, c \in Asyncs : At(u, m, c)' <=> At(u, m, c)
        /\ \A m, c : Calls(m, c)' <=> CallIn(<<>>, m, c)
    <2>1. stack' = [stack EXCEPT ![Main] = <<>>]
      BY <1>1, <1>4, Stacks DEF Return
    <2>. QED  BY <1>2, <1>4, <2>1, CallStep
  <1>9. \A m \in CallLabels, c \in Asyncs : ~Calls(m, c)'
    BY <1>8, CallsIn
  <1>10. /\ RunnerWaits(a)' <=> RunnerWaits(a)
         /\ RunnerRuns(a)' <=> RunnerRuns(a)
         /\ Counting(a)' <=> Counting(a)
         /\ Unfinished(a)' = Unfinished(a)
         /\ OneRunner(a)'
         /\ (Unfinished(a)' # 0 => \E t \in Threads : At(t, "count_rtask", a)' \/ At(t, "poll", a)')
    BY <1>1, <1>2, <1>8, PipesSame, Quiet
  <1>11. /\ run_count' \in [Asyncs \X Kinds -> Int]
         /\ run_count'[<<a, "atask">>] = run_count[<<a, "atask">>] + 2
         /\ \A j \in Kinds, b \in Asyncs :
              j # "atask" \/ b # a => run_count'[<<b, j>>] = run_count[<<b, j>>]
    <2>1. run_count[<<a, "atask">>] \in Int
      BY <1>2, CountType
    <2>2. PICK n \in Int : n = run_count[<<a, "atask">>] + 2
      BY <2>1
    <2>3. run_count[<<a, "atask">>] + 1 + 1 = n
      BY <2>1, <2>2
    <2>4. run_count' = [run_count EXCEPT ![<<a, "atask">>] = n]
      BY <1>1, <2>3, PartsNat DEF Count
    <2>. QED  BY <1>2, <2>2, <2>4, CountSet
  <1>12. Typed'
    BY PipesSame, <1>1, <1>2, <1>8, <1>11 DEF Typed
  <1>13. \A b \in Asyncs : b # a => Same(b)
    BY PipesSame, <1>1, <1>2, <1>5, <1>8, <1>9, <1>11 DEF Same
  <1>14. Counts(a)'
    <2>1. ~Calls("count", a)'
      BY <1>9 DEF CallLabels
    <2>2. run_count[<<a, "atask">>] = (IF RunnerWaits(a) \/ RunnerRuns(a) THEN 1 ELSE 0) - 2
      BY <1>2, <1>6 DEF Sound, Counts
    <2>3. run_count'[<<a, "atask">>] = (IF RunnerWaits(a)' \/ RunnerRuns(a)' THEN 1 ELSE 0)
      BY <1>10, <1>11, <2>2
    <2>4. run_count'[<<a, "atask">>] = (IF RunnerWaits(a)' \/ RunnerRuns(a)' THEN 1 ELSE 0)
                                         - (IF Calls("count", a)' THEN 2 ELSE 0)
      BY <2>1, <2>3
    <2>5. run_count'[<<a, "rtask">>] = run_count[<<a, "rtask">>]
      BY <1>2, <1>11
    <2>. QED  BY <1>2, <1>10, <2>4, <2>5 DEF Sound, Counts
  <1>15. RunnerFlags(a)'
    <2>1. \A t \in Threads, m \in RunnerLabels : At(t, m, a)' <=> At(t, m, a)
      BY <1>8, LabelSets
    <2>. QED  BY <1>1, <1>2, <1>10, <2>1 DEF Sound, RunnerFlags
  <1>16. CallFlags(a)'
    BY <1>1, <1>7, <1>9, <1>10 DEF CallFlags, CallLabels
  <1>17. Called(a)'
    <2>1. ~Calls("callback", a)'
      BY <1>9 DEF CallLabels
    <2>. QED  BY <1>1, <1>2, <1>6, <2>1 DEF Sound, Called
  <1>. QED  BY <1>8, <1>10, <1>12, <1>13, <1>14, <1>15, <1>16, <1>17, Step DEF Sound
-----------------------------------------------------------------------------
(* The invariant. *)

LEMMA InitInv ==
  ASSUME Init
  PROVE  Inv
  <1>1. Typed
    <2>1. <<>> \in Seq(Frames)
      OBVIOUS
    <2>. QED  BY <2>1, AsyncAssumption DEF Typed, Init
  <1>2. Shape
    BY MainIsThread DEF Shape, Init
  <1>3. ASSUME NEW a \in Asyncs
        PROVE  Sound(a)
    <2>1. \A t \in Threads : \A l : ~At(t, l, a)
      BY DEF Init, At
    <2>2. \A t \in Threads : \A k, n : ~Has(t, k, a, n)
      BY DEF Init, Has
    <2>3. \A m \in CallLabels : ~Calls(m, a)
      BY CallsNone, MainIsThread DEF Init
    <2>4. Waiting(a) = {} /\ Working(a) = {}
      BY <2>1, <2>2 DEF Waiting, Working
    <2>5. Unfinished(a) = 0
      BY <2>4, FS_EmptySet DEF Unfinished
    <2>6. ~RunnerWaits(a) /\ ~RunnerRuns(a) /\ ~Counting(a)
      BY <2>1, <2>2 DEF RunnerWaits, RunnerRuns, Counting
    <2>7. /\ run_count[<<a, "atask">>] = 0 /\ run_count[<<a, "rtask">>] = 0
          /\ flags[a] = "none" /\ dispatched[a] = 0 /\ called[a] = 0
      BY DEF Init, Kinds
    <2>8. OneRunner(a)
      BY <2>1, <2>2, <2>6 DEF OneRunner
    <2>9. Counts(a)
      <3>1. ~Calls("count", a)
        BY <2>3 DEF CallLabels
      <3>2. run_count[<<a, "atask">>] = (IF RunnerWaits(a) \/ RunnerRuns(a) THEN 1 ELSE 0)
                                          - (IF Calls("count", a) THEN 2 ELSE 0)
        BY <2>6, <2>7, <3>1
      <3>3. run_count[<<a, "rtask">>] = Unfinished(a) - (IF Counting(a) THEN Parts + 1 ELSE 0)
        BY <2>5, <2>6, <2>7
      <3>4. Unfinished(a) <= Parts
        BY <2>5, PartsNat
      <3>. QED  BY <3>2, <3>3, <3>4 DEF Counts
    <2>10. RunnerFlags(a)
      BY <2>1, <2>5, <2>6 DEF RunnerFlags
    <2>11. CallFlags(a)
      BY <2>3, <2>6 DEF CallFlags, CallLabels
    <2>12. Called(a)
      BY <2>7 DEF Called
    <2>. QED  BY <2>8, <2>9, <2>10, <2>11, <2>12 DEF Sound
  <1>. QED  BY <1>1, <1>2, <1>3 DEF Inv

\* Nothing is split, so nobody counts parts.
LEMMA CountPartsNever ==
  ASSUME Inv, NEW t \in Threads, NEW a \in Asyncs
  PROVE  ~CountParts(t, a)
  <1>1. ASSUME NEW l, NEW b, Head(stack[t]) = Frame(l, b), Head(stack[t]).at = "count_parts"
        PROVE  l = "count_parts"
    BY <1>1 DEF Frame
  <1>2. "count_parts" \notin TaskLabels /\ "count_parts" \notin CallLabels
    BY DEF TaskLabels, RunnerLabels, CallLabels
  <1>3. ASSUME stack[t] # <<>>
        PROVE  \E l \in TaskLabels \cup CallLabels, b \in Asyncs : Head(stack[t]) = Frame(l, b)
    BY <1>3, StackOf, Stacks DEF Inv
  <1>. QED  BY <1>1, <1>2, <1>3 DEF CountParts

LEMMA NextInv ==
  ASSUME Client = "finishes", NeverSplit, Inv, Next
  PROVE  Inv'
  <1>1. ASSUME NEW t \in Threads, Execute(t)
        PROVE  Inv'
    BY <1>1, TakeAny, CountPartsNever, WorkStep, AddWorkStep, CountWorkStep, PollStep, SetDoneStep,
       JoinWorkStep, EndRunnerStep DEF Execute
  <1>2. ASSUME NEW a \in Asyncs, Dispatch(a) \/ Finish(a) \/ InCall(a)
        PROVE  Inv'
    BY <1>2, DispatchStep, FinishStep, AddRunnerStep, CountRunnerStep, ClearFlagsStep,
       JoinRunnerStep DEF InCall
  <1>. QED  BY <1>1, <1>2 DEF Next

LEMMA StutterInv ==
  ASSUME Inv, UNCHANGED vars
  PROVE  Inv'
  <1>1. /\ flags' = flags /\ run_count' = run_count /\ pipe' = pipe /\ stack' = stack
        /\ dispatched' = dispatched /\ called' = called
    BY DEF vars
  <1>2. Typed' /\ Shape'
    BY PipesSame, <1>1 DEF Inv, Typed, Shape
  <1>3. \A a \in Asyncs : Same(a)
    BY PipesSame, <1>1 DEF Inv, Same, At, Calls
  <1>4. \A a \in Asyncs : Sound(a)'
    BY <1>3, SameAsync DEF Inv
  <1>. QED  BY <1>2, <1>4 DEF Inv

\* For a program that finishes its asyncs, and tasks that are not split, the
\* invariant holds in every state.
THEOREM Invariance ==
  ASSUME Client = "finishes", NeverSplit
  PROVE  Spec => []Inv
  <1>1. Init => Inv
    BY InitInv
  <1>2. Inv /\ [Next]_vars => Inv'
    BY NextInv, StutterInv
  <1>. QED  BY <1>1, <1>2, PTL DEF Spec
-----------------------------------------------------------------------------
(* What it says of counts, flags and callbacks. *)

\* A frame on a stack is the task the thread executes, or the main thread's call.
LEMMA FrameOf ==
  ASSUME Shape, NEW t \in Threads, NEW i \in 1 .. Len(stack[t])
  PROVE  \E l, a : /\ stack[t][i] = Frame(l, a) /\ stack[t][i].at = l /\ stack[t][i].async = a
                   /\ \/ l \in TaskLabels /\ At(t, l, a)
                      \/ l \in CallLabels /\ Calls(l, a)
  <1>1. \A l, a : Frame(l, a).at = l /\ Frame(l, a).async = a
    BY DEF Frame
  <1>2. CASE stack[t] = <<>>
    BY <1>2, Stacks
  <1>3. ASSUME NEW l, NEW a, stack[t] = <<Frame(l, a)>>
        PROVE  i = 1 /\ stack[t][i] = Frame(l, a) /\ At(t, l, a)
    BY <1>3, Stacks DEF At
  <1>4. CASE \E l \in TaskLabels, a \in Asyncs : t # Main /\ stack[t] = <<Frame(l, a)>>
    BY <1>1, <1>3, <1>4
  <1>5. CASE \E l \in CallLabels, a \in Asyncs : t = Main /\ stack[t] = <<Frame(l, a)>>
    <2>1. PICK l \in CallLabels, a \in Asyncs : t = Main /\ stack[t] = <<Frame(l, a)>>
      BY <1>5
    <2>2. Calls(l, a)
      BY <2>1, CallsOne
    <2>. QED  BY <1>1, <1>3, <2>1, <2>2
  <1>6. CASE \E l \in TaskLabels, b, a \in Asyncs :
               t = Main /\ stack[t] = <<Frame(l, b), Frame("join_atask", a)>>
    <2>1. PICK l \in TaskLabels, b \in Asyncs, a \in Asyncs :
            t = Main /\ stack[t] = <<Frame(l, b), Frame("join_atask", a)>>
      BY <1>6
    <2>2. i \in 1 .. 2
      BY <2>1, Stacks
    <2>3. "join_atask" \in CallLabels /\ Calls("join_atask", a)
      BY <2>1, CallsUnder DEF CallLabels
    <2>4. At(t, l, b)
      BY <2>1, Stacks DEF At
    <2>5. CASE i = 1
      <3>1. stack[t][i] = Frame(l, b)
        BY <2>1, <2>5, Stacks
      <3>. QED  BY <1>1, <2>4, <3>1
    <2>6. CASE i = 2
      <3>1. stack[t][i] = Frame("join_atask", a)
        BY <2>1, <2>6, Stacks
      <3>. QED  BY <1>1, <2>3, <3>1
    <2>. QED  BY <2>2, <2>5, <2>6
  <1>. QED  BY <1>2, <1>4, <1>5, <1>6, StackOf

LEMMA InFrameIs ==
  ASSUME Inv, NEW a \in Asyncs
  PROVE  /\ InFrame(a, RunnerLabels) => RunnerRuns(a)
         /\ InFrame(a, {"work"}) => Working(a) # {}
         /\ InFrame(a, {"callback"}) <=> Calls("callback", a)
  <1>1. Shape /\ "callback" \in CallLabels /\ "callback" \notin TaskLabels
    BY LabelSets DEF Inv, CallLabels
  <1>2. ASSUME NEW L, InFrame(a, L)
        PROVE  \E t \in Threads, l \in L : \/ l \in TaskLabels /\ At(t, l, a)
                                           \/ l \in CallLabels /\ Calls(l, a)
    <2>1. PICK t \in Threads : \E i \in 1 .. Len(stack[t]) :
            stack[t][i].async = a /\ stack[t][i].at \in L
      BY <1>2 DEF InFrame
    <2>2. PICK i \in 1 .. Len(stack[t]) : stack[t][i].async = a /\ stack[t][i].at \in L
      BY <2>1
    <2>. QED  BY <1>1, <2>2, FrameOf
  <1>3. InFrame(a, RunnerLabels) => RunnerRuns(a)
    BY <1>2, LabelSets DEF RunnerRuns
  <1>4. InFrame(a, {"work"}) => Working(a) # {}
    BY <1>2, LabelSets DEF Working
  <1>5. InFrame(a, {"callback"}) => Calls("callback", a)
    BY <1>1, <1>2
  <1>6. Calls("callback", a) => InFrame(a, {"callback"})
    <2>1. Frame("callback", a).at = "callback" /\ Frame("callback", a).async = a
      BY DEF Frame
    <2>2. CASE stack[Main] = <<Frame("callback", a)>>
      <3>1. 1 \in 1 .. Len(stack[Main]) /\ stack[Main][1] = Frame("callback", a)
        BY <2>2, Stacks
      <3>. QED  BY <2>1, <3>1, MainIsThread DEF InFrame
    <2>3. CASE \E f \in [at : TaskLabels, async : Asyncs, parts : {0}] :
                 stack[Main] = <<f, Frame("callback", a)>>
      <3>1. 2 \in 1 .. Len(stack[Main]) /\ stack[Main][2] = Frame("callback", a)
        BY <2>3, Stacks
      <3>. QED  BY <2>1, <3>1, MainIsThread DEF InFrame
    <2>. QED  BY <2>2, <2>3 DEF Calls, CallIn
  <1>. QED  BY <1>3, <1>4, <1>5, <1>6

LEMMA InvTypes ==
  ASSUME Inv
  PROVE  TypeOK
  <1>1. \A t \in Threads : Len(stack[t]) <= (IF t = Main THEN 2 ELSE 1)
    <2>1. \A f, g : Len(<<>>) = 0 /\ Len(<<f>>) = 1 /\ Len(<<f, g>>) = 2
      BY Stacks
    <2>2. ASSUME NEW t \in Threads
          PROVE  Len(stack[t]) = 0 \/ Len(stack[t]) = 1 \/ (t = Main /\ Len(stack[t]) = 2)
      BY <2>1, StackOf DEF Inv
    <2>3. ASSUME NEW t \in Threads
          PROVE  Len(stack[t]) <= (IF t = Main THEN 2 ELSE 1)
      <3>. DEFINE n == Len(stack[t])
      <3>1. n = 0 \/ n = 1 \/ (t = Main /\ n = 2)
        BY <2>2
      <3>. HIDE DEF n
      <3>2. n <= (IF t = Main THEN 2 ELSE 1)
        BY <3>1
      <3>. QED  BY <3>2 DEF n
    <2>. QED  BY <2>3
  <1>2. \A t \in Threads :
          LET counting == stack[t] # <<>> /\ Head(stack[t]).at = "count_parts"
          IN  Len(stack[t]) <= (IF t = Main THEN 2 ELSE 1) + (IF counting THEN 1 ELSE 0)
    <2>1. ASSUME NEW n, NEW m \in Nat, n = 0 \/ n = 1 \/ n = 2, n <= m, NEW c \in BOOLEAN
          PROVE  n <= m + (IF c THEN 1 ELSE 0)
      BY <2>1
    <2>2. \A t \in Threads : Len(stack[t]) = 0 \/ Len(stack[t]) = 1 \/ Len(stack[t]) = 2
      <3>1. \A f, g : Len(<<>>) = 0 /\ Len(<<f>>) = 1 /\ Len(<<f, g>>) = 2
        BY Stacks
      <3>. QED  BY <3>1, StackOf DEF Inv
    <2>. QED  BY <1>1, <2>1, <2>2
  <1>3. pipe \in [Threads -> SUBSET AllPieces]
    BY DEF Inv, Typed, Recent
  <1>. QED  BY <1>2, <1>3 DEF Inv, Typed, TypeOK

\* A piece that waits is one of those that are counted.
LEMMA HasIs ==
  ASSUME Inv, NEW t \in Threads, NEW p \in pipe[t]
  PROVE  \E n \in Places : Has(t, p.kind, p.async, n)
  BY PieceForm DEF Inv

LEMMA InvZero ==
  ASSUME Inv
  PROVE  ZeroMeansFinished
  <1>. SUFFICES ASSUME NEW a \in Asyncs, NEW k \in Kinds, run_count[<<a, k>>] = 0
                PROVE  ~Outstanding(k, a)
    BY DEF ZeroMeansFinished
  <1>1. Counts(a)
    BY DEF Inv, Sound
  <1>2. CASE k = "atask"
    <2>1. 0 = (IF RunnerWaits(a) \/ RunnerRuns(a) THEN 1 ELSE 0)
                - (IF Calls("count", a) THEN 2 ELSE 0)
      BY <1>1, <1>2 DEF Counts
    <2>2. ~RunnerWaits(a) /\ ~RunnerRuns(a)
      BY <2>1
    <2>. QED  BY <1>2, <2>2, InFrameIs, HasIs DEF Outstanding, RunnerWaits
  <1>3. CASE k = "rtask"
    <2>1. 0 = Unfinished(a) - (IF Counting(a) THEN Parts + 1 ELSE 0) /\ Unfinished(a) <= Parts
      BY <1>1, <1>3 DEF Counts
    <2>2. Unfinished(a) \in Int
      BY UnfinishedNat
    <2>3. Unfinished(a) = 0
      <3>1. CASE Counting(a)
        BY <2>1, <2>2, <3>1, PartsNat
      <3>2. CASE ~Counting(a)
        BY <2>1, <2>2, <3>2
      <3>. QED  BY <3>1, <3>2
    <2>4. Waiting(a) = {} /\ Working(a) = {}
      BY <2>3, UnfinishedNat
    <2>. QED  BY <1>3, <2>4, InFrameIs, HasIs, WaitingHas DEF Outstanding
  <1>. QED  BY <1>2, <1>3 DEF Kinds

LEMMA InvDone ==
  ASSUME Inv
  PROVE  DoneMeansRun
  <1>. SUFFICES ASSUME NEW a \in Asyncs, flags[a] = "done"
                PROVE  ~Outstanding("rtask", a)
    BY DEF DoneMeansRun
  <1>1. RunnerFlags(a)
    BY DEF Inv, Sound
  <1>2. Unfinished(a) = 0
    BY <1>1 DEF RunnerFlags, RunnerLabels
  <1>3. Waiting(a) = {} /\ Working(a) = {}
    BY <1>2, UnfinishedNat
  <1>. QED  BY <1>3, InFrameIs, HasIs, WaitingHas DEF Outstanding

\* A count of zero and a flag mean what the code takes them for: no piece of the task is
\* waiting or running, whatever the number of workers and the size of the task, if it is
\* not split.  Of a task that is split it is false, see CallbackAfterTask.
THEOREM CountsTellTheTruthHolds ==
  ASSUME Client = "finishes", NeverSplit
  PROVE  Spec => []CountsTellTheTruth
  <1>1. Inv => CountsTellTheTruth
    BY InvTypes, InvZero, InvDone DEF CountsTellTheTruth
  <1>. QED  BY <1>1, Invariance, PTL

\* The callback of gs_core_sched_async_finish is called once for each dispatch, under the
\* same condition.
THEOREM OneCallbackHolds ==
  ASSUME Client = "finishes", NeverSplit
  PROVE  Spec => []OneCallback
  <1>1. Inv => OneCallback
    BY InFrameIs DEF Inv, Sound, Called, OneCallback
  <1>. QED  BY <1>1, Invariance, PTL
=============================================================================

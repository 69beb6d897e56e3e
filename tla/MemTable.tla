------------------------------ MODULE MemTable ------------------------------
(***************************************************************************)
(* The memory debugger (core/gs_core_config.c): threads allocate and free  *)
(* blocks, and each block has an entry in a hash table with open           *)
(* addressing.                                                             *)
(*                                                                         *)
(* Every access to the table is made under one spinlock, so an operation   *)
(* of the table is one step; the calls of the operating system before and  *)
(* after it are steps of their own.  File and line of a call are left out. *)
(***************************************************************************)
EXTENDS Integers, FiniteSets, FiniteSetsExt

CONSTANTS
  Threads,
  Ptrs,                \* addresses the operating system hands out
  NULL,
  Sizes,
  Slots,               \* GS_MEM_DBG_HASH_MASK, the slots that are used
  Hash,                \* gs_mem_hash_ptr
  MaxCalls             \* bound: calls of malloc and realloc

ASSUME MemTableAssumption ==
  /\ NULL \notin Ptrs
  /\ Sizes \subseteq Nat
  /\ Slots \in Nat \ {0}
  /\ Hash \in [Ptrs -> 0 .. Slots - 1]
  /\ MaxCalls \in Nat

VARIABLES
  table,               \* g_mem_table
  total_allocated, total_freed, allocation_count,
  last,                \* what the last operation of the table returned
  job,                 \* what each thread still has to do in its call
  live,                \* blocks that the operating system has handed out
  held,                \* blocks the program holds, with their sizes
  halted,              \* has the program freed a block twice?
  calls,               \* counter for the bound
  \* History variable, read by properties only.
  lost                 \* blocks the program holds without a record

vars == <<table, total_allocated, total_freed, allocation_count, last, job,
          live, held, halted, calls, lost>>
counts == <<total_allocated, total_freed, allocation_count>>
-----------------------------------------------------------------------------
Slot == 0 .. Slots - 1
Idle == [op |-> "idle", ptr |-> NULL, sz |-> 0]
Job(op, p, sz) == [op |-> op, ptr |-> p, sz |-> sz]
Jobs == {Idle} \cup [op : {"insert", "free", "realloc"}, ptr : Ptrs, sz : Sizes]

Put(f, k, v) == [x \in DOMAIN f \cup {k} |-> IF x = k THEN v ELSE f[x]]
Drop(f, k)   == [x \in DOMAIN f \ {k} |-> f[x]]

Init ==
  /\ table = [i \in Slot |-> [ptr |-> NULL, sz |-> 0, occupied |-> FALSE]]
  /\ total_allocated = 0
  /\ total_freed = 0
  /\ allocation_count = 0
  /\ last = "ok"
  /\ job = [t \in Threads |-> Idle]
  /\ live = {}
  /\ held = [p \in {} |-> 0]
  /\ halted = FALSE
  /\ calls = 0
  /\ lost = {}
-----------------------------------------------------------------------------
(* The table. *)

\* The slots that a probe which starts at slot h looks at before slot i.
Before(h, i) == {j \in Slot : IF h <= i THEN h <= j /\ j < i ELSE h <= j \/ j < i}

\* gs_mem_insert takes the first slot that is not occupied.
FreeFor(p, i) ==
  /\ ~table[i].occupied
  /\ \A j \in Before(Hash[p], i) : table[j].occupied

\* Mutant: the last slot stays free.
FullButOne == allocation_count >= Slots - 1

Full == \A i \in Slot : table[i].occupied

InsertAt(p, sz, i) ==
  /\ table' = [table EXCEPT ![i] = [ptr |-> p, sz |-> sz, occupied |-> TRUE]]
  /\ total_allocated' = total_allocated + sz
  /\ allocation_count' = allocation_count + 1
  /\ last' = "ok"
  /\ UNCHANGED total_freed

\* Mutant: what was removed is found.
FoundRemoved(p, i) ==
  /\ table[i].ptr = p
  /\ \A j \in Before(Hash[p], i) : table[j].ptr # NULL

\* gs_mem_find stops at the pointer or at a slot that was never used.
Found(p, i) ==
  /\ table[i].occupied
  /\ table[i].ptr = p
  /\ \A j \in Before(Hash[p], i) : table[j].ptr # NULL

\* Mutant: the slot is emptied.
RemoveAndEmpty(i) ==
  /\ table' = [table EXCEPT ![i] = [ptr |-> NULL, sz |-> 0, occupied |-> FALSE]]
  /\ total_freed' = total_freed + table[i].sz
  /\ allocation_count' = allocation_count - 1
  /\ last' = "ok"
  /\ UNCHANGED total_allocated

\* Mutant: the size is not counted.
RemoveNoSize(i) ==
  /\ table' = [table EXCEPT ![i].occupied = FALSE]
  /\ allocation_count' = allocation_count - 1
  /\ last' = "ok"
  /\ UNCHANGED <<total_allocated, total_freed>>

\* gs_mem_remove leaves the pointer behind, for probes to go on.
RemoveAt(i) ==
  /\ table' = [table EXCEPT ![i].occupied = FALSE]
  /\ total_freed' = total_freed + table[i].sz
  /\ allocation_count' = allocation_count - 1
  /\ last' = "ok"
  /\ UNCHANGED total_allocated

NotFound(p) == \A i \in Slot : ~Found(p, i)

RemovePtr(p) ==
  \/ \E i \in Slot : Found(p, i) /\ RemoveAt(i)
  \/ /\ NotFound(p)
     /\ last' = "unknown"
     /\ UNCHANGED <<table, counts>>
-----------------------------------------------------------------------------
(* The program and the operating system. *)

Starts(t, op, p, sz) ==
  /\ ~halted
  /\ job[t] = Idle
  /\ job' = [job EXCEPT ![t] = Job(op, p, sz)]

Counted == calls < MaxCalls /\ calls' = calls + 1

\* malloc, calloc and strdup: the operating system chooses a block ...
Malloc(t, p, sz) ==
  /\ p \notin live
  /\ Starts(t, "insert", p, sz)
  /\ Counted
  /\ live' = live \cup {p}
  /\ UNCHANGED <<table, counts, last, held, halted, lost>>

\* ... which is recorded before the program gets it, if there is room.
Insert(t) ==
  /\ ~halted
  /\ job[t].op = "insert"
  /\ LET p == job[t].ptr
         sz == job[t].sz
     IN  /\ \/ /\ \E i \in Slot : FreeFor(p, i) /\ InsertAt(p, sz, i)
               /\ UNCHANGED lost
            \/ /\ Full
               /\ last' = "full"
               /\ lost' = lost \cup {p}
               /\ UNCHANGED <<table, counts>>
         /\ held' = Put(held, p, sz)
  /\ job' = [job EXCEPT ![t] = Idle]
  /\ UNCHANGED <<live, halted, calls>>

\* free removes the record before the block can be handed out again ...
Free(t, p) ==
  /\ p \in DOMAIN held
  /\ Starts(t, "free", p, held[p])
  /\ RemovePtr(p)
  /\ held' = Drop(held, p)
  /\ lost' = lost \ {p}
  /\ UNCHANGED <<live, halted, calls>>

OsFree(t) ==
  /\ ~halted
  /\ job[t].op = "free"
  /\ live' = live \ {job[t].ptr}
  /\ job' = [job EXCEPT ![t] = Idle]
  /\ UNCHANGED <<table, counts, last, held, halted, calls, lost>>

\* ... and so does realloc, ...
Realloc(t, p, sz) ==
  /\ p \in DOMAIN held
  /\ Starts(t, "realloc", p, sz)
  /\ Counted
  /\ RemovePtr(p)
  /\ held' = Drop(held, p)
  /\ lost' = lost \ {p}
  /\ UNCHANGED <<live, halted>>

\* ... for a block that may move ...
OsRealloc(t, q) ==
  /\ ~halted
  /\ job[t].op = "realloc"
  /\ q = job[t].ptr \/ q \notin live
  /\ live' = (live \ {job[t].ptr}) \cup {q}
  /\ job' = [job EXCEPT ![t] = Job("insert", q, job[t].sz)]
  /\ UNCHANGED <<table, counts, last, held, halted, calls, lost>>

\* ... or stays what it was, if there is no memory, without its record.  Its
\* size is not recorded anywhere any more.
OsReallocFails(t) ==
  /\ ~halted
  /\ job[t].op = "realloc"
  /\ job' = [job EXCEPT ![t] = Idle]
  /\ held' = Put(held, job[t].ptr, job[t].sz)
  /\ lost' = lost \cup {job[t].ptr}
  /\ UNCHANGED <<table, counts, last, live, halted, calls>>

\* The program frees a block that it does not have, or not any more, or that
\* another thread is just freeing.  What the operating system makes of that is
\* undefined; here the program ends.
FreeAgain(t, p) ==
  /\ ~halted
  /\ job[t] = Idle
  /\ p \notin DOMAIN held
  /\ RemovePtr(p)
  /\ halted' = TRUE
  /\ UNCHANGED <<job, live, held, calls, lost>>
-----------------------------------------------------------------------------
Next ==
  \E t \in Threads :
    \/ \E p \in Ptrs, sz \in Sizes : Malloc(t, p, sz)
    \/ Insert(t)
    \/ \E p \in Ptrs : Free(t, p)
    \/ OsFree(t)
    \/ \E p \in Ptrs, sz \in Sizes : Realloc(t, p, sz)
    \/ \E q \in Ptrs : OsRealloc(t, q)
    \/ OsReallocFails(t)
    \/ \E p \in Ptrs : FreeAgain(t, p)

Spec == Init /\ [][Next]_vars
-----------------------------------------------------------------------------
Occupied == {i \in Slot : table[i].occupied}

\* Types.
TypeOK ==
  /\ table \in [Slot -> [ptr : Ptrs \cup {NULL}, sz : Sizes \cup {0}, occupied : BOOLEAN]]
  /\ total_allocated \in Nat
  /\ total_freed \in Nat
  /\ allocation_count \in Nat
  /\ last \in {"ok", "full", "unknown"}
  /\ job \in [Threads -> Jobs]
  /\ live \subseteq Ptrs
  /\ DOMAIN held \subseteq Ptrs
  /\ \A p \in DOMAIN held : held[p] \in Sizes
  /\ halted \in BOOLEAN
  /\ calls \in 0 .. MaxCalls
  /\ lost \subseteq Ptrs

\* Every block the program holds has a record, with its size, that a probe
\* finds, unless its record was lost; whatever was inserted and removed before.
Tracked ==
  \A p \in DOMAIN held \ lost : \E i \in Slot : Found(p, i) /\ table[i].sz = held[p]

\* No other block has one: what the report lists is allocated.
ListsLive ==
  \A i \in Occupied : table[i].ptr \in live /\ table[i].ptr \notin lost

\* The records are those of the blocks the program holds.
RecordsHeld == Tracked /\ ListsLive

\* The statistics of the report agree with the entries below them.
CountsAgree ==
  /\ TypeOK
  /\ allocation_count = Cardinality(Occupied)
  /\ total_allocated - total_freed = MapThenSumSet(LAMBDA i : table[i].sz, Occupied)

\* A block that is freed twice is reported, unless it is in use again ...
DoubleFreesReported ==
  [][\A t \in Threads, p \in Ptrs : FreeAgain(t, p) => last' = "unknown"]_vars

\* ... and a block that the program holds is not, unless its record was lost.
NoFalseAlarm ==
  [][\A t \in Threads, p \in Ptrs :
       p \in DOMAIN held \ lost /\ p \notin DOMAIN held' => last' = "ok"]_vars

\* What is said of a free is right.
FreesJudged == DoubleFreesReported /\ NoFalseAlarm

\* The sizes of the blocks that have entries.
Recorded ==
  [p \in {table[i].ptr : i \in Occupied} |->
     table[CHOOSE i \in Occupied : table[i].ptr = p].sz]

\* The table implements the function from blocks to sizes.
Records == INSTANCE MemRecords WITH Capacity <- Slots, records <- Recorded

RecordsSpec == Records!Spec
=============================================================================

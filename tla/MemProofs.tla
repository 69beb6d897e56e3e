------------------------------ MODULE MemProofs -----------------------------
(***************************************************************************)
(* Proofs about the memory debugger's table (MemTable).                    *)
(***************************************************************************)
EXTENDS MemTable, FiniteSetTheorems, TLAPS

-----------------------------------------------------------------------------
(* The inductive invariant. *)

\* The parts of the state the argument is about have their types.
Shape ==
  /\ table \in [Slot -> [ptr : Ptrs \cup {NULL}, sz : Sizes \cup {0}, occupied : BOOLEAN]]
  /\ job \in [Threads -> Jobs]
  /\ live \subseteq Ptrs
  /\ lost \subseteq DOMAIN held
  /\ DOMAIN held \subseteq live
  /\ \A p \in DOMAIN held : held[p] \in Sizes

\* A block that a call is about is allocated, is no longer or not yet the
\* program's, and belongs to one call only.
CallsOwn ==
  \A t \in Threads :
    job[t].op # "idle" =>
      /\ job[t].ptr \in live
      /\ job[t].ptr \notin DOMAIN held
      /\ \A u \in Threads : job[u].op # "idle" /\ job[u].ptr = job[t].ptr => u = t

\* No slot before an entry was never used, so a probe gets to the entry.
PathsHold ==
  \A i \in Slot :
    table[i].occupied =>
      /\ table[i].ptr \in Ptrs
      /\ \A j \in Before(Hash[table[i].ptr], i) : table[j].ptr # NULL

\* There is one entry at most for a block, and only for those held.
OneEntry ==
  /\ \A i \in Slot :
       table[i].occupied => table[i].ptr \in DOMAIN held /\ table[i].ptr \notin lost
  /\ \A i, j \in Slot :
       table[i].occupied /\ table[j].occupied /\ table[i].ptr = table[j].ptr => i = j

IInv == Shape /\ CallsOwn /\ PathsHold /\ OneEntry /\ Tracked
-----------------------------------------------------------------------------
(* What the operations of the table do to these parts. *)

\* An entry of a block is what a probe for it finds.
LEMMA EntryFound ==
  ASSUME PathsHold, NEW i \in Slot, table[i].occupied
  PROVE  Found(table[i].ptr, i)
BY DEF PathsHold, Found

Entry(p) == \E i \in Slot : table[i].occupied /\ table[i].ptr = p

\* gs_mem_remove removes exactly the entry of its block, leaves every pointer
\* behind, and says whether there was an entry.
LEMMA Removes ==
  ASSUME Shape, PathsHold, OneEntry, NEW p \in Ptrs, RemovePtr(p)
  PROVE  /\ table' \in [Slot -> [ptr : Ptrs \cup {NULL}, sz : Sizes \cup {0}, occupied : BOOLEAN]]
         /\ \A i \in Slot :
              /\ table'[i].ptr = table[i].ptr
              /\ table'[i].sz = table[i].sz
              /\ table'[i].occupied <=> table[i].occupied /\ table[i].ptr # p
         /\ last' = IF Entry(p) THEN "ok" ELSE "unknown"
<1>1. CASE \E i \in Slot : Found(p, i) /\ RemoveAt(i)
  <2>1. PICK i \in Slot : Found(p, i) /\ RemoveAt(i)
    BY <1>1
  <2>2. /\ table[i].occupied /\ table[i].ptr = p
        /\ table' = [table EXCEPT ![i].occupied = FALSE]
        /\ last' = "ok"
    BY <2>1 DEF Found, RemoveAt
  <2>3. \A j \in Slot : table[j].occupied /\ table[j].ptr = p => j = i
    BY <2>2 DEF OneEntry
  <2>4. Entry(p)
    BY <2>2 DEF Entry
  <2>5. table' \in [Slot -> [ptr : Ptrs \cup {NULL}, sz : Sizes \cup {0}, occupied : BOOLEAN]]
    BY <2>2 DEF Shape
  <2>6. ASSUME NEW j \in Slot
        PROVE  /\ table'[j].ptr = table[j].ptr
               /\ table'[j].sz = table[j].sz
               /\ table'[j].occupied <=> table[j].occupied /\ table[j].ptr # p
    <3>1. table[j] \in [ptr : Ptrs \cup {NULL}, sz : Sizes \cup {0}, occupied : BOOLEAN]
      BY DEF Shape
    <3>2. CASE j = i
      BY <2>2, <3>1, <3>2 DEF Shape
    <3>3. CASE j # i
      BY <2>2, <2>3, <3>1, <3>3 DEF Shape
    <3> QED
      BY <3>2, <3>3
  <2> QED
    BY <2>2, <2>4, <2>5, <2>6
<1>2. CASE NotFound(p) /\ last' = "unknown" /\ UNCHANGED <<table, counts>>
  <2>1. ~Entry(p)
    BY <1>2, EntryFound DEF Entry, NotFound
  <2>2. table' = table
    BY <1>2
  <2> QED
    BY <1>2, <2>1, <2>2 DEF Entry, Shape
<1> QED
  BY <1>1, <1>2 DEF RemovePtr

\* gs_mem_insert fills a slot that was free, and does not break a path.
LEMMA Inserts ==
  ASSUME Shape, PathsHold, NEW p \in Ptrs, NEW sz \in Sizes, NEW i \in Slot,
         FreeFor(p, i), InsertAt(p, sz, i)
  PROVE  /\ table' \in [Slot -> [ptr : Ptrs \cup {NULL}, sz : Sizes \cup {0}, occupied : BOOLEAN]]
         /\ table'[i] = [ptr |-> p, sz |-> sz, occupied |-> TRUE]
         /\ \A j \in Slot \ {i} : table'[j] = table[j]
         /\ \A j \in Slot : table[j].ptr # NULL => table'[j].ptr # NULL
         /\ PathsHold'
<1>1. table' = [table EXCEPT ![i] = [ptr |-> p, sz |-> sz, occupied |-> TRUE]]
  BY DEF InsertAt
<1>2. /\ table' \in [Slot -> [ptr : Ptrs \cup {NULL}, sz : Sizes \cup {0}, occupied : BOOLEAN]]
      /\ table'[i] = [ptr |-> p, sz |-> sz, occupied |-> TRUE]
      /\ \A j \in Slot \ {i} : table'[j] = table[j]
  BY <1>1 DEF Shape
<1>3. \A j \in Slot : table[j].ptr # NULL => table'[j].ptr # NULL
  BY <1>2, MemTableAssumption
<1>4. \A j \in Slot : table[j].occupied => table[j].ptr # NULL
  BY MemTableAssumption DEF PathsHold
<1>5. ASSUME NEW k \in Slot, table'[k].occupied
      PROVE  /\ table'[k].ptr \in Ptrs
             /\ \A j \in Before(Hash[table'[k].ptr], k) : table'[j].ptr # NULL
  <2>1. CASE k = i
    <3>1. table'[k].ptr = p
      BY <1>2, <2>1
    <3>2. \A j \in Before(Hash[p], i) : j \in Slot /\ table[j].occupied
      BY DEF FreeFor, Before
    <3> QED
      BY <1>3, <1>4, <2>1, <3>1, <3>2
  <2>2. CASE k # i
    <3>1. table'[k] = table[k] /\ table[k].occupied
      BY <1>2, <1>5, <2>2
    <3>2. \A j \in Before(Hash[table[k].ptr], k) : j \in Slot /\ table[j].ptr # NULL
      BY <3>1 DEF PathsHold, Before
    <3> QED
      BY <1>3, <3>1, <3>2 DEF PathsHold
  <2> QED
    BY <2>1, <2>2
<1> QED
  BY <1>2, <1>3, <1>5 DEF PathsHold

-----------------------------------------------------------------------------
(* The steps. *)

\* When a block goes, the entries of the others stay and are still found.
LEMMA AfterRemoval ==
  ASSUME IInv, NEW p \in Ptrs, RemovePtr(p),
         DOMAIN held' = DOMAIN held \ {p},
         \A q \in DOMAIN held \ {p} : held'[q] = held[q],
         lost' = lost \ {p}
  PROVE  /\ table' \in [Slot -> [ptr : Ptrs \cup {NULL}, sz : Sizes \cup {0}, occupied : BOOLEAN]]
         /\ PathsHold'
         /\ OneEntry'
         /\ Tracked'
<1>1. /\ table' \in [Slot -> [ptr : Ptrs \cup {NULL}, sz : Sizes \cup {0}, occupied : BOOLEAN]]
      /\ \A i \in Slot :
           /\ table'[i].ptr = table[i].ptr
           /\ table'[i].sz = table[i].sz
           /\ table'[i].occupied <=> table[i].occupied /\ table[i].ptr # p
  BY Removes DEF IInv
<1>2. PathsHold'
  <2> SUFFICES ASSUME NEW k \in Slot, table'[k].occupied
               PROVE  /\ table'[k].ptr \in Ptrs
                      /\ \A j \in Before(Hash[table'[k].ptr], k) : table'[j].ptr # NULL
    BY DEF PathsHold
  <2>1. \A j \in Before(Hash[table[k].ptr], k) : j \in Slot /\ table[j].ptr # NULL
    BY <1>1 DEF IInv, PathsHold, Before
  <2> QED
    BY <1>1, <2>1 DEF IInv, PathsHold
<1>3. OneEntry'
  BY <1>1 DEF IInv, OneEntry
<1>4. Tracked'
  <2> SUFFICES ASSUME NEW q \in DOMAIN held \ lost, q # p
               PROVE  \E i \in Slot : Found(q, i)' /\ table'[i].sz = held[q]
    BY DEF Tracked
  <2>1. PICK i \in Slot : Found(q, i) /\ table[i].sz = held[q]
    BY DEF IInv, Tracked
  <2>2. \A j \in Before(Hash[q], i) : j \in Slot /\ table[j].ptr # NULL
    BY <2>1 DEF Found, Before
  <2>3. table'[i].occupied /\ table'[i].ptr = q /\ table'[i].sz = held[q]
    BY <1>1, <2>1 DEF Found
  <2>4. Found(q, i)'
    BY <1>1, <2>2, <2>3 DEF Found
  <2> QED
    BY <2>3, <2>4
<1> QED
  BY <1>1, <1>2, <1>3, <1>4

\* The invariant holds initially.
LEMMA InitIInv == Init => IInv
<1> SUFFICES ASSUME Init PROVE IInv
  OBVIOUS
<1>1. \A i \in Slot : table[i] = [ptr |-> NULL, sz |-> 0, occupied |-> FALSE]
  BY DEF Init
<1>2. Shape
  BY DEF Init, Shape, Jobs, Idle
<1>3. CallsOwn
  BY DEF Init, CallsOwn, Idle
<1>4. PathsHold /\ OneEntry
  BY <1>1 DEF PathsHold, OneEntry
<1>5. Tracked
  BY DEF Init, Tracked
<1> QED
  BY <1>2, <1>3, <1>4, <1>5 DEF IInv

\* The parts that are about the table only depend on it and on held and lost.
LEMMA TableUnchanged ==
  ASSUME IInv, UNCHANGED <<table, held, lost>>
  PROVE  PathsHold' /\ OneEntry' /\ Tracked'
BY DEF IInv, PathsHold, OneEntry, Tracked, Found

\* Each call of the operating system and of the table preserves it.
LEMMA MallocIInv ==
  ASSUME IInv, NEW t \in Threads, NEW p \in Ptrs, NEW sz \in Sizes, Malloc(t, p, sz)
  PROVE  IInv'
<1>1. /\ p \notin live /\ live' = live \cup {p}
      /\ job[t] = Idle /\ job' = [job EXCEPT ![t] = Job("insert", p, sz)]
      /\ UNCHANGED <<table, held, lost>>
  BY DEF Malloc, Starts
<1>2. Job("insert", p, sz) \in Jobs
  BY DEF Job, Jobs
<1>3. Shape'
  BY <1>1, <1>2 DEF IInv, Shape
<1>4. CallsOwn'
  <2>1. \A u \in Threads : job'[u] = IF u = t THEN Job("insert", p, sz) ELSE job[u]
    BY <1>1 DEF IInv, Shape
  <2>2. \A u \in Threads : job[u].op # "idle" => job[u].ptr # p
    BY <1>1 DEF IInv, CallsOwn
  <2> QED
    BY <1>1, <2>1, <2>2 DEF IInv, Shape, CallsOwn, Job
<1>5. PathsHold' /\ OneEntry' /\ Tracked'
  BY <1>1, TableUnchanged
<1> QED
  BY <1>3, <1>4, <1>5 DEF IInv

LEMMA InsertIInv ==
  ASSUME IInv, NEW t \in Threads, Insert(t)
  PROVE  IInv'
<1> DEFINE b == job[t].ptr
<1> DEFINE n == job[t].sz
<1>1. /\ b \in Ptrs /\ n \in Sizes /\ b \in live /\ b \notin DOMAIN held
      /\ job[t].op = "insert" /\ job' = [job EXCEPT ![t] = Idle]
      /\ held' = Put(held, b, n) /\ live' = live
  BY DEF Insert, IInv, Shape, CallsOwn, Jobs, Idle
<1>2. /\ DOMAIN held' = DOMAIN held \cup {b}
      /\ held'[b] = n
      /\ \A q \in DOMAIN held : held'[q] = held[q]
  BY <1>1 DEF Put
<1>3. job' \in [Threads -> Jobs]
  BY <1>1 DEF IInv, Shape, Jobs
<1>4. CallsOwn'
  <2>1. \A u \in Threads : job'[u] = IF u = t THEN Idle ELSE job[u]
    BY <1>1 DEF IInv, Shape
  <2>2. \A u \in Threads \ {t} : job[u].op # "idle" => job[u].ptr # b
    BY <1>1 DEF IInv, CallsOwn
  <2> QED
    BY <1>1, <1>2, <2>1, <2>2 DEF IInv, CallsOwn, Idle
<1>5. CASE UNCHANGED lost /\ \E i \in Slot : FreeFor(b, i) /\ InsertAt(b, n, i)
  <2>1. PICK i \in Slot : FreeFor(b, i) /\ InsertAt(b, n, i)
    BY <1>5
  <2>2. /\ table' \in [Slot -> [ptr : Ptrs \cup {NULL}, sz : Sizes \cup {0}, occupied : BOOLEAN]]
        /\ table'[i] = [ptr |-> b, sz |-> n, occupied |-> TRUE]
        /\ \A j \in Slot \ {i} : table'[j] = table[j]
        /\ \A j \in Slot : table[j].ptr # NULL => table'[j].ptr # NULL
        /\ PathsHold'
    BY <1>1, <2>1, Inserts DEF IInv
  <2>3. Shape'
    BY <1>1, <1>2, <1>3, <1>5, <2>2 DEF IInv, Shape
  <2>4. OneEntry'
    BY <1>1, <1>2, <1>5, <2>2 DEF IInv, Shape, OneEntry
  <2>5. Tracked'
    <3> SUFFICES ASSUME NEW q \in DOMAIN held' \ lost'
                 PROVE  \E k \in Slot : Found(q, k)' /\ table'[k].sz = held'[q]
      BY DEF Tracked
    <3>1. CASE q = b
      <4>1. \A j \in Before(Hash[b], i) : table'[j].ptr # NULL
        BY <2>2 DEF PathsHold
      <4> QED
        BY <1>2, <2>2, <3>1, <4>1 DEF Found
    <3>2. CASE q # b
      <4>1. q \in DOMAIN held \ lost /\ held'[q] = held[q]
        BY <1>2, <1>5, <3>2
      <4>2. PICK k \in Slot : Found(q, k) /\ table[k].sz = held[q]
        BY <4>1 DEF IInv, Tracked
      <4>3. table'[k] = table[k]
        BY <2>1, <2>2, <4>2 DEF FreeFor, Found
      <4>4. \A j \in Before(Hash[q], k) : j \in Slot /\ table'[j].ptr # NULL
        BY <2>2, <4>2 DEF Found, Before
      <4> QED
        BY <4>1, <4>2, <4>3, <4>4 DEF Found
    <3> QED
      BY <3>1, <3>2
  <2> QED
    BY <1>4, <2>2, <2>3, <2>4, <2>5 DEF IInv
<1>6. CASE lost' = lost \cup {b} /\ UNCHANGED table
  <2>1. Shape'
    BY <1>1, <1>2, <1>3, <1>6 DEF IInv, Shape
  <2>2. PathsHold' /\ OneEntry'
    BY <1>1, <1>2, <1>6 DEF IInv, PathsHold, OneEntry
  <2>3. Tracked'
    BY <1>1, <1>2, <1>6 DEF IInv, Tracked, Found
  <2> QED
    BY <1>4, <2>1, <2>2, <2>3 DEF IInv
<1> QED
  BY <1>5, <1>6 DEF Insert

\* A call that takes a block of the program away from it owns the block then.
LEMMA TakesBlock ==
  ASSUME IInv, NEW t \in Threads, NEW p \in DOMAIN held, NEW op \in {"free", "realloc"},
         NEW sz \in Sizes,
         job[t] = Idle, job' = [job EXCEPT ![t] = Job(op, p, sz)],
         RemovePtr(p), held' = Drop(held, p), lost' = lost \ {p}, UNCHANGED live
  PROVE  IInv'
<1>1. p \in Ptrs /\ p \in live
  BY DEF IInv, Shape
<1>2. /\ DOMAIN held' = DOMAIN held \ {p}
      /\ \A q \in DOMAIN held \ {p} : held'[q] = held[q]
  BY DEF Drop
<1>3. /\ table' \in [Slot -> [ptr : Ptrs \cup {NULL}, sz : Sizes \cup {0}, occupied : BOOLEAN]]
      /\ PathsHold'
      /\ OneEntry'
      /\ Tracked'
  BY <1>1, <1>2, AfterRemoval
<1>4. Job(op, p, sz) \in Jobs
  BY <1>1 DEF Job, Jobs
<1>5. Shape'
  BY <1>2, <1>3, <1>4 DEF IInv, Shape
<1>6. CallsOwn'
  <2>1. \A u \in Threads : job'[u] = IF u = t THEN Job(op, p, sz) ELSE job[u]
    BY DEF IInv, Shape
  <2>2. \A u \in Threads : job[u].op # "idle" => job[u].ptr # p
    BY DEF IInv, CallsOwn
  <2> QED
    BY <1>1, <1>2, <2>1, <2>2 DEF IInv, CallsOwn, Job
<1> QED
  BY <1>3, <1>5, <1>6 DEF IInv

LEMMA FreeIInv ==
  ASSUME IInv, NEW t \in Threads, NEW p \in Ptrs, Free(t, p)
  PROVE  IInv'
<1>1. p \in DOMAIN held /\ held[p] \in Sizes
  BY DEF Free, IInv, Shape
<1> QED
  BY <1>1, TakesBlock DEF Free, Starts

LEMMA ReallocIInv ==
  ASSUME IInv, NEW t \in Threads, NEW p \in Ptrs, NEW sz \in Sizes, Realloc(t, p, sz)
  PROVE  IInv'
BY TakesBlock DEF Realloc, Starts

LEMMA OsFreeIInv ==
  ASSUME IInv, NEW t \in Threads, OsFree(t)
  PROVE  IInv'
<1>1. /\ job[t].op # "idle"
      /\ live' = live \ {job[t].ptr}
      /\ job' = [job EXCEPT ![t] = Idle]
      /\ UNCHANGED <<table, held, lost>>
  BY DEF OsFree
<1>2. job[t].ptr \notin DOMAIN held
  BY <1>1 DEF IInv, CallsOwn
<1>3. Shape'
  BY <1>1, <1>2 DEF IInv, Shape, Jobs
<1>4. CallsOwn'
  <2>1. \A u \in Threads : job'[u] = IF u = t THEN Idle ELSE job[u]
    BY <1>1 DEF IInv, Shape
  <2> QED
    BY <1>1, <2>1 DEF IInv, CallsOwn, Idle
<1>5. PathsHold' /\ OneEntry' /\ Tracked'
  BY <1>1, TableUnchanged
<1> QED
  BY <1>3, <1>4, <1>5 DEF IInv

LEMMA OsReallocIInv ==
  ASSUME IInv, NEW t \in Threads, NEW q \in Ptrs, OsRealloc(t, q)
  PROVE  IInv'
<1> DEFINE b == job[t].ptr
<1>1. /\ job[t].op = "realloc"
      /\ q = b \/ q \notin live
      /\ live' = (live \ {b}) \cup {q}
      /\ job' = [job EXCEPT ![t] = Job("insert", q, job[t].sz)]
      /\ UNCHANGED <<table, held, lost>>
  BY DEF OsRealloc
<1>2. b \in Ptrs /\ b \in live /\ b \notin DOMAIN held /\ job[t].sz \in Sizes
  BY <1>1 DEF IInv, Shape, CallsOwn, Jobs, Idle
<1>3. q \notin DOMAIN held
  BY <1>1, <1>2 DEF IInv, Shape
<1>4. Job("insert", q, job[t].sz) \in Jobs
  BY <1>2 DEF Job, Jobs
<1>5. Shape'
  BY <1>1, <1>2, <1>4 DEF IInv, Shape
<1>6. CallsOwn'
  <2>1. \A u \in Threads : job'[u] = IF u = t THEN Job("insert", q, job[t].sz) ELSE job[u]
    BY <1>1 DEF IInv, Shape
  <2>2. \A u \in Threads \ {t} : job[u].op # "idle" => job[u].ptr # b /\ job[u].ptr # q
    BY <1>1 DEF IInv, CallsOwn
  <2> QED
    BY <1>1, <1>3, <2>1, <2>2 DEF IInv, CallsOwn, Job
<1>7. PathsHold' /\ OneEntry' /\ Tracked'
  BY <1>1, TableUnchanged
<1> QED
  BY <1>5, <1>6, <1>7 DEF IInv

LEMMA OsReallocFailsIInv ==
  ASSUME IInv, NEW t \in Threads, OsReallocFails(t)
  PROVE  IInv'
<1> DEFINE b == job[t].ptr
<1>1. /\ job[t].op = "realloc"
      /\ job' = [job EXCEPT ![t] = Idle]
      /\ held' = Put(held, b, job[t].sz)
      /\ lost' = lost \cup {b}
      /\ UNCHANGED <<table, live>>
  BY DEF OsReallocFails
<1>2. b \in live /\ b \notin DOMAIN held /\ job[t].sz \in Sizes
  BY <1>1 DEF IInv, Shape, CallsOwn, Jobs, Idle
<1>3. /\ DOMAIN held' = DOMAIN held \cup {b}
      /\ held'[b] = job[t].sz
      /\ \A q \in DOMAIN held : held'[q] = held[q]
  BY <1>1, <1>2 DEF Put
<1>4. Shape'
  BY <1>1, <1>2, <1>3 DEF IInv, Shape, Jobs
<1>5. CallsOwn'
  <2>1. \A u \in Threads : job'[u] = IF u = t THEN Idle ELSE job[u]
    BY <1>1 DEF IInv, Shape
  <2>2. \A u \in Threads \ {t} : job[u].op # "idle" => job[u].ptr # b
    BY <1>1 DEF IInv, CallsOwn
  <2> QED
    BY <1>1, <1>3, <2>1, <2>2 DEF IInv, CallsOwn, Idle
<1>6. PathsHold' /\ OneEntry'
  BY <1>1, <1>2, <1>3 DEF IInv, PathsHold, OneEntry
<1>7. Tracked'
  BY <1>1, <1>3 DEF IInv, Tracked, Found
<1> QED
  BY <1>4, <1>5, <1>6, <1>7 DEF IInv

LEMMA FreeAgainIInv ==
  ASSUME IInv, NEW t \in Threads, NEW p \in Ptrs, FreeAgain(t, p)
  PROVE  IInv'
<1>1. p \notin DOMAIN held /\ p \notin lost /\ RemovePtr(p) /\ UNCHANGED <<job, live, held, lost>>
  BY DEF FreeAgain, IInv, Shape
<1>2. /\ table' \in [Slot -> [ptr : Ptrs \cup {NULL}, sz : Sizes \cup {0}, occupied : BOOLEAN]]
      /\ PathsHold'
      /\ OneEntry'
      /\ Tracked'
  BY <1>1, AfterRemoval
<1>3. Shape' /\ CallsOwn'
  BY <1>1, <1>2 DEF IInv, Shape, CallsOwn
<1> QED
  BY <1>2, <1>3 DEF IInv

LEMMA StepIInv == IInv /\ [Next]_vars => IInv'
<1> SUFFICES ASSUME IInv, [Next]_vars PROVE IInv'
  OBVIOUS
<1>1. ASSUME NEW t \in Threads, NEW p \in Ptrs, NEW sz \in Sizes, Malloc(t, p, sz)
      PROVE  IInv'
  BY <1>1, MallocIInv
<1>2. ASSUME NEW t \in Threads, Insert(t) PROVE IInv'
  BY <1>2, InsertIInv
<1>3. ASSUME NEW t \in Threads, NEW p \in Ptrs, Free(t, p) PROVE IInv'
  BY <1>3, FreeIInv
<1>4. ASSUME NEW t \in Threads, OsFree(t) PROVE IInv'
  BY <1>4, OsFreeIInv
<1>5. ASSUME NEW t \in Threads, NEW p \in Ptrs, NEW sz \in Sizes, Realloc(t, p, sz)
      PROVE  IInv'
  BY <1>5, ReallocIInv
<1>6. ASSUME NEW t \in Threads, NEW q \in Ptrs, OsRealloc(t, q) PROVE IInv'
  BY <1>6, OsReallocIInv
<1>7. ASSUME NEW t \in Threads, OsReallocFails(t) PROVE IInv'
  BY <1>7, OsReallocFailsIInv
<1>8. ASSUME NEW t \in Threads, NEW p \in Ptrs, FreeAgain(t, p) PROVE IInv'
  BY <1>8, FreeAgainIInv
<1>9. CASE UNCHANGED vars
  <2>1. UNCHANGED <<table, held, lost, job, live>>
    BY <1>9 DEF vars
  <2>2. Shape' /\ CallsOwn'
    BY <2>1 DEF IInv, Shape, CallsOwn
  <2> QED
    BY <2>1, <2>2, TableUnchanged DEF IInv
<1> QED
  BY <1>1, <1>2, <1>3, <1>4, <1>5, <1>6, <1>7, <1>8, <1>9 DEF Next
-----------------------------------------------------------------------------
(* The theorems. *)

\* For any number of threads, blocks and slots, and any hash function, every
\* block the program holds is found in the table with its size.
THEOREM TrackedHolds == Spec => []Tracked
<1>1. IInv => Tracked
  BY DEF IInv
<1> QED
  BY InitIInv, StepIInv, <1>1, PTL DEF Spec

\* The report lists nothing but blocks that are allocated.
THEOREM ListsLiveHolds == Spec => []ListsLive
<1>1. IInv => ListsLive
  BY DEF IInv, Shape, OneEntry, ListsLive, Occupied
<1> QED
  BY InitIInv, StepIInv, <1>1, PTL DEF Spec

\* The table has the blocks the program holds, and no others.
THEOREM RecordsHeldHolds == Spec => []RecordsHeld
<1>1. Tracked /\ ListsLive => RecordsHeld
  BY DEF RecordsHeld
<1> QED
  BY <1>1, TrackedHolds, ListsLiveHolds, PTL

\* A block that the program holds is never reported when it is freed or
\* reallocated, unless its record was lost.
THEOREM NoFalseAlarmHolds == Spec => NoFalseAlarm
<1>1. ASSUME IInv, [Next]_vars, NEW p \in DOMAIN held \ lost, p \notin DOMAIN held'
      PROVE  last' = "ok"
  <2>1. p \in Ptrs /\ Entry(p)
    BY <1>1 DEF IInv, Shape, Tracked, Found, Entry
  <2>2. ASSUME NEW q \in Ptrs, RemovePtr(q), held' = Drop(held, q)
        PROVE  last' = "ok"
    <3>1. q = p
      BY <1>1, <2>2 DEF Drop
    <3> QED
      BY <1>1, <2>1, <2>2, <3>1, Removes DEF IInv
  <2>3. ASSUME NEW t \in Threads, NEW q \in Ptrs, Free(t, q)
        PROVE  last' = "ok"
    BY <2>2, <2>3 DEF Free
  <2>4. ASSUME NEW t \in Threads, NEW q \in Ptrs, NEW sz \in Sizes, Realloc(t, q, sz)
        PROVE  last' = "ok"
    BY <2>2, <2>4 DEF Realloc
  <2>5. ASSUME NEW t \in Threads, Insert(t) \/ OsReallocFails(t)
        PROVE  FALSE
    BY <1>1, <2>5 DEF Insert, OsReallocFails, Put
  <2>6. ASSUME NEW t \in Threads,
               \/ \E q \in Ptrs, sz \in Sizes : Malloc(t, q, sz)
               \/ OsFree(t)
               \/ \E q \in Ptrs : OsRealloc(t, q) \/ FreeAgain(t, q)
        PROVE  FALSE
    BY <1>1, <2>6 DEF Malloc, OsFree, OsRealloc, FreeAgain
  <2>7. CASE UNCHANGED vars
    BY <1>1, <2>7 DEF vars
  <2> QED
    BY <1>1, <2>3, <2>4, <2>5, <2>6, <2>7 DEF Next
<1>2. IInv /\ [Next]_vars =>
        [\A t \in Threads, p \in Ptrs :
           p \in DOMAIN held \ lost /\ p \notin DOMAIN held' => last' = "ok"]_vars
  BY <1>1
<1> QED
  BY InitIInv, StepIInv, <1>2, PTL DEF Spec, NoFalseAlarm

\* Freeing a block that the program does not hold is always reported.
THEOREM DoubleFreesReportedHolds == Spec => DoubleFreesReported
<1>1. ASSUME IInv, NEW t \in Threads, NEW p \in Ptrs, FreeAgain(t, p)
      PROVE  last' = "unknown"
  <2>1. p \notin DOMAIN held /\ RemovePtr(p)
    BY <1>1 DEF FreeAgain
  <2>2. ~Entry(p)
    BY <1>1, <2>1 DEF IInv, OneEntry, Entry
  <2> QED
    BY <1>1, <2>1, <2>2, Removes DEF IInv
<1>2. IInv /\ [Next]_vars =>
        [\A t \in Threads, p \in Ptrs : FreeAgain(t, p) => last' = "unknown"]_vars
  BY <1>1
<1> QED
  BY InitIInv, StepIInv, <1>2, PTL DEF Spec, DoubleFreesReported

\* What is said of a free is right: of every second free, and of no other but one
\* whose record was lost.
THEOREM FreesJudgedHolds == Spec => FreesJudged
BY NoFalseAlarmHolds, DoubleFreesReportedHolds DEF FreesJudged

-----------------------------------------------------------------------------
(* The table implements MemRecords. *)

\* Recorded is what the entries say, ...
RecordedAgrees ==
  /\ Recorded = [p \in DOMAIN Recorded |-> Recorded[p]]
  /\ \A p : p \in DOMAIN Recorded <=> Entry(p)
  /\ \A i \in Slot : table[i].occupied => Recorded[table[i].ptr] = table[i].sz

\* ... if each block has one at most.
LEMMA RecordedValues == OneEntry => RecordedAgrees
<1> SUFFICES ASSUME OneEntry PROVE RecordedAgrees
  OBVIOUS
<1>1. \A p : p \in DOMAIN Recorded <=> Entry(p)
  BY DEF Recorded, Occupied, Entry
<1>2. ASSUME NEW i \in Slot, table[i].occupied
      PROVE  Recorded[table[i].ptr] = table[i].sz
  <2> DEFINE k == CHOOSE j \in Occupied : table[j].ptr = table[i].ptr
  <2>1. i \in Occupied
    BY <1>2 DEF Occupied
  <2>2. k \in Occupied /\ table[k].ptr = table[i].ptr
    BY <2>1
  <2>3. k = i
    BY <1>2, <2>2 DEF OneEntry, Occupied
  <2>4. Recorded[table[i].ptr] = table[k].sz
    BY <2>1 DEF Recorded
  <2> QED
    BY <2>3, <2>4
<1>3. Recorded = [p \in DOMAIN Recorded |-> Recorded[p]]
  BY DEF Recorded
<1> QED
  BY <1>1, <1>2, <1>3 DEF RecordedAgrees

LEMMA RecordedValuesNext == OneEntry' => RecordedAgrees'
BY RecordedValues, PTL

\* The table is full exactly if as many blocks are recorded as it has slots.
LEMMA RecordedCardinality ==
  ASSUME OneEntry
  PROVE  /\ Full => Cardinality(DOMAIN Recorded) = Slots
         /\ (\E i \in Slot : ~table[i].occupied) => Cardinality(DOMAIN Recorded) < Slots
<1> DEFINE D == DOMAIN Recorded
<1> DEFINE f == [i \in Occupied |-> table[i].ptr]
<1>1. IsFiniteSet(Slot) /\ Cardinality(Slot) = Slots
  BY FS_Interval, MemTableAssumption DEF Slot
<1>2. IsFiniteSet(Occupied) /\ Cardinality(Occupied) \in Nat
  BY <1>1, FS_Subset, FS_CardinalityType DEF Occupied
<1>3. D = {table[i].ptr : i \in Occupied}
  BY DEF Recorded
<1>4. f \in Bijection(Occupied, D)
  <2>1. f \in [Occupied -> D]
    BY <1>3
  <2>2. \A i, j \in Occupied : f[i] = f[j] => i = j
    BY DEF OneEntry, Occupied
  <2>3. \A p \in D : \E i \in Occupied : f[i] = p
    BY <1>3
  <2> QED
    BY <2>1, <2>2, <2>3 DEF Bijection, Injection, Surjection, IsInjective
<1>5. Cardinality(D) = Cardinality(Occupied)
  BY <1>2, <1>4, FS_Bijection DEF ExistsBijection
<1>6. Full => Cardinality(D) = Slots
  <2>1. Full => Occupied = Slot
    BY DEF Full, Occupied
  <2> QED
    BY <1>1, <1>5, <2>1
<1>7. (\E i \in Slot : ~table[i].occupied) => Cardinality(D) < Slots
  <2>1. (\E i \in Slot : ~table[i].occupied) => Occupied # Slot /\ Occupied \in SUBSET Slot
    BY DEF Occupied
  <2>2. ASSUME Occupied # Slot
        PROVE  Cardinality(Occupied) < Cardinality(Slot)
    <3>1. Occupied \in SUBSET Slot
      BY DEF Occupied
    <3>2. /\ Cardinality(Occupied) <= Cardinality(Slot)
          /\ Cardinality(Slot) = Cardinality(Occupied) => Slot = Occupied
      BY <1>1, <3>1, FS_Subset
    <3> QED
      BY <1>1, <1>2, <2>2, <3>2, MemTableAssumption
  <2> QED
    BY <1>1, <1>5, <2>1, <2>2
<1> QED
  BY <1>6, <1>7

\* Both modules mean the same by cardinality.
LEMMA SameCardinality ==
  \A S : Records!Cardinality(S) = Cardinality(S)
BY DEF Records!Cardinality, Cardinality

LEMMA RemovalImplements ==
  ASSUME IInv, IInv', NEW p \in Ptrs, RemovePtr(p)
  PROVE  Records!Remove(p)
<1>1. RecordedAgrees /\ RecordedAgrees'
  BY RecordedValues, RecordedValuesNext DEF IInv
<1>2. /\ \A i \in Slot :
           /\ table'[i].ptr = table[i].ptr
           /\ table'[i].sz = table[i].sz
           /\ table'[i].occupied <=> table[i].occupied /\ table[i].ptr # p
      /\ last' = IF Entry(p) THEN "ok" ELSE "unknown"
  BY Removes DEF IInv
<1>3. DOMAIN Recorded' = DOMAIN Recorded \ {p}
  <2>1. \A q : Entry(q)' <=> Entry(q) /\ q # p
    BY <1>2 DEF Entry
  <2> QED
    BY <1>1, <2>1 DEF RecordedAgrees
<1>4. ASSUME NEW q \in DOMAIN Recorded \ {p}
      PROVE  Recorded'[q] = Recorded[q]
  <2>1. PICK i \in Slot : table[i].occupied /\ table[i].ptr = q
    BY <1>1 DEF RecordedAgrees, Entry
  <2>2. table'[i].occupied /\ table'[i].ptr = q /\ table'[i].sz = table[i].sz
    BY <1>2, <2>1
  <2> QED
    BY <1>1, <2>1, <2>2 DEF RecordedAgrees
<1>5. Recorded' = [q \in DOMAIN Recorded \ {p} |-> Recorded[q]]
  BY <1>1, <1>3, <1>4 DEF RecordedAgrees
<1> QED
  BY <1>1, <1>2, <1>5 DEF Records!Remove, RecordedAgrees

LEMMA InsertionImplements ==
  ASSUME IInv, IInv', NEW t \in Threads, Insert(t)
  PROVE  \E p \in Ptrs, sz \in Sizes : Records!Insert(p, sz)
<1> DEFINE b == job[t].ptr
<1> DEFINE n == job[t].sz
<1>1. RecordedAgrees /\ RecordedAgrees'
  BY RecordedValues, RecordedValuesNext DEF IInv
<1>2. b \in Ptrs /\ n \in Sizes /\ b \notin DOMAIN held
  BY DEF Insert, IInv, Shape, CallsOwn, Jobs, Idle
<1>3. b \notin DOMAIN Recorded
  BY <1>1, <1>2 DEF RecordedAgrees, Entry, IInv, OneEntry
<1>4. CASE \E i \in Slot : FreeFor(b, i) /\ InsertAt(b, n, i)
  <2>1. PICK i \in Slot : FreeFor(b, i) /\ InsertAt(b, n, i)
    BY <1>4
  <2>2. /\ table'[i] = [ptr |-> b, sz |-> n, occupied |-> TRUE]
        /\ \A j \in Slot \ {i} : table'[j] = table[j]
    BY <1>2, <2>1, Inserts DEF IInv
  <2>3. ~table[i].occupied /\ last' = "ok"
    BY <2>1 DEF FreeFor, InsertAt
  <2>4. DOMAIN Recorded' = DOMAIN Recorded \cup {b}
    <3>1. \A q : Entry(q)' <=> Entry(q) \/ q = b
      BY <2>2, <2>3 DEF Entry
    <3> QED
      BY <1>1, <3>1 DEF RecordedAgrees
  <2>5. Recorded'[b] = n
    BY <1>1, <2>2 DEF RecordedAgrees
  <2>6. ASSUME NEW q \in DOMAIN Recorded
        PROVE  Recorded'[q] = Recorded[q]
    <3>1. PICK k \in Slot : table[k].occupied /\ table[k].ptr = q
      BY <1>1 DEF RecordedAgrees, Entry
    <3>2. table'[k] = table[k]
      BY <2>2, <2>3, <3>1
    <3> QED
      BY <1>1, <3>1, <3>2 DEF RecordedAgrees
  <2>7. Recorded' = [q \in DOMAIN Recorded \cup {b} |-> IF q = b THEN n ELSE Recorded[q]]
    BY <1>1, <1>3, <2>4, <2>5, <2>6 DEF RecordedAgrees
  <2>8. Cardinality(DOMAIN Recorded) < Slots
    BY <2>3, RecordedCardinality DEF IInv
  <2>9. Records!Insert(b, n)
    BY <1>3, <2>3, <2>7, <2>8, SameCardinality DEF Records!Insert
  <2> QED
    BY <1>2, <2>9
<1>5. CASE Full /\ last' = "full" /\ UNCHANGED table
  <2>1. Cardinality(DOMAIN Recorded) = Slots
    BY <1>5, RecordedCardinality DEF IInv
  <2>2. Recorded' = Recorded
    BY <1>5 DEF Recorded, Occupied
  <2>3. Records!Insert(b, n)
    BY <1>3, <1>5, <2>1, <2>2, SameCardinality DEF Records!Insert
  <2> QED
    BY <1>2, <2>3
<1> QED
  BY <1>4, <1>5 DEF Insert

\* For any number of threads, blocks and slots, and any hash function, the
\* table is a function from blocks to sizes: every lookup finds exactly what
\* was inserted and not removed, and it is full only with a record per slot.
THEOREM ImplementsRecords == Spec => RecordsSpec
<1>1. Init => Records!Init
  <2> SUFFICES ASSUME Init PROVE Records!Init
    OBVIOUS
  <2>1. Occupied = {}
    BY DEF Init, Occupied
  <2>2. Recorded = [p \in {} |-> 0]
    BY <2>1 DEF Recorded
  <2> QED
    BY <2>2 DEF Init, Records!Init
<1>2. ASSUME IInv, IInv', [Next]_vars
      PROVE  [Records!Next]_<<Recorded, last>>
  <2>1. ASSUME NEW p \in Ptrs, RemovePtr(p)
        PROVE  Records!Next
    BY <1>2, <2>1, RemovalImplements DEF Records!Next
  <2>2. ASSUME NEW t \in Threads, Insert(t)
        PROVE  Records!Next
    BY <1>2, <2>2, InsertionImplements DEF Records!Next
  <2>3. CASE UNCHANGED <<table, last>>
    BY <2>3 DEF Recorded, Occupied
  <2>4. ASSUME NEW t \in Threads,
               \/ OsFree(t)
               \/ OsReallocFails(t)
               \/ \E p \in Ptrs, sz \in Sizes : Malloc(t, p, sz)
               \/ \E q \in Ptrs : OsRealloc(t, q)
        PROVE  UNCHANGED <<table, last>>
    BY <2>4 DEF OsFree, OsReallocFails, Malloc, OsRealloc
  <2>5. ASSUME NEW t \in Threads, NEW p \in Ptrs,
               \/ Free(t, p)
               \/ FreeAgain(t, p)
               \/ \E sz \in Sizes : Realloc(t, p, sz)
        PROVE  Records!Next
    BY <2>1, <2>5 DEF Free, FreeAgain, Realloc
  <2>6. CASE UNCHANGED vars
    BY <2>3, <2>6 DEF vars
  <2> QED
    BY <1>2, <2>2, <2>3, <2>4, <2>5, <2>6 DEF Next
<1>3. Spec => []IInv
  BY InitIInv, StepIInv, PTL DEF Spec
<1> QED
  BY <1>1, <1>2, <1>3, PTL DEF Spec, RecordsSpec, Records!Spec

-----------------------------------------------------------------------------
(* Sums over finite sets of slots.  The induction is by a smallest subset for *)
(* which what is to be shown fails.                                           *)

\* The sizes in the slots S of a table t.
TotalOf(t, S) == MapThenSumSet(LAMBDA i : t[i].sz, S)

Pick(s) == CHOOSE x \in s : TRUE

\* g sums the sizes up over the subsets of S, as MapThenFoldSet does.
Sums(t, S, g) ==
  g = [s \in SUBSET S |-> IF s = {} THEN 0 ELSE t[Pick(s)].sz + g[s \ {Pick(s)}]]

\* A total is what such a function returns.
LEMMA SumIsSums ==
  ASSUME NEW t, NEW S
  PROVE  TotalOf(t, S) = (CHOOSE g : Sums(t, S, g))[S]
BY DEF TotalOf, MapThenSumSet, MapThenFoldSet, Sums, Pick

\* A set of subsets of a finite set has a smallest one.
LEMMA SmallestSet ==
  ASSUME NEW S, IsFiniteSet(S), NEW T \in SUBSET (SUBSET S), T # {}
  PROVE  \E s \in T : \A r \in T : r \subseteq s => r = s
<1>1. FiniteSubsetsOf(S) = SUBSET S
  BY FS_FiniteSubsetsOfFinite
<1>2. PICK s \in T : \A r \in T : <<r, s>> \notin StrictSubsetOrdering(S)
  BY <1>1, FS_StrictSubsetOrderingWellFounded, WFMin
<1>3. \A r \in T : r \subseteq s => r = s
  BY <1>2 DEF StrictSubsetOrdering
<1> QED
  BY <1>3

\* Each sum is the picked element's size and the sum of the rest.
Steps(t, S, g) ==
  /\ g[{}] = 0
  /\ \A s \in SUBSET S : s # {} => Pick(s) \in s /\ g[s] = t[Pick(s)].sz + g[s \ {Pick(s)}]

\* A function that sums up goes by such steps.
LEMMA SumsStep ==
  ASSUME NEW t, NEW S, NEW g, Sums(t, S, g)
  PROVE  Steps(t, S, g)
<1>1. \A s : s # {} => Pick(s) \in s
  BY DEF Pick
<1>2. \A s \in SUBSET S : g[s] = IF s = {} THEN 0 ELSE t[Pick(s)].sz + g[s \ {Pick(s)}]
  BY DEF Sums
<1>3. {} \in SUBSET S
  OBVIOUS
<1> QED
  BY <1>1, <1>2, <1>3 DEF Steps

\* Sums of integers are integers.
LEMMA SumsAreInt ==
  ASSUME NEW S, IsFiniteSet(S), NEW t, \A x \in S : t[x].sz \in Int, NEW g, Sums(t, S, g)
  PROVE  \A s \in SUBSET S : g[s] \in Int
<1>0. Steps(t, S, g)
  BY SumsStep
<1> DEFINE T == {s \in SUBSET S : g[s] \notin Int}
<1> SUFFICES ASSUME T # {} PROVE FALSE
  OBVIOUS
<1>1. T \in SUBSET (SUBSET S)
  OBVIOUS
<1>2. PICK s \in T : \A r \in T : r \subseteq s => r = s
  <2> HIDE DEF T
  <2> QED  BY <1>1, SmallestSet
<1>3. s \in SUBSET S /\ g[s] \notin Int
  BY <1>2
<1>4. s # {}
  <2>1. g[{}] \in Int
    BY <1>0 DEF Steps
  <2> QED  BY <1>3, <2>1
<1>5. Pick(s) \in s /\ g[s] = t[Pick(s)].sz + g[s \ {Pick(s)}]
  BY <1>3, <1>4, <1>0 DEF Steps
<1>6. s \ {Pick(s)} \in SUBSET S /\ s \ {Pick(s)} # s
  BY <1>3, <1>5
<1>7. g[s \ {Pick(s)}] \in Int
  BY <1>2, <1>6
<1>8. t[Pick(s)].sz \in Int
  BY <1>3, <1>5
<1> QED
  BY <1>3, <1>5, <1>7, <1>8

\* The order in which elements are added does not matter.
LEMMA AnyElement ==
  ASSUME NEW S, IsFiniteSet(S), NEW t, \A x \in S : t[x].sz \in Int, NEW g, Sums(t, S, g)
  PROVE  \A s \in SUBSET S : \A x \in s : g[s] = t[x].sz + g[s \ {x}]
<1> DEFINE T == {s \in SUBSET S : \E x \in s : g[s] # t[x].sz + g[s \ {x}]}
<1> SUFFICES ASSUME T # {} PROVE FALSE
  OBVIOUS
<1>1. T \in SUBSET (SUBSET S)
  OBVIOUS
<1>2. PICK s \in T : \A r \in T : r \subseteq s => r = s
  <2> HIDE DEF T
  <2> QED  BY <1>1, SmallestSet
<1>3. PICK x \in s : g[s] # t[x].sz + g[s \ {x}]
  BY <1>2
<1> DEFINE c == Pick(s)
<1>4. s \in SUBSET S /\ s # {}
  BY <1>2, <1>3
<1>5. c \in s /\ g[s] = t[c].sz + g[s \ {c}]
  <2>1. Steps(t, S, g)
    BY SumsStep
  <2> QED  BY <1>4, <2>1 DEF Steps
<1>6. c # x
  BY <1>3, <1>5
<1>7. g[s \ {c}] = t[x].sz + g[(s \ {c}) \ {x}]
  <2>1. s \ {c} \in SUBSET S /\ s \ {c} # s /\ s \ {c} \subseteq s /\ x \in s \ {c}
    BY <1>4, <1>5, <1>6, <1>3
  <2> QED  BY <1>2, <2>1
<1>8. g[s \ {x}] = t[c].sz + g[(s \ {x}) \ {c}]
  <2>1. s \ {x} \in SUBSET S /\ s \ {x} # s /\ s \ {x} \subseteq s /\ c \in s \ {x}
    BY <1>4, <1>5, <1>6, <1>3
  <2> QED  BY <1>2, <2>1
<1>9. (s \ {c}) \ {x} = (s \ {x}) \ {c}
  OBVIOUS
<1>10. PICK r : r = (s \ {c}) \ {x}
  OBVIOUS
<1>11. g[r] \in Int
  BY <1>4, <1>10, SumsAreInt
<1>12. t[c].sz \in Int /\ t[x].sz \in Int
  BY <1>4, <1>5, <1>3
<1>13. g[s \ {c}] = t[x].sz + g[r] /\ g[s \ {x}] = t[c].sz + g[r]
  BY <1>7, <1>8, <1>9, <1>10
<1> QED
  BY <1>3, <1>5, <1>11, <1>12, <1>13

SameSizes(u, t, S) == \A x \in S : u[x].sz = t[x].sz

\* Tables that agree on the sizes have the same sums.
LEMMA SameSums ==
  ASSUME NEW R, NEW S, IsFiniteSet(S), NEW u, NEW t, NEW g, NEW h,
         Sums(u, R, g), Sums(t, S, h), S \subseteq R, SameSizes(u, t, S)
  PROVE  \A s \in SUBSET S : g[s] = h[s]
<1>0. Steps(u, R, g) /\ Steps(t, S, h)
  BY SumsStep
<1> DEFINE T == {s \in SUBSET S : g[s] # h[s]}
<1> SUFFICES ASSUME T # {} PROVE FALSE
  OBVIOUS
<1>1. T \in SUBSET (SUBSET S)
  OBVIOUS
<1>2. PICK s \in T : \A r \in T : r \subseteq s => r = s
  <2> HIDE DEF T
  <2> QED  BY <1>1, SmallestSet
<1>3. s \in SUBSET S /\ s \in SUBSET R /\ g[s] # h[s]
  BY <1>2
<1>4. s # {}
  BY <1>3, <1>0 DEF Steps
<1>5. Pick(s) \in s /\ g[s] = u[Pick(s)].sz + g[s \ {Pick(s)}]
  BY <1>3, <1>4, <1>0 DEF Steps
<1>6. h[s] = t[Pick(s)].sz + h[s \ {Pick(s)}]
  BY <1>3, <1>4, <1>0 DEF Steps
<1>7. s \ {Pick(s)} \in SUBSET S /\ s \ {Pick(s)} # s
  BY <1>3, <1>5
<1>8. g[s \ {Pick(s)}] = h[s \ {Pick(s)}]
  BY <1>2, <1>7
<1>9. u[Pick(s)].sz = t[Pick(s)].sz
  BY <1>3, <1>5 DEF SameSizes
<1> QED
  BY <1>3, <1>5, <1>6, <1>8, <1>9

\* There is such a function for every finite set.
LEMMA SumsExist ==
  ASSUME NEW S, IsFiniteSet(S), NEW t
  PROVE  \E g : Sums(t, S, g)
<1> DEFINE T == {s \in SUBSET S : ~\E g : Sums(t, s, g)}
<1> SUFFICES ASSUME T # {} PROVE FALSE
  <2>1. S \in SUBSET S
    OBVIOUS
  <2> QED  BY <2>1
<1>1. T \in SUBSET (SUBSET S)
  OBVIOUS
<1>2. PICK s \in T : \A r \in T : r \subseteq s => r = s
  <2> HIDE DEF T
  <2> QED  BY <1>1, SmallestSet
<1>3. s \in SUBSET S /\ ~\E g : Sums(t, s, g)
  BY <1>2
<1>4. CASE s = {}
  <2> DEFINE g == [r \in SUBSET s |-> 0]
  <2>1. Sums(t, s, g)
    BY <1>4 DEF Sums
  <2> QED  BY <1>3, <2>1
<1>5. CASE s # {}
  <2>1. PICK c \in s : TRUE
    BY <1>5
  <2>2. IsFiniteSet(s)
    BY <1>3, FS_Subset
  <2>3. \A r \in SUBSET s : r # s => \E h : Sums(t, r, h)
    BY <1>2, <1>3
  <2> DEFINE G(r) == (CHOOSE h : Sums(t, r, h))[r]
  <2> DEFINE low == [r \in SUBSET s |-> G(r)]
  <2> DEFINE g == [r \in SUBSET s |-> IF r = s THEN t[Pick(s)].sz + low[s \ {Pick(s)}] ELSE low[r]]
  <2>4. ASSUME NEW r \in SUBSET s, r # s, r # {}
        PROVE  Pick(r) \in r /\ low[r] = t[Pick(r)].sz + low[r \ {Pick(r)}]
    <3>1. PICK h : h = CHOOSE k : Sums(t, r, k)
      OBVIOUS
    <3>2. Sums(t, r, h)
      BY <2>3, <2>4, <3>1
    <3>3. Pick(r) \in r /\ h[r] = t[Pick(r)].sz + h[r \ {Pick(r)}]
      BY <2>4, <3>2, SumsStep DEF Steps
    <3>4. PICK q : q = r \ {Pick(r)}
      OBVIOUS
    <3>5. q \in SUBSET s /\ q # s /\ q \subseteq r
      BY <2>4, <3>3, <3>4
    <3>6. PICK k : k = CHOOSE m : Sums(t, q, m)
      OBVIOUS
    <3>7. Sums(t, q, k)
      BY <2>3, <3>5, <3>6
    <3>8. IsFiniteSet(q)
      BY <2>2, <3>5, FS_Subset
    <3>9. h[q] = k[q]
      <4>1. SameSizes(t, t, q)
        BY DEF SameSizes
      <4> QED  BY <3>2, <3>7, <3>5, <3>8, <4>1, SameSums
    <3>10. low[r] = h[r]
      BY <3>1
    <3>11. low[q] = k[q]
      BY <3>5, <3>6
    <3> QED  BY <3>3, <3>4, <3>9, <3>10, <3>11
  <2>5. low[{}] = 0
    <3>1. {} \in SUBSET s /\ {} # s
      BY <1>5
    <3>2. PICK h : h = CHOOSE k : Sums(t, {}, k)
      OBVIOUS
    <3>3. Sums(t, {}, h)
      BY <2>3, <3>1, <3>2
    <3>4. h[{}] = 0
      BY <3>3, SumsStep DEF Steps
    <3>5. low[{}] = h[{}]
      BY <3>1, <3>2
    <3> QED  BY <3>4, <3>5
  <2>6. Pick(s) \in s
    BY <1>5 DEF Pick
  <2>7. Sums(t, s, g)
    <3> HIDE DEF low
    <3>1. ASSUME NEW r \in SUBSET s
          PROVE  g[r] = IF r = {} THEN 0 ELSE t[Pick(r)].sz + g[r \ {Pick(r)}]
      <4>1. CASE r = {}
        BY <1>5, <2>5, <4>1
      <4>2. CASE r = s
        <5>1. s \ {Pick(s)} # s /\ s \ {Pick(s)} \in SUBSET s
          BY <2>6
        <5>2. g[s \ {Pick(s)}] = low[s \ {Pick(s)}]
          BY <5>1
        <5> QED  BY <1>5, <4>2, <5>2
      <4>3. CASE r # {} /\ r # s
        <5>1. Pick(r) \in r /\ low[r] = t[Pick(r)].sz + low[r \ {Pick(r)}]
          BY <2>4, <4>3
        <5>2. r \ {Pick(r)} # s /\ r \ {Pick(r)} \in SUBSET s
          BY <5>1
        <5>3. g[r \ {Pick(r)}] = low[r \ {Pick(r)}]
          BY <5>2
        <5>4. g[r] = low[r]
          BY <4>3
        <5> QED  BY <4>3, <5>1, <5>3, <5>4
      <4> QED  BY <4>1, <4>2, <4>3
    <3>2. g = [r \in SUBSET s |-> g[r]]
      OBVIOUS
    <3> QED  BY <3>1, <3>2 DEF Sums
  <2> QED  BY <1>3, <2>7
<1> QED
  BY <1>4, <1>5

\* The total of no slots is 0, ...
LEMMA SumOfNone ==
  ASSUME NEW t
  PROVE  TotalOf(t, {}) = 0
<1>1. PICK g : g = CHOOSE h : Sums(t, {}, h)
  OBVIOUS
<1>2. Sums(t, {}, g)
  BY <1>1, SumsExist, FS_EmptySet
<1>3. g[{}] = 0
  BY <1>2, SumsStep DEF Steps
<1> QED
  BY <1>1, <1>3, SumIsSums

\* ... of more it is any one's size and the total of the others, ...
LEMMA SumOfMore ==
  ASSUME NEW S, IsFiniteSet(S), NEW x \in S, NEW t, \A y \in S : t[y].sz \in Int
  PROVE  TotalOf(t, S) = t[x].sz + TotalOf(t, S \ {x})
<1>1. PICK R : R = S \ {x}
  OBVIOUS
<1>2. IsFiniteSet(R) /\ R \subseteq S
  BY <1>1, FS_RemoveElement
<1>3. PICK g : g = CHOOSE h : Sums(t, S, h)
  OBVIOUS
<1>4. PICK k : k = CHOOSE h : Sums(t, R, h)
  OBVIOUS
<1>5. Sums(t, S, g) /\ Sums(t, R, k)
  BY <1>2, <1>3, <1>4, SumsExist
<1>6. g[S] = t[x].sz + g[R]
  BY <1>1, <1>5, AnyElement
<1>7. g[R] = k[R]
  <2>1. SameSizes(t, t, R)
    BY DEF SameSizes
  <2> QED  BY <1>2, <1>5, <2>1, SameSums
<1> QED
  BY <1>1, <1>3, <1>4, <1>6, <1>7, SumIsSums

\* ... and it depends on nothing but the sizes.
LEMMA SumOfSame ==
  ASSUME NEW S, IsFiniteSet(S), NEW u, NEW t, SameSizes(u, t, S)
  PROVE  TotalOf(u, S) = TotalOf(t, S)
<1>1. PICK g : g = CHOOSE h : Sums(u, S, h)
  OBVIOUS
<1>2. PICK k : k = CHOOSE h : Sums(t, S, h)
  OBVIOUS
<1>3. Sums(u, S, g) /\ Sums(t, S, k)
  BY <1>1, <1>2, SumsExist
<1>4. \A s \in SUBSET S : g[s] = k[s]
  <2>1. S \subseteq S
    OBVIOUS
  <2> QED  BY <1>3, <2>1, SameSums
<1> QED
  BY <1>1, <1>2, <1>4, SumIsSums

\* A total of integers is an integer.
LEMMA SumIsInt ==
  ASSUME NEW S, IsFiniteSet(S), NEW t, \A x \in S : t[x].sz \in Int
  PROVE  TotalOf(t, S) \in Int
<1>1. PICK g : g = CHOOSE h : Sums(t, S, h)
  OBVIOUS
<1>2. Sums(t, S, g)
  BY <1>1, SumsExist
<1>3. g[S] \in Int
  BY <1>2, SumsAreInt
<1> QED
  BY <1>1, <1>3, SumIsSums
-----------------------------------------------------------------------------
(* The statistics. *)

\* The statistics agree with the entries, ...
CountInv ==
  /\ allocation_count = Cardinality(Occupied)
  /\ total_allocated \in Nat
  /\ total_freed \in Nat
  /\ total_allocated - total_freed = TotalOf(table, Occupied)

\* ... and the rest of the state has its types.
RestTyped ==
  /\ last \in {"ok", "full", "unknown"}
  /\ halted \in BOOLEAN
  /\ calls \in 0 .. MaxCalls

LEMMA EntriesFinite ==
  /\ IsFiniteSet(Occupied)
  /\ Cardinality(Occupied) \in Nat
<1>1. IsFiniteSet(Slot)
  BY FS_Interval, MemTableAssumption DEF Slot
<1> QED
  BY <1>1, FS_Subset, FS_CardinalityType DEF Occupied

LEMMA SizesAreInt ==
  ASSUME Shape
  PROVE  \A i \in Slot : table[i].sz \in Nat
<1>1. Sizes \cup {0} \subseteq Nat
  BY MemTableAssumption
<1>2. \A i \in Slot : table[i].sz \in Sizes \cup {0}
  BY DEF Shape
<1> QED
  BY <1>1, <1>2

\* gs_mem_remove counts what it removes.
LEMMA RemovalCounts ==
  ASSUME Shape, CountInv, NEW p, RemovePtr(p)
  PROVE  CountInv' /\ last' \in {"ok", "unknown"}
<1>1. CASE \E i \in Slot : Found(p, i) /\ RemoveAt(i)
  <2>1. PICK i \in Slot : Found(p, i) /\ RemoveAt(i)
    BY <1>1
  <2>2. /\ table' = [table EXCEPT ![i].occupied = FALSE]
        /\ total_freed' = total_freed + table[i].sz
        /\ allocation_count' = allocation_count - 1
        /\ last' = "ok"
        /\ total_allocated' = total_allocated
    BY <2>1 DEF RemoveAt
  <2>3. i \in Occupied
    BY <2>1 DEF Found, Occupied
  <2>4. \A j \in Slot : /\ table'[j].sz = table[j].sz
                        /\ table'[j].occupied <=> table[j].occupied /\ j # i
    <3>1. ASSUME NEW j \in Slot, j # i PROVE table'[j] = table[j]
      BY <2>2, <3>1 DEF Shape
    <3>2. table'[i].sz = table[i].sz /\ ~table'[i].occupied
      BY <2>2 DEF Shape
    <3> QED
      BY <3>1, <3>2
  <2>5. Occupied' = Occupied \ {i}
    BY <2>4 DEF Occupied
  <2>6. IsFiniteSet(Occupied \ {i}) /\ Cardinality(Occupied \ {i}) = Cardinality(Occupied) - 1
    BY <2>3, EntriesFinite, FS_RemoveElement
  <2>7. \A j \in Occupied : table[j].sz \in Int
    BY SizesAreInt DEF Occupied
  <2>8. TotalOf(table, Occupied) = table[i].sz + TotalOf(table, Occupied \ {i})
    BY <2>3, <2>7, EntriesFinite, SumOfMore
  <2>9. TotalOf(table', Occupied \ {i}) = TotalOf(table, Occupied \ {i})
    <3>1. SameSizes(table', table, Occupied \ {i})
      BY <2>4 DEF Occupied, SameSizes
    <3> QED
      BY <2>6, <3>1, SumOfSame
  <2>10. TotalOf(table, Occupied \ {i}) \in Int
    BY <2>6, <2>7, SumIsInt
  <2>11. table[i].sz \in Nat
    BY SizesAreInt
  <2>12. TotalOf(table', Occupied') = TotalOf(table, Occupied \ {i})
    BY <2>5, <2>9
  <2>13. total_freed' \in Nat /\ total_allocated' \in Nat
    BY <2>2, <2>11 DEF CountInv
  <2>14. total_allocated' - total_freed' = TotalOf(table', Occupied')
    BY <2>2, <2>8, <2>10, <2>11, <2>12 DEF CountInv
  <2>15. allocation_count' = Cardinality(Occupied')
    BY <2>2, <2>5, <2>6 DEF CountInv
  <2> QED
    BY <2>2, <2>13, <2>14, <2>15 DEF CountInv
<1>2. CASE last' = "unknown" /\ UNCHANGED <<table, counts>>
  <2>1. Occupied' = Occupied
    BY <1>2 DEF Occupied
  <2> QED
    BY <1>2, <2>1 DEF CountInv, counts
<1> QED
  BY <1>1, <1>2 DEF RemovePtr

\* gs_mem_insert counts what it inserts.
LEMMA InsertionCounts ==
  ASSUME Shape, CountInv, NEW p, NEW sz \in Sizes, NEW i \in Slot,
         FreeFor(p, i), InsertAt(p, sz, i)
  PROVE  CountInv'
<1>1. /\ table' = [table EXCEPT ![i] = [ptr |-> p, sz |-> sz, occupied |-> TRUE]]
      /\ total_allocated' = total_allocated + sz
      /\ allocation_count' = allocation_count + 1
      /\ total_freed' = total_freed
  BY DEF InsertAt
<1>2. i \notin Occupied
  BY DEF FreeFor, Occupied
<1>3. /\ table'[i].sz = sz /\ table'[i].occupied
      /\ \A j \in Slot \ {i} : table'[j] = table[j]
  BY <1>1 DEF Shape
<1>4. Occupied' = Occupied \cup {i}
  BY <1>3 DEF Occupied
<1>5. /\ IsFiniteSet(Occupied \cup {i})
      /\ Cardinality(Occupied \cup {i}) = Cardinality(Occupied) + 1
  BY <1>2, EntriesFinite, FS_AddElement
<1>6. sz \in Nat
  BY MemTableAssumption
<1>7. \A j \in Occupied : table'[j] = table[j] /\ table[j].sz \in Int
  BY <1>2, <1>3, SizesAreInt DEF Occupied
<1>8. \A j \in Occupied \cup {i} : table'[j].sz \in Int
  BY <1>3, <1>6, <1>7
<1>9. (Occupied \cup {i}) \ {i} = Occupied
  BY <1>2
<1>10. TotalOf(table', Occupied \cup {i}) = sz + TotalOf(table', Occupied)
  <2>1. i \in Occupied \cup {i}
    OBVIOUS
  <2>2. TotalOf(table', Occupied \cup {i})
          = table'[i].sz + TotalOf(table', (Occupied \cup {i}) \ {i})
    BY <1>5, <1>8, <2>1, SumOfMore
  <2> QED
    BY <1>3, <1>9, <2>2
<1>11. TotalOf(table', Occupied) = TotalOf(table, Occupied)
  <2>1. SameSizes(table', table, Occupied)
    BY <1>7 DEF SameSizes
  <2> QED
    BY <2>1, EntriesFinite, SumOfSame
<1>12. TotalOf(table, Occupied) \in Int
  BY <1>7, EntriesFinite, SumIsInt
<1>13. TotalOf(table', Occupied') = sz + TotalOf(table, Occupied)
  BY <1>4, <1>10, <1>11
<1>14. allocation_count' = Cardinality(Occupied')
  BY <1>1, <1>4, <1>5 DEF CountInv
<1>15. total_allocated' \in Nat /\ total_freed' \in Nat
  BY <1>1, <1>6 DEF CountInv
<1>16. total_allocated' - total_freed' = TotalOf(table', Occupied')
  BY <1>1, <1>6, <1>12, <1>13 DEF CountInv
<1> QED
  BY <1>14, <1>15, <1>16 DEF CountInv

LEMMA InitCounts == Init => CountInv /\ RestTyped
<1> SUFFICES ASSUME Init PROVE CountInv /\ RestTyped
  OBVIOUS
<1>1. Occupied = {}
  BY DEF Init, Occupied
<1>2. TotalOf(table, {}) = 0
  BY SumOfNone
<1>3. CountInv
  BY <1>1, <1>2, FS_EmptySet DEF Init, CountInv
<1>4. RestTyped
  <2>1. 0 \in 0 .. MaxCalls
    BY MemTableAssumption
  <2> QED
    BY <2>1 DEF Init, RestTyped
<1> QED
  BY <1>3, <1>4

LEMMA StepCounts == IInv /\ CountInv /\ RestTyped /\ [Next]_vars => CountInv' /\ RestTyped'
<1> SUFFICES ASSUME IInv, CountInv, RestTyped, [Next]_vars PROVE CountInv' /\ RestTyped'
  OBVIOUS
<1>1. ASSUME UNCHANGED <<table, counts>> PROVE CountInv'
  BY <1>1 DEF CountInv, counts, Occupied
<1>2. ASSUME Counted PROVE calls' \in 0 .. MaxCalls
  BY <1>2, MemTableAssumption DEF Counted, RestTyped
<1>3. ASSUME NEW t \in Threads, NEW p \in Ptrs, NEW sz \in Sizes, Malloc(t, p, sz)
      PROVE  CountInv' /\ RestTyped'
  BY <1>1, <1>2, <1>3 DEF Malloc, RestTyped
<1>4. ASSUME NEW t \in Threads, Insert(t)
      PROVE  CountInv' /\ RestTyped'
  <2> DEFINE b == job[t].ptr
  <2> DEFINE n == job[t].sz
  <2>1. n \in Sizes /\ UNCHANGED <<halted, calls>>
    BY <1>4 DEF Insert, IInv, Shape, Jobs, Idle
  <2>2. CASE \E i \in Slot : FreeFor(b, i) /\ InsertAt(b, n, i)
    <3>1. PICK i \in Slot : FreeFor(b, i) /\ InsertAt(b, n, i)
      BY <2>2
    <3>2. CountInv'
      BY <2>1, <3>1, InsertionCounts DEF IInv
    <3>3. last' = "ok"
      BY <3>1 DEF InsertAt
    <3> QED
      BY <2>1, <3>2, <3>3 DEF RestTyped
  <2>3. CASE last' = "full" /\ UNCHANGED <<table, counts>>
    BY <1>1, <2>1, <2>3 DEF RestTyped
  <2> QED
    BY <1>4, <2>2, <2>3 DEF Insert
<1>5. ASSUME NEW t \in Threads, NEW p \in Ptrs, Free(t, p)
      PROVE  CountInv' /\ RestTyped'
  <2>1. RemovePtr(p) /\ UNCHANGED <<halted, calls>>
    BY <1>5 DEF Free
  <2> QED
    BY <2>1, RemovalCounts DEF IInv, RestTyped
<1>6. ASSUME NEW t \in Threads, OsFree(t)
      PROVE  CountInv' /\ RestTyped'
  BY <1>1, <1>6 DEF OsFree, RestTyped
<1>7. ASSUME NEW t \in Threads, NEW p \in Ptrs, NEW sz \in Sizes, Realloc(t, p, sz)
      PROVE  CountInv' /\ RestTyped'
  <2>1. RemovePtr(p) /\ Counted /\ halted' = halted
    BY <1>7 DEF Realloc
  <2> QED
    BY <1>2, <2>1, RemovalCounts DEF IInv, RestTyped
<1>8. ASSUME NEW t \in Threads, NEW q \in Ptrs, OsRealloc(t, q)
      PROVE  CountInv' /\ RestTyped'
  BY <1>1, <1>8 DEF OsRealloc, RestTyped
<1>9. ASSUME NEW t \in Threads, OsReallocFails(t)
      PROVE  CountInv' /\ RestTyped'
  BY <1>1, <1>9 DEF OsReallocFails, RestTyped
<1>10. ASSUME NEW t \in Threads, NEW p \in Ptrs, FreeAgain(t, p)
       PROVE  CountInv' /\ RestTyped'
  <2>1. RemovePtr(p) /\ halted' = TRUE /\ calls' = calls
    BY <1>10 DEF FreeAgain
  <2> QED
    BY <2>1, RemovalCounts DEF IInv, RestTyped
<1>11. CASE UNCHANGED vars
  BY <1>1, <1>11 DEF vars, counts, RestTyped
<1> QED
  BY <1>3, <1>4, <1>5, <1>6, <1>7, <1>8, <1>9, <1>10, <1>11 DEF Next

\* For any number of threads, blocks and slots, the report's statistics are
\* those of the entries below them: as many, of that many bytes.
THEOREM CountsAgreeHolds == Spec => []CountsAgree
<1>1. ASSUME IInv, CountInv, RestTyped PROVE CountsAgree
  <2>1. TotalOf(table, Occupied) = MapThenSumSet(LAMBDA i : table[i].sz, Occupied)
    BY DEF TotalOf
  <2>2. TypeOK
    BY <1>1, EntriesFinite DEF TypeOK, IInv, Shape, CountInv, RestTyped
  <2> QED
    BY <1>1, <2>1, <2>2 DEF CountsAgree, CountInv
<1>2. Init => IInv /\ CountInv /\ RestTyped
  BY InitIInv, InitCounts
<1>3. IInv /\ CountInv /\ RestTyped /\ [Next]_vars => (IInv /\ CountInv /\ RestTyped)'
  BY StepIInv, StepCounts
<1> QED
  BY <1>1, <1>2, <1>3, PTL DEF Spec

=============================================================================

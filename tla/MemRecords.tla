----------------------------- MODULE MemRecords -----------------------------
(***************************************************************************)
(* What the memory debugger (core/gs_core_config.c) promises of its table: *)
(* it is a function from the blocks that are allocated to their sizes.     *)
(***************************************************************************)
EXTENDS Naturals, FiniteSets

CONSTANTS
  Ptrs,                \* addresses of blocks
  Sizes,               \* sizes of blocks
  Capacity             \* number of records the table has room for

VARIABLES
  records,             \* sizes of the blocks that are recorded
  last                 \* what the last operation returned

Init ==
  /\ records = [p \in {} |-> 0]
  /\ last = "ok"

\* gs_mem_insert records a block of the table's caller, if there is room.
Insert(p, sz) ==
  /\ p \notin DOMAIN records
  /\ \/ /\ Cardinality(DOMAIN records) < Capacity
        /\ records' = [q \in DOMAIN records \cup {p} |-> IF q = p THEN sz ELSE records[q]]
        /\ last' = "ok"
     \/ /\ Cardinality(DOMAIN records) = Capacity
        /\ last' = "full"
        /\ UNCHANGED records

\* gs_mem_remove fails exactly if there is no record.
Remove(p) ==
  /\ records' = [q \in DOMAIN records \ {p} |-> records[q]]
  /\ last' = IF p \in DOMAIN records THEN "ok" ELSE "unknown"

Next == \E p \in Ptrs : Remove(p) \/ \E sz \in Sizes : Insert(p, sz)

Spec == Init /\ [][Next]_<<records, last>>
=============================================================================

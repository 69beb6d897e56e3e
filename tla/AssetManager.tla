---------------------------- MODULE AssetManager ----------------------------
(***************************************************************************)
(* The asset manager (core/gs_core_asset.c).  Each importer owns the       *)
(* assets of one class in two slot arrays, the assets and their records,   *)
(* and finds them again through handles, uuids and names.                  *)
(*                                                                         *)
(* An asset is a number, its uuid as well, and 0 is the NULL pointer.  A   *)
(* slot array is a function from the indices in use; insertion takes the   *)
(* lowest free index.  The contents of assets, the directories and the     *)
(* files are left out, but for the path an asset is saved under.           *)
(***************************************************************************)
EXTENDS Naturals, FiniteSets, AssetState

vars == <<up, assets, records, uuid2id, name2id, default_asset, heap, created,
          issued, erased>>
-----------------------------------------------------------------------------
Put(f, k, v) == [x \in DOMAIN f \cup {k} |-> IF x = k THEN v ELSE f[x]]
Drop(f, k)   == [x \in DOMAIN f \ {k} |-> f[x]]

\* gs_slot_array_insert takes the lowest index that is not in use.
FreeSlot(f, s) ==
  /\ s \notin DOMAIN f
  /\ \A t \in Indices : t < s => t \in DOMAIN f

\* The slots _gs_core_assets_register_importer fills: the empty asset, and
\* the default.
FirstSlots(i) == IF i \in Defaults THEN {0, 1} ELSE {0}

Init ==
  /\ up = TRUE
  /\ assets = [i \in Importers |-> [s \in FirstSlots(i) |->
                 IF s = 0 THEN 0 ELSE DefaultOf(i)]]
  /\ records = [i \in Importers |-> [s \in FirstSlots(i) |->
                 Record(s, IF s = 0 THEN 0 ELSE DefaultOf(i), NoPath)]]
  /\ uuid2id = [i \in Importers |-> [u \in {DefaultOf(i)} \cap {DefaultOf(j) : j \in Defaults} |-> 1]]
  /\ name2id = [i \in Importers |-> [n \in {} |-> 0]]
  /\ default_asset = [i \in Importers |-> IF i \in Defaults THEN 1 ELSE 0]
  /\ heap = [a \in {DefaultOf(i) : i \in Defaults} |-> Object(a - 1, 1, TRUE)]
  /\ created = {DefaultOf(i) : i \in Defaults}
  /\ issued = {}
  /\ erased = {}
-----------------------------------------------------------------------------
\* What import and add have in common: asset a goes into the free slot s and
\* its record into the free slot r, and both find each other.
Store(i, a, s, r, path) ==
  /\ assets' = [assets EXCEPT ![i] = Put(@, s, a)]
  /\ records' = [records EXCEPT ![i] = Put(@, r, Record(s, a, path))]
  /\ uuid2id' = [uuid2id EXCEPT ![i] = Put(@, a, s)]
  /\ heap' = Put(heap, a, Object(i, r, FALSE))
  /\ created' = created \cup {a}
  /\ issued' = issued \cup {[handle |-> Handle(i, s), asset |-> a]}
  /\ UNCHANGED <<up, default_asset, erased>>

\* gs_core_assets_import of a file that can be loaded.  All other calls
\* return the empty handle and change nothing.
Import(i, n, a, s, r) ==
  /\ up
  /\ i \in Loaders
  /\ a \notin created
  /\ FreeSlot(assets[i], s)
  /\ FreeSlot(records[i], r)
  /\ Store(i, a, s, r, [by |-> "name", name |-> n])
  /\ name2id' = [name2id EXCEPT ![i] = Put(@, n, s)]

\* gs_core_assets_add.  The handle of the first importer is zero, which is
\* taken for a class without importer.
Add(i, a, s, r) ==
  /\ up
  /\ i # 0
  /\ a \notin created
  /\ FreeSlot(assets[i], s)
  /\ FreeSlot(records[i], r)
  /\ Store(i, a, s, r, [by |-> "number", number |-> Cardinality(DOMAIN assets[i])])
  /\ UNCHANGED name2id

\* Mutant: the default asset can be freed.
FreeAny(a) ==
  /\ up
  /\ a \in DOMAIN heap
  /\ LET i == heap[a].importer
         r == heap[a].record_hndl
     IN  /\ records' = [records EXCEPT ![i] = Drop(@, r)]
         /\ assets' = [assets EXCEPT ![i] = Drop(@, records[i][r].hndl)]
         /\ heap' = Drop(heap, a)
         /\ erased' = erased \cup {i}
  /\ UNCHANGED <<up, uuid2id, name2id, default_asset, created, issued>>

\* Mutant: the record is not erased.
FreeKeepRecord(a) ==
  /\ up
  /\ a \in DOMAIN heap
  /\ ~heap[a].is_default
  /\ LET i == heap[a].importer
         r == heap[a].record_hndl
     IN  /\ assets' = [assets EXCEPT ![i] = Drop(@, records[i][r].hndl)]
         /\ heap' = Drop(heap, a)
         /\ erased' = erased \cup {i}
  /\ UNCHANGED <<up, records, uuid2id, name2id, default_asset, created, issued>>

\* gs_core_asset_free, and gs_core_asset_handle_free on a handle of the asset.
\* Neither table forgets the asset.
Free(a) ==
  /\ up
  /\ a \in DOMAIN heap
  /\ ~heap[a].is_default
  /\ LET i == heap[a].importer
         r == heap[a].record_hndl
     IN  /\ records' = [records EXCEPT ![i] = Drop(@, r)]
         /\ assets' = [assets EXCEPT ![i] = Drop(@, records[i][r].hndl)]
         /\ heap' = Drop(heap, a)
         /\ erased' = erased \cup {i}
  /\ UNCHANGED <<up, uuid2id, name2id, default_asset, created, issued>>

\* Mutant: the loop stops at the empty record.
RecordedNone == {}

\* The assets the loops of gs_core_assets_shutdown come across.
Recorded == UNION {{assets[i][records[i][r].hndl] : r \in DOMAIN records[i]} : i \in Importers}

\* gs_core_assets_shutdown
Shutdown ==
  /\ up
  /\ up' = FALSE
  /\ heap' = [a \in DOMAIN heap \ Recorded |-> heap[a]]
  /\ assets' = [i \in Importers |-> [s \in {} |-> 0]]
  /\ records' = [i \in Importers |-> [s \in {} |-> 0]]
  /\ uuid2id' = [i \in Importers |-> [u \in {} |-> 0]]
  /\ name2id' = [i \in Importers |-> [n \in {} |-> 0]]
  /\ UNCHANGED <<default_asset, created, issued, erased>>

Next ==
  \/ \E i \in Importers, a \in Assets, s, r \in Indices :
       \/ \E n \in Names : Import(i, n, a, s, r)
       \/ Add(i, a, s, r)
  \/ \E a \in Assets : Free(a)
  \/ Shutdown

Spec == Init /\ [][Next]_vars
=============================================================================

----------------------------- MODULE AssetState -----------------------------
(***************************************************************************)
(* What the asset manager (core/gs_core_asset.c) keeps, how it looks       *)
(* things up, and the properties of both; AssetManager has the calls that  *)
(* change it.                                                              *)
(*                                                                         *)
(* An asset is a number, its uuid as well, and 0 is the NULL pointer.  A   *)
(* slot array is a function from the indices in use.                       *)
(***************************************************************************)
EXTENDS Naturals

CONSTANTS
  Importers,           \* indices of the importers, in order of registration
  Defaults,            \* importers whose register_default returns an asset
  Loaders,             \* importers some file extension is mapped to
  Names,               \* qualified names of the files there are
  MaxSlot,             \* bound: highest index of a slot array
  MaxAsset             \* bound: assets a behaviour creates

ASSUME AssetAssumption ==
  /\ Importers \subseteq Nat
  /\ Defaults \subseteq Importers
  /\ Loaders \subseteq Importers
  /\ \A i \in Importers : i < MaxAsset
  /\ MaxSlot \in Nat \ {0}
  /\ MaxAsset \in Nat

VARIABLES
  up,                  \* between gs_core_assets_new and _shutdown
  assets,              \* importer->assets, of each importer
  records,             \* importer->records
  uuid2id,             \* importer->uuid2id
  name2id,             \* importer->name2id
  default_asset,       \* slot of importer->default_asset, 0 if there is none
  heap,                \* the assets in memory, with their fields
  \* History variables, read by properties only.
  created,             \* assets created so far
  issued,              \* handles returned, with the asset they were made for
  erased               \* importers an asset of which has been freed
-----------------------------------------------------------------------------
Indices == 0 .. MaxSlot
Assets  == 1 .. MaxAsset

NoPath == [by |-> "none"]
Paths  == {NoPath} \cup [by : {"name"}, name : Names] \cup [by : {"number"}, number : Nat]

\* A record: the slot of its asset, the asset's uuid (0 in the empty record),
\* and the path the asset is saved under.
Record(h, u, p) == [hndl |-> h, uuid |-> u, path |-> p]
AssetRecords == [hndl : Indices, uuid : {0} \cup Assets, path : Paths]

\* The fields of an asset; its class is the importer it belongs to.
Object(i, r, d) == [importer |-> i, record_hndl |-> r, is_default |-> d]
Objects == [importer : Importers, record_hndl : Indices, is_default : BOOLEAN]

Handle(i, h) == [importer |-> i, hndl |-> h]

\* The uuid and the slot of the default asset of an importer.
DefaultOf(i) == i + 1

-----------------------------------------------------------------------------
(* Lookups. *)

\* gs_core_asset_handle_get
HandleGet(h) == assets[h.importer][h.hndl]

\* gs_core_asset_handle_record
HandleRecord(h) == records[h.importer][heap[HandleGet(h)].record_hndl]

\* gs_core_asset_handle_from_asset
HandleFromAsset(a) ==
  Handle(heap[a].importer, records[heap[a].importer][heap[a].record_hndl].hndl)

\* gs_core_asset_handle_from_record
HandleFromRecord(i, r) == HandleFromAsset(assets[i][records[i][r].hndl])
-----------------------------------------------------------------------------
\* Types.  No handle returned is the empty one, in which everything is zero.
AssetTypeOK ==
  /\ up \in BOOLEAN
  /\ \A i \in Importers :
       /\ DOMAIN assets[i] \subseteq Indices
       /\ \A s \in DOMAIN assets[i] : assets[i][s] \in {0} \cup Assets
       /\ DOMAIN records[i] \subseteq Indices
       /\ \A r \in DOMAIN records[i] : records[i][r] \in AssetRecords
       /\ DOMAIN uuid2id[i] \subseteq Assets
       /\ DOMAIN name2id[i] \subseteq Names
  /\ default_asset \in [Importers -> Indices]
  /\ DOMAIN heap \subseteq Assets
  /\ \A a \in DOMAIN heap : heap[a] \in Objects
  /\ issued \subseteq [handle : [importer : Importers, hndl : Indices \ {0}], asset : Assets]

\* Assets and records refer to each other, whatever was freed and whichever
\* slots were taken again: from any record or asset in memory the way to the
\* handle and back leads to where it began.
RoundTrip ==
  /\ \A a \in DOMAIN heap : HandleGet(HandleFromAsset(a)) = a
  /\ \A i \in Importers : \A r \in DOMAIN records[i] \ {0} :
       /\ records[i][r].hndl \in DOMAIN assets[i]
       /\ assets[i][records[i][r].hndl] \in DOMAIN heap
       /\ HandleRecord(HandleFromRecord(i, r)) = records[i][r]

\* "Mapping from uuid to record slot id": the table is filled with the slots
\* of the assets, and still leads to the records of all assets in memory,
\* because the two slot arrays are always filled alike.
UuidFindsRecord ==
  \A a \in DOMAIN heap :
    LET i == heap[a].importer
    IN  /\ a \in DOMAIN uuid2id[i]
        /\ uuid2id[i][a] \in DOMAIN records[i]
        /\ records[i][uuid2id[i][a]].uuid = a

\* A handle leads to the asset it was made for until that asset is freed.
HandleStable ==
  \A h \in issued : h.asset \in DOMAIN heap => HandleGet(h.handle) = h.asset

\* Handles, records, uuids and assets lead to each other, in every state.
LookupsAgree == RoundTrip /\ UuidFindsRecord /\ HandleStable

\* As long as no asset of a class has been freed, no two assets added to it
\* are saved under the same path.  (Afterwards the numbers repeat.)
PathsDistinct ==
  \A i \in Importers \ erased : \A r, q \in DOMAIN records[i] :
    /\ records[i][r].path.by = "number"
    /\ records[i][q].path = records[i][r].path
    => r = q

\* The default asset of an importer outlives all calls but the shutdown, so
\* the handle gs_core_assets_get_default returns never dangles; and no two assets
\* of a class are saved under the same path before one of them is freed.
DefaultKept ==
  /\ AssetTypeOK /\ PathsDistinct
  /\ up => \A i \in Defaults :
             /\ default_asset[i] \in DOMAIN assets[i]
             /\ HandleGet(Handle(i, default_asset[i])) = DefaultOf(i)
             /\ DefaultOf(i) \in DOMAIN heap

\* The shutdown frees every asset there is.
AllFreed == ~up => DOMAIN heap = {}
=============================================================================

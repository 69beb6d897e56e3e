----------------------------- MODULE AssetProofs -----------------------------
(***************************************************************************)
(* The asset manager finds its assets again, for any importers and any     *)
(* number of assets: the argument is that the slot arrays of assets and    *)
(* records are always filled alike.                                        *)
(***************************************************************************)
EXTENDS AssetManager, FiniteSetTheorems, TLAPS

\* The tables have an entry for each importer.
Tables ==
  /\ DOMAIN assets = Importers
  /\ DOMAIN records = Importers
  /\ DOMAIN uuid2id = Importers

\* Assets and records use the same slots, and the first one is never free.
Alike ==
  /\ \A i \in Importers : DOMAIN assets[i] = DOMAIN records[i]
  /\ up => \A i \in Importers : 0 \in DOMAIN records[i]

RecordsLead ==
  \A i \in Importers : \A r \in DOMAIN records[i] :
    /\ records[i][r].hndl = r
    /\ r # 0 => /\ assets[i][r] \in DOMAIN heap
                /\ heap[assets[i][r]].importer = i
                /\ heap[assets[i][r]].record_hndl = r

AssetsLead ==
  \A a \in DOMAIN heap :
    LET i == heap[a].importer
        r == heap[a].record_hndl
    IN  /\ i \in Importers
        /\ r \in DOMAIN records[i]
        /\ r # 0
        /\ assets[i][r] = a
        /\ records[i][r].uuid = a
        /\ a \in DOMAIN uuid2id[i]
        /\ uuid2id[i][a] = r

HandlesLead ==
  \A h \in issued :
    h.asset \in DOMAIN heap =>
      h.handle = Handle(heap[h.asset].importer, heap[h.asset].record_hndl)

Fresh == DOMAIN heap \subseteq created /\ \A h \in issued : h.asset \in created

Inv == Tables /\ Alike /\ RecordsLead /\ AssetsLead /\ HandlesLead /\ Fresh

\* Two slot arrays that use the same indices have the same free slot.
LEMMA SameFreeSlot ==
  ASSUME NEW f, NEW g, DOMAIN f = DOMAIN g, NEW s \in Indices, NEW r \in Indices,
         FreeSlot(f, s), FreeSlot(g, r)
  PROVE  s = r
BY AssetAssumption DEF FreeSlot, Indices

LEMMA InvStore ==
  ASSUME Inv, up, NEW i \in Importers, NEW a, NEW s \in Indices, NEW r \in Indices, NEW path,
         a \notin created, FreeSlot(assets[i], s), FreeSlot(records[i], r),
         Store(i, a, s, r, path)
  PROVE  Inv'
<1>1. s = r /\ s # 0 /\ s \notin DOMAIN assets[i] /\ s \notin DOMAIN records[i]
  <2>1. DOMAIN assets[i] = DOMAIN records[i]
    BY DEF Inv, Alike
  <2>2. s = r
    BY <2>1, SameFreeSlot
  <2>3. s \notin DOMAIN assets[i] /\ s \notin DOMAIN records[i]
    BY <2>1, <2>2 DEF FreeSlot
  <2> QED
    BY <2>1, <2>2, <2>3 DEF Inv, Alike
<1>2. /\ DOMAIN assets' = Importers
      /\ DOMAIN records' = Importers
      /\ DOMAIN uuid2id' = Importers
  BY DEF Store, Inv, Tables
<1>3. /\ assets'[i] = Put(assets[i], s, a)
      /\ records'[i] = Put(records[i], s, Record(s, a, path))
      /\ uuid2id'[i] = Put(uuid2id[i], a, s)
      /\ \A j \in Importers : j # i => /\ assets'[j] = assets[j]
                                       /\ records'[j] = records[j]
                                       /\ uuid2id'[j] = uuid2id[j]
  BY <1>1 DEF Store, Inv, Tables
<1>4. /\ heap' = Put(heap, a, Object(i, s, FALSE))
      /\ a \notin DOMAIN heap
  BY <1>1 DEF Store, Inv, Fresh
<1>5. /\ DOMAIN assets'[i] = DOMAIN assets[i] \cup {s}
      /\ assets'[i][s] = a
      /\ \A x \in DOMAIN assets[i] : assets'[i][x] = assets[i][x]
  BY <1>1, <1>3 DEF Put
<1>6. /\ DOMAIN records'[i] = DOMAIN records[i] \cup {s}
      /\ records'[i][s] = Record(s, a, path)
      /\ \A x \in DOMAIN records[i] : records'[i][x] = records[i][x]
  BY <1>1, <1>3 DEF Put
<1>7. /\ DOMAIN uuid2id'[i] = DOMAIN uuid2id[i] \cup {a}
      /\ uuid2id'[i][a] = s
      /\ \A x \in DOMAIN uuid2id[i] : x # a => uuid2id'[i][x] = uuid2id[i][x]
  BY <1>3 DEF Put
<1>8. /\ DOMAIN heap' = DOMAIN heap \cup {a}
      /\ heap'[a] = Object(i, s, FALSE)
      /\ \A x \in DOMAIN heap : heap'[x] = heap[x]
  BY <1>4 DEF Put
<1>9. Tables'
  BY <1>2 DEF Tables
<1>10. Alike'
  BY <1>3, <1>5, <1>6 DEF Alike, Inv, Store
<1>11. RecordsLead'
  BY <1>1, <1>3, <1>5, <1>6, <1>8 DEF RecordsLead, Inv, Alike, Record, Object
<1>12. AssetsLead'
  <2> SUFFICES ASSUME NEW b \in DOMAIN heap'
               PROVE  LET j == heap'[b].importer
                          q == heap'[b].record_hndl
                      IN  /\ j \in Importers
                          /\ q \in DOMAIN records'[j]
                          /\ q # 0
                          /\ assets'[j][q] = b
                          /\ records'[j][q].uuid = b
                          /\ b \in DOMAIN uuid2id'[j]
                          /\ uuid2id'[j][b] = q
    BY DEF AssetsLead
  <2>1. CASE b = a
    BY <2>1, <1>1, <1>5, <1>6, <1>7, <1>8 DEF Object, Record
  <2>2. CASE b # a
    <3>1. b \in DOMAIN heap /\ heap'[b] = heap[b]
      BY <2>2, <1>8
    <3> QED
      BY <2>2, <3>1, <1>3, <1>5, <1>6, <1>7 DEF AssetsLead, Inv, Alike
  <2> QED
    BY <2>1, <2>2
<1>13. issued' = issued \cup {[handle |-> Handle(i, s), asset |-> a]}
       /\ created' = created \cup {a}
  BY DEF Store
<1>14. Fresh'
  BY <1>8, <1>13 DEF Fresh, Inv
<1>15. HandlesLead'
  <2> SUFFICES ASSUME NEW h \in issued', h.asset \in DOMAIN heap'
               PROVE  h.handle = Handle(heap'[h.asset].importer, heap'[h.asset].record_hndl)
    BY DEF HandlesLead, Handle
  <2>1. CASE h \in issued
    <3>1. h.asset \in DOMAIN heap /\ heap'[h.asset] = heap[h.asset]
      BY <2>1, <1>8 DEF Inv, Fresh
    <3> QED
      BY <2>1, <3>1 DEF Inv, HandlesLead
  <2>2. CASE h = [handle |-> Handle(i, s), asset |-> a]
    BY <2>2, <1>8 DEF Object
  <2> QED
    BY <2>1, <2>2, <1>13
<1> QED
  BY <1>9, <1>10, <1>11, <1>12, <1>14, <1>15 DEF Inv

LEMMA InvFree ==
  ASSUME Inv, NEW a, Free(a)
  PROVE  Inv'
<1> DEFINE i == heap[a].importer
           r == heap[a].record_hndl
<1>1. /\ i \in Importers
      /\ r \in DOMAIN records[i]
      /\ r # 0
      /\ assets[i][r] = a
      /\ records[i][r].hndl = r
      /\ a \in DOMAIN heap
  BY DEF Free, Inv, AssetsLead, RecordsLead
<1>2. /\ assets' = [assets EXCEPT ![i] = Drop(@, r)]
      /\ records' = [records EXCEPT ![i] = Drop(@, r)]
      /\ heap' = Drop(heap, a)
      /\ UNCHANGED <<up, uuid2id, created, issued>>
  BY <1>1 DEF Free
<1> HIDE DEF i, r
<1>3. /\ assets'[i] = Drop(assets[i], r)
      /\ records'[i] = Drop(records[i], r)
      /\ \A j \in Importers : j # i => assets'[j] = assets[j] /\ records'[j] = records[j]
      /\ DOMAIN assets' = Importers
      /\ DOMAIN records' = Importers
  BY <1>1, <1>2 DEF Inv, Tables
<1>4. /\ DOMAIN assets'[i] = DOMAIN assets[i] \ {r}
      /\ \A x \in DOMAIN assets[i] : x # r => assets'[i][x] = assets[i][x]
  BY <1>3 DEF Drop
<1>5. /\ DOMAIN records'[i] = DOMAIN records[i] \ {r}
      /\ \A x \in DOMAIN records[i] : x # r => records'[i][x] = records[i][x]
  BY <1>3 DEF Drop
<1>6. /\ DOMAIN heap' = DOMAIN heap \ {a}
      /\ \A x \in DOMAIN heap : x # a => heap'[x] = heap[x]
  BY <1>2 DEF Drop
<1>7. Tables' /\ Alike'
  BY <1>1, <1>2, <1>3, <1>4, <1>5 DEF Tables, Alike, Inv
<1>8. RecordsLead'
  <2> SUFFICES ASSUME NEW j \in Importers, NEW q \in DOMAIN records'[j]
               PROVE  /\ records'[j][q].hndl = q
                      /\ q # 0 => /\ assets'[j][q] \in DOMAIN heap'
                                  /\ heap'[assets'[j][q]].importer = j
                                  /\ heap'[assets'[j][q]].record_hndl = q
    BY DEF RecordsLead
  <2>1. /\ q \in DOMAIN records[j]
        /\ q \in DOMAIN assets[j]
        /\ j = i => q # r
    BY <1>3, <1>5 DEF Inv, Alike
  <2>2. records'[j][q] = records[j][q] /\ assets'[j][q] = assets[j][q]
    BY <2>1, <1>3, <1>4, <1>5
  <2>3. q # 0 => assets[j][q] # a
    BY <2>1 DEF Inv, RecordsLead, i, r
  <2> QED
    BY <2>1, <2>2, <2>3, <1>6 DEF Inv, RecordsLead
<1>9. AssetsLead'
  <2> SUFFICES ASSUME NEW b \in DOMAIN heap'
               PROVE  LET j == heap'[b].importer
                          q == heap'[b].record_hndl
                      IN  /\ j \in Importers
                          /\ q \in DOMAIN records'[j]
                          /\ q # 0
                          /\ assets'[j][q] = b
                          /\ records'[j][q].uuid = b
                          /\ b \in DOMAIN uuid2id'[j]
                          /\ uuid2id'[j][b] = q
    BY DEF AssetsLead
  <2>1. b \in DOMAIN heap /\ b # a /\ heap'[b] = heap[b]
    BY <1>6
  <2>2. heap[b].importer = i => heap[b].record_hndl # r
    BY <2>1, <1>1 DEF Inv, AssetsLead
  <2> QED
    BY <2>1, <2>2, <1>2, <1>3, <1>4, <1>5 DEF Inv, AssetsLead, Alike
<1>10. HandlesLead' /\ Fresh'
  BY <1>2, <1>6 DEF HandlesLead, Fresh, Inv
<1> QED
  BY <1>7, <1>8, <1>9, <1>10 DEF Inv

LEMMA InvShutdown ==
  ASSUME Inv, Shutdown
  PROVE  Inv' /\ DOMAIN heap' = {}
<1>1. DOMAIN heap \subseteq Recorded
  <2> SUFFICES ASSUME NEW a \in DOMAIN heap
               PROVE  a \in Recorded
    OBVIOUS
  <2>1. /\ heap[a].importer \in Importers
        /\ heap[a].record_hndl \in DOMAIN records[heap[a].importer]
        /\ assets[heap[a].importer][heap[a].record_hndl] = a
        /\ records[heap[a].importer][heap[a].record_hndl].hndl = heap[a].record_hndl
    BY DEF Inv, AssetsLead, RecordsLead
  <2>2. a \in {assets[heap[a].importer][records[heap[a].importer][r].hndl] :
                 r \in DOMAIN records[heap[a].importer]}
    BY <2>1
  <2> QED
    BY <2>1, <2>2 DEF Recorded
<1>2. DOMAIN heap' = {}
  BY <1>1 DEF Shutdown
<1>3. Tables' /\ Alike' /\ RecordsLead'
  BY DEF Shutdown, Tables, Alike, RecordsLead
<1>4. AssetsLead' /\ HandlesLead' /\ Fresh'
  BY <1>2 DEF Shutdown, AssetsLead, HandlesLead, Fresh, Inv
<1> QED
  BY <1>2, <1>3, <1>4 DEF Inv

LEMMA InvInit ==
  ASSUME Init
  PROVE  Inv
<1>1. Tables /\ Alike
  BY DEF Init, Tables, Alike, FirstSlots
<1>2. \A i \in Defaults : DefaultOf(i) \in DOMAIN heap /\ heap[DefaultOf(i)] = Object(i, 1, TRUE)
  <2> SUFFICES ASSUME NEW i \in Defaults
               PROVE  DefaultOf(i) \in DOMAIN heap /\ heap[DefaultOf(i)] = Object(i, 1, TRUE)
    OBVIOUS
  <2>1. DefaultOf(i) - 1 = i
    BY AssetAssumption DEF DefaultOf
  <2> QED
    BY <2>1 DEF Init
<1>3. RecordsLead
  BY <1>2, AssetAssumption DEF Init, RecordsLead, FirstSlots, Record, Object
<1>4. ASSUME NEW a \in DOMAIN heap
      PROVE  /\ heap[a] = Object(a - 1, 1, TRUE)
             /\ a - 1 \in Defaults
             /\ a = DefaultOf(a - 1)
  <2>1. PICK i \in Defaults : a = DefaultOf(i)
    BY DEF Init
  <2>2. a - 1 = i
    BY <2>1, AssetAssumption DEF DefaultOf
  <2> QED
    BY <2>1, <2>2, <1>2
<1>5. AssetsLead
  <2> SUFFICES ASSUME NEW a \in DOMAIN heap
               PROVE  /\ heap[a].importer \in Importers
                      /\ heap[a].record_hndl \in DOMAIN records[heap[a].importer]
                      /\ heap[a].record_hndl # 0
                      /\ assets[heap[a].importer][heap[a].record_hndl] = a
                      /\ records[heap[a].importer][heap[a].record_hndl].uuid = a
                      /\ a \in DOMAIN uuid2id[heap[a].importer]
                      /\ uuid2id[heap[a].importer][a] = heap[a].record_hndl
    BY DEF AssetsLead
  <2> DEFINE i == a - 1
  <2>1. heap[a] = Object(i, 1, TRUE) /\ i \in Defaults /\ i \in Importers /\ a = DefaultOf(i)
    BY <1>4, AssetAssumption
  <2> HIDE DEF i
  <2>2. heap[a].importer = i /\ heap[a].record_hndl = 1
    BY <2>1 DEF Object
  <2>3. assets[i] = [s \in {0, 1} |-> IF s = 0 THEN 0 ELSE a]
    BY <2>1 DEF Init, FirstSlots
  <2>4. records[i] = [s \in {0, 1} |-> Record(s, IF s = 0 THEN 0 ELSE a, NoPath)]
    BY <2>1 DEF Init, FirstSlots
  <2>5. a \in DOMAIN uuid2id[i] /\ uuid2id[i][a] = 1
    BY <2>1 DEF Init
  <2>6. 1 \in DOMAIN assets[i] /\ assets[i][1] = a
    BY <2>3
  <2>7. 1 \in DOMAIN records[i] /\ records[i][1] = Record(1, a, NoPath)
    BY <2>4
  <2>8. records[i][1].uuid = a
    BY <2>7 DEF Record
  <2>9. /\ i \in Importers
        /\ 1 \in DOMAIN records[i]
        /\ 1 # 0
        /\ assets[i][1] = a
        /\ records[i][1].uuid = a
        /\ a \in DOMAIN uuid2id[i]
        /\ uuid2id[i][a] = 1
    BY <2>1, <2>5, <2>6, <2>7, <2>8
  <2> QED
    BY <2>2, <2>9
<1>6. HandlesLead /\ Fresh
  BY DEF Init, HandlesLead, Fresh
<1> QED
  BY <1>1, <1>3, <1>5, <1>6 DEF Inv

LEMMA Invariance == Spec => []Inv
<1>1. Inv /\ [Next]_vars => Inv'
  <2> SUFFICES ASSUME Inv, [Next]_vars
               PROVE  Inv'
    OBVIOUS
  <2>1. ASSUME NEW i \in Importers, NEW a \in Assets, NEW s \in Indices, NEW r \in Indices,
               NEW n \in Names, Import(i, n, a, s, r)
        PROVE  Inv'
    BY <2>1, InvStore DEF Import
  <2>2. ASSUME NEW i \in Importers, NEW a \in Assets, NEW s \in Indices, NEW r \in Indices,
               Add(i, a, s, r)
        PROVE  Inv'
    BY <2>2, InvStore DEF Add
  <2>3. ASSUME NEW a \in Assets, Free(a)
        PROVE  Inv'
    BY <2>3, InvFree
  <2>4. CASE Shutdown
    BY <2>4, InvShutdown
  <2>5. CASE UNCHANGED vars
    BY <2>5 DEF vars, Inv, Tables, Alike, RecordsLead, AssetsLead, HandlesLead, Fresh
  <2> QED
    BY <2>1, <2>2, <2>3, <2>4, <2>5 DEF Next
<1> QED
  BY <1>1, InvInit, PTL DEF Spec

\* AssetRecords, assets and handles lead to each other in every state, whatever was
\* freed and whichever slots were taken again.
THEOREM RoundTripHolds == Spec => []RoundTrip
<1>1. Inv => RoundTrip
  <2> SUFFICES ASSUME Inv
               PROVE  RoundTrip
    OBVIOUS
  <2>1. ASSUME NEW a \in DOMAIN heap
        PROVE  HandleGet(HandleFromAsset(a)) = a
    BY DEF Inv, RecordsLead, AssetsLead, HandleGet, HandleFromAsset, Handle
  <2>2. ASSUME NEW i \in Importers, NEW r \in DOMAIN records[i] \ {0}
        PROVE  /\ records[i][r].hndl \in DOMAIN assets[i]
               /\ assets[i][records[i][r].hndl] \in DOMAIN heap
               /\ HandleRecord(HandleFromRecord(i, r)) = records[i][r]
    <3> DEFINE a == assets[i][r]
    <3>1. /\ records[i][r].hndl = r
          /\ r \in DOMAIN assets[i]
          /\ a \in DOMAIN heap
          /\ heap[a].importer = i
          /\ heap[a].record_hndl = r
      BY <2>2 DEF Inv, RecordsLead, Alike
    <3>2. HandleFromRecord(i, r) = Handle(i, r)
      BY <3>1 DEF HandleFromRecord, HandleFromAsset
    <3>3. HandleRecord(Handle(i, r)) = records[i][r]
      BY <3>1 DEF HandleRecord, HandleGet, Handle
    <3> QED
      BY <3>1, <3>2, <3>3
  <2> QED
    BY <2>1, <2>2 DEF RoundTrip
<1> QED
  BY <1>1, Invariance, PTL

\* The table from uuids to asset slots leads to the records as well.
THEOREM UuidFinds == Spec => []UuidFindsRecord
<1>1. Inv => UuidFindsRecord
  BY DEF Inv, AssetsLead, UuidFindsRecord
<1> QED
  BY <1>1, Invariance, PTL

\* A handle leads to its asset until the asset is freed.
THEOREM HandlesStable == Spec => []HandleStable
<1>1. Inv => HandleStable
  <2> SUFFICES ASSUME Inv, NEW h \in issued, h.asset \in DOMAIN heap
               PROVE  HandleGet(h.handle) = h.asset
    BY DEF HandleStable
  <2>1. h.handle = Handle(heap[h.asset].importer, heap[h.asset].record_hndl)
    BY DEF Inv, HandlesLead
  <2>2. assets[heap[h.asset].importer][heap[h.asset].record_hndl] = h.asset
    BY DEF Inv, AssetsLead
  <2> QED
    BY <2>1, <2>2 DEF HandleGet, Handle
<1> QED
  BY <1>1, Invariance, PTL

\* Handles, records, uuids and assets lead to each other in every reachable state,
\* for any number of importers, slots and assets.
THEOREM LookupsHold == Spec => []LookupsAgree
<1>1. RoundTrip /\ UuidFindsRecord /\ HandleStable => LookupsAgree
  BY DEF LookupsAgree
<1> QED
  BY <1>1, RoundTripHolds, UuidFinds, HandlesStable, PTL

\* The shutdown frees all assets.
THEOREM ShutdownFrees == Spec => []AllFreed
<1>1. Init => AllFreed
  BY DEF Init, AllFreed
<1>2. Inv /\ AllFreed /\ [Next]_vars => AllFreed'
  <2> SUFFICES ASSUME Inv, AllFreed, [Next]_vars
               PROVE  AllFreed'
    OBVIOUS
  <2>1. CASE Shutdown
    BY <2>1, InvShutdown DEF AllFreed
  <2>2. CASE UNCHANGED vars
    BY <2>2 DEF vars, AllFreed
  <2>3. ASSUME NEW i \in Importers, NEW a \in Assets, NEW s \in Indices, NEW r \in Indices,
               NEW n \in Names, Import(i, n, a, s, r)
        PROVE  AllFreed'
    BY <2>3 DEF AllFreed, Import, Store
  <2>4. ASSUME NEW i \in Importers, NEW a \in Assets, NEW s \in Indices, NEW r \in Indices,
               Add(i, a, s, r)
        PROVE  AllFreed'
    BY <2>4 DEF AllFreed, Add, Store
  <2>5. ASSUME NEW a \in Assets, Free(a)
        PROVE  AllFreed'
    BY <2>5 DEF AllFreed, Free
  <2> QED
    BY <2>1, <2>2, <2>3, <2>4, <2>5 DEF Next
<1> QED
  BY <1>1, <1>2, Invariance, PTL DEF Spec
-----------------------------------------------------------------------------
(* The defaults are kept and the paths differ. *)

Typed == AssetTypeOK /\ DOMAIN name2id = Importers

\* The number in a path is below the number of assets, while none was freed.
Numbered ==
  \A i \in Importers \ erased : \A r \in DOMAIN records[i] :
    records[i][r].path.by = "number" =>
      records[i][r].path.number < Cardinality(DOMAIN assets[i])

DefaultHeld ==
  up => \A i \in Defaults :
          /\ default_asset[i] = 1
          /\ 1 \in DOMAIN assets[i]
          /\ assets[i][1] = DefaultOf(i)
          /\ DefaultOf(i) \in DOMAIN heap
          /\ heap[DefaultOf(i)] = Object(i, 1, TRUE)

KeptInv == Inv /\ Typed /\ Numbered /\ PathsDistinct /\ DefaultHeld

LEMMA SlotsFinite ==
  ASSUME NEW f, DOMAIN f \subseteq Indices
  PROVE  IsFiniteSet(DOMAIN f) /\ Cardinality(DOMAIN f) \in Nat
<1>1. 0 \in Int /\ MaxSlot \in Int
  BY AssetAssumption
<1>2. IsFiniteSet(Indices)
  BY <1>1, FS_Interval DEF Indices
<1>3. IsFiniteSet(DOMAIN f)
  BY <1>2, FS_Subset
<1> QED
  BY <1>3, FS_CardinalityType

LEMMA NumberedPath ==
  ASSUME NEW x \in AssetRecords, x.path.by = "number"
  PROVE  x.path.number \in Nat
BY DEF AssetRecords, Paths, NoPath

\* What both ways of storing an asset do to one importer.
LEMMA StoreTables ==
  ASSUME Inv, Typed, up, NEW i \in Importers, NEW a \in Assets, NEW s \in Indices,
         NEW r \in Indices, NEW path, a \notin created,
         FreeSlot(assets[i], s), FreeSlot(records[i], r), Store(i, a, s, r, path)
  PROVE  /\ s = r /\ s # 0 /\ s \notin DOMAIN assets[i] /\ s \notin DOMAIN records[i]
         /\ DOMAIN assets'[i] = DOMAIN assets[i] \cup {s}
         /\ assets'[i][s] = a
         /\ \A x \in DOMAIN assets[i] : assets'[i][x] = assets[i][x]
         /\ DOMAIN records'[i] = DOMAIN records[i] \cup {s}
         /\ records'[i][s] = Record(s, a, path)
         /\ \A x \in DOMAIN records[i] : records'[i][x] = records[i][x]
         /\ DOMAIN uuid2id'[i] = DOMAIN uuid2id[i] \cup {a}
         /\ \A j \in Importers : j # i => /\ assets'[j] = assets[j]
                                          /\ records'[j] = records[j]
                                          /\ uuid2id'[j] = uuid2id[j]
<1>1. s = r /\ s # 0 /\ s \notin DOMAIN assets[i] /\ s \notin DOMAIN records[i]
  <2>1. DOMAIN assets[i] = DOMAIN records[i]
    BY DEF Inv, Alike
  <2>2. s = r
    BY <2>1, SameFreeSlot
  <2>3. s \notin DOMAIN assets[i] /\ s \notin DOMAIN records[i]
    BY <2>1, <2>2 DEF FreeSlot
  <2> QED
    BY <2>1, <2>2, <2>3 DEF Inv, Alike
<1>2. /\ assets'[i] = Put(assets[i], s, a)
      /\ records'[i] = Put(records[i], s, Record(s, a, path))
      /\ uuid2id'[i] = Put(uuid2id[i], a, s)
      /\ \A j \in Importers : j # i => /\ assets'[j] = assets[j]
                                       /\ records'[j] = records[j]
                                       /\ uuid2id'[j] = uuid2id[j]
  BY <1>1 DEF Store, Inv, Tables
<1> QED
  BY <1>1, <1>2 DEF Put

LEMMA KeptStore ==
  ASSUME KeptInv, up, NEW i \in Importers, NEW a \in Assets, NEW s \in Indices,
         NEW r \in Indices, NEW path \in Paths, a \notin created,
         FreeSlot(assets[i], s), FreeSlot(records[i], r), Store(i, a, s, r, path),
         DOMAIN name2id' = Importers, \A j \in Importers : DOMAIN name2id'[j] \subseteq Names,
         path.by = "number" => path.number = Cardinality(DOMAIN assets[i])
  PROVE  Typed' /\ Numbered' /\ PathsDistinct' /\ DefaultHeld'
<1> USE DEF KeptInv
<1>1. /\ s = r /\ s # 0 /\ s \notin DOMAIN assets[i] /\ s \notin DOMAIN records[i]
      /\ DOMAIN assets'[i] = DOMAIN assets[i] \cup {s}
      /\ assets'[i][s] = a
      /\ \A x \in DOMAIN assets[i] : assets'[i][x] = assets[i][x]
      /\ DOMAIN records'[i] = DOMAIN records[i] \cup {s}
      /\ records'[i][s] = Record(s, a, path)
      /\ \A x \in DOMAIN records[i] : records'[i][x] = records[i][x]
      /\ DOMAIN uuid2id'[i] = DOMAIN uuid2id[i] \cup {a}
      /\ \A j \in Importers : j # i => /\ assets'[j] = assets[j]
                                       /\ records'[j] = records[j]
                                       /\ uuid2id'[j] = uuid2id[j]
  BY StoreTables
<1>2. /\ DOMAIN heap' = DOMAIN heap \cup {a}
      /\ heap'[a] = Object(i, r, FALSE)
      /\ \A x \in DOMAIN heap : heap'[x] = heap[x]
      /\ a \notin DOMAIN heap
  BY DEF Store, Put, Inv, Fresh
<1>3. /\ issued' = issued \cup {[handle |-> Handle(i, s), asset |-> a]}
      /\ default_asset' = default_asset /\ erased' = erased /\ up' = up
  BY DEF Store
<1>4. Record(s, a, path) \in AssetRecords /\ Record(s, a, path).path = path
  BY DEF Record, AssetRecords
<1>5. Typed'
  <2>1. ASSUME NEW j \in Importers
        PROVE  /\ DOMAIN assets'[j] \subseteq Indices
               /\ \A x \in DOMAIN assets'[j] : assets'[j][x] \in {0} \cup Assets
               /\ DOMAIN records'[j] \subseteq Indices
               /\ \A x \in DOMAIN records'[j] : records'[j][x] \in AssetRecords
               /\ DOMAIN uuid2id'[j] \subseteq Assets
    BY <1>1, <1>4 DEF Typed, AssetTypeOK
  <2>2. Object(i, r, FALSE) \in Objects
    BY DEF Object, Objects
  <2>3. DOMAIN heap' \subseteq Assets /\ \A x \in DOMAIN heap' : heap'[x] \in Objects
    BY <1>2, <2>2 DEF Typed, AssetTypeOK
  <2>4. [handle |-> Handle(i, s), asset |-> a] \in
          [handle : [importer : Importers, hndl : Indices \ {0}], asset : Assets]
    BY <1>1 DEF Handle
  <2>5. issued' \subseteq [handle : [importer : Importers, hndl : Indices \ {0}], asset : Assets]
    BY <1>3, <2>4 DEF Typed, AssetTypeOK
  <2> QED
    BY <1>3, <2>1, <2>3, <2>5 DEF Typed, AssetTypeOK
<1>6. /\ Cardinality(DOMAIN assets[i]) \in Nat
      /\ Cardinality(DOMAIN assets'[i]) = Cardinality(DOMAIN assets[i]) + 1
  <2>1. DOMAIN assets[i] \subseteq Indices
    BY DEF Typed, AssetTypeOK
  <2>2. IsFiniteSet(DOMAIN assets[i]) /\ Cardinality(DOMAIN assets[i]) \in Nat
    BY <2>1, SlotsFinite
  <2>3. Cardinality(DOMAIN assets[i] \cup {s}) = Cardinality(DOMAIN assets[i]) + 1
    BY <1>1, <2>2, FS_AddElement
  <2> QED
    BY <1>1, <2>2, <2>3
<1>7. Numbered'
  <2> SUFFICES ASSUME NEW j \in Importers \ erased', NEW q \in DOMAIN records'[j],
                      records'[j][q].path.by = "number"
               PROVE  records'[j][q].path.number < Cardinality(DOMAIN assets'[j])
    BY DEF Numbered
  <2>1. CASE j # i
    <3>1. /\ j \in Importers \ erased
          /\ records'[j] = records[j] /\ assets'[j] = assets[j]
      BY <1>1, <1>3, <2>1
    <3> QED
      BY <3>1 DEF Numbered
  <2>2. CASE j = i /\ q = s
    <3>1. records'[j][q].path = path
      BY <1>1, <1>4, <2>2
    <3>2. records'[j][q].path.number = Cardinality(DOMAIN assets[i])
      BY <3>1
    <3> QED
      BY <1>6, <2>2, <3>2
  <2>3. CASE j = i /\ q # s
    <3>1. q \in DOMAIN records[i] /\ records'[i][q] = records[i][q]
      BY <1>1, <2>3
    <3>2. records[i][q].path.number < Cardinality(DOMAIN assets[i])
      BY <1>3, <2>3, <3>1 DEF Numbered
    <3>3. records[i][q].path.number \in Nat
      BY <2>3, <3>1, NumberedPath DEF Typed, AssetTypeOK
    <3> QED
      BY <1>6, <2>3, <3>1, <3>2, <3>3
  <2> QED
    BY <2>1, <2>2, <2>3
<1>8. PathsDistinct'
  <2>1. ASSUME NEW q \in DOMAIN records[i], i \notin erased, path.by = "number",
               records[i][q].path = path
        PROVE  FALSE
    <3>1. records[i][q].path.number < Cardinality(DOMAIN assets[i])
      BY <2>1 DEF Numbered
    <3> QED
      BY <1>6, <2>1, <3>1
  <2> SUFFICES ASSUME NEW j \in Importers \ erased', NEW p \in DOMAIN records'[j],
                      NEW q \in DOMAIN records'[j],
                      records'[j][p].path.by = "number",
                      records'[j][q].path = records'[j][p].path
               PROVE  p = q
    BY DEF PathsDistinct
  <2>2. CASE j # i
    BY <1>1, <1>3, <2>2 DEF PathsDistinct
  <2>3. CASE j = i /\ p # s /\ q # s
    BY <1>1, <1>3, <2>3 DEF PathsDistinct
  <2>4. CASE j = i /\ p = s /\ q # s
    BY <1>1, <1>3, <1>4, <2>1, <2>4
  <2>5. CASE j = i /\ p # s /\ q = s
    BY <1>1, <1>3, <1>4, <2>1, <2>5
  <2> QED
    BY <2>2, <2>3, <2>4, <2>5
<1>9. DefaultHeld'
  <2> SUFFICES ASSUME NEW j \in Defaults
               PROVE  /\ default_asset[j] = 1
                      /\ 1 \in DOMAIN assets'[j]
                      /\ assets'[j][1] = DefaultOf(j)
                      /\ DefaultOf(j) \in DOMAIN heap'
                      /\ heap'[DefaultOf(j)] = Object(j, 1, TRUE)
    BY <1>3 DEF DefaultHeld, DefaultOf, Object
  <2>1. j \in Importers
    BY AssetAssumption
  <2>2. /\ default_asset[j] = 1 /\ 1 \in DOMAIN assets[j] /\ assets[j][1] = DefaultOf(j)
        /\ DefaultOf(j) \in DOMAIN heap /\ heap[DefaultOf(j)] = Object(j, 1, TRUE)
    BY DEF DefaultHeld
  <2>3. 1 \in DOMAIN assets'[j] /\ assets'[j][1] = assets[j][1]
    BY <1>1, <2>1, <2>2
  <2> QED
    BY <1>2, <2>2, <2>3
<1> QED
  BY <1>5, <1>7, <1>8, <1>9

LEMMA KeptFree ==
  ASSUME KeptInv, NEW a, Free(a)
  PROVE  Typed' /\ Numbered' /\ PathsDistinct' /\ DefaultHeld'
<1> DEFINE i == heap[a].importer
           r == heap[a].record_hndl
<1> USE DEF KeptInv
<1>1. /\ i \in Importers
      /\ r \in DOMAIN records[i]
      /\ assets[i][r] = a
      /\ records[i][r].hndl = r
      /\ a \in DOMAIN heap
      /\ up /\ ~heap[a].is_default
  BY DEF Free, Inv, AssetsLead, RecordsLead
<1>2. /\ assets' = [assets EXCEPT ![i] = Drop(@, r)]
      /\ records' = [records EXCEPT ![i] = Drop(@, r)]
      /\ heap' = Drop(heap, a)
      /\ erased' = erased \cup {i}
      /\ UNCHANGED <<up, uuid2id, name2id, default_asset, created, issued>>
  BY <1>1 DEF Free
<1> HIDE DEF i, r
<1>3. /\ assets'[i] = Drop(assets[i], r)
      /\ records'[i] = Drop(records[i], r)
      /\ \A j \in Importers : j # i => assets'[j] = assets[j] /\ records'[j] = records[j]
  BY <1>1, <1>2 DEF Inv, Tables
<1>4. /\ DOMAIN assets'[i] = DOMAIN assets[i] \ {r}
      /\ \A x \in DOMAIN assets[i] : x # r => assets'[i][x] = assets[i][x]
      /\ DOMAIN records'[i] = DOMAIN records[i] \ {r}
      /\ \A x \in DOMAIN records[i] : x # r => records'[i][x] = records[i][x]
  BY <1>3 DEF Drop
<1>5. /\ DOMAIN heap' = DOMAIN heap \ {a}
      /\ \A x \in DOMAIN heap : x # a => heap'[x] = heap[x]
  BY <1>2 DEF Drop
<1>6. Typed'
  <2>1. ASSUME NEW j \in Importers
        PROVE  /\ DOMAIN assets'[j] \subseteq Indices
               /\ \A x \in DOMAIN assets'[j] : assets'[j][x] \in {0} \cup Assets
               /\ DOMAIN records'[j] \subseteq Indices
               /\ \A x \in DOMAIN records'[j] : records'[j][x] \in AssetRecords
    BY <1>3, <1>4 DEF Typed, AssetTypeOK
  <2>2. DOMAIN heap' \subseteq Assets /\ \A x \in DOMAIN heap' : heap'[x] \in Objects
    BY <1>5 DEF Typed, AssetTypeOK
  <2> QED
    BY <1>2, <2>1, <2>2 DEF Typed, AssetTypeOK
<1>7. Numbered' /\ PathsDistinct'
  <2>1. \A j \in Importers \ erased' :
          /\ j \in Importers \ erased /\ assets'[j] = assets[j] /\ records'[j] = records[j]
    BY <1>2, <1>3
  <2> QED
    BY <2>1 DEF Numbered, PathsDistinct
<1>8. DefaultHeld'
  <2> SUFFICES ASSUME NEW j \in Defaults
               PROVE  /\ default_asset[j] = 1
                      /\ 1 \in DOMAIN assets'[j]
                      /\ assets'[j][1] = DefaultOf(j)
                      /\ DefaultOf(j) \in DOMAIN heap'
                      /\ heap'[DefaultOf(j)] = Object(j, 1, TRUE)
    BY <1>2 DEF DefaultHeld, DefaultOf, Object
  <2>1. /\ j \in Importers
        /\ default_asset[j] = 1 /\ 1 \in DOMAIN assets[j] /\ assets[j][1] = DefaultOf(j)
        /\ DefaultOf(j) \in DOMAIN heap /\ heap[DefaultOf(j)] = Object(j, 1, TRUE)
    BY <1>1, AssetAssumption DEF DefaultHeld
  <2>2. DefaultOf(j) # a
    BY <1>1, <2>1 DEF Object
  <2>3. j = i => r # 1
    BY <1>1, <2>1, <2>2
  <2> QED
    BY <1>3, <1>4, <1>5, <2>1, <2>2, <2>3
<1> QED
  BY <1>6, <1>7, <1>8

LEMMA KeptShutdown ==
  ASSUME KeptInv, Shutdown
  PROVE  Typed' /\ Numbered' /\ PathsDistinct' /\ DefaultHeld'
<1>1. /\ ~up'
      /\ assets' = [i \in Importers |-> [s \in {} |-> 0]]
      /\ records' = [i \in Importers |-> [s \in {} |-> 0]]
      /\ uuid2id' = [i \in Importers |-> [u \in {} |-> 0]]
      /\ name2id' = [i \in Importers |-> [n \in {} |-> 0]]
      /\ UNCHANGED <<default_asset, created, issued, erased>>
  BY DEF Shutdown
<1>2. DOMAIN heap' \subseteq DOMAIN heap /\ \A a \in DOMAIN heap' : heap'[a] = heap[a]
  BY DEF Shutdown
<1>3. Typed'
  <2>1. up' \in BOOLEAN
    BY DEF Shutdown
  <2> QED
    BY <1>1, <1>2, <2>1 DEF Typed, AssetTypeOK, KeptInv
<1>4. Numbered' /\ PathsDistinct'
  BY <1>1 DEF Numbered, PathsDistinct
<1>5. DefaultHeld'
  BY <1>1 DEF DefaultHeld
<1> QED
  BY <1>3, <1>4, <1>5

LEMMA KeptInit ==
  ASSUME Init
  PROVE  KeptInv
<1>1. \A i \in Defaults :
        /\ DefaultOf(i) \in DOMAIN heap /\ heap[DefaultOf(i)] = Object(i, 1, TRUE)
  <2> SUFFICES ASSUME NEW i \in Defaults
               PROVE  DefaultOf(i) \in DOMAIN heap /\ heap[DefaultOf(i)] = Object(i, 1, TRUE)
    OBVIOUS
  <2>1. DefaultOf(i) - 1 = i
    BY AssetAssumption DEF DefaultOf
  <2> QED
    BY <2>1 DEF Init
<1>2. DefaultHeld
  <2> SUFFICES ASSUME NEW i \in Defaults
               PROVE  default_asset[i] = 1 /\ 1 \in DOMAIN assets[i] /\ assets[i][1] = DefaultOf(i)
    BY <1>1 DEF DefaultHeld
  <2>1. i \in Importers /\ FirstSlots(i) = {0, 1}
    BY AssetAssumption DEF FirstSlots
  <2> QED
    BY <2>1 DEF Init
<1>3. \A i \in Importers : DefaultOf(i) \in Assets
  BY AssetAssumption DEF DefaultOf, Assets
<1>4. 0 \in Indices /\ 1 \in Indices
  BY AssetAssumption DEF Indices
<1>5. ASSUME NEW i \in Importers
      PROVE  /\ DOMAIN assets[i] \subseteq Indices
             /\ \A s \in DOMAIN assets[i] : assets[i][s] \in {0} \cup Assets
             /\ DOMAIN records[i] \subseteq Indices
             /\ \A r \in DOMAIN records[i] :
                  records[i][r] \in AssetRecords /\ records[i][r].path = NoPath
             /\ DOMAIN uuid2id[i] \subseteq Assets
             /\ DOMAIN name2id[i] \subseteq Names
  <2>1. /\ assets[i] = [s \in FirstSlots(i) |-> IF s = 0 THEN 0 ELSE DefaultOf(i)]
        /\ records[i] = [s \in FirstSlots(i) |->
                          Record(s, IF s = 0 THEN 0 ELSE DefaultOf(i), NoPath)]
        /\ DOMAIN uuid2id[i] \subseteq {DefaultOf(i)}
        /\ DOMAIN name2id[i] = {}
    BY DEF Init
  <2>2. FirstSlots(i) \subseteq Indices
    BY <1>4 DEF FirstSlots
  <2>3. \A s \in Indices, u \in {0} \cup Assets :
          Record(s, u, NoPath) \in AssetRecords /\ Record(s, u, NoPath).path = NoPath
    BY DEF Record, AssetRecords, Paths
  <2>4. DOMAIN assets[i] \subseteq Indices /\ \A s \in DOMAIN assets[i] : assets[i][s] \in {0} \cup Assets
    BY <1>3, <2>1, <2>2
  <2>5. DOMAIN records[i] = FirstSlots(i)
    BY <2>1
  <2>6. ASSUME NEW r \in FirstSlots(i)
        PROVE  records[i][r] \in AssetRecords /\ records[i][r].path = NoPath
    <3>1. PICK u : u = IF r = 0 THEN 0 ELSE DefaultOf(i)
      OBVIOUS
    <3>2. u \in {0} \cup Assets /\ r \in Indices
      BY <1>3, <2>2, <3>1
    <3>3. records[i][r] = Record(r, u, NoPath)
      BY <2>1, <3>1
    <3> QED
      BY <2>3, <3>2, <3>3
  <2>7. DOMAIN uuid2id[i] \subseteq Assets /\ DOMAIN name2id[i] \subseteq Names
    BY <1>3, <2>1
  <2> QED
    BY <2>2, <2>4, <2>5, <2>6, <2>7
<1>6. ASSUME NEW a \in DOMAIN heap
      PROVE  a \in Assets /\ heap[a] \in Objects
  <2>1. PICK i \in Defaults : a = DefaultOf(i)
    BY DEF Init
  <2>2. Object(i, 1, TRUE) \in Objects
    BY <1>4, AssetAssumption DEF Object, Objects
  <2> QED
    BY <1>1, <1>3, <2>1, <2>2, AssetAssumption
<1>7. Typed
  <2>1. default_asset \in [Importers -> Indices]
    BY <1>4 DEF Init
  <2>2. DOMAIN name2id = Importers /\ up = TRUE /\ issued = {}
    BY DEF Init
  <2> QED
    BY <1>5, <1>6, <2>1, <2>2 DEF Typed, AssetTypeOK
<1>8. Numbered /\ PathsDistinct
  <2>1. NoPath.by # "number"
    BY DEF NoPath
  <2> QED
    BY <1>5, <2>1 DEF Numbered, PathsDistinct
<1> QED
  BY <1>2, <1>7, <1>8, InvInit DEF KeptInv

\* The default asset of every importer outlives all calls but the shutdown, and
\* paths only repeat in a class of which an asset was freed.
THEOREM DefaultKeptHolds == Spec => []DefaultKept
<1>1. KeptInv => DefaultKept
  BY DEF KeptInv, DefaultKept, Typed, DefaultHeld, HandleGet, Handle
<1>2. KeptInv /\ [Next]_vars => Typed' /\ Numbered' /\ PathsDistinct' /\ DefaultHeld'
  <2> SUFFICES ASSUME KeptInv, [Next]_vars
               PROVE  Typed' /\ Numbered' /\ PathsDistinct' /\ DefaultHeld'
    OBVIOUS
  <2>1. ASSUME NEW i \in Importers, NEW a \in Assets, NEW s \in Indices, NEW r \in Indices,
               NEW n \in Names, Import(i, n, a, s, r)
        PROVE  Typed' /\ Numbered' /\ PathsDistinct' /\ DefaultHeld'
    <3> DEFINE path == [by |-> "name", name |-> n]
    <3>1. path \in Paths /\ path.by # "number"
      BY DEF Paths
    <3>2. name2id' = [name2id EXCEPT ![i] = Put(@, n, s)]
      BY <2>1 DEF Import
    <3>3. /\ DOMAIN name2id' = Importers
          /\ \A j \in Importers : DOMAIN name2id'[j] \subseteq Names
      BY <3>2 DEF KeptInv, Typed, AssetTypeOK, Put
    <3>4. /\ up /\ a \notin created
          /\ FreeSlot(assets[i], s) /\ FreeSlot(records[i], r)
          /\ Store(i, a, s, r, path)
      BY <2>1 DEF Import
    <3> HIDE DEF path
    <3> QED
      BY <3>1, <3>3, <3>4, KeptStore
  <2>2. ASSUME NEW i \in Importers, NEW a \in Assets, NEW s \in Indices, NEW r \in Indices,
               Add(i, a, s, r)
        PROVE  Typed' /\ Numbered' /\ PathsDistinct' /\ DefaultHeld'
    <3> DEFINE path == [by |-> "number", number |-> Cardinality(DOMAIN assets[i])]
    <3>1. DOMAIN assets[i] \subseteq Indices
      BY DEF KeptInv, Typed, AssetTypeOK
    <3>2. Cardinality(DOMAIN assets[i]) \in Nat
      BY <3>1, SlotsFinite
    <3>3. path \in Paths /\ path.number = Cardinality(DOMAIN assets[i])
      BY <3>2 DEF Paths
    <3>4. /\ DOMAIN name2id' = Importers
          /\ \A j \in Importers : DOMAIN name2id'[j] \subseteq Names
      BY <2>2 DEF KeptInv, Typed, AssetTypeOK, Add
    <3>5. /\ up /\ a \notin created
          /\ FreeSlot(assets[i], s) /\ FreeSlot(records[i], r)
          /\ Store(i, a, s, r, path)
      BY <2>2 DEF Add
    <3> HIDE DEF path
    <3> QED
      BY <3>3, <3>4, <3>5, KeptStore
  <2>3. ASSUME NEW a \in Assets, Free(a)
        PROVE  Typed' /\ Numbered' /\ PathsDistinct' /\ DefaultHeld'
    BY <2>3, KeptFree
  <2>4. CASE Shutdown
    BY <2>4, KeptShutdown
  <2>5. CASE UNCHANGED vars
    BY <2>5 DEF vars, KeptInv, Typed, AssetTypeOK, Numbered, PathsDistinct, DefaultHeld
  <2> QED
    BY <2>1, <2>2, <2>3, <2>4, <2>5 DEF Next
<1>3. Spec => []KeptInv
  <2>1. Init => KeptInv
    BY KeptInit
  <2>2. Inv' /\ Typed' /\ Numbered' /\ PathsDistinct' /\ DefaultHeld' => KeptInv'
    BY DEF KeptInv
  <2> QED
    BY <1>2, <2>1, <2>2, Invariance, PTL DEF Spec
<1> QED
  BY <1>1, <1>3, PTL
=============================================================================

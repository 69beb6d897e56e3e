---------------------------- MODULE MCResources ----------------------------
(***************************************************************************)
(* What a program holds, for TLC: its memory, in the table of the memory   *)
(* debugger, and its assets.  The two share no state, and a behaviour runs *)
(* one of them and leaves the other as it is at the start.                 *)
(***************************************************************************)
EXTENDS MemTable, AssetState

CONSTANTS t1, t2, p1, p2, p3, p4, n1, n2

VARIABLE part          \* the part that runs

\* Two threads and four blocks, three of which collide in a table of three
\* slots, so that probes wrap around and the table can be full.
TwoThreads == {t1, t2}
FourPtrs   == {p1, p2, p3, p4}
Colliding  == [p \in FourPtrs |-> IF p = p4 THEN 0 ELSE 2]

\* Two importers: the first one, which only imports (textures), and a later
\* one without default assets, which imports and adds.
TwoImporters == {0, 1}
FirstOnly    == {0}
TwoNames     == {n1, n2}

Manager == INSTANCE AssetManager

held_assets == <<up, assets, records, uuid2id, name2id, default_asset, heap, created,
                 issued, erased>>
resources   == <<part, vars, held_assets>>

ResourcesInit ==
  /\ part \in {"memory", "assets"}
  /\ Init
  /\ Manager!Init

ResourcesNext ==
  \/ part = "memory" /\ Next /\ UNCHANGED <<part, held_assets>>
  \/ part = "assets" /\ Manager!Next /\ UNCHANGED <<part, vars>>

ResourcesSpec == ResourcesInit /\ [][ResourcesNext]_resources
=============================================================================

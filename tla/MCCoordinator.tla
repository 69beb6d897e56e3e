--------------------------- MODULE MCCoordinator ---------------------------
(***************************************************************************)
(* Small instances of the coordinator for TLC.                             *)
(***************************************************************************)
EXTENDS Coordinator

CONSTANTS t1

MCTools == {t1}
=============================================================================

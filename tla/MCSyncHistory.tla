--------------------------- MODULE MCSyncHistory ----------------------------
(* The instances of MCSyncExtraction, with the memory of lost updates.      *)
EXTENDS MCSyncExtraction, SyncHistory
=============================================================================

-------------------------- MODULE MCSyncExtraction --------------------------
(* SyncExtraction on small instances.  Uploads are interchangeable, and so are *)
(* files and sessions; answers are not, one fills the nullable columns.        *)
EXTENDS SyncExtraction, TLC

CONSTANTS full, sparse, unparsed, nul

MCAnswer  == {full, sparse}
MCFull    == {full}
MCMessage == {unparsed, nul}

Symmetry == Permutations(Request) \cup Permutations(File) \cup Permutations(Session)
=============================================================================

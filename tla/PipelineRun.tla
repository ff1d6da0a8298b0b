---------------------------- MODULE PipelineRun -----------------------------
(***************************************************************************)
(* What one run of the extraction pipeline promises to the upload that     *)
(* awaits it, whatever calls it makes: it delivers once, either a complete *)
(* extraction together with the text it was parsed from, or a failure with *)
(* a text to store; or it raises an exception and delivers nothing.        *)
(***************************************************************************)
EXTENDS StoredData

VARIABLES phase, delivered

vars == <<phase, delivered>>

Init == phase = "running" /\ delivered = Null

Deliver ==
    /\ phase      = "running"
    /\ phase'     = "delivered"
    /\ delivered' \in Delivered

Raise ==
    /\ phase  = "running"
    /\ phase' = "raised"
    /\ UNCHANGED delivered

Next == Deliver \/ Raise
Spec == Init /\ [][Next]_vars
=============================================================================

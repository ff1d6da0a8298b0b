----------------------------- MODULE MCServing ------------------------------
(* Serving for TLC: u1 and u2 write the same session and file.              *)
EXTENDS Serving

CONSTANTS u1, u2, u3, p1

MCUpload == {u1, u2, u3}
MCFileOf == [u \in MCUpload |-> IF u = u3 THEN 2 ELSE 1]
=============================================================================

---------------------------- MODULE SyncHistory -----------------------------
(***************************************************************************)
(* SyncExtraction with a memory of lost updates: which row each UPDATE was *)
(* computed from, and which rows have been updated by one that was         *)
(* computed from another row than the one it was applied to.  The code has *)
(* no such memory, and it restricts no step.                               *)
(***************************************************************************)
EXTENDS SyncExtraction

VARIABLES
    base,       \* the object that the UPDATE of an upload was computed from
    overlapped  \* the keys whose row was changed by an UPDATE from another row

hvars == <<vars, base, overlapped>>

\* The UPDATE of r ends in this step and changes the row of k, which is not the
\* one it was computed from.
Overlaps(r, k) ==
    /\ pc[r] = "updated" /\ pc'[r] # "updated"
    /\ key[r] = k
    /\ rows'[k] # rows[k]
    /\ rows[k] # base[r]

Remember ==
    /\ base' = [r \in Request |->
                  IF pc'[r] # "updated" THEN Null
                  ELSE IF pc[r] = "update" THEN record[r] ELSE base[r]]
    /\ overlapped' = overlapped \cup {k \in Key : \E r \in Request : Overlaps(r, k)}

HInit == Init /\ base = [r \in Request |-> Null] /\ overlapped = {}
HNext == Next /\ Remember
HSpec == HInit /\ [][HNext]_hvars

-----------------------------------------------------------------------------
(* Properties.                                                             *)

\* Only a lost update tears a row: as long as every UPDATE of a key was applied to
\* the row it was computed from, the stored row is one outcome, whatever races,
\* failures and restarts there were.  CachedResultIsOneAnswer fails for no other
\* reason.
OnlyOverlapsTear ==
    \A k \in Key :
        Stored(k) /\ k \notin overlapped =>
            \E d \in OutcomeData : rows[k] = NewRow(rows[k].id, d)
=============================================================================

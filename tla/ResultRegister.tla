--------------------------- MODULE ResultRegister ---------------------------
(***************************************************************************)
(* What the upload path promises, without transactions, snapshots or       *)
(* locks: one entry per (session, file) that uploads read and write        *)
(* atomically.  Each upload takes effect at one moment between its arrival *)
(* and its reply, and is told what the entry held, or came to hold, then.  *)
(***************************************************************************)
CONSTANTS Request, Key, Answer, Null

Absent      == [status |-> "ABSENT",   doc |-> Null]
Failed      == [status |-> "FAILED",   doc |-> Null]
Complete(a) == [status |-> "COMPLETE", doc |-> a]

Waiting      == [kind |-> "waiting", key |-> Null, doc |-> Null]
Dropped      == [kind |-> "dropped", key |-> Null, doc |-> Null]
Failure(k)   == [kind |-> "failure", key |-> k,    doc |-> Null]
Result(k, a) == [kind |-> "result",  key |-> k,    doc |-> a]

VARIABLES store,   \* entry of each key
          effect   \* what each upload is told

vars == <<store, effect>>

Init == /\ store  = [k \in Key |-> Absent]
        /\ effect = [r \in Request |-> Waiting]

Takes(r, e) == effect[r] = Waiting /\ effect' = [effect EXCEPT ![r] = e]

\* A stored result answers the upload; the entry stays as it is.
Hit(r, k) ==
    /\ store[k].status = "COMPLETE"
    /\ Takes(r, Result(k, store[k].doc))
    /\ UNCHANGED store

\* The upload's own extraction becomes the entry.
Store(r, k, a) ==
    /\ store' = [store EXCEPT ![k] = Complete(a)]
    /\ Takes(r, Result(k, a))

\* The upload failed.  The failure is recorded, or an entry that is already
\* there is left alone; the entry is not absent afterwards.
FailedEntry(k) ==
    \/ store' = [store EXCEPT ![k] = Failed]
    \/ store[k] # Absent /\ UNCHANGED store

Fail(r, k) == FailedEntry(k) /\ Takes(r, Failure(k))

\* The upload is told nothing about the entry.  Its write may have happened.
Drop(r) ==
    /\ \/ UNCHANGED store
       \/ \E k \in Key : \/ FailedEntry(k)
                         \/ \E a \in Answer : store' = [store EXCEPT ![k] = Complete(a)]
    /\ Takes(r, Dropped)

\* A restart loses replies, of uploads that took effect or that did not.
Lose == /\ \E R \in SUBSET Request :
              effect' = [r \in Request |-> IF r \in R THEN Dropped ELSE effect[r]]
        /\ UNCHANGED store

Next == \/ \E r \in Request :
              \/ \E k \in Key : \/ Hit(r, k) \/ Fail(r, k)
                                \/ \E a \in Answer : Store(r, k, a)
              \/ Drop(r)
        \/ Lose

Spec == Init /\ [][Next]_vars
=============================================================================

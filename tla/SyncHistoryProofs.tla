------------------------- MODULE SyncHistoryProofs --------------------------
(* Only lost updates tear a row: for every set of uploads, sessions, files, *)
(* answers and messages.                                                    *)
EXTENDS SyncHistory, SyncExtractionProofs

\* The memory restricts no step, so that what holds of Spec holds with it.
LEMMA HistoryIsSpec == HSpec => Spec
<1>1. HInit => Init
  BY DEF HInit
<1>2. [HNext]_hvars => [Next]_vars
  BY DEF HNext, hvars
<1> QED
  BY <1>1, <1>2, PTL DEF HSpec, Spec

\* The columns that an UPDATE sets are those that differ from its base.
UpdatesFromBase ==
    \A r \in Request : pc[r] = "updated" => cols[r] \in Changes(base[r], data[r])

\* One outcome: what an upload writes where nothing was lost.
Whole(row) == \E d \in OutcomeData : row = NewRow(row.id, d)

HInv == UpdatesFromBase /\ OnlyOverlapsTear

-----------------------------------------------------------------------------
\* A step of r that is no UPDATE leaves r without one under way.
LEMMA OnlyUpdateUpdates ==
    ASSUME TypeOK, NEW r \in Request, pc[r] # "updated", pc'[r] = "updated", Next
    PROVE  Update(r)
<1>1. ~Restart /\ ~Quiet
  BY DEF Restart, InFlight, Quiet, vars, TypeOK
<1>2. PICK q \in Request :
         Arrive(q) \/ Serve(q) \/ DatabaseFails(q) \/ CommitUnacknowledged(q)
  BY <1>1 DEF Next
<1>3. q = r /\ Update(q)
  BY <1>2, Steps DEF CreateSession, FindSession, LookupHit, LookupMiss, Pipeline, Insert,
        InsertConflict, ReloadHit, ReloadForUpdate, Update, Respond, Rollback, Publishes,
        CommitWrite, CommitUnacknowledged, Answering, Goto, TypeOK
<1> QED
  BY <1>3

\* What an UPDATE is about to set changes with its label only.
LEMMA UpdateStays ==
    ASSUME TypeOK, NEW r \in Request, pc[r] = "updated", pc'[r] = "updated", Next
    PROVE  cols'[r] = cols[r] /\ data'[r] = data[r]
<1>1. ~Restart
  BY DEF Restart, InFlight, TypeOK
<1>2. CASE Quiet
  BY <1>2 DEF Quiet, vars
<1>3. ASSUME NEW q \in Request,
             Arrive(q) \/ Serve(q) \/ DatabaseFails(q) \/ CommitUnacknowledged(q)
      PROVE  cols'[r] = cols[r] /\ data'[r] = data[r]
  <2>1. q # r
    BY <1>3, Steps DEF CreateSession, FindSession, LookupHit, LookupMiss, Pipeline, Insert,
        InsertConflict, ReloadHit, ReloadForUpdate, Update, Respond, Rollback, Publishes,
        CommitWrite, CommitUnacknowledged, Answering, Goto, TypeOK
  <2> QED
    BY <1>3, <2>1, Steps DEF CreateSession, FindSession, LookupHit, LookupMiss, Pipeline,
        Insert, InsertConflict, ReloadHit, ReloadForUpdate, Update, Respond, Rollback, Publishes,
        CommitWrite, Commit, CommitUnacknowledged, Answering, Goto, tables, env, TypeOK
<1> QED
  BY <1>1, <1>2, <1>3 DEF Next

\* The base of an UPDATE under way is remembered.
LEMMA BaseKept ==
    ASSUME TypeOK, UpdatesFromBase, Next, Remember PROVE UpdatesFromBase'
<1> SUFFICES ASSUME NEW r \in Request, pc'[r] = "updated"
             PROVE  cols'[r] \in Changes(base'[r], data'[r])
  BY DEF UpdatesFromBase, Changes, NetChange
<1>1. CASE pc[r] = "updated"
  <2>1. base'[r] = base[r]
    BY <1>1 DEF Remember
  <2>2. cols'[r] = cols[r] /\ data'[r] = data[r]
    BY <1>1, UpdateStays
  <2> QED
    BY <1>1, <2>1, <2>2 DEF UpdatesFromBase
<1>2. CASE pc[r] # "updated"
  <2>1. Update(r)
    BY <1>2, OnlyUpdateUpdates
  <2>2. base'[r] = record[r]
    BY <2>1 DEF Remember, Update
  <2>3. cols'[r] \in Changes(record[r], data[r]) /\ data' = data
    BY <2>1 DEF Update, TypeOK
  <2> QED
    BY <2>2, <2>3
<1> QED
  BY <1>1, <1>2

\* A commit that changes a row without overlapping leaves one outcome.
LEMMA CommitIsWhole ==
    ASSUME IInv, RepliesAreOneOutcome, UpdatesFromBase, NEW r \in Request, Publishes(r),
           pc'[r] # "updated", ~Overlaps(r, key[r]), rows'[key[r]] # rows[key[r]]
    PROVE  Whole(rows'[key[r]])
<1>1. rows'[key[r]] = Written(r)[key[r]] /\ key[r] \in Key
  BY CommittedRow
<1>2. data[r] \in OutcomeData
  <2>1. data[r] # Null
    BY NullAssumption DEF Publishes, Commits, IInv, UploadOK, Writing
  <2> QED
    BY <2>1 DEF RepliesAreOneOutcome
<1>3. CASE pc[r] = "inserted"
  <2>1. rows'[key[r]] = NewRow(r, data[r])
    BY <1>1, <1>3 DEF Written, IInv, TypeOK
  <2>2. NewRow(r, data[r]).id = r
    BY DEF NewRow
  <2> QED
    BY <1>2, <2>1, <2>2 DEF Whole
<1>4. CASE pc[r] = "updated"
  <2>1. rows[key[r]] = base[r]
    BY <1>4 DEF Overlaps
  <2>2. rows'[key[r]] = Merge(rows[key[r]], cols[r], data[r])
    BY <1>1, <1>4 DEF Written, IInv, TypeOK
  <2>3. cols[r] \in Changes(base[r], data[r])
    BY <1>4 DEF UpdatesFromBase
  <2>4. rows'[key[r]] = NewRow(rows'[key[r]].id, data[r])
    BY <2>1, <2>2, <2>3, MergeOfChanges
  <2> QED
    BY <1>2, <2>4 DEF Whole
<1> QED
  BY <1>3, <1>4 DEF Publishes, Commits

\* A row that no UPDATE from another row has changed stays one outcome.
LEMMA RowsStayWhole ==
    ASSUME IInv, RepliesAreOneOutcome, HInv, Next, Remember PROVE OnlyOverlapsTear'
<1> SUFFICES ASSUME NEW k \in Key, rows'[k] # Null, k \notin overlapped'
             PROVE  Whole(rows'[k])
  BY DEF OnlyOverlapsTear, Whole, Stored
<1>1. k \notin overlapped /\ \A r \in Request : ~Overlaps(r, k)
  BY DEF Remember
<1>2. CASE rows'[k] = rows[k]
  BY <1>1, <1>2 DEF HInv, OnlyOverlapsTear, Whole, Stored
<1>3. CASE rows'[k] # rows[k]
  <2>1. PICK r \in Request : Publishes(r)
    BY <1>3, RowsChangeAtCommit DEF IInv, tables
  <2>2. key[r] = k
    BY <1>3, <2>1, CommittedRow DEF IInv, TypeOK
  <2>3. pc'[r] # "updated"
    BY <2>1 DEF Publishes, CommitWrite, CommitUnacknowledged, Answering, Goto, IInv, TypeOK
  <2> QED
    BY <1>1, <1>3, <2>1, <2>2, <2>3, CommitIsWhole DEF HInv
<1> QED
  BY <1>2, <1>3

\* A stored row mixes two outcomes only after an UPDATE that was computed from
\* another row than the one it changed.
THEOREM OnlyOverlapsTearCorrect == HSpec => []OnlyOverlapsTear
<1>1. HInit => HInv
  BY DEF HInit, Init, HInv, UpdatesFromBase, OnlyOverlapsTear, Stored
<1>2. ASSUME IInv, RepliesAreOneOutcome, HInv, [HNext]_hvars PROVE HInv'
  <2>1. CASE UNCHANGED hvars
    BY <1>2, <2>1 DEF hvars, vars, HInv, UpdatesFromBase, OnlyOverlapsTear, Stored, Changes,
                      NetChange
  <2>2. CASE HNext
    BY <1>2, <2>2, BaseKept, RowsStayWhole DEF HNext, HInv, IInv
  <2> QED
    BY <1>2, <2>1, <2>2
<1>3. HInv => OnlyOverlapsTear
  BY DEF HInv
<1> QED
  BY <1>1, <1>2, <1>3, HistoryIsSpec, Invariance, OneOutcomeCorrect, PTL DEF HSpec
=============================================================================

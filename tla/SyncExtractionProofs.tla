------------------------ MODULE SyncExtractionProofs ------------------------
(* Machine-checked proofs about SyncExtraction, for every set of uploads,    *)
(* sessions, files, answers and messages.                                    *)
EXTENDS SyncExtraction, TLAPS

-----------------------------------------------------------------------------
(* The values that are written.                                            *)

\* What _build_success_data returns: columns of a complete row.
LEMMA SuccessIsData ==
    ASSUME NEW a \in Answer
    PROVE  /\ Success(a) \in Data
           /\ Success(a).status = "COMPLETE"
           /\ Success(a).doc # Null
           /\ Success(a).error = "NONE"
BY NullAssumption DEF Success, Data, RawText, Status, Outcome

\* What _blank_failure_data returns: columns of a failed row.
LEMMA FailureIsData ==
    ASSUME NEW m \in Message, NEW e \in Outcome
    PROVE  /\ Failure(m, e) \in Data
           /\ Failure(m, e).status = "FAILED"
           /\ Failure(m, e).doc = Null
           /\ Failure(m, e).error = e
BY DEF Failure, Data, RawText, Status

\* What a run of the pipeline delivers is one or the other.
LEMMA DeliveredIsData ==
    ASSUME NEW d \in Delivered
    PROVE  /\ d \in Data
           /\ d.status = "COMPLETE" <=> d.doc # Null
           /\ d.status = "COMPLETE" <=> d.error = "NONE"
<1>1. CASE \E a \in Answer : d = Success(a)
  BY <1>1, SuccessIsData
<1>2. CASE \E m \in Message : d = Failure(m, "LLM_FAILURE")
  BY <1>2, FailureIsData DEF Outcome
<1> QED
  BY <1>1, <1>2 DEF Delivered

\* An INSERT creates a row with the values given and its own id.
LEMMA NewRowIsRow ==
    ASSUME NEW r \in Request, NEW d \in Data
    PROVE  /\ NewRow(r, d) \in Row
           /\ NewRow(r, d).id = r
           /\ NewRow(r, d).status = d.status
           /\ NewRow(r, d).doc = d.doc
BY DEF NewRow, Data, Row

\* An UPDATE of some columns keeps the id and the other columns.
LEMMA MergeIsRow ==
    ASSUME NEW row \in Row, NEW cs, NEW d \in Data
    PROVE  /\ Merge(row, cs, d) \in Row
           /\ Merge(row, cs, d).id = row.id
           /\ Merge(row, cs, d).status = IF "status" \in cs THEN d.status ELSE row.status
           /\ Merge(row, cs, d).doc = IF "doc" \in cs THEN d.doc ELSE row.doc
BY DEF Merge, Data, Row

\* The columns an UPDATE sets are columns, and status and document are among
\* them exactly if they differ.
LEMMA ChangesAreColumns ==
    ASSUME NEW row, NEW d, NEW cs \in Changes(row, d)
    PROVE  /\ cs \in SUBSET Column
           /\ "status" \in cs <=> row.status # d.status
           /\ "doc" \in cs <=> row.doc # d.doc
BY DEF Changes, NetChange, Column

-----------------------------------------------------------------------------
(* Labels, locks and stored rows.                                          *)

Typed == TypeOK /\ (\A r \in Request : UploadOK(r)) /\ LocksExclusive

\* To begin with, everything is in its domain and nothing is locked.
LEMMA InitTyped == Init => Typed
BY BoundAssumption, NullAssumption
   DEF Init, Typed, TypeOK, UploadOK, LocksExclusive, Holds, Label, Column, Keyed,
       Writing, OnStoredRow, Answered

\* A step of r that leaves the tables, and the other uploads, alone.
Local(r) ==
    /\ UNCHANGED tables
    /\ \A q \in Request \ {r} :
          /\ pc'[q] = pc[q] /\ key'[q] = key[q] /\ found'[q] = found[q]
          /\ record'[q] = record[q] /\ data'[q] = data[q] /\ cols'[q] = cols[q]
          /\ reply'[q] = reply[q]

\* Such a step is judged by r alone, if r takes no lock that another one holds.
LEMMA LocalTyped ==
    ASSUME Typed, NEW r \in Request, Local(r), TypeOK', UploadOK(r)',
           \A k \in Key : Holds(r, k)' => ~Locked(r, k)
    PROVE  Typed'
<1> USE DEF Typed
<1>1. ASSUME NEW q \in Request PROVE UploadOK(q)'
  <2>1. CASE q = r
    BY <2>1
  <2>2. CASE q # r
    BY <2>2 DEF Local, UploadOK, tables, OnStoredRow, Answered, Stored
  <2> QED
    BY <2>1, <2>2
<1>2. ASSUME NEW q \in Request, NEW p \in Request, NEW k \in Key, Holds(q, k)', Holds(p, k)'
      PROVE  q = p
  <2>1. ASSUME NEW u \in Request \ {r} PROVE Holds(u, k)' = Holds(u, k)
    BY DEF Local, Holds
  <2> QED
    BY <1>2, <2>1 DEF LocksExclusive, Locked
<1> QED
  BY <1>1, <1>2 DEF LocksExclusive

\* An arriving upload gets a key or is refused.
LEMMA ArriveTyped ==
    ASSUME Typed, NEW r \in Request, CreateSession(r) \/ FindSession(r) PROVE Typed'
<1> USE DEF CreateSession, FindSession, Goto, tables, env
<1>1. TypeOK'
  BY DEF Typed, TypeOK, Key, Label
<1>2. UploadOK(r)'
  BY DEF Typed, TypeOK, UploadOK, OnStoredRow, Answered, Keyed, Writing, Key
<1>3. Local(r)
  BY DEF Local, Typed, TypeOK
<1> QED
  BY <1>1, <1>2, <1>3, LocalTyped DEF Holds, Typed, TypeOK

\* Every exception ends the transaction in the same way.
LEMMA RollbackTyped ==
    ASSUME Typed, NEW r \in Request, NEW e \in {"SESSION_NOT_FOUND", "RAISED"},
           Rollback(r, e), faults' \in 0..MaxFaults
    PROVE  Typed'
<1> USE DEF Rollback, Answering, Goto, tables
<1>1. TypeOK'
  BY DEF Typed, TypeOK, Label, Reply, Error
<1>2. UploadOK(r)'
  BY DEF Typed, TypeOK, UploadOK, OnStoredRow, Answered, Keyed, Writing, Reply, Error, Outcome
<1>3. Local(r)
  BY DEF Local, Typed, TypeOK
<1> QED
  BY <1>1, <1>2, <1>3, LocalTyped DEF Holds, Typed, TypeOK

\* A lookup leaves the upload with the row it found, or with none.
LEMMA LookupTyped ==
    ASSUME Typed, NEW r \in Request, LookupHit(r) \/ LookupMiss(r) PROVE Typed'
<1> USE DEF Goto, Answering, tables, env
<1>1. key[r] \in Key /\ rows[key[r]] \in Row \cup {Null}
  BY DEF LookupHit, LookupMiss, Typed, TypeOK, UploadOK, Keyed
<1>2. CASE LookupHit(r)
  <2>1. TypeOK'
    BY <1>1, <1>2 DEF LookupHit, Typed, TypeOK, Label, Reply, Error, Outcome
  <2>2. UploadOK(r)'
    BY <1>1, <1>2 DEF LookupHit, Typed, TypeOK, UploadOK, OnStoredRow, Answered, Keyed,
                      Writing, Reply, Error, Outcome, Stored
  <2>3. Local(r)
    BY <1>2 DEF LookupHit, Local, Typed, TypeOK
  <2> QED
    BY <1>2, <2>1, <2>2, <2>3, LocalTyped DEF LookupHit, Holds, Typed, TypeOK
<1>3. CASE LookupMiss(r)
  <2>1. \A m \in Message : Failure(m, "LLM_PROVIDER_UNAVAILABLE") \in Data
    BY FailureIsData DEF Outcome
  <2>2. TypeOK'
    <3>1. data' \in [Request -> Data \cup {Null}]
      BY <1>3, <2>1 DEF LookupMiss, Typed, TypeOK
    <3>2. pc' \in [Request -> Label]
      BY <1>3 DEF LookupMiss, Typed, TypeOK, Label
    <3>3. record' \in [Request -> Row \cup {Null}] /\ found' \in [Request -> BOOLEAN]
      BY <1>1, <1>3 DEF LookupMiss, Typed, TypeOK, Stored
    <3> QED
      BY <1>3, <3>1, <3>2, <3>3 DEF LookupMiss, Typed, TypeOK
  <2>3. UploadOK(r)'
    <3>1. /\ key' = key /\ rows' = rows /\ record'[r] = rows[key[r]]
          /\ found'[r] = Stored(key[r])
      BY <1>3 DEF LookupMiss, Typed, TypeOK
    <3>2. \/ pc'[r] = "pipeline"
          \/ pc'[r] = "insert" /\ data'[r] \in Data
          \/ pc'[r] = "update" /\ data'[r] \in Data /\ Stored(key[r])
      BY <1>3, <2>1 DEF LookupMiss, Typed, TypeOK
    <3> QED
      BY <1>1, <3>1, <3>2 DEF UploadOK, OnStoredRow, Answered, Keyed, Writing, Stored
  <2>4. Local(r)
    BY <1>3 DEF LookupMiss, Local, Typed, TypeOK
  <2> QED
    BY <1>3, <2>2, <2>3, <2>4, LocalTyped DEF LookupMiss, Holds, Typed, TypeOK
<1> QED
  BY <1>2, <1>3

\* The pipeline gives the upload values to write.
LEMMA PipelineTyped ==
    ASSUME Typed, NEW r \in Request, Pipeline(r) PROVE Typed'
<1> USE DEF Pipeline, Goto, tables, env
<1>1. data'[r] \in Data /\ data' = [data EXCEPT ![r] = data'[r]]
  BY DeliveredIsData DEF Typed, TypeOK
<1>2. TypeOK'
  BY <1>1 DEF Typed, TypeOK, Label
<1>3. UploadOK(r)'
  BY <1>1 DEF Typed, TypeOK, UploadOK, OnStoredRow, Answered, Keyed, Writing, Stored
<1>4. Local(r)
  BY <1>1 DEF Local, Typed, TypeOK
<1> QED
  BY <1>2, <1>3, <1>4, LocalTyped DEF Holds, Typed, TypeOK

\* An INSERT locks a key that has no row and that nobody else has locked.
LEMMA InsertTyped ==
    ASSUME Typed, NEW r \in Request, Insert(r) PROVE Typed'
<1> USE DEF Insert, Goto, tables, env
<1>1. key[r] \in Key /\ data[r] \in Data
  BY DEF Typed, UploadOK, Keyed, Writing
<1>2. NewRow(r, data[r]) \in Row /\ NewRow(r, data[r]).id = r
  BY <1>1, NewRowIsRow
<1>3. TypeOK'
  BY <1>2 DEF Typed, TypeOK, Label
<1>4. UploadOK(r)'
  BY <1>1, <1>2 DEF Typed, TypeOK, UploadOK, OnStoredRow, Answered, Keyed, Writing, Stored
<1>5. Local(r)
  BY DEF Local, Typed, TypeOK
<1> QED
  BY <1>3, <1>4, <1>5, LocalTyped DEF Holds

\* An INSERT conflicts with a committed row, which is there for the reload.
LEMMA InsertConflictTyped ==
    ASSUME Typed, NEW r \in Request, InsertConflict(r) PROVE Typed'
<1> USE DEF InsertConflict, Goto, tables, env
<1>1. TypeOK'
  BY DEF Typed, TypeOK, Label
<1>2. UploadOK(r)'
  BY DEF Typed, TypeOK, UploadOK, OnStoredRow, Answered, Keyed, Writing, Stored
<1>3. Local(r)
  BY DEF Local, Typed, TypeOK
<1> QED
  BY <1>1, <1>2, <1>3, LocalTyped DEF Holds, Typed, TypeOK

\* After a reload the upload holds the stored row.
LEMMA ReloadTyped ==
    ASSUME Typed, NEW r \in Request, ReloadHit(r) \/ ReloadForUpdate(r) PROVE Typed'
<1> USE DEF Answering, Goto, tables, env
<1>1. key[r] \in Key /\ data[r] \in Data /\ rows[key[r]] \in Row /\ Stored(key[r])
  BY DEF ReloadHit, ReloadForUpdate, Typed, TypeOK, UploadOK, Keyed, Writing, Stored
<1>2. CASE ReloadHit(r)
  <2>1. TypeOK'
    BY <1>1, <1>2 DEF ReloadHit, Typed, TypeOK, Label, Reply, Error, Outcome
  <2>2. UploadOK(r)'
    BY <1>1, <1>2 DEF ReloadHit, Typed, TypeOK, UploadOK, OnStoredRow, Answered, Keyed,
                      Writing, Stored, Reply, Error, Outcome
  <2>3. Local(r)
    BY <1>2 DEF ReloadHit, Local, Typed, TypeOK
  <2> QED
    BY <1>2, <2>1, <2>2, <2>3, LocalTyped DEF ReloadHit, Holds, Typed, TypeOK
<1>3. CASE ReloadForUpdate(r)
  <2>1. TypeOK'
    BY <1>1, <1>3 DEF ReloadForUpdate, Typed, TypeOK, Label
  <2>2. UploadOK(r)'
    BY <1>1, <1>3 DEF ReloadForUpdate, Typed, TypeOK, UploadOK, OnStoredRow, Answered, Keyed,
                      Writing, Stored
  <2>3. Local(r)
    BY <1>3 DEF ReloadForUpdate, Local, Typed, TypeOK
  <2> QED
    BY <1>3, <2>1, <2>2, <2>3, LocalTyped DEF ReloadForUpdate, Holds, Typed, TypeOK
<1> QED
  BY <1>2, <1>3

\* An UPDATE locks a row that nobody else has locked and keeps its id.
LEMMA UpdateTyped ==
    ASSUME Typed, NEW r \in Request, Update(r) PROVE Typed'
<1> USE DEF Goto, tables, env
<1>0. PICK cs \in Changes(record[r], data[r]) :
         /\ cs # {} => ~Locked(r, key[r])
         /\ cols' = [cols EXCEPT ![r] = cs]
         /\ record' = [record EXCEPT ![r] = Merge(record[r], cs, data[r])]
  BY DEF Update
<1>1. /\ key[r] \in Key /\ data[r] \in Data /\ record[r] \in Row
      /\ Stored(key[r]) /\ record[r].id = rows[key[r]].id
  BY DEF Update, Typed, UploadOK, Keyed, Writing, OnStoredRow
<1>2. cs \in SUBSET Column
  BY ChangesAreColumns
<1>3. Merge(record[r], cs, data[r]) \in Row /\ Merge(record[r], cs, data[r]).id = record[r].id
  BY <1>1, MergeIsRow
<1>4. TypeOK'
  BY <1>0, <1>2, <1>3 DEF Update, Typed, TypeOK, Label
<1>5. UploadOK(r)'
  BY <1>0, <1>1, <1>3 DEF Update, Typed, TypeOK, UploadOK, OnStoredRow, Answered, Keyed, Writing, Stored
<1>6. Local(r)
  BY <1>0 DEF Update, Local, Typed, TypeOK
<1>7. \A k \in Key : Holds(r, k)' => ~Locked(r, k)
  BY <1>0 DEF Update, Holds, Typed, TypeOK
<1> QED
  BY <1>4, <1>5, <1>6, <1>7, LocalTyped

\* Sending the response changes the label only.
LEMMA RespondTyped ==
    ASSUME Typed, NEW r \in Request, Respond(r) PROVE Typed'
<1> USE DEF Respond, Goto, tables, env
<1>1. TypeOK'
  BY DEF Typed, TypeOK, Label
<1>2. UploadOK(r)'
  BY DEF Typed, TypeOK, UploadOK, OnStoredRow, Answered, Keyed, Writing, Stored
<1>3. Local(r)
  BY DEF Local, Typed, TypeOK
<1> QED
  BY <1>1, <1>2, <1>3, LocalTyped DEF Holds, Typed, TypeOK

\* A commit stores a row where none was, or keeps the id of the one it updates.
LEMMA WrittenRows ==
    ASSUME Typed, NEW r \in Request, pc[r] \in {"inserted", "updated"}
    PROVE  /\ key[r] \in Key /\ data[r] \in Data /\ record[r] \in Row
           /\ Written(r)[key[r]] \in Row
           /\ Written(r) = [rows EXCEPT ![key[r]] = Written(r)[key[r]]]
           /\ Written(r)[key[r]].id = record[r].id
           /\ Stored(key[r]) => Written(r)[key[r]].id = rows[key[r]].id
<1>1. key[r] \in Key /\ data[r] \in Data /\ record[r] \in Row
  BY DEF Typed, UploadOK, Keyed, Writing, OnStoredRow
<1>2. CASE pc[r] = "inserted"
  <2>1. NewRow(r, data[r]) \in Row /\ NewRow(r, data[r]).id = r
    BY <1>1, NewRowIsRow
  <2> QED
    BY <1>1, <1>2, <2>1 DEF Written, Typed, TypeOK, UploadOK
<1>3. CASE pc[r] = "updated"
  <2>1. rows[key[r]] \in Row /\ record[r].id = rows[key[r]].id
    BY <1>1, <1>3 DEF Typed, TypeOK, UploadOK, OnStoredRow, Stored
  <2>2. /\ Merge(rows[key[r]], cols[r], data[r]) \in Row
        /\ Merge(rows[key[r]], cols[r], data[r]).id = rows[key[r]].id
    BY <1>1, <2>1, MergeIsRow
  <2> QED
    BY <1>1, <1>3, <2>1, <2>2 DEF Written, Typed, TypeOK
<1> QED
  BY <1>1, <1>2, <1>3

\* A step of r that commits what r wrote.
Commits(r) ==
    /\ pc[r] \in {"inserted", "updated"}
    /\ rows' = Written(r)
    /\ sessions' = sessions \cup {key[r][1]}

Publishes(r) == Commits(r) /\ (CommitWrite(r) \/ CommitUnacknowledged(r))

\* A commit releases the lock and leaves every other upload on a stored row with the same id.
LEMMA PublishesTyped ==
    ASSUME Typed, NEW r \in Request, Publishes(r), faults' \in 0..MaxFaults PROVE Typed'
<1> USE DEF Publishes, Commits
<1>1. /\ key[r] \in Key /\ data[r] \in Data /\ record[r] \in Row
      /\ Written(r)[key[r]] \in Row
      /\ rows' = [rows EXCEPT ![key[r]] = Written(r)[key[r]]]
      /\ Written(r)[key[r]].id = record[r].id
      /\ Stored(key[r]) => Written(r)[key[r]].id = rows[key[r]].id
  BY WrittenRows
<1>2. \A k \in Key : Stored(k) => Stored(k)' /\ rows'[k].id = rows[k].id
  BY <1>1, NullAssumption DEF Typed, TypeOK, Stored
<1>3. rows'[key[r]] # Null /\ rows'[key[r]].id = record[r].id
  BY <1>1, NullAssumption DEF Typed, TypeOK, Stored
<1>4. key[r][1] \in Session
  BY <1>1 DEF Key
<1>5. data[r].error \in Outcome
  BY <1>1 DEF Data
<1>6. TypeOK'
  <2>1. \A e \in Error : [error |-> e, dedup |-> FALSE] \in Reply
    BY DEF Reply
  <2>2. data[r].error \in Error /\ "RAISED" \in Error
    BY <1>5 DEF Error
  <2>3. \A e \in Error : Answering(r, e, FALSE) =>
           reply' \in [Request -> Reply \cup {Null}] /\ pc' \in [Request -> Label]
    BY <2>1 DEF Answering, Goto, Typed, TypeOK, Label
  <2>4. rows' \in [Key -> Row \cup {Null}] /\ sessions' \subseteq Session
    BY <1>1, <1>4 DEF Typed, TypeOK
  <2>5. CASE CommitWrite(r)
    BY <2>2, <2>3, <2>4, <2>5 DEF CommitWrite, Commit, env, Typed, TypeOK
  <2>6. CASE CommitUnacknowledged(r)
    BY <2>2, <2>3, <2>4, <2>6 DEF CommitUnacknowledged, Typed, TypeOK
  <2> QED
    BY <2>5, <2>6
<1>7. \A q \in Request \ {r} :
         /\ pc'[q] = pc[q] /\ key'[q] = key[q] /\ found'[q] = found[q]
         /\ record'[q] = record[q] /\ data'[q] = data[q] /\ cols'[q] = cols[q]
         /\ reply'[q] = reply[q]
  BY DEF CommitWrite, CommitUnacknowledged, Commit, Answering, Goto, env, Typed, TypeOK
<1>8. ASSUME NEW q \in Request PROVE UploadOK(q)'
  <2>1. CASE q = r
    <3>1. pc'[r] = "respond" /\ key'[r] = key[r]
      BY DEF CommitWrite, CommitUnacknowledged, Commit, Answering, Goto, env, Typed, TypeOK
    <3>2. reply'[r] \in Reply /\ (reply'[r].error \in Outcome => record'[r] = record[r])
      <4>1. CASE CommitWrite(r)
        BY <1>5, <4>1 DEF CommitWrite, Commit, Answering, Typed, TypeOK, Reply, Error
      <4>2. CASE CommitUnacknowledged(r)
        BY <4>2 DEF CommitUnacknowledged, Answering, Typed, TypeOK, Reply, Error, Outcome
      <4> QED
        BY <4>1, <4>2
    <3> QED
      BY <1>1, <1>3, <2>1, <3>1, <3>2 DEF UploadOK, OnStoredRow, Keyed, Writing, Stored
  <2>2. CASE q # r /\ pc[q] # "inserted"
    BY <1>2, <1>7, <2>2 DEF Typed, TypeOK, UploadOK, OnStoredRow, Keyed, Writing, Stored, Answered
  <2>3. CASE q # r /\ pc[q] = "inserted"
    <3>1. key[q] # key[r]
      BY <1>1, <2>3 DEF Typed, UploadOK, LocksExclusive, Holds, OnStoredRow
    <3>2. ~Stored(key[q])'
      BY <1>1, <1>7, <2>3, <3>1 DEF Typed, TypeOK, UploadOK, Stored, Keyed
    <3> QED
      BY <1>7, <2>3, <3>2 DEF Typed, UploadOK, OnStoredRow, Keyed, Writing, Answered
  <2> QED
    BY <2>1, <2>2, <2>3
<1>9. LocksExclusive'
  <2>1. ASSUME NEW q \in Request, NEW k \in Key, Holds(q, k)' PROVE Holds(q, k)
    BY <1>7, <2>1 DEF Holds, CommitWrite, CommitUnacknowledged, Answering, Goto, Typed, TypeOK
  <2> QED
    BY <2>1 DEF LocksExclusive, Typed
<1> QED
  BY <1>6, <1>8, <1>9 DEF Typed

\* A restart leaves the answered uploads as they are and forgets the others.
LEMMA RestartTyped == ASSUME Typed, Restart PROVE Typed'
<1> USE DEF Restart, InFlight, tables
<1>1. TypeOK'
  BY BoundAssumption DEF Typed, TypeOK, Label
<1>2. ASSUME NEW q \in Request PROVE UploadOK(q)'
  BY DEF Typed, TypeOK, UploadOK, OnStoredRow, Keyed, Writing, Stored, Answered
<1>3. LocksExclusive'
  BY DEF LocksExclusive, Holds, Typed, TypeOK
<1> QED
  BY <1>1, <1>2, <1>3 DEF Typed

\* The steps of one upload, grouped by how they are proved about.
LEMMA Steps ==
    ASSUME NEW r \in Request, Arrive(r) \/ Serve(r) \/ DatabaseFails(r) \/ CommitUnacknowledged(r),
           TypeOK
    PROVE  \/ CreateSession(r) \/ FindSession(r)
           \/ LookupHit(r) \/ LookupMiss(r)
           \/ Pipeline(r)
           \/ Insert(r) \/ InsertConflict(r)
           \/ ReloadHit(r) \/ ReloadForUpdate(r)
           \/ Update(r)
           \/ Publishes(r) /\ faults' \in 0..MaxFaults
           \/ Respond(r)
           \/ /\ \E e \in {"SESSION_NOT_FOUND", "RAISED"} : Rollback(r, e)
              /\ faults' \in 0..MaxFaults
<1>1. CASE Arrive(r)
  BY <1>1 DEF Arrive, UnknownSession, TypeOK
<1>2. CASE Serve(r)
  <2>1. CASE CommitWrite(r)
    BY <2>1 DEF CommitWrite, Commit, Publishes, Commits, env, TypeOK
  <2>2. CASE PipelineRaises(r) \/ WriteRejected(r)
    BY <2>2 DEF PipelineRaises, WriteRejected, TypeOK
  <2> QED
    BY <1>2, <2>1, <2>2 DEF Serve
<1>3. CASE DatabaseFails(r)
  <2>1. faults' \in 0..MaxFaults
    BY <1>3, BoundAssumption DEF DatabaseFails, TypeOK
  <2> QED
    BY <1>3, <2>1 DEF DatabaseFails
<1>4. CASE CommitUnacknowledged(r)
  <2>1. faults' \in 0..MaxFaults
    BY <1>4, BoundAssumption DEF CommitUnacknowledged, TypeOK
  <2>2. Publishes(r)
    BY <1>4 DEF CommitUnacknowledged, Publishes, Commits
  <2> QED
    BY <2>1, <2>2
<1> QED
  BY <1>1, <1>2, <1>3, <1>4

\* No step of the server, and no failure, breaks it.
LEMMA NextTyped == ASSUME Typed, [Next]_vars PROVE Typed'
<1>1. ASSUME NEW r \in Request,
             Arrive(r) \/ Serve(r) \/ DatabaseFails(r) \/ CommitUnacknowledged(r)
      PROVE  Typed'
  <2>1. TypeOK
    BY DEF Typed
  <2> QED
    BY <1>1, <2>1, Steps, ArriveTyped, LookupTyped, PipelineTyped, InsertTyped,
       InsertConflictTyped, ReloadTyped, UpdateTyped, PublishesTyped, RespondTyped, RollbackTyped
<1>2. CASE Restart
  BY <1>2, RestartTyped
<1>3. CASE UNCHANGED vars
  BY <1>3 DEF vars, Typed, TypeOK, UploadOK, OnStoredRow, Keyed, Writing, Stored, Answered,
              LocksExclusive, Holds
<1> QED
  BY <1>1, <1>2, <1>3 DEF Next, Quiet

\* Types, labels and locks are right in every reachable state.
LEMMA TypedAlways == Spec => []Typed
<1>1. Typed /\ [Next]_vars => Typed'
  BY NextTyped
<1> QED
  BY InitTyped, <1>1, PTL DEF Spec

\* Every variable stays in its domain, whatever the order of the uploads' steps,
\* database failures and restarts.
THEOREM TypeCorrect == Spec => []TypeOK
<1>1. Typed => TypeOK
  BY DEF Typed
<1> QED
  BY TypedAlways, <1>1, PTL

\* The RuntimeError of create_or_get_existing is never raised.
THEOREM ReloadCorrect == Spec => []ReloadFindsRow
<1>1. Typed => ReloadFindsRow
  BY DEF Typed, UploadOK, ReloadFindsRow
<1> QED
  BY TypedAlways, <1>1, PTL

\* What an upload is told names the one row stored for its session and file.
THEOREM RepliesCorrect == Spec => []RepliesNameTheStoredRecord
<1>1. Typed => RepliesNameTheStoredRecord
  BY DEF Typed, UploadOK, RepliesNameTheStoredRecord, OnStoredRow
<1> QED
  BY TypedAlways, <1>1, PTL

-----------------------------------------------------------------------------
(* Status, document and sessions.                                          *)

\* The first conjuncts of the inductive invariant are the ones proved above.
LEMMA IInvIsTyped ==
    IInv <=> /\ Typed
             /\ \A r \in Request : WriteOK(r)
             /\ StatusMatchesDocument
             /\ SessionsHoldRecords
BY DEF IInv, Typed

\* The inductive invariant holds initially.
LEMMA InitIInv == Init => IInv
<1>1. Init => StatusMatchesDocument /\ SessionsHoldRecords
  BY DEF Init, StatusMatchesDocument, SessionsHoldRecords, Stored, Key
<1>2. Init => \A r \in Request : WriteOK(r)
  BY DEF Init, WriteOK
<1> QED
  BY <1>1, <1>2, InitTyped, IInvIsTyped

\* The object r holds is consistent.
RecordOK(r) == record[r] # Null => (record[r].status = "COMPLETE" <=> record[r].doc # Null)

\* A step of r that leaves the tables alone is judged by r's own variables.
LEMMA LocalIInv ==
    ASSUME IInv, Typed', NEW r \in Request, Local(r), WriteOK(r)', RecordOK(r)'
    PROVE  IInv'
<1>1. ASSUME NEW q \in Request PROVE WriteOK(q)'
  BY DEF Local, WriteOK, IInv
<1>2. StatusMatchesDocument'
  BY DEF Local, StatusMatchesDocument, RecordOK, IInv, tables, Stored
<1>3. SessionsHoldRecords'
  BY DEF Local, SessionsHoldRecords, IInv, tables, Stored
<1> QED
  BY <1>1, <1>2, <1>3 DEF IInv, Typed

\* What r holds and what is stored are consistent to begin with.
LEMMA Consistent ==
    ASSUME IInv, NEW r \in Request
    PROVE  /\ RecordOK(r) /\ WriteOK(r)
           /\ \A k \in Key : Stored(k) =>
                /\ rows[k] \in Row
                /\ rows[k].status \in Status
                /\ rows[k].status = "COMPLETE" <=> rows[k].doc # Null
BY DEF IInv, TypeOK, StatusMatchesDocument, RecordOK, Stored, Row

\* An arriving upload holds nothing.
LEMMA ArriveIInv ==
    ASSUME IInv, Typed', NEW r \in Request, CreateSession(r) \/ FindSession(r) PROVE IInv'
<1> USE DEF CreateSession, FindSession, Goto, tables, env
<1>1. Local(r)
  BY DEF Local, IInv, TypeOK
<1>2. WriteOK(r)' /\ RecordOK(r)'
  BY Consistent DEF WriteOK, RecordOK, IInv, TypeOK
<1> QED
  BY <1>1, <1>2, LocalIInv

\* An upload whose transaction was rolled back holds nothing.
LEMMA RollbackIInv ==
    ASSUME IInv, Typed', NEW r \in Request, NEW e, Rollback(r, e) PROVE IInv'
<1> USE DEF Rollback, Answering, Goto, tables
<1>1. Local(r)
  BY DEF Local, IInv, TypeOK
<1>2. WriteOK(r)' /\ RecordOK(r)'
  BY DEF WriteOK, RecordOK, IInv, TypeOK
<1> QED
  BY <1>1, <1>2, LocalIInv

\* A lookup goes on only without a row or with a FAILED one.
LEMMA LookupIInv ==
    ASSUME IInv, Typed', NEW r \in Request, LookupHit(r) \/ LookupMiss(r) PROVE IInv'
<1> USE DEF Goto, Answering, tables, env
<1>1. key[r] \in Key
  BY DEF LookupHit, LookupMiss, IInv, UploadOK, Keyed
<1>2. CASE LookupHit(r)
  <2>1. Local(r)
    BY <1>2 DEF LookupHit, Local, IInv, TypeOK
  <2>2. WriteOK(r)' /\ RecordOK(r)'
    BY <1>1, <1>2, Consistent DEF LookupHit, WriteOK, RecordOK, IInv, TypeOK
  <2> QED
    BY <2>1, <2>2, LocalIInv
<1>3. CASE LookupMiss(r)
  <2>1. Local(r)
    BY <1>3 DEF LookupMiss, Local, IInv, TypeOK
  <2>2. RecordOK(r)'
    BY <1>1, <1>3, Consistent DEF LookupMiss, RecordOK, IInv, TypeOK, Stored
  <2>3. record'[r] = rows[key[r]] /\ found'[r] = Stored(key[r])
    BY <1>3 DEF LookupMiss, IInv, TypeOK
  <2>4. Stored(key[r]) => record'[r].status = "FAILED"
    BY <1>1, <1>3, <2>3, Consistent DEF LookupMiss, Status
  <2>5. ASSUME provider PROVE WriteOK(r)'
    BY <1>3, <2>3, <2>4, <2>5, Consistent DEF LookupMiss, WriteOK, IInv, TypeOK
  <2>6. ASSUME ~provider PROVE WriteOK(r)'
    <3>1. PICK m \in Message : data' = [data EXCEPT ![r] = Failure(m, "LLM_PROVIDER_UNAVAILABLE")]
      BY <1>3, <2>6 DEF LookupMiss
    <3>2. /\ data'[r].status = "FAILED"
          /\ data'[r].doc = Null
          /\ data'[r].error = "LLM_PROVIDER_UNAVAILABLE"
      BY <3>1, FailureIsData DEF IInv, TypeOK, Outcome
    <3>3. pc'[r] = IF Stored(key[r]) THEN "update" ELSE "insert"
      BY <1>3, <2>6 DEF LookupMiss, IInv, TypeOK
    <3> QED
      BY <2>3, <2>4, <3>2, <3>3 DEF WriteOK
  <2> QED
    BY <2>1, <2>2, <2>5, <2>6, LocalIInv
<1> QED
  BY <1>2, <1>3

\* The values the pipeline gives have a document exactly if they are COMPLETE.
LEMMA PipelineIInv ==
    ASSUME IInv, Typed', NEW r \in Request, Pipeline(r) PROVE IInv'
<1> USE DEF Pipeline, Goto, tables, env
<1>1. /\ data' = [data EXCEPT ![r] = data'[r]]
      /\ data'[r].status = "COMPLETE" <=> data'[r].doc # Null
      /\ data'[r].status = "COMPLETE" <=> data'[r].error = "NONE"
  BY DeliveredIsData DEF IInv, TypeOK
<1>2. Local(r)
  BY <1>1 DEF Local, IInv, TypeOK
<1>3. RecordOK(r)'
  BY Consistent DEF RecordOK
<1>4. WriteOK(r)'
  BY <1>1, Consistent DEF WriteOK, IInv, TypeOK
<1> QED
  BY <1>2, <1>3, <1>4, LocalIInv

\* An INSERT, or its conflict, comes only after a lookup that found no row.
LEMMA InsertIInv ==
    ASSUME IInv, Typed', NEW r \in Request, Insert(r) \/ InsertConflict(r) PROVE IInv'
<1> USE DEF Goto, tables, env
<1>1. data[r] \in Data /\ data[r] # Null
  BY NullAssumption DEF Insert, InsertConflict, IInv, UploadOK, Writing
<1>2. CASE Insert(r)
  <2>1. /\ record' = [record EXCEPT ![r] = NewRow(r, data[r])]
        /\ record'[r].status = data[r].status
        /\ record'[r].doc = data[r].doc
    BY <1>1, <1>2, NewRowIsRow DEF Insert, IInv, TypeOK
  <2>2. Local(r)
    BY <1>2 DEF Insert, Local, IInv, TypeOK
  <2>3. WriteOK(r)' /\ RecordOK(r)'
    BY <1>1, <1>2, <2>1, Consistent DEF Insert, WriteOK, RecordOK, IInv, TypeOK
  <2> QED
    BY <2>2, <2>3, LocalIInv
<1>3. CASE InsertConflict(r)
  <2>1. Local(r)
    BY <1>3 DEF InsertConflict, Local, IInv, TypeOK
  <2>2. WriteOK(r)' /\ RecordOK(r)'
    BY <1>3, Consistent DEF InsertConflict, WriteOK, RecordOK, IInv, TypeOK
  <2> QED
    BY <2>1, <2>2, LocalIInv
<1> QED
  BY <1>2, <1>3

\* A success is written over a reloaded row only if that row is FAILED.
LEMMA ReloadIInv ==
    ASSUME IInv, Typed', NEW r \in Request, ReloadHit(r) \/ ReloadForUpdate(r) PROVE IInv'
<1> USE DEF Answering, Goto, tables, env
<1>1. key[r] \in Key /\ data[r] \in Data
  BY DEF ReloadHit, ReloadForUpdate, IInv, UploadOK, Keyed, Writing
<1>2. CASE ReloadHit(r)
  <2>1. Local(r)
    BY <1>2 DEF ReloadHit, Local, IInv, TypeOK
  <2>2. WriteOK(r)' /\ RecordOK(r)'
    BY <1>1, <1>2, Consistent DEF ReloadHit, WriteOK, RecordOK, IInv, TypeOK
  <2> QED
    BY <2>1, <2>2, LocalIInv
<1>3. CASE ReloadForUpdate(r)
  <2>1. Local(r)
    BY <1>3 DEF ReloadForUpdate, Local, IInv, TypeOK
  <2>2. record'[r] = rows[key[r]] /\ ~found'[r] /\ pc'[r] = "update"
    BY <1>3, Consistent DEF ReloadForUpdate, WriteOK, IInv, TypeOK
  <2>3. RecordOK(r)'
    BY <1>1, <1>3, <2>2, Consistent DEF ReloadForUpdate, RecordOK
  <2>4. data[r].status = "COMPLETE" => rows[key[r]].status = "FAILED"
    BY <1>1, <1>3, Consistent DEF ReloadForUpdate, Status
  <2>5. WriteOK(r)'
    BY <1>3, <2>2, <2>4, Consistent DEF ReloadForUpdate, WriteOK
  <2> QED
    BY <2>1, <2>3, <2>5, LocalIInv
<1> QED
  BY <1>2, <1>3

\* The columns an UPDATE sets: status and document go together, because they do
\* in the snapshot and in the values written.
LEMMA UpdateIInv ==
    ASSUME IInv, Typed', NEW r \in Request, Update(r) PROVE IInv'
<1>0. PICK cs \in Changes(record[r], data[r]) :
         /\ cols' = [cols EXCEPT ![r] = cs]
         /\ record' = [record EXCEPT ![r] = Merge(record[r], cs, data[r])]
  BY DEF Update
<1>1. data[r] \in Data /\ data[r] # Null /\ record[r] \in Row /\ record[r] # Null
  BY NullAssumption DEF Update, IInv, UploadOK, Writing, OnStoredRow
<1>2. /\ cols' = [cols EXCEPT ![r] = cs]
      /\ record' = [record EXCEPT ![r] = Merge(record[r], cs, data[r])]
      /\ pc[r] = "update" /\ pc'[r] = "updated"
      /\ UNCHANGED <<tables, key, found, data>>
  BY <1>0 DEF Update, Goto, env, IInv, TypeOK
<1>3. /\ "status" \in cs <=> record[r].status # data[r].status
      /\ "doc" \in cs <=> record[r].doc # data[r].doc
  BY ChangesAreColumns
<1>4. /\ Merge(record[r], cs, data[r]).status = data[r].status
      /\ Merge(record[r], cs, data[r]).doc = data[r].doc
  BY <1>1, <1>3, MergeIsRow
<1>5. record'[r].status = data[r].status /\ record'[r].doc = data[r].doc /\ cols'[r] = cs
  BY <1>2, <1>4 DEF IInv, TypeOK
<1>6. data[r].status \in Status /\ record[r].status \in Status
  BY <1>1 DEF Data, Row
<1>7. /\ data[r].status = "COMPLETE" <=> data[r].doc # Null
      /\ record[r].status = "COMPLETE" <=> record[r].doc # Null
      /\ data[r].status = "COMPLETE" => record[r].status = "FAILED"
      /\ found[r] => record[r].status = "FAILED"
  BY <1>1, <1>2, Consistent DEF WriteOK, RecordOK
<1>8. /\ "status" \in cs <=> "doc" \in cs
      /\ data[r].status = "COMPLETE" => "status" \in cs
      /\ data[r].status = "FAILED" /\ found[r] => "status" \notin cs
  BY <1>3, <1>6, <1>7 DEF Status
<1>9. Local(r)
  BY <1>0 DEF Update, Goto, env, tables, Local, IInv, TypeOK
<1>10. WriteOK(r)' /\ RecordOK(r)'
  BY <1>2, <1>5, <1>7, <1>8, Consistent DEF WriteOK, RecordOK
<1> QED
  BY <1>9, <1>10, LocalIInv

\* Sending the response changes nothing that is stored or held.
LEMMA RespondIInv ==
    ASSUME IInv, Typed', NEW r \in Request, Respond(r) PROVE IInv'
<1> USE DEF Respond, Goto, tables, env
<1>1. Local(r)
  BY DEF Local, IInv, TypeOK
<1>2. WriteOK(r)' /\ RecordOK(r)'
  BY Consistent DEF WriteOK, RecordOK, IInv, TypeOK
<1> QED
  BY <1>1, <1>2, LocalIInv

\* The row that a commit publishes: a success makes it complete with its
\* document; a failure over a found row leaves status and document alone.
LEMMA WrittenIsConsistent ==
    ASSUME IInv, NEW r \in Request, pc[r] \in {"inserted", "updated"}
    PROVE  LET row == Written(r)[key[r]] IN
           /\ row.status = "COMPLETE" <=> row.doc # Null
           /\ data[r].error = "NONE" => row.status = "COMPLETE" /\ row.doc = data[r].doc
           /\ data[r].error # "NONE" =>
                 \/ row.status = "FAILED" /\ row.doc = Null
                 \/ /\ Stored(key[r])
                    /\ row.status = rows[key[r]].status /\ row.doc = rows[key[r]].doc
           /\ pc[r] = "inserted" => ~Stored(key[r])
           /\ found[r] /\ row.status = "FAILED" /\ Stored(key[r]) => rows[key[r]].status = "FAILED"
<1>1. key[r] \in Key /\ data[r] \in Data /\ data[r] # Null /\ data[r].status \in Status
  BY NullAssumption DEF IInv, UploadOK, Keyed, Writing, Data
<1>2. /\ data[r].status = "COMPLETE" <=> data[r].doc # Null
      /\ data[r].status = "COMPLETE" <=> data[r].error = "NONE"
  BY <1>1, Consistent DEF WriteOK
<1>3. CASE pc[r] = "inserted"
  <2>1. Written(r)[key[r]] = NewRow(r, data[r]) /\ ~Stored(key[r])
    BY <1>1, <1>3 DEF Written, IInv, TypeOK, UploadOK
  <2>2. NewRow(r, data[r]).status = data[r].status /\ NewRow(r, data[r]).doc = data[r].doc
    BY <1>1, NewRowIsRow
  <2> QED
    BY <1>1, <1>2, <1>3, <2>1, <2>2 DEF Status
<1>4. CASE pc[r] = "updated"
  <2>1. Stored(key[r]) /\ rows[key[r]] \in Row
    BY <1>1, <1>4, Consistent DEF IInv, UploadOK, OnStoredRow
  <2>2. Written(r)[key[r]] = Merge(rows[key[r]], cols[r], data[r])
    BY <1>1, <1>4 DEF Written, IInv, TypeOK
  <2>3. /\ Written(r)[key[r]].status =
             IF "status" \in cols[r] THEN data[r].status ELSE rows[key[r]].status
        /\ Written(r)[key[r]].doc =
             IF "doc" \in cols[r] THEN data[r].doc ELSE rows[key[r]].doc
    BY <1>1, <2>1, <2>2, MergeIsRow
  <2>4. /\ "status" \in cols[r] <=> "doc" \in cols[r]
        /\ data[r].status = "COMPLETE" => "status" \in cols[r]
        /\ data[r].status = "FAILED" /\ found[r] => "status" \notin cols[r]
    BY <1>4, Consistent DEF WriteOK
  <2>5. rows[key[r]].status = "COMPLETE" <=> rows[key[r]].doc # Null
    BY <1>1, <2>1, Consistent
  <2> QED
    BY <1>1, <1>2, <1>4, <2>1, <2>3, <2>4, <2>5 DEF Status
<1> QED
  BY <1>3, <1>4

\* A commit stores a consistent row, and its session with it.
LEMMA PublishesIInv ==
    ASSUME IInv, Typed', NEW r \in Request, Publishes(r) PROVE IInv'
<1> DEFINE row == Written(r)[key[r]]
<1>1. /\ key[r] \in Key /\ row \in Row
      /\ rows' = [rows EXCEPT ![key[r]] = row]
      /\ sessions' = sessions \cup {key[r][1]}
  BY WrittenRows, IInvIsTyped DEF Publishes, Commits
<1>2. row.status = "COMPLETE" <=> row.doc # Null
  BY WrittenIsConsistent DEF Publishes, Commits
<1> HIDE DEF row
<1>3. \A q \in Request :
         /\ pc'[q] = IF q = r THEN "respond" ELSE pc[q]
         /\ record'[q] = record[q] \/ record'[q] = Null
         /\ q # r => /\ record'[q] = record[q] /\ data'[q] = data[q]
                     /\ found'[q] = found[q] /\ cols'[q] = cols[q]
         /\ q = r => data'[q] = Null
  BY DEF Publishes, CommitWrite, CommitUnacknowledged, Commit, Answering, Goto, env, IInv, TypeOK
<1>4. ASSUME NEW q \in Request PROVE WriteOK(q)'
  BY <1>3 DEF WriteOK, IInv
<1>5. StatusMatchesDocument'
  BY <1>1, <1>2, <1>3 DEF StatusMatchesDocument, IInv, TypeOK, Stored
<1>6. SessionsHoldRecords'
  <2>1. PICK s \in Session, f \in File : key[r] = <<s, f>>
    BY <1>1 DEF Key
  <2>2. \A k \in Key : Stored(k)' <=> Stored(k) \/ k = key[r]
    BY <1>1, NullAssumption DEF Stored, IInv, TypeOK
  <2> QED
    BY <1>1, <2>1, <2>2 DEF SessionsHoldRecords, IInv, Key
<1> QED
  BY <1>4, <1>5, <1>6 DEF IInv, Typed

\* A restart forgets what was held and keeps what is stored.
LEMMA RestartIInv == ASSUME IInv, Typed', Restart PROVE IInv'
<1> USE DEF Restart, InFlight, tables
<1>1. ASSUME NEW q \in Request PROVE WriteOK(q)'
  BY DEF IInv, TypeOK, WriteOK
<1>2. StatusMatchesDocument' /\ SessionsHoldRecords'
  BY DEF IInv, TypeOK, StatusMatchesDocument, SessionsHoldRecords, Stored
<1> QED
  BY <1>1, <1>2 DEF IInv, Typed

\* No step of the server, and no failure, breaks the inductive invariant.
LEMMA NextIInv == ASSUME IInv, [Next]_vars PROVE IInv'
<1>1. Typed'
  BY NextTyped, IInvIsTyped
<1>2. ASSUME NEW r \in Request,
             Arrive(r) \/ Serve(r) \/ DatabaseFails(r) \/ CommitUnacknowledged(r)
      PROVE  IInv'
  <2>1. TypeOK
    BY DEF IInv
  <2> QED
    BY <1>1, <1>2, <2>1, Steps, ArriveIInv, LookupIInv, PipelineIInv, InsertIInv, ReloadIInv,
       UpdateIInv, PublishesIInv, RespondIInv, RollbackIInv
<1>3. CASE Restart
  BY <1>1, <1>3, RestartIInv
<1>4. CASE UNCHANGED vars
  BY <1>1, <1>4 DEF vars, IInv, Typed, WriteOK, StatusMatchesDocument, SessionsHoldRecords, Stored
<1> QED
  BY <1>2, <1>3, <1>4 DEF Next, Quiet

\* The inductive invariant holds in every reachable state.
THEOREM Invariance == Spec => []IInv
<1>1. IInv /\ [Next]_vars => IInv'
  BY NextIInv
<1> QED
  BY InitIInv, <1>1, PTL DEF Spec

\* However UPDATEs from stale snapshots are merged, a row is COMPLETE exactly if
\* it has a document.
THEOREM StatusCorrect == Spec => []StatusMatchesDocument
<1>1. IInv => StatusMatchesDocument
  BY DEF IInv
<1> QED
  BY Invariance, <1>1, PTL

\* A session is visible exactly if it holds an extraction.
THEOREM SessionsCorrect == Spec => []SessionsHoldRecords
<1>1. IInv => SessionsHoldRecords
  BY DEF IInv
<1> QED
  BY Invariance, <1>1, PTL

-----------------------------------------------------------------------------
(* What a step may do to the stored rows.                                  *)

\* Rows change only in the step that commits an upload's write.
LEMMA RowsChangeAtCommit ==
    ASSUME TypeOK, [Next]_vars
    PROVE  UNCHANGED tables \/ \E r \in Request : Publishes(r)
<1>1. ASSUME NEW r \in Request,
             Arrive(r) \/ Serve(r) \/ DatabaseFails(r) \/ CommitUnacknowledged(r)
      PROVE  UNCHANGED tables \/ Publishes(r)
  BY <1>1, Steps DEF CreateSession, FindSession, LookupHit, LookupMiss, Pipeline, Insert,
        InsertConflict, ReloadHit, ReloadForUpdate, Update, Respond, Rollback
<1> QED
  BY <1>1 DEF Next, Restart, Quiet, vars, tables

\* A commit changes the row of its own key only.
LEMMA CommittedRow ==
    ASSUME IInv, NEW r \in Request, Publishes(r)
    PROVE  /\ key[r] \in Key
           /\ rows' = [rows EXCEPT ![key[r]] = Written(r)[key[r]]]
           /\ rows'[key[r]] = Written(r)[key[r]]
           /\ rows'[key[r]] # Null
           /\ Stored(key[r]) => rows'[key[r]].id = rows[key[r]].id
<1>1. /\ key[r] \in Key
      /\ rows' = [rows EXCEPT ![key[r]] = Written(r)[key[r]]]
      /\ Written(r)[key[r]] \in Row
      /\ Stored(key[r]) => Written(r)[key[r]].id = rows[key[r]].id
  BY WrittenRows, IInvIsTyped DEF Publishes, Commits
<1> QED
  BY <1>1, NullAssumption DEF IInv, TypeOK

\* No single step removes an extraction or changes its id.
LEMMA StepKeepsRecords ==
    ASSUME IInv, [Next]_vars
    PROVE  \A k \in Key : Stored(k) => Stored(k)' /\ rows'[k].id = rows[k].id
<1>1. CASE UNCHANGED tables
  BY <1>1 DEF tables, Stored
<1>2. ASSUME NEW r \in Request, Publishes(r)
      PROVE  \A k \in Key : Stored(k) => Stored(k)' /\ rows'[k].id = rows[k].id
  BY <1>2, CommittedRow DEF Stored, IInv, TypeOK
<1> QED
  BY <1>1, <1>2, RowsChangeAtCommit DEF IInv

\* No step removes an extraction or gives it another id.
THEOREM RecordsPersistCorrect == Spec => RecordsPersist
<1>1. IInv /\ [Next]_vars =>
        [\A k \in Key : Stored(k) => Stored(k)' /\ rows'[k].id = rows[k].id]_vars
  BY StepKeepsRecords
<1> QED
  BY Invariance, <1>1, PTL DEF Spec, RecordsPersist

\* The step that downgrades a result is the commit of an upload whose lookup found nothing.
LEMMA DowngradeStep ==
    ASSUME IInv, [Next]_vars, NEW k \in Key,
           Stored(k), rows[k].status = "COMPLETE", rows'[k].status = "FAILED"
    PROVE  \E r \in Request : /\ key[r] = k
                              /\ pc[r] = "updated" /\ pc'[r] = "respond"
                              /\ ~found[r]
<1>1. PICK r \in Request : Publishes(r)
  BY RowsChangeAtCommit DEF IInv, tables
<1>2. key[r] = k
  BY <1>1, CommittedRow DEF IInv, TypeOK
<1>3. pc'[r] = "respond" /\ pc[r] \in {"inserted", "updated"}
  BY <1>1 DEF Publishes, Commits, CommitWrite, CommitUnacknowledged, Answering, Goto, IInv, TypeOK
<1>4. pc[r] = "updated" /\ ~found[r]
  BY <1>1, <1>2, <1>3, CommittedRow, WrittenIsConsistent DEF IInv, TypeOK
<1> QED
  BY <1>2, <1>3, <1>4

\* A failing upload downgrades a complete result only if its own lookup came
\* before the key's first row.
THEOREM OnlyFirstRaceDowngradesCorrect == Spec => OnlyFirstRaceDowngrades
<1>1. IInv /\ [Next]_vars => DowngradeIsFirstRace
  BY DowngradeStep DEF DowngradeIsFirstRace
<1> QED
  BY Invariance, <1>1, PTL DEF Spec, OnlyFirstRaceDowngrades

\* The commit of a success makes the row COMPLETE with its document.
LEMMA SuccessStep == ASSUME IInv, [Next]_vars PROVE SuccessCommitStores
<1> SUFFICES ASSUME NEW r \in Request, pc[r] \in {"inserted", "updated"}, pc'[r] = "respond",
                    reply'[r].error = "NONE"
             PROVE  rows'[key[r]].status = "COMPLETE" /\ rows'[key[r]].doc = data[r].doc
  BY DEF SuccessCommitStores
<1>1. CommitWrite(r)
  <2>1. PICK q \in Request :
           Arrive(q) \/ Serve(q) \/ DatabaseFails(q) \/ CommitUnacknowledged(q)
    BY DEF Next, Restart, InFlight, Quiet, vars, IInv, TypeOK
  <2>2. q = r
    BY <2>1, Steps DEF CreateSession, FindSession, LookupHit, LookupMiss, Pipeline, Insert,
        InsertConflict, ReloadHit, ReloadForUpdate, Update, Respond, Rollback, Publishes,
        CommitWrite, CommitUnacknowledged, Answering, Goto, IInv, TypeOK
  <2>3. ~(\E e \in {"SESSION_NOT_FOUND", "RAISED"} : Rollback(r, e)) /\ ~CommitUnacknowledged(r)
    BY DEF Rollback, CommitUnacknowledged, Answering, IInv, TypeOK
  <2> QED
    BY <2>1, <2>2, <2>3, Steps DEF CreateSession, FindSession, LookupHit, LookupMiss, Pipeline,
        Insert, InsertConflict, ReloadHit, ReloadForUpdate, Update, Respond, Publishes, IInv
<1>2. data[r].error = "NONE"
  BY <1>1 DEF CommitWrite, Answering, IInv, TypeOK
<1>3. Publishes(r)
  BY <1>1 DEF Publishes, Commits, CommitWrite, Commit
<1> QED
  BY <1>2, <1>3, CommittedRow, WrittenIsConsistent DEF Publishes, Commits

\* A 200 with the upload's own extraction is only sent for a row that its commit
\* made complete with that document.
THEOREM SuccessIsStoredCorrect == Spec => SuccessIsStored
<1>1. IInv /\ [Next]_vars => SuccessCommitStores
  BY SuccessStep
<1> QED
  BY Invariance, <1>1, PTL DEF Spec, SuccessIsStored
-----------------------------------------------------------------------------
(* What an upload holds is one outcome.                                    *)

\* What an upload may write are column values.
LEMMA OutcomeIsData == OutcomeData \subseteq Data
BY DeliveredIsData, FailureIsData DEF OutcomeData, Outcome

\* Setting the columns that differ makes the object what was to be written.
LEMMA MergeOfChanges ==
    ASSUME NEW row, NEW d, NEW cs \in Changes(row, d)
    PROVE  Merge(row, cs, d) = NewRow(Merge(row, cs, d).id, d)
<1>1. /\ "status" \notin cs => row.status = d.status
      /\ "doc" \notin cs => row.doc = d.doc
      /\ "opt" \notin cs => row.opt = d.opt
      /\ "raw" \notin cs => row.raw = d.raw
  BY DEF Changes, NetChange, Column
<1> QED
  BY <1>1 DEF Merge, NewRow

\* RepliesAreOneOutcome, for one upload.
OneOutcome(r) ==
    /\ data[r] # Null => data[r] \in OutcomeData
    /\ pc[r] \in {"inserted", "updated"} => record[r] = NewRow(record[r].id, data[r])
    /\ Answered(r) /\ reply[r].error \in Outcome /\ ~reply[r].dedup =>
          \E d \in OutcomeData : /\ d.error = reply[r].error
                                 /\ record[r] = NewRow(record[r].id, d)

\* The variables of r that it speaks of are those of no other upload.
Alone(r) ==
    \A q \in Request \ {r} : /\ pc'[q] = pc[q] /\ record'[q] = record[q]
                             /\ data'[q] = data[q] /\ reply'[q] = reply[q]

\* A step of r is judged by r.
LEMMA OneOutcomeOf ==
    ASSUME RepliesAreOneOutcome, NEW r \in Request, Alone(r), OneOutcome(r)'
    PROVE  RepliesAreOneOutcome'
<1>1. ASSUME NEW q \in Request \ {r} PROVE OneOutcome(q)'
  BY DEF Alone, RepliesAreOneOutcome, OneOutcome, Answered
<1> QED
  BY <1>1 DEF RepliesAreOneOutcome, OneOutcome

\* Up to the write, and after it, an upload carries its outcome along.
LEMMA StepKeepsOneOutcome ==
    ASSUME IInv, RepliesAreOneOutcome, NEW r \in Request,
           Arrive(r) \/ Serve(r) \/ DatabaseFails(r) \/ CommitUnacknowledged(r)
    PROVE  RepliesAreOneOutcome'
<1> USE DEF Goto, Answering, tables, env
<1>0. TypeOK /\ OneOutcome(r)
  BY DEF IInv, RepliesAreOneOutcome, OneOutcome
<1>1. CASE CreateSession(r) \/ FindSession(r) \/ InsertConflict(r) \/ ReloadForUpdate(r)
  <2>1. Alone(r) /\ OneOutcome(r)'
    BY <1>0, <1>1 DEF CreateSession, FindSession, InsertConflict, ReloadForUpdate, Alone,
                      OneOutcome, Answered, TypeOK
  <2> QED
    BY <2>1, OneOutcomeOf
<1>2. CASE LookupHit(r) \/ ReloadHit(r)
  <2>1. Alone(r) /\ OneOutcome(r)'
    BY <1>0, <1>2 DEF LookupHit, ReloadHit, Alone, OneOutcome, Answered, TypeOK
  <2> QED
    BY <2>1, OneOutcomeOf
<1>3. CASE LookupMiss(r)
  <2>1. pc'[r] \in {"pipeline", "update", "insert"} /\ Alone(r)
    BY <1>0, <1>3 DEF LookupMiss, Alone, TypeOK
  <2>2. data'[r] # Null => data'[r] \in OutcomeData
    BY <1>0, <1>3 DEF LookupMiss, OneOutcome, OutcomeData, TypeOK
  <2> QED
    BY <2>1, <2>2, OneOutcomeOf DEF OneOutcome, Answered
<1>4. CASE Pipeline(r)
  <2>1. pc'[r] \in {"update", "insert"} /\ Alone(r) /\ data'[r] \in OutcomeData
    BY <1>0, <1>4 DEF Pipeline, Alone, OutcomeData, TypeOK
  <2> QED
    BY <2>1, OneOutcomeOf DEF OneOutcome, Answered
<1>5. CASE Insert(r)
  <2>1. /\ pc'[r] = "inserted" /\ Alone(r) /\ data' = data
        /\ record'[r] = NewRow(r, data[r])
    BY <1>0, <1>5 DEF Insert, Alone, TypeOK
  <2>2. record'[r] = NewRow(record'[r].id, data'[r])
    BY <2>1 DEF NewRow
  <2> QED
    BY <1>0, <2>1, <2>2, OneOutcomeOf DEF OneOutcome, Answered
<1>6. CASE Update(r)
  <2>1. PICK cs \in Changes(record[r], data[r]) :
           record' = [record EXCEPT ![r] = Merge(record[r], cs, data[r])]
    BY <1>6 DEF Update
  <2>2. pc'[r] = "updated" /\ Alone(r) /\ data' = data
    BY <1>0, <1>6, <2>1 DEF Update, Alone, TypeOK
  <2>3. record'[r] = NewRow(record'[r].id, data'[r])
    BY <1>0, <2>1, <2>2, MergeOfChanges DEF TypeOK
  <2> QED
    BY <1>0, <2>2, <2>3, OneOutcomeOf DEF OneOutcome, Answered
<1>7. CASE CommitWrite(r)
  <2>1. /\ pc[r] \in {"inserted", "updated"} /\ pc'[r] = "respond" /\ Alone(r)
        /\ data'[r] = Null /\ record' = record
        /\ reply'[r] = [error |-> data[r].error, dedup |-> FALSE]
    BY <1>0, <1>7 DEF CommitWrite, Commit, Alone, TypeOK
  <2>2. data[r] # Null
    BY <2>1, NullAssumption DEF IInv, UploadOK, Writing
  <2>3. data[r] \in OutcomeData /\ record[r] = NewRow(record[r].id, data[r])
    BY <1>0, <2>1, <2>2 DEF OneOutcome
  <2> QED
    BY <2>1, <2>3, OneOutcomeOf DEF OneOutcome
<1>8. CASE CommitUnacknowledged(r) \/ \E e \in {"SESSION_NOT_FOUND", "RAISED"} : Rollback(r, e)
  <2>1. /\ pc'[r] = "respond" /\ Alone(r) /\ data'[r] = Null
        /\ reply'[r].error \in {"SESSION_NOT_FOUND", "RAISED"}
    BY <1>0, <1>8 DEF CommitUnacknowledged, Rollback, Alone, TypeOK
  <2> QED
    BY <2>1, OneOutcomeOf DEF OneOutcome, Outcome
<1>9. CASE Respond(r)
  <2>1. Alone(r) /\ OneOutcome(r)'
    BY <1>0, <1>9 DEF Respond, Alone, OneOutcome, Answered, TypeOK
  <2> QED
    BY <2>1, OneOutcomeOf
<1> QED
  BY <1>0, <1>1, <1>2, <1>3, <1>4, <1>5, <1>6, <1>7, <1>8, <1>9, Steps DEF Publishes

\* No interleaving leaves a column of an earlier attempt in a fresh reply.
THEOREM OneOutcomeCorrect == Spec => []RepliesAreOneOutcome
<1>1. Init => RepliesAreOneOutcome
  BY DEF Init, RepliesAreOneOutcome, Answered
<1>2. ASSUME IInv, RepliesAreOneOutcome, [Next]_vars PROVE RepliesAreOneOutcome'
  <2>1. CASE Restart
    BY <1>2, <2>1 DEF Restart, InFlight, RepliesAreOneOutcome, Answered, IInv, TypeOK
  <2>2. CASE UNCHANGED vars
    BY <1>2, <2>2 DEF vars, RepliesAreOneOutcome, Answered
  <2> QED
    BY <1>2, <2>1, <2>2, StepKeepsOneOutcome DEF Next, Quiet
<1> QED
  BY <1>1, <1>2, Invariance, PTL DEF Spec
=============================================================================

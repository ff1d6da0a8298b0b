------------------------ MODULE SyncRefinementProofs ------------------------
(* The upload path implements ResultRegister: every step of SyncExtraction is  *)
(* a step of the register, under the mapping Entry and Told, or leaves it as   *)
(* it is.                                                                      *)
EXTENDS SyncExtractionProofs

Waiting      == [kind |-> "waiting", key |-> Null, doc |-> Null]
Dropped      == [kind |-> "dropped", key |-> Null, doc |-> Null]
Refused(k)   == [kind |-> "failure", key |-> k, doc |-> Null]
Result(k, a) == [kind |-> "result", key |-> k, doc |-> a]

EntriesSame    == \A k \in Key : Entry(k)' = Entry(k)
EntryBecomes(k, e) ==
    k \in Key /\ \A j \in Key : Entry(j)' = IF j = k THEN e ELSE Entry(j)
ToldSame       == \A q \in Request : Told(q)' = Told(q)
ToldBecomes(r, t) ==
    /\ r \in Request /\ Told(r) = Waiting
    /\ \A q \in Request : Told(q)' = IF q = r THEN t ELSE Told(q)

\* Entries and effects unchanged: a stuttering step of the register.
LEMMA AbstractStutter ==
    ASSUME EntriesSame, ToldSame PROVE UNCHANGED Register!vars
BY DEF EntriesSame, ToldSame, Register!vars

\* An upload told a stored result: a Hit.
LEMMA AbstractHit ==
    ASSUME NEW r \in Request, NEW k \in Key, EntriesSame, Entry(k).status = "COMPLETE",
           ToldBecomes(r, Result(k, Entry(k).doc))
    PROVE  Register!Next
<1>1. Register!Hit(r, k)
  BY DEF EntriesSame, ToldBecomes, Register!Hit, Register!Takes, Register!Result, Result,
         Register!Waiting, Waiting
<1> QED
  BY <1>1 DEF Register!Next

\* An upload told the result that it stored: a Store.
LEMMA AbstractStore ==
    ASSUME NEW r \in Request, NEW k \in Key, NEW a \in Answer,
           EntryBecomes(k, [status |-> "COMPLETE", doc |-> a]), ToldBecomes(r, Result(k, a))
    PROVE  Register!Next
<1>1. Register!Store(r, k, a)
  BY DEF EntryBecomes, ToldBecomes, Register!Store, Register!Takes, Register!Result, Result,
         Register!Waiting, Waiting, Register!Complete
<1> QED
  BY <1>1 DEF Register!Next

FailureRecorded(k) ==
    \/ EntryBecomes(k, [status |-> "FAILED", doc |-> Null])
    \/ Entry(k).status # "ABSENT" /\ EntriesSame

\* A failure recorded in the row: FailedEntry.
LEMMA AbstractFailedEntry ==
    ASSUME NEW k \in Key, FailureRecorded(k) PROVE Register!FailedEntry(k)
<1>1. CASE EntryBecomes(k, [status |-> "FAILED", doc |-> Null])
  BY <1>1 DEF EntryBecomes, Register!FailedEntry, Register!Failed
<1>2. CASE Entry(k).status # "ABSENT" /\ EntriesSame
  <2>1. Entry(k) # Register!Absent
    BY <1>2 DEF Register!Absent
  <2> QED
    BY <1>2, <2>1 DEF EntriesSame, Register!FailedEntry
<1> QED
  BY <1>1, <1>2 DEF FailureRecorded

\* An upload told of its recorded failure: a Fail.
LEMMA AbstractFail ==
    ASSUME NEW r \in Request, NEW k \in Key, FailureRecorded(k), ToldBecomes(r, Refused(k))
    PROVE  Register!Next
<1>1. Register!Fail(r, k)
  BY AbstractFailedEntry DEF ToldBecomes, Register!Fail, Register!Takes, Register!Failure, Refused,
         Register!Waiting, Waiting
<1> QED
  BY <1>1 DEF Register!Next

\* An upload told nothing of the row, whatever its write did: a Drop.
LEMMA AbstractDrop ==
    ASSUME NEW r \in Request, ToldBecomes(r, Dropped),
           \/ EntriesSame
           \/ \E k \in Key : \/ FailureRecorded(k)
                             \/ \E a \in Answer :
                                   EntryBecomes(k, [status |-> "COMPLETE", doc |-> a])
    PROVE  Register!Next
<1>1. Register!Takes(r, Register!Dropped)
  BY DEF ToldBecomes, Register!Takes, Register!Dropped, Dropped, Register!Waiting, Waiting
<1>2. CASE EntriesSame
  BY <1>1, <1>2 DEF EntriesSame, Register!Drop, Register!Next
<1>3. CASE \E k \in Key : FailureRecorded(k)
  BY <1>1, <1>3, AbstractFailedEntry DEF Register!Drop, Register!Next
<1>4. ASSUME NEW k \in Key, NEW a \in Answer, EntryBecomes(k, [status |-> "COMPLETE", doc |-> a])
      PROVE  Register!Next
  BY <1>1, <1>4 DEF EntryBecomes, Register!Complete, Register!Drop, Register!Next
<1> QED
  BY <1>2, <1>3, <1>4

\* Some effects replaced by Dropped, entries unchanged: a Lose.
LEMMA AbstractLose ==
    ASSUME NEW R \in SUBSET Request, EntriesSame,
           \A q \in Request : Told(q)' = IF q \in R THEN Dropped ELSE Told(q)
    PROVE  Register!Next
BY DEF EntriesSame, Register!Next, Register!Lose, Register!Dropped, Dropped

-----------------------------------------------------------------------------
(* What the steps do to the mapped state.                                  *)

\* An upload's effect depends on its own variables only.
LEMMA ToldDepends ==
    ASSUME NEW q \in Request, pc'[q] = pc[q], key'[q] = key[q], record'[q] = record[q],
           reply'[q] = reply[q]
    PROVE  Told(q)' = Told(q)
BY DEF Told, Answered

\* Before it is answered, an upload waits.
LEMMA UnansweredWaits ==
    ASSUME NEW r \in Request, pc[r] \notin {"respond", "done", "lost"} PROVE Told(r) = Waiting
BY DEF Told, Answered, Waiting

\* What an answered upload has been told.
LEMMA AnsweredTold ==
    ASSUME NEW r \in Request, Answered(r)
    PROVE  /\ reply[r].error \notin Outcome => Told(r) = Dropped
           /\ reply[r].error = "NONE" => Told(r) = Result(key[r], record[r].doc)
           /\ reply[r].error \in Outcome \ {"NONE"} => Told(r) = Refused(key[r])
BY DEF Told, Answered, Dropped, Result, Refused, Outcome

\* Without a commit the entries stay as they are.
LEMMA TablesSame == UNCHANGED tables => EntriesSame
BY DEF tables, EntriesSame, Entry, Stored

\* r is answered with e by a step that leaves the other uploads alone.
AnsweredNow(r, e) ==
    /\ pc[r] \notin {"respond", "done", "lost"}
    /\ pc'[r] = "respond" /\ key'[r] = key[r] /\ reply'[r].error = e
    /\ \A q \in Request \ {r} : /\ pc'[q] = pc[q] /\ key'[q] = key[q]
                                /\ record'[q] = record[q] /\ reply'[q] = reply[q]

\* An upload that is answered is told its answer, the others what they were.
LEMMA AnswerBecomes ==
    ASSUME NEW r \in Request, NEW e, AnsweredNow(r, e)
    PROVE  /\ e \notin Outcome => ToldBecomes(r, Dropped)
           /\ e = "NONE" => ToldBecomes(r, Result(key[r], record'[r].doc))
           /\ e \in Outcome \ {"NONE"} => ToldBecomes(r, Refused(key[r]))
<1>1. \A q \in Request \ {r} : Told(q)' = Told(q)
  BY ToldDepends DEF AnsweredNow
<1>2. Told(r) = Waiting
  BY UnansweredWaits DEF AnsweredNow
<1>3. Answered(r)'
  BY DEF AnsweredNow, Answered
<1>4. /\ reply'[r].error \notin Outcome => Told(r)' = Dropped
      /\ reply'[r].error = "NONE" => Told(r)' = Result(key'[r], record'[r].doc)
      /\ reply'[r].error \in Outcome \ {"NONE"} => Told(r)' = Refused(key'[r])
  BY <1>3 DEF Told, Answered, Dropped, Result, Refused, Outcome
<1> QED
  BY <1>1, <1>2, <1>4 DEF ToldBecomes, AnsweredNow

\* Initial states map to initial states.
LEMMA InitRefines == Init => Register!Init
<1> SUFFICES ASSUME Init PROVE Register!Init
  OBVIOUS
<1>1. \A k \in Key : Entry(k) = Register!Absent
  BY DEF Init, Entry, Stored, Register!Absent
<1>2. \A r \in Request : Told(r) = Register!Waiting
  BY UnansweredWaits DEF Init, Register!Waiting, Waiting
<1> QED
  BY <1>1, <1>2 DEF Register!Init

\* A step of r before its answer, or the sending of it.
LEMMA SilentRefines ==
    ASSUME TypeOK, NEW r \in Request,
           \/ CreateSession(r) \/ FindSession(r) \/ LookupMiss(r) \/ Pipeline(r) \/ Insert(r)
           \/ InsertConflict(r) \/ ReloadForUpdate(r) \/ Update(r) \/ Respond(r)
    PROVE  UNCHANGED Register!vars
<1>1. UNCHANGED tables
  BY DEF CreateSession, FindSession, LookupMiss, Pipeline, Insert, InsertConflict,
         ReloadForUpdate, Update, Respond
<1>2. ASSUME NEW q \in Request, q # r PROVE Told(q)' = Told(q)
  BY <1>2, ToldDepends DEF CreateSession, FindSession, LookupMiss, Pipeline, Insert, InsertConflict,
         ReloadForUpdate, Update, Respond, Goto, TypeOK
<1>3. ASSUME Respond(r) PROVE Told(r)' = Told(r)
  BY <1>3 DEF Respond, Goto, Told, Answered, TypeOK
<1>4. ASSUME ~Respond(r) PROVE Told(r)' = Told(r)
  <2>1. /\ pc[r] \notin {"respond", "done", "lost"}
        /\ pc'[r] \notin {"respond", "done", "lost"}
    BY <1>4 DEF CreateSession, FindSession, LookupMiss, Pipeline, Insert, InsertConflict,
         ReloadForUpdate, Update, Goto, TypeOK
  <2>2. Told(r)' = Waiting
    BY <2>1 DEF Told, Answered, Waiting
  <2> QED
    BY <2>1, <2>2, UnansweredWaits
<1> QED
  BY <1>1, <1>2, <1>3, <1>4, TablesSame, AbstractStutter DEF ToldSame

\* A rolled-back upload is dropped.
LEMMA RollbackRefines ==
    ASSUME IInv, NEW r \in Request, NEW e \in {"SESSION_NOT_FOUND", "RAISED"}, Rollback(r, e),
           pc[r] \notin {"respond", "done", "lost"}
    PROVE  Register!Next
<1>1. AnsweredNow(r, e)
  BY DEF Rollback, Answering, Goto, AnsweredNow, IInv, TypeOK
<1>2. e \notin Outcome
  BY DEF Outcome
<1>3. EntriesSame
  BY TablesSame DEF Rollback
<1> QED
  BY <1>1, <1>2, <1>3, AnswerBecomes, AbstractDrop

\* A stored COMPLETE row is returned, found by the lookup or by the reload.
LEMMA HitRefines ==
    ASSUME IInv, NEW r \in Request, LookupHit(r) \/ ReloadHit(r) PROVE Register!Next
<1>1. AnsweredNow(r, "NONE")
  BY DEF LookupHit, ReloadHit, Answering, Goto, env, AnsweredNow, IInv, TypeOK
<1>2. key[r] \in Key /\ Stored(key[r]) /\ rows[key[r]].status = "COMPLETE"
  BY DEF LookupHit, ReloadHit, IInv, UploadOK, Keyed
<1>3. record'[r] = rows[key[r]]
  BY DEF LookupHit, ReloadHit, IInv, TypeOK
<1>4. Entry(key[r]).status = "COMPLETE" /\ Entry(key[r]).doc = record'[r].doc
  BY <1>2, <1>3 DEF Entry
<1>5. EntriesSame
  BY TablesSame DEF LookupHit, ReloadHit
<1> QED
  BY <1>1, <1>2, <1>4, <1>5, AnswerBecomes, AbstractHit

\* The entry after a commit: the document of a success; after a failure, FAILED
\* or what it was.
LEMMA PublishedEntry ==
    ASSUME IInv, NEW r \in Request, Publishes(r)
    PROVE  /\ key[r] \in Key
           /\ data[r].error = "NONE" =>
                 /\ data[r].doc \in Answer
                 /\ EntryBecomes(key[r], [status |-> "COMPLETE", doc |-> data[r].doc])
           /\ data[r].error # "NONE" => FailureRecorded(key[r])
<1> DEFINE row == Written(r)[key[r]]
<1>1. /\ key[r] \in Key
      /\ rows' = [rows EXCEPT ![key[r]] = row]
      /\ rows'[key[r]] = row /\ row # Null
  BY CommittedRow
<1>2. /\ row.status = "COMPLETE" <=> row.doc # Null
      /\ data[r].error = "NONE" => row.status = "COMPLETE" /\ row.doc = data[r].doc
      /\ data[r].error # "NONE" =>
            \/ row.status = "FAILED" /\ row.doc = Null
            \/ /\ Stored(key[r])
               /\ row.status = rows[key[r]].status /\ row.doc = rows[key[r]].doc
  BY WrittenIsConsistent DEF Publishes, Commits
<1> HIDE DEF row
<1>3. EntryBecomes(key[r], [status |-> row.status, doc |-> row.doc])
  BY <1>1 DEF EntryBecomes, Entry, Stored, IInv, TypeOK
<1>4. ASSUME data[r].error = "NONE"
      PROVE  /\ data[r].doc \in Answer
             /\ EntryBecomes(key[r], [status |-> "COMPLETE", doc |-> data[r].doc])
  <2>1. data[r] \in Data
    BY DEF Publishes, Commits, IInv, UploadOK, Writing
  <2>2. data[r].doc # Null
    BY <1>2, <1>4
  <2> QED
    BY <1>2, <1>3, <1>4, <2>1, <2>2 DEF Data
<1>5. ASSUME data[r].error # "NONE" PROVE FailureRecorded(key[r])
  <2>1. CASE row.status = "FAILED" /\ row.doc = Null
    BY <1>3, <2>1 DEF FailureRecorded
  <2>2. CASE Stored(key[r]) /\ row.status = rows[key[r]].status /\ row.doc = rows[key[r]].doc
    <3>1. Entry(key[r]) = [status |-> row.status, doc |-> row.doc]
      BY <2>2 DEF Entry
    <3>2. EntriesSame
      BY <1>3, <3>1 DEF EntryBecomes, EntriesSame
    <3>3. Entry(key[r]).status \in Status
      BY <1>1, <2>2, <3>1, Consistent
    <3> QED
      BY <3>2, <3>3 DEF FailureRecorded, Status
  <2> QED
    BY <1>2, <1>5, <2>1, <2>2
<1> QED
  BY <1>1, <1>4, <1>5

\* A commit stores a result or a failure, or, unacknowledged, drops the upload.
LEMMA PublishesRefines ==
    ASSUME IInv, NEW r \in Request, Publishes(r) PROVE Register!Next
<1>1. /\ key[r] \in Key
      /\ data[r].error = "NONE" =>
            /\ data[r].doc \in Answer
            /\ EntryBecomes(key[r], [status |-> "COMPLETE", doc |-> data[r].doc])
      /\ data[r].error # "NONE" => FailureRecorded(key[r])
  BY PublishedEntry
<1>2. CASE CommitWrite(r)
  <2>1. AnsweredNow(r, data[r].error)
    BY <1>2 DEF CommitWrite, Commit, Answering, Goto, AnsweredNow, IInv, TypeOK
  <2>2. data[r].error \in Outcome
    BY DEF Publishes, Commits, IInv, UploadOK, Writing, Data
  <2>3. record'[r].doc = data[r].doc
    BY <1>2, Consistent DEF CommitWrite, Commit, WriteOK
  <2>4. CASE data[r].error = "NONE"
    BY <1>1, <2>1, <2>3, <2>4, AnswerBecomes, AbstractStore
  <2>5. CASE data[r].error # "NONE"
    BY <1>1, <2>1, <2>2, <2>5, AnswerBecomes, AbstractFail
  <2> QED
    BY <2>4, <2>5
<1>3. CASE CommitUnacknowledged(r)
  <2>1. AnsweredNow(r, "RAISED") /\ "RAISED" \notin Outcome
    BY <1>3 DEF CommitUnacknowledged, Answering, Goto, AnsweredNow, IInv, TypeOK, Outcome
  <2>2. ToldBecomes(r, Dropped)
    BY <2>1, AnswerBecomes
  <2> QED
    BY <1>1, <2>2, AbstractDrop
<1> QED
  BY <1>2, <1>3 DEF Publishes

\* A restart loses effects.
LEMMA RestartRefines ==
    ASSUME IInv, Restart PROVE Register!Next
<1> DEFINE R == {q \in Request : InFlight(q)}
<1>1. EntriesSame
  BY TablesSame DEF Restart
<1>2. ASSUME NEW q \in Request PROVE Told(q)' = IF q \in R THEN Dropped ELSE Told(q)
  BY DEF Restart, InFlight, Told, Answered, Dropped, IInv, TypeOK
<1> QED
  BY <1>1, <1>2, AbstractLose

\* Every step maps to a step of the register or to a stutter.
LEMMA StepRefines ==
    ASSUME IInv, [Next]_vars PROVE [Register!Next]_Register!vars
<1>1. TypeOK
  BY DEF IInv
<1>2. ASSUME NEW r \in Request,
             Arrive(r) \/ Serve(r) \/ DatabaseFails(r) \/ CommitUnacknowledged(r)
      PROVE  [Register!Next]_Register!vars
  <2>1. ASSUME NEW e \in {"SESSION_NOT_FOUND", "RAISED"}, Rollback(r, e)
        PROVE  pc[r] \notin {"respond", "done", "lost"}
    BY <1>2, <2>1 DEF Arrive, CreateSession, FindSession, UnknownSession, Serve, LookupHit, LookupMiss,
         Pipeline, PipelineRaises, WriteRejected, Insert, InsertConflict, ReloadHit,
         ReloadForUpdate, Update, CommitWrite, Respond, Goto, Rollback, Answering, DatabaseFails,
         CommitUnacknowledged, IInv, TypeOK
  <2> QED
    BY <1>1, <1>2, <2>1, Steps, SilentRefines, HitRefines, PublishesRefines, RollbackRefines
<1>3. CASE Restart
  BY <1>3, RestartRefines
<1>4. CASE UNCHANGED vars
  <2>1. EntriesSame /\ ToldSame
    BY <1>4, TablesSame, ToldDepends DEF vars, tables, ToldSame
  <2> QED
    BY <2>1, AbstractStutter
<1> QED
  BY <1>2, <1>3, <1>4 DEF Next, Quiet

\* Uploads that interleave, fail, roll back and write from stale snapshots look to
\* their clients like atomic reads and writes of one entry per session and file.
THEOREM RefinesRegister == Spec => ImplementsRegister
<1>1. Init => Register!Init
  BY InitRefines
<1>2. IInv /\ [Next]_vars => [Register!Next]_Register!vars
  BY StepRefines
<1> QED
  BY Invariance, <1>1, <1>2, PTL DEF Spec, ImplementsRegister, Register!Spec
=============================================================================

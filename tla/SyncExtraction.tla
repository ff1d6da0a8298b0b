--------------------------- MODULE SyncExtraction ---------------------------
(***************************************************************************)
(* The synchronous upload path: the endpoint POST /extract, the service    *)
(* SyncExtractionService, the two repositories it calls and the PostgreSQL *)
(* transaction each upload runs in (READ COMMITTED, one transaction per    *)
(* HTTP request, autoflush off, expire_on_commit off).                     *)
(*                                                                         *)
(* One step is what an upload does between two awaits that matter: a       *)
(* statement sent to the database, a commit, the language model call, the  *)
(* reply.  Uploads interleave freely between those steps.                  *)
(*                                                                         *)
(* A stored row keeps four groups of columns: its status, the columns that *)
(* every successful answer fills (doc), the nullable ones that only some   *)
(* answers fill (opt), and raw_llm_response (raw).  A value in one of them *)
(* names the model answer it was read from.  The others (the file name, the *)
(* processing time) matter only in that an UPDATE may set them too.        *)
(***************************************************************************)
EXTENDS Naturals, StoredData

CONSTANTS
    Request,     \* uploads that ever arrive
    Session,     \* UUIDs that a Session row may get
    File,        \* contents, up to their SHA-256 digest
    Unstorable,  \* texts PostgreSQL refuses (NUL, a number beyond int4)
    MaxFaults    \* bound on database failures and process restarts

Key    == Session \X File
Column == {"status", "doc", "opt", "raw", "other"}

\* A row, named by the upload whose INSERT drew its primary key.
Row == [id : Request, status : Status, doc : Answer \cup {Null},
        opt : Answer \cup {Null}, raw : RawText]

Error == Outcome \cup {"SESSION_NOT_FOUND", "RAISED"}
Reply == [error : Error, dedup : BOOLEAN]

Label == {"new", "lookup", "pipeline", "insert", "reload", "update",
          "inserted", "updated", "respond", "done", "lost"}

ASSUME TextAssumption  == Full \subseteq Answer /\ Unstorable \subseteq RawText
ASSUME BoundAssumption == MaxFaults \in Nat
ASSUME NullAssumption  ==
    /\ Null \notin Answer
    /\ Null \notin Key
    /\ Null \notin Row
    /\ Null \notin Data
    /\ Null \notin Reply

VARIABLES
    sessions,  \* committed rows of table sessions
    rows,      \* committed rows of table extractions, by unique key
    provider,  \* is app.state.llm_provider set?
    faults,    \* failures injected so far
    pc,        \* where each upload is
    key,       \* the (session, file hash) it works on
    found,     \* did its lookup find a row (existing is not None)?
    record,    \* the ORM object it holds
    data,      \* the values it is about to write
    cols,      \* the columns its UPDATE statement has set
    reply      \* the response it has built

tables == <<sessions, rows>>
env    == <<provider, faults>>
vars   == <<sessions, rows, provider, faults, pc, key, found, record, data,
            cols, reply>>

Stored(k) == rows[k] # Null

-----------------------------------------------------------------------------
(* What is written.                                                        *)

NewRow(r, d) ==
    [id |-> r, status |-> d.status, doc |-> d.doc, opt |-> d.opt, raw |-> d.raw]

\* (A mistake the runs catch: every column is written, changed or not.)
EveryColumn(row, d) == Column

\* (A mistake the runs catch: a value that is None is not written.)
NetChangeFilled(row, d) ==
    {c \in Column : \/ c = "status" /\ row.status # d.status
                    \/ c = "doc"    /\ d.doc \notin {Null, row.doc}
                    \/ c = "opt"    /\ d.opt \notin {Null, row.opt}
                    \/ c = "raw"    /\ row.raw    # d.raw}

\* The unit of work emits a column only if its value differs from the one loaded.
NetChange(row, d) ==
    {c \in Column : \/ c = "status" /\ row.status # d.status
                    \/ c = "doc"    /\ row.doc    # d.doc
                    \/ c = "opt"    /\ row.opt    # d.opt
                    \/ c = "raw"    /\ row.raw    # d.raw}

\* The other columns may happen to be unchanged, and then no lock is taken if
\* nothing else changes either.
Changes(row, d) == {NetChange(row, d), NetChange(row, d) \cup {"other"}}

\* UPDATE ... SET the columns cs, WHERE id = row.id.
Merge(row, cs, d) ==
    [id     |-> row.id,
     status |-> IF "status" \in cs THEN d.status ELSE row.status,
     doc    |-> IF "doc"    \in cs THEN d.doc    ELSE row.doc,
     opt    |-> IF "opt"    \in cs THEN d.opt    ELSE row.opt,
     raw    |-> IF "raw"    \in cs THEN d.raw    ELSE row.raw]

\* An uncommitted write keeps its row (or the absent key) locked until the
\* transaction ends; another writer of the same key waits.
Holds(q, k) == /\ key[q] = k
               /\ \/ pc[q] = "inserted"
                  \/ pc[q] = "updated" /\ cols[q] # {}

Locked(r, k) == \E q \in Request \ {r} : Holds(q, k)

\* Ids of Session rows drawn by transactions, committed or not.
Drawn == sessions \cup {k[1] : k \in {key[q] : q \in Request} \ {Null}}

-----------------------------------------------------------------------------
Init ==
    /\ sessions = {}
    /\ rows     = [k \in Key |-> Null]
    /\ provider \in BOOLEAN
    /\ faults   = 0
    /\ pc       = [r \in Request |-> "new"]
    /\ key      = [r \in Request |-> Null]
    /\ found    = [r \in Request |-> FALSE]
    /\ record   = [r \in Request |-> Null]
    /\ data     = [r \in Request |-> Null]
    /\ cols     = [r \in Request |-> {}]
    /\ reply    = [r \in Request |-> Null]

Goto(r, l) == pc' = [pc EXCEPT ![r] = l]

Answering(r, e, d) ==
    /\ reply' = [reply EXCEPT ![r] = [error |-> e, dedup |-> d]]
    /\ Goto(r, "respond")

\* except Exception: rollback, raise.  What the transaction held is gone.
Rollback(r, e) ==
    /\ Answering(r, e, FALSE)
    /\ record' = [record EXCEPT ![r] = Null]
    /\ data'   = [data EXCEPT ![r] = Null]
    /\ cols'   = [cols EXCEPT ![r] = {}]
    /\ UNCHANGED <<tables, provider, key, found>>

\* The end of the transaction: a session it created becomes visible too.
Commit(r) ==
    /\ sessions' = sessions \cup {key[r][1]}
    /\ data' = [data EXCEPT ![r] = Null]
    /\ cols' = [cols EXCEPT ![r] = {}]
    /\ UNCHANGED <<env, key, found, record>>

-----------------------------------------------------------------------------
(* Mistakes in the actions below; the runs show that each is caught.       *)

\* The new session is committed before it has an extraction.
CreateSessionCommitted(r) ==
    /\ pc[r] = "new"
    /\ \E s \in Session \ Drawn, f \in File :
          /\ key' = [key EXCEPT ![r] = <<s, f>>]
          /\ sessions' = sessions \cup {s}
    /\ Goto(r, "lookup")
    /\ UNCHANGED <<rows, env, found, record, data, cols, reply>>

\* Any row that is found is worked on, a COMPLETE one too.
LookupMissAnyRow(r) ==
    /\ pc[r] = "lookup"
    /\ record' = [record EXCEPT ![r] = rows[key[r]]]
    /\ found'  = [found EXCEPT ![r] = Stored(key[r])]
    /\ Goto(r, "pipeline")
    /\ UNCHANGED <<tables, env, key, data, cols, reply>>

\* ON CONFLICT DO UPDATE with the new primary key.
InsertReplacing(r) ==
    /\ pc[r] = "insert"
    /\ data[r].raw \notin Unstorable
    /\ ~Locked(r, key[r])
    /\ record' = [record EXCEPT ![r] = NewRow(r, data[r])]
    /\ Goto(r, "inserted")
    /\ UNCHANGED <<tables, env, key, found, data, cols, reply>>

\* The conflict is reported without waiting for the other transaction.
InsertConflictAtOnce(r) ==
    /\ pc[r] = "insert"
    /\ data[r].raw \notin Unstorable
    /\ Stored(key[r]) \/ Locked(r, key[r])
    /\ Goto(r, "reload")
    /\ UNCHANGED <<tables, env, key, found, record, data, cols, reply>>

\* The complete row is found, but the upload's own extraction is returned.
ReloadHitOwnData(r) ==
    /\ pc[r] = "reload"
    /\ Stored(key[r])
    /\ data[r].status = "COMPLETE"
    /\ rows[key[r]].status = "COMPLETE"
    /\ record' = [record EXCEPT ![r] = NewRow(rows[key[r]].id, data[r])]
    /\ data'   = [data EXCEPT ![r] = Null]
    /\ Answering(r, "NONE", TRUE)
    /\ UNCHANGED <<tables, env, key, found, cols>>

\* A success, too, is written over the row it lost to.
ReloadAlwaysUpdates(r) ==
    /\ pc[r] = "reload"
    /\ Stored(key[r])
    /\ record' = [record EXCEPT ![r] = rows[key[r]]]
    /\ Goto(r, "update")
    /\ UNCHANGED <<tables, env, key, found, data, cols, reply>>

\* The INSERT is tried again after a conflict.
ReloadRetriesInsert(r) ==
    /\ pc[r] = "reload"
    /\ Stored(key[r])
    /\ Goto(r, "insert")
    /\ UNCHANGED <<tables, env, key, found, record, data, cols, reply>>

\* The commit is forgotten: closing the session rolls back.
CommitForgotten(r) ==
    /\ pc[r] \in {"inserted", "updated"}
    /\ data' = [data EXCEPT ![r] = Null]
    /\ cols' = [cols EXCEPT ![r] = {}]
    /\ Answering(r, data[r].error, FALSE)
    /\ UNCHANGED <<tables, env, key, found, record>>

-----------------------------------------------------------------------------
(* Resolving the session and looking for an earlier result.                *)

\* No sessionId: a Session row with a fresh UUID is flushed, not committed.
CreateSession(r) ==
    /\ pc[r] = "new"
    /\ \E s \in Session \ Drawn, f \in File : key' = [key EXCEPT ![r] = <<s, f>>]
    /\ Goto(r, "lookup")
    /\ UNCHANGED <<tables, env, found, record, data, cols, reply>>

FindSession(r) ==
    /\ pc[r] = "new"
    /\ \E s \in sessions, f \in File : key' = [key EXCEPT ![r] = <<s, f>>]
    /\ Goto(r, "lookup")
    /\ UNCHANGED <<tables, env, found, record, data, cols, reply>>

UnknownSession(r) ==
    /\ pc[r] = "new"
    /\ Rollback(r, "SESSION_NOT_FOUND")
    /\ UNCHANGED faults

LookupHit(r) ==
    /\ pc[r] = "lookup"
    /\ Stored(key[r])
    /\ rows[key[r]].status = "COMPLETE"
    /\ record' = [record EXCEPT ![r] = rows[key[r]]]
    /\ found'  = [found EXCEPT ![r] = TRUE]
    /\ Answering(r, "NONE", TRUE)
    /\ UNCHANGED <<tables, env, key, data, cols>>

\* No usable result: run the pipeline, or without a provider go straight to
\* storing a failure.
LookupMiss(r) ==
    /\ pc[r] = "lookup"
    /\ Stored(key[r]) => rows[key[r]].status # "COMPLETE"
    /\ record' = [record EXCEPT ![r] = rows[key[r]]]
    /\ found'  = [found EXCEPT ![r] = Stored(key[r])]
    /\ \/ /\ provider
          /\ Goto(r, "pipeline")
          /\ UNCHANGED data
       \/ /\ ~provider
          /\ \E m \in Message \ Unstorable :
                data' = [data EXCEPT ![r] = Failure(m, "LLM_PROVIDER_UNAVAILABLE")]
          /\ Goto(r, IF Stored(key[r]) THEN "update" ELSE "insert")
    /\ UNCHANGED <<tables, env, key, cols, reply>>

-----------------------------------------------------------------------------
(* The pipeline, seen from outside: an answer, a failure, or an exception, *)
(* the three ends of PipelineRun, which ExtractionCore implements.         *)

Pipeline(r) ==
    /\ pc[r] = "pipeline"
    /\ \E d \in Delivered : data' = [data EXCEPT ![r] = d]
    /\ Goto(r, IF found[r] THEN "update" ELSE "insert")
    /\ UNCHANGED <<tables, env, key, found, record, cols, reply>>

\* ProviderClientUnavailableError, or a json.loads error that is no JSONDecodeError.
PipelineRaises(r) ==
    /\ pc[r] = "pipeline"
    /\ Rollback(r, "RAISED")
    /\ UNCHANGED faults

-----------------------------------------------------------------------------
(* Persisting the outcome.                                                 *)

\* The database rejects the values of the INSERT or UPDATE.
WriteRejected(r) ==
    /\ pc[r] \in {"insert", "update"}
    /\ data[r].raw \in Unstorable
    /\ Rollback(r, "RAISED")
    /\ UNCHANGED faults

\* INSERT ... ON CONFLICT DO NOTHING RETURNING id, and the reload by that id.
Insert(r) ==
    /\ pc[r] = "insert"
    /\ data[r].raw \notin Unstorable
    /\ ~Locked(r, key[r])
    /\ ~Stored(key[r])
    /\ record' = [record EXCEPT ![r] = NewRow(r, data[r])]
    /\ Goto(r, "inserted")
    /\ UNCHANGED <<tables, env, key, found, data, cols, reply>>

\* Another upload stored the key since the lookup: nothing is returned.
InsertConflict(r) ==
    /\ pc[r] = "insert"
    /\ data[r].raw \notin Unstorable
    /\ ~Locked(r, key[r])
    /\ Stored(key[r])
    /\ Goto(r, "reload")
    /\ UNCHANGED <<tables, env, key, found, record, data, cols, reply>>

\* find_by_session_and_hash after the conflict: a success gives way to a
\* complete row (prefer_existing_complete), everything else is written over it.
\* The RuntimeError for a row that is not there has no step: ReloadFindsRow
\* says that it is never raised.
ReloadHit(r) ==
    /\ pc[r] = "reload"
    /\ Stored(key[r])
    /\ data[r].status = "COMPLETE"
    /\ rows[key[r]].status = "COMPLETE"
    /\ record' = [record EXCEPT ![r] = rows[key[r]]]
    /\ data'   = [data EXCEPT ![r] = Null]
    /\ Answering(r, "NONE", TRUE)
    /\ UNCHANGED <<tables, env, key, found, cols>>

ReloadForUpdate(r) ==
    /\ pc[r] = "reload"
    /\ Stored(key[r])
    /\ ~(data[r].status = "COMPLETE" /\ rows[key[r]].status = "COMPLETE")
    /\ record' = [record EXCEPT ![r] = rows[key[r]]]
    /\ Goto(r, "update")
    /\ UNCHANGED <<tables, env, key, found, data, cols, reply>>

\* setattr of every value, then flush: UPDATE of the columns that changed with
\* respect to the object in hand, however old that object is.
Update(r) ==
    /\ pc[r] = "update"
    /\ data[r].raw \notin Unstorable
    /\ \E cs \in Changes(record[r], data[r]) :
          /\ cs # {} => ~Locked(r, key[r])
          /\ cols'   = [cols EXCEPT ![r] = cs]
          /\ record' = [record EXCEPT ![r] = Merge(record[r], cs, data[r])]
    /\ Goto(r, "updated")
    /\ UNCHANGED <<tables, env, key, found, data, reply>>

\* The rows as they are once r's transaction commits.
Written(r) ==
    IF pc[r] = "inserted"
      THEN [rows EXCEPT ![key[r]] = NewRow(r, data[r])]
      ELSE [rows EXCEPT ![key[r]] = Merge(rows[key[r]], cols[r], data[r])]

CommitWrite(r) ==
    /\ pc[r] \in {"inserted", "updated"}
    /\ rows' = Written(r)
    /\ Commit(r)
    /\ Answering(r, data[r].error, FALSE)

\* The endpoint turns the outcome into the HTTP response.
Respond(r) ==
    /\ pc[r] = "respond"
    /\ Goto(r, "done")
    /\ UNCHANGED <<tables, env, key, found, record, data, cols, reply>>

-----------------------------------------------------------------------------
(* Failures.                                                               *)

\* A statement or the commit fails and the transaction is rolled back.
DatabaseFails(r) ==
    /\ faults < MaxFaults
    /\ pc[r] \in {"new", "lookup", "insert", "reload", "update", "inserted",
                  "updated"}
    /\ faults' = faults + 1
    /\ Rollback(r, "RAISED")

\* The commit took effect but its acknowledgement was lost.
CommitUnacknowledged(r) ==
    /\ faults < MaxFaults
    /\ pc[r] \in {"inserted", "updated"}
    /\ faults' = faults + 1
    /\ rows'     = Written(r)
    /\ sessions' = sessions \cup {key[r][1]}
    /\ Answering(r, "RAISED", FALSE)
    /\ record' = [record EXCEPT ![r] = Null]
    /\ data'   = [data EXCEPT ![r] = Null]
    /\ cols'   = [cols EXCEPT ![r] = {}]
    /\ UNCHANGED <<provider, key, found>>

InFlight(r) == pc[r] \notin {"new", "done", "lost"}

\* The process dies and starts again: uploads under way are never answered,
\* their transactions roll back, and the lifespan hook looks for a provider.
Restart ==
    /\ faults < MaxFaults
    /\ faults' = faults + 1
    /\ provider' \in BOOLEAN
    /\ pc'     = [r \in Request |-> IF InFlight(r) THEN "lost" ELSE pc[r]]
    /\ record' = [r \in Request |-> IF InFlight(r) THEN Null ELSE record[r]]
    /\ data'   = [r \in Request |-> Null]
    /\ cols'   = [r \in Request |-> {}]
    /\ reply'  = [r \in Request |-> IF InFlight(r) THEN Null ELSE reply[r]]
    /\ UNCHANGED <<tables, key, found>>

-----------------------------------------------------------------------------
Arrive(r) == CreateSession(r) \/ FindSession(r) \/ UnknownSession(r)

\* What the server does by itself once an upload has arrived.
Serve(r) ==
    \/ LookupHit(r) \/ LookupMiss(r)
    \/ Pipeline(r) \/ PipelineRaises(r)
    \/ WriteRejected(r) \/ Insert(r) \/ InsertConflict(r)
    \/ ReloadHit(r) \/ ReloadForUpdate(r)
    \/ Update(r) \/ CommitWrite(r)
    \/ Respond(r)

\* Every upload has been answered or lost.
Quiet == (\A r \in Request : pc[r] \in {"done", "lost"}) /\ UNCHANGED vars

Next ==
    \/ \E r \in Request : Arrive(r) \/ Serve(r) \/ DatabaseFails(r)
                          \/ CommitUnacknowledged(r)
    \/ Restart
    \/ Quiet

Spec     == Init /\ [][Next]_vars
FairSpec == Spec /\ \A r \in Request : WF_vars(Serve(r))

-----------------------------------------------------------------------------
(* Properties.                                                             *)

\* Every variable stays in its domain.
TypeOK ==
    /\ sessions \subseteq Session
    /\ rows     \in [Key -> Row \cup {Null}]
    /\ provider \in BOOLEAN
    /\ faults   \in 0..MaxFaults
    /\ pc       \in [Request -> Label]
    /\ key      \in [Request -> Key \cup {Null}]
    /\ found    \in [Request -> BOOLEAN]
    /\ record   \in [Request -> Row \cup {Null}]
    /\ data     \in [Request -> Data \cup {Null}]
    /\ cols     \in [Request -> SUBSET Column]
    /\ reply    \in [Request -> Reply \cup {Null}]

\* A stored row, and the object an upload holds, has a document exactly if it is
\* COMPLETE: although UPDATE statements computed from stale snapshots are merged
\* column by column, status and document never drift apart.
StatusMatchesDocument ==
    /\ \A k \in Key : Stored(k) =>
          (rows[k].status = "COMPLETE" <=> rows[k].doc # Null)
    /\ \A r \in Request : record[r] # Null =>
          (record[r].status = "COMPLETE" <=> record[r].doc # Null)

\* After an INSERT lost the conflict, the row it lost to can be read: the
\* RuntimeError of create_or_get_existing is unreachable.
ReloadFindsRow == \A r \in Request : pc[r] = "reload" => Stored(key[r])

\* The response is built, if not sent.
Answered(r) == pc[r] \in {"respond", "done"}

\* An answer that carries an extraction (or its id) names the row that the
\* database keeps for that session and file: concurrent uploads of one file
\* are all told the same extraction id, and a reply never names a row that was
\* rolled back.
RepliesNameTheStoredRecord ==
    \A r \in Request :
        Answered(r) /\ reply[r].error \in Outcome =>
            /\ Stored(key[r])
            /\ record[r].id = rows[key[r]].id

\* What an upload may write: what its pipeline delivered, or why it had none.
OutcomeData ==
    Delivered \cup {Failure(m, "LLM_PROVIDER_UNAVAILABLE") : m \in Message}

\* From its INSERT or UPDATE to its reply, the object an upload holds is exactly
\* one outcome, its own: although an UPDATE sets only the columns that differ from
\* an old snapshot, no column of an earlier attempt is left in what the client is
\* told.  A row torn by two retries (CachedResultIsOneAnswer) is seen by later
\* uploads only.
RepliesAreOneOutcome ==
    \A r \in Request :
        /\ data[r] # Null => data[r] \in OutcomeData
        /\ pc[r] \in {"inserted", "updated"} =>
              record[r] = NewRow(record[r].id, data[r])
        /\ Answered(r) /\ reply[r].error \in Outcome /\ ~reply[r].dedup =>
              \E d \in OutcomeData : /\ d.error = reply[r].error
                                     /\ record[r] = NewRow(record[r].id, d)

\* A session is visible exactly if it holds an extraction: a failed upload
\* leaves no empty session behind, and no extraction lacks its session.
SessionsHoldRecords ==
    \A s \in Session : s \in sessions <=> \E f \in File : Stored(<<s, f>>)

\* A stored extraction never disappears or changes its id.
RecordsPersist ==
    [][\A k \in Key : Stored(k) => Stored(k)' /\ rows'[k].id = rows[k].id]_vars

\* In this step, a result that turns FAILED was not there for its writer's lookup.
DowngradeIsFirstRace ==
    \A k \in Key :
       Stored(k) /\ rows[k].status = "COMPLETE" /\ rows'[k].status = "FAILED" =>
          \E r \in Request : /\ key[r] = k
                             /\ pc[r] = "updated" /\ pc'[r] = "respond"
                             /\ ~found[r]

\* A COMPLETE result is turned into FAILED only by an upload that looked the key
\* up before any row existed for it: one that found a FAILED row never
\* downgrades a result another upload stored meanwhile.
OnlyFirstRaceDowngrades == [][DowngradeIsFirstRace]_vars

\* In this step, a success that commits is the stored result.
SuccessCommitStores ==
    \A r \in Request :
       (pc[r] \in {"inserted", "updated"} /\ pc'[r] = "respond" /\ reply'[r].error = "NONE") =>
          rows'[key[r]].status = "COMPLETE" /\ rows'[key[r]].doc = data[r].doc

\* An upload that is answered 200 with its own extraction has, at its commit,
\* made the row COMPLETE with that document, whatever committed in between.
SuccessIsStored == [][SuccessCommitStores]_vars

\* Every upload that reached the service is answered, unless a restart loses it:
\* no cycle of uploads waits on each other's uncommitted rows.
EveryUploadAnswered ==
    \A r \in Request : pc[r] = "lookup" ~> pc[r] \in {"done", "lost"}

\* The abstract view: the committed status and document of each key, and what
\* an upload is told once its effect is settled.
Entry(k) ==
    IF Stored(k) THEN [status |-> rows[k].status, doc |-> rows[k].doc]
                 ELSE [status |-> "ABSENT", doc |-> Null]

Told(r) ==
    CASE pc[r] = "lost" \/ (Answered(r) /\ reply[r].error \notin Outcome) ->
           [kind |-> "dropped", key |-> Null, doc |-> Null]
      [] Answered(r) /\ reply[r].error = "NONE" ->
           [kind |-> "result", key |-> key[r], doc |-> record[r].doc]
      [] Answered(r) /\ reply[r].error \in Outcome \ {"NONE"} ->
           [kind |-> "failure", key |-> key[r], doc |-> Null]
      [] OTHER -> [kind |-> "waiting", key |-> Null, doc |-> Null]

Register == INSTANCE ResultRegister
                WITH store <- [k \in Key |-> Entry(k)],
                     effect <- [r \in Request |-> Told(r)]

\* Uploads, with their transactions and stale snapshots, behave as atomic
\* operations on one entry per session and file: a reply carries the document
\* the entry held or received at one moment of the upload's life.
ImplementsRegister == Register!Spec

-----------------------------------------------------------------------------
(* The inductive invariant: what is true of an upload at each label.       *)

Keyed   == {"lookup", "pipeline", "insert", "reload", "update", "inserted", "updated"}
Writing == {"insert", "reload", "update", "inserted", "updated"}

\* The upload works on a row that is stored: it updates it, or it was told its
\* contents.
OnStoredRow(r) == \/ pc[r] \in {"update", "updated"}
                  \/ pc[r] = "pipeline" /\ found[r]
                  \/ Answered(r) /\ reply[r].error \in Outcome

\* Its variables are set, and the object it holds names the row of its key.
UploadOK(r) ==
    /\ pc[r] \in Keyed => key[r] \in Key
    /\ pc[r] \in Writing => data[r] \in Data
    /\ Answered(r) => reply[r] \in Reply
    /\ OnStoredRow(r) => /\ key[r] \in Key
                         /\ Stored(key[r])
                         /\ record[r] \in Row
                         /\ record[r].id = rows[key[r]].id
    /\ pc[r] = "reload" => Stored(key[r])
    /\ pc[r] = "inserted" => /\ record[r] \in Row
                             /\ record[r].id = r
                             /\ ~Stored(key[r])

\* No two transactions have written one key and not committed.
LocksExclusive ==
    \A q, r \in Request : \A k \in Key : Holds(q, k) /\ Holds(r, k) => q = r

\* A success is only ever written over a FAILED snapshot, status and document are
\* written together, and what is held after the write is what was written.
WriteOK(r) ==
    /\ data[r] # Null =>
          /\ data[r].status = "COMPLETE" <=> data[r].doc # Null
          /\ data[r].status = "COMPLETE" <=> data[r].error = "NONE"
    /\ pc[r] \in {"insert", "reload"} => ~found[r]
    /\ pc[r] \in {"pipeline", "update"} /\ found[r] => record[r].status = "FAILED"
    /\ pc[r] = "update" /\ data[r].status = "COMPLETE" => record[r].status = "FAILED"
    /\ pc[r] = "updated" =>
          /\ "status" \in cols[r] <=> "doc" \in cols[r]
          /\ data[r].status = "COMPLETE" => "status" \in cols[r]
          /\ data[r].status = "FAILED" /\ found[r] => "status" \notin cols[r]
    /\ pc[r] \in {"inserted", "updated"} =>
          record[r].status = data[r].status /\ record[r].doc = data[r].doc

\* Strong enough to be preserved by every step, and to give the invariants above.
IInv ==
    /\ TypeOK
    /\ \A r \in Request : UploadOK(r)
    /\ LocksExclusive
    /\ \A r \in Request : WriteOK(r)
    /\ StatusMatchesDocument
    /\ SessionsHoldRecords

-----------------------------------------------------------------------------
(* What the README says of this path.                                      *)

\* "returns a cached result ... when the same file is uploaded to the same
\* session again": once an upload has been answered with a result, that result
\* is there to be returned.
AnsweredStaysCached ==
    \A r \in Request :
        pc[r] = "done" /\ reply[r].error = "NONE" => rows[key[r]].status = "COMPLETE"

\* A cached result is the result of one earlier extraction.
CachedResultIsOneAnswer ==
    \A r \in Request :
        pc[r] = "done" /\ reply[r].error = "NONE" /\ reply[r].dedup =>
            \E a \in Answer : record[r] = NewRow(record[r].id, Success(a))

\* "persists failed extraction outcomes instead of dropping them": without any
\* failure of the database, an upload whose session was resolved leaves a row.
FailuresPersisted ==
    \A r \in Request :
        faults = 0 /\ pc[r] = "done" /\ key[r] # Null => Stored(key[r])
=============================================================================

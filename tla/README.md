# Formal model of the maritime document extractor

TLA+ specifications, TLC configurations and TLAPS proofs for the upload path of
this repository: `POST /api/v1/extract`, the service behind it, the PostgreSQL
transaction each upload runs in, the pipeline of model calls that produces an
extraction, and the connections and threads that uploads and health checks share.
Paths below are relative to `src/`.

## 1. Inventory

| Component | Code | State it keeps | Operations | Correct when |
|---|---|---|---|---|
| Extraction endpoint | `app/api/extract.py` | none; owns the request's transaction | check the request, run the service, roll back on an exception, build the response | every path ends the transaction; a reply speaks of what is stored |
| Sync extraction service | `app/services/sync_extraction.py` | the ORM object of its lookup, the values to write | resolve session, look up, run the pipeline, persist | one row per session and file; a result that was given out is kept; failures are kept; a stored row is one answer |
| Repositories | `app/db/repos/` | none | insert-or-get, reload, column-wise update | the row lost to is readable; updates from old snapshots do no harm |
| PostgreSQL | `app/db/models.py`, `app/db/base.py` | tables `sessions`, `extractions` | READ COMMITTED statements, row locks, commit, rollback | waiting writers get through |
| Extraction core | `app/services/extraction_core.py`, `app/llm/types.py` | the attempts of one run, the selected extraction | initial call, repair call, low-confidence retry, selection | the best extraction is returned, with the text it came from, within the time limits |
| Gemini provider | `app/llm/base.py`, `app/llm/providers/gemini.py` | SDK client, worker threads | a call with a time limit, lazy client creation | a call ends; threads and clients do not pile up |
| JSON extractor | `app/utils/json_extractor.py` | none | find the first balanced object, parse it | finds what a parser would find |
| Lifecycle | `app/main.py`, `app/dependencies.py`, `app/llm/factory.py` | `app.state` | start, shut down | requests see a provider or its absence, never half of it |
| Engine and pool | `app/db/base.py` | process-wide engine and session factory | create lazily, dispose | connections suffice for the uploads in flight |
| Health endpoint | `app/api/health.py` | none | read three statuses | reports what the components report |
| Queue manager, job and validation repositories | `app/queue/`, `app/db/repos/job_repo.py`, `validation_repo.py` | queue, tables `jobs`, `validations` | none reached by a route | not used yet |

Interaction: FastAPI gives each request one `AsyncSession` (one transaction) and
the provider held in `app.state`. The service awaits the database and the
provider; at every await other uploads run. They share the two tables and
nothing else but resources: the connections of the engine's pool, the threads of
the event loop's default executor, and the SDK client those threads build. What is
hard, therefore:

* the row read before the model call is up to 75 s old when it is updated;
* two first uploads of a file race on the unique key, and the loser reloads and
  may overwrite;
* an exception, a lost connection or a restart may come between the flush of a
  row, its commit, the acknowledgement and the response;
* repair and retry calls can each time out, fail, or answer something worse;
* a call that timed out still occupies its thread, and its upload, like every
  upload, holds a connection for as long as it waits;
* the threads create their client without a lock;
* an answer may be cut off, or wrap its JSON in prose, braces and quotes.

`PROJECT.json` lists each hazard at its line.

## 2. Modules

| Module | Models |
|---|---|
| `ResultRegister` | what the upload path promises: one entry per session and file, and uploads that take effect on it atomically |
| `StoredData` | the column values an upload writes, and what its pipeline may deliver: shared by the next and `PipelineRun` |
| `SyncExtraction` | endpoint, service, repositories and transactions, one action per step between two awaits; the properties; the refinement mapping to `ResultRegister` |
| `SyncExtractionProofs` | types, the inductive invariant, the invariants and the action properties |
| `SyncRefinementProofs` | `SyncExtraction` implements `ResultRegister` |
| `SyncHistory`, `SyncHistoryProofs` | `SyncExtraction` with two history variables, the row each UPDATE was computed from and the keys where an UPDATE met another row; they restrict no step |
| `CallOrder` | which provider call may follow which: shared by the next two |
| `ExtractionCore` | one run of the pipeline: up to three provider calls and the selection |
| `PipelineRun` | what one run of the pipeline promises the upload that awaits it |
| `PipelineDelivery`, `PipelineDeliveryProofs` | what the upload service makes of the result of `ExtractionCore`; the refinement mapping to `PipelineRun`, and its proof |
| `Serving` | uploads and health checks of one process, the connection pool and the executor; the refinement mapping to `BoundedResource` |
| `ExtractionCoreProofs`, `ServingProofs` | the invariants of the two, the order of the calls, the refinement of the executor |
| `BoundedResource` | what the executor promises: whoever wants a thread waits, no more than a limit have one |
| `GeminiClient`, `GeminiClientProofs` | the lazily created client that the threads share, and its invariants |
| `JsonBlock`, `JsonBlockProofs` | the scanner of the JSON extractor, and the grammar of balanced objects it is compared with; the proof that they agree on texts of any length |
| `MCSyncExtraction`, `MCSyncHistory`, `MCExtractionCore`, `MCServing`, `MCGeminiClient` | instances for TLC |

The modules meet at the results of calls. What `JsonBlock` finds is what `Level`
summarises in `ExtractionCore`. `Pipeline` and `PipelineRaises` of `SyncExtraction`
are the two ends of `PipelineRun`, and `ExtractionCore` implements `PipelineRun`:
both take `Delivered` from `StoredData`. `Serving` has the path of an upload through the
resources and leaves its data to the other two, and takes the order of its calls
from `CallOrder`, to which `CallsInOrder` holds the pipeline.

### SyncExtraction and the code

| State | In the code |
|---|---|
| `sessions`, `rows` | the committed contents of the two tables; `rows[<<session, file>>]` is the row of that unique key |
| `pc[r]` | which await the upload `r` is at |
| `found[r]`, `record[r]` | `existing is not None`, and the ORM object in hand: a snapshot that nothing refreshes (`expire_on_commit=False`) |
| `data[r]`, `cols[r]` | the values to be written, and the columns that the UPDATE has set |
| `reply[r]` | outcome and `X-Deduplicated` |
| `provider` | `app.state.llm_provider is not None` |

| Actions | In the code |
|---|---|
| `CreateSession`, `FindSession`, `UnknownSession` | `_resolve_session`, and the 404 of the endpoint |
| `LookupHit`, `LookupMiss` | `run` up to the pipeline, with the branch for a missing provider |
| `Pipeline`, `PipelineRaises` | `ExtractionCoreService.run` seen from outside: an answer, a failure, an exception that passes through |
| `Insert`, `InsertConflict`, `ReloadHit`, `ReloadForUpdate` | `create_or_get_existing` and the decision on its result in `_persist_record` |
| `Update` | `setattr` of every value and the flush: an UPDATE of the columns that differ from the snapshot |
| `WriteRejected` | PostgreSQL refuses a value (a NUL character, a number beyond int4) |
| `CommitWrite` | the commit; only here do other uploads see the row and the new session |
| `Respond` | the JSON response |
| `DatabaseFails`, `CommitUnacknowledged`, `Restart` | a failed statement or commit; a commit whose acknowledgement is lost; the process dies, transactions roll back, and the lifespan hook runs again |

A row is abstracted to what the properties tell apart: `status`; `doc`, the
columns that every answer fills; `opt`, the nullable ones that only some answers
fill; `raw`. Each names the answer its value came from. `other` (file name,
processing time) has no value: an UPDATE may or may not set it, which decides
whether it takes a lock when nothing else changes. Writers of one key wait for
each other (`Locked`), as an `INSERT ... ON CONFLICT` or an `UPDATE` does in
PostgreSQL. A generated UUID is one that nobody holds. Files are equal if their
digests are.

Two abstractions to know about. An upload whose session is unknown is refused
without saying which id it named. The primary key of a row is named by the upload
that inserted it.

### ExtractionCore and the code

`attempts`, `selected` and `stage` are the local variables of `run`, `result` what
it returns. Each provider call has one action for an answer, one for a timeout,
one for `ProviderRequestError`; `CallRaises` is an exception `run` does not
catch. `Level[t]` says what the JSON extractor and the schema make of text `t`.
`elapsed` counts the time of the calls, each below its limit or equal to it; a
call may also raise a `TimeoutError` of its own before the limit.

### PipelineDelivery and the code

`SuccessData` and `FailureData` are `_build_success_data` and `_build_failure_data` of
the upload service, applied to a result: the extraction's columns come from the
extraction that was selected, `raw_llm_response` from a search over the attempts that
the result object makes when it is asked, and a failure without a text stores its
message. `Phase` and `Handed` map a run to the two variables of `PipelineRun`.

### Serving and the code

| State | In the code |
|---|---|
| `pc[a]` | where the request is; `connect` is the wait for a connection, before the first statement of an `AsyncSession` |
| `conn` | connections checked out of the engine's pool, named by their request |
| `stage[u]` | the call that `_run_with_timeout` awaits for upload `u` |
| `queued`, `running`, `landed` | work items of the executor, threads in `_generate_content_sync`, finished futures whose callback has not run yet |
| `provider` | `app.state.llm_provider`: `None`, without a usable key, or usable |
| `health[p]` | the overall status that a health check reported |

| Actions | In the code |
|---|---|
| `Refuse`, `Accept` | the checks of `extract_document` in their order (`Refusal`) |
| `Connect`, `PoolTimesOut` | the pool gives a connection, or `TimeoutError` after `pool_timeout` while all are out |
| `CheckHealth`, `Ping` | `get_health`: `ping_database`, then queue and provider |
| `UnknownSession`, `LookupHit`, `LookupMiss` | the service up to the pipeline |
| `Begin`, `Finish` | a thread takes a call and returns from it |
| `Resume` | the pipeline goes on with the outcome: another call, the end, an exception |
| `TimeOut` | `wait_for` at its limit: a queued call is cancelled, a running one is not |
| `Write`, `Commit` | `_persist_record`, the response, the closed session |
| `SendCached`, `CloseSession` | a cached result ends no transaction: the session is closed, and the connection returned, after the response |
| `DatabaseFails` | a failed connection, statement or commit, and the rollback |

Abstractions. Time is not counted: a call may time out at any moment after its
submission, a wait for a connection only while all are out. The queue of the
executor is a set, so that any call may be next. A write waits for every
uncommitted write of the same session and file (`FileOf`), also where PostgreSQL
would find different rows. Name lookups, which asyncio also sends to the default
executor, are left out, and so is every use of the process by others.

### GeminiClient and the code

One action per read or write of `_client` and `_sdk_types` in `_get_sdk_modules`,
because the interpreter may switch threads between any two; `want` says whether
the lookup is the first of a document call (for the types) or the one of
`_generate_content_sync` (for the client). `built` counts the calls of
`genai.Client`, `got` is what the call was given last. `Return` reads both attributes in one
step: by then both are set, and neither is ever unset.

### JsonBlock and the code

The variables are those of `extract_json_block`, one action per branch of its loop.
A character is one of the five classes the scanner tells apart. The reference is a
grammar over the positions of a text, by recursion from its end: `Inside(w)[i]` has the
positions up to which the inside of a string may reach from `i`, `Balanced(w)[i]` those
up to which a balanced part may, `Ends(w, i)` the ends of the objects that begin at
`i`. It keeps no depth and no flags, and it would allow an object several ends: that
there is one only is proved. `Unclosed`, `Around` and `InString` say in terms of the
grammar what the depth and the flags stand for.

## 3. Runs

| Run | Instance | Question |
|---|---|---|
| `sync_safety` | 4 uploads, 1 session, 2 files, 2 answers, 2 failure texts (one refused by the database), 1 fault | are what is stored and what is told consistent in every interleaving, and which uploads can mix their answers in a row? Runs `SyncHistory`, includes the inductive invariant |
| `sync_register` | 3 uploads, 2 sessions, 2 files, 2 faults | do interleaved transactions look atomic? |
| `sync_liveness` | 3 uploads, 1 session, 2 files, 1 fault, an answer that is refused | is every upload answered? |
| `core_pipeline` | limits 4 and 2, two texts of each level that a choice may confuse | what does a run return, after how long, and is it what the upload assumes? Includes the inductive invariant |
| `serving` | 3 uploads, 2 of one file, 1 health check, 2 connections, 1 thread, 1 fault | does anything leak, run for nobody, or wait for ever? Includes the inductive invariant |
| `gemini_client` | 3 threads, any number of calls | is what a thread is given complete, and how many clients are built? Includes the inductive invariant |
| `json_block` | every text of at most 6 characters | does the scanner find what the grammar says? Includes the inductive invariant |
| `sync_downgrade`, `sync_torn`, `sync_dropped`, `core_timeout`, `health_starved` | without faults | statements of the README and the tests that the code does not keep |

Why the bounds are enough. A race for a session and file needs an upload that
created the session (on another file, or on the same one to leave a FAILED row)
and two that race; the fourth reads what they leave behind. Two files let the
session exist while the raced key has no row. Two answers, one
without the nullable columns, are what a torn row needs; one fault can fall
between any two steps, two can hit two uploads or repeat after a restart. For
`ExtractionCore` a run makes at most three calls, so two texts per level are
all it can confuse.

In `serving` two connections and three uploads make requests wait for the pool, one
thread and two connected uploads make calls wait for the thread, and the two uploads
of one file wait for each other's row; the health check is the fourth that wants a
connection. A race for the client needs two threads; the third meets a pair that is
half stored. Six characters hold an object with a string that contains an escaped
quote or ends in an escaped backslash, a string inside nested objects, nested and
neighbouring objects with text around them, and every way of cutting them off.

The theorems need none of these bounds.

Uploads, files and sessions are interchangeable, hence the symmetry of the
safety runs, and so are the threads of `gemini_client`; the runs with a liveness
property use none.

Bounds by name: `MaxFaults` bounds database failures and restarts; `Request` is
finite, so the number of uploads is bounded; `PoolSize` and `Workers` are the
connections and threads, which the code leaves to the defaults of SQLAlchemy (15)
and of Python (at least 5); `MaxLength` bounds the texts of `JsonBlock`; `built` in
`GeminiClient` needs no bound because `OneClientPerWorker` holds; `ExtractionTimeout` and
`RepairTimeout` are the limits of the code, in units of time.

What the properties say, beyond the type invariants:

* `StatusMatchesDocument`: merging UPDATEs from stale snapshots column by column
  never separates `status` from the document.
* `ReloadFindsRow`: the `RuntimeError` after a conflict is unreachable.
* `RepliesNameTheStoredRecord`: all uploads of one file to one session are told
  the id of the one stored row, across failures, lost acknowledgements and restarts.
* `RepliesAreOneOutcome`: what an upload is told, unless it is a cached row, is one
  outcome and its own, although its UPDATE sets only what differs from an old
  snapshot. The row that `sync_torn` shows is seen by later uploads only.
* `OnlyOverlapsTear`: a stored row is one outcome as long as every UPDATE of it was
  applied to the row it had been computed from. It bounds what `sync_torn` shows: a
  row is torn by a lost update and by nothing else, no failure or restart included.
* `SessionsHoldRecords`: no empty session, no extraction without one.
* `RecordsPersist`: rows neither disappear nor change their id.
* `OnlyFirstRaceDowngrades`: COMPLETE becomes FAILED only by an upload that
  looked before the key's first row existed. `sync_downgrade` shows that this
  case does happen; the property bounds it.
* `SuccessIsStored`: a 200 with the upload's own extraction is only sent after a
  commit that left the row COMPLETE with that document.
* `ImplementsRegister`: every reply carries what the entry held, or received, at
  one moment of the upload's life, up to status and document.
* `EveryUploadAnswered`: nobody waits for ever on another upload's lock.
* `SelectedIsBest`, `RawBelongsToSelection`, `ParseFailureKeepsText`,
  `WithinBudget`, `Terminates`: the pipeline returns the earliest of the best
  extractions, its own raw text, the unparsable text after a parse failure, and
  ends within two extraction limits and one repair limit.
* `CallsInOrder`: no call is made twice, and none after one that timed out: while an
  abandoned request occupies a thread, its run does not ask for another.
* `ImplementsPipelineRun`: an upload is handed one outcome or an exception. A complete
  extraction comes with the text it was parsed from, a failure with a text: its
  message, or one that no extraction could be read from.
* `ConnectionsAccounted`: no path loses a connection or uses one it has returned.
* `ConnectionsReturn`: every connection comes back, although it is kept across calls that
  need never end and waits for the rows of others, and although a cached reply goes
  out before its session is closed. An answered request is not enough: `EveryRequestAnswered`
  holds also where answered requests leak connections, since the wait for one times out.
* `OneThreadPerUpload`, `QueuedCallsAreAwaited`, `ImplementsExecutor`: abandoned
  calls pile up no faster than uploads, and those still queued are never sent.
* `EveryRequestAnswered`: whatever the provider does, and although uploads hold
  a connection while they wait for a thread and for each other's rows.
* `PairIsComplete`, `OneClientPerWorker`: the unlocked initialisation never hands out
  half a pair and costs at most one client per thread.
* `FindsFirstObject`, `TruncatedGivesNothing`, `PrefixIsOpen`: the scanner returns
  the balanced object that starts at the first brace, or nothing; had the answer been
  cut off anywhere before the end of that object, there would have been none to find;
  and at every character the depth and the flags say which braces, and which string,
  are still open.

What the runs that end in a violation show:

1. `sync_downgrade`: a failing upload that lost the INSERT race overwrites the
   winner's COMPLETE row (`_persist_record` with `prefer_existing_complete=False`).
2. `sync_torn`: two uploads retrying a FAILED row both succeed; nullable columns
   of the first survive in the row of the second.
3. `sync_dropped`: `ProviderClientUnavailableError`, or an error of `json.loads`
   other than `JSONDecodeError`, leaves no row at all.
4. `core_timeout`: a timeout of the repair call is reported as not retryable.
5. `health_starved`: uploads hold their connections while they wait for the
   provider. When all are out for longer than the pool's timeout (30 s by
   default, against up to 75 s of calls), the health check reports a healthy
   database as degraded.

Each property has a mutant, listed in `PROJECT.json`: an operator that the module
introduces as a mistake the runs catch, and that no specification uses.

Fairness. `SyncExtraction`: weak fairness of `Serve(r)` for each upload. The event
loop resumes every task whose await has finished; a model call ends within its
limit (`Terminates`); PostgreSQL wakes a waiting writer when the lock is
released. Arrivals and faults are not fair. `ExtractionCore`: only the timeouts
are fair, because `wait_for` gives up at the limit; a provider need never answer.
`Serving`: weak fairness of `Serve(a)` for each request, the steps of the event loop,
its timers, the pool and the database. `Begin` and `Finish` are not fair: threads may
be stuck for ever. Nor are arrivals and faults.
A deadlock is checked for in every run: `Quiet` and `Returned` are the
only steps once everything has ended, and the threads of `GeminiClient` never end.

## 4. Proofs

For every finite or infinite set of uploads, sessions and files, any set of
answers and any number of faults; for any texts, whatever is parsed from them, and
any time limits; for any number of requests, connections and threads; for scanned texts
of any length. The assumptions are those the constants are declared with: `Full` are
answers and `Unstorable` texts, `Complete` are texts that parse, `MaxFaults` and
`MaxLength` are natural numbers, limits, connections and threads are at least one,
uploads are no health checks, `Null` is none of the values it stands in for.

| Theorem | States |
|---|---|
| `TypeCorrect` | `Spec => []TypeOK` |
| `Invariance` | `Spec => []IInv` |
| `ReloadCorrect`, `RepliesCorrect` | the two invariants about reloads and replies |
| `OneOutcomeCorrect` | the invariant about what a fresh reply holds |
| `OnlyOverlapsTearCorrect` | `HSpec => []OnlyOverlapsTear`: what can tear a stored row |
| `StatusCorrect`, `SessionsCorrect` | the two invariants about stored rows and sessions |
| `RecordsPersistCorrect`, `OnlyFirstRaceDowngradesCorrect`, `SuccessIsStoredCorrect` | the three action properties |
| `RefinesRegister` | `Spec => ImplementsRegister` |
| `CoreInvariance` | `Spec => []IInv` of `ExtractionCore` |
| `CoreTypeCorrect`, `SelectionCorrect`, `RawCorrect`, `ParseFailureCorrect`, `BudgetCorrect`, `CallsInOrderCorrect` | its safety properties |
| `RefinesPipelineRun` | `Spec => ImplementsPipelineRun`: `ExtractionCore` delivers what `SyncExtraction` assumes |
| `ServingInvariance` | `Spec => []IInv` of `Serving` |
| `ServingTypeCorrect`, `ConnectionsCorrect`, `ThreadsCorrect`, `QueueCorrect` | its safety properties |
| `ExecutorRefines` | the executor in `Serving` implements `BoundedResource` |
| `ClientInvariance`, `ClientTypeCorrect`, `PairsCorrect`, `ClientsBounded` | the invariants of `GeminiClient` |
| `ScannerInvariance`, `ScannerTypes`, `PrefixStaysOpen` | `IInv`, `TypeOK` and `PrefixIsOpen` of `JsonBlock` |
| `FirstObjectFound`, `CutOffGivesNothing` | the scanner agrees with the grammar; a proper prefix holds no object |

None of the invariants of `SyncExtraction` is inductive. `StatusMatchesDocument` says nothing of the
UPDATE already sent, so a commit could break it; `RepliesNameTheStoredRecord` says
nothing of an upload not yet answered. `IInv` adds, for each label, what an upload
knows there. `UploadOK`: while it updates or answers, its key is stored and the
object it holds has the id of that row; after its INSERT, before its commit, the
key is still free. `LocksExclusive`: two uncommitted writes never meet on a key,
which is what keeps that key free. `WriteOK`: an INSERT follows only a lookup that
found nothing; a success is written only over a FAILED snapshot, so its UPDATE
always sets `status` and `doc` together; a failure over a found row sets neither,
since the row it found was FAILED already. The last point gives
`OnlyFirstRaceDowngrades`, the one before it `SuccessIsStored`.

The proof goes in two layers, so that the second may use the first: `Typed`
(types, `UploadOK`, `LocksExclusive`), then the whole of `IInv`. Steps that change
only the acting upload's variables are reduced to a statement about that upload
by `LocalTyped` and `LocalIInv`; the commits and the restart are treated apart.
`RepliesAreOneOutcome` speaks of the acting upload alone and is inductive together
with `IInv`: `MergeOfChanges` says that setting what differs from a snapshot makes the
snapshot what was to be written.

`OnlyOverlapsTear` is an invariant of `SyncHistory`. `HistoryIsSpec` carries over
everything proved of `SyncExtraction`, because a step with memory is a step without it.
`UpdatesFromBase` says that the columns an UPDATE sets are those that differ from its
remembered base; if the base is the row, `MergeOfChanges` makes the row what the upload
had to write, which is one outcome by `RepliesAreOneOutcome` (`CommitIsWhole`).

The refinement of `ResultRegister` names, for each step, the step of the register it is
(`AbstractHit`, `AbstractStore`, ...): answers take effect at the commit, or at the
read that found a COMPLETE row.

`ExtractionCore`: the properties speak of the result, so `InHand` says what a run has
while a call is under way: before a repair one text that nothing is parsed from,
before a retry the LOW extraction of the last attempt. One lemma for each way a
run ends (`SuccessHolds`, `FailureHolds`) takes the index of the attempt in question;
`GreatestIndex` is the backward search. For the refinement of `PipelineRun`, a success
hands over data that belong together by `SelectedIsBest` and `RawBelongsToSelection`;
for a failure `FailureKeepsNoAnswer` goes through the ways to fail and finds the text, or
that there is none.

`Serving`: connections follow the label of their request, one action at a time. For
the executor, `ExecutorOK` adds to the properties that a call is queued, running or
landed but never two of them, that a running call is the awaited one if its upload
awaits any, and that an upload before its first call has none. A new call therefore
finds none of its upload in the executor: at the lookup there was none, at a
resumption the one before has left it. The refinement gives each action as one
step of `BoundedResource` or none.

`GeminiClient`: `ThreadOK` says what a thread knows at each line: once it has stored
both attributes neither is ever unset, so that it cannot come to `import` again.

`JsonBlock`: the reference is recursive, and the induction theorems of the library
cannot be used, since they take an operator as a parameter. What is used instead is that
the natural numbers are well-founded: a set of positions that breaks a claim has a
greatest element (`Greatest`, `FromTheEndInduction`), and the claim holds at that
element because it holds after it. `FromTheEnd` and `Solution` show in the same way that
the recursive functions satisfy their equations (`InsideDef`, `BalancedDef`).

About the grammar the proof needs that it is deterministic: a string ends in one place
(`StringEndsOnce`), what follows a balanced part of a balanced text is balanced
(`BalancedRest`), two balanced parts in a row are balanced (`BalancedJoin`), and a prefix
has the strings and balanced parts of the text that end within it (`PrefixInside`,
`PrefixBalanced`, `PrefixEnds`).

`PrefixIsOpen` is the loop invariant: `depth` braces surround the character to be read,
the first one outermost, none of them closed before it. Without that last part it
would not be inductive: a chain of braces one of which was closed earlier satisfies the
rest, and the closing brace read at depth one need not be the first to close the first
brace. With it, `InnermostCloses` and `StaysOpen` say what a closing brace closes, and
what stays open; each kind of character has its lemma (`ReadOpen`, `ReadClose`,
`ReadQuote`, `ReadString`, ...). When the text ends with the prefix open, nothing
closes the first brace, which gives `FirstObjectFound`. For `CutOffGivesNothing`, an object
in a prefix would be an object of the text that ends earlier (`PrefixEnds`), but the
scanner returns the first.

Only model-checked: the four liveness properties `EveryUploadAnswered`, `Terminates`,
`EveryRequestAnswered` and `ConnectionsReturn`. Fairness and leads-to are out of the prover's reach. The runs
that end in a violation have no theorem: what they state is false of the code.

## 5. Not modelled

* Column contents, prompts, document preparation, hashing, date parsing, response
  fields, settings: data without control. One of their hazards is listed in
  `PROJECT.json` without a property: a cached extraction keeps the `isExpired` of the
  day it was made.
* Jobs and validations, `session_scope`, `ExtractionRepo.create`: no route reaches
  them at this commit. The queue manager holds a queue that nobody puts into.
* Schema and migrations: one declarative script in one transaction. The unique key
  and the foreign key it creates are used by `SyncExtraction`.
* Shutdown: the server drains its requests before the lifespan hook goes on, the
  provider has nothing to close, and nothing reads the queue manager afterwards. A
  crash is modelled (`Restart` in `SyncExtraction`).
* The lazy singletons of `app/db/base.py`: no await lies between check and
  assignment, and only the event loop's thread calls them.
* Seconds. `WithinBudget` counts units within one run; how the waits of several
  requests add up against the timeout of the pool is not counted.

## 6. Plan

1. Done: `ResultRegister`, `SyncExtraction`, `SyncHistory` and their proofs;
   `ExtractionCore` and its proofs, and its refinement of the pipeline that
   `SyncExtraction` assumes; `CallOrder`, `BoundedResource`, `Serving` and their proofs;
   `GeminiClient` and its proofs; `JsonBlock` and its proofs.
2. `SyncExtraction` against a register that also keeps the nullable columns, exact for
   the keys where no update was lost.
3. When asynchronous extraction arrives: the queue at its limit, jobs, a worker that
   crashes between two steps of a job.

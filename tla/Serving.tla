------------------------------ MODULE Serving -------------------------------
(***************************************************************************)
(* One process serving uploads and health checks: the connections of the   *)
(* engine's pool, the threads of the event loop's default executor, and    *)
(* who holds which of them for how long.                                   *)
(*                                                                         *)
(* What an upload reads and writes is in SyncExtraction, what it makes of  *)
(* the answers in ExtractionCore; here an upload is its path through the   *)
(* resources.  A call is the pair of an upload and a stage; which stage    *)
(* follows which is in CallOrder, and CallsInOrder shows that the pipeline *)
(* keeps to it.  A call whose upload has given up runs on: wait_for        *)
(* cancels the await, not the thread.                                      *)
(***************************************************************************)
EXTENDS Naturals, FiniteSets, CallOrder

CONSTANTS
    Upload,     \* POST /extract requests
    Probe,      \* GET /health requests
    FileOf,     \* the session and file that an upload writes
    PoolSize,   \* pool_size + max_overflow of the engine
    Workers,    \* threads of the default executor
    MaxFaults,  \* bound on database failures
    Null

Actor == Upload \cup Probe
Call  == Upload \X Stage

Label == {"new", "connect", "lookup", "call", "persist", "commit", "replay",
          "unwind", "ping", "done"}

\* Where a connection is in use: from the first statement to the end of the
\* transaction, which for a cached result is the closing of the session, after
\* the response has been sent.
Connected == {"lookup", "call", "persist", "commit", "replay", "unwind", "ping"}

\* app.state.llm_provider: not built, built without a usable key, or usable.
Provider == {"none", "unready", "ready"}

ASSUME ActorAssumption == Upload \cap Probe = {}
ASSUME PoolAssumption  == PoolSize \in Nat \ {0} /\ Workers \in Nat \ {0}
ASSUME BoundAssumption == MaxFaults \in Nat
ASSUME NullAssumption  == Null \notin Stage \cup {"OK", "DEGRADED"}

VARIABLES
    pc,        \* where each request is
    stage,     \* the provider call an upload is at
    conn,      \* requests with a connection checked out
    queued,    \* calls submitted to the executor
    running,   \* calls that occupy a thread
    landed,    \* calls whose outcome the event loop has not yet handed over
    provider,
    health,    \* what each health check reported
    faults     \* database failures so far

calls == <<queued, running, landed>>
vars  == <<pc, stage, conn, queued, running, landed, provider, health, faults>>

-----------------------------------------------------------------------------
(* The checks of a request that precede the service, in their order.       *)

MaxUpload == 10 * 1024 * 1024

\* None is no sessionId at all.
Form == [mode : {"sync", "async"}, file : BOOLEAN, type : {"allowed", "other"},
         size : {0, 1, MaxUpload, MaxUpload + 1}, id : {"none", "uuid", "junk"}]

Refusal(q) ==
    CASE q.mode # "sync"      -> "UNSUPPORTED_MODE"
      [] ~q.file              -> "MISSING_FILE"
      [] q.type # "allowed"   -> "UNSUPPORTED_FORMAT"
      [] q.size = 0           -> "EMPTY_FILE"
      [] q.size > MaxUpload   -> "FILE_TOO_LARGE"
      [] q.id = "junk"        -> "INVALID_SESSION_ID"
      [] OTHER                -> "NONE"

Refused  == {q \in Form : Refusal(q) # "NONE"}
Accepted == Form \ Refused

-----------------------------------------------------------------------------
Init ==
    /\ pc       = [a \in Actor |-> "new"]
    /\ stage    = [u \in Upload |-> Null]
    /\ conn     = {}
    /\ queued   = {}
    /\ running  = {}
    /\ landed   = {}
    /\ provider \in Provider
    /\ health   = [p \in Probe |-> Null]
    /\ faults   = 0

Goto(a, l) == pc' = [pc EXCEPT ![a] = l]

Release(a) == conn' = conn \ {a}

\* close, rollback and commit give the connection back; the response follows.
Answer(a) == Goto(a, "done") /\ Release(a)

Report(p, status) ==
    /\ health' = [health EXCEPT ![p] = status]
    /\ Answer(p)

Submit(u, s) ==
    /\ stage'  = [stage EXCEPT ![u] = s]
    /\ queued' = queued \cup {<<u, s>>}
    /\ Goto(u, "call")

\* The run is over: its upload goes on to l.
Leave(u, l) ==
    /\ stage' = [stage EXCEPT ![u] = Null]
    /\ Goto(u, l)

\* Does the upload still await this call?
Awaited(c) == stage[c[1]] = c[2]

-----------------------------------------------------------------------------
(* Mistakes in the actions below; the runs show that each is caught.       *)

\* The status of the provider is passed on as it is.
PingReportsProvider(p) ==
    /\ pc[p] = "ping"
    /\ Report(p, provider)
    /\ UNCHANGED <<stage, calls, provider, faults>>

\* A failed statement is answered without a rollback.
DatabaseFailsHolding(a) ==
    /\ faults < MaxFaults
    /\ pc[a] \in {"connect", "lookup", "persist", "commit", "ping"}
    /\ faults' = faults + 1
    /\ Goto(a, "done")
    /\ UNCHANGED <<conn, health, stage, calls, provider>>

\* A thread for every call.
BeginAtOnce(c) ==
    /\ c \in queued
    /\ queued'  = queued \ {c}
    /\ running' = running \cup {c}
    /\ UNCHANGED <<pc, stage, conn, landed, provider, health, faults>>

\* A timeout is treated like an answer that cannot be parsed.
TimeOutRepairs(u) ==
    /\ pc[u] = "call"
    /\ landed' = landed \ {<<u, stage[u]>>}
    /\ IF stage[u] = "initial"
         THEN /\ stage'  = [stage EXCEPT ![u] = "repair"]
              /\ queued' = (queued \ {<<u, stage[u]>>}) \cup {<<u, "repair">>}
              /\ UNCHANGED pc
         ELSE /\ queued' = queued \ {<<u, stage[u]>>}
              /\ Leave(u, "persist")
    /\ UNCHANGED <<conn, running, provider, health, faults>>

\* The dependency hands out its session and forgets to close it.
CloseSessionForgotten(u) ==
    /\ pc[u] = "unwind"
    /\ Goto(u, "done")
    /\ UNCHANGED <<stage, conn, calls, provider, health, faults>>

\* The call is left in the queue when its upload gives up.
TimeOutLeavesQueued(u) ==
    /\ pc[u] = "call"
    /\ landed' = landed \ {<<u, stage[u]>>}
    /\ Leave(u, "persist")
    /\ UNCHANGED <<conn, queued, running, provider, health, faults>>

\* The time limit is counted from the moment a thread takes the call.
TimeOutRunningOnly(u) ==
    /\ pc[u] = "call"
    /\ <<u, stage[u]>> \notin queued
    /\ landed' = landed \ {<<u, stage[u]>>}
    /\ Leave(u, "persist")
    /\ UNCHANGED <<conn, queued, running, provider, health, faults>>

-----------------------------------------------------------------------------
(* Requests.                                                               *)

Refuse(u) ==
    /\ pc[u] = "new"
    /\ Refused # {}
    /\ Goto(u, "done")
    /\ UNCHANGED <<stage, conn, calls, provider, health, faults>>

\* The AsyncSession takes no connection until its first statement.
Accept(u) ==
    /\ pc[u] = "new"
    /\ Accepted # {}
    /\ Goto(u, "connect")
    /\ UNCHANGED <<stage, conn, calls, provider, health, faults>>

CheckHealth(p) ==
    /\ pc[p] = "new"
    /\ Goto(p, "connect")
    /\ UNCHANGED <<stage, conn, calls, provider, health, faults>>

Connect(a) ==
    /\ pc[a] = "connect"
    /\ Cardinality(conn) < PoolSize
    /\ conn' = conn \cup {a}
    /\ Goto(a, IF a \in Upload THEN "lookup" ELSE "ping")
    /\ UNCHANGED <<stage, calls, provider, health, faults>>

\* No connection came free within the pool's timeout: an upload ends with an
\* exception, a health check reports the database.
PoolTimesOut(a) ==
    /\ pc[a] = "connect"
    /\ Cardinality(conn) = PoolSize
    /\ \/ a \in Probe /\ Report(a, "DEGRADED")
       \/ a \in Upload /\ Answer(a) /\ UNCHANGED health
    /\ UNCHANGED <<stage, calls, provider, faults>>

Ping(p) ==
    /\ pc[p] = "ping"
    /\ Report(p, IF provider = "ready" THEN "OK" ELSE "DEGRADED")
    /\ UNCHANGED <<stage, calls, provider, faults>>

UnknownSession(u) ==
    /\ pc[u] = "lookup"
    /\ Answer(u)
    /\ UNCHANGED <<stage, calls, provider, health, faults>>

\* A cached result is returned without a commit: the connection stays out.
LookupHit(u) ==
    /\ pc[u] = "lookup"
    /\ Goto(u, "replay")
    /\ UNCHANGED <<stage, conn, calls, provider, health, faults>>

LookupMiss(u) ==
    /\ pc[u] = "lookup"
    /\ IF provider = "none"
         THEN Goto(u, "persist") /\ UNCHANGED <<stage, queued>>
         ELSE Submit(u, "initial")
    /\ UNCHANGED <<conn, running, landed, provider, health, faults>>

-----------------------------------------------------------------------------
(* Provider calls: the executor, and the upload that awaits it.            *)

Begin(c) ==
    /\ c \in queued
    /\ Cardinality(running) < Workers
    /\ queued'  = queued \ {c}
    /\ running' = running \cup {c}
    /\ UNCHANGED <<pc, stage, conn, landed, provider, health, faults>>

\* The late answer to a call that was given up is dropped.
Finish(c) ==
    /\ c \in running
    /\ running' = running \ {c}
    /\ landed'  = IF Awaited(c) THEN landed \cup {c} ELSE landed
    /\ UNCHANGED <<pc, stage, conn, queued, provider, health, faults>>

\* The outcome is handed to the upload: another call, the end of the run, or an
\* exception that nothing translates.
Resume(u) ==
    /\ pc[u] = "call"
    /\ <<u, stage[u]>> \in landed
    /\ landed' = landed \ {<<u, stage[u]>>}
    /\ \/ /\ \E s \in After(stage[u]) : Submit(u, s)
          /\ UNCHANGED conn
       \/ Leave(u, "persist") /\ UNCHANGED <<conn, queued>>
       \/ Leave(u, "done") /\ Release(u) /\ UNCHANGED queued
    /\ UNCHANGED <<running, provider, health, faults>>

\* The limit runs from the submission.  A call still queued is cancelled, one
\* that runs keeps its thread, an outcome that has just landed is lost; the run
\* ends, whatever the stage, and what it has is stored.
TimeOut(u) ==
    /\ pc[u] = "call"
    /\ queued' = queued \ {<<u, stage[u]>>}
    /\ landed' = landed \ {<<u, stage[u]>>}
    /\ Leave(u, "persist")
    /\ UNCHANGED <<conn, running, provider, health, faults>>

-----------------------------------------------------------------------------
(* Storing the outcome and answering.                                      *)

\* The write waits for an uncommitted write of the same session and file.
Write(u) ==
    /\ pc[u] = "persist"
    /\ \A v \in Upload : pc[v] = "commit" => FileOf[v] # FileOf[u]
    /\ Goto(u, "commit")
    /\ UNCHANGED <<stage, conn, calls, provider, health, faults>>

Commit(u) ==
    /\ pc[u] = "commit"
    /\ Answer(u)
    /\ UNCHANGED <<stage, calls, provider, health, faults>>

SendCached(u) ==
    /\ pc[u] = "replay"
    /\ Goto(u, "unwind")
    /\ UNCHANGED <<stage, conn, calls, provider, health, faults>>

\* get_db_session closes the session once the response has been sent.
CloseSession(u) ==
    /\ pc[u] = "unwind"
    /\ Goto(u, "done")
    /\ Release(u)
    /\ UNCHANGED <<stage, calls, provider, health, faults>>

\* A connection cannot be made or breaks, or a statement or the commit fails.
DatabaseFails(a) ==
    /\ faults < MaxFaults
    /\ pc[a] \in {"connect", "lookup", "persist", "commit", "ping"}
    /\ faults' = faults + 1
    /\ \/ a \in Probe /\ Report(a, "DEGRADED")
       \/ a \in Upload /\ Answer(a) /\ UNCHANGED health
    /\ UNCHANGED <<stage, calls, provider>>

Arrive(a) == \/ a \in Upload /\ (Refuse(a) \/ Accept(a))
             \/ a \in Probe /\ CheckHealth(a)

\* The steps the event loop, the timers and the database take for a request.
Serve(a) ==
    \/ Connect(a) \/ PoolTimesOut(a)
    \/ a \in Probe /\ Ping(a)
    \/ /\ a \in Upload
       /\ \/ UnknownSession(a) \/ LookupHit(a) \/ LookupMiss(a)
          \/ Resume(a) \/ TimeOut(a)
          \/ Write(a) \/ Commit(a)
          \/ SendCached(a) \/ CloseSession(a)

Quiet == /\ \A a \in Actor : pc[a] = "done"
         /\ running = {}
         /\ UNCHANGED vars

Next == \/ \E a \in Actor : Arrive(a) \/ Serve(a) \/ DatabaseFails(a)
        \/ \E c \in Call : Begin(c) \/ Finish(c)
        \/ Quiet

Spec == Init /\ [][Next]_vars

\* Nothing is assumed of the threads: a provider may never answer.
FairSpec == Spec /\ \A a \in Actor : WF_vars(Serve(a))

-----------------------------------------------------------------------------
(* Properties.                                                             *)

\* Every variable stays in its domain.
TypeOK ==
    /\ pc       \in [Actor -> Label]
    /\ stage    \in [Upload -> Stage \cup {Null}]
    /\ conn     \subseteq Actor
    /\ queued   \subseteq Call
    /\ running  \subseteq Call
    /\ landed   \subseteq Call
    /\ provider \in Provider
    /\ health   \in [Probe -> {"OK", "DEGRADED", Null}]
    /\ faults   \in 0..MaxFaults

\* No path loses a connection or uses one it has given back: an unknown
\* session, a cached result, a timeout, an exception and a failed statement all
\* end with the connection in the pool, the cached result only after its reply.
ConnectionsAccounted == conn = {a \in Actor : pc[a] \in Connected}

\* An upload has at most one call in the executor, over all its stages and also
\* after it has been answered: slow answers pile up no faster than uploads do.
OneThreadPerUpload ==
    \A c, d \in queued \cup running \cup landed : c[1] = d[1] => c = d

\* A thread is only ever given to a call whose upload still waits for it: calls
\* that were given up while queued are never sent to the provider.
QueuedCallsAreAwaited == \A c \in queued \cup landed : Awaited(c)

\* Why: a call is submitted by an upload that has none in the executor yet or
\* whose last one has just been handed over; it is queued, running or landed,
\* never two of them; and while its upload waits, it is the one it waits for.
ExecutorOK ==
    /\ QueuedCallsAreAwaited
    /\ \A c \in running : stage[c[1]] # Null => Awaited(c)
    /\ \A c, d \in running : c[1] = d[1] => c = d
    /\ \A c \in queued \cup running \cup landed :
          pc[c[1]] \notin {"new", "connect", "lookup"}
    /\ queued \cap running = {} /\ landed \cap (queued \cup running) = {}
    /\ \A u \in Upload : pc[u] = "call" <=> stage[u] # Null

\* The inductive invariant of the proofs.
IInv == TypeOK /\ ConnectionsAccounted /\ ExecutorOK

\* Every request is answered, whatever the provider does and although uploads
\* wait for connections, threads and each other's uncommitted rows.
EveryRequestAnswered == \A a \in Actor : pc[a] # "new" ~> pc[a] = "done"

\* Whoever has a connection gives it back, although it keeps it while it waits for
\* a provider that may never answer, for threads that others may occupy for ever, and
\* for the rows of other uploads, and although a cached reply goes out before its
\* session is closed: the pool does not run dry.
ConnectionsReturn == \A a \in Actor : a \in conn ~> a \notin conn

\* The executor as seen by all uploads together is a bounded resource.
Executor == INSTANCE BoundedResource WITH
                Client <- Call, Limit <- Workers,
                waiting <- queued, holding <- running

\* Threads: the refinement by the default executor.
ImplementsExecutor == Executor!Spec

\* "200 OK when database, queue, and configured LLM provider are healthy": with
\* a usable provider and a database that has not failed, health checks say OK.
HealthyMeansOK ==
    provider = "ready" /\ faults = 0 => \A p \in Probe : health[p] # "DEGRADED"
=============================================================================

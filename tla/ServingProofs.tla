---------------------------- MODULE ServingProofs ---------------------------
(* Connections and threads, for any number of requests, connections and     *)
(* threads.                                                                 *)
EXTENDS Serving, TLAPS

\* The steps of one request.
Act(a) == Arrive(a) \/ Serve(a) \/ DatabaseFails(a)

-----------------------------------------------------------------------------
(* Types and connections: each action moves its request and its connection  *)
(* together.                                                                *)

LEMMA ActAccounted ==
    ASSUME TypeOK, ConnectionsAccounted, NEW a \in Actor, Act(a)
    PROVE  TypeOK' /\ ConnectionsAccounted'
<1> USE ActorAssumption, BoundAssumption
<1> USE DEF TypeOK, ConnectionsAccounted, Connected, Actor, Label, Call, Stage, calls,
            Goto, Release, Answer, Report, Submit, Leave
<1>1. CASE a \in Upload /\ (Refuse(a) \/ Accept(a)) BY <1>1 DEF Refuse, Accept
<1>2. CASE a \in Probe /\ CheckHealth(a) BY <1>2 DEF CheckHealth
<1>3. CASE Connect(a) BY <1>3 DEF Connect
<1>4. CASE PoolTimesOut(a) BY <1>4 DEF PoolTimesOut
<1>5. CASE a \in Probe /\ Ping(a) BY <1>5 DEF Ping
<1>6. CASE a \in Upload /\ UnknownSession(a) BY <1>6 DEF UnknownSession
<1>7. CASE a \in Upload /\ LookupHit(a) BY <1>7 DEF LookupHit
<1>8. CASE a \in Upload /\ LookupMiss(a) BY <1>8 DEF LookupMiss
<1>9. CASE a \in Upload /\ Resume(a) BY <1>9 DEF Resume, After
<1>10. CASE a \in Upload /\ TimeOut(a) BY <1>10 DEF TimeOut
<1>11. CASE a \in Upload /\ Write(a) BY <1>11 DEF Write
<1>12. CASE a \in Upload /\ Commit(a) BY <1>12 DEF Commit
<1>13. CASE a \in Upload /\ SendCached(a) BY <1>13 DEF SendCached
<1>14. CASE a \in Upload /\ CloseSession(a) BY <1>14 DEF CloseSession
<1>15. CASE DatabaseFails(a) BY <1>15 DEF DatabaseFails
<1> QED BY <1>1, <1>2, <1>3, <1>4, <1>5, <1>6, <1>7, <1>8, <1>9, <1>10, <1>11, <1>12,
           <1>13, <1>14, <1>15 DEF Act, Arrive, Serve

LEMMA ThreadAccounted ==
    ASSUME TypeOK, ConnectionsAccounted, NEW c \in Call, Begin(c) \/ Finish(c)
    PROVE  TypeOK' /\ ConnectionsAccounted'
BY DEF TypeOK, ConnectionsAccounted, Begin, Finish

-----------------------------------------------------------------------------
(* The executor.                                                           *)

\* A request that moves without touching a call disturbs no other one.
LEMMA Aside ==
    ASSUME TypeOK, ExecutorOK, NEW a \in Actor, NEW l \in Label,
           Goto(a, l), UNCHANGED <<stage, queued, running, landed>>,
           pc[a] # "call", l # "call",
           l \in {"new", "connect", "lookup"} => pc[a] \in {"new", "connect", "lookup"}
    PROVE  ExecutorOK'
<1> USE DEF TypeOK, Goto, Actor, Call
<1>1. QueuedCallsAreAwaited' /\ (\A c \in running : stage[c[1]] # Null => Awaited(c))'
  BY DEF ExecutorOK, QueuedCallsAreAwaited, Awaited
<1>2. (\A c \in queued \cup running \cup landed :
          pc[c[1]] \notin {"new", "connect", "lookup"})'
  BY DEF ExecutorOK
<1>3. (\A u \in Upload : pc[u] = "call" <=> stage[u] # Null)'
  BY DEF ExecutorOK
<1> QED BY <1>1, <1>2, <1>3 DEF ExecutorOK

\* A new call finds none of its upload in the executor.
LEMMA MissSubmits ==
    ASSUME TypeOK, ExecutorOK, NEW u \in Upload, LookupMiss(u)
    PROVE  ExecutorOK'
<1> USE DEF TypeOK, Actor, Label, Call, Stage, Goto
<1>1. CASE provider = "none"
  BY <1>1, Aside DEF LookupMiss
<1>2. CASE provider # "none"
  <2> USE <1>2, NullAssumption DEF LookupMiss, Submit, ExecutorOK
  <2>1. \A c \in queued \cup running \cup landed : c[1] # u
    OBVIOUS
  <2>2. QueuedCallsAreAwaited'
    BY <2>1 DEF QueuedCallsAreAwaited, Awaited
  <2>3. (\A c \in running : stage[c[1]] # Null => Awaited(c))'
    BY <2>1 DEF Awaited
  <2>4. (\A c \in queued \cup running \cup landed :
            pc[c[1]] \notin {"new", "connect", "lookup"})'
    BY <2>1
  <2>5. (queued \cap running = {} /\ landed \cap (queued \cup running) = {})'
    BY <2>1
  <2>6. (\A v \in Upload : pc[v] = "call" <=> stage[v] # Null)'
    OBVIOUS
  <2> QED BY <2>2, <2>3, <2>4, <2>5, <2>6
<1> QED BY <1>1, <1>2

\* An upload that leaves the run, by an outcome or by the time limit, leaves
\* nothing in the queue.
LEMMA RunEnds ==
    ASSUME TypeOK, ExecutorOK, NEW u \in Upload, NEW l \in {"persist", "done"},
           pc[u] = "call", Leave(u, l),
           queued' = queued \ {<<u, stage[u]>>}, landed' = landed \ {<<u, stage[u]>>},
           UNCHANGED running
    PROVE  ExecutorOK'
<1> USE NullAssumption DEF TypeOK, Actor, Label, Call, Stage, Goto, Leave, ExecutorOK
<1>1. \A c \in queued' \cup landed' : c[1] # u
  BY DEF QueuedCallsAreAwaited, Awaited
<1>2. QueuedCallsAreAwaited'
  BY <1>1 DEF QueuedCallsAreAwaited, Awaited
<1>3. (\A c \in running : stage[c[1]] # Null => Awaited(c))'
  BY DEF Awaited
<1>4. (\A v \in Upload : pc[v] = "call" <=> stage[v] # Null)'
  OBVIOUS
<1> QED BY <1>2, <1>3, <1>4

\* An outcome is handed over, and another call may follow: the one before has
\* left the executor.
LEMMA ResumeStep ==
    ASSUME TypeOK, ExecutorOK, NEW u \in Upload, Resume(u)
    PROVE  ExecutorOK'
<1> USE NullAssumption DEF TypeOK, Actor, Label, Call, Stage
<1> DEFINE c == <<u, stage[u]>>
<1>1. pc[u] = "call" /\ c \in landed /\ c \notin queued /\ landed' = landed \ {c}
      /\ UNCHANGED running
  BY DEF Resume, ExecutorOK
<1>2. CASE \E l \in {"persist", "done"} : Leave(u, l) /\ UNCHANGED queued
  <2>1. queued' = queued \ {c}
    BY <1>1, <1>2
  <2> QED BY <1>1, <1>2, <2>1, RunEnds
<1>3. ASSUME NEW s \in After(stage[u]), Submit(u, s) PROVE ExecutorOK'
  <2> USE <1>1, <1>3 DEF Submit, Goto, ExecutorOK
  <2>1. s \in Stage /\ s # stage[u]
    BY DEF After
  <2>2. \A d \in queued \cup running \cup landed' : d[1] # u
    BY DEF QueuedCallsAreAwaited, Awaited
  <2>3. QueuedCallsAreAwaited'
    BY <2>1, <2>2 DEF QueuedCallsAreAwaited, Awaited
  <2>4. (\A d \in running : stage[d[1]] # Null => Awaited(d))'
    BY <2>2 DEF Awaited
  <2>5. (\A d \in queued \cup running \cup landed :
            pc[d[1]] \notin {"new", "connect", "lookup"})'
    BY <2>2
  <2>6. (queued \cap running = {} /\ landed \cap (queued \cup running) = {})'
    BY <2>2
  <2>7. (\A v \in Upload : pc[v] = "call" <=> stage[v] # Null)'
    BY <2>1
  <2> QED BY <2>3, <2>4, <2>5, <2>6, <2>7
<1> QED BY <1>1, <1>2, <1>3 DEF Resume

\* The steps of a request, whichever it is.
LEMMA ActKeepsExecutor ==
    ASSUME TypeOK, ExecutorOK, NEW a \in Actor, Act(a)
    PROVE  ExecutorOK'
<1> DEFINE Moves(l) == Goto(a, l) /\ UNCHANGED <<stage, queued, running, landed>>
<1>1. CASE pc[a] = "new" /\ (Moves("done") \/ Moves("connect"))
  BY <1>1, Aside DEF Label
<1>2. CASE pc[a] = "connect" /\ (Moves("lookup") \/ Moves("ping") \/ Moves("done"))
  BY <1>2, Aside DEF Label
<1>3. CASE pc[a] \in {"lookup", "persist", "commit", "replay", "unwind", "ping"}
           /\ (Moves("done") \/ Moves("replay") \/ Moves("commit") \/ Moves("unwind"))
  BY <1>3, Aside DEF Label
<1>4. CASE a \in Upload /\ LookupMiss(a) BY <1>4, MissSubmits
<1>5. CASE a \in Upload /\ Resume(a) BY <1>5, ResumeStep
<1>6. CASE a \in Upload /\ TimeOut(a) BY <1>6, RunEnds DEF TimeOut
<1>7. CASE Arrive(a)
  BY <1>1, <1>7 DEF Arrive, Refuse, Accept, CheckHealth, calls
<1>8. CASE Connect(a) \/ PoolTimesOut(a)
  BY <1>2, <1>8 DEF Connect, PoolTimesOut, Report, Answer, calls
<1>9. CASE \/ a \in Probe /\ Ping(a)
           \/ a \in Upload /\ (\/ UnknownSession(a) \/ LookupHit(a) \/ Write(a)
                               \/ Commit(a) \/ SendCached(a) \/ CloseSession(a))
  BY <1>3, <1>9 DEF Ping, UnknownSession, LookupHit, Write, Commit, SendCached,
                    CloseSession, Report, Answer, calls
<1>10. CASE DatabaseFails(a)
  BY <1>2, <1>3, <1>10 DEF DatabaseFails, Report, Answer, calls
<1> QED BY <1>4, <1>5, <1>6, <1>7, <1>8, <1>9, <1>10 DEF Act, Serve

LEMMA BeginKeepsExecutor ==
    ASSUME TypeOK, ExecutorOK, NEW c \in Call, Begin(c)
    PROVE  ExecutorOK'
<1> USE DEF TypeOK, Call, Begin, ExecutorOK, QueuedCallsAreAwaited, Awaited
<1>1. \A d \in running : d[1] # c[1]
  BY NullAssumption DEF Stage
<1> QED BY <1>1

LEMMA FinishKeepsExecutor ==
    ASSUME TypeOK, ExecutorOK, NEW c \in Call, Finish(c)
    PROVE  ExecutorOK'
<1> USE DEF TypeOK, Call, Finish, ExecutorOK
<1>1. QueuedCallsAreAwaited'
  BY DEF QueuedCallsAreAwaited, Awaited
<1>2. (\A d \in running : stage[d[1]] # Null => Awaited(d))'
  BY DEF Awaited
<1> QED BY <1>1, <1>2

-----------------------------------------------------------------------------
(* The theorems.                                                           *)

LEMMA NextKeepsInvariant == IInv /\ [Next]_vars => IInv'
<1> SUFFICES ASSUME IInv, [Next]_vars PROVE IInv'
  OBVIOUS
<1> USE DEF IInv
<1>1. ASSUME NEW a \in Actor, Act(a) PROVE IInv'
  BY <1>1, ActAccounted, ActKeepsExecutor
<1>2. ASSUME NEW c \in Call, Begin(c) \/ Finish(c) PROVE IInv'
  BY <1>2, ThreadAccounted, BeginKeepsExecutor, FinishKeepsExecutor
<1>3. CASE UNCHANGED vars
  BY <1>3 DEF vars, calls, TypeOK, ConnectionsAccounted, ExecutorOK,
              QueuedCallsAreAwaited, Awaited
<1> QED BY <1>1, <1>2, <1>3 DEF Next, Quiet, Act

\* The inductive invariant holds in every state: types, connections, executor.
THEOREM ServingInvariance == Spec => []IInv
<1>1. Init => IInv
  <2> SUFFICES ASSUME Init PROVE IInv
    OBVIOUS
  <2> USE BoundAssumption DEF Init
  <2>1. TypeOK
    BY DEF TypeOK, Label
  <2>2. ConnectionsAccounted
    BY DEF ConnectionsAccounted, Connected
  <2>3. ExecutorOK
    BY DEF ExecutorOK, QueuedCallsAreAwaited, Actor
  <2> QED BY <2>1, <2>2, <2>3 DEF IInv
<1> QED BY <1>1, NextKeepsInvariant, PTL DEF Spec

\* Every variable stays in its domain.
THEOREM ServingTypeCorrect == Spec => []TypeOK
<1>1. IInv => TypeOK
  BY DEF IInv
<1> QED BY <1>1, ServingInvariance, PTL

\* No path of a request loses its connection or gives it back early.
THEOREM ConnectionsCorrect == Spec => []ConnectionsAccounted
<1>1. IInv => ConnectionsAccounted
  BY DEF IInv
<1> QED BY <1>1, ServingInvariance, PTL

\* An upload never has two calls in the executor, however many stages it goes
\* through and however late the provider answers.
THEOREM ThreadsCorrect == Spec => []OneThreadPerUpload
<1>1. IInv => OneThreadPerUpload
  BY NullAssumption DEF IInv, TypeOK, ExecutorOK, OneThreadPerUpload,
                        QueuedCallsAreAwaited, Awaited, Call
<1> QED BY <1>1, ServingInvariance, PTL

\* No thread takes a call that nobody waits for any more.
THEOREM QueueCorrect == Spec => []QueuedCallsAreAwaited
<1>1. IInv => QueuedCallsAreAwaited
  BY DEF IInv, ExecutorOK
<1> QED BY <1>1, ServingInvariance, PTL

-----------------------------------------------------------------------------
(* Refinement: the executor.                                               *)

\* The abstract module counts as this one does.
LEMMA ExecutorCounts == \A S : Executor!Cardinality(S) = Cardinality(S)
BY DEF Executor!Cardinality, Cardinality

LEMMA ExecutorStep ==
    ASSUME IInv, NEW u \in Upload, LookupMiss(u) \/ Resume(u) \/ TimeOut(u)
    PROVE  [Executor!Next]_Executor!vars
<1>0. TypeOK /\ ExecutorOK
  BY DEF IInv
<1>1. ASSUME NEW s \in Stage, Submit(u, s), <<u, s>> \notin queued \cup running,
             UNCHANGED running
      PROVE  Executor!Next
  <2>1. <<u, s>> \in Call
    BY DEF Call
  <2> QED BY <1>1, <2>1 DEF Submit, Executor!Request, Executor!Next
<1>2. CASE LookupMiss(u)
  <2>1. \A s \in Stage : <<u, s>> \notin queued \cup running
    BY <1>0, <1>2 DEF LookupMiss, ExecutorOK
  <2>2. "initial" \in Stage
    BY DEF Stage
  <2> QED BY <1>1, <1>2, <2>1, <2>2 DEF LookupMiss, Executor!vars
<1>3. CASE Resume(u)
  <2> DEFINE c == <<u, stage[u]>>
  <2>1. c \in landed /\ c \notin queued \cup running /\ UNCHANGED running
    BY <1>0, <1>3 DEF Resume, ExecutorOK
  <2>2. ASSUME NEW s \in After(stage[u]) PROVE s \in Stage /\ <<u, s>> \notin queued \cup running
    <3>1. stage[u] \in Stage
      BY <1>0, <1>3 DEF Resume, TypeOK, ExecutorOK
    <3>2. s \in Stage /\ s # stage[u]
      BY <3>1 DEF After, Stage
    <3> QED BY <1>0, <1>3, <3>2 DEF Resume, ExecutorOK, QueuedCallsAreAwaited, Awaited
  <2> QED BY <1>1, <1>3, <2>1, <2>2 DEF Resume, Executor!vars
<1>4. CASE TimeOut(u)
  <2> DEFINE c == <<u, stage[u]>>
  <2>1. CASE c \in queued
    <3>1. c \in Call
      BY <1>0, <2>1 DEF TypeOK
    <3> QED BY <1>4, <2>1, <3>1 DEF TimeOut, Executor!GiveUp, Executor!Next
  <2>2. CASE c \notin queued
    BY <1>4, <2>2 DEF TimeOut, Executor!vars
  <2> QED BY <2>1, <2>2
<1> QED BY <1>2, <1>3, <1>4

\* The executor is a bounded resource too: a call is queued once, is given a
\* thread or withdrawn, and gives the thread back; no more than Workers run.
THEOREM ExecutorRefines == Spec => ImplementsExecutor
<1>1. Init => Executor!Init
  BY DEF Init, Executor!Init
<1>2. IInv /\ [Next]_vars => [Executor!Next]_Executor!vars
  <2> SUFFICES ASSUME IInv, [Next]_vars PROVE [Executor!Next]_Executor!vars
    OBVIOUS
  <2>1. ASSUME NEW c \in Call, Begin(c) \/ Finish(c) PROVE Executor!Next
    BY <2>1, ExecutorCounts DEF Begin, Finish, Executor!Grant, Executor!Release, Executor!Next
  <2>2. CASE UNCHANGED <<queued, running>>
    BY <2>2 DEF Executor!vars
  <2>3. ASSUME NEW a \in Actor, Act(a) PROVE [Executor!Next]_Executor!vars
    BY <2>2, <2>3, ExecutorStep
       DEF Act, Arrive, Serve, DatabaseFails, Refuse, Accept, CheckHealth, Connect,
           PoolTimesOut, Ping, UnknownSession, LookupHit, Write, Commit, SendCached,
           CloseSession, calls
  <2> QED BY <2>1, <2>2, <2>3 DEF Next, Act, Quiet, vars, calls
<1> QED BY <1>1, <1>2, ServingInvariance, PTL DEF Spec, ImplementsExecutor, Executor!Spec
=============================================================================

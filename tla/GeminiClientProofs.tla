------------------------- MODULE GeminiClientProofs -------------------------
(* The shared client, for any set of worker threads.                        *)
EXTENDS GeminiClient, TLAPS

\* What the lookups of one thread rely on holds after a step of any thread.
LEMMA StepKeepsInvariant ==
    ASSUME IInv, NEW v \in Worker, Step(v)
    PROVE  IInv'
<1> USE NullAssumption
<1> USE DEF IInv, TypeOK, PairIsComplete, ThreadOK, Pair, Label, Want, Goto
<1>1. CASE DocumentCall(v) BY <1>1 DEF DocumentCall
<1>2. CASE TextCall(v)     BY <1>2 DEF TextCall
<1>3. CASE CheckClient(v)  BY <1>3 DEF CheckClient
<1>4. CASE CheckTypes(v)   BY <1>4 DEF CheckTypes
<1>5. CASE Import(v)       BY <1>5 DEF Import
<1>6. CASE Build(v)        BY <1>6 DEF Build
<1>7. CASE LookupRaises(v) BY <1>7 DEF LookupRaises
<1>8. CASE StoreClient(v)  BY <1>8 DEF StoreClient
<1>9. CASE StoreTypes(v)   BY <1>9 DEF StoreTypes
<1>10. CASE Return(v)      BY <1>10 DEF Return
<1>11. CASE CallEnds(v)    BY <1>11 DEF CallEnds
<1> QED BY <1>1, <1>2, <1>3, <1>4, <1>5, <1>6, <1>7, <1>8, <1>9, <1>10, <1>11
        DEF Step

\* The inductive invariant holds in every reachable state.
THEOREM ClientInvariance == Spec => []IInv
<1>1. Init => IInv
  <2> SUFFICES ASSUME Init PROVE IInv
    OBVIOUS
  <2>1. TypeOK
    BY DEF Init, TypeOK, Label, Want
  <2>2. PairIsComplete
    BY DEF Init, PairIsComplete
  <2>3. ASSUME NEW w \in Worker PROVE ThreadOK(w)
    <3>1. pc[w] = "idle" /\ built[w] = 0
      BY DEF Init
    <3> QED BY <3>1 DEF ThreadOK
  <2>4. ~sdk_types
    BY DEF Init
  <2> QED BY <2>1, <2>2, <2>3, <2>4 DEF IInv
<1>2. IInv /\ [Next]_vars => IInv'
  <2> SUFFICES ASSUME IInv, [Next]_vars PROVE IInv'
    OBVIOUS
  <2>1. CASE UNCHANGED vars
    BY <2>1 DEF IInv, TypeOK, PairIsComplete, ThreadOK, vars
  <2>2. CASE Next
    BY <2>2, StepKeepsInvariant DEF Next
  <2> QED BY <2>1, <2>2
<1> QED BY <1>1, <1>2, PTL DEF Spec

\* Every variable of the shared client stays in its domain.
THEOREM ClientTypeCorrect == Spec => []TypeOK
<1>1. IInv => TypeOK BY DEF IInv
<1> QED BY <1>1, ClientInvariance, PTL

\* No lookup, in any interleaving of any number of threads, returns half a pair.
THEOREM PairsCorrect == Spec => []PairIsComplete
<1>1. IInv => PairIsComplete BY DEF IInv
<1> QED BY <1>1, ClientInvariance, PTL

\* However many calls the threads make, each builds at most one client.
THEOREM ClientsBounded == Spec => []OneClientPerWorker
<1>1. IInv => OneClientPerWorker BY DEF IInv, ThreadOK, OneClientPerWorker
<1> QED BY <1>1, ClientInvariance, PTL
=============================================================================

----------------------- MODULE PipelineDeliveryProofs -----------------------
(* ExtractionCore, with what the upload service makes of its result,        *)
(* implements PipelineRun: for any texts, whatever is parsed from them, and *)
(* any time limits.                                                         *)
EXTENDS PipelineDelivery, ExtractionCoreProofs

-----------------------------------------------------------------------------
(* The raw response of a failure.                                          *)

\* raw_llm_response of a failure is the text of the last attempt that has one.
LEMMA LastTextFound ==
    ASSUME NEW n \in Nat, DOMAIN attempts' = 1..n, NEW i \in 1..n, attempts'[i].raw # Null,
           \A j \in 1..n : j > i => attempts'[j].raw = Null
    PROVE  FailureRaw' = attempts'[i].raw
<1>1. i \in WithText' /\ WithText' \in SUBSET Nat /\ \A j \in WithText' : j <= i
  BY DEF WithText
<1>2. (CHOOSE j \in WithText' : \A k \in WithText' : k <= j) = i
  BY <1>1, GreatestIndex
<1> QED
  BY <1>1, <1>2 DEF FailureRaw, LastRaw

\* Without a text in any attempt there is none.
LEMMA NoTextFound ==
    ASSUME \A i \in DOMAIN attempts' : attempts'[i].raw = Null
    PROVE  FailureRaw' = Null
BY DEF FailureRaw, LastRaw, WithText

\* A run fails with no text, or with one that nothing is parsed from.
LEMMA FailureKeepsNoAnswer ==
    ASSUME IInv, Next, pc # "done", pc' = "done", result'.status = "FAILED"
    PROVE  FailureRaw' \in {t \in Text : ~Parses(t)} \cup {Null}
<1>0. TypeOK
  BY DEF IInv
<1>1. CASE InitialTimesOut \/ InitialRejected
  <2>1. PICK error \in Exception : Record("initial", Null, error)
    BY <1>1 DEF InitialTimesOut, InitialRejected, Exception
  <2>2. Grown(1, "initial", Null, error)
    <3>1. attempts = <<>>
      BY <1>1 DEF InitialTimesOut, InitialRejected, IInv, InHand
    <3> QED
      BY <1>0, <2>1, <3>1, Grows DEF Stage
  <2>3. \A i \in DOMAIN attempts' : attempts'[i].raw = Null
    BY <2>2 DEF Grown
  <2> QED
    BY <2>3, NoTextFound
<1>2. CASE RepairAnswers
  <2>1. PICK t \in Text :
           Record("repair", t, Null) /\ (~Parses(t) \/ Select(t, "repair"))
    BY <1>2 DEF RepairAnswers
  <2>2. ~Parses(t)
    BY <2>1 DEF Select, Succeed
  <2>3. Grown(2, "repair", t, Null)
    <3>1. Len(attempts) = 1
      BY <1>2 DEF RepairAnswers, IInv, InHand
    <3> QED
      BY <1>0, <2>1, <3>1, Grows DEF Stage
  <2>4. FailureRaw' = t
    BY <2>3, LastTextFound, NullAssumption DEF Grown
  <2> QED
    BY <2>2, <2>4
<1>3. CASE RepairTimesOut \/ RepairRejected
  <2>1. PICK error \in Exception : Record("repair", Null, error)
    BY <1>3 DEF RepairTimesOut, RepairRejected, Exception
  <2>2. /\ Len(attempts) = 1 /\ attempts[1] \in Attempt
        /\ attempts[1].raw # Null /\ ~Parses(attempts[1].raw)
    <3>1. pc = "repair"
      BY <1>3 DEF RepairTimesOut, RepairRejected
    <3>2. Len(attempts) = 1 /\ attempts[1].raw # Null /\ ~Parses(attempts[1].raw)
      BY <3>1 DEF IInv, InHand
    <3>3. 1 \in 1..Len(attempts)
      BY <3>2
    <3>4. attempts[1] \in Attempt
      BY <1>0, <3>3 DEF TypeOK
    <3> QED
      BY <3>2, <3>4
  <2>3. Grown(2, "repair", Null, error)
    BY <1>0, <2>1, <2>2, Grows DEF Stage
  <2>4. FailureRaw' = attempts[1].raw
    BY <2>2, <2>3, LastTextFound DEF Grown
  <2> QED
    BY <2>2, <2>4 DEF Attempt
<1>4. ~InitialAnswers /\ ~RetryAnswers /\ ~RetryTimesOut /\ ~RetryRejected /\ ~CallRaises
  BY DEF InitialAnswers, RetryAnswers, RetryTimesOut, RetryRejected, CallRaises, Select, Succeed
<1> QED
  BY <1>1, <1>2, <1>3, <1>4 DEF Next, TimesOut, Ends, Returned

-----------------------------------------------------------------------------
(* The refinement.                                                         *)

\* What is handed over when a run ends with an extraction.
LEMMA SuccessDelivers ==
    ASSUME IInv', pc' = "done", result'.status = "SUCCESS"
    PROVE  Handed' \in Run!Delivered
<1>1. result' # Null /\ Succeeded'
  BY DEF IInv, InHand, Succeeded
<1>2. PICK i \in DOMAIN attempts' : /\ attempts'[i].raw # Null /\ Parses(attempts'[i].raw)
                                    /\ attempts'[i].raw = result'.extraction
  BY <1>1 DEF IInv, SelectedIsBest, ParsedAt, Parses
<1>3. result'.extraction \in {t \in Text : Parses(t)}
  <2>1. attempts'[i] \in Attempt
    BY DEF IInv, TypeOK
  <2> QED
    BY <1>2, <2>1 DEF Attempt
<1>4. SuccessRaw' = result'.extraction
  BY <1>1 DEF IInv, RawBelongsToSelection
<1>5. Handed' = Run!Success(result'.extraction)
  BY <1>4 DEF Handed, Phase, SuccessData, Run!Success
<1> QED
  BY <1>3, <1>5 DEF Run!Delivered

\* What is handed over when it ends without.
LEMMA FailureDelivers ==
    ASSUME FailureRaw' \in {t \in Text : ~Parses(t)} \cup {Null},
           pc' = "done", result'.status = "FAILED"
    PROVE  Handed' \in Run!Delivered
<1>1. Handed' = Run!Failure(IF FailureRaw' # Null THEN FailureRaw' ELSE ErrorMessage, "LLM_FAILURE")
  BY DEF Handed, Phase, FailureData, Run!Failure
<1> QED
  BY <1>1 DEF Run!Delivered

\* Each step delivers, raises, or is not seen by the upload.
LEMMA StepDelivers ==
    ASSUME IInv, IInv', [Next]_vars PROVE [Run!Next]_(Run!vars)
<1>1. CASE UNCHANGED vars
  BY <1>1 DEF vars, Phase, Handed, SuccessData, FailureData, SuccessRaw, FailureRaw, LastRaw,
              WithText, Run!vars
<1>2. CASE Next /\ pc = "done"
  BY <1>1, <1>2 DEF Next, TimesOut, Ends, InitialTimesOut, RepairTimesOut, RetryTimesOut,
                    InitialAnswers, InitialRejected, RepairAnswers, RepairRejected,
                    RetryAnswers, RetryRejected, CallRaises, Returned
<1>3. CASE pc # "done" /\ pc' # "done"
  BY <1>3 DEF Phase, Handed, Run!vars
<1>4. CASE Next /\ pc # "done" /\ pc' = "done"
  <2>1. Phase = "running" /\ Handed = Null
    BY <1>4 DEF Phase, Handed
  <2>2. result' \in Result
    BY <1>4 DEF IInv, InHand, TypeOK
  <2>3. CASE result'.status = "RAISED"
    <3>1. Phase' = "raised" /\ Handed' = Null
      BY <1>4, <2>3 DEF Phase, Handed
    <3> QED
      BY <2>1, <3>1 DEF Run!Next, Run!Raise
  <2>4. CASE result'.status \in {"SUCCESS", "FAILED"}
    <3>1. Phase' = "delivered"
      BY <1>4, <2>4 DEF Phase
    <3>2. Handed' \in Run!Delivered
      BY <1>4, <2>4, SuccessDelivers, FailureDelivers, FailureKeepsNoAnswer
    <3> QED
      BY <2>1, <3>1, <3>2 DEF Run!Next, Run!Deliver
  <2> QED
    BY <2>2, <2>3, <2>4 DEF Result
<1> QED
  BY <1>1, <1>2, <1>3, <1>4

\* The pipeline, repairs, retries and backward searches included, is for the
\* upload one step that delivers or raises.
THEOREM RefinesPipelineRun == Spec => ImplementsPipelineRun
<1>1. Init => Run!Init
  BY DEF Init, Run!Init, Phase, Handed
<1>2. IInv /\ IInv' /\ [Next]_vars => [Run!Next]_(Run!vars)
  BY StepDelivers
<1> QED
  BY <1>1, <1>2, CoreInvariance, PTL DEF Spec, ImplementsPipelineRun, Run!Spec
=============================================================================

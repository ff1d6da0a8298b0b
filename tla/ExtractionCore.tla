--------------------------- MODULE ExtractionCore ---------------------------
(***************************************************************************)
(* One run of ExtractionCoreService: the first extraction call, the repair *)
(* call when its answer cannot be parsed, the second extraction call when  *)
(* the confidence is LOW, and the choice of the extraction to return.      *)
(*                                                                         *)
(* A text stands for what extract_json_object and the schema make of it:   *)
(* Level[t] is the confidence of the extraction parsed from t, "NONE" if   *)
(* nothing is parsed, "RAISES" if json.loads fails with an error that is   *)
(* not a JSONDecodeError.  The extraction parsed from t is named by t.     *)
(***************************************************************************)
EXTENDS Naturals, Sequences, CallOrder

CONSTANTS
    Text,               \* texts a provider returns, none of them empty
    Level,              \* what is parsed from each
    ExtractionTimeout,  \* limit of an extraction call, in units of time
    RepairTimeout,      \* limit of a repair call
    Null

Confidence == {"LOW", "MEDIUM", "HIGH"}
Code       == {"NONE", "LLM_JSON_PARSE_FAIL", "LLM_PROVIDER_ERROR", "LLM_TIMEOUT"}
Exception  == {"timeout", "rejected"}

Attempt == [stage : Stage, raw : Text \cup {Null}, error : Exception \cup {Null}]
Result  == [status : {"SUCCESS", "FAILED", "RAISED"}, extraction : Text \cup {Null},
            stage : Stage \cup {Null}, code : Code, retryable : BOOLEAN]

ASSUME LevelAssumption   == Level \in [Text -> Confidence \cup {"NONE", "RAISES"}]
ASSUME TimeoutAssumption == ExtractionTimeout \in Nat \ {0} /\ RepairTimeout \in Nat \ {0}
ASSUME NullAssumption    == Null \notin Text \cup Stage \cup Exception \cup Result

VARIABLES
    pc,        \* the call under way, or "done"
    attempts,  \* the list of ExtractionAttempt
    selected,  \* selected_extraction
    stage,     \* selected_stage
    elapsed,   \* time since started_at
    result     \* what run returns

vars == <<pc, attempts, selected, stage, elapsed, result>>

Parses(t) == Level[t] \in Confidence

confidence_rank(t) == CASE Level[t] = "LOW" -> 1
                        [] Level[t] = "MEDIUM" -> 2
                        [] Level[t] = "HIGH" -> 3

-----------------------------------------------------------------------------
(* raw_llm_response of a success and of a failure: a search from the end.  *)

LastRaw(I) ==
    IF I = {} THEN Null
    ELSE attempts[CHOOSE i \in I : \A j \in I : j <= i].raw

WithText == {i \in DOMAIN attempts : attempts[i].raw # Null}

\* (A mistake the runs catch: the last text wins, whatever was selected.)
SuccessRawLatest == LastRaw(WithText)

SuccessRaw == LastRaw({i \in DOMAIN attempts : attempts[i].stage = result.stage})

\* (A mistake the runs catch: only the last attempt is looked at.)
FailureRawOfLast == attempts[Len(attempts)].raw

FailureRaw == LastRaw(WithText)

-----------------------------------------------------------------------------
Init ==
    /\ pc       = "initial"
    /\ attempts = <<>>
    /\ selected = Null
    /\ stage    = Null
    /\ elapsed  = 0
    /\ result   = Null

Limit(call) == IF call = "repair" THEN RepairTimeout ELSE ExtractionTimeout

\* A call ends before its limit.
Took(call) == \E d \in 0..(Limit(call) - 1) : elapsed' = elapsed + d

\* It is abandoned at the limit, or raises a TimeoutError of its own before.
GivenUp(call) == \E d \in 0..Limit(call) : elapsed' = elapsed + d

\* (A mistake the runs catch: the error text is kept as the raw response.)
RecordErrorAsRaw(call, raw, error) ==
    attempts' = Append(attempts,
                  [stage |-> call, raw |-> IF raw = Null THEN error ELSE raw,
                   error |-> error])

Record(call, raw, error) ==
    attempts' = Append(attempts, [stage |-> call, raw |-> raw, error |-> error])

Succeed(t, st) ==
    /\ selected' = t
    /\ stage'    = st
    /\ pc'       = "done"
    /\ result'   = [status |-> "SUCCESS", extraction |-> t, stage |-> st,
                    code |-> "NONE", retryable |-> FALSE]

Fail(code, retryable) ==
    /\ pc'     = "done"
    /\ result' = [status |-> "FAILED", extraction |-> Null, stage |-> Null,
                  code |-> code, retryable |-> retryable]
    /\ UNCHANGED <<selected, stage>>

\* A parsed extraction is returned, or asked for again if its confidence is LOW.
Select(t, st) ==
    IF Level[t] = "LOW"
      THEN /\ selected' = t
           /\ stage'    = st
           /\ pc'       = "retry"
           /\ UNCHANGED result
      ELSE Succeed(t, st)

-----------------------------------------------------------------------------
InitialAnswers ==
    /\ pc = "initial"
    /\ Took("initial")
    /\ \E t \in Text :
          /\ Level[t] # "RAISES"
          /\ Record("initial", t, Null)
          /\ \/ Parses(t) /\ Select(t, "initial")
             \/ ~Parses(t) /\ pc' = "repair" /\ UNCHANGED <<selected, stage, result>>

\* (A mistake the runs catch: a timeout is treated like text that cannot be parsed.)
InitialTimesOutRepaired ==
    /\ pc = "initial"
    /\ GivenUp("initial")
    /\ Record("initial", Null, "timeout")
    /\ pc' = "repair"
    /\ UNCHANGED <<selected, stage, result>>

InitialTimesOut ==
    /\ pc = "initial"
    /\ GivenUp("initial")
    /\ Record("initial", Null, "timeout")
    /\ Fail("LLM_TIMEOUT", TRUE)

\* ProviderRequestError carries its own retryable flag.
InitialRejected ==
    /\ pc = "initial"
    /\ Took("initial")
    /\ Record("initial", Null, "rejected")
    /\ \E retryable \in BOOLEAN : Fail("LLM_PROVIDER_ERROR", retryable)

\* (A mistake the runs catch: an unparsable repair is sent for repair again.)
RepairAgain ==
    /\ pc = "repair"
    /\ Took("repair")
    /\ \E t \in Text :
          /\ Level[t] # "RAISES"
          /\ Record("repair", t, Null)
          /\ \/ Parses(t) /\ Select(t, "repair")
             \/ ~Parses(t) /\ UNCHANGED <<pc, selected, stage, result>>

RepairAnswers ==
    /\ pc = "repair"
    /\ Took("repair")
    /\ \E t \in Text :
          /\ Level[t] # "RAISES"
          /\ Record("repair", t, Null)
          /\ \/ Parses(t) /\ Select(t, "repair")
             \/ ~Parses(t) /\ Fail("LLM_JSON_PARSE_FAIL", FALSE)

\* A repair call that fails, by a timeout too, counts as an unparsable answer.
RepairTimesOut ==
    /\ pc = "repair"
    /\ GivenUp("repair")
    /\ Record("repair", Null, "timeout")
    /\ Fail("LLM_JSON_PARSE_FAIL", FALSE)

RepairRejected ==
    /\ pc = "repair"
    /\ Took("repair")
    /\ Record("repair", Null, "rejected")
    /\ Fail("LLM_JSON_PARSE_FAIL", FALSE)

\* (A mistake the runs catch: the newer extraction wins a tie.)
RetryWinsTies ==
    /\ pc = "retry"
    /\ Took("retry")
    /\ \E t \in Text :
          /\ Level[t] # "RAISES"
          /\ Record("retry", t, Null)
          /\ IF Parses(t) /\ confidence_rank(t) >= confidence_rank(selected)
               THEN Succeed(t, "retry")
               ELSE Succeed(selected, stage)

RetryAnswers ==
    /\ pc = "retry"
    /\ Took("retry")
    /\ \E t \in Text :
          /\ Level[t] # "RAISES"
          /\ Record("retry", t, Null)
          /\ IF Parses(t) /\ confidence_rank(t) > confidence_rank(selected)
               THEN Succeed(t, "retry")
               ELSE Succeed(selected, stage)

\* (A mistake the runs catch: the retry call is awaited without a limit.)
RetryUnlimited == pc = "retry" /\ UNCHANGED vars

RetryTimesOut ==
    /\ pc = "retry"
    /\ GivenUp("retry")
    /\ Record("retry", Null, "timeout")
    /\ Succeed(selected, stage)

RetryRejected ==
    /\ pc = "retry"
    /\ Took("retry")
    /\ Record("retry", Null, "rejected")
    /\ Succeed(selected, stage)

\* An exception that run does not catch: the provider's client library is
\* missing, or json.loads fails with another error.  No attempt is recorded.
CallRaises ==
    /\ pc # "done"
    /\ Took(pc)
    /\ pc'     = "done"
    /\ result' = [status |-> "RAISED", extraction |-> Null, stage |-> Null,
                  code |-> "NONE", retryable |-> FALSE]
    /\ UNCHANGED <<attempts, selected, stage>>

TimesOut == InitialTimesOut \/ RepairTimesOut \/ RetryTimesOut
Ends     == \/ InitialAnswers \/ InitialRejected
            \/ RepairAnswers \/ RepairRejected
            \/ RetryAnswers \/ RetryRejected
            \/ CallRaises
Returned == pc = "done" /\ UNCHANGED vars

Next == TimesOut \/ Ends \/ Returned
Spec == Init /\ [][Next]_vars

\* The provider may never answer: what is certain is that wait_for gives up.
FairSpec == Spec /\ WF_vars(TimesOut)

-----------------------------------------------------------------------------
(* Properties.                                                             *)

\* Every variable stays in its domain.
TypeOK ==
    /\ pc       \in Stage \cup {"done"}
    /\ attempts \in Seq(Attempt)
    /\ selected \in Text \cup {Null}
    /\ stage    \in Stage \cup {Null}
    /\ elapsed  \in Nat
    /\ result   \in Result \cup {Null}

Succeeded   == result # Null /\ result.status = "SUCCESS"
Failed(c)   == result # Null /\ result.status = "FAILED" /\ result.code = c
ParsedAt(i) == attempts[i].raw # Null /\ Parses(attempts[i].raw)

\* A success returns the extraction of the highest confidence that any call
\* produced, and of several such extractions the earliest.
SelectedIsBest ==
    Succeeded =>
        \E i \in DOMAIN attempts :
            /\ ParsedAt(i)
            /\ attempts[i].raw = result.extraction
            /\ \A j \in DOMAIN attempts \ {i} : ParsedAt(j) =>
                  \/ confidence_rank(attempts[j].raw) < confidence_rank(result.extraction)
                  \/ /\ confidence_rank(attempts[j].raw) = confidence_rank(result.extraction)
                     /\ i < j

\* The raw response stored with a success is the text its extraction was parsed
\* from, also when the low-confidence retry was made and not selected.
RawBelongsToSelection == Succeeded => SuccessRaw = result.extraction

\* "The raw response has been stored for review": a parse failure always keeps
\* a text the model produced, also when the repair call produced none.
ParseFailureKeepsText ==
    Failed("LLM_JSON_PARSE_FAIL") => FailureRaw # Null /\ ~Parses(FailureRaw)

\* A run makes a call only while nothing better than a LOW extraction is in
\* hand, and it is over within one repair and two extraction limits; a database
\* connection is held that long.
WithinBudget ==
    /\ \A i \in DOMAIN attempts :
          ParsedAt(i) /\ Level[attempts[i].raw] # "LOW" => i = Len(attempts)
    /\ elapsed <= 2 * ExtractionTimeout + RepairTimeout

\* Why: what a run has in hand while a call is under way.  Before a repair that
\* is one text nothing is parsed from; before a retry the LOW extraction of the
\* last attempt, and no other.
InHand ==
    /\ result = Null <=> pc # "done"
    /\ pc = "initial" => attempts = <<>> /\ elapsed = 0
    /\ pc = "repair" =>
          /\ Len(attempts) = 1 /\ attempts[1].stage = "initial"
          /\ attempts[1].raw # Null /\ ~Parses(attempts[1].raw)
          /\ elapsed <= ExtractionTimeout
    /\ pc = "retry" =>
          /\ Len(attempts) \in {1, 2}
          /\ attempts[Len(attempts)].raw = selected /\ selected # Null
          /\ attempts[Len(attempts)].stage = stage /\ stage # "retry"
          /\ Level[selected] = "LOW"
          /\ \A i \in DOMAIN attempts \ {Len(attempts)} :
                attempts[i].stage # stage /\ ~ParsedAt(i)
          /\ elapsed <= ExtractionTimeout + RepairTimeout

\* The inductive invariant of the proofs.
IInv == /\ TypeOK /\ InHand
        /\ SelectedIsBest /\ RawBelongsToSelection /\ ParseFailureKeepsText /\ WithinBudget

\* The calls follow each other as CallOrder says, none is made twice, and a call
\* that times out is the last one: while the abandoned request still occupies a
\* thread, its run does not ask for another.
CallsInOrder ==
    [][/\ pc' # pc => pc' \in After(pc) \cup {"done"}
       /\ attempts' # attempts /\ attempts'[Len(attempts')].error = "timeout"
             => pc' = "done"]_vars

\* Every run returns or raises: repairs and retries are not repeated.
Terminates == <>(pc = "done")

\* ProviderTimeoutError is always retryable, and "timeout returns retryable
\* failure": a run that fails because a provider call timed out says so.
TimeoutsAreRetryable ==
    result # Null /\ result.status = "FAILED"
        /\ attempts[Len(attempts)].error = "timeout" => result.retryable
=============================================================================

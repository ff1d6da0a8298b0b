----------------------------- MODULE StoredData -----------------------------
(***************************************************************************)
(* The column values that an upload writes, and what its run of the        *)
(* pipeline may have it write.  SyncExtraction stores them, and the        *)
(* pipeline of ExtractionCore is held to delivering them (PipelineRun).    *)
(***************************************************************************)

CONSTANTS
    Answer,   \* model texts from which an extraction is parsed
    Full,     \* the answers that fill the nullable columns
    Message,  \* what a failed run stores in raw_llm_response
    Null

RawText == Answer \cup Message
Status  == {"COMPLETE", "FAILED"}

\* The column values of a write, and the error code that goes with them.
Outcome == {"NONE", "LLM_FAILURE", "LLM_PROVIDER_UNAVAILABLE"}
Data    == [status : Status, doc : Answer \cup {Null},
            opt : Answer \cup {Null}, raw : RawText, error : Outcome]

Success(a) ==
    [status |-> "COMPLETE", doc |-> a, opt |-> IF a \in Full THEN a ELSE Null,
     raw |-> a, error |-> "NONE"]

\* (A mistake the runs catch: the failure text is not kept.)
FailureWithoutText(m, e) ==
    [status |-> "FAILED", doc |-> Null, opt |-> Null, raw |-> Null, error |-> e]

Failure(m, e) ==
    [status |-> "FAILED", doc |-> Null, opt |-> Null, raw |-> m, error |-> e]

\* What a run of the pipeline that raises no exception leads to.
Delivered == {Success(a) : a \in Answer} \cup {Failure(m, "LLM_FAILURE") : m \in Message}
=============================================================================

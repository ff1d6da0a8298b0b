-------------------------- MODULE PipelineDelivery --------------------------
(***************************************************************************)
(* What the upload service makes of the result of ExtractionCore: the two  *)
(* ends of the interface at which SyncExtraction and ExtractionCore meet.  *)
(*                                                                         *)
(* An extraction is named by the text it was parsed from, so what is       *)
(* written for it names that text in each of its columns.                  *)
(***************************************************************************)
EXTENDS ExtractionCore

CONSTANTS
    Complete,    \* the texts whose extraction fills the nullable columns
    ErrorMessage \* the message of a failure

ASSUME CompleteAssumption == Complete \subseteq {t \in Text : Parses(t)}

\* _build_success_data: the columns of the extraction, and raw_llm_response, a
\* property that searches the attempts once more.
SuccessData ==
    [status |-> "COMPLETE",
     doc    |-> result.extraction,
     opt    |-> IF result.extraction \in Complete THEN result.extraction ELSE Null,
     raw    |-> SuccessRaw,
     error  |-> "NONE"]

\* (A mistake the runs catch: the message does not stand in for a missing text.)
FailureDataNoMessage ==
    [status |-> "FAILED", doc |-> Null, opt |-> Null, raw |-> FailureRaw,
     error |-> "LLM_FAILURE"]

\* _build_failure_data: raw_llm_response or, without one, the message.
FailureData ==
    [status |-> "FAILED", doc |-> Null, opt |-> Null,
     raw    |-> IF FailureRaw # Null THEN FailureRaw ELSE ErrorMessage,
     error  |-> "LLM_FAILURE"]

-----------------------------------------------------------------------------
(* The refinement mapping.                                                 *)

Phase == IF pc # "done" THEN "running"
         ELSE IF result.status = "RAISED" THEN "raised" ELSE "delivered"

Handed == IF Phase # "delivered" THEN Null
          ELSE IF result.status = "SUCCESS" THEN SuccessData ELSE FailureData

Run == INSTANCE PipelineRun
           WITH Answer    <- {t \in Text : Parses(t)},
                Full      <- Complete,
                Message   <- {t \in Text : ~Parses(t)} \cup {ErrorMessage},
                phase     <- Phase,
                delivered <- Handed

\* The pipeline keeps what the upload service relies on: it delivers exactly
\* once; a complete extraction is stored with the text it was parsed from, also
\* after a retry that was not selected; a failure stores a text, which is its
\* message or one that no extraction could be read from.
ImplementsPipelineRun == Run!Spec
=============================================================================

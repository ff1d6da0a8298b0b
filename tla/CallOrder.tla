----------------------------- MODULE CallOrder ------------------------------
(***************************************************************************)
(* The provider calls one run of the pipeline may make, one after another. *)
(* ExtractionCore makes them, Serving sends them through the executor.     *)
(***************************************************************************)

Stage == {"initial", "repair", "retry"}

\* A repair may follow an answer that cannot be parsed, one more try an answer
\* of LOW confidence.  Any other outcome ends the run.
After(s) == CASE s = "initial" -> {"repair", "retry"}
              [] s = "repair"  -> {"retry"}
              [] s = "retry"   -> {}
=============================================================================

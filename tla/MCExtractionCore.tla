-------------------------- MODULE MCExtractionCore --------------------------
(* ExtractionCore with two texts of each level that a choice may confuse; one *)
(* of each pair fills the nullable columns.                                  *)
EXTENDS PipelineDelivery

CONSTANTS low1, low2, medium, high1, high2, junk1, junk2, bomb

MCText  == {low1, low2, medium, high1, high2, junk1, junk2, bomb}
MCLevel == [t \in MCText |-> CASE t \in {low1, low2}   -> "LOW"
                               [] t = medium           -> "MEDIUM"
                               [] t \in {high1, high2} -> "HIGH"
                               [] t \in {junk1, junk2} -> "NONE"
                               [] t = bomb             -> "RAISES"]
MCComplete == {low1, medium, high2}
=============================================================================

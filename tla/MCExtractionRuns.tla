--------------------------- MODULE MCExtractionRuns ---------------------------
(* ExtractionRuns for TLC: one rule in every batch; processes are alike.       *)
EXTENDS ExtractionRuns, TLC

OneEach == [c \in Contents |-> c]

ProcessSymmetry == Permutations(Processes)
=============================================================================

--------------------------- MODULE MCCaseDecision ---------------------------
(***************************************************************************)
(* CaseDecision on small instances: a few calls that share one key or use  *)
(* none, two request bodies, two possible verdicts.                        *)
(***************************************************************************)
EXTENDS CaseDecision, TLC

\* Calls are interchangeable, and so are verdicts.
CallSymmetry == Permutations(Calls) \cup Permutations(Verdicts) \cup Permutations(Requests)
=============================================================================

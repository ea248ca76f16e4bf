----------------------- MODULE MCCaseDecisionRegister -----------------------
EXTENDS CaseDecisionRegister, TLC

CallSymmetry == Permutations(Calls) \cup Permutations(Verdicts) \cup Permutations(Requests)
=============================================================================

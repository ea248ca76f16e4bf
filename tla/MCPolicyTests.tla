---------------------------- MODULE MCPolicyTests ----------------------------
(* PolicyTests for TLC: handlers and tests are interchangeable.                *)
EXTENDS PolicyTests, TLC

Symmetry == Permutations(Handlers) \cup Permutations(Tests)
=============================================================================

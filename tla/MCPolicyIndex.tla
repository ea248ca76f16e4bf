---------------------------- MODULE MCPolicyIndex ----------------------------
(* PolicyIndex for TLC: builders are interchangeable, and so are the parts.   *)
EXTENDS PolicyIndex, TLC

Interchangeable == Permutations(Builders) \cup Permutations(Parts)
=============================================================================

------------------------------ MODULE MCTeardown ------------------------------
(* Teardown for TLC: projects are interchangeable, and so are documents.        *)
EXTENDS Teardown, TLC

Symmetry == Permutations(Projects) \cup Permutations(Documents)
=============================================================================

---------------------------- MODULE MCPublication ----------------------------
(* Publication for TLC: handlers are interchangeable, and so are rule ids.    *)
EXTENDS PublicationLedger, TLC

Interchangeable == Permutations(Handlers) \cup Permutations(Rules)
=============================================================================

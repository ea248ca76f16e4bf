-------------------------- MODULE PublicationLedger --------------------------
(* Publication implements VersionLedger, when version numbers are its own.    *)
EXTENDS Publication

Ledger == INSTANCE VersionLedger WITH ledger <- versions, Imported <- "imported"

\* Whatever handlers interleave, what becomes of the versions could have been
\* produced by publications that each happen at one instant: numbers without
\* gaps, every rule in force carried forward, the last active one in force.
PublishesAreAtomic == Ledger!Spec
=============================================================================

------------------------- MODULE MCLedgerMigration -------------------------
(* Small instances of LedgerMigration.                                     *)
EXTENDS LedgerMigration, TLC

MigrationSymmetry ==
    Permutations(Processes) \union Permutations(Keys) \union Permutations(Mutations)
=============================================================================

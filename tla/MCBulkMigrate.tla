--------------------------- MODULE MCBulkMigrate ---------------------------
(* Small fleets for BulkMigrate. *)
EXTENDS BulkMigrate

CONSTANTS r1, r2

=============================================================================

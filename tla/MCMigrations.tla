---------------------------- MODULE MCMigrations ----------------------------
(***************************************************************************)
(* Three replicas in the middle of a rolling update, for TLC: one runs the *)
(* image of the old release, two that of the new one.                      *)
(***************************************************************************)
EXTENDS Migrations, TLC

CONSTANTS r1, r2, r3

MCImage == (r1 :> 1) @@ (r2 :> Files) @@ (r3 :> Files)

=============================================================================

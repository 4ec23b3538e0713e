------------------------------ MODULE MCMigLink ------------------------------
(* Small instances of MigLink for TLC. *)
EXTENDS MigLink
CONSTANTS A, B, C
AllChannels == {A, B, C}
OnlyTarget == {B}
NotRescue == {A, B}
==============================================================================

------------------------------ MODULE MCAdmin ------------------------------
(***************************************************************************)
(* Two runs of the tool at the same time, with lamports for one reserve and *)
(* a little more.                                                           *)
(***************************************************************************)
EXTENDS LendingAdmin

=============================================================================

------------------------------ MODULE MCStation ------------------------------
(***************************************************************************)
(* StationLink for TLC; the bounds are in the cfg files.                   *)
(***************************************************************************)
EXTENDS StationLink
==============================================================================

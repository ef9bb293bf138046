--------------------------- MODULE MCHostSettings ---------------------------
(***************************************************************************)
(* A small instance of HostSettings.                                       *)
(***************************************************************************)
EXTENDS HostSettings
=============================================================================

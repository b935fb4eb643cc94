----------------------------- MODULE MCLaunch ------------------------------
(***************************************************************************)
(* Small instances of Launch for TLC.                                       *)
(***************************************************************************)
EXTENDS Launch

CONSTANT s1
=============================================================================

--------------------------- MODULE MCClaimSource ----------------------------
(***************************************************************************)
(* Small instances of ClaimRecovery for TLC.                                *)
(***************************************************************************)
EXTENDS ClaimRecovery

CONSTANTS p1, p2, early, late

OneWallet == [l \in Lots |-> "creator"]
=============================================================================

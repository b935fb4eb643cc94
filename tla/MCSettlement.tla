---------------------------- MODULE MCSettlement ----------------------------
(***************************************************************************)
(* Small instances of Settlement for TLC.                                   *)
(***************************************************************************)
EXTENDS Settlement, TLC

CONSTANTS l1, l2, p1, p2

\* All lots are paid by one wallet.
OneWallet == [l \in Lots |-> "wallet"]

ProcSymmetry == Permutations(Procs)
=============================================================================

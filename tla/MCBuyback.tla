----------------------------- MODULE MCBuyback -----------------------------
(***************************************************************************)
(* Small instances of Buyback for TLC.                                      *)
(***************************************************************************)
EXTENDS Buyback, TLC

CONSTANTS w1, w2

\* Adapters that may cite any operation's transaction, or only the one asked for.
AnyOp == [op \in Ops |-> Ops]
OwnOp == [op \in Ops |-> {op}]

WorkerSymmetry == Permutations(Workers)
=============================================================================

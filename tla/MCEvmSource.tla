---------------------------- MODULE MCEvmSource ----------------------------
(***************************************************************************)
(* Small instances of EvmSource for TLC.                                    *)
(***************************************************************************)
EXTENDS EvmSource

CONSTANTS k1, k2, p1, p2

\* Only the first token earns fees worth a claim.
OneClaim == [k \in Tokens |-> IF k = k1 THEN 1 ELSE 0]
=============================================================================

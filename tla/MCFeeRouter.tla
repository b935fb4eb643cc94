---------------------------- MODULE MCFeeRouter ----------------------------
(***************************************************************************)
(* Small instances of FeeRouter for TLC.                                    *)
(***************************************************************************)
EXTENDS FeeRouter, TLC

CONSTANTS p1, p2, A, B, C, D, hash1, hash2, hash3, coin1, coin2

Lot(id, ref, token, units) == [id |-> id, ref |-> ref, token |-> token, units |-> units]

\* A job the release before native splits paid whole.
Legacy == {[id |-> <<D, "whole">>, ref |-> hash3, token |-> coin1, units |-> 9]}

\* Three sources.  The first finds a claim that was paid whole before; the second
\* a lot nobody disputes, and a claim whose fifth is above the limit; the third
\* finds that claim under another id, too small for a fifth, and the same hash for
\* another token.
Disputed == <<Lot(C, hash3, coin1, 9), Lot(B, hash2, coin2, 30), Lot(A, hash1, coin1, 39),
              Lot(D, hash1, coin1, 4), Lot(C, hash1, coin2, 10)>>
Three == <<1, 2, 2, 3, 3>>

=============================================================================

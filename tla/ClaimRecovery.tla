--------------------------- MODULE ClaimRecovery ----------------------------
(***************************************************************************)
(* Retiring a claim that expired: workers/claim-recovery.ts over the        *)
(* evidence of providers/claim-expiry-evidence.ts, next to the scans of     *)
(* ClaimSource, which come back to the same row of the journal.             *)
(*                                                                          *)
(* Only claims of an earlier release have the job ("claim:" and its id is   *)
(* the transaction's) that a recovery needs: the service may start on a     *)
(* database with one.  The operator who previews and approves is external.  *)
(* Costs are left out: no scan reserves one for a claim.  Evidence is fresh *)
(* and the operator's words are well formed.                                *)
(***************************************************************************)
EXTENDS ClaimSource, Sequences

VARIABLES
  jobs,        \* service_jobs.stage, by the claim the job is for
  successors,  \* jobs planned in place of a retired one
  review       \* the operator's review, and the sources that agree with it

recoveryVars == <<jobs, successors, review>>
allVars == <<vars, recoveryVars>>

Sources == <<"configured", "solana_public_mainnet">>
Reviews == [of : SUBSET Lots, agree : 0 .. Len(Sources)]
NoReview == [of |-> {}, agree |-> 0]

RecoveryInit ==
  /\ Init
  /\ jobs = [l \in Lots |-> "none"] /\ successors = [l \in Lots |-> 0]
  /\ review = NoReview

Oldest(l) == \A m \in Lots : l <= m

\* An earlier release has left a claim it found expired, rightly or because its
\* node knew nothing of it.
Inherits(l) ==
  /\ Oldest(l) /\ Init /\ jobs[l] = "none"
  /\ jobs' = [jobs EXCEPT ![l] = "review"]
  /\ journal' = [journal EXCEPT ![l] = "expired_review"]
  /\ signer' = [signer EXCEPT ![l].pc = "dead"]
  /\ \E end \in {"expired", "landed"} :
       /\ chain' = [chain EXCEPT ![l] = end]
       /\ earned' = IF end = "landed" THEN MinFees ELSE 0
       /\ taken' = [taken EXCEPT ![l] = earned']
  /\ UNCHANGED <<asks, sends, faults, scan, booked, routed, vault, successors, review>>

-----------------------------------------------------------------------------
\* originals().
Originals == {l \in Lots : jobs[l] = "review" /\ journal[l] = "expired_review"}

\* preview(), whose fingerprint is of the rows as they are; and the operator has
\* both sources asked about all of them.
Previews ==
  /\ Originals # {} /\ review.of = {}
  /\ review' = [NoReview EXCEPT !.of = Originals]
  /\ UNCHANGED <<vars, jobs, successors>>

\* A source that knows the network to be past a claim, and neither a status nor a
\* transaction of it.
Negative(l) == chain[l] = "expired"

Asking == review.of # {} /\ review.agree < Len(Sources)

\* inspectExpiredClaimBatch(): the next of the sources to answer does; a positive
\* answer for any claim is the end of the review.
Observes ==
  /\ Asking
  /\ review' = IF \A l \in review.of : Negative(l) THEN [review EXCEPT !.agree = @ + 1] ELSE NoReview
  /\ UNCHANGED <<vars, jobs, successors>>

\* It lacks the history of a claim that landed: of two independent sources at most
\* one does, and one that answers after a truthful one finds nothing to overlook.
Overlooks ==
  /\ Asking /\ review.agree = 0 /\ Fault /\ \E l \in review.of : ~Negative(l)
  /\ review' = [review EXCEPT !.agree = @ + 1]
  /\ UNCHANGED <<journalVars, rest, jobs, successors>>

\* "Both independent RPC observations must show expiry without status or receipt."
Evidence == review.agree = Len(Sources)

\* The claims and their jobs are retired, and a job is planned in place of each.
Retires(claims) ==
  /\ jobs' = [l \in Lots |-> IF l \in claims THEN "retired" ELSE jobs[l]]
  /\ journal' = [l \in Lots |-> IF l \in claims THEN "retired_expired" ELSE journal[l]]
  /\ successors' = [l \in Lots |-> successors[l] + IF l \in claims THEN 1 ELSE 0]

\* approve(), in one transaction: a stale review is refused; a replay of one that was
\* approved is answered as before and changes nothing.
Approves(p) ==
  /\ MayRun(p, <<"approve">>)
  /\ review.of # {} /\ review.of = Originals /\ Evidence
  /\ Retires(review.of)
  /\ review' = NoReview
  /\ UNCHANGED <<signer, asks, chain, sends, faults, rest>>

\* The operator gives up, or the review is stale.
Leaves == review.of # {} /\ review' = NoReview /\ UNCHANGED <<vars, jobs, successors>>

\* A scan has written a row under review: its time is part of the fingerprint.
Touched ==
  /\ faults' = faults
  /\ \E a \in asks \ asks' : a.pc = "write" /\ a.lot \in review.of

Scanning ==
  /\ Next
  /\ review' = IF Touched THEN NoReview ELSE review
  /\ UNCHANGED <<jobs, successors>>

RecoveryNext ==
  \/ Scanning \/ Previews \/ Observes \/ Overlooks \/ Leaves
  \/ \E p \in Procs : Approves(p)
  \/ \E l \in Lots : Inherits(l)

RecoverySpec == RecoveryInit /\ [][RecoveryNext]_allVars /\ Fairness

-----------------------------------------------------------------------------
RecoveryTypeOK ==
  /\ TypeOK
  /\ jobs \in [Lots -> {"none", "review", "retired"}]
  /\ successors \in [Lots -> Nat] /\ review \in Reviews

\* "Retirement acknowledges uncertainty" (claim-recovery.ts:41), but a claim is only
\* retired, and one job planned in its place, if it can no longer take fees: two
\* sources were asked, and the scans' own reads go on meanwhile.
RetiredIsDead ==
  \A l \in Lots :
    /\ jobs[l] = "retired" => chain[l] = "expired" /\ successors[l] = 1
    /\ successors[l] > 0 => jobs[l] = "retired"

\* Claims do not cross, each is accounted for as what it was, and one that can land
\* is not given up.
ClaimsHold == RecoveryTypeOK /\ OneClaimAtATime /\ RoutedIsProved /\ RetiredIsDead
=============================================================================

---------------------------- MODULE ClaimSource -----------------------------
(***************************************************************************)
(* Claiming a token's creator fees: scanSources() and ingest() of           *)
(* server/services.ts over the Pump provider (providers/pump-solana.ts) and *)
(* the journal of TransactionJournal.  A scan first comes back to the       *)
(* claims it knows, then prepares a new one when enough has been earned; a  *)
(* finalized claim is valued once, booked (operations.recordClaim) and      *)
(* routed to the streamer and the buyback (feeRouter.recordClaim).          *)
(*                                                                          *)
(* One token; a process runs one scan at a time.  A lot is a claim, numbered *)
(* in the order their UUIDs are drawn; a claim takes what the vault holds   *)
(* when it executes.  Vault, "taken" and the network are not the program's. *)
(***************************************************************************)
EXTENDS TransactionJournal

CONSTANTS
  Prices,   \* quotes of SOL, each with its own time
  MinFees,  \* what makes a claim worth $50
  MaxFees   \* bound on the fees earned

ASSUME ClaimAssumption ==
  /\ Lots \subseteq Nat /\ \A l, m \in Lots : Creator[l] = Creator[m]
  /\ MaxFees \in Nat /\ MinFees \in 1 .. MaxFees
  /\ None \notin Prices /\ None \notin Lots

VARIABLES
  scan,    \* the scan each process has under way
  booked,  \* ops_claims: the valuation a claim was booked with
  routed,  \* fee_router's lots
  vault,   \* the creator's vaults
  earned,  \* fees earned so far
  taken    \* what each claim took

journalVars == <<journal, signer, asks, chain, sends>>
network == <<vault, earned, taken>>
vars == <<journalVars, faults, scan, booked, routed, network>>
rest == <<scan, booked, routed, network>>

\* What a scan does about an item: the claim it comes back to, or a new one.
Awaits == {"asking", "sending", "proving", "pricing"}
Scans == [pc : {"idle", "routing"} \cup Awaits, lot : Lots \cup {None}]
NoScan == [pc |-> "idle", lot |-> None]

Init ==
  /\ JournalInit
  /\ scan = [p \in Procs |-> NoScan]
  /\ booked = [l \in Lots |-> None] /\ routed = {}
  /\ vault = 0 /\ earned = 0 /\ taken = [l \in Lots |-> 0]

\* A process runs one task at a time, up to the task's next await.
Midway(p) ==
  {<<"execute", l>> : l \in {m \in Lots : signer[m].at = p
                                          /\ signer[m].pc \in {"inserted", "writing"}}}
  \cup {<<"reconcile", a>> : a \in {b \in asks : b.at = p /\ b.pc = "write"}}
  \cup (IF scan[p].pc = "routing" THEN {<<"scan">>} ELSE {})

MayRun(p, task) == Midway(p) \subseteq {task}

Goto(p, label) == scan' = [scan EXCEPT ![p].pc = label]

\* The item is done, whether or not it failed: the scan goes on to another.
Done(p) == scan' = [scan EXCEPT ![p] = NoScan]

-----------------------------------------------------------------------------
\* scanSources(): every item has its own try and the loop comes to all of them,
\* so that a scan is a succession of items.

\* Mutant: a finalized claim is taken for one that was routed.
PendingOpen == {l \in Lots : journal[l] \in Unresolved}

\* Every claim that has not failed or been retired, routed ones too.
Pending == {l \in Lots : journal[l] \notin {"none", "failed", "retired_expired"}}

\* reconcile(), then ingest() of what it left; a final state answers at once.
Settles(p, l) ==
  \/ /\ journal[l] \in Unresolved /\ asks' = asks \cup {Ask(l, p, "scan")}
     /\ scan' = [scan EXCEPT ![p] = [pc |-> "asking", lot |-> l]]
  \/ /\ journal[l] = "confirmed" /\ UNCHANGED asks
     /\ scan' = [scan EXCEPT ![p] = [pc |-> "proving", lot |-> l]]
  \/ journal[l] = "failed" /\ Done(p) /\ UNCHANGED asks

Takes(p, l) ==
  /\ scan[p].pc = "idle" /\ MayRun(p, <<"scan">>) /\ l \in Pending
  /\ Settles(p, l)
  /\ UNCHANGED <<journal, signer, chain, sends, faults, booked, routed, network>>

Told(p) ==
  /\ scan[p].pc = "asking" /\ MayRun(p, <<"scan">>)
  /\ \E a \in asks :
       /\ a.at = p /\ a.lot = scan[p].lot /\ a.who = "scan" /\ a.pc \in {"returned", "raised"}
       /\ asks' = asks \ {a}
       /\ IF a.pc = "returned" /\ journal[a.lot] = "confirmed" THEN Goto(p, "proving")
          ELSE Done(p)
  /\ UNCHANGED <<journal, signer, chain, sends, faults, booked, routed, network>>

\* Mutant: a claim that failed keeps the creator from another.
UnfinishedToo == {l \in Lots : journal[l] \in Unresolved \cup {"failed"}}

Unfinished == {l \in Lots : journal[l] \in Unresolved}

\* A new claim is prepared where none of this creator's is open and enough was
\* earned; the quote and the inspection are part of the preparation's await.
LooksForNew(p) ==
  /\ scan[p].pc = "idle" /\ MayRun(p, <<"scan">>)
  /\ Unfinished = {} /\ vault >= MinFees
  /\ \E l \in Lots :
       /\ signer[l].pc = "no" /\ \A m \in Lots : m < l => signer[m].pc # "no"
       /\ signer' = [signer EXCEPT ![l] = [at |-> p, pc |-> "preparing", val |-> "none"]]
       /\ scan' = [scan EXCEPT ![p] = [pc |-> "sending", lot |-> l]]
  /\ UNCHANGED <<journal, asks, chain, sends, faults, booked, routed, network>>

\* prepareClaim() inspects again, and may find that another process was first.
NothingLeft(l) ==
  /\ signer[l].pc = "preparing" /\ vault < MinFees
  /\ At(l, "raised")
  /\ UNCHANGED <<journal, asks, chain, sends, faults>>

\* execute() settles: reconcile(), as for every other claim.
Sent(p) ==
  /\ scan[p].pc = "sending" /\ MayRun(p, <<"scan">>)
  /\ \/ signer[scan[p].lot].pc = "raised" /\ Done(p) /\ UNCHANGED asks
     \/ signer[scan[p].lot].pc = "returned" /\ Settles(p, scan[p].lot)
  /\ UNCHANGED <<journal, signer, chain, sends, faults, booked, routed, network>>

-----------------------------------------------------------------------------
\* ingest().

Proven(l) == chain[l] = "landed" /\ taken[l] > 0

\* finalizedProof() of the stored transaction; a claim that took nothing has none.
\* The first verified valuation stands.
Proved(p) ==
  /\ scan[p].pc = "proving" /\ MayRun(p, <<"scan">>)
  /\ LET l == scan[p].lot IN
     IF Proven(l)
     THEN Goto(p, IF booked[l] = None THEN "pricing" ELSE "routing") ELSE Done(p)
  /\ UNCHANGED <<journalVars, faults, booked, routed, network>>

\* Mutant: a later quote replaces the valuation.
ValueAgain(l, price) == booked' = [booked EXCEPT ![l] = price]

\* recordClaim(): a booked claim is only ever found again as it is.
Value(l, price) ==
  booked[l] \in {None, price} /\ booked' = [booked EXCEPT ![l] = price]

Priced(p, price) ==
  /\ scan[p].pc = "pricing" /\ MayRun(p, <<"scan">>)
  /\ Value(scan[p].lot, price) /\ Goto(p, "routing")
  /\ UNCHANGED <<journalVars, faults, routed, network>>

Conflicts(p, price) ==
  /\ scan[p].pc = "pricing" /\ MayRun(p, <<"scan">>)
  /\ booked[scan[p].lot] \notin {None, price} /\ Done(p)
  /\ UNCHANGED <<journalVars, faults, booked, routed, network>>

Routes(p) ==
  /\ scan[p].pc = "routing" /\ MayRun(p, <<"scan">>)
  /\ routed' = routed \cup {scan[p].lot} /\ Done(p)
  /\ UNCHANGED <<journalVars, faults, booked, network>>

-----------------------------------------------------------------------------
\* A quote or a proof fails: the item does.
Fails(p) ==
  /\ scan[p].pc \in {"proving", "pricing"} /\ Fault
  /\ Done(p)
  /\ UNCHANGED <<journalVars, booked, routed, network>>

\* The process dies, between booking and routing too.
Crash(p) ==
  /\ JournalCrash(p) /\ Done(p)
  /\ UNCHANGED <<booked, routed, network>>

\* The network: fees are earned, and a claim that lands takes them all.
Earns ==
  /\ earned < MaxFees /\ earned' = earned + 1 /\ vault' = vault + 1
  /\ UNCHANGED <<journalVars, faults, scan, booked, routed, taken>>

Decides(l) ==
  /\ Decide(l)
  /\ IF chain'[l] = "landed"
     THEN taken' = [taken EXCEPT ![l] = vault] /\ vault' = 0 ELSE UNCHANGED <<taken, vault>>
  /\ UNCHANGED <<scan, booked, routed, earned>>

\* The dispatcher's calls, each on the thread of its process.
Executes(l) ==
  /\ signer[l].at # None /\ MayRun(signer[l].at, <<"execute", l>>)
  /\ Execute(l) \/ NothingLeft(l)
  /\ UNCHANGED rest
Reconciles(a) == MayRun(a.at, <<"reconcile", a>>) /\ Reconcile(a) /\ UNCHANGED rest
Asked(p, l) == \E a \in asks : a.at = p /\ a.lot = l /\ Reconciles(a)

Scanned(p) ==
  \/ Told(p) \/ Sent(p) \/ Proved(p) \/ Routes(p)
  \/ \E price \in Prices : Priced(p, price) \/ Conflicts(p, price)

Next ==
  \/ \E p \in Procs : LooksForNew(p) \/ Scanned(p) \/ Fails(p) \/ Crash(p)
  \/ \E p \in Procs, l \in Lots : Takes(p, l) \/ Asked(p, l)
  \/ \E l \in Lots :
       \/ Executes(l) \/ Decides(l)
       \/ PrepareFails(l) /\ UNCHANGED rest
  \/ \E a \in asks : LookMisses(a) /\ UNCHANGED rest
  \/ Earns

Spec == Init /\ [][Next]_vars

\* The worker's interval scans again and again, so that every item is come to
\* for ever, by some process; an event loop forgets no task that is ready; the
\* network decides every claim it was sent.
Fairness ==
  /\ \A p \in Procs : WF_vars(Scanned(p)) /\ \A l \in Lots : WF_vars(Asked(p, l))
  /\ SF_vars(\E p \in Procs : LooksForNew(p))
  /\ \A l \in Lots :
       /\ SF_vars(\E p \in Procs : Takes(p, l))
       /\ WF_vars(Executes(l)) /\ WF_vars(Decides(l))

FairSpec == Spec /\ Fairness

-----------------------------------------------------------------------------
TypeOK ==
  /\ JournalTypeOK
  /\ scan \in [Procs -> Scans]
  /\ booked \in [Lots -> Prices \cup {None}] /\ routed \subseteq Lots
  /\ vault \in 0 .. MaxFees /\ earned \in 0 .. MaxFees /\ taken \in [Lots -> 0 .. MaxFees]

\* "Finalized lots remain accountable" (services.ts:234), and only those: what is
\* routed was booked, and what is booked is a claim that landed and took fees.
RoutedIsProved ==
  \A l \in Lots :
    /\ l \in routed => booked[l] # None
    /\ booked[l] # None => chain[l] = "landed" /\ taken[l] > 0

\* services.ts:265 checks for an open claim and then awaits a quote, an
\* inspection and a preparation: still no two claims of a creator are ever on
\* their way at once, and none is handed to the network twice.
OneClaimAtATime ==
  /\ \A l \in Lots : sends[l] <= 1
  /\ \A l, m \in Lots :
       l # m /\ sends[l] > 0 /\ sends[m] > 0 => ~(chain[l] = "pending" /\ chain[m] = "pending")

\* "Store the first verified valuation once, never recompute a conflicting claim
\* on restart" (services.ts:200).
FirstValuationStays ==
  [][\A l \in Lots : booked[l] # None => booked'[l] = booked[l]]_vars

\* Through crashes, failed quotes and stale answers, a claim that took fees is
\* routed in the end.
EveryClaimRoutes == \A l \in Lots : taken[l] > 0 ~> l \in routed

\* What keeps a creator's fees where they are: a claim that was signed and that
\* the chain never executed stays open for ever, for nothing in the program
\* retires it; or the bound on claims is reached.
Held == \/ \E l \in Lots : journal[l] \in Unresolved /\ chain[l] = "expired"
        \/ \A l \in Lots : signer[l].pc # "no"

\* Fees that make a claim worth $50 are claimed, or held for a person.
FeesAreClaimed == vault >= MinFees ~> vault < MinFees \/ Held
=============================================================================

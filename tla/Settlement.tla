----------------------------- MODULE Settlement -----------------------------
(***************************************************************************)
(* The Coinbase settlement adapters of server/agents/settlement.ts: a lot   *)
(* is sent to the exchange, its credit matched, and sold.  SOL goes by the  *)
(* transfer of server/agents/solana-transfer.ts and its journal, an EVM lot *)
(* by a bridge, whose own journal is not in this repository, and whose      *)
(* output is stored before it is matched: that, and no quote, is sold.      *)
(* Every network call has a deadline; a call that misses it goes on unseen. *)
(*                                                                          *)
(* The pipeline calls deposit and convert once per lot, after committing    *)
(* the phase that says so, and the two reconciling calls again and again.   *)
(* "credited", "exchange" and "sells" are the exchange's, not the program's. *)
(***************************************************************************)
EXTENDS TransactionJournal

VARIABLES
  bridged,   \* lots whose job.chain is not Solana
  phase,     \* agent_pipeline_jobs.phase, as far as these calls go
  row,       \* agent_settlements.payload: the fields it holds, {} for no row
  prep,      \* agent_solana_preparations
  call,      \* the adapter call each process has under way
  credited,  \* lots whose transfer Coinbase credited
  exchange,  \* what became of a lot's sell request
  sells      \* sell requests made

journalVars == <<journal, signer, asks, chain, sends>>
remote == <<bridged, credited, exchange, sells>>
vars == <<journalVars, faults, phase, row, prep, call, remote>>

Phases == {"new", "depositing", "deposited", "converting", "sold"}
Fields == {"row", "ref", "output", "txn", "sale", "order"}

\* Where a call awaits the network, and where it is between two statements.
Awaits == {"verifying", "sending", "asking", "bridging", "refreshing", "matching", "selling",
           "finding", "checking"}
Between == {"reserved", "resuming", "intending"}

\* "seen" is the payload the call read; "fresh" that the table still holds it.
\* Payloads are compared whole, and no two successive ones are equal: a refresh
\* stores a new verification time.
Calls == [pc : {"idle"} \cup Awaits \cup Between, lot : Lots \cup {None},
          seen : SUBSET Fields, fresh : BOOLEAN]

Idle == [pc |-> "idle", lot |-> None, seen |-> {}, fresh |-> FALSE]

Init ==
  /\ JournalInit
  /\ bridged \in SUBSET Lots
  /\ phase = [l \in Lots |-> "new"]
  /\ row = [l \in Lots |-> {}]
  /\ prep = {}
  /\ call = [p \in Procs |-> Idle]
  /\ credited = {}
  /\ exchange = [l \in Lots |-> "none"]
  /\ sells = [l \in Lots |-> 0]

Goto(p, label) == call' = [call EXCEPT ![p].pc = label]
Done(p) == call' = [call EXCEPT ![p] = Idle]

\* A process runs one task at a time, up to the task's next await.
Midway(p) ==
  {<<"execute", l>> : l \in {m \in Lots : signer[m].at = p
                                          /\ signer[m].pc \in {"inserted", "writing"}}}
  \cup {<<"reconcile", a>> : a \in {b \in asks : b.at = p /\ b.pc = "write"}}
  \cup (IF call[p].pc \in Between THEN {<<"call">>} ELSE {})

MayRun(p, task) == Midway(p) \subseteq {task}

-----------------------------------------------------------------------------
\* Mutant: the stored payload is not compared.
SaveBlindly(p, adds, label) ==
  /\ row' = [row EXCEPT ![call[p].lot] = call[p].seen \cup adds]
  /\ call' = [call EXCEPT ![p] = IF label = "idle" THEN Idle
                                 ELSE [@ EXCEPT !.pc = label, !.seen = @ \cup adds]]

\* save(): UPDATE ... WHERE job_id=? AND payload=?.  A call whose payload is no
\* longer the stored one holds; the others' payloads are stale after it.
Save(p, adds, label) ==
  LET l == call[p].lot IN
  IF call[p].fresh
  THEN /\ row' = [row EXCEPT ![l] = @ \cup adds]
       /\ call' = [q \in Procs |->
            IF q = p THEN IF label = "idle" THEN Idle
                          ELSE [call[p] EXCEPT !.pc = label, !.seen = @ \cup adds]
            ELSE IF call[q].lot = l THEN [call[q] EXCEPT !.fresh = FALSE] ELSE call[q]]
  ELSE UNCHANGED row /\ Done(p)

\* read(): the call takes the lot up at a label.
Reads(p, l, label) ==
  call' = [call EXCEPT ![p] = [pc |-> label, lot |-> l, seen |-> row[l], fresh |-> TRUE]]

-----------------------------------------------------------------------------
\* deposit().

Deposit(p, l) ==
  /\ call[p].pc = "idle" /\ MayRun(p, <<"call">>) /\ phase[l] = "new"
  /\ phase' = [phase EXCEPT ![l] = "depositing"]
  /\ Reads(p, l, "verifying")
  /\ UNCHANGED <<journalVars, faults, row, prep, remote>>

\* The destination is verified: the row is the submission reservation.
Reserve(p) ==
  /\ call[p].pc = "verifying" /\ MayRun(p, <<"call">>)
  /\ LET l == call[p].lot IN
     IF row[l] = {}
     THEN /\ row' = [row EXCEPT ![l] = {"row"}]
          /\ call' = [call EXCEPT ![p] = [@ EXCEPT !.pc = "reserved", !.seen = {"row"},
                                                   !.fresh = TRUE]]
     ELSE Done(p) /\ UNCHANGED row
  /\ UNCHANGED <<journalVars, faults, phase, prep, remote>>

\* The winner of the preparation row signs.
Sign(p) ==
  /\ prep' = prep \cup {call[p].lot}
  /\ signer' = [signer EXCEPT ![call[p].lot] = [at |-> p, pc |-> "preparing", val |-> "none"]]
  /\ Goto(p, "sending")
  /\ UNCHANGED <<row, journal, asks, chain, sends>>

\* The bridge's send(), which journals and submits, or throws.
BridgeSends(p) ==
  /\ \/ Handed(call[p].lot) /\ Goto(p, "sending") /\ UNCHANGED faults
     \/ Fault /\ Done(p) /\ UNCHANGED <<chain, sends>>
  /\ UNCHANGED <<row, prep, journal, signer, asks>>

\* send(): a loser returns the stored signature, or throws while there is none.
Send(p) ==
  /\ call[p].pc = "reserved" /\ MayRun(p, <<"call">>)
  /\ \/ call[p].lot \in bridged /\ BridgeSends(p)
     \/ call[p].lot \notin bridged \cup prep /\ Sign(p) /\ UNCHANGED faults
     \/ /\ call[p].lot \in prep
        /\ IF journal[call[p].lot] # "none" THEN Save(p, {"ref"}, "idle")
           ELSE Done(p) /\ UNCHANGED row
        /\ UNCHANGED <<prep, journalVars, faults>>
  /\ UNCHANGED <<phase, remote>>

\* send() settles in time.
Sent(p) ==
  /\ call[p].pc = "sending" /\ MayRun(p, <<"call">>)
  /\ \/ /\ \/ signer[call[p].lot].pc = "returned"
           \/ call[p].lot \in bridged /\ chain[call[p].lot] # "unsent"
        /\ Save(p, {"ref"}, "idle")
     \/ signer[call[p].lot].pc = "raised" /\ Done(p) /\ UNCHANGED row
  /\ UNCHANGED <<journalVars, faults, phase, prep, remote>>

-----------------------------------------------------------------------------
\* reconcileDeposit().

\* No proof of the transfer yet: one that may not have been sent is resumed.
Unproved(seen) == IF {"ref", "txn"} \cap seen = {} THEN "refreshing" ELSE "idle"

Proved(l, seen) == IF journal[l] = "confirmed" THEN "matching" ELSE Unproved(seen)

\* The row is read, and reconcile() of the transfer answers from the journal or
\* asks the network.
ReconcileDeposit(p, l) ==
  /\ call[p].pc = "idle" /\ MayRun(p, <<"call">>) /\ phase[l] = "depositing"
  /\ \/ /\ row[l] = {} /\ Reads(p, l, "verifying") /\ UNCHANGED asks
     \/ /\ row[l] # {} /\ l \in bridged /\ Reads(p, l, "bridging") /\ UNCHANGED asks
     \/ /\ row[l] # {} /\ l \notin bridged /\ journal[l] \notin Unresolved
        /\ Proved(l, row[l]) # "idle" /\ Reads(p, l, Proved(l, row[l])) /\ UNCHANGED asks
     \/ /\ row[l] # {} /\ journal[l] \in Unresolved
        /\ Reads(p, l, "asking") /\ asks' = asks \cup {Ask(l, p, "call")}
  /\ UNCHANGED <<journal, signer, chain, sends, faults, phase, row, prep, remote>>

\* The dispatcher's answer.
Told(p) ==
  /\ call[p].pc = "asking" /\ MayRun(p, <<"call">>)
  /\ \E a \in asks :
       /\ a.at = p /\ a.lot = call[p].lot /\ a.who = "call"
       /\ asks' = asks \ {a}
       /\ LET next == IF a.pc = "raised" THEN "idle"
                      ELSE IF a.val = "confirmed" THEN "matching" ELSE Unproved(call[p].seen) IN
          /\ a.pc \in {"returned", "raised"}
          /\ IF next = "idle" THEN Done(p) ELSE Goto(p, next)
  /\ UNCHANGED <<journal, signer, chain, sends, faults, phase, row, prep, remote>>

\* reconcile() of the bridge: nothing, or what it finally delivered, which is bound to
\* the row before Coinbase is asked for a receipt of it; later answers must be equal.
BridgeTold(p) ==
  /\ call[p].pc = "bridging" /\ MayRun(p, <<"call">>)
  /\ IF chain[call[p].lot] # "landed" THEN Done(p) /\ UNCHANGED row
     ELSE IF "output" \in call[p].seen THEN Goto(p, "matching") /\ UNCHANGED row
     ELSE Save(p, {"output"}, "matching")
  /\ UNCHANGED <<journalVars, faults, phase, prep, remote>>

\* The destination is verified anew and stored before anything is resumed.
Refresh(p) ==
  /\ call[p].pc = "refreshing" /\ MayRun(p, <<"call">>)
  /\ Save(p, {}, "resuming")
  /\ UNCHANGED <<journalVars, faults, phase, prep, remote>>

\* Mutant: a row is taken for proof that somebody is sending.
ResumeNever(p) ==
  /\ call[p].pc = "resuming" /\ MayRun(p, <<"call">>) /\ Done(p)
  /\ UNCHANGED <<journalVars, faults, phase, row, prep, remote>>

\* resumeUnsubmitted(): only where nobody ever prepared.
Resume(p) ==
  /\ call[p].pc = "resuming" /\ MayRun(p, <<"call">>)
  /\ \/ call[p].lot \notin prep /\ Sign(p)
     \/ call[p].lot \in prep /\ Done(p) /\ UNCHANGED <<row, prep, journalVars>>
  /\ UNCHANGED <<faults, phase, remote>>

\* The pipeline commits the phase a reconciling call earned.
Advance(l, from, to) == phase' = [phase EXCEPT ![l] = IF @ = from THEN to ELSE @]

\* Mutant: the finalized transfer is taken for the credit.
MatchAny(p) ==
  /\ call[p].pc = "matching" /\ MayRun(p, <<"call">>)
  /\ Save(p, {"txn"}, "idle")
  /\ Advance(call[p].lot, "depositing", "deposited")
  /\ UNCHANGED <<journalVars, faults, prep, remote>>

\* The account's transactions are searched for the credit, once it is stored the
\* stored one is verified again.
Match(p) ==
  /\ call[p].pc = "matching" /\ MayRun(p, <<"call">>)
  /\ LET l == call[p].lot IN
     \/ /\ l \notin credited /\ Done(p) /\ UNCHANGED <<row, phase>>
     \/ /\ l \in credited
        /\ IF "txn" \in call[p].seen THEN Done(p) /\ UNCHANGED row
           ELSE Save(p, {"txn"}, "idle")
        /\ IF "txn" \in call[p].seen \/ call[p].fresh
           THEN Advance(l, "depositing", "deposited") ELSE UNCHANGED phase
  /\ UNCHANGED <<journalVars, faults, prep, remote>>

-----------------------------------------------------------------------------
\* convert() and reconcileConversion().

Convert(p, l) ==
  /\ call[p].pc = "idle" /\ MayRun(p, <<"call">>) /\ phase[l] = "deposited"
  /\ phase' = [phase EXCEPT ![l] = "converting"]
  /\ IF "txn" \in row[l] /\ {"sale", "order"} \cap row[l] = {}
     THEN Reads(p, l, "intending") ELSE UNCHANGED call
  /\ UNCHANGED <<journalVars, faults, row, prep, remote>>

\* The sale intent is stored, then the sell request leaves.
Intend(p) ==
  /\ call[p].pc = "intending" /\ MayRun(p, <<"call">>)
  /\ Save(p, {"sale"}, "selling")
  /\ IF call[p].fresh
     THEN /\ sells' = [sells EXCEPT ![call[p].lot] = @ + 1]
          /\ exchange' = [exchange EXCEPT ![call[p].lot] = "flying"]
     ELSE UNCHANGED <<sells, exchange>>
  /\ UNCHANGED <<journalVars, faults, phase, prep, bridged, credited>>

\* createMarketSell() answers, or its deadline passes.
Sold(p) ==
  /\ call[p].pc = "selling" /\ MayRun(p, <<"call">>)
  /\ \/ exchange[call[p].lot] = "placed" /\ Save(p, {"order"}, "idle")
     \/ exchange[call[p].lot] = "lost" /\ Done(p) /\ UNCHANGED row
  /\ UNCHANGED <<journalVars, faults, phase, prep, remote>>

ReconcileConversion(p, l) ==
  /\ call[p].pc = "idle" /\ MayRun(p, <<"call">>) /\ phase[l] = "converting"
  /\ "txn" \in row[l]
  /\ Reads(p, l, IF "sale" \notin row[l] THEN "intending"
                 ELSE IF "order" \notin row[l] THEN "finding" ELSE "checking")
  /\ UNCHANGED <<journalVars, faults, phase, row, prep, remote>>

\* findMarketSell(): read-only recovery of a lost answer.
Find(p) ==
  /\ call[p].pc = "finding" /\ MayRun(p, <<"call">>)
  /\ IF exchange[call[p].lot] = "placed" THEN Save(p, {"order"}, "checking")
     ELSE Done(p) /\ UNCHANGED row
  /\ UNCHANGED <<journalVars, faults, phase, prep, remote>>

\* reconcileMarketSell() finds the order filled and settled.
Check(p) ==
  /\ call[p].pc = "checking" /\ MayRun(p, <<"call">>)
  /\ Advance(call[p].lot, "converting", "sold") /\ Done(p)
  /\ UNCHANGED <<journalVars, faults, row, prep, remote>>

-----------------------------------------------------------------------------
\* The await throws or its deadline passes; what it awaited goes on.
Hold(p) ==
  /\ call[p].pc \in Awaits /\ Fault /\ Done(p)
  /\ LET mine == {a \in asks : a.at = p /\ a.who = "call"} IN
     asks' = (asks \ mine) \cup
             {[a EXCEPT !.who = "late"] : a \in {b \in mine : b.pc \notin {"returned", "raised"}}}
  /\ UNCHANGED <<journal, signer, chain, sends, phase, row, prep, remote>>

Crash(p) ==
  /\ JournalCrash(p) /\ Done(p)
  /\ UNCHANGED <<phase, row, prep, remote>>

\* Coinbase credits what landed, and accepts or never gets a sell request.
Credit(l) ==
  /\ chain[l] = "landed" /\ credited' = credited \cup {l}
  /\ UNCHANGED <<journalVars, faults, phase, row, prep, call, bridged, exchange, sells>>

Exchange(l) ==
  /\ exchange[l] = "flying" /\ exchange' = [exchange EXCEPT ![l] = "placed"]
  /\ UNCHANGED <<journalVars, faults, phase, row, prep, call, bridged, credited, sells>>

RequestLost(l) ==
  /\ exchange[l] = "flying" /\ Fault /\ exchange' = [exchange EXCEPT ![l] = "lost"]
  /\ UNCHANGED <<journalVars, phase, row, prep, call, bridged, credited, sells>>

rest == <<phase, row, prep, call, remote>>

\* The dispatcher's calls, each on the thread of its process.
Executes(l) ==
  signer[l].at # None /\ MayRun(signer[l].at, <<"execute", l>>) /\ Execute(l) /\ UNCHANGED rest
Reconciles(a) == MayRun(a.at, <<"reconcile", a>>) /\ Reconcile(a) /\ UNCHANGED rest
Dispatches(l) ==
  Executes(l) \/ \E a \in asks : a.lot = l /\ Reconciles(a)

NewCall(p, l) ==
  \/ Deposit(p, l) \/ ReconcileDeposit(p, l) \/ Convert(p, l) \/ ReconcileConversion(p, l)

Resumed(p) ==
  \/ Reserve(p) \/ Send(p) \/ Sent(p) \/ Told(p) \/ BridgeTold(p) \/ Refresh(p)
  \/ Resume(p) \/ Match(p) \/ Intend(p) \/ Sold(p) \/ Find(p) \/ Check(p)

Next ==
  \/ \E p \in Procs, l \in Lots : NewCall(p, l)
  \/ \E p \in Procs : Resumed(p) \/ Hold(p) \/ Crash(p)
  \/ \E l \in Lots :
       \/ Dispatches(l) \/ Credit(l) \/ Exchange(l) \/ RequestLost(l)
       \/ Decide(l) /\ UNCHANGED rest
       \/ PrepareFails(l) /\ MayRun(signer[l].at, <<"execute", l>>) /\ UNCHANGED rest
  \/ \E a \in asks : LookMisses(a) /\ UNCHANGED rest

Spec == Init /\ [][Next]_vars

-----------------------------------------------------------------------------
TypeOK ==
  /\ JournalTypeOK
  /\ phase \in [Lots -> Phases]
  /\ row \in [Lots -> SUBSET Fields]
  /\ bridged \subseteq Lots /\ prep \subseteq Lots \ bridged /\ credited \subseteq Lots
  /\ call \in [Procs -> Calls]
  /\ exchange \in [Lots -> {"none", "flying", "placed", "lost"}]
  /\ sells \in [Lots -> Nat]

\* README.md, "Persistence, failure handling": "External side effects are preceded by
\* a durable reservation or signed transaction journal", and tests/agent-settlement
\* "concurrent recovery workers cannot duplicate an unstarted transfer or sale":
\* through timeouts that leave a call running, crashes and other processes, a lot
\* is sent once and sold once, and never before the rows that say so.
SubmitOnce ==
  \A l \in Lots :
    /\ sends[l] <= 1 /\ sells[l] <= 1
    /\ sends[l] = 1 => /\ "row" \in row[l]
                       /\ l \notin bridged => l \in prep /\ journal[l] \notin {"none", "prepared"}
    /\ sells[l] = 1 => "sale" \in row[l]

\* "A confirmed deposit is not fiat conversion" (README.md): nothing is sold but
\* what landed and was credited, a bridged lot only at its final output ("A bridge
\* quote cannot become a sale amount"), and a lot is called sold for its own order.
EvidenceBacked ==
  \A l \in Lots :
    /\ sells[l] > 0 => chain[l] = "landed" /\ l \in credited
    /\ sells[l] > 0 /\ l \in bridged => "output" \in row[l]
    /\ phase[l] = "sold" => exchange[l] = "placed" /\ "order" \in row[l]

\* No phase is ahead of the money, nor a row of its type.
SoldIsBacked == TypeOK /\ EvidenceBacked

\* docs/coinbase.md, "Persist the immutable sale request": no late call takes a
\* reference, a deposit identity, a sale or an order out of the stored payload.
NeverForgets == [][\A l \in Lots : row[l] \subseteq row'[l]]_vars

\* "A finalized transaction cannot change state" (transaction-journal.ts:92).
FinalStays ==
  [][\A l \in Lots : journal[l] \in Final => journal'[l] = journal[l]]_vars

-----------------------------------------------------------------------------
\* A network that decides, and an exchange that credits and accepts.
Providers ==
  \A l \in Lots : WF_vars(Decide(l) /\ UNCHANGED rest) /\ WF_vars(Credit(l)) /\ WF_vars(Exchange(l))

\* Scheduling: the pipeline keeps coming back to every lot, and an event loop
\* forgets no task that is ready.
FairSpec ==
  /\ Spec /\ Providers
  /\ \A p \in Procs : WF_vars(Resumed(p))
  /\ \A l \in Lots :
       SF_vars(\E p \in Procs : NewCall(p, l)) /\ SF_vars(Executes(l)) /\ SF_vars(\E a \in asks : a.lot = l /\ Reconciles(a))

\* What the code holds for review: a preparation without a transaction, whether
\* interrupted or crowded out by another lot of the wallet; a row whose bridge was
\* never asked, for it resumes nothing; a transaction that
\* reverted or expired; a sale whose request never arrived.
HeldForReview(l) ==
  \/ l \in prep /\ journal[l] = "none" /\ signer[l].pc \in {"raised", "dead"}
  \/ /\ l \in bridged /\ row[l] # {} /\ sends[l] = 0
     /\ ~\E p \in Procs : call[p].lot = l /\ call[p].pc = "reserved"
  \/ chain[l] \in {"reverted", "expired"}
  \/ exchange[l] = "lost"

\* "Restarted workers reconcile the original operation. Safe read-only failures
\* can retry" (README.md): whatever else fails, a lot is sold in the end.
EveryLotSells ==
  \A l \in Lots :
    phase[l] = "depositing" ~> phase[l] = "sold" \/ HeldForReview(l)
=============================================================================

------------------------------ MODULE EvmSource ------------------------------
(***************************************************************************)
(* The EVM fee source of server/agents/evm-source.ts over the transaction   *)
(* executor of server/chains/execution.ts, its journal (journal.ts) and the *)
(* Flap adapter (chains/index.ts), for the tokens of one chain, which one   *)
(* account signs for.  A scan numbers each token's claims; a claim is       *)
(* stored, signed under a lock that a crash leaves behind, sent, read back, *)
(* and its amount put into an outbox as a fee lot.                          *)
(*                                                                          *)
(* "chain" and "fees" belong to the chain: a transaction may be dropped     *)
(* from the pool, and a block be reorganised until it is as deep as the     *)
(* confirmations asked for.  An error is stored in "issue", which nothing   *)
(* reads: here the work just goes on.  The PONs chain (shared escrow,       *)
(* external payout evidence) is left out.                                   *)
(***************************************************************************)
EXTENDS Integers, FiniteSets

CONSTANTS
  Procs,       \* processes sharing the database
  Tokens,
  Launched,    \* tokens that were launched and registered before
  MinClaim,    \* minimumClaimWei
  MaxClaims,   \* bound on the claims of each token
  MaxFees,     \* bound on the fees a token holds
  MaxFaults,   \* bound on crashes, lost answers, dropped and reorganised blocks
  None         \* nothing

ASSUME EvmAssumption ==
  /\ Launched \subseteq Tokens
  /\ MinClaim \in Nat \ {0} /\ MaxClaims \in [Tokens -> Nat] /\ MaxFees \in Nat /\ MaxFaults \in Nat
  /\ None \notin Nat \cup Procs \cup Tokens /\ "dead" \notin Procs

\* Intent 0 of a token is its launch, intent n its n-th claim.
Claims == UNION {{k} \X (1 .. MaxClaims[k]) : k \in Tokens}
Intents == (Tokens \X {0}) \cup Claims

VARIABLES
  seq,       \* evm_launch_registry: the sequence of a registered token
  job,       \* evm_launch_intents and evm_claim_jobs
  outbox,    \* evm_fee_outbox: the amount of a claim's lot
  binding,   \* tokens whose launch the journal knows (token:56:...)
  journal,   \* the execution journal's record of each intent
  account,   \* and of the account
  scanLock,  \* evm_source_locks
  signLock,  \* chain_execution_locks
  task,      \* what each process is doing
  chain,     \* the chain's knowledge of each intent's transaction
  fees,      \* the chain: fees a token has earned and not paid out
  faults     \* counts faults

source == <<seq, job, outbox>>
signer == <<journal, account, binding>>
locks == <<scanLock, signLock>>
world == <<chain, fees>>
vars == <<source, signer, locks, task, world, faults>>

Nonces == 0 .. Cardinality(Intents)
Records == [status : {"none", "reserved", "signed"}, nonce : Nonces \cup {None}]
NoRecord == [status |-> "none", nonce |-> None]
Txs == [at : {"none", "pool", "mined", "final"}, block : Nat, ok : BOOLEAN,
        amount : 0 .. MaxFees]
NoTx == [at |-> "none", block |-> 0, ok |-> FALSE, amount |-> 0]
Idle == [pc |-> "idle", kind |-> "scan", rest |-> {}, of |-> None, nonce |-> None,
         seen |-> NoTx]

Init ==
  /\ seq = [k \in Tokens |-> IF k \in Launched THEN 0 ELSE None]
  /\ job = [i \in Intents |-> "none"]
  /\ outbox = [i \in Claims |-> None]
  /\ binding = Launched
  /\ journal = [i \in Intents |-> NoRecord] /\ account = NoRecord
  /\ scanLock = None /\ signLock = None
  /\ task = [p \in Procs |-> Idle]
  /\ chain = [i \in Intents |-> NoTx]
  /\ fees = [k \in Tokens |-> 0]
  /\ faults = 0

-----------------------------------------------------------------------------
\* The ends of a step.

Goes(p, pc) == task' = [task EXCEPT ![p].pc = pc]

\* `continue', or the catch of the loop's body; a launch just ends.
GoesOn(p) ==
  task' = [task EXCEPT ![p] = IF @.kind = "scan" THEN [Idle EXCEPT !.pc = "next", !.rest = task[p].rest]
                              ELSE Idle]

\* Mutant: a failed execution keeps the account's lock.
ReleasedNever(p) == UNCHANGED signLock

\* The finally of exclusive().
Released(p) == signLock' = IF signLock = p THEN None ELSE signLock

\* An await rejects; nothing that was written is taken back.
Fails(p) ==
  /\ task[p].pc \notin {"idle", "next"}
  /\ GoesOn(p) /\ Released(p)
  /\ UNCHANGED <<source, signer, scanLock, world>>

-----------------------------------------------------------------------------
\* scan().

\* The lock row is this scan's; the registry is read once.
ScanStarts(p) ==
  /\ task[p] = Idle /\ scanLock = None
  /\ scanLock' = p
  /\ task' = [task EXCEPT ![p].pc = "next",
                ![p].rest = {i \in Claims : seq[i[1]] = i[2] - 1}]
  /\ UNCHANGED <<source, signer, signLock, world, faults>>

\* The next token: its stored claim, or a new one if the policy lets it.
Takes(p, i) ==
  /\ task[p].pc = "next" /\ i \in task[p].rest
  /\ \E next \in IF job[i] # "none" THEN {"execute"} ELSE {"build", "next"} :
       task' = [task EXCEPT ![p].pc = next, ![p].of = i, ![p].rest = @ \ {i}]
  /\ UNCHANGED <<source, signer, locks, world, faults>>

\* claimableNative(): what a claim would pay.
Claimable(i) == fees[i[1]] >= MinClaim

\* verifyClaim(): the token's launch is in the journal, with this recipient.
Bound(i) == i[1] \in binding

\* claimableNative() and buildClaim() have answered: the claim is inserted, unless
\* there is too little to claim or the primary key refuses it.
Builds(p) ==
  LET i == task[p].of IN
  /\ task[p].pc = "build"
  /\ IF Claimable(i) /\ Bound(i) /\ job[i] = "none"
     THEN job' = [job EXCEPT ![i] = "pending"] /\ Goes(p, "execute")
     ELSE GoesOn(p) /\ UNCHANGED job
  /\ UNCHANGED <<seq, outbox, signer, locks, world, faults>>

ScanEnds(p) ==
  /\ task[p].pc = "next" /\ task[p].rest = {}
  /\ task' = [task EXCEPT ![p] = Idle]
  /\ scanLock' = IF scanLock = p THEN None ELSE scanLock
  /\ UNCHANGED <<source, signer, signLock, world, faults>>

\* buildLaunch(): the intent that launches a token.
LaunchOf(k) == <<k, 0>>

\* executeLaunch(); once more for a launch that recoverLaunches() finds when a process
\* starts (starts are counted among the faults).
LaunchStarts(p, k) ==
  /\ task[p] = Idle /\ k \notin Launched /\ seq[k] = None
  /\ IF job[LaunchOf(k)] = "none" THEN UNCHANGED faults
     ELSE faults < MaxFaults /\ faults' = faults + 1
  /\ job' = [job EXCEPT ![LaunchOf(k)] = "pending"]
  /\ task' = [task EXCEPT ![p] = [Idle EXCEPT !.pc = "execute", !.kind = "launch",
                                             !.of = LaunchOf(k)]]
  /\ UNCHANGED <<seq, outbox, signer, locks, world>>

-----------------------------------------------------------------------------
\* EvmExecution.execute(), under the account's lock.

\* Stored bytes are answered with their hash; a reservation without bytes, and a
\* lock that is held, are errors.
Enters(p) ==
  /\ task[p].pc = "execute" /\ signLock = None
  /\ CASE journal[task[p].of].status = "signed" -> Goes(p, "reconcile") /\ UNCHANGED signLock
       [] journal[task[p].of].status = "reserved" -> GoesOn(p) /\ UNCHANGED signLock
       [] OTHER -> Goes(p, "nonce") /\ signLock' = p
  /\ UNCHANGED <<source, signer, scanLock, world, faults>>

Onchain(i) == chain[i].at \in {"mined", "final"}

\* eth_getTransactionCount(pending): the first nonce neither mined nor in the pool.
PendingCount(n) ==
  LET taken == {journal[i].nonce : i \in {j \in Intents : chain[j].at # "none"}} IN
  n \notin taken /\ 0 .. n - 1 \subseteq taken

\* The simulation, the gas price and the nonce are read.
Counts(p) ==
  /\ task[p].pc = "nonce"
  /\ \E n \in Nonces :
       PendingCount(n) /\ task' = [task EXCEPT ![p].pc = "reserve", ![p].nonce = n]
  /\ UNCHANGED <<source, signer, locks, world, faults>>

\* Mutant: the pending count is trusted.
NonceAny(n) == account.status # "reserved"

\* The account's last transaction is signed and lies behind this nonce.
NonceFree(n) == account.status = "none" \/ (account.status = "signed" /\ n > account.nonce)

\* put(account, reserved).
Reserves(p) ==
  LET n == task[p].nonce IN
  /\ task[p].pc = "reserve"
  /\ IF NonceFree(n)
     THEN /\ account' = [status |-> "reserved", nonce |-> n]
          /\ Goes(p, "mark") /\ UNCHANGED signLock
     ELSE GoesOn(p) /\ Released(p) /\ UNCHANGED account
  /\ UNCHANGED <<source, journal, binding, scanLock, world, faults>>

\* The journal's put().
Put(i, record) == journal' = [journal EXCEPT ![i] = record]

\* put(key, reserved).
Marks(p) ==
  /\ task[p].pc = "mark"
  /\ Put(task[p].of, [status |-> "reserved", nonce |-> task[p].nonce])
  /\ Goes(p, "sign")
  /\ UNCHANGED <<source, account, binding, locks, world, faults>>

\* assertSigned(): what is stored has the nonce that was reserved.
Signed(i) == [journal[i] EXCEPT !.status = "signed"]

\* The vault signs; put(key, signed).
Signs(p) ==
  /\ task[p].pc = "sign"
  /\ Put(task[p].of, Signed(task[p].of))
  /\ Goes(p, "settle")
  /\ UNCHANGED <<source, account, binding, locks, world, faults>>

\* put(account, signed).
Settles(p) ==
  /\ task[p].pc = "settle"
  /\ account' = [account EXCEPT !.status = "signed"]
  /\ Goes(p, "send")
  /\ UNCHANGED <<source, journal, binding, locks, world, faults>>

\* The pool takes bytes it does not know whose nonce is still open.
Accepts(i) ==
  /\ chain[i].at = "none"
  /\ \A j \in Intents : chain[j].at # "none" => journal[j].nonce # journal[i].nonce

Sent(i) == chain' = IF Accepts(i) THEN [chain EXCEPT ![i].at = "pool"] ELSE chain

\* eth_sendRawTransaction(): it arrives or not, and so does its answer.
Sends(p) ==
  /\ task[p].pc = "send"
  /\ \/ Sent(task[p].of) /\ Goes(p, "reconcile") /\ UNCHANGED faults
     \/ /\ faults < MaxFaults /\ faults' = faults + 1
        /\ Sent(task[p].of) \/ UNCHANGED chain
        /\ GoesOn(p)
  /\ Released(p)
  /\ UNCHANGED <<source, signer, scanLock, fees>>

\* rebroadcast(), which an operator calls: the stored bytes again.
Rebroadcasts(i) ==
  /\ signLock = None /\ journal[i].status = "signed" /\ Accepts(i)
  /\ Sent(i)
  /\ UNCHANGED <<source, signer, locks, task, fees, faults>>

-----------------------------------------------------------------------------
\* reconcile(): receipt(), and the adapter's reading of the logs.

\* eth_getTransactionReceipt.
Receipt(p) ==
  /\ task[p].pc = "reconcile"
  /\ IF Onchain(task[p].of)
     THEN task' = [task EXCEPT ![p].pc = "confirm", ![p].seen = chain[task[p].of]]
     ELSE GoesOn(p)
  /\ UNCHANGED <<source, signer, locks, world, faults>>

\* Mutant: the depth is looked at, but not whether the block is canonical.
CanonicalHeight(p) == chain[task[p].of].at = "final"

\* eth_blockNumber and eth_getBlockByNumber: deep enough, and the receipt's block.
Canonical(p) ==
  LET tx == chain[task[p].of] IN tx.at = "final" /\ tx.block = task[p].seen.block

\* A launch is noted in the journal; a revert is left to a review.
Confirms(p) ==
  LET i == task[p].of IN
  /\ task[p].pc = "confirm"
  /\ IF Canonical(p) /\ task[p].seen.ok
     THEN /\ Goes(p, "commit")
          /\ binding' = IF i[2] = 0 THEN binding \cup {i[1]} ELSE binding
     ELSE GoesOn(p) /\ UNCHANGED binding
  /\ UNCHANGED <<source, journal, account, locks, world, faults>>

\* registerConfirmedLaunch(): the evidence is read again, the identity verified.
Registers(p) ==
  LET k == task[p].of[1] IN
  /\ task[p].pc = "commit" /\ task[p].kind = "launch"
  /\ seq' = IF seq[k] = None THEN [seq EXCEPT ![k] = 0] ELSE seq
  /\ GoesOn(p)
  /\ UNCHANGED <<job, outbox, signer, locks, world, faults>>

\* UPDATE ... SET sequence=sequence+1 WHERE key=? AND sequence=?
Numbered(i) == IF seq[i[1]] = i[2] - 1 THEN [seq EXCEPT ![i[1]] = @ + 1] ELSE seq

\* No lot has this evidence.
Fresh(i) == outbox[i] = None

\* The transaction: lot, job and number.
Commits(p) ==
  LET i == task[p].of  amount == task[p].seen.amount IN
  /\ task[p].pc = "commit" /\ task[p].kind = "scan"
  /\ IF amount = 0 \/ Fresh(i)
     THEN /\ outbox' = IF amount = 0 THEN outbox ELSE [outbox EXCEPT ![i] = amount]
          /\ job' = [job EXCEPT ![i] = "complete"]
          /\ seq' = Numbered(i)
     ELSE UNCHANGED source
  /\ GoesOn(p)
  /\ UNCHANGED <<signer, locks, world, faults>>

-----------------------------------------------------------------------------
\* Crashes, the operator, and the chain.

Crash(p) ==
  /\ faults < MaxFaults /\ faults' = faults + 1 /\ task[p] # Idle
  /\ task' = [task EXCEPT ![p] = Idle]
  /\ scanLock' = IF scanLock = p THEN "dead" ELSE scanLock
  /\ signLock' = IF signLock = p THEN "dead" ELSE signLock
  /\ UNCHANGED <<source, signer, world>>

\* An operator removes the lock of a scan: after a crash, or (a fault) of one that
\* only seemed to be dead and goes on.
ClearsScan ==
  /\ scanLock # None
  /\ \/ scanLock = "dead" /\ UNCHANGED faults
     \/ scanLock # "dead" /\ faults < MaxFaults /\ faults' = faults + 1
  /\ scanLock' = None
  /\ UNCHANGED <<source, signer, signLock, task, world>>

\* The signer's lock is removed once its process is known to be gone.
ClearsSigner ==
  /\ signLock = "dead" /\ signLock' = None
  /\ UNCHANGED <<source, signer, scanLock, task, world, faults>>

OnlyChain == UNCHANGED <<source, signer, locks, task>>

Trades(k) ==
  /\ seq[k] # None /\ seq[k] < MaxClaims[k] /\ fees[k] < MaxFees
  /\ fees' = [fees EXCEPT ![k] = @ + 1]
  /\ OnlyChain /\ UNCHANGED <<chain, faults>>

\* The account's next nonce is mined; a claim pays out all that its token holds.
Mines(i, ok) ==
  LET amount == IF ok /\ i[2] > 0 THEN fees[i[1]] ELSE 0 IN
  /\ chain[i].at = "pool"
  /\ journal[i].nonce = Cardinality({j \in Intents : Onchain(j)})
  /\ chain' = [chain EXCEPT ![i] = [at |-> "mined", block |-> @.block + 1, ok |-> ok,
                                    amount |-> amount]]
  /\ fees' = [fees EXCEPT ![i[1]] = @ - amount]
  /\ OnlyChain /\ UNCHANGED faults

Before(i) == {j \in Intents : Onchain(j) /\ journal[j].nonce < journal[i].nonce}

\* The block becomes as deep as the confirmations ask.
Deepens(i) ==
  /\ chain[i].at = "mined" /\ \A j \in Before(i) : chain[j].at = "final"
  /\ chain' = [chain EXCEPT ![i].at = "final"]
  /\ OnlyChain /\ UNCHANGED <<fees, faults>>

\* The last block is replaced: its transaction is back in the pool.
Reorgs(i) ==
  /\ faults < MaxFaults /\ faults' = faults + 1
  /\ chain[i].at = "mined" /\ Cardinality(Before(i)) + 1 = Cardinality({j \in Intents : Onchain(j)})
  /\ fees[i[1]] + chain[i].amount <= MaxFees
  /\ chain' = [chain EXCEPT ![i] = [NoTx EXCEPT !.at = "pool", !.block = chain[i].block]]
  /\ fees' = [fees EXCEPT ![i[1]] = @ + chain[i].amount]
  /\ OnlyChain

\* Somebody else has the token's fees paid out to the recipient.
Sweeps(k) ==
  /\ faults < MaxFaults /\ faults' = faults + 1
  /\ fees[k] > 0 /\ fees' = [fees EXCEPT ![k] = 0]
  /\ OnlyChain /\ UNCHANGED chain

Drops(i) ==
  /\ faults < MaxFaults /\ faults' = faults + 1
  /\ chain[i].at = "pool"
  /\ chain' = [chain EXCEPT ![i].at = "none"]
  /\ OnlyChain /\ UNCHANGED fees

Execution(p) ==
  \/ Enters(p) \/ Counts(p) \/ Reserves(p) \/ Marks(p) \/ Signs(p) \/ Settles(p)
  \/ Sends(p) \/ Receipt(p) \/ Confirms(p) \/ Registers(p) \/ Commits(p)

Work(p) ==
  \/ ScanStarts(p) \/ ScanEnds(p) \/ Builds(p) \/ Execution(p)
  \/ \E i \in Claims : Takes(p, i)
  \/ \E k \in Tokens : LaunchStarts(p, k)

\* A call that rejects, as every read does of a network or a contract that is not
\* the one expected; waiting for the signer's lock does so at once.
Rejects(p) ==
  /\ Fails(p)
  /\ \/ task[p].pc = "execute" /\ signLock # None /\ UNCHANGED faults
     \/ faults < MaxFaults /\ faults' = faults + 1

Chain ==
  \/ \E k \in Tokens : Trades(k) \/ Sweeps(k)
  \/ \E i \in Intents : \/ \E ok \in BOOLEAN : Mines(i, ok)
                        \/ Deepens(i) \/ Reorgs(i) \/ Drops(i)

Operator == ClearsScan \/ ClearsSigner \/ \E i \in Intents : Rebroadcasts(i)

Next == (\E p \in Procs : Work(p) \/ Rejects(p) \/ Crash(p)) \/ Chain \/ Operator

Spec == Init /\ [][Next]_vars

\* A process finishes what it began, some process scans in every cycle and finds the
\* signer free, the chain includes what is in its pool, the operator does what the
\* errors ask for.
Locked(p) == task[p].pc = "execute" /\ Rejects(p) /\ UNCHANGED faults
Runs(p) ==
  \/ Execution(p) \/ Locked(p) \/ Builds(p) \/ ScanEnds(p)
  \/ \E i \in Claims : Takes(p, i)

Fairness ==
  /\ \A p \in Procs : WF_vars(Runs(p))
  /\ SF_vars(\E p \in Procs : ScanStarts(p))
  /\ SF_vars(\E p \in Procs : task[p].kind = "scan" /\ Enters(p))
  /\ WF_vars(ClearsSigner \/ (scanLock = "dead" /\ ClearsScan))
  /\ WF_vars(\E i \in Intents : Deepens(i) \/ \E ok \in BOOLEAN : Mines(i, ok))
  /\ SF_vars(\E i \in Intents : Rebroadcasts(i))

FairSpec == Spec /\ Fairness

-----------------------------------------------------------------------------
\* Every variable has its type.
TypeOK ==
  /\ \A k \in Tokens : seq[k] \in 0 .. MaxClaims[k] \cup {None}
  /\ job \in [Intents -> {"none", "pending", "complete"}]
  /\ outbox \in [Claims -> 1 .. MaxFees \cup {None}]
  /\ binding \subseteq Tokens
  /\ journal \in [Intents -> Records] /\ account \in Records
  /\ scanLock \in Procs \cup {None, "dead"} /\ signLock \in Procs \cup {None, "dead"}
  /\ chain \in [Intents -> Txs] /\ fees \in [Tokens -> 0 .. MaxFees]
  /\ \A p \in Procs : task[p].pc # "idle" => task[p].rest \subseteq Claims
                                             /\ task[p].of \in Intents \cup {None}

\* No two intents ever sign for the same nonce, of which one could only replace the
\* other, also after crashes and when the pool forgets (the account's record).
NonceOnce ==
  \A i, j \in Intents :
    (i # j /\ journal[i].status = "signed" /\ journal[j].status = "signed")
      => journal[i].nonce # journal[j].nonce

\* A lot is what a claim paid out in a block that is final, and a completed claim
\* has left its lot: nothing of a block that was replaced (receipt, commit).
LotsAreFinal ==
  \A i \in Claims :
    /\ outbox[i] # None => chain[i].at = "final" /\ chain[i].ok /\ chain[i].amount = outbox[i]
    /\ job[i] = "complete" /\ chain[i].amount > 0 => outbox[i] # None

\* The sequence of a token counts its completed claims, whichever scans raced: no
\* number is skipped, none is given out twice (the guarded UPDATE).
SequenceCounts ==
  \A k \in Tokens : seq[k] # None =>
    {n \in 1 .. MaxClaims[k] : job[<<k, n>>] = "complete"} = 1 .. seq[k]

\* The outbox holds each claim's final payment once, under its number.
LotsCount == TypeOK /\ LotsAreFinal /\ SequenceCounts

\* A claim that was signed is paid into the outbox, unless it reverted or paid
\* nothing: through crashes, stale locks, lost answers, drops and reorganisations.
SignedArrives ==
  \A i \in Claims :
    journal[i].status = "signed" ~>
      (job[i] = "complete" \/ (chain[i].at = "final" /\ ~chain[i].ok))
=============================================================================

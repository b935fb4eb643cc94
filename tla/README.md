# A TLA+ development for pogdotfun

pogdotfun lets a streamer's community launch a coin; the creator fees of the coin are claimed on
chain, four fifths of every claim are turned into a gift purchase for the streamer, and one fifth
buys and burns POG. Nobody approves a payment by hand: the server does all of it, across several
processes, crashes, timeouts and providers that answer late or not at all. What can go wrong is
paying twice, paying what is not there, or forgetting what was claimed. This directory models that
machinery, checks it with TLC and proves the parts that matter most with TLAPS.

File names below are relative to the repository root; every module names the files it models.

## 1. Inventory

### 1.1 The path of a fee

```
 launch page  src/pages/Launch.tsx -> launch service  launch/*  -> a token with a creator wallet
                                                                        |  fees
 Solana claims  services.ts, providers/pump-solana.ts        EVM source  agents/evm-source.ts
   over the transaction journal                                over the executor  chains/*
      |  scan, prove, value once, book in the ledger                    |  scan, sign, confirm
      v                                                                 v
 native fee router -- one transaction --> split, outbox, pipeline job       agents/fee-router.ts
      |  outbox, handed over and acknowledged by services.ts    |
      v                                                         v
 buyback worker  agents/buyback.ts                streamer pipeline  agents/pipeline.ts
   transfer -> buy -> burn                          deposit -> conversion -> gift
      |                                                |        |          |
 bridge, swap and burn adapters                   settlement  Coinbase  browser runner
                                                       |                   |
                                          Solana transfer ->          live gate, drivers of
                                          transaction journal         the two shops

 beside it: the operations ledger (operations.ts), and the testing budget over its payments
```

All state lives in SQLite (WAL, `BEGIN IMMEDIATE`, `server/app.ts:214`). Several processes may
share the file; within a process, JavaScript interleaves at every `await`, and only there. A
component therefore has two kinds of state: rows, which survive, and the snapshot a function took
before its last `await`, which may be old when it is used.

### 1.2 Components

| Component | State it keeps | Operations | What makes it hard | What makes it correct |
|---|---|---|---|---|
| Streamer pipeline, `agents/pipeline.ts` | fee jobs (phase, revision, payload), cursor, funding evidence, card reservations, receipts | `recordClaim`, `runOnce` over a bounded slice | racing workers with old snapshots; crash between commit and call; issuer's credit observed earlier; evidence and phase in two commits | each call once and after its commit; card never overcommitted; one reference funds one job; no lot is starved |
| Native fee router, `agents/fee-router.ts` | splits, outbox | `recordClaim`, `buybackLots`, `acknowledgeBuyback` | redelivery, the same claim under two ids, lots of an earlier release, crash between hand-over and acknowledgement | shares add up; a claim is split once; acknowledged means durable |
| Buyback worker, `agents/buyback.ts` | buyback jobs, evidence, cursor, target | `recordClaim`, `runOnce` | like the pipeline, plus integer limits on fees, minimum outputs and residuals | each stage submitted once; a transaction serves one stage; the books balance; the burn can be paid for |
| Services, `services.ts` | running cycle, scan promise, active workers | `runOnce`, `close`, Solana claim and ingest | overlapping scans; a check for open claims that awaits before it acts; booking and routing in two commits | one claim of a creator at a time; only proved amounts are routed, and every one of them |
| Settlement, `agents/settlement.ts` | settlement rows | deposit, reconcile, sell | timeouts that race late sends; whole-payload compare-and-swap | one send and one sale per lot |
| Solana transfer, `agents/solana-transfer.ts` | destinations, preparations | send, resume, reconcile | crash between reservation and journal | one signed transfer per lot |
| Transaction journal, `workers/transaction-journal.ts` | transactions and their states | insert, claim for broadcast, update, reconcile | update is a read and a write; late results | one broadcast per identity; terminal states are final |
| Claim recovery, `workers/claim-recovery.ts` | service jobs, recoveries | preview, evidence, approve | evidence of expiry against a late inclusion, and against scans of the same row | a retired claim never landed |
| Browser runner, `agents/browser.ts`, drivers, Browserbase | context lock, attempts, evidence, attached sessions | submit, reconcile | commit before click, orphaned sessions, pages that change, charges cited for the wrong job | one click per attempt; one attempt per browser context; settled at what was approved |
| Live gate, `workers/streamer-live.ts` | one row per channel, lookups under way | watch, check, poll, permit | a lookup that began before a revocation or a rename | no permit on a revoked or stale lookup |
| EVM source and execution, `agents/evm-source.ts`, `chains/*` | registry, claim and launch intents, outbox, execution journal, two lock rows | scan, launch, execute, reconcile, rebroadcast | crash with a lock held, reorganisations, lost broadcasts, snapshots of the sequence | a nonce is signed once; a claim has one number and one final lot |
| Launch service and page, `launch/*`, `src/pages/Launch.tsx` | launch intents, sweep marks, registrations; the page's state | prepare, submit, retry, cancel, reconcile, sweep | three reads of a chain that moves in between; lost answers; late requests | a failed launch has no token; a page offers no replacement for what may still come true |
| Operations ledger, `operations.ts` | journal, claims, payments, reservations, treasury receipts | register, claim, reserve, fund, credit, start, complete, cancel, resolve | long sequences of legal calls over three books in two currencies | the books agree; nothing is spent that was not claimed; one purchase per donor account |
| Testing budget, `workers/testing-budget.ts`, and the gate of `providers/budgeted-browserbase.ts` | costs, authorizations, freezes, grants | reserve, begin, settle, reconcile, freeze, recover | overruns, reviews of figures that change, a paid request whose answer is lost | under its cap or frozen; nothing executes but what a review has seen; a session is paid for once |
| Fee engine, `fee-engine.ts` | none (a reducer) | `transitionPayout` | duplicated or reordered events | not modelled |
| Provider parsing, HTTP application, public projections, other pages | caches, sessions | parsing, rendering | little state of their own | not modelled |

`PROJECT.json` lists the files of each component with its status, and every hazard at its line.

### 1.3 What is hard here

* **Old snapshots.** A worker reads a row, awaits a provider, and writes. Only the revision (or the
  whole payload) in the `WHERE` clause stands between a late answer and a newer row.
* **Commit, then call.** A phase is committed before its side effect. A crash in between leaves an
  operation that was perhaps made; the code never makes it again.
* **Old credit.** The card's credit is observed before the transaction that reserves it. Charges
  posted in between must be counted once, on one side or the other.
* **Two commits.** Funding evidence and the phase it pays for; a booked claim and its routing; the
  reserved and the signed record of a nonce.
* **Several reads.** Block height, mint and status of a launch, or receipt and canonical block of a
  claim, are read one after the other while the chain goes on.
* **Redelivery.** Sources, the outbox and the network of the page deliver again, late, or not.
* **Locks that are rows.** The context lock, the scan lock and the signer's lock survive a crash.
* **Bounded queues.** Rows that are held for ever share a bounded slice with the rest.
* **Integer limits.** Fees, slippage, shares and residuals are compared at their boundaries.

## 2. Modules

| Module | Role |
|---|---|
| `Pipeline` | the streamer pipeline with several workers, crashes, provider faults, the issuer |
| `CardPromise` | abstract: what the pipeline promises about a card, told from the issuer's books |
| `PipelineProofs` | the inductive invariant of `Pipeline` and its theorems |
| `FeeRouter` | router, source scan and outbox hand-off of several processes |
| `Buyback`, `BuybackProofs` | the buyback worker with several instances, crashes, lying or late adapters; its theorems, the refinement of `BurnPromise` among them |
| `BurnPromise` | abstract: what a buyback branch promises, told from the Solana ledger |
| `TransactionJournal` | the table of signed transactions and the dispatcher over it |
| `Settlement`, `SettlementProofs` | deposit and sale of a lot: of SOL over the Solana transfer and `TransactionJournal`, of another chain over a bridge; theorems |
| `ClaimSource` | Solana claims: scans, the claim's execution over `TransactionJournal`, valuation, routing |
| `ClaimRecovery`, `ClaimProofs` | `ClaimSource` composed with the operator's retirement of expired claims; theorems about the two |
| `LiveGate` | the live gate of one channel that may be renamed |
| `BrowserRunner`, `BrowserProofs` | the purchase coordinator over `LiveGate`, Browserbase and the shops' drivers; theorems about both |
| `EvmSource`, `EvmProofs` | EVM claims and launches over the transaction executor and its journal, on a chain that forks; theorems |
| `Launch` | launch service, chain adapter, sweep, and the page over a lossy network |
| `ServicesProofs` | the inductive invariants of `Launch` and `FeeRouter`, which share no state, and their theorems |
| `Ledger` | the operations ledger and the treasury's receipts |
| `TestingBudget` | `Ledger` composed with the testing budget and the browser provider it gates |
| `LedgerProofs` | the inductive invariants of `Ledger` and of `TestingBudget`, and their theorems |
| `MC...` | instances for TLC |

Three compositions share state between components: `Settlement` and `ClaimSource` with the journal,
`BrowserRunner` with the gate, `TestingBudget` with the ledger's payments and the provider's sessions.

Operators called "mutant" in the modules are variants with a plausible mistake (a comparison that is
not made, a rotation that is not saved). No specification uses them; substituting one for the
definition after it makes a run fail, which shows that the property depends on that line.

### 2.1 Pipeline

State: `jobs`, `rowid`, `cursor`, `evidence`, `reservation`, `receipts` are the tables; `pc`,
`batch`, `cur`, `proof`, `seen` are what a worker holds between two awaits; `calls`, `charge`,
`avail` are the outside. One action is one synchronous stretch of `run()`, from one `await`, or one
commit, to the next:

| Action | Code |
|---|---|
| `RecordClaim` | `recordClaim` (137-161) |
| `StartRun` | `runOnce`, `nextBatch` (195-236) |
| `TakeRow` | the loop head and the switch (236-306) |
| `HoldHistorical` | rows of an unsupported allocation version (247-257) |
| `Begin`, `Call`, `Returned` | cases `claimed` and `deposited`: transition, adapter call, save of its reference (259-285); `Call` and `Returned` also for `gift` (354-359) |
| `FundingProof`, `InsertEvidence`, `SaveCredited` | cases `depositing` and `converting` (268-298) with `creditEvidence` (162-168) |
| `Live`, `ObserveCard`, `Reserve`, `ReserveRefused` | case `converted` (299-353) |
| `Complete`, `ReceiptRefused` | case `gifting` (361-416) |
| `Threw`, `NotYet` | adapters that reject, time out, answer nonsense, or have nothing yet; the catch (418-424) |
| `CommitFails` | a statement of the reservation or receipt transaction fails (335-353, 394-424); only in `FailedCommitSpec` |
| `Charge`, `Tick`, `Crash` | issuer, clock, process death |

Abstractions. The several references of a receipt are one; `giftReference` mismatches, malformed
answers and wrong identities are `Threw`. A historical row is one without `allocationVersion`. An
unreadable clock is not modelled, nor is clock skew between issuer and server (an observation from
the future is refused by line 315). The issuer is truthful and grants no credit besides `CardLimit`;
refunds would only help. The `enabled` flag is on. Database errors occur in `FailedCommitSpec` only.

### 2.2 FeeRouter

State: `splits`, `outbox` are the router's tables, `pipeline` and `buyback` the jobs that its
children became, `returned` the acknowledgements at the source. Each process has a scan
(`turn`, `todo`, `toAck`) and a hand-off (`children`, `handed`), which in `services.ts` are two
promises that meet only in the database. `Split`, `Known` and `Conflict` are the three ways through
`recordClaim` (36-89); `Scan`, `ScanFails`, `Return` and `ReturnFails` are the source loop with its
`acknowledge` (services.ts 229-243); `ListChildren`, `HandOver`, `AcknowledgeBuyback` are services.ts 299-307. `Refused` and
`Declined` are the conditions under which the two intakes throw (pipeline.ts 138-160, buyback.ts
343-378); note that the buyback's unique claim does not name the token, so a second token's child on
the same claim stays in the outbox for ever. A lot is its id, its claim (`ref`), its token and its
units. `canonicalFeeLot` and the eligibility test of the EVM source are left out. Names that `Launch` has
too begin with `Router`, since `ServicesProofs` extends both modules.

### 2.3 Buyback

State: `jobs`, `cursor`, `evidence` are tables; `pc`, `batch`, `cur` the worker; `submits` and `tx`
the outside. `Begin` is a ready phase up to the commit of its request (453-506, 568-603, 656-666),
`Submit` and `Submitted` the call and the save of its reference, `Reconciled` a pending phase with
its proof (512-566, 609-654, 672-714), `Threw` the catch, and every way out of a row also does the
`finally`, which moves the cursor (726-730). `Finalize` lets a submitted operation take effect once,
at any time, within the request it was handed.

Abstractions. Amounts on the source chain, the identity fields of quotes and proofs and the quote's
clock are left out: a mismatch is `Threw`. The two or three identities stored for a proof are one.
`Catch` bumps the revision of a row each time it holds it, as the code does, so another worker's save
can be refused for no other reason. The code's revisions count up without end; only whether two of them are equal ever
matters, so a save here takes one of `Revisions` that no worker holds a reading of (`Unseen`). One more of them
than there are workers always leaves one.

### 2.4 TransactionJournal and Settlement

`Settlement` extends `TransactionJournal`; they are checked together, because what the dispatcher may
do depends on who calls it. State: `journal`, `row` and `prep` are the tables `worker_transactions`,
`agent_settlements` and `agent_solana_preparations`, and `phase` the pipeline's, as far as these calls
read it; `call` is the adapter call a process awaits, `signer` the one `execute()` a lot gets, `asks`
the dispatcher's `reconcile()` calls, awaited or not; `bridged` says which lots are not Solana's;
`chain`, `sends`, `credited`, `exchange`, `sells` are the outside.

| Action | Code |
|---|---|
| `Deposit`, `Reserve`, `Send`, `Sent` | `deposit` (settlement.ts 221-248) and `send` (solana-transfer.ts 17-67) |
| `ReconcileDeposit`, `Told`, `Refresh`, `Resume`, `Match` | `reconcileDeposit` (249-374) with the transfer's `reconcile` and `resumeUnsubmitted` (68-98) |
| `BridgeSends`, `BridgeTold` | `send` and `reconcile` of `bridgeTransfer`, and the binding of what it delivered (301-331) |
| `Convert`, `Intend`, `Sold` | `convert` (375-392) |
| `ReconcileConversion`, `Find`, `Check` | `reconcileConversion` (393-426) |
| `Prepared`, `Claim`, `Broadcast`, `Answered`, `BroadcastThrows`, `RecordWrites`, `Reconciled` | `execute` (transaction-journal.ts 130-170), `insert`, `claimForBroadcast`, `update` |
| `Looked`, `LookMisses`, `Heard`, `HearWrites` | `reconcile` (172-185), the node's answer, and `update` |
| `Hold`, `PrepareFails`, `RequestLost`, `JournalCrash` | an await that throws or misses its deadline (`bounded`, 150-164), failures, process death |

Three things are finer here than in the other modules. A call that misses its deadline ends, while
what it awaited goes on and still writes to the journal (`asks` of kind "late"). Between two SQL
statements of one function another *process* may run, but no other task of the same one: `Midway`
names the task that holds the thread and `MayRun` keeps the others out. And `update()` is two
statements, a SELECT with its check and an UPDATE.

Abstractions. A payload is the set of its optional fields; `fresh` says that the table still holds
the payload a call read, which is what `save()` compares. It is exact because two successive payloads
differ: a refresh stores a new verification time, every other save adds a field. The pipeline
contributes what its own model establishes: `deposit` and `convert` are called once, after the commit
of their phase, the reconciling calls by any process at any time. A transaction on chain is one of
pending, landed, reverted or expired; the node may miss it. Coinbase matches a credit by its exact
hash, so a lot's credit is its own. The bridge is not in the repository: its `send` submits or throws
without having submitted, its `reconcile` answers only what it finally delivered, and it has no
`resumeUnsubmitted`, for runtime.ts:131-137 asks for the other two only. An order, once placed, fills; a
partial fill is held by the code for ever, like a lost request.

### 2.5 ClaimSource and ClaimRecovery

`ClaimSource` is `scanSources()` and `ingest()` of services.ts (195-275) over `prepareClaim`,
`claimableFees` and `finalizedProof` of providers/pump-solana.ts and the dispatcher of
`TransactionJournal`. State: `journal` (the worker's transactions), `booked` (`ops_claims`), `routed`
(the router's lots), `scan` (what each process awaits); `vault`, `earned`, `taken` are the network's.

| Action | Code |
|---|---|
| `Takes`, `Told` | the loop over pending claims and its `reconcile` (231-243) |
| `LooksForNew`, `NothingLeft`, `Sent` | eligibility, quote, preparation, `execute` (255-274) |
| `Proved`, `Priced`, `Conflicts`, `Routes` | `ingest` (195-222): proof, first valuation, booking, routing |
| `Fails`, `Crash` | a rejected await; the death of a process, also between booking and routing |
| `Earns`, `Decides` | the network: fees accrue; a claim lands and takes all of them, fails, or expires |

A scan's items have a `try` each, so a scan is a succession of items taken in any order. In
`ClaimRecovery` a claim of an earlier release (`Inherits`) was left in "expired_review"; an operator
previews it, both sources are asked one after the other, and `Approves` retires it in one
transaction, while scans go on to read and rewrite the same row. A write by a scan changes the row's
time and so makes the review stale (`Touched`). No route, timer or script calls the recovery, and it
joins `service_jobs` rows named `claim:<transaction>`, which nothing in this release writes: current
claims have plain UUIDs. It therefore applies to an earlier release's claims only. A source that lacks
the history of a claim which landed says what a source that knows it expired says. Of the two
independent sources at most one does (`Overlooks`); were both to, the claim would be retired although it landed,
which is the risk two sources are asked to exclude.

### 2.6 LiveGate and BrowserRunner

`LiveGate` has one row (name, status, time of the observation, token of the request that holds it,
revision) and the lookups under way. `Check` is `check()` with the first statement of `perform()`,
which revokes; `Answered` is the rest of `perform()`: an answer is stored only if the row's name,
token and revision are still the request's (`Current`), and believed only if it is no older than the
request. `FreshLive` is `assertFreshLive()`, which every permit repeats synchronously.

`BrowserRunner` extends it. `attempt`, `lock`, `evidence` are the tables; `run` and `rec` are the
`submit()` and `reconcile()` of each process, `attached` its set of connections, `stuck` a process
whose disconnect is uncertain; `session`, `page`, `clicks`, `charge` are Browserbase's, the shop's and
the issuer's.

| Action | Code (agents/browser.ts and the drivers) |
|---|---|
| `Submit`, `Opens`, `Created`, `Attached` | reservation of attempt and context; session; connection |
| `Prepared` | the driver's quote, `validateQuote`, the stored quote |
| `LookupAnswers`, `Permitted`, `Click`, `Delivered` | the live lookup; review of the page; "submitting" committed, permit; the click; the observation |
| `Reconcile`, `FoundSession`, `EvidenceRead`, `NotYet`, `SessionRead`, `Released` | `reconcile()` to the transaction that settles and frees the context (`Settle`) |
| `Fails`, `FailsAttached`, `Crash`, `PageChanges`, `Ends`, `Clock` | rejections, process death, a page that shows another total or currency, sessions that end, time |

What a driver reads of a page is a total, its currency and whether it is the review step: a total in
the shop's own currency is quoted by the Twitch driver too, and refused before the click.

### 2.7 EvmSource

State: `seq`, `job`, `outbox`, `scanLock` are the source's tables; `binding`, `journal`, `account`,
`signLock` the executor's; `task` what each process awaits; `chain` and `fees` the chain's. Intent 0
of a token is its launch, intent n its n-th claim.

| Action | Code |
|---|---|
| `ScanStarts`, `Takes`, `Builds`, `Commits`, `ScanEnds` | `scan()` of evm-source.ts with the claim's job, lot and guarded sequence update |
| `LaunchStarts`, `Registers` | `executeLaunch`, `recoverLaunches`, `registerConfirmedLaunch` |
| `Enters`, `Counts`, `Reserves`, `Marks`, `Signs`, `Settles`, `Sends` | `execute()` of chains/execution.ts under the account's lock, one action per journal write |
| `Receipt`, `Confirms` | `receipt()` and the adapter's reading of the logs |
| `Rebroadcasts`, `ClearsScan`, `ClearsSigner` | the operator, as the errors ask |
| `Trades`, `Mines`, `Deepens`, `Reorgs`, `Drops`, `Sweeps` | the chain |
| `Rejects`, `Crash` | every await that throws; process death, which leaves a lock row behind |

The model also lets an operator remove the scan lock of a scan that only *seemed* dead: nothing in
the row tells the difference, and two scans then work on one registry. The signer's lock is removed
only when its process is gone, as its message asks.

### 2.8 Launch

State: `row` (`launch_intents`), `earlier` (`launch_reconciliation_checks`: for each launch, those that
were last checked before it or never), `registered`; the maps
`prep`, `sub`, `check` of launches being prepared, submitted and reconciled; the page with the
requests it has given up (`late`), the wallet's signatures and the chain. Every save is `Swap`, a
compare with the payload that was read before the await. A check is one for each launch and
signature; `Height` and `Mint` are the two reads without a signature, `Status` and `Expired` the
reads with one, `CheckFails` a read that throws or is too slow. `Sweep` takes the rows whose last
check is oldest. The page's actions are those of Launch.tsx: it begins, reads again before it asks the
wallet, submits or cancels, recovers when an answer is lost, polls, closes, and may be reloaded.

`inspect()` makes its reads one after the other, each with the commitment "finalized" but none with
a slot below which the answer would be refused, and the RPC is load-balanced (the code's own comment, pump-chain.ts:309-311).
`Read` therefore lets every read be answered by a node that is behind: the height by one that does not know the window
is over, and the mint by one that is behind *that*. This costs no fault and may happen every time. Only a status that is not
known although it is final counts as a fault, so that a node is behind finitely often, which liveness needs.

Abstractions. One process, one user, and request ids are drawn in order. `inspect()` treats as
"finalized" a transaction that carries the saved signature; the byte-wise verification of curve, pool
and reserve is its result. The limit of three active launches per user (service.ts:361-372) refuses a
fourth, and `MaxLaunches` is at most 3, so it is never met: note that a crash
between INSERT and `finishPreparation` leaves a row "preparing" that no sweep selects (`Checkable`)
and that keeps counting towards that limit.

### 2.9 Ledger and TestingBudget

Each method of `OperationsLedger` is one immediate transaction and so one action, with one exception
below; what is hard is what a sequence of them does to three books: `led`, the journal by payment and account; the SOL of a token
and what it cost, which `AvailableLamports` and `AvailableBasis` derive from claims, payments and
reservations as `assetBalances` does; and the payments' own records, `pay`. An idempotency key names
a payment. `Save` and `Book` are `savePayment()` and `journal()`; `Entries` is the latter's test for
integers. The two ways of funding are `ReserveNative`/`RecordNativeFunding`/`RecordNativeCredit` and
`BeginFunding`/`RecordFunding`/`RecordCardCredit`; `ResolveFailed` is a transfer that failed on chain.

The exception is a completion. `Finished` is the transaction of `finishPayment` (operations.ts 1898-2010). On the
browser's and the card's evidence (`CompletePaymentVerified`) it contains the check that the evidence is unused
(`assertVerifiedEvidenceUnused`, 1822-1861, called at 1932). What an operator attests is checked by `validateCompletionEvidence` (1700-1758, called at 1883) *before*
`command()` begins its transaction (585): `Check` puts it into `checked`, and `CompletePayment` takes it from there, or
`CheckedInVain` if the transaction refuses it or the process dies. Within one process no await separates the two, but another
process may commit in between. What protects the second step are the unique columns of `ops_payments` (`Indexed`),
which know the reference and the page a payment is filed under, but not its native receipt. `missed`
and `done` are history: they say which payments were completed between a check and its commit.

`TestingBudget` extends `Ledger`, because the budget lives in the same database and reads its
payments. `ReserveMany`, `BeginMany`, `Settle`, `ReconcileObservedCost`, `ReleaseNoSpend`,
`CancelBeforeExecution`, `Freeze` and the two recoveries are the methods; `GateReserves` to `GateEnds`
are `createSession()` of budgeted-browserbase.ts with its awaits. A fingerprint is the set of overruns
it hashes and the number of the last incident.

Left out: the estimates of a reservation, which nothing reads again; caps of 10^12; shapes of
addresses and dates; the tables in which other components file receipts and which a completion also looks into
(manual donations, acceptance gifts, checkout receipts). The payment and treasury methods have no caller in the running services (the
pipeline does that work now); they are the operator's interface and the tests'.

## 3. Properties and runs

| Run | Instance | Properties |
|---|---|---|
| `pipeline_card` | 2 lots, 2 workers, 1 card whose credit just covers one gift and a half, clock of 3 instants, adapters that may cite the first lot's reference for the second, no faults | `CardNotOvercommitted`, `AtMostOneCall`, `CommittedBeforeCall`, `Proved`, `KeepsPromise` |
| `pipeline_live` | 1 lot next to a historical row, which converts to an amount within or above the limits of a gift, slices of one row, 1 worker, adapters that may cite any reference, 1 fault | `NoStarvation`, `EveryLotSettles` |
| `pipeline_failed_commit` | 2 lots, 1 worker, 1 fault | `ReceiptIsDurable`, violated (section 5) |
| `buyback` | 2 lots of which one has no route, 2 workers, slices of one row, deliveries on both sides of the limit, adapters that may cite any transaction, 1 crash | `OnceEach`, `Purse`, `KeepsPromise`, `EveryLotBurns` |
| `router_disputed` | 5 lots of 3 sources that clash in id, claim, hash and with an earlier release, one source redelivered for ever; 2 processes, 1 crash or failed call | `SplitOnce`, `AcknowledgedIsDurable`, `EveryLotArrives` |
| `settlement` | 1 lot, of SOL or bridged, 2 processes, 1 fault | `SubmitOnce`, `SoldIsBacked`, `NeverForgets`, `EveryLotSells` |
| `settlement_final` | 1 lot, 2 processes, no fault | `FinalStays`, violated (section 5) |
| `browser` | 2 purchases, one at each shop, in one context, a channel that is renamed, 1 process with one submit and one reconcile at a time, 1 fault or page change, charges within and beyond the limit | `ChargedOnce`, `ContextExclusive`, `PermitIsFresh`, `ChargedSettles` |
| `evm` | 2 tokens of one account, one being launched while the other's fees are claimed, 2 processes, 2 faults, forks, drops or mistaken clearings | `NonceOnce`, `LotsCount`, `SignedArrives` |
| `launch` | 2 request ids, 1 signature, sweeps of one row, heights and mints read from nodes that may be behind, 1 fault, lost answer, late status, fork or retry | `StatusIsTrue`, `NoReplacement`, `LandedConfirms`, `PageLearns` |
| `ledger` | 2 tokens and the platform's, 2 payments or receipts, both ways of funding, amounts on both sides of the threshold, 1 completion checked and not committed; the budget next to one payment, and with two processes that create one browser session | `Books`, `Solvent`, `OneSpendPerChannel`, `OnePurchaseOneRecord`, `Budgeted`, `OneSession`, `SpendIsReviewed` |
| `claims` | 2 claims of one token, of which the first may be an expired one of an earlier release, 2 processes, 2 quotes, 1 fault | `ClaimsHold`, `FirstValuationStays`, `EveryClaimRoutes`, `FeesAreClaimed` |

Why the bounds are enough. A race needs two snapshots of one row and a third party that moves it:
two workers and a provider do. Cross-talk between lots needs two lots, which is why `Proved` and
`CommittedBeforeCall` are checked in `pipeline_card`, without faults; a crash of one worker between two commits is met in `pipeline_live` by
`EveryLotSettles`, and crashes and any number of lots and workers are the theorems' (section 4.1). Every window that a crash or a
timeout opens lies in the handling of one row, so one fault shows it; the chain of `evm` has two,
because a reorganisation matters most to a process that has crashed. The card needs two gifts and a
clock with an instant before, at and after an observation; with `MaxAge = 1` an observation can also be
too old. `BatchSize = 1` and `Limit = 1` are the least slices, where starvation would bite first. Lots
of 4, 9, 10, 30 and 39 units have no fifth, an exact fifth, a rounded one, one at the buyback's limit
and one above it. `Fresh = 0` makes an observation expire with the next tick; a session of one tick
outlives the tick it was opened in and no other. In the ledger claims of 10 lamports for 17 or 16
cents and of 5 for 6, a share of 30 % and a price of 7 for 6 make every division round, and the costs
1 and 3 lie below and above a ceiling of 2 and a cap of 5.

The ledger's run is sliced by `MCLedger`: the budget only reads payments, and all pairs of their
states would be a product nobody needs. `Slice` therefore keeps two payments with an untouched budget,
one payment in the states the budget's guards distinguish with a budget at work, or no payment with
the browser provider. Completions are checked and awaited next to one claimed token whose payments have their credit;
a check of anything else ends in `CheckedInVain` or is made again later. Receipts `r1` and `r2` are interchangeable
(`SYMMETRY`), and the run's one action property does not mention them. A slice restricts which states are explored, not what an action does;
the theorems of section 4.8 are about `Spec`, which has no slice. The run has 442,917 distinct states.

Bounds: `MaxFaults` and `MaxCrashes` limit failures (in all modules but `Buyback` also those of calls, so
that a call fails finitely often), `MaxTime` and `MaxRevision` the gate's and the pipeline's clocks and
counters, `MaxLots` the buyback's intake, `MaxClaims`, `MaxFees` and `Lots` what is claimed,
`MaxLaunches` and `MaxSigned` the page's attempts, `MaxOpen` payments and receipts together,
`MaxFreezes` explicit freezes; each is a guard of the action it limits. `BatchSize` is 100 in the
pipeline and a policy in the buyback, `Limit` is 24 in the sweep.

What the properties say, beyond their comments:

* `CardNotOvercommitted` compares the reservations with the credit the issuer *really* has left, not
  with the observation the code saw. It holds because a completed reservation is counted again while
  `completedAt >= observedAt`: with `>` the instant of the observation would be free (mutant).
* `Proved` holds although evidence and phase are two commits, and under adapters that cite
  a reference for the wrong job, because the table knows whose a reference is (the mutant forgets the job).
* `EveryLotSettles` excepts two situations. `Stranded`: a worker died between committing the
  reservation and asking for the gift; the code holds such a job for evidence that will never come. `OutsideLimits`: a
  lot converted to less or more than a gift may cost (pipeline.ts:300-306) is passed over in every run, without an issue.
  The mutant, a worker that does not read the evidence it has recorded, is what would lose a lot to a crash between the two commits.
* `EveryLotBurns` excepts `Stranded` and `Unspendable` in the same way, and has a hypothesis of its own about
  workers that run side by side: `<>[][~Overtakes(j)]_vars`, that failing workers in the end stop holding a lot of which another worker has a current
  reading in hand. Without it the property is false: since a hold bumps the revision, a worker that fails each time
  can each time make the other's save lose its compare-and-swap, though the adapters answer the other (buyback.ts:414, 717-725).
  Nothing is lost or done twice by that, and one worker at a time does not meet it.
* `OnePurchaseOneRecord` excepts one race, `missed`: an operator's check of a reference passes, a verified completion of another
  payment commits the same identity as its *native receipt*, and the operator's transaction then files it as a reference, which no
  unique column forbids (section 5). The run reaches that state, and nothing beside it.
* `KeepsPromise` of the buyback reads only the ledger: whatever the worker believes, what it asks for
  never overdraws a lot's purse. `Purse` includes that the check of buyback.ts:657 is never the reason
  a lot is held, while `MaxFee` is not raised between two stages.
* `EveryLotArrives` states exactly which lots a poisoned one holds up: those behind it in its own
  source. That is the cost of the single `try` around a source in services.ts:232.
* `SubmitOnce` of the settlement depends on three reservations at once: the settlement row picks the
  process that sends, the preparation row the one that signs, the claim the one that broadcasts.
* `EveryLotSells` names in `HeldForReview` what the code gives up on without a person. One of them
  needs no failure at all: `worker_one_unresolved_transaction` allows a wallet one open transaction,
  so when two lots of one creator are deposited close to each other, the insert of the second is
  refused *after* its preparation row was taken (solana-transfer.ts:40), and `resumeUnsubmitted`
  then refuses it for ever. A preparation that fails for a transient reason, a node that does not
  answer `getLatestBlockhash`, ends the same way; tests/solana-settlement-transfer.test.ts shows that
  the latter is intended. (The run has one lot; the second way in is the one it reaches.) A bridged lot
  whose process dies between its row and the call of the bridge is held too: nothing resumes it.
* `ClaimsHold` contains `OneClaimAtATime`, which rests on that index and not on the check of
  services.ts:265: two scans pass the check together, and the second insert is refused. A second claim
  that is prepared before the first has taken the fees, and inserted after, lands empty; it has no proof,
  is asked for in every later scan, and is never routed. That is a cost and not an error.
* `FeesAreClaimed` excepts `Held`: a claim that was signed and that the chain never executed stays
  "expired_review" for ever, since nothing in this release retires it, and it keeps its creator's fees
  where they are.
* `ContextExclusive` fails as soon as a context is freed before Browserbase says the session has
  ended; a failure before the click therefore leaves the context locked, until `reconcile` has evidence
  of a charge or a person steps in: for an attempt that was never clicked, a person.
* `PermitIsFresh` is a property of the step that commits a click: at that instant the row is live,
  under the recipient's present name, seen on air within the window, and every lookup still under
  way is older than what the row says, so that none of them can be the one that was awaited.
* `NonceOnce` holds when the pool forgets the account's last transaction and the pending count falls
  back to its nonce, because the account's record is compared and not the count alone (mutant).
* `LotsCount` holds even when two scans run at once, because each claim's number is its primary key and the
  registry is only advanced from the number that was read.
* `StatusIsTrue` is about the *future* of the chain: what is stored as failed can no longer land. It
  needs the height to be the finalized one (mutant: the newest), and the mint to be read after it, from a node that is
  no further behind. The code cannot ask for the latter, so a failed launch may be `Missed`: it has landed, by the wallet's own send,
  within its window, and the service never saw a signature (section 5). Every other failed launch is dead for good, however far
  behind the nodes are; and `RegisteredIsFinal` has no exception.
* `NoReplacement` is the page's promise: it shows a launch as `review` rather than give the form back
  while the launch can still come true; a cancel that is refused or lost included. A launch the page has left was never signed, is
  confirmed, can no longer land, or was missed. It does not survive a reload, which the code does not claim.
* `Solvent` relates all three books: no dollar is promised that is not backed by claimed SOL at its cost,
  and no token runs short of SOL unless a verified overrun of gas was booked.
* `SpendIsReviewed` is about an approval that is overtaken: an operator reviews overruns, a further
  one is recorded, and the approval must not reach past what was reviewed.

### 3.1 Fairness

`FairSpec` of each module is weak fairness of a worker (or of a process' loops): services.ts
starts a cycle again and again, and every adapter call ends, because adapters bound their requests
with timeouts. It promises no good answer: `NotYet`, and in `Buyback` an unbounded number of
`Threw`, each a save that may overtake another worker's, satisfy it. `NoStarvation` and `EveryLotArrives` need no more. `EveryLotSettles` and
`EveryLotBurns` have the rest as a hypothesis of the property (`Providers`, `Adapters`): an outside
that is asked infinitely often in the end answers, and a call that was made in the end takes effect.
The code cannot guarantee that, and the properties do not claim it.

Strong fairness stands where a step competes with others and is offered again and again:
`Settlement` and `ClaimSource` for tasks that wait for another task of their process to reach its next
`await` (the event loop serves ready tasks in order) and for items that every scan comes back to;
`BrowserRunner` for the reconciliation that each cycle starts and the reader that in the end tells of
the job's own charge; `EvmSource` for a scan that finds the signer's lock free and for the operator's
rebroadcast of a transaction the pool keeps forgetting. `EvmSource` also assumes that an operator removes
the locks of dead processes: nothing else does, and without it `SignedArrives` is false. `Launch` needs
weak fairness only: the sweep, its reads, the page's poll and its open submit.

## 4. Proofs

TLC checks the instances of section 3; the theorems below hold for every value of the constants. In
each module one strengthening of the properties, `IInv`, is shown to hold initially and to survive
every step, with a lemma per action (or per group of actions that change the same tables), and the
properties follow from it. TLC checked each `IInv` on the instance of its run before it was proved.
No theorem assumes more than the named assumptions on constants, except for the two of
`BuybackProofs` that say so.

| Module | Theorem | States |
|---|---|---|
| `PipelineProofs` | `TypeCorrect`, `CallsOnce`, `CommitsFirst`, `RestsOnProof` | `TypeOK`, `AtMostOneCall`, `CommittedBeforeCall`, `Proved` |
| `PipelineProofs` | `CardsCoverGifts`, `CardsAsPromised` | `CardNotOvercommitted`, and that `Pipeline` implements `CardPromise` (`KeepsPromise`) |
| `ServicesProofs` | `StatusesAreTrue`, `LaunchesAreNotReplaced` | `StatusIsTrue`, `NoReplacement` of `Launch` |
| `ServicesProofs` | `SplitsAreExact`, `AcknowledgementsHold` | `SplitOnce`, `AcknowledgedIsDurable` of `FeeRouter` |
| `BuybackProofs` | `StagesRunOnce`, `PursesBalance`, `BurnsAsPromised` | `OnceEach`, `Purse`, and that `Buyback` implements `BurnPromise` |
| `SettlementProofs` | `SubmissionsAreSingle`, `SalesAreBacked`, `PayloadsOnlyGrow` | `SubmitOnce`, `SoldIsBacked`, `NeverForgets` |
| `BrowserProofs` | `ContextsAreHeld`, `PurchasesAreMadeOnce`, `PermitsAreFresh` | `ContextExclusive`, `ChargedOnce`, `PermitIsFresh` |
| `EvmProofs` | `NoncesAreSignedOnce`, `LotsAreCounted` | `NonceOnce`, `LotsCount` |
| `ClaimProofs` | `ClaimsAreAccounted`, `ValuationsStay` | `ClaimsHold`, `FirstValuationStays` |
| `LedgerProofs` | `BooksAgree`, `OneAtATime`, `RecordsAreUsedOnce`, `NothingIsOverdrawn` | `Books`, `OneSpendPerChannel`, `OnePurchaseOneRecord`, `Solvent` |
| `LedgerProofs` | `SessionsArePaidOnce`, `SpendingIsReviewed`, `BudgetIsKept`, `BudgetOnlyReads` | `OneSession`, `SpendIsReviewed`, `Budgeted`, and that `TestingBudget` implements `Ledger` |

### 4.1 PipelineProofs

The assumptions are those of the constants (`PipelineAssumption`, `NoneAssumption`).

`AtMostOneCall` is not inductive: a worker about to call must be the only one, and that depends on
the snapshots the others hold. The inductive invariant `IInv` adds

* `Placed`: a worker that stands at an await holds a row, and the row's phase fits the place;
* `Snapshots`: a snapshot, queued or in hand, is of a recorded row and never ahead of it, and while
  the revision has not moved it *is* the row. A worker whose compare-and-swap succeeds therefore
  writes over exactly what it read;
* `SoleCaller`: for a worker at `call`, the effect's phase (and a gift's reservation) is committed,
  the call has not been made, and no other worker is about to make it;
* `CommittedBeforeCall` and `ChargedIsCalled`: an effect that was called for is covered by the
  phase, and what was charged was called for.

`Begin` and `Reserve` move a row to a phase it enters only once, which gives `SoleCaller` its "no
call yet"; every other save keeps the phase or moves it on (`RowsStep`: rows only grow), which keeps
it. The proof goes conjunct by conjunct (`RowsStep`, `LocalStep`, `ReservationStep`, `WorldStep`,
`TypeStep`, `SoleCallerStep`), each with one step per action that can disturb it.

`Proved` needs four facts more, and with them is `PInv`: a row of an earlier release is only ever
held (`OldAreHeld`), since it has no evidence; the evidence a worker is about to rely on is recorded for its own
job (`OwnRecorded`), which bridges the two commits; a reservation is of the row's net amount
(`ReservedIsNet`), and the issuer charges within it (`ChargedInBudget`). Every step that changes a row
is one of a few moves (`RowMoves`), and the conjuncts are shown for the moves.

`CardNotOvercommitted` has an invariant of its own, `CInv`. A gift is reserved against an observation
that other workers, the issuer and the clock have overtaken. `Covered` is what still holds of it:

    what is owed on the card + the credit the observation showed
       <= the card's credit now + what is held since the observation

for every observation a worker has in hand. The transaction compares the price with the credit it was shown less what is held
since, so what is owed stays within the card's credit (`OwedIsThere`). A charge takes the same from both sides, and a
completion leaves the job among what is held since, because `completedAt` is then no earlier than the observation. `Due` counts a job at what the issuer really charged, as soon as there is a
charge, and at the reserved cents before: with the reserved cents alone a charge below its
reservation would leave more credit than the inequality accounts for, and the invariant would not be
inductive. What the code holds is `HeldCents`, which is at least that (`DueIsHeld`).

`CardsAsPromised` is the refinement: each action of `Pipeline` is an action of `CardPromise` for one
job, or leaves its variables alone; the card's outstanding sum is the promise's (`OutstandingIsOwed`).

Sums over sets are not induction over data here. A sum of natural numbers is the size of a set of units
(`Units`, `Weigh`), so that what is needed of sums (one term more, one term changed, each term smaller)
follows from the library's theorems on cardinality; and that `MapThenSumSet` computes it (`SumIsWeight`) is shown
with a least counterexample, of which the strict subset ordering on finite sets has one (`WFMin`).

### 4.2 ServicesProofs

`Launch`. Its `IInv` says for each launch (`LaunchHolds`) what the row, the service's three maps and the
chain know of each other: what is under way is about the row as it is, or as it was with the same
signature (`PrepHolds`, `SubHolds`, `CheckHolds`), only what was prepared is signed and only what was signed
is on the chain (`ChainHolds`). A failed row is `Dead`, for one of three reasons, each of which is for good:
nobody has signed and the page is not about to ask the wallet; the signing window is closed by finalized
height and there is no success in a final block, or no signature was ever saved and the mint may have been missed; or there is a
failure in a final block. The first is what a
cancel or a failed preparation relies on, and it is stable only because of what the page does:
`PageHolds` gives for each of its steps what has been read by then, and `LateHolds` says of the requests
it gave up that a cancel among them is of a launch that was never signed and that the page has left. This
also gives `NoReplacement`. Every save is one of three moves of a row (`Moves`: it stays, begins, or is
saved over what was read), and one lemma (`MovesKeep`) does for all of them; `ResultKeeps` is the
result of a check, `PageKeeps` the page's steps, `ChainKeeps` the chain's. `LaunchAssumption` asks that `None`
is none of the values it stands beside, that `MaxLaunches` is at most the user's three and `Limit` the sweep's.

`FeeRouter`. `RouterIInv` adds to the properties what is under way: both children of a split are recorded
with it (`HasChildren`), and what a process is about to acknowledge, to the source or to the outbox, is
already where the acknowledgement says (`InFlight`). The shares are computed by one division, so that
they add up is a lemma about one lot (`ChildrenConserve`). `FeeRouterAssumption` says of the rows of an earlier
release that no two of them are of one claim and token: their table had that constraint.

### 4.3 BuybackProofs

`OnceEach` rests, as in the pipeline, on what workers hold: `Reading` says that a snapshot is the row
or older than it, and `OneSubmitter` that of the workers between the commit of a stage and its submission there is one
for each stage, and that nobody submitted before. `Ledgered` ties the ledger to submissions.
`Books` balances each row by itself, with what its next stages may still cost.

`Purse` and the refinement compare rows with the ledger. `LInv` adds `Settled`: what the three
transactions of a lot moved is what its row has taken over, or will be asked to. This holds only where
an adapter answers for a lot with that lot's own transactions, which is the hypothesis `OwnLots`. The
code cannot enforce it and does not try: `NativeTransferEvidence` and its siblings (buyback.ts:46-64)
carry the operation and the source claim, and it is the adapter that reads them off the chain; within
a lot the adapters may still cite any of its transactions, for the wrong stage. `StagesRunOnce` needs no
such hypothesis. The run `buyback` routes one lot, so its adapters satisfy it.

`BurnsAsPromised` maps a lot's stage, purse and tokens to the ledger's transactions alone (`StageBar`,
`PurseBar`, `TokensBar`, `BurnedBar`): only `Finalize` moves them, and it is the promise's step of the
stage; every step of a worker leaves them alone.

### 4.4 SettlementProofs

Three reservations stand between a lot and a second send, and each is a part of `IInv`: `Calling` (the
call that may still act, one per lot, was the one that wrote the row), `Signed` (one `execute()` per
preparation row, which broadcasts only after the journal gave up the right to) and `Asked` (what a
`reconcile()` may write never restores that right). `Booked` ties orders and phases to what the
outside did. The proof covers the calls that missed their deadline: they are processes' tasks like any
other, and `Midway` only narrows who may run.

`PayloadsOnlyGrow` is the compare-and-swap at work: a save that succeeds finds its own snapshot in
the row and adds to it. `FinalStays` is not proved: it is false (section 5).

### 4.5 BrowserProofs

`GateInv` says that every lookup has a revision of its own, no newer than the row's and older than that
of a live row, and that the channel was on air when a live row says so; `Rows` ties attempt, context lock, session, page and clicks
together; `GoodRun` and `GoodRec` say for each await of `submit()` and `reconcile()` what has been
committed by then and whether the saved copy is still the row. `ContextExclusive` depends on both:
a context is freed only by a reconciliation that has seen the session end, and the same attempt opens no
session after that. `PermitIsFresh` is an action property, proved of the one step that enters "clicking".

### 4.6 EvmProofs

`Fits(p, task[p])` says for each process what its place implies: which intent it works on (`Target`),
that it holds the signer's lock while it is inside `exclusive()` and what it read there is still so
(`Holds`), what a receipt it saw still allows (`Saw`) and that a scan's snapshot of the sequence does
not run ahead (`Follows`). `Ahead` orders nonces by the account's record; `NonceOnce` is part of it,
because a nonce that was marked is at or below the record from then on, whatever the pool says.
What the chain may do to a transaction is one lemma (`ChainMoves`): forks, drops and sweeps undo anything but a final
block. `EvmAssumption` asks that `None` is no number, process or token.

### 4.7 ClaimProofs

`IInv` has a part for each module. `Journal`: an `execute()` hands a transaction over once, after the
row gave up the right to (`Dispatched`); while the chain may still execute a transaction its row is
unresolved (`Tracked`), for which what nodes answer must be true as far as it goes (`Truthful`); and the
table's index keeps one row unresolved (`OneOpen`). The three together are why no two claims are under
way at once. `Tracked` is what a write of an old answer could break, and `Truthful` is why it does not: an answer,
however late, says nothing of a transaction that has not happened. `Source`: a scan prices what it has proved and routes
what it has booked (`Places`), and `vault` never exceeds what was earned. `Recovery`: a review that two sources agree
on holds only claims that have expired (`Reviewed`), and expiry is final.

`ClaimAssumption` says that the claims are one creator's, which is the unit the index works on, and that
what makes a claim worth while is within what may be earned.

### 4.8 LedgerProofs

`Books` is not inductive, because what `Finished` takes out of the reserve was put there by three
earlier operations under conditions that only the record remembers. `Kept(row, entries)` is what is
true of one payment between any two operations: its fields fit its status (nothing credited that was
not funded, nothing spent that was not completed), the exchange difference is the one booked, the
entries sum to zero and the reserve is `Held`. Since an operation changes one payment and its own
entries, each `...Keeps` lemma is a fact about one row, without variables; `...Step` applies it to
the state. `OneSpendPerChannel` needs that a payment that was started and is not completed is `Busy`,
so that `Clear` sees it, also after it was marked uncertain. `OnePurchaseOneRecord` needs what is still true of a check
that was made a while ago (`Foreseen`): of the payments completed by then none has its reference for a native receipt, and of those
completed since, which the commit will call `missed`, nothing is known. Two references or two pages are kept apart by the unique
columns, and only a completed payment has filed a native receipt (`Filed`). That the amounts booked are integers is
not assumed but follows from `journal()`'s own check (`Entries`).

`Solvent` compares sums over a token's claims, payments and receipts with nothing and with each other; its
invariant, `SInv`, makes them local. A balance is what the token has earned plus a sum over *all*
payments of what a row contributes (`LamportsIn`, `BasisIn`, `CentsIn`: zero for a row of another
token), so an operation, which changes one row, moves a balance by one difference
(`BalancesMove`). `Sound` is what each row must say for that: what the journal has taken from the token
for it is the budget until it is closed, then what its SOL cost (`Taken`); a native reservation remembers a
balance that had the SOL it holds, and what it pinned of the cost is that part of it, within the budget (`Planned`); what
was sent stayed in the budget unless the gas overran its ceiling (`InBudget`). Each `...Covers` lemma is, again,
a fact about one row and its token's three balances; `...Solvent` applies it.
The first half of `Backed` then holds row by row (`PromiseIsBacked`) and is summed up. For the other half the
cost that a part of the SOL takes must be at most what all of it cost (`QuotientOfPart`), which is where the rounding of
BigInt division matters: it rounds to zero, and the parts of a native payment are taken of the balance
the reservation saw, so their sum cannot exceed what was pinned (`BasisGrows`). A balance that an overrun has made
negative stays an integer, and the hypothesis `NoOverrun` drops that token. `TreasuryCovered` needs `ShareKept`, which adds that no
central wallet of a token has spent anything before the first transfer: a receipt without a wallet is
checked against the creator's custody only once there was a transfer.

The testing budget has an invariant of its own, `BInv`. `Requests`: a process about to ask for a session is the
one that began the attempt's cost, so that cost is unresolved, nobody has asked yet, and neither a settlement (which needs
the session) nor a release (which needs that nobody asks) can end it first. `Freezes`: whatever went
wrong has left a reason. `SpendIsReviewed` then follows at the only step that tells anybody to execute:
a frozen budget lets it pass for an approval of exactly these overruns, and for none after a policy freeze.
`BudgetOnlyReads` carries the ledger's theorems over to the composition that the run explores.

`Budgeted` has `KInv`, which is `IInv` and `BInv` and four facts about amounts: what is recorded of a cost is a number
and its proof is evidence of its own operation (`CostsAreNumbers`, `Evidence`); an operation that a
creator pays for out of the ledger is covered by a plan or reserve that is still there
(`CreatorsCovered`, `Unplanned`), because no later operation on that payment lets go of it before the budget has let go of the
operation; and what is owed stays within the cap (`WithinCap`) unless an overrun has frozen the budget.

Sums here may be of negative numbers. A sum is the number of its units less the number of the units of its
negation (`Net`), which reduces what is needed (one summand more, one changed, the sum of sums, zeros left out)
to cardinalities, as in `PipelineProofs`; that `SumFunction` computes it (`SumIsNet`) is shown with a least
counterexample again (`LeastWrong`).

The assumptions are the constants': `LedgerAssumption` (payments are finitely many, shares are at most the whole,
reported amounts are not negative, only a transfer moves principal and its wallet is not the
creator's) and `TestingBudgetAssumption` (operations are finitely many pairs, and neither an evidence id nor a reason for
a freeze is `None`). Everything else of a receipt, a claim or a proof is arbitrary.

### 4.9 Only model-checked

* Liveness, under fairness: `NoStarvation`, `EveryLotSettles`, `EveryLotArrives`, `EveryLotBurns`,
  `EveryLotSells`, `ChargedSettles`, `SignedArrives`, `LandedConfirms`, `PageLearns`,
  `EveryClaimRoutes`, `FeesAreClaimed`. TLAPS reasons about neither `WF` nor `ENABLED` here.

Every invariant and every action property of a passing run is stated by a theorem. What the theorems do
not say is that the interesting states are reached; the runs and their mutants show that.

## 5. Findings

`pipeline_failed_commit`. `run()` replaces its variable `job` by `{...job, phase: 'completed'}`
(pipeline.ts:394) before the last statements of the receipt transaction. If one of them fails
(full disk, I/O error), the transaction rolls back, but the catch (418-423) saves the replaced `job`
under a revision that has not moved. The job is then `completed`, no queue returns it, and
`agent_receipts` has no row for it, while docs/security.md:22 says that durable receipt identities
prevent repeated credit: the same receipt could then serve another job. The reservation transaction
has the same shape (338): there the row becomes `gifting` without a reservation.

`settlement_final`. `update()` of the journal refuses to change a final state, but it reads the state
in one statement and writes it in another that names only the id (transaction-journal.ts:88-101),
without the transaction that `claimForBroadcast` opens. Two processes suffice, and no failure: the
first is about to store "broadcast", the second stores "failed" or "confirmed" in between, and the
first overwrites it, although line 92 says "A finalized transaction cannot change state." Within one
process no await separates the two statements, so it holds there, also against answers that arrive
late, and the next reconciliation repairs the row. A retirement (`retired_expired`) can be overwritten in
the same way by another process' read; the claim then blocks its creator again, and nothing worse.

What the models showed without contradicting a stated promise, for whoever reviews the code:

* an operator's completion is checked before its transaction (operations.ts:1883, 585), so a reference may be filed that a
  verified completion in another process has just filed as its native receipt: one record, two payments
  (`OnePurchaseOneRecord`). The unique index covers `paymentReference` only. `completePaymentVerified` has no caller in the running services;
* a launch that expired unsubmitted is stored as failed when a mint is read from a node behind the one that told the height
  (pump-chain.ts:379-386): the user is told to start anew although the wallet's own send has landed, and no check looks at a failed
  row again (`Missed`). A `minContextSlot` on the second read would exclude it;
* two workers may for ever undo each other's saves in the buyback when one of them fails each time (`Overtakes`);
* a native payment whose gas overran its ceiling is left "uncertain", where no evidence can
  complete it and nothing cancels it; it blocks every start on its platform; "awaiting_threshold" has
  no way out either;
* a transfer of a token's share may be worth less than the fee its receiver pays for it: it is
  accepted, since what it moves is checked against the creator's custody and its fee against the token's whole share
  (operations.ts:787-792, 810), and it leaves the receiving wallet's custody negative (696-701). Nothing is lost, but nothing can be spent from that wallet until more is
  sent; `TreasuryCovered` excludes such dust, and the run has one;
* a freeze by policy has no recovery: `SpendIsReviewed` holds after one because nothing runs;
* claims that expired in this release are retired by nothing (section 3, `Held`).

## 6. Plan

Done: 1. `Pipeline`, `CardPromise`, `PipelineProofs`; 2. `FeeRouter`; 3. `Buyback`, `BurnPromise`;
4. `TransactionJournal`, `Settlement`; 5. `LiveGate`, `BrowserRunner`; 6. `EvmSource`;
7. `Launch`; 8. `Ledger`, `TestingBudget`, `LedgerProofs`; 9. `ClaimSource`, `ClaimRecovery`;
10. the proof modules of section 4.

Open, in this order: the limit of active launches, which takes a fourth request id; the PONs escrow that
several tokens share; the fee engine's reducer as an operator against its event table.

## 7. Not modelled

* Providers: request signing, parsing of answers, page layout, e-mail receipts, address derivation; the
  models take what callers demand of them as the contract.
* The PONs chain of the EVM source (shared escrow, external payout evidence): one scan reads the
  registry once, and what the external adapter separates is not in this repository.
* The calls of the settlement that only pass through, and whatever a bridge keeps for itself.
* `pump-treasury.ts` (building of treasury transactions) and the schema migration of the ceilings.
* The fee engine, a pure reducer that tests use and no service calls.
* HTTP routing and sessions; public projections and caches; all pages but the launch page; start-up,
  configuration and secrets: they keep no protocol state of their own.

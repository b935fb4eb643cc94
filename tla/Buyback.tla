------------------------------ MODULE Buyback ------------------------------
(***************************************************************************)
(* The buyback worker of server/agents/buyback.ts: the native fifth of each *)
(* fee lot is bridged to SOL, spent on POG and the POG is burnt.  Several   *)
(* workers share the database; each works through a bounded slice of the    *)
(* queue read in one statement, commits a stage's request before submitting *)
(* it, and afterwards only reconciles it.                                   *)
(*                                                                          *)
(* A lot is named by its rowid in agent_buyback_jobs.  "submits" counts the *)
(* adapters' submit calls and "tx" is the ledger: neither is the program's. *)
(***************************************************************************)
EXTENDS Integers, FiniteSets

CONSTANTS
  MaxLots,       \* bound on the lots recorded
  Unrouted,      \* lots of a chain whose bindings ready() finds missing
  Workers,       \* worker instances sharing the database
  MayCite,       \* operations whose transaction an adapter may cite for another
  Quotes,        \* what a quote may promise, in base units
  Receipts,      \* what a transfer may deliver, in lamports
  Outputs,       \* what a purchase may bring, in tokens
  Slippage,      \* policy.maxSlippageBps
  MaxFee,        \* policy.maxTargetFeeLamports
  MinBuy, MaxBuy,  \* policy.minimum/maximumBuyLamports
  BatchSize,     \* policy.maxJobsPerRun
  MaxCrashes,    \* bound on crashes
  Revisions,     \* the revisions a row may bear: Nat in the code (see Unseen)
  None           \* no row

Lots == 1 .. MaxLots
Stages == {"transfer", "buy", "burn"}
Ops == Lots \X Stages

\* minimum(): the least output a quote allows.
Minimum(expected) == (expected * (10000 - Slippage)) \div 10000

ASSUME BuybackAssumption ==
  /\ MaxLots \in Nat /\ Unrouted \subseteq Lots
  /\ MayCite \in [Ops -> SUBSET Ops]
  /\ Slippage \in 0 .. 1000
  /\ Quotes \subseteq Nat \ {0} /\ \A q \in Quotes : Minimum(q) > 0
  /\ Receipts \subseteq Nat \ {0} /\ Outputs \subseteq Nat \ {0}
  /\ MaxFee \in Nat \ {0}
  /\ MinBuy \in Nat \ {0} /\ MaxBuy \in Nat /\ MinBuy <= MaxBuy
  /\ BatchSize \in 1 .. 1000 /\ MaxCrashes \in Nat
  /\ Revisions \subseteq Nat /\ 0 \in Revisions

VARIABLES
  jobs,      \* agent_buyback_jobs
  cursor,    \* agent_buyback_cursor.last_rowid
  evidence,  \* agent_buyback_evidence
  pc,        \* where each worker stands in run()
  batch,     \* the rows its SELECT returned and it has not taken yet
  cur,       \* the row it is handling
  submits,   \* submit calls made, per operation
  tx,        \* the finalized transaction of an operation, or None
  crashes    \* crashes so far

table == <<jobs, cursor, evidence>>
local == <<pc, batch, cur>>
world == <<submits, tx>>
vars == <<table, local, world, crashes>>

Phases == {"absent", "reserved", "transferring", "funded", "buying", "bought",
           "burning", "completed"}
Ready == {"reserved", "funded", "bought"}
Pending == {"transferring", "buying", "burning"}

After(phase) ==
  CASE phase = "reserved" -> "transferring" [] phase = "transferring" -> "funded"
    [] phase = "funded" -> "buying"         [] phase = "buying" -> "bought"
    [] phase = "bought" -> "burning"        [] phase = "burning" -> "completed"

StageOf(phase) ==
  CASE phase \in {"reserved", "transferring"} -> "transfer"
    [] phase \in {"funded", "buying"} -> "buy"
    [] phase \in {"bought", "burning"} -> "burn"

\* The payload: the pending request's bounds and the branch's accounts.
Row == [phase : Phases, revision : Revisions, issue : BOOLEAN,
        input : Nat, minimum : Nat,
        received : Nat, spent : Nat, fees : Nat, residual : Nat,
        tokens : Nat, burned : Nat]
Snapshot == [id : Lots, row : Row]
Queued == [turn : Nat, id : Lots, row : Row]
Tx == [sol : Nat, fee : Nat, tokens : Nat]

ASSUME NoneAssumption == None \notin Tx /\ None \notin Snapshot

NewRow(phase) ==
  [phase |-> phase, revision |-> 0, issue |-> FALSE, input |-> 0, minimum |-> 0,
   received |-> 0, spent |-> 0, fees |-> 0, residual |-> 0, tokens |-> 0, burned |-> 0]

-----------------------------------------------------------------------------
\* The queue.

Unfinished == {j \in Lots : jobs[j].phase \notin {"absent", "completed"}}

\* ORDER BY CASE WHEN rowid>? THEN 0 ELSE 1 END,rowid.
Turn(j) == IF j > cursor THEN j ELSE j + MaxLots

NextBatch ==
  {j \in Unfinished : Cardinality({k \in Unfinished : Turn(k) < Turn(j)}) < BatchSize}

\* Mutant: the cursor is left where it is.
RotatedNever(w) == cursor' = cursor
\* The finally of run(): the rotation passes the row, whatever became of it.
Rotated(w) == cursor' = cur[w].id

-----------------------------------------------------------------------------
\* save(): compare-and-swap on the revision.

CanSave(w) == jobs[cur[w].id].revision = cur[w].row.revision

\* What the workers have read and not done with.
Held(w) == batch[w] \cup {c \in {cur[w]} : c # None}

\* Revisions of a row that no worker still holds a reading of.  The code counts
\* up; revisions are only ever compared with one another, so what counts is that
\* a save bears one that nobody compares with.  A revision more than there are
\* workers is always enough of them.
Unseen(j) ==
  {n \in Revisions : \A w \in Workers : \A s \in Held(w) : s.id = j => s.row.revision # n}

\* The worker's own row as save() leaves it, with or without an issue.
Written(w, row, issue) ==
  [row EXCEPT !.revision = CHOOSE n \in Unseen(cur[w].id) : TRUE, !.issue = issue]

Save(w, row, issue) ==
  /\ Unseen(cur[w].id) # {}
  /\ jobs' = IF CanSave(w) THEN [jobs EXCEPT ![cur[w].id] = Written(w, row, issue)] ELSE jobs

\* commit() of run(), which also withdraws the issue.
Stamped(w, row) == Written(w, row, FALSE)
Commit(w, row) == Save(w, row, FALSE)

Goto(w, label) == pc' = [pc EXCEPT ![w] = label] /\ UNCHANGED batch

\* The worker is done with its row.
Leave(w) ==
  /\ Goto(w, "next")
  /\ cur' = [cur EXCEPT ![w] = None]
  /\ Rotated(w)

\* The catch of run(): the row is held with an issue, again and again at a new
\* revision, so that whoever else read it can no longer save.
Catch(w) ==
  /\ Save(w, cur[w].row, TRUE)
  /\ Leave(w)

-----------------------------------------------------------------------------
Init ==
  /\ jobs = [j \in Lots |-> NewRow("absent")]
  /\ cursor = 0 /\ evidence = {}
  /\ pc = [w \in Workers |-> "next"]
  /\ batch = [w \in Workers |-> {}]
  /\ cur = [w \in Workers |-> None]
  /\ submits = [op \in Ops |-> 0]
  /\ tx = [op \in Ops |-> None]
  /\ crashes = 0

\* recordClaim of the next lot; recording a lot again changes nothing.
RecordClaim(j) ==
  /\ jobs[j].phase = "absent" /\ \A k \in 1 .. j - 1 : jobs[k].phase # "absent"
  /\ jobs' = [jobs EXCEPT ![j] = NewRow("reserved")]
  /\ UNCHANGED <<cursor, evidence, local, world, crashes>>

StartRun(w) ==
  /\ pc[w] = "next" /\ batch[w] = {}
  /\ batch' = [batch EXCEPT ![w] =
                  {[turn |-> Turn(j), id |-> j, row |-> jobs[j]] : j \in NextBatch}]
  /\ UNCHANGED <<table, pc, cur, world, crashes>>

\* Bindings first, then verifyTarget and the switch.
Dispatch(s) ==
  IF s.id \in Unrouted THEN "hold" ELSE IF s.row.phase \in Ready THEN "begin" ELSE "ask"

TakeRow(w) ==
  /\ pc[w] = "next"
  /\ \E s \in batch[w] :
       /\ \A t \in batch[w] : s.turn <= t.turn
       /\ batch' = [batch EXCEPT ![w] = @ \ {s}]
       /\ pc' = [pc EXCEPT ![w] = Dispatch(s)]
       /\ cur' = [cur EXCEPT ![w] = [id |-> s.id, row |-> s.row]]
  /\ UNCHANGED <<table, world, crashes>>

\* A missing binding, or an adapter that rejects, times out or lies about the
\* operation's identity.
Threw(w) ==
  /\ pc[w] \in {"hold", "begin", "await", "ask"}
  /\ Catch(w)
  /\ UNCHANGED <<evidence, world, crashes>>

\* Mutant: the purchase leaves one fee.
InputOneFee(row) == row.received - MaxFee

\* The lamports a purchase may use: two fees stay behind.
Input(row) == row.received - 2 * MaxFee

\* What a stage needs before its request is built.
Affordable(row) ==
  CASE row.phase = "reserved" -> TRUE
    [] row.phase = "funded" -> Input(row) \in MinBuy .. MaxBuy
    [] row.phase = "bought" -> row.residual >= MaxFee

\* The row with the request a stage commits before it submits.
Requested(row, quote) ==
  CASE row.phase = "reserved" -> [row EXCEPT !.phase = "transferring", !.minimum = Minimum(quote)]
    [] row.phase = "funded" -> [row EXCEPT !.phase = "buying", !.input = Input(row),
                                           !.minimum = Minimum(quote)]
    [] row.phase = "bought" -> [row EXCEPT !.phase = "burning"]

\* Target verified and quote fresh: the request is committed, to be submitted.
Begin(w) ==
  /\ pc[w] = "begin" /\ Affordable(cur[w].row)
  /\ \E quote \in Quotes :
       LET row == Requested(cur[w].row, quote) IN
       /\ Commit(w, row)
       /\ IF CanSave(w)
          THEN /\ cur' = [cur EXCEPT ![w].row = Stamped(w, row)]
               /\ Goto(w, "call") /\ UNCHANGED cursor
          ELSE Leave(w)
  /\ UNCHANGED <<evidence, world, crashes>>

OpOf(w) == <<cur[w].id, StageOf(cur[w].row.phase)>>

Submit(w) ==
  /\ pc[w] = "call"
  /\ submits' = [submits EXCEPT ![OpOf(w)] = @ + 1]
  /\ Goto(w, "await")
  /\ UNCHANGED <<table, cur, tx, crashes>>

\* submit answers with a reference, which is committed if the row has not moved.
Submitted(w) ==
  /\ pc[w] = "await"
  /\ Commit(w, cur[w].row)
  /\ Leave(w)
  /\ UNCHANGED <<evidence, world, crashes>>

\* reconcile has nothing finalized yet.
NotYet(w) ==
  /\ pc[w] = "ask"
  /\ Leave(w)
  /\ UNCHANGED <<jobs, evidence, world, crashes>>

-----------------------------------------------------------------------------
\* Reconciliation.

\* What run() demands of a finalized transaction for the row's request.
Satisfies(row, t) ==
  CASE row.phase = "transferring" -> t.sol > 0 /\ t.sol >= row.minimum
    [] row.phase = "buying" -> /\ t.sol \in 1 .. row.input
                               /\ t.fee <= MaxFee
                               /\ t.tokens > 0 /\ t.tokens >= row.minimum
                               /\ t.sol + t.fee <= row.received
    [] row.phase = "burning" -> /\ t.tokens > 0 /\ t.tokens = row.tokens
                                /\ t.fee <= MaxFee /\ t.fee <= row.residual

\* Mutant: the purchase's own fee is not taken from the residual.
LeftNoFee(row, t) == row.received - t.sol

\* The lamports a purchase leaves to its branch.
Left(row, t) == row.received - t.sol - t.fee

Credited(row, t) ==
  CASE row.phase = "transferring" ->
         [row EXCEPT !.phase = "funded", !.received = t.sol, !.residual = t.sol]
    [] row.phase = "buying" ->
         [row EXCEPT !.phase = "bought", !.spent = t.sol, !.fees = t.fee,
                     !.residual = Left(row, t), !.tokens = t.tokens]
    [] row.phase = "burning" ->
         [row EXCEPT !.phase = "completed", !.fees = @ + t.fee, !.residual = @ - t.fee,
                     !.burned = t.tokens]

\* Mutant: evidence identities are unique per stage only.
UsedInStage(op, stage) == \E e \in evidence : e.op = op /\ e.stage = stage

\* PRIMARY KEY of agent_buyback_evidence: one transaction, one use.
Used(op, stage) == \E e \in evidence : e.op = op

\* reconcile answers with the transaction of "op": refused, already used, or
\* credited in the transaction that records its identity.
Cites(w, op) ==
  /\ pc[w] = "ask" /\ op \in MayCite[OpOf(w)] /\ tx[op] # None
  /\ LET row == cur[w].row IN
     IF ~Satisfies(row, tx[op]) \/ (CanSave(w) /\ Used(op, OpOf(w)[2]))
     THEN Catch(w) /\ UNCHANGED evidence
     ELSE /\ Commit(w, Credited(row, tx[op]))
          /\ evidence' = IF CanSave(w)
                         THEN evidence \cup {[op |-> op, job |-> cur[w].id,
                                              stage |-> OpOf(w)[2]]}
                         ELSE evidence
          /\ Leave(w)
  /\ UNCHANGED <<world, crashes>>

Reconciled(w) == \E op \in Ops : Cites(w, op)

-----------------------------------------------------------------------------
\* The outside: a submitted operation takes effect once, late or not, within the
\* request the adapter was handed.
Outcomes(op) ==
  LET row == jobs[op[1]] IN
  CASE op[2] = "transfer" -> [sol : Receipts, fee : {0}, tokens : {0}]
    [] op[2] = "buy" -> [sol : 1 .. row.input, fee : 0 .. MaxFee,
                         tokens : {n \in Outputs : n >= row.minimum}]
    [] op[2] = "burn" -> [sol : {0}, fee : 0 .. MaxFee, tokens : {row.tokens}]

Finalize(op) ==
  /\ submits[op] > 0 /\ tx[op] = None
  /\ \E t \in Outcomes(op) : tx' = [tx EXCEPT ![op] = t]
  /\ UNCHANGED <<table, local, submits, crashes>>

\* The process dies and is started again; only the database is left.
Crash(w) ==
  /\ ~(pc[w] = "next" /\ batch[w] = {})
  /\ crashes < MaxCrashes /\ crashes' = crashes + 1
  /\ pc' = [pc EXCEPT ![w] = "next"]
  /\ batch' = [batch EXCEPT ![w] = {}]
  /\ cur' = [cur EXCEPT ![w] = None]
  /\ UNCHANGED <<table, world>>

WorkerStep(w) ==
  \/ StartRun(w) \/ TakeRow(w) \/ Threw(w) \/ Begin(w) \/ Submit(w) \/ Submitted(w)
  \/ NotYet(w) \/ Reconciled(w)

Next ==
  \/ \E j \in Lots : RecordClaim(j)
  \/ \E op \in Ops : Finalize(op)
  \/ \E w \in Workers : WorkerStep(w) \/ Crash(w)

Spec == Init /\ [][Next]_vars

-----------------------------------------------------------------------------
TypeOK ==
  /\ jobs \in [Lots -> Row]
  /\ cursor \in 0 .. MaxLots
  /\ evidence \subseteq [op : Ops, job : Lots, stage : Stages]
  /\ pc \in [Workers -> {"next", "hold", "begin", "call", "await", "ask"}]
  /\ batch \in [Workers -> SUBSET Queued]
  /\ cur \in [Workers -> Snapshot \cup {None}]
  /\ submits \in [Ops -> Nat]
  /\ tx \in [Ops -> Tx \cup {None}]
  /\ crashes \in Nat

\* The phases in which a stage may be under way or over.
Begun(stage) ==
  CASE stage = "transfer" -> Phases \ {"absent", "reserved"}
    [] stage = "buy" -> {"buying", "bought", "burning", "completed"}
    [] stage = "burn" -> {"burning", "completed"}

\* docs/buybacks.md: a stage's request is persisted before its adapter is
\* invoked, and "restarts ... never invoke submit again": at most one submit per
\* stage, and none without its committed stage.
SubmitOnce ==
  \A op \in Ops :
    /\ submits[op] <= 1
    /\ submits[op] = 1 => jobs[op[1]].phase \in Begun(op[2])

\* "A single transaction cannot fund two allocations", nor two stages of one;
\* and a job past a stage holds the identity that took it there.
OneTransactionOneUse ==
  /\ \A e, f \in evidence : e.op = f.op <=> (e.job = f.job /\ e.stage = f.stage)
  /\ \A j \in Lots :
       LET has(stage) == \E e \in evidence : e.job = j /\ e.stage = stage IN
       /\ has("transfer") <=> jobs[j].phase \in Begun("transfer") \ {"transferring"}
       /\ has("buy") <=> jobs[j].phase \in Begun("buy") \ {"buying"}
       /\ has("burn") <=> jobs[j].phase = "completed"

\* docs/buybacks.md, "Accounting and residuals": the books of a branch balance
\* against what the ledger really moved for it.
Accounting ==
  \A j \in Lots :
    LET row == jobs[j]
        moved(stage, field) == IF tx[<<j, stage>>] = None THEN 0 ELSE tx[<<j, stage>>][field]
    IN /\ row.received = row.spent + row.fees + row.residual
       /\ row.phase \in Begun("transfer") \ {"transferring"} =>
            row.received = moved("transfer", "sol")
       /\ row.phase = "completed" =>
            /\ row.residual = row.received - moved("buy", "sol") - moved("buy", "fee")
                              - moved("burn", "fee")
            /\ row.burned = moved("buy", "tokens") /\ row.burned = row.tokens

\* A branch that has bought can always pay for its burn: the step
\* "Insufficient branch residual" is never what holds it.
BurnIsAffordable == \A j \in Lots : jobs[j].phase = "bought" => jobs[j].residual >= MaxFee

\* Each stage is submitted once and rests on one transaction, which rests on it alone.
OnceEach == SubmitOnce /\ OneTransactionOneUse

\* The purse of a branch is what its transactions left of it, and pays for its burn.
Purse == TypeOK /\ Accounting /\ BurnIsAffordable

-----------------------------------------------------------------------------
\* Scheduling: runOnce is started again and again, and every await ends.
FairSpec == Spec /\ \A w \in Workers : WF_vars(WorkerStep(w))

\* Adapters that in the end verify, quote and answer with the right transaction.
Adapters ==
  /\ \A w \in Workers : SF_vars(Begin(w)) /\ SF_vars(Cites(w, OpOf(w)))
  /\ \A op \in Ops : WF_vars(Finalize(op))

\* A worker died between committing a stage and submitting it: "deliberately
\* ambiguous", for the adapter's own journal to resolve.
Stranded(j) ==
  /\ jobs[j].phase \in Pending
  /\ submits[<<j, StageOf(jobs[j].phase)>>] = 0
  /\ \A w \in Workers : ~(pc[w] = "call" /\ cur[w].id = j)

\* What arrived does not leave an input within policy after both fees.
Unspendable(j) == jobs[j].phase = "funded" /\ Input(jobs[j]) \notin MinBuy .. MaxBuy

\* A worker that fails holds the row while another has a current reading of it in
\* hand: the other's save, whatever it achieved, will be refused.
Overtakes(j) ==
  /\ jobs'[j].issue /\ jobs'[j] # jobs[j]
  /\ \E w \in Workers : \E s \in Held(w) \cap Held(w)' :
       s.id = j /\ s.row.revision = jobs[j].revision

\* "The rotating bounded queue continues past held jobs so one unsupported route
\* cannot starve others": with such adapters every routed lot that failing workers do
\* not overtake for ever is burnt in the end, or held for one of these two reasons.
EveryLotBurns ==
  Adapters => \A j \in Lots \ Unrouted :
    <>[][~Overtakes(j)]_vars =>
      (jobs[j].phase = "reserved" ~>
        jobs[j].phase = "completed" \/ Stranded(j) \/ Unspendable(j))

-----------------------------------------------------------------------------
Moved(j, stage) == tx[<<j, stage>>] # None

Promise == INSTANCE BurnPromise WITH
  stage <- [j \in Lots |-> IF Moved(j, "burn") THEN "burnt"
                           ELSE IF Moved(j, "buy") THEN "bought"
                           ELSE IF Moved(j, "transfer") THEN "funded" ELSE "none"],
  purse <- [j \in Lots |->
              (IF Moved(j, "transfer") THEN tx[<<j, "transfer">>].sol ELSE 0)
              - (IF Moved(j, "buy") THEN tx[<<j, "buy">>].sol + tx[<<j, "buy">>].fee ELSE 0)
              - (IF Moved(j, "burn") THEN tx[<<j, "burn">>].fee ELSE 0)],
  tokens <- [j \in Lots |-> IF Moved(j, "buy") THEN tx[<<j, "buy">>].tokens ELSE 0],
  burned <- [j \in Lots |-> IF Moved(j, "burn") THEN tx[<<j, "burn">>].tokens ELSE 0]

\* What the adapters are asked to do never overdraws a lot's purse, buys twice or
\* burns anything but what was bought, through races, crashes and late answers.
KeepsPromise == Promise!Spec
=============================================================================

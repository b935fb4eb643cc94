--------------------------- MODULE BuybackProofs ---------------------------
(***************************************************************************)
(* What holds of Buyback for every number of lots, workers, crashes and     *)
(* quotes: each stage of a lot is submitted once and rests on one           *)
(* transaction, and, where an adapter cites a transaction only for the lot  *)
(* it was made for, the purse of a lot balances against the ledger and      *)
(* keeps the promise of BurnPromise.                                        *)
(***************************************************************************)
EXTENDS Buyback, TLAPS

-----------------------------------------------------------------------------
\* The invariant.

\* What a worker read is a row the table holds or has replaced: as long as it is
\* read, its revision names one content, so save()'s comparison tells them apart.
Read(s) ==
  /\ jobs[s.id].phase # "absent"
  /\ s.row.phase \notin {"absent", "completed"}
  /\ s.row.revision = jobs[s.id].revision => s.row = jobs[s.id]

\* A worker about to submit committed the stage, and nobody submitted it yet.
Place(w) ==
  /\ pc[w] = "begin" => cur[w].row.phase \in Ready
  /\ pc[w] \in {"call", "await", "ask"} => cur[w].row.phase \in Pending
  /\ pc[w] = "call" => /\ submits[OpOf(w)] = 0
                       /\ jobs[cur[w].id].phase \in Begun(OpOf(w)[2])

Reading ==
  /\ \A w \in Workers : \A s \in batch[w] : Read(s)
  /\ \A w \in Workers : pc[w] # "next" => cur[w] \in Snapshot /\ Read(cur[w]) /\ Place(w)

\* One worker is about to submit a stage.
OneSubmitter ==
  \A v, w \in Workers : v # w /\ pc[v] = "call" /\ pc[w] = "call" => OpOf(v) # OpOf(w)

Ledgered == \A op \in Ops : tx[op] # None => submits[op] > 0

\* The accounts of a branch, as far as its phase goes.
Balanced(r) ==
  /\ r.received = r.spent + r.fees + r.residual
  /\ r.phase \in {"absent", "reserved", "transferring"} => r.spent = 0 /\ r.fees = 0
  /\ r.phase \in Begun("buy") => r.input + 2 * MaxFee = r.received
  /\ r.phase \in {"bought", "burning"} => r.residual >= MaxFee

Books == \A j \in Lots : Balanced(jobs[j])

IInv ==
  /\ TypeOK /\ Reading /\ OneSubmitter /\ Ledgered /\ SubmitOnce /\ OneTransactionOneUse /\ Books

\* An adapter answers with transactions of the lot it was asked about: the proofs of
\* its transfer or of its purchase carry the operation and the job (buyback.ts:46-64).
OwnLots == \A op \in Ops : \A cited \in MayCite[op] : cited[1] = op[1]

\* What the ledger did for a lot, and what its row has taken over from there.
Tally(r, transfer, buy, burn) ==
  /\ transfer # None => transfer.tokens = 0 /\ transfer.sol \in Receipts
  /\ buy # None => /\ buy.sol >= 1 /\ buy.sol <= r.input /\ buy.fee <= MaxFee
                   /\ buy.tokens \in Outputs
  /\ burn # None => burn.fee <= MaxFee /\ burn.tokens = r.tokens
  /\ r.phase \in Begun("transfer") \ {"transferring"} =>
       transfer # None /\ r.received = transfer.sol
  /\ r.phase \in Begun("buy") \ {"buying"} =>
       buy # None /\ r.tokens = buy.tokens
  /\ r.phase \in {"bought", "burning"} => r.residual = r.received - buy.sol - buy.fee
  /\ r.phase = "completed" =>
       /\ burn # None /\ r.burned = r.tokens
       /\ r.residual = r.received - buy.sol - buy.fee - burn.fee

Settled(j) == Tally(jobs[j], tx[<<j, "transfer">>], tx[<<j, "buy">>], tx[<<j, "burn">>])

\* An identity is used for the operation that made it.
OwnUse == \A e \in evidence : e.op = <<e.job, e.stage>>

LInv == IInv /\ OwnUse /\ \A j \in Lots : Settled(j)

LEMMA MinimumIsNat == ASSUME NEW q \in Quotes PROVE Minimum(q) \in Nat
<1>1. q \in Int /\ 10000 - Slippage \in Int /\ Minimum(q) > 0
  BY BuybackAssumption
<1>2. q * (10000 - Slippage) \in Int
  BY <1>1
<1>3. Minimum(q) \in Int
  BY <1>2 DEF Minimum
<1>4. QED
  BY <1>1, <1>3

LEMMA InitIInv == Init => IInv
<1> SUFFICES ASSUME Init PROVE IInv
  OBVIOUS
<1> USE DEF Init
<1>0. NewRow("absent") \in Row /\ NewRow("absent").phase = "absent"
      /\ Balanced(NewRow("absent"))
  BY BuybackAssumption DEF NewRow, Row, Phases, Balanced, Begun, Stages
<1>1. TypeOK
  BY <1>0, BuybackAssumption DEF TypeOK
<1>2. Reading /\ OneSubmitter /\ Ledgered
  BY DEF Reading, OneSubmitter, Ledgered
<1>3. \A j \in Lots : jobs[j].phase = "absent" /\ Balanced(jobs[j])
  BY <1>0
<1>4. SubmitOnce
  BY DEF SubmitOnce
<1>5. OneTransactionOneUse
  BY <1>3 DEF OneTransactionOneUse, Begun, Phases
<1>6. Books
  BY <1>3 DEF Books
<1>7. QED
  BY <1>1, <1>2, <1>4, <1>5, <1>6 DEF IInv

-----------------------------------------------------------------------------
\* What a step of the table does to what others have read of it.

\* A row is written at a revision nobody has read and never set back, or was not there.
JobStep(j) ==
  \/ jobs'[j] = jobs[j]
  \/ jobs[j].phase = "absent"
  \/ /\ jobs'[j].phase # "absent" /\ jobs'[j].revision \in Unseen(j)
     /\ \A stage \in Stages : jobs[j].phase \in Begun(stage) => jobs'[j].phase \in Begun(stage)

LEMMA ReadKeeps ==
  ASSUME IInv, NEW w \in Workers, NEW s \in Held(w), s.id \in Lots, Read(s), JobStep(s.id)
  PROVE  /\ jobs'[s.id].phase # "absent"
         /\ s.row.phase \notin {"absent", "completed"}
         /\ s.row.revision = jobs'[s.id].revision => s.row = jobs'[s.id]
<1>1. CASE jobs'[s.id].revision \in Unseen(s.id) /\ jobs'[s.id].phase # "absent"
  <2>1. s.row.revision # jobs'[s.id].revision
    BY <1>1 DEF Unseen
  <2>2. QED
    BY <1>1, <2>1 DEF Read
<1>2. QED
  BY <1>1 DEF Read, JobStep

LEMMA OpIsOp ==
  ASSUME IInv, NEW w \in Workers, pc[w] # "next"
  PROVE  /\ cur[w] \in Snapshot /\ Read(cur[w]) /\ cur[w].id \in Lots /\ cur[w].row \in Row
         /\ OpOf(w) \in Ops /\ OpOf(w)[1] = cur[w].id /\ OpOf(w)[2] = StageOf(cur[w].row.phase)
         /\ OpOf(w)[2] \in Stages
<1>1. cur[w] \in Snapshot /\ Read(cur[w])
  BY DEF IInv, Reading
<1>2. cur[w].id \in Lots /\ cur[w].row \in Row /\ cur[w].row.phase \in Phases \ {"absent", "completed"}
  BY <1>1 DEF Snapshot, Row, Read
<1>3. StageOf(cur[w].row.phase) \in Stages
  BY <1>2 DEF StageOf, Stages, Phases
<1>4. QED
  BY <1>1, <1>2, <1>3 DEF OpOf, Ops

\* A step of one worker leaves the others what they read and are about to submit.
LEMMA ReadingKeeps ==
  ASSUME IInv, NEW w \in Workers, jobs' \in [Lots -> Row], \A j \in Lots : JobStep(j),
         \A v \in Workers : batch'[v] \subseteq batch[v],
         \A v \in Workers \ {w} : pc'[v] = pc[v] /\ cur'[v] = cur[v],
         \A v \in Workers \ {w} : pc[v] = "call" => submits'[OpOf(v)] = submits[OpOf(v)],
         pc'[w] # "next" => cur'[w] \in Snapshot /\ Read(cur[w])' /\ Place(w)'
  PROVE  Reading'
<1>1. ASSUME NEW v \in Workers, NEW s \in batch'[v] PROVE Read(s)'
  <2>1. s \in batch[v] /\ s \in Queued
    BY DEF IInv, TypeOK
  <2>2. Read(s) /\ s.id \in Lots /\ s.row \in Row
    BY <2>1 DEF IInv, Reading, Queued
  <2>3. s \in Held(v)
    BY <2>1 DEF Held
  <2>4. QED
    BY <2>2, <2>3, ReadKeeps DEF Read
<1>2. ASSUME NEW v \in Workers \ {w}, pc'[v] # "next"
      PROVE  cur'[v] \in Snapshot /\ Read(cur[v])' /\ Place(v)'
  <2>1. /\ cur[v] \in Snapshot /\ Read(cur[v]) /\ Place(v) /\ cur[v].id \in Lots
        /\ cur[v].row \in Row /\ OpOf(v)[2] \in Stages
    BY <1>2, OpIsOp DEF IInv, Reading
  <2>2. PICK c \in Snapshot : c = cur[v]
    BY <2>1
  <2>3. cur'[v] = c
    BY <2>2
  <2>4. Read(cur[v])'
    <3>0. c \in Held(v)
      BY <2>2, NoneAssumption DEF Held
    <3>1. Read(c)'
      BY <2>1, <2>2, <3>0, ReadKeeps DEF Read
    <3>2. QED
      BY <2>3, <3>1 DEF Read
  <2>5. OpOf(v)' = OpOf(v)
    BY <2>2, <2>3 DEF OpOf
  <2>6. Place(v)'
    <3>1. \A stage \in Stages :
            jobs[cur[v].id].phase \in Begun(stage) => jobs'[cur[v].id].phase \in Begun(stage)
      BY <2>1 DEF JobStep, Begun, Stages
    <3>2. QED
      BY <2>1, <2>2, <2>3, <2>5, <3>1 DEF Place
  <2>7. QED
    BY <2>2, <2>3, <2>4, <2>6
<1>3. QED
  BY <1>1, <1>2 DEF Reading

\* The worker is done with its row.
LEMMA LeaveKeeps ==
  ASSUME IInv, NEW w \in Workers, pc[w] # "next", Leave(w), UNCHANGED <<submits, tx>>,
         jobs' \in [Lots -> Row], \A j \in Lots : JobStep(j)
  PROVE  /\ Reading' /\ OneSubmitter' /\ Ledgered'
         /\ pc' \in [Workers -> {"next", "hold", "begin", "call", "await", "ask"}]
         /\ batch' \in [Workers -> SUBSET Queued]
         /\ cur' \in [Workers -> Snapshot \cup {None}] /\ cursor' \in 0 .. MaxLots
<1>1. /\ pc' = [pc EXCEPT ![w] = "next"] /\ cur' = [cur EXCEPT ![w] = None]
      /\ UNCHANGED batch /\ cursor' = cur[w].id
  BY DEF Leave, Goto, Rotated
<1>2. /\ pc' \in [Workers -> {"next", "hold", "begin", "call", "await", "ask"}]
      /\ batch' \in [Workers -> SUBSET Queued]
      /\ cur' \in [Workers -> Snapshot \cup {None}] /\ cursor' \in 0 .. MaxLots
  BY <1>1, OpIsOp DEF IInv, TypeOK, Lots
<1>3. /\ pc'[w] = "next"
      /\ \A v \in Workers \ {w} : pc'[v] = pc[v] /\ cur'[v] = cur[v]
  BY <1>1 DEF IInv, TypeOK
<1>4. Reading'
  <2>1. \A v \in Workers : batch'[v] \subseteq batch[v]
    BY <1>1
  <2>2. QED
    BY <1>3, <2>1, ReadingKeeps
<1>5. OneSubmitter'
  <2>1. \A v \in Workers : pc'[v] = "call" => pc[v] = "call" /\ OpOf(v)' = OpOf(v)
    BY <1>3 DEF OpOf
  <2>2. QED
    BY <2>1 DEF IInv, OneSubmitter
<1>6. Ledgered'
  BY DEF IInv, Ledgered
<1>7. QED
  BY <1>2, <1>4, <1>5, <1>6

\* A row that is only stamped anew.
SameRow(r, old) ==
  /\ r.phase = old.phase /\ r.input = old.input /\ r.received = old.received /\ r.spent = old.spent
  /\ r.fees = old.fees /\ r.residual = old.residual /\ r.tokens = old.tokens
  /\ r.burned = old.burned /\ r.minimum = old.minimum

LEMMA SameKeeps ==
  ASSUME IInv, \A j \in Lots : SameRow(jobs'[j], jobs[j]), UNCHANGED <<evidence, submits>>
  PROVE  SubmitOnce' /\ OneTransactionOneUse' /\ Books'
<1>1. \A j \in Lots : jobs'[j].phase = jobs[j].phase
  BY DEF SameRow
<1>2. \A op \in Ops : op[1] \in Lots
  BY DEF Ops
<1>3. SubmitOnce'
  BY <1>1, <1>2 DEF IInv, SubmitOnce
<1>4. OneTransactionOneUse'
  BY <1>1 DEF IInv, OneTransactionOneUse
<1>5. Books'
  BY DEF IInv, Books, Balanced, SameRow
<1>6. QED
  BY <1>3, <1>4, <1>5

\* The worker's own row, written at a new revision.
LEMMA Rewritten ==
  ASSUME IInv, NEW w \in Workers, pc[w] # "next", CanSave(w), NEW r \in Row,
         jobs' = [jobs EXCEPT ![cur[w].id] = r],
         SameRow(r, cur[w].row), r.revision \in Unseen(cur[w].id)
  PROVE  /\ jobs' \in [Lots -> Row] /\ \A j \in Lots : JobStep(j)
         /\ \A j \in Lots : SameRow(jobs'[j], jobs[j])
<1>1. /\ cur[w].id \in Lots /\ cur[w].row \in Row /\ Read(cur[w])
      /\ jobs \in [Lots -> Row]
  BY OpIsOp DEF IInv, TypeOK
<1>2. cur[w].row = jobs[cur[w].id] /\ cur[w].row.phase # "absent"
  BY <1>1 DEF CanSave, Read
<1>3. /\ jobs' \in [Lots -> Row] /\ jobs'[cur[w].id] = r
      /\ \A j \in Lots : j # cur[w].id => jobs'[j] = jobs[j]
  BY <1>1
<1>4. r.phase = cur[w].row.phase
  BY DEF SameRow
<1>5. JobStep(cur[w].id)
  BY <1>2, <1>3, <1>4 DEF JobStep
<1>6. \A j \in Lots : JobStep(j)
  BY <1>3, <1>5 DEF JobStep
<1>7. \A j \in Lots : SameRow(jobs'[j], jobs[j])
  BY <1>2, <1>3 DEF SameRow
<1>8. QED
  BY <1>3, <1>6, <1>7

LEMMA Untouched ==
  ASSUME IInv, jobs' = jobs
  PROVE  /\ jobs' \in [Lots -> Row] /\ \A j \in Lots : JobStep(j)
         /\ \A j \in Lots : SameRow(jobs'[j], jobs[j])
BY DEF IInv, TypeOK, JobStep, SameRow

LEMMA WrittenRow ==
  ASSUME NEW w, NEW row \in Row, NEW issue \in BOOLEAN, Unseen(cur[w].id) # {}
  PROVE  /\ Written(w, row, issue) \in Row /\ SameRow(Written(w, row, issue), row)
         /\ Written(w, row, issue).revision \in Unseen(cur[w].id)
<1>1. PICK n \in Unseen(cur[w].id) : n = CHOOSE m \in Unseen(cur[w].id) : TRUE
  OBVIOUS
<1>2. n \in Revisions
  BY DEF Unseen
<1>3. PICK mid : mid = [row EXCEPT !.revision = n]
  OBVIOUS
<1>4. mid \in Row /\ SameRow(mid, row) /\ mid.revision = n
  BY <1>2, <1>3 DEF Row, SameRow
<1>5. PICK r : r = [mid EXCEPT !.issue = issue]
  OBVIOUS
<1>6. r \in Row /\ SameRow(r, mid) /\ r.revision = n
  BY <1>4, <1>5 DEF Row, SameRow
<1>7. r = Written(w, row, issue)
  BY <1>1, <1>3, <1>5 DEF Written
<1>8. QED
  BY <1>4, <1>6, <1>7 DEF SameRow

\* A save of a row of which only the stamp is new.
LEMMA SaveWrites ==
  ASSUME IInv, NEW w \in Workers, pc[w] # "next", NEW issue \in BOOLEAN, Save(w, cur[w].row, issue)
  PROVE  /\ jobs' \in [Lots -> Row] /\ \A j \in Lots : JobStep(j)
         /\ \A j \in Lots : SameRow(jobs'[j], jobs[j])
<1>1. cur[w].row \in Row /\ Unseen(cur[w].id) # {}
  BY OpIsOp DEF Save
<1>2. CASE CanSave(w)
  <2>1. PICK r : r = Written(w, cur[w].row, issue)
    OBVIOUS
  <2>2. r \in Row /\ SameRow(r, cur[w].row) /\ r.revision \in Unseen(cur[w].id)
    BY <1>1, <2>1, WrittenRow
  <2>3. jobs' = [jobs EXCEPT ![cur[w].id] = r]
    BY <1>2, <2>1 DEF Save
  <2>4. QED
    BY <1>2, <2>2, <2>3, Rewritten
<1>3. CASE ~CanSave(w)
  BY <1>3, Untouched DEF Save
<1>4. QED
  BY <1>2, <1>3

LEMMA CatchWrites ==
  ASSUME IInv, NEW w \in Workers, pc[w] # "next", Catch(w)
  PROVE  /\ jobs' \in [Lots -> Row] /\ \A j \in Lots : JobStep(j)
         /\ \A j \in Lots : SameRow(jobs'[j], jobs[j])
BY SaveWrites DEF Catch

\* A step that hands a row back with nothing of it changed.
LEMMA HandBack ==
  ASSUME IInv, NEW w \in Workers, pc[w] # "next", Leave(w),
         UNCHANGED <<evidence, submits, tx>>, crashes' = crashes,
         jobs' \in [Lots -> Row], \A j \in Lots : JobStep(j),
         \A j \in Lots : SameRow(jobs'[j], jobs[j])
  PROVE  IInv'
<1>1. /\ Reading' /\ OneSubmitter' /\ Ledgered'
      /\ pc' \in [Workers -> {"next", "hold", "begin", "call", "await", "ask"}]
      /\ batch' \in [Workers -> SUBSET Queued]
      /\ cur' \in [Workers -> Snapshot \cup {None}] /\ cursor' \in 0 .. MaxLots
  BY LeaveKeeps
<1>2. SubmitOnce' /\ OneTransactionOneUse' /\ Books'
  BY SameKeeps
<1>3. TypeOK'
  BY <1>1 DEF IInv, TypeOK
<1>4. QED
  BY <1>1, <1>2, <1>3 DEF IInv

LEMMA ThrewKeeps ==
  ASSUME IInv, NEW w \in Workers, Threw(w)
  PROVE  IInv'
<1>1. /\ pc[w] # "next" /\ Catch(w) /\ Leave(w) /\ UNCHANGED <<evidence, submits, tx>>
      /\ crashes' = crashes
  BY DEF Threw, Catch, world
<1>2. QED
  BY <1>1, CatchWrites, HandBack

LEMMA CommitWrites ==
  ASSUME IInv, NEW w \in Workers, pc[w] # "next", Commit(w, cur[w].row)
  PROVE  /\ jobs' \in [Lots -> Row] /\ \A j \in Lots : JobStep(j)
         /\ \A j \in Lots : SameRow(jobs'[j], jobs[j])
BY SaveWrites DEF Commit

LEMMA SubmittedKeeps ==
  ASSUME IInv, NEW w \in Workers, Submitted(w)
  PROVE  IInv'
<1>1. /\ pc[w] # "next" /\ Commit(w, cur[w].row) /\ Leave(w)
      /\ UNCHANGED <<evidence, submits, tx>> /\ crashes' = crashes
  BY DEF Submitted, world
<1>2. QED
  BY <1>1, CommitWrites, HandBack

LEMMA NotYetKeeps ==
  ASSUME IInv, NEW w \in Workers, NotYet(w)
  PROVE  IInv'
<1>1. /\ pc[w] # "next" /\ Leave(w) /\ jobs' = jobs /\ UNCHANGED <<evidence, submits, tx>>
      /\ crashes' = crashes
  BY DEF NotYet, world
<1>2. QED
  BY <1>1, Untouched, HandBack

LEMMA RecordClaimKeeps ==
  ASSUME IInv, NEW j \in Lots, RecordClaim(j)
  PROVE  IInv'
<1>1. /\ jobs[j].phase = "absent" /\ jobs' = [jobs EXCEPT ![j] = NewRow("reserved")]
      /\ UNCHANGED <<cursor, evidence, pc, batch, cur, submits, tx, crashes>>
      /\ jobs \in [Lots -> Row]
  BY DEF RecordClaim, local, world, IInv, TypeOK
<1>2. /\ NewRow("reserved") \in Row /\ NewRow("reserved").phase = "reserved"
      /\ Balanced(NewRow("reserved"))
  BY BuybackAssumption DEF NewRow, Row, Phases, Balanced, Begun
<1>3. /\ jobs' \in [Lots -> Row] /\ jobs'[j].phase = "reserved" /\ Balanced(jobs'[j])
      /\ \A k \in Lots : k # j => jobs'[k] = jobs[k]
  BY <1>1, <1>2
<1>4. \A k \in Lots : JobStep(k)
  BY <1>1, <1>3 DEF JobStep
<1>5. Reading'
  <2>1. ASSUME NEW s, s.id \in Lots, Read(s) PROVE Read(s)'
    BY <1>1, <1>3, <2>1 DEF Read
  <2>2. ASSUME NEW v \in Workers, NEW s \in batch'[v] PROVE Read(s)'
    BY <1>1, <2>1, <2>2 DEF IInv, TypeOK, Reading, Queued
  <2>3. ASSUME NEW v \in Workers, pc'[v] # "next"
        PROVE  cur'[v] \in Snapshot /\ Read(cur[v])' /\ Place(v)'
    <3>1. cur[v] \in Snapshot /\ Read(cur[v]) /\ Place(v) /\ cur[v].id \in Lots
      BY <1>1, <2>3, OpIsOp DEF IInv, Reading
    <3>2. jobs'[cur[v].id] = jobs[cur[v].id]
      BY <1>1, <1>3, <3>1 DEF Read
    <3>3. QED
      BY <1>1, <3>1, <3>2 DEF Read, Place, OpOf
  <2>4. QED
    BY <2>2, <2>3 DEF Reading
<1>6. OneSubmitter' /\ Ledgered'
  BY <1>1 DEF IInv, OneSubmitter, OpOf, Ledgered
<1>7. \A k \in Lots, stage \in Stages :
        (jobs'[k].phase \in Begun(stage)) <=> (jobs[k].phase \in Begun(stage))
  BY <1>1, <1>3 DEF Begun, Stages, Phases
<1>8. SubmitOnce'
  BY <1>1, <1>7 DEF IInv, SubmitOnce, Ops
<1>9. OneTransactionOneUse'
  <2>1. \A k \in Lots : \/ jobs'[k] = jobs[k]
                        \/ jobs'[k].phase = "reserved" /\ jobs[k].phase = "absent"
    BY <1>1, <1>3
  <2>2. QED
    BY <1>1, <2>1 DEF IInv, OneTransactionOneUse, Begun, Phases
<1>10. Books'
  BY <1>3 DEF IInv, Books, Balanced
<1>11. TypeOK'
  BY <1>1, <1>3 DEF IInv, TypeOK
<1>12. QED
  BY <1>5, <1>6, <1>8, <1>9, <1>10, <1>11 DEF IInv

\* What concerns neither rows nor submissions.
LEMMA TableKeeps ==
  ASSUME IInv, UNCHANGED <<jobs, evidence, submits>>
  PROVE  SubmitOnce' /\ OneTransactionOneUse' /\ Books'
BY Untouched, SameKeeps

LEMMA StartRunKeeps ==
  ASSUME IInv, NEW w \in Workers, StartRun(w)
  PROVE  IInv'
<1>1. /\ pc[w] = "next"
      /\ batch' = [batch EXCEPT ![w] = {[turn |-> Turn(j), id |-> j, row |-> jobs[j]] : j \in NextBatch}]
      /\ UNCHANGED <<jobs, cursor, evidence, pc, cur, submits, tx, crashes>>
      /\ batch \in [Workers -> SUBSET Queued]
  BY DEF StartRun, table, world, IInv, TypeOK
<1>2. ASSUME NEW j \in NextBatch, NEW s, s = [turn |-> Turn(j), id |-> j, row |-> jobs[j]]
      PROVE  s \in Queued /\ Read(s)
  <2>1. j \in Lots /\ jobs[j] \in Row /\ jobs[j].phase \notin {"absent", "completed"}
    BY DEF NextBatch, Unfinished, IInv, TypeOK
  <2>2. Turn(j) \in Nat
    BY <2>1, BuybackAssumption DEF Turn, Lots
  <2>3. QED
    BY <1>2, <2>1, <2>2 DEF Queued, Read, Row
<1>3. batch' \in [Workers -> SUBSET Queued]
  BY <1>1, <1>2
<1>4. ASSUME NEW v \in Workers, NEW s \in batch'[v] PROVE Read(s)'
  <2>1. Read(s)
    BY <1>1, <1>2 DEF IInv, Reading
  <2>2. QED
    BY <1>1, <2>1 DEF Read
<1>5. Reading'
  BY <1>1, <1>4 DEF IInv, Reading, Read, Place, OpOf
<1>6. OneSubmitter' /\ Ledgered'
  BY <1>1 DEF IInv, OneSubmitter, OpOf, Ledgered
<1>7. SubmitOnce' /\ OneTransactionOneUse' /\ Books'
  BY <1>1, TableKeeps
<1>8. TypeOK'
  BY <1>1, <1>3 DEF IInv, TypeOK
<1>9. QED
  BY <1>5, <1>6, <1>7, <1>8 DEF IInv

LEMMA TakeRowKeeps ==
  ASSUME IInv, NEW w \in Workers, TakeRow(w)
  PROVE  IInv'
<1>1. PICK s \in batch[w] :
        /\ batch' = [batch EXCEPT ![w] = @ \ {s}]
        /\ pc' = [pc EXCEPT ![w] = Dispatch(s)]
        /\ cur' = [cur EXCEPT ![w] = [id |-> s.id, row |-> s.row]]
        /\ UNCHANGED <<jobs, cursor, evidence, submits, tx, crashes>>
  BY DEF TakeRow, table, world
<1>2. /\ s \in Queued /\ Read(s) /\ s.id \in Lots /\ s.row \in Row
      /\ s.row.phase \in Phases \ {"absent", "completed"}
      /\ batch \in [Workers -> SUBSET Queued] /\ cur \in [Workers -> Snapshot \cup {None}]
      /\ pc \in [Workers -> {"next", "hold", "begin", "call", "await", "ask"}]
  <2>1. s \in Queued /\ Read(s)
    BY DEF IInv, TypeOK, Reading
  <2>2. QED
    BY <2>1 DEF IInv, TypeOK, Queued, Read, Row
<1>3. PICK c : c = [id |-> s.id, row |-> s.row]
  OBVIOUS
<1>4. c \in Snapshot /\ Read(c)
  BY <1>2, <1>3 DEF Snapshot, Read
<1>5. Dispatch(s) \in {"hold", "begin", "ask"}
      /\ (Dispatch(s) = "begin" => s.row.phase \in Ready)
      /\ (Dispatch(s) = "ask" => s.row.phase \in Pending)
  BY <1>2 DEF Dispatch, Ready, Pending, Phases
<1>6. /\ pc' \in [Workers -> {"next", "hold", "begin", "call", "await", "ask"}]
      /\ pc'[w] = Dispatch(s) /\ cur'[w] = c
      /\ cur' \in [Workers -> Snapshot \cup {None}]
      /\ batch' \in [Workers -> SUBSET Queued] /\ \A v \in Workers : batch'[v] \subseteq batch[v]
      /\ \A v \in Workers \ {w} : pc'[v] = pc[v] /\ cur'[v] = cur[v]
  BY <1>1, <1>2, <1>3, <1>4, <1>5
<1>7. Read(cur[w])' /\ Place(w)'
  <2>1. Read(c)'
    BY <1>1, <1>4 DEF Read
  <2>2. QED
    BY <1>3, <1>5, <1>6, <2>1 DEF Place, Read
<1>8. Reading'
  <2>1. cur'[w] \in Snapshot
    BY <1>4, <1>6
  <2>2. jobs' \in [Lots -> Row] /\ \A j \in Lots : JobStep(j)
    BY <1>1, Untouched
  <2>3. \A v \in Workers \ {w} : submits'[OpOf(v)] = submits[OpOf(v)]
    BY <1>1
  <2>4. QED
    BY <1>6, <1>7, <2>1, <2>2, <2>3, ReadingKeeps
<1>9. OneSubmitter'
  <2>1. \A v \in Workers : pc'[v] = "call" => v # w /\ pc[v] = "call" /\ OpOf(v)' = OpOf(v)
    BY <1>5, <1>6 DEF OpOf
  <2>2. QED
    BY <2>1 DEF IInv, OneSubmitter
<1>10. Ledgered'
  BY <1>1 DEF IInv, Ledgered
<1>11. SubmitOnce' /\ OneTransactionOneUse' /\ Books'
  BY <1>1, TableKeeps
<1>12. TypeOK'
  BY <1>1, <1>6 DEF IInv, TypeOK
<1>13. QED
  BY <1>8, <1>9, <1>10, <1>11, <1>12 DEF IInv

LEMMA SubmitKeeps ==
  ASSUME IInv, NEW w \in Workers, Submit(w)
  PROVE  IInv'
<1>o. PICK op \in Ops : op = OpOf(w) /\ pc[w] = "call"
  BY OpIsOp DEF Submit
<1>1. /\ submits' = [submits EXCEPT ![op] = @ + 1] /\ pc' = [pc EXCEPT ![w] = "await"]
      /\ UNCHANGED <<jobs, cursor, evidence, batch, cur, tx, crashes>>
  BY <1>o DEF Submit, Goto, table
<1>2. /\ cur[w] \in Snapshot /\ Read(cur[w]) /\ submits[op] = 0 /\ op[2] \in Stages
      /\ op[1] = cur[w].id /\ cur[w].row.phase \in Pending
      /\ jobs[op[1]].phase \in Begun(op[2])
  BY <1>o, OpIsOp DEF IInv, Reading, Place
<1>3. /\ submits' \in [Ops -> Nat] /\ submits'[op] = 1
      /\ \A other \in Ops : other # op => submits'[other] = submits[other]
  BY <1>1, <1>2 DEF IInv, TypeOK
<1>4. /\ pc' \in [Workers -> {"next", "hold", "begin", "call", "await", "ask"}]
      /\ pc'[w] = "await" /\ \A v \in Workers \ {w} : pc'[v] = pc[v]
  BY <1>1 DEF IInv, TypeOK
<1>5. ASSUME NEW v \in Workers \ {w}, pc[v] = "call" PROVE submits'[OpOf(v)] = submits[OpOf(v)]
  BY <1>o, <1>3, <1>5, OpIsOp DEF IInv, OneSubmitter
<1>6. Read(cur[w])' /\ Place(w)'
  BY <1>1, <1>2, <1>4 DEF Read, Place
<1>7. Reading'
  <2>1. jobs' \in [Lots -> Row] /\ \A j \in Lots : JobStep(j)
    BY <1>1, Untouched
  <2>2. QED
    BY <1>1, <1>2, <1>4, <1>5, <1>6, <2>1, ReadingKeeps
<1>8. OneSubmitter'
  <2>1. \A v \in Workers : pc'[v] = "call" => pc[v] = "call" /\ OpOf(v)' = OpOf(v)
    BY <1>1, <1>4 DEF OpOf
  <2>2. QED
    BY <2>1 DEF IInv, OneSubmitter
<1>9. Ledgered'
  BY <1>1, <1>3 DEF IInv, Ledgered
<1>10. SubmitOnce'
  BY <1>1, <1>2, <1>3 DEF IInv, SubmitOnce
<1>11. OneTransactionOneUse' /\ Books'
  BY <1>1 DEF IInv, OneTransactionOneUse, Books, Balanced
<1>12. TypeOK'
  BY <1>1, <1>3, <1>4 DEF IInv, TypeOK
<1>13. QED
  BY <1>7, <1>8, <1>9, <1>10, <1>11, <1>12 DEF IInv

LEMMA OutcomeIsTx ==
  ASSUME IInv, NEW op \in Ops, NEW t \in Outcomes(op)
  PROVE  t \in Tx
<1>1. op[1] \in Lots /\ op[2] \in Stages
  BY DEF Ops
<1>2. jobs[op[1]] \in Row
  BY <1>1 DEF IInv, TypeOK
<1>3. QED
  BY <1>1, <1>2, BuybackAssumption DEF Outcomes, Stages, Tx, Row

LEMMA FinalizeKeeps ==
  ASSUME IInv, NEW op \in Ops, Finalize(op)
  PROVE  IInv'
<1>1. PICK t \in Tx : /\ submits[op] > 0 /\ tx' = [tx EXCEPT ![op] = t]
                      /\ UNCHANGED <<jobs, cursor, evidence, pc, batch, cur, submits, crashes>>
  BY OutcomeIsTx DEF Finalize, table, local
<1>2. tx' \in [Ops -> Tx \cup {None}]
  BY <1>1 DEF IInv, TypeOK
<1>3. Ledgered'
  BY <1>1 DEF IInv, TypeOK, Ledgered
<1>4. Reading'
  BY <1>1 DEF IInv, Reading, Read, Place, OpOf
<1>5. OneSubmitter'
  BY <1>1 DEF IInv, OneSubmitter, OpOf
<1>6. SubmitOnce' /\ OneTransactionOneUse' /\ Books'
  BY <1>1, TableKeeps
<1>7. TypeOK'
  BY <1>1, <1>2 DEF IInv, TypeOK
<1>8. QED
  BY <1>3, <1>4, <1>5, <1>6, <1>7 DEF IInv

LEMMA CrashKeeps ==
  ASSUME IInv, NEW w \in Workers, Crash(w)
  PROVE  IInv'
<1>1. /\ pc' = [pc EXCEPT ![w] = "next"] /\ batch' = [batch EXCEPT ![w] = {}]
      /\ cur' = [cur EXCEPT ![w] = None] /\ crashes' = crashes + 1
      /\ UNCHANGED <<jobs, cursor, evidence, submits, tx>>
  BY DEF Crash, table, world
<1>2. /\ pc' \in [Workers -> {"next", "hold", "begin", "call", "await", "ask"}]
      /\ pc'[w] = "next" /\ cur' \in [Workers -> Snapshot \cup {None}]
      /\ batch' \in [Workers -> SUBSET Queued] /\ \A v \in Workers : batch'[v] \subseteq batch[v]
      /\ \A v \in Workers \ {w} : pc'[v] = pc[v] /\ cur'[v] = cur[v]
  BY <1>1 DEF IInv, TypeOK
<1>3. Reading'
  <2>1. jobs' \in [Lots -> Row] /\ \A j \in Lots : JobStep(j)
    BY <1>1, Untouched
  <2>2. \A v \in Workers \ {w} : submits'[OpOf(v)] = submits[OpOf(v)]
    BY <1>1
  <2>3. QED
    BY <1>2, <2>1, <2>2, ReadingKeeps
<1>4. OneSubmitter'
  <2>1. \A v \in Workers : pc'[v] = "call" => pc[v] = "call" /\ OpOf(v)' = OpOf(v)
    BY <1>2 DEF OpOf
  <2>2. QED
    BY <2>1 DEF IInv, OneSubmitter
<1>5. Ledgered'
  BY <1>1 DEF IInv, Ledgered
<1>6. SubmitOnce' /\ OneTransactionOneUse' /\ Books'
  BY <1>1, TableKeeps
<1>7. TypeOK'
  BY <1>1, <1>2 DEF IInv, TypeOK
<1>8. QED
  BY <1>3, <1>4, <1>5, <1>6, <1>7 DEF IInv

-----------------------------------------------------------------------------
\* A stage begins.

\* The phase after a commit of the request.
Asked(r, row) ==
  /\ r.phase = After(row.phase)
  /\ r.received = row.received /\ r.spent = row.spent /\ r.fees = row.fees
  /\ r.residual = row.residual /\ r.tokens = row.tokens /\ r.burned = row.burned
  /\ r.input = IF row.phase = "funded" THEN Input(row) ELSE row.input

LEMMA RequestIsRow ==
  ASSUME NEW row \in Row, row.phase \in Ready, Affordable(row), NEW quote \in Quotes
  PROVE  Requested(row, quote) \in Row /\ Asked(Requested(row, quote), row)
<1> USE DEF Ready
<1>0. Minimum(quote) \in Nat
  BY MinimumIsNat
<1>1. CASE row.phase = "reserved"
  <2>1. PICK mid : mid = [row EXCEPT !.phase = "transferring"]
    OBVIOUS
  <2>2. mid \in Row /\ Asked(mid, row)
    BY <1>1, <2>1 DEF Row, Phases, Asked, After
  <2>3. PICK r : r = [mid EXCEPT !.minimum = Minimum(quote)]
    OBVIOUS
  <2>4. r \in Row /\ Asked(r, row)
    BY <1>0, <1>1, <2>2, <2>3 DEF Row, Asked
  <2>5. Requested(row, quote) = r
    BY <1>1, <2>1, <2>3 DEF Requested
  <2>6. QED
    BY <2>4, <2>5
<1>2. CASE row.phase = "funded"
  <2>0. Input(row) \in Nat
    BY <1>2, BuybackAssumption DEF Affordable, Input, Row
  <2>1. PICK first : first = [row EXCEPT !.phase = "buying"]
    OBVIOUS
  <2>2. /\ first \in Row /\ first.phase = "buying"
        /\ first.received = row.received /\ first.spent = row.spent /\ first.fees = row.fees
        /\ first.residual = row.residual /\ first.tokens = row.tokens /\ first.burned = row.burned
    BY <2>1 DEF Row, Phases
  <2>3. PICK mid : mid = [first EXCEPT !.input = Input(row)]
    OBVIOUS
  <2>4. mid \in Row /\ Asked(mid, row)
    BY <1>2, <2>0, <2>2, <2>3 DEF Row, Asked, After
  <2>5. PICK r : r = [mid EXCEPT !.minimum = Minimum(quote)]
    OBVIOUS
  <2>6. r \in Row /\ Asked(r, row)
    BY <1>0, <1>2, <2>4, <2>5 DEF Row, Asked
  <2>7. Requested(row, quote) = r
    BY <1>2, <2>1, <2>3, <2>5 DEF Requested
  <2>8. QED
    BY <2>6, <2>7
<1>3. CASE row.phase = "bought"
  <2>1. PICK r : r = [row EXCEPT !.phase = "burning"]
    OBVIOUS
  <2>2. r \in Row /\ Asked(r, row)
    BY <1>3, <2>1 DEF Row, Phases, Asked, After
  <2>3. Requested(row, quote) = r
    BY <1>3, <2>1 DEF Requested
  <2>4. QED
    BY <2>2, <2>3
<1>4. QED
  BY <1>1, <1>2, <1>3

LEMMA BeginKeeps ==
  ASSUME IInv, NEW w \in Workers, Begin(w)
  PROVE  IInv'
<1>1. PICK quote \in Quotes :
        LET row == Requested(cur[w].row, quote) IN
        /\ Commit(w, row)
        /\ IF CanSave(w)
           THEN /\ cur' = [cur EXCEPT ![w].row = Stamped(w, row)]
                /\ Goto(w, "call") /\ UNCHANGED cursor
           ELSE Leave(w)
  BY DEF Begin
<1>2. /\ pc[w] = "begin" /\ Affordable(cur[w].row) /\ cur[w] \in Snapshot /\ Read(cur[w])
      /\ cur[w].id \in Lots /\ cur[w].row \in Row /\ cur[w].row.phase \in Ready
      /\ UNCHANGED <<evidence, submits, tx, crashes>> /\ jobs \in [Lots -> Row]
      /\ cur \in [Workers -> Snapshot \cup {None}]
  BY OpIsOp DEF Begin, world, IInv, TypeOK, Reading, Place
<1>3. CASE ~CanSave(w)
  <2>1. jobs' = jobs /\ Leave(w)
    BY <1>1, <1>3 DEF Commit, Save
  <2>2. QED
    BY <1>2, <2>1, Untouched, HandBack
<1>4. CASE CanSave(w)
  <2>1. PICK j \in Lots : j = cur[w].id
    BY <1>2
  <2>2. PICK old \in Row : old = cur[w].row /\ old = jobs[j] /\ old.phase \in Ready /\ Affordable(old)
    BY <1>2, <1>4, <2>1 DEF CanSave, Read
  <2>3. PICK mid \in Row : mid = Requested(old, quote) /\ Asked(mid, old)
    BY <2>2, RequestIsRow
  <2>4. PICK r \in Row : r = Stamped(w, mid) /\ SameRow(r, mid) /\ r.revision \in Unseen(j)
    BY <1>1, <2>1, <2>3, WrittenRow DEF Stamped, Commit, Save
  <2>5. /\ jobs' = [jobs EXCEPT ![j] = r] /\ cur' = [cur EXCEPT ![w].row = r]
        /\ pc' = [pc EXCEPT ![w] = "call"] /\ UNCHANGED <<batch, cursor>>
    BY <1>1, <1>4, <2>1, <2>2, <2>3, <2>4 DEF Commit, Save, Stamped, Goto
  <2>6. /\ jobs' \in [Lots -> Row] /\ jobs'[j] = r
        /\ \A k \in Lots : k # j => jobs'[k] = jobs[k]
    BY <1>2, <2>5
  <2>7. /\ r.phase \in Pending /\ r.phase = After(old.phase) /\ r.phase \in Phases
        /\ StageOf(r.phase) = StageOf(old.phase) /\ StageOf(old.phase) \in Stages
        /\ r.phase \in Begun(StageOf(r.phase)) /\ old.phase \notin Begun(StageOf(r.phase))
        /\ \A stage \in Stages : old.phase \in Begun(stage) => r.phase \in Begun(stage)
    BY <2>2, <2>3, <2>4 DEF Asked, SameRow, Ready, Pending, After, Phases, StageOf, Begun, Stages
  <2>8. \A k \in Lots : JobStep(k)
    <3>1. r.phase # "absent"
      BY <2>7 DEF Pending
    <3>2. JobStep(j)
      BY <2>2, <2>4, <2>6, <2>7, <3>1 DEF JobStep
    <3>3. QED
      BY <2>6, <3>2 DEF JobStep
  <2>9. PICK c \in Snapshot : c = [cur[w] EXCEPT !.row = r] /\ c.id = j /\ c.row = r
    <3>1. PICK c : c = [cur[w] EXCEPT !.row = r]
      OBVIOUS
    <3>2. PICK was \in Snapshot : was = cur[w] /\ was.id = j
      BY <1>2, <2>1
    <3>3. c = [was EXCEPT !.row = r]
      BY <3>1, <3>2
    <3>4. c \in Snapshot /\ c.id = j /\ c.row = r
      BY <3>2, <3>3 DEF Snapshot
    <3>5. QED
      BY <3>1, <3>4
  <2>10. /\ cur' \in [Workers -> Snapshot \cup {None}] /\ cur'[w] = c
         /\ \A v \in Workers \ {w} : cur'[v] = cur[v]
    <3>1. cur' = [cur EXCEPT ![w] = c]
      BY <2>5, <2>9
    <3>2. QED
      BY <1>2, <3>1
  <2>11. /\ pc' \in [Workers -> {"next", "hold", "begin", "call", "await", "ask"}]
         /\ pc'[w] = "call" /\ \A v \in Workers \ {w} : pc'[v] = pc[v]
    BY <2>5 DEF IInv, TypeOK
  <2>12. PICK op \in Ops : op = <<j, StageOf(r.phase)>>
    BY <2>7 DEF Ops
  <2>13. OpOf(w)' = op
    BY <2>9, <2>10, <2>12 DEF OpOf
  <2>14. submits[op] = 0
    BY <2>2, <2>7, <2>12 DEF IInv, SubmitOnce, TypeOK
  <2>15. Read(cur[w])' /\ Place(w)'
    <3>1. Read(cur[w])'
      <4>1. r.phase \notin {"absent", "completed"}
        BY <2>7 DEF Pending
      <4>2. QED
        BY <2>6, <2>9, <2>10, <4>1 DEF Read
    <3>2. Place(w)'
      BY <1>2, <2>6, <2>7, <2>9, <2>10, <2>11, <2>12, <2>13, <2>14 DEF Place
    <3>3. QED
      BY <3>1, <3>2
  <2>16. Reading'
    BY <1>2, <2>5, <2>6, <2>8, <2>9, <2>10, <2>11, <2>15, ReadingKeeps
  <2>17. OneSubmitter'
    <3>1. ASSUME NEW v \in Workers \ {w}, pc[v] = "call" PROVE OpOf(v) # op
      <4>1. jobs[cur[v].id].phase \in Begun(OpOf(v)[2]) /\ OpOf(v)[1] = cur[v].id
        BY <3>1, OpIsOp DEF IInv, Reading, Place
      <4>2. QED
        BY <2>2, <2>7, <2>12, <4>1
    <3>2. \A v \in Workers \ {w} : pc'[v] = "call" => pc[v] = "call" /\ OpOf(v)' = OpOf(v)
      BY <2>10, <2>11 DEF OpOf
    <3>3. QED
      BY <2>13, <3>1, <3>2 DEF IInv, OneSubmitter
  <2>18. Ledgered'
    BY <1>2 DEF IInv, Ledgered
  <2>19. SubmitOnce'
    BY <1>2, <2>2, <2>6, <2>7 DEF IInv, SubmitOnce, Ops
  <2>20. OneTransactionOneUse'
    <3>1. r.phase = After(old.phase) /\ old.phase \in Ready
      BY <2>2, <2>7
    <3>2. ASSUME NEW k \in Lots
          PROVE  /\ (jobs'[k].phase \in Begun("transfer") \ {"transferring"})
                      <=> (jobs[k].phase \in Begun("transfer") \ {"transferring"})
                 /\ (jobs'[k].phase \in Begun("buy") \ {"buying"})
                      <=> (jobs[k].phase \in Begun("buy") \ {"buying"})
                 /\ (jobs'[k].phase = "completed") <=> (jobs[k].phase = "completed")
      BY <2>2, <2>6, <3>1 DEF After, Ready, Begun, Phases
    <3>3. QED
      BY <1>2, <3>2 DEF IInv, OneTransactionOneUse
  <2>21. Balanced(r)
    <3>1. Balanced(old)
      BY <2>2 DEF IInv, Books
    <3>2. old.phase = "funded" => Input(old) + 2 * MaxFee = old.received
      BY BuybackAssumption DEF Input, Row
    <3>3. r.phase = After(old.phase) /\ r.received = old.received /\ r.spent = old.spent
          /\ r.fees = old.fees /\ r.residual = old.residual
          /\ r.input = IF old.phase = "funded" THEN Input(old) ELSE old.input
      BY <2>3, <2>4 DEF Asked, SameRow
    <3>4. QED
      BY <2>2, <3>1, <3>2, <3>3 DEF Balanced, After, Ready, Begun
  <2>22. Books'
    BY <2>6, <2>21 DEF IInv, Books, Balanced
  <2>23. TypeOK'
    BY <1>2, <2>5, <2>6, <2>10, <2>11 DEF IInv, TypeOK
  <2>24. QED
    BY <2>16, <2>17, <2>18, <2>19, <2>20, <2>22, <2>23 DEF IInv
<1>5. QED
  BY <1>3, <1>4

-----------------------------------------------------------------------------
\* A stage is credited.

\* What a row takes over from a transaction.
Took(r, row, t) ==
  /\ r.phase = After(row.phase) /\ r.input = row.input
  /\ row.phase = "transferring" =>
       /\ r.received = t.sol /\ r.residual = t.sol /\ r.spent = row.spent /\ r.fees = row.fees
       /\ r.tokens = row.tokens /\ r.burned = row.burned
  /\ row.phase = "buying" =>
       /\ r.received = row.received /\ r.residual = row.received - t.sol - t.fee
       /\ r.spent = t.sol /\ r.fees = t.fee /\ r.tokens = t.tokens /\ r.burned = row.burned
  /\ row.phase = "burning" =>
       /\ r.received = row.received /\ r.residual = row.residual - t.fee
       /\ r.spent = row.spent /\ r.fees = row.fees + t.fee
       /\ r.tokens = row.tokens /\ r.burned = t.tokens

LEMMA CreditIsRow ==
  ASSUME NEW row \in Row, row.phase \in Pending, NEW t \in Tx, Satisfies(row, t)
  PROVE  Credited(row, t) \in Row /\ Took(Credited(row, t), row, t)
<1> USE DEF Pending
<1>0. t.sol \in Nat /\ t.fee \in Nat /\ t.tokens \in Nat
  BY DEF Tx
<1>1. CASE row.phase = "transferring"
  <2>1. PICK first : first = [row EXCEPT !.phase = "funded"]
    OBVIOUS
  <2>2. /\ first \in Row /\ first.phase = "funded"
        /\ first.input = row.input /\ first.spent = row.spent /\ first.fees = row.fees
        /\ first.tokens = row.tokens /\ first.burned = row.burned
    BY <2>1 DEF Row, Phases
  <2>3. PICK mid : mid = [first EXCEPT !.received = t.sol]
    OBVIOUS
  <2>4. /\ mid \in Row /\ mid.phase = "funded"
        /\ mid.input = row.input /\ mid.spent = row.spent /\ mid.fees = row.fees
        /\ mid.tokens = row.tokens /\ mid.burned = row.burned /\ mid.received = t.sol
    BY <1>0, <2>2, <2>3 DEF Row
  <2>5. PICK r : r = [mid EXCEPT !.residual = t.sol]
    OBVIOUS
  <2>6. r \in Row /\ Took(r, row, t)
    BY <1>0, <1>1, <2>4, <2>5 DEF Row, Took, After
  <2>7. Credited(row, t) = r
    BY <1>1, <2>1, <2>3, <2>5 DEF Credited
  <2>8. QED
    BY <2>6, <2>7
<1>2. CASE row.phase = "buying"
  <2>0. Left(row, t) \in Nat /\ Left(row, t) = row.received - t.sol - t.fee
    BY <1>0, <1>2 DEF Satisfies, Left, Row
  <2>1. PICK first : first = [row EXCEPT !.phase = "bought"]
    OBVIOUS
  <2>2. /\ first \in Row /\ first.phase = "bought"
        /\ first.input = row.input /\ first.received = row.received /\ first.burned = row.burned
    BY <2>1 DEF Row, Phases
  <2>3. PICK second : second = [first EXCEPT !.spent = t.sol]
    OBVIOUS
  <2>4. /\ second \in Row /\ second.phase = "bought"
        /\ second.input = row.input /\ second.received = row.received
        /\ second.burned = row.burned /\ second.spent = t.sol
    BY <1>0, <2>2, <2>3 DEF Row
  <2>5. PICK third : third = [second EXCEPT !.fees = t.fee]
    OBVIOUS
  <2>6. /\ third \in Row /\ third.phase = "bought"
        /\ third.input = row.input /\ third.received = row.received
        /\ third.burned = row.burned /\ third.spent = t.sol /\ third.fees = t.fee
    BY <1>0, <2>4, <2>5 DEF Row
  <2>7. PICK fourth : fourth = [third EXCEPT !.residual = Left(row, t)]
    OBVIOUS
  <2>8. /\ fourth \in Row /\ fourth.phase = "bought"
        /\ fourth.input = row.input /\ fourth.received = row.received
        /\ fourth.burned = row.burned /\ fourth.spent = t.sol /\ fourth.fees = t.fee
        /\ fourth.residual = Left(row, t)
    BY <2>0, <2>6, <2>7 DEF Row
  <2>9. PICK r : r = [fourth EXCEPT !.tokens = t.tokens]
    OBVIOUS
  <2>10. r \in Row /\ Took(r, row, t)
    BY <1>0, <1>2, <2>0, <2>8, <2>9 DEF Row, Took, After
  <2>11. Credited(row, t) = r
    BY <1>2, <2>1, <2>3, <2>5, <2>7, <2>9 DEF Credited
  <2>12. QED
    BY <2>10, <2>11
<1>3. CASE row.phase = "burning"
  <2>1. PICK first : first = [row EXCEPT !.phase = "completed"]
    OBVIOUS
  <2>2. /\ first \in Row /\ first.phase = "completed"
        /\ first.input = row.input /\ first.received = row.received /\ first.spent = row.spent
        /\ first.tokens = row.tokens /\ first.fees = row.fees /\ first.residual = row.residual
    BY <2>1 DEF Row, Phases
  <2>3. PICK second : second = [first EXCEPT !.fees = @ + t.fee]
    OBVIOUS
  <2>4. /\ second \in Row /\ second.phase = "completed"
        /\ second.input = row.input /\ second.received = row.received
        /\ second.spent = row.spent /\ second.tokens = row.tokens
        /\ second.residual = row.residual /\ second.fees = row.fees + t.fee
    BY <1>0, <2>2, <2>3 DEF Row
  <2>5. row.residual - t.fee \in Nat
    BY <1>0, <1>3 DEF Satisfies, Row
  <2>6. PICK third : third = [second EXCEPT !.residual = @ - t.fee]
    OBVIOUS
  <2>7. /\ third \in Row /\ third.phase = "completed"
        /\ third.input = row.input /\ third.received = row.received
        /\ third.spent = row.spent /\ third.tokens = row.tokens
        /\ third.residual = row.residual - t.fee /\ third.fees = row.fees + t.fee
    BY <2>4, <2>5, <2>6 DEF Row
  <2>8. PICK r : r = [third EXCEPT !.burned = t.tokens]
    OBVIOUS
  <2>9. r \in Row /\ Took(r, row, t)
    BY <1>0, <1>3, <2>7, <2>8 DEF Row, Took, After
  <2>10. Credited(row, t) = r
    BY <1>3, <2>1, <2>3, <2>6, <2>8 DEF Credited
  <2>11. QED
    BY <2>9, <2>10
<1>4. QED
  BY <1>1, <1>2, <1>3

LEMMA CreditBalances ==
  ASSUME NEW row \in Row, row.phase \in Pending, NEW t \in Tx, Satisfies(row, t), Balanced(row),
         NEW r \in Row, Took(r, row, t)
  PROVE  Balanced(r)
<1>1. /\ t.sol \in Nat /\ t.fee \in Nat /\ MaxFee \in Nat
      /\ row.received \in Nat /\ row.spent \in Nat /\ row.fees \in Nat /\ row.residual \in Nat
      /\ row.input \in Nat
  BY BuybackAssumption DEF Tx, Row
<1>2. CASE row.phase = "transferring"
  BY <1>1, <1>2 DEF Took, After, Balanced, Begun
<1>3. CASE row.phase = "buying"
  BY <1>1, <1>3 DEF Took, After, Balanced, Begun, Satisfies
<1>4. CASE row.phase = "burning"
  BY <1>1, <1>4 DEF Took, After, Balanced, Begun, Satisfies
<1>5. QED
  BY <1>2, <1>3, <1>4 DEF Pending

\* The answer of an adapter is credited: the row and its evidence, in one commit.
Credits(w, op, j, r) ==
  /\ jobs' = [jobs EXCEPT ![j] = r] /\ r.revision \in Unseen(j)
  /\ jobs[j].phase \in Pending /\ tx[op] \in Tx
  /\ Satisfies(jobs[j], tx[op]) /\ Took(r, jobs[j], tx[op])
  /\ op \in MayCite[<<j, StageOf(jobs[j].phase)>>]
  /\ evidence' = evidence \cup {[op |-> op, job |-> j, stage |-> StageOf(jobs[j].phase)]}
  /\ ~\E e \in evidence : e.op = op

LEMMA CitesOrNot ==
  ASSUME IInv, NEW w \in Workers, NEW op \in Ops, Cites(w, op)
  PROVE  /\ pc[w] # "next" /\ Leave(w) /\ UNCHANGED <<submits, tx>> /\ crashes' = crashes
         /\ \/ /\ UNCHANGED evidence /\ jobs' \in [Lots -> Row]
               /\ \A j \in Lots : JobStep(j) /\ SameRow(jobs'[j], jobs[j])
            \/ \E j \in Lots, r \in Row : Credits(w, op, j, r)
<1>1. /\ pc[w] = "ask" /\ op \in MayCite[OpOf(w)] /\ tx[op] # None
      /\ UNCHANGED <<submits, tx>> /\ crashes' = crashes /\ Leave(w)
  BY DEF Cites, world, Catch
<1>2. /\ cur[w] \in Snapshot /\ Read(cur[w]) /\ cur[w].id \in Lots /\ cur[w].row \in Row
      /\ cur[w].row.phase \in Pending /\ tx[op] \in Tx /\ jobs \in [Lots -> Row]
  BY <1>1, OpIsOp DEF IInv, TypeOK, Reading, Place
<1>3. CASE ~Satisfies(cur[w].row, tx[op]) \/ (CanSave(w) /\ Used(op, OpOf(w)[2]))
  <2>1. Catch(w) /\ UNCHANGED evidence
    BY <1>3 DEF Cites
  <2>2. QED
    BY <1>1, <2>1, CatchWrites
<1>4. CASE ~(~Satisfies(cur[w].row, tx[op]) \/ (CanSave(w) /\ Used(op, OpOf(w)[2])))
  <2>1. /\ Commit(w, Credited(cur[w].row, tx[op]))
        /\ evidence' = IF CanSave(w)
                       THEN evidence \cup {[op |-> op, job |-> cur[w].id, stage |-> OpOf(w)[2]]}
                       ELSE evidence
    BY <1>4 DEF Cites
  <2>2. CASE ~CanSave(w)
    <3>1. jobs' = jobs /\ UNCHANGED evidence
      BY <2>1, <2>2 DEF Commit, Save
    <3>2. QED
      BY <1>1, <3>1, Untouched
  <2>3. CASE CanSave(w)
    <3>1. PICK j \in Lots : j = cur[w].id
      BY <1>2
    <3>2. PICK old \in Row : old = cur[w].row /\ old = jobs[j] /\ old.phase \in Pending
      BY <1>2, <2>3, <3>1 DEF CanSave, Read
    <3>3. PICK t \in Tx : t = tx[op] /\ Satisfies(old, t)
      BY <1>2, <1>4, <3>2
    <3>4. PICK mid \in Row : mid = Credited(old, t) /\ Took(mid, old, t)
      BY <3>2, <3>3, CreditIsRow
    <3>5. PICK r \in Row : r = Stamped(w, mid) /\ SameRow(r, mid) /\ r.revision \in Unseen(j)
      BY <2>1, <3>1, <3>4, WrittenRow DEF Stamped, Commit, Save
    <3>6. Took(r, old, t)
      BY <3>2, <3>4, <3>5 DEF Took, SameRow
    <3>7. jobs' = [jobs EXCEPT ![j] = r]
      BY <2>1, <2>3, <3>1, <3>2, <3>3, <3>4, <3>5 DEF Commit, Save, Stamped
    <3>8. OpOf(w) = <<j, StageOf(old.phase)>> /\ OpOf(w)[2] = StageOf(old.phase)
      BY <3>1, <3>2 DEF OpOf
    <3>9. /\ evidence' = evidence \cup {[op |-> op, job |-> j, stage |-> StageOf(old.phase)]}
          /\ ~\E e \in evidence : e.op = op
      BY <1>4, <2>1, <2>3, <3>1, <3>8 DEF Used
    <3>10. Credits(w, op, j, r)
      BY <1>1, <3>2, <3>3, <3>5, <3>6, <3>7, <3>8, <3>9 DEF Credits
    <3>11. QED
      BY <1>1, <3>10
  <2>4. QED
    BY <2>2, <2>3
<1>5. QED
  BY <1>3, <1>4

\* The new identity was used nowhere, and the stage had none yet.
LEMMA CreditsOnce ==
  ASSUME IInv, NEW w \in Workers, NEW op \in Ops, NEW j \in Lots, NEW r \in Row, Credits(w, op, j, r)
  PROVE  OneTransactionOneUse'
<1>1. PICK stage \in Stages : stage = StageOf(jobs[j].phase)
  BY DEF Credits, Pending, StageOf, Stages
<1>2. PICK new : new = [op |-> op, job |-> j, stage |-> stage]
  OBVIOUS
<1>3. /\ new.op = op /\ new.job = j /\ new.stage = stage
      /\ evidence' = evidence \cup {new} /\ ~\E e \in evidence : e.op = op
  BY <1>1, <1>2 DEF Credits
<1>4. /\ jobs[j].phase \in Pending /\ jobs'[j].phase = After(jobs[j].phase)
      /\ \A k \in Lots : k # j => jobs'[k] = jobs[k]
  BY DEF Credits, Took, IInv, TypeOK
<1>5. ~\E e \in evidence : e.job = j /\ e.stage = stage
  BY <1>1, <1>4 DEF IInv, OneTransactionOneUse, Pending, StageOf, Begun, Phases
<1>6. \A e, f \in evidence' : e.op = f.op <=> (e.job = f.job /\ e.stage = f.stage)
  BY <1>3, <1>5 DEF IInv, OneTransactionOneUse
<1>7. ASSUME NEW k \in Lots, NEW s \in Stages
      PROVE  (\E e \in evidence' : e.job = k /\ e.stage = s)
               <=> (\E e \in evidence : e.job = k /\ e.stage = s) \/ (k = j /\ s = stage)
  BY <1>3
<1>8. ASSUME NEW k \in Lots
      PROVE  /\ (\E e \in evidence' : e.job = k /\ e.stage = "transfer")
                  <=> jobs'[k].phase \in Begun("transfer") \ {"transferring"}
             /\ (\E e \in evidence' : e.job = k /\ e.stage = "buy")
                  <=> jobs'[k].phase \in Begun("buy") \ {"buying"}
             /\ (\E e \in evidence' : e.job = k /\ e.stage = "burn")
                  <=> jobs'[k].phase = "completed"
  <2>1. /\ (\E e \in evidence : e.job = k /\ e.stage = "transfer")
             <=> jobs[k].phase \in Begun("transfer") \ {"transferring"}
        /\ (\E e \in evidence : e.job = k /\ e.stage = "buy")
             <=> jobs[k].phase \in Begun("buy") \ {"buying"}
        /\ (\E e \in evidence : e.job = k /\ e.stage = "burn")
             <=> jobs[k].phase = "completed"
    BY DEF IInv, OneTransactionOneUse
  <2>2. CASE k # j
    BY <1>4, <1>7, <2>1, <2>2 DEF Stages
  <2>3. CASE k = j
    BY <1>1, <1>4, <1>7, <2>1, <2>3 DEF Stages, Pending, After, StageOf, Begun, Phases
  <2>4. QED
    BY <2>2, <2>3
<1>9. QED
  BY <1>6, <1>8 DEF OneTransactionOneUse

LEMMA CitesKeeps ==
  ASSUME IInv, NEW w \in Workers, NEW op \in Ops, Cites(w, op)
  PROVE  IInv'
<1>1. /\ pc[w] # "next" /\ Leave(w) /\ UNCHANGED <<submits, tx>> /\ crashes' = crashes
  BY CitesOrNot
<1>2. CASE /\ UNCHANGED evidence /\ jobs' \in [Lots -> Row]
           /\ \A j \in Lots : JobStep(j) /\ SameRow(jobs'[j], jobs[j])
  BY <1>1, <1>2, HandBack
<1>3. ASSUME NEW j \in Lots, NEW r \in Row, Credits(w, op, j, r) PROVE IInv'
  <2>1. /\ jobs' \in [Lots -> Row] /\ jobs'[j] = r
        /\ \A k \in Lots : k # j => jobs'[k] = jobs[k]
        /\ jobs[j] \in Row
    BY <1>3 DEF Credits, IInv, TypeOK
  <2>2. r.phase = After(jobs[j].phase) /\ jobs[j].phase \in Pending
    BY <1>3 DEF Credits, Took
  <2>3. JobStep(j)
    BY <1>3, <2>1, <2>2 DEF JobStep, Credits, Row, Pending, After, Begun, Stages, Phases
  <2>4. \A k \in Lots : JobStep(k)
    BY <2>1, <2>3 DEF JobStep
  <2>5. /\ Reading' /\ OneSubmitter' /\ Ledgered'
        /\ pc' \in [Workers -> {"next", "hold", "begin", "call", "await", "ask"}]
        /\ batch' \in [Workers -> SUBSET Queued]
        /\ cur' \in [Workers -> Snapshot \cup {None}] /\ cursor' \in 0 .. MaxLots
    BY <1>1, <2>1, <2>4, LeaveKeeps
  <2>6. SubmitOnce'
    <3>1. \A k \in Lots, stage \in Stages :
            jobs[k].phase \in Begun(stage) => jobs'[k].phase \in Begun(stage)
      BY <2>1, <2>2 DEF Pending, After, Begun, Stages, Phases
    <3>2. QED
      BY <1>1, <3>1 DEF IInv, SubmitOnce, Ops
  <2>7. OneTransactionOneUse'
    BY <1>3, CreditsOnce
  <2>8. Balanced(r)
    BY <1>3, <2>1, CreditBalances DEF Credits, IInv, Books
  <2>9. Books'
    BY <2>1, <2>8 DEF IInv, Books, Balanced
  <2>10. evidence' \subseteq [op : Ops, job : Lots, stage : Stages]
    <3>1. StageOf(jobs[j].phase) \in Stages
      BY <2>2 DEF Pending, StageOf, Stages
    <3>2. QED
      BY <1>3, <3>1 DEF Credits, IInv, TypeOK
  <2>11. TypeOK'
    BY <1>1, <2>1, <2>5, <2>10 DEF IInv, TypeOK
  <2>12. QED
    BY <2>5, <2>6, <2>7, <2>9, <2>11 DEF IInv
<1>4. QED
  BY <1>2, <1>3, CitesOrNot

-----------------------------------------------------------------------------
\* The whole worker.

LEMMA StutterKeeps ==
  ASSUME IInv, UNCHANGED vars
  PROVE  IInv'
<1>1. UNCHANGED <<jobs, cursor, evidence, pc, batch, cur, submits, tx, crashes>>
  BY DEF vars, table, local, world
<1>2. Reading'
  BY <1>1 DEF IInv, Reading, Read, Place, OpOf
<1>3. OneSubmitter' /\ Ledgered'
  BY <1>1 DEF IInv, OneSubmitter, OpOf, Ledgered
<1>4. SubmitOnce' /\ OneTransactionOneUse' /\ Books'
  BY <1>1, TableKeeps
<1>5. TypeOK'
  BY <1>1 DEF IInv, TypeOK
<1>6. QED
  BY <1>2, <1>3, <1>4, <1>5 DEF IInv

LEMMA Inductive == IInv /\ [Next]_vars => IInv'
<1> SUFFICES ASSUME IInv, [Next]_vars PROVE IInv'
  OBVIOUS
<1>1. ASSUME NEW j \in Lots, RecordClaim(j) PROVE IInv'
  BY <1>1, RecordClaimKeeps
<1>2. ASSUME NEW op \in Ops, Finalize(op) PROVE IInv'
  BY <1>2, FinalizeKeeps
<1>3. ASSUME NEW w \in Workers, WorkerStep(w) PROVE IInv'
  BY <1>3, StartRunKeeps, TakeRowKeeps, ThrewKeeps, BeginKeeps, SubmitKeeps, SubmittedKeeps,
     NotYetKeeps, CitesKeeps DEF WorkerStep, Reconciled
<1>4. ASSUME NEW w \in Workers, Crash(w) PROVE IInv'
  BY <1>4, CrashKeeps
<1>5. CASE UNCHANGED vars
  BY <1>5, StutterKeeps
<1>6. QED
  BY <1>1, <1>2, <1>3, <1>4, <1>5 DEF Next

LEMMA Invariant == Spec => []IInv
<1>1. Init => IInv
  BY InitIInv
<1>2. IInv /\ [Next]_vars => IInv'
  BY Inductive
<1>3. QED
  BY <1>1, <1>2, PTL DEF Spec

\* save() and the evidence table of buyback.ts: whatever races, crashes or is cited,
\* a stage is submitted once, after it was committed, and rests on one transaction
\* that nothing else rests on.
THEOREM StagesRunOnce == Spec => []OnceEach
<1>1. IInv => OnceEach
  BY DEF IInv, OnceEach
<1>2. QED
  BY <1>1, Invariant, PTL

-----------------------------------------------------------------------------
\* Adapters that cite a lot's own transactions.

\* An operation took effect after its stage was begun.
LEMMA MovedIsBegun ==
  ASSUME IInv, NEW j \in Lots, NEW stage \in Stages, tx[<<j, stage>>] # None
  PROVE  jobs[j].phase \in Begun(stage) /\ tx[<<j, stage>>] \in Tx
<1>1. PICK op \in Ops : op = <<j, stage>>
  BY DEF Ops
<1>2. submits[op] = 1 /\ tx[op] \in Tx
  BY <1>1 DEF IInv, Ledgered, SubmitOnce, TypeOK
<1>3. QED
  BY <1>1, <1>2 DEF IInv, SubmitOnce

\* A step that only stamps rows anew.
LEMMA QuietSettles ==
  ASSUME LInv, \A j \in Lots : SameRow(jobs'[j], jobs[j]), UNCHANGED <<evidence, tx>>
  PROVE  OwnUse' /\ \A j \in Lots : Settled(j)'
<1>1. OwnUse'
  BY DEF LInv, OwnUse
<1>2. ASSUME NEW j \in Lots PROVE Settled(j)'
  <2>1. Settled(j) /\ SameRow(jobs'[j], jobs[j])
    BY DEF LInv
  <2>2. QED
    BY <2>1 DEF Settled, Tally, SameRow
<1>3. QED
  BY <1>1, <1>2

LEMMA RecordClaimSettles ==
  ASSUME LInv, NEW j \in Lots, RecordClaim(j)
  PROVE  OwnUse' /\ \A k \in Lots : Settled(k)'
<1>1. /\ jobs[j].phase = "absent" /\ jobs' = [jobs EXCEPT ![j] = NewRow("reserved")]
      /\ UNCHANGED <<evidence, tx>> /\ jobs \in [Lots -> Row] /\ IInv
  BY DEF RecordClaim, world, LInv, IInv, TypeOK
<1>2. OwnUse'
  BY <1>1 DEF LInv, OwnUse
<1>3. ASSUME NEW stage \in Stages PROVE tx[<<j, stage>>] = None
  BY <1>1, MovedIsBegun DEF Begun, Stages, Phases
<1>4. ASSUME NEW k \in Lots PROVE Settled(k)'
  <2>1. CASE k # j
    <3>1. Settled(k) /\ jobs'[k] = jobs[k]
      BY <1>1, <2>1 DEF LInv
    <3>2. QED
      BY <1>1, <3>1 DEF Settled
  <2>2. CASE k = j
    <3>1. jobs'[j].phase = "reserved"
      BY <1>1 DEF NewRow
    <3>2. QED
      BY <1>1, <1>3, <2>2, <3>1 DEF Settled, Tally, Begun, Stages, Phases
  <2>3. QED
    BY <2>1, <2>2
<1>5. QED
  BY <1>2, <1>4

LEMMA BeginSettles ==
  ASSUME LInv, NEW w \in Workers, Begin(w)
  PROVE  OwnUse' /\ \A k \in Lots : Settled(k)'
<1>1. /\ IInv /\ pc[w] = "begin" /\ Affordable(cur[w].row) /\ Read(cur[w])
      /\ cur[w].id \in Lots /\ cur[w].row \in Row /\ cur[w].row.phase \in Ready
      /\ UNCHANGED <<evidence, tx>> /\ jobs \in [Lots -> Row]
  BY OpIsOp DEF Begin, world, LInv, IInv, TypeOK, Reading, Place
<1>2. PICK quote \in Quotes : Commit(w, Requested(cur[w].row, quote))
  BY DEF Begin
<1>3. CASE ~CanSave(w)
  BY <1>1, <1>2, <1>3, Untouched, QuietSettles DEF Commit, Save
<1>4. CASE CanSave(w)
  <2>1. PICK j \in Lots : j = cur[w].id
    BY <1>1
  <2>2. PICK old \in Row : old = cur[w].row /\ old = jobs[j] /\ old.phase \in Ready /\ Affordable(old)
    BY <1>1, <1>4, <2>1 DEF CanSave, Read
  <2>3. PICK mid \in Row : mid = Requested(old, quote) /\ Asked(mid, old)
    BY <2>2, RequestIsRow
  <2>4. PICK r \in Row : r = Stamped(w, mid) /\ SameRow(r, mid)
    BY <1>2, <2>3, WrittenRow DEF Stamped, Commit, Save
  <2>5. jobs' = [jobs EXCEPT ![j] = r]
    BY <1>2, <1>4, <2>1, <2>2, <2>3, <2>4 DEF Commit, Save, Stamped
  <2>6. OwnUse'
    BY <1>1 DEF LInv, OwnUse
  <2>7. ASSUME NEW k \in Lots, k # j PROVE Settled(k)'
    <3>1. Settled(k) /\ jobs'[k] = jobs[k]
      BY <1>1, <2>5, <2>7 DEF LInv
    <3>2. QED
      BY <1>1, <3>1 DEF Settled
  <2>8. Settled(j)'
    <3>1. Settled(j) /\ jobs'[j] = r /\ jobs[j] = old
      BY <1>1, <2>2, <2>5 DEF LInv
    <3>2. old.phase = "funded" => tx[<<j, "buy">>] = None
      BY <1>1, <2>2, MovedIsBegun DEF Begun, Stages
    <3>3. old.phase \in {"reserved", "funded"} => tx[<<j, "burn">>] = None
      BY <1>1, <2>2, MovedIsBegun DEF Begun, Stages
    <3>4. /\ r.phase = After(old.phase) /\ r.received = old.received /\ r.tokens = old.tokens
          /\ r.residual = old.residual /\ r.burned = old.burned
          /\ old.phase # "funded" => r.input = old.input
      BY <2>3, <2>4 DEF Asked, SameRow
    <3>5. QED
      BY <1>1, <2>2, <3>1, <3>2, <3>3, <3>4 DEF Settled, Tally, Ready, After, Begun, Phases
  <2>9. QED
    BY <2>6, <2>7, <2>8
<1>5. QED
  BY <1>3, <1>4

\* A stage is only credited with its own transaction: what the ledger did for the
\* other stages is not there yet, does not fit or is used.
LEMMA CreditsOwn ==
  ASSUME OwnLots, LInv, NEW w \in Workers, NEW op \in Ops, NEW j \in Lots, NEW r \in Row,
         Credits(w, op, j, r)
  PROVE  op = <<j, StageOf(jobs[j].phase)>>
<1>1. /\ IInv /\ jobs[j] \in Row /\ jobs[j].phase \in Pending /\ tx[op] \in Tx
      /\ Satisfies(jobs[j], tx[op])
      /\ ~\E e \in evidence : e.op = op
  BY DEF Credits, LInv, IInv, TypeOK
<1>2. PICK stage \in Stages : op = <<j, stage>>
  <2>1. <<j, StageOf(jobs[j].phase)>> \in Ops
    BY <1>1 DEF Ops, Stages, StageOf, Pending
  <2>2. op[1] = j
    BY <2>1 DEF Credits, OwnLots
  <2>3. QED
    BY <2>2 DEF Ops
<1>3. jobs[j].phase \in Begun(stage)
  BY <1>1, <1>2, MovedIsBegun, NoneAssumption
<1>4. CASE jobs[j].phase = "transferring"
  BY <1>2, <1>3, <1>4 DEF Begun, Stages, StageOf
<1>5. jobs[j].phase # "transferring" => stage # "transfer"
  <2>1. stage = "transfer" => tx[op].tokens = 0
    BY <1>1, <1>2, NoneAssumption DEF LInv, Settled, Tally
  <2>2. jobs[j].phase # "transferring" => tx[op].tokens > 0
    BY <1>1 DEF Satisfies, Pending
  <2>3. QED
    BY <2>1, <2>2
<1>6. CASE jobs[j].phase = "buying"
  BY <1>2, <1>3, <1>5, <1>6 DEF Begun, Stages, StageOf
<1>7. CASE jobs[j].phase = "burning"
  <2>1. PICK e \in evidence : e.job = j /\ e.stage = "buy"
    BY <1>1, <1>7 DEF IInv, OneTransactionOneUse, Begun
  <2>2. e.op = <<j, "buy">>
    BY <2>1 DEF LInv, OwnUse
  <2>3. stage # "buy"
    BY <1>1, <1>2, <2>2
  <2>4. QED
    BY <1>2, <1>5, <1>7, <2>3 DEF Stages, StageOf
<1>8. QED
  BY <1>1, <1>4, <1>6, <1>7 DEF Pending

LEMMA CitesSettles ==
  ASSUME OwnLots, LInv, NEW w \in Workers, NEW op \in Ops, Cites(w, op)
  PROVE  OwnUse' /\ \A k \in Lots : Settled(k)'
<1>1. IInv /\ UNCHANGED tx /\ jobs \in [Lots -> Row]
  BY CitesOrNot DEF LInv, IInv, TypeOK
<1>2. CASE /\ UNCHANGED evidence /\ jobs' \in [Lots -> Row]
           /\ \A j \in Lots : JobStep(j) /\ SameRow(jobs'[j], jobs[j])
  BY <1>1, <1>2, QuietSettles
<1>3. ASSUME NEW j \in Lots, NEW r \in Row, Credits(w, op, j, r)
      PROVE  OwnUse' /\ \A k \in Lots : Settled(k)'
  <2>1. PICK old \in Row : old = jobs[j]
    BY <1>1
  <2>2. PICK t \in Tx : t = tx[op]
    BY <1>3 DEF Credits
  <2>3. /\ op = <<j, StageOf(old.phase)>> /\ old.phase \in Pending
        /\ jobs' = [jobs EXCEPT ![j] = r] /\ Satisfies(old, t) /\ Took(r, old, t)
        /\ evidence' = evidence \cup {[op |-> op, job |-> j, stage |-> StageOf(old.phase)]}
    BY <1>3, <2>1, <2>2, CreditsOwn DEF Credits
  <2>4. OwnUse'
    BY <2>3 DEF LInv, OwnUse
  <2>5. ASSUME NEW k \in Lots, k # j PROVE Settled(k)'
    <3>1. Settled(k) /\ jobs'[k] = jobs[k]
      BY <1>1, <2>3, <2>5 DEF LInv
    <3>2. QED
      BY <1>1, <3>1 DEF Settled
  <2>6. Settled(j) /\ jobs'[j] = r /\ tx' = tx
    BY <1>1, <2>3 DEF LInv
  <2>7. old.phase = "transferring" => tx[<<j, "buy">>] = None
    BY <1>1, <2>1, MovedIsBegun DEF Begun, Stages
  <2>8. old.phase # "burning" => tx[<<j, "burn">>] = None
    BY <1>1, <2>1, <2>3, MovedIsBegun DEF Begun, Stages, Pending
  <2>9. PICK transfer, buy, burn :
          /\ transfer = tx[<<j, "transfer">>] /\ buy = tx[<<j, "buy">>] /\ burn = tx[<<j, "burn">>]
    OBVIOUS
  <2>10. Tally(old, transfer, buy, burn) /\ t # None
    BY <2>1, <2>6, <2>9, NoneAssumption DEF Settled
  <2>11. Tally(r, transfer, buy, burn)
    <3>1. CASE old.phase = "transferring"
      <4>1. t = transfer /\ buy = None /\ burn = None
        BY <2>2, <2>3, <2>7, <2>8, <2>9, <3>1 DEF StageOf
      <4>2. r.phase = "funded" /\ r.received = t.sol
        BY <2>3, <3>1 DEF Took, After
      <4>3. QED
        BY <2>10, <4>1, <4>2 DEF Tally, Begun, Phases
    <3>2. CASE old.phase = "buying"
      <4>1. t = buy /\ burn = None
        BY <2>2, <2>3, <2>8, <2>9, <3>2 DEF StageOf
      <4>2. /\ r.phase = "bought" /\ r.received = old.received /\ r.input = old.input
            /\ r.residual = old.received - t.sol - t.fee /\ r.tokens = t.tokens
        BY <2>3, <3>2 DEF Took, After
      <4>3. QED
        BY <2>10, <3>2, <4>1, <4>2 DEF Tally, Begun, Phases
    <3>3. CASE old.phase = "burning"
      <4>1. t = burn
        BY <2>2, <2>3, <2>9, <3>3 DEF StageOf
      <4>2. /\ r.phase = "completed" /\ r.received = old.received /\ r.input = old.input
            /\ r.residual = old.residual - t.fee /\ r.tokens = old.tokens /\ r.burned = t.tokens
        BY <2>3, <3>3 DEF Took, After
      <4>3. QED
        BY <2>10, <3>3, <4>1, <4>2 DEF Tally, Begun, Phases
    <3>4. QED
      BY <2>3, <3>1, <3>2, <3>3 DEF Pending
  <2>12. Settled(j)'
    BY <2>6, <2>9, <2>11 DEF Settled
  <2>13. QED
    BY <2>4, <2>5, <2>12
<1>4. \/ /\ UNCHANGED evidence /\ jobs' \in [Lots -> Row]
         /\ \A j \in Lots : JobStep(j) /\ SameRow(jobs'[j], jobs[j])
      \/ \E j \in Lots, r \in Row : Credits(w, op, j, r)
  BY <1>1, CitesOrNot
<1>5. QED
  BY <1>2, <1>3, <1>4

\* The outside does what the row's request asks for, once.
LEMMA FinalizeSettles ==
  ASSUME LInv, NEW op \in Ops, Finalize(op)
  PROVE  OwnUse' /\ \A k \in Lots : Settled(k)'
<1>1. PICK j \in Lots, stage \in Stages : op = <<j, stage>>
  BY DEF Ops
<1>2. PICK row \in Row : row = jobs[j]
  BY DEF LInv, IInv, TypeOK
<1>3. PICK t \in Tx : /\ t \in Outcomes(op) /\ tx' = [tx EXCEPT ![op] = t]
                      /\ submits[op] > 0 /\ tx[op] = None /\ UNCHANGED <<jobs, evidence>>
  BY OutcomeIsTx DEF Finalize, table, LInv
<1>4. OwnUse'
  BY <1>3 DEF LInv, OwnUse
<1>5. t # None /\ tx'[op] = t /\ \A other \in Ops : other # op => tx'[other] = tx[other]
  BY <1>3, NoneAssumption DEF LInv, IInv, TypeOK
<1>6. \A k \in Lots, s \in Stages : <<k, s>> \in Ops
  BY DEF Ops
<1>7. ASSUME NEW k \in Lots, k # j PROVE Settled(k)'
  <2>1. Settled(k) /\ jobs'[k] = jobs[k]
    BY <1>3 DEF LInv
  <2>2. \A s \in Stages : tx'[<<k, s>>] = tx[<<k, s>>]
    BY <1>1, <1>5, <1>6, <1>7
  <2>3. QED
    BY <2>1, <2>2 DEF Settled, Stages
<1>8. row.phase \in Begun(stage)
  BY <1>1, <1>2, <1>3 DEF LInv, IInv, SubmitOnce, TypeOK
<1>9. Settled(j) /\ jobs'[j] = row
  BY <1>2, <1>3 DEF LInv
<1>10. \A s \in Stages : s # stage => tx'[<<j, s>>] = tx[<<j, s>>]
  BY <1>1, <1>5, <1>6
<1>11. CASE stage = "transfer"
  <2>1. t.sol \in Receipts /\ t.tokens = 0
    BY <1>1, <1>3, <1>11 DEF Outcomes
  <2>2. row.phase = "transferring"
    BY <1>1, <1>2, <1>3, <1>8, <1>9, <1>11 DEF Settled, Tally, Begun, Phases
  <2>3. QED
    BY <1>1, <1>2, <1>4, <1>5, <1>7, <1>9, <1>10, <1>11, <2>1, <2>2
       DEF Settled, Tally, Begun, Stages
<1>12. CASE stage = "buy"
  <2>1. t.sol \in 1 .. row.input /\ t.fee \in 0 .. MaxFee /\ t.tokens \in Outputs
    BY <1>1, <1>2, <1>3, <1>12 DEF Outcomes
  <2>2. row.phase = "buying"
    BY <1>1, <1>2, <1>3, <1>8, <1>9, <1>12 DEF Settled, Tally, Begun
  <2>3. QED
    BY <1>1, <1>2, <1>4, <1>5, <1>7, <1>9, <1>10, <1>12, <2>1, <2>2
       DEF Settled, Tally, Begun, Stages
<1>13. CASE stage = "burn"
  <2>1. t.fee \in 0 .. MaxFee /\ t.tokens = row.tokens
    BY <1>1, <1>2, <1>3, <1>13 DEF Outcomes
  <2>2. row.phase = "burning"
    BY <1>1, <1>2, <1>3, <1>8, <1>9, <1>13 DEF Settled, Tally, Begun
  <2>3. QED
    BY <1>1, <1>2, <1>4, <1>5, <1>7, <1>9, <1>10, <1>13, <2>1, <2>2
       DEF Settled, Tally, Begun, Stages
<1>14. QED
  BY <1>11, <1>12, <1>13 DEF Stages

LEMMA InitLInv == Init => LInv
<1> SUFFICES ASSUME Init PROVE LInv
  OBVIOUS
<1>1. IInv
  BY InitIInv
<1>2. OwnUse
  BY DEF Init, OwnUse
<1>3. ASSUME NEW j \in Lots PROVE Settled(j)
  <2>1. jobs[j].phase = "absent" /\ \A stage \in Stages : tx[<<j, stage>>] = None
    BY DEF Init, NewRow, Ops
  <2>2. QED
    BY <2>1 DEF Settled, Tally, Begun, Stages, Phases
<1>4. QED
  BY <1>1, <1>2, <1>3 DEF LInv

LEMMA WorkerSettles ==
  ASSUME OwnLots, LInv, NEW w \in Workers, WorkerStep(w) \/ Crash(w)
  PROVE  OwnUse' /\ \A k \in Lots : Settled(k)'
<1>0. IInv
  BY DEF LInv
<1>1. CASE StartRun(w) \/ TakeRow(w) \/ Submit(w) \/ NotYet(w) \/ Crash(w)
  <2>1. UNCHANGED <<jobs, evidence, tx>>
    BY <1>1 DEF StartRun, TakeRow, Submit, NotYet, Crash, table, world
  <2>2. QED
    BY <1>0, <2>1, Untouched, QuietSettles
<1>2. CASE Threw(w)
  <2>1. pc[w] # "next" /\ Catch(w) /\ UNCHANGED <<evidence, tx>>
    BY <1>2 DEF Threw, world
  <2>2. QED
    BY <1>0, <2>1, CatchWrites, QuietSettles
<1>3. CASE Submitted(w)
  <2>1. pc[w] # "next" /\ Commit(w, cur[w].row) /\ UNCHANGED <<evidence, tx>>
    BY <1>3 DEF Submitted, world
  <2>2. QED
    BY <1>0, <2>1, CommitWrites, QuietSettles
<1>4. CASE Begin(w)
  BY <1>4, BeginSettles
<1>5. ASSUME NEW op \in Ops, Cites(w, op) PROVE OwnUse' /\ \A k \in Lots : Settled(k)'
  BY <1>5, CitesSettles
<1>6. QED
  BY <1>1, <1>2, <1>3, <1>4, <1>5 DEF WorkerStep, Reconciled

LEMMA LInductive == ASSUME OwnLots, LInv, [Next]_vars PROVE LInv'
<1>1. IInv'
  BY Inductive DEF LInv
<1>2. OwnUse' /\ \A k \in Lots : Settled(k)'
  <2>1. ASSUME NEW j \in Lots, RecordClaim(j) PROVE OwnUse' /\ \A k \in Lots : Settled(k)'
    BY <2>1, RecordClaimSettles
  <2>2. ASSUME NEW op \in Ops, Finalize(op) PROVE OwnUse' /\ \A k \in Lots : Settled(k)'
    BY <2>2, FinalizeSettles
  <2>3. ASSUME NEW w \in Workers, WorkerStep(w) \/ Crash(w)
        PROVE  OwnUse' /\ \A k \in Lots : Settled(k)'
    BY <2>3, WorkerSettles
  <2>4. CASE UNCHANGED vars
    <3>1. UNCHANGED <<jobs, evidence, tx>>
      BY <2>4 DEF vars, table, world
    <3>2. QED
      BY <3>1, Untouched, QuietSettles DEF LInv
  <2>5. QED
    BY <2>1, <2>2, <2>3, <2>4 DEF Next
<1>3. QED
  BY <1>1, <1>2 DEF LInv

LEMMA LotsAreKept == ASSUME OwnLots PROVE Spec => []LInv
<1>1. Init => LInv
  BY InitLInv
<1>2. LInv /\ [Next]_vars => LInv'
  BY LInductive
<1>3. QED
  BY <1>1, <1>2, PTL DEF Spec

\* The accounting of docs/buybacks.md: where an adapter cites a lot's own
\* transactions, the books of every branch are what those transactions left of its
\* purse, and a branch that has bought can pay for its burn.
THEOREM PursesBalance == ASSUME OwnLots PROVE Spec => []Purse
<1>1. LInv => Purse
  <2> SUFFICES ASSUME LInv PROVE Purse
    OBVIOUS
  <2>1. TypeOK /\ Books
    BY DEF LInv, IInv
  <2>2. BurnIsAffordable
    BY <2>1 DEF Books, Balanced, BurnIsAffordable
  <2>3. ASSUME NEW j \in Lots, NEW row, row = jobs[j], NEW transfer, NEW buy, NEW burn,
               transfer = tx[<<j, "transfer">>], buy = tx[<<j, "buy">>], burn = tx[<<j, "burn">>]
        PROVE  /\ row.received = row.spent + row.fees + row.residual
               /\ row.phase \in Begun("transfer") \ {"transferring"} =>
                    transfer # None /\ row.received = transfer.sol
               /\ row.phase = "completed" =>
                    /\ buy # None /\ burn # None
                    /\ row.residual = row.received - buy.sol - buy.fee - burn.fee
                    /\ row.burned = buy.tokens /\ row.burned = row.tokens
    <3>1. Tally(row, transfer, buy, burn) /\ Balanced(row)
      BY <2>1, <2>3 DEF LInv, Settled, Books
    <3>2. QED
      BY <3>1 DEF Tally, Balanced, Begun
  <2>4. Accounting
    BY <2>3 DEF Accounting
  <2>5. QED
    BY <2>1, <2>2, <2>4 DEF Purse
<1>2. QED
  BY <1>1, LotsAreKept, PTL

-----------------------------------------------------------------------------
\* The promise.

\* What the ledger did for one lot, in the words of BurnPromise.
StageBar(j) == IF Moved(j, "burn") THEN "burnt"
               ELSE IF Moved(j, "buy") THEN "bought"
               ELSE IF Moved(j, "transfer") THEN "funded" ELSE "none"
PurseBar(j) == (IF Moved(j, "transfer") THEN tx[<<j, "transfer">>].sol ELSE 0)
               - (IF Moved(j, "buy") THEN tx[<<j, "buy">>].sol + tx[<<j, "buy">>].fee ELSE 0)
               - (IF Moved(j, "burn") THEN tx[<<j, "burn">>].fee ELSE 0)
TokensBar(j) == IF Moved(j, "buy") THEN tx[<<j, "buy">>].tokens ELSE 0
BurnedBar(j) == IF Moved(j, "burn") THEN tx[<<j, "burn">>].tokens ELSE 0

LEMMA InitPromises == Init => Promise!Init
<1> SUFFICES ASSUME Init PROVE Promise!Init
  OBVIOUS
<1>1. \A j \in Lots, stage \in Stages : ~Moved(j, stage)
  BY DEF Init, Moved, Ops
<1>2. QED
  BY <1>1 DEF Promise!Init, Stages

LEMMA IdlePromises == ASSUME UNCHANGED tx PROVE UNCHANGED Promise!vars
BY DEF Promise!vars, Moved

\* The other lots are as they were.
LEMMA OthersPromise ==
  ASSUME NEW j \in Lots, NEW k \in Lots, \A stage \in Stages : tx'[<<k, stage>>] = tx[<<k, stage>>]
  PROVE  /\ StageBar(k)' = StageBar(k) /\ PurseBar(k)' = PurseBar(k)
         /\ TokensBar(k)' = TokensBar(k) /\ BurnedBar(k)' = BurnedBar(k)
<1>1. \A stage \in Stages : Moved(k, stage)' = Moved(k, stage)
  BY DEF Moved
<1>2. QED
  BY <1>1 DEF StageBar, PurseBar, TokensBar, BurnedBar, Stages

\* The three ways a lot may move.
LEMMA FundPromises ==
  ASSUME NEW j \in Lots, NEW sol \in Receipts,
         \A k \in Lots \ {j} : /\ StageBar(k)' = StageBar(k) /\ PurseBar(k)' = PurseBar(k)
                               /\ TokensBar(k)' = TokensBar(k) /\ BurnedBar(k)' = BurnedBar(k),
         StageBar(j) = "none", StageBar(j)' = "funded", PurseBar(j)' = sol,
         TokensBar(j)' = TokensBar(j), BurnedBar(j)' = BurnedBar(j)
  PROVE  Promise!Fund(j)
<1>1. [k \in Lots |-> StageBar(k)]' = [[k \in Lots |-> StageBar(k)] EXCEPT ![j] = "funded"]
  OBVIOUS
<1>2. [k \in Lots |-> PurseBar(k)]' = [[k \in Lots |-> PurseBar(k)] EXCEPT ![j] = sol]
  OBVIOUS
<1>3. /\ [k \in Lots |-> TokensBar(k)]' = [k \in Lots |-> TokensBar(k)]
      /\ [k \in Lots |-> BurnedBar(k)]' = [k \in Lots |-> BurnedBar(k)]
  OBVIOUS
<1>4. QED
  BY <1>1, <1>2, <1>3 DEF Promise!Fund, StageBar, PurseBar, TokensBar, BurnedBar

LEMMA BuyPromises ==
  ASSUME NEW j \in Lots, NEW left \in MaxFee .. PurseBar(j) - 1, NEW amount \in Outputs,
         \A k \in Lots \ {j} : /\ StageBar(k)' = StageBar(k) /\ PurseBar(k)' = PurseBar(k)
                               /\ TokensBar(k)' = TokensBar(k) /\ BurnedBar(k)' = BurnedBar(k),
         StageBar(j) = "funded", StageBar(j)' = "bought", PurseBar(j)' = left,
         TokensBar(j)' = amount, BurnedBar(j)' = BurnedBar(j)
  PROVE  Promise!Buy(j)
<1>1. [k \in Lots |-> StageBar(k)]' = [[k \in Lots |-> StageBar(k)] EXCEPT ![j] = "bought"]
  OBVIOUS
<1>2. [k \in Lots |-> PurseBar(k)]' = [[k \in Lots |-> PurseBar(k)] EXCEPT ![j] = left]
  OBVIOUS
<1>3. [k \in Lots |-> TokensBar(k)]' = [[k \in Lots |-> TokensBar(k)] EXCEPT ![j] = amount]
  OBVIOUS
<1>4. [k \in Lots |-> BurnedBar(k)]' = [k \in Lots |-> BurnedBar(k)]
  OBVIOUS
<1>5. left \in MaxFee .. [k \in Lots |-> PurseBar(k)][j] - 1
  OBVIOUS
<1>6. QED
  BY <1>1, <1>2, <1>3, <1>4, <1>5 DEF Promise!Buy, StageBar, PurseBar, TokensBar, BurnedBar

LEMMA BurnPromises ==
  ASSUME NEW j \in Lots, NEW fee \in 0 .. MaxFee, fee <= PurseBar(j),
         \A k \in Lots \ {j} : /\ StageBar(k)' = StageBar(k) /\ PurseBar(k)' = PurseBar(k)
                               /\ TokensBar(k)' = TokensBar(k) /\ BurnedBar(k)' = BurnedBar(k),
         StageBar(j) = "bought", StageBar(j)' = "burnt", PurseBar(j)' = PurseBar(j) - fee,
         TokensBar(j)' = TokensBar(j), BurnedBar(j)' = TokensBar(j)
  PROVE  Promise!Burn(j)
<1>1. [k \in Lots |-> StageBar(k)]' = [[k \in Lots |-> StageBar(k)] EXCEPT ![j] = "burnt"]
  OBVIOUS
<1>2. [k \in Lots |-> PurseBar(k)]' = [[k \in Lots |-> PurseBar(k)] EXCEPT ![j] = @ - fee]
  OBVIOUS
<1>3. [k \in Lots |-> TokensBar(k)]' = [k \in Lots |-> TokensBar(k)]
  OBVIOUS
<1>4. [k \in Lots |-> BurnedBar(k)]'
        = [[k \in Lots |-> BurnedBar(k)] EXCEPT ![j] = [k \in Lots |-> TokensBar(k)][j]]
  OBVIOUS
<1>5. fee <= [k \in Lots |-> PurseBar(k)][j]
  OBVIOUS
<1>6. QED
  BY <1>1, <1>2, <1>3, <1>4, <1>5 DEF Promise!Burn, StageBar, PurseBar, TokensBar, BurnedBar

LEMMA FinalizePromises ==
  ASSUME LInv, NEW op \in Ops, Finalize(op)
  PROVE  \E j \in Lots : Promise!Fund(j) \/ Promise!Buy(j) \/ Promise!Burn(j)
<1>1. PICK j \in Lots, stage \in Stages : op = <<j, stage>>
  BY DEF Ops
<1>2. PICK row \in Row : row = jobs[j]
  BY DEF LInv, IInv, TypeOK
<1>3. PICK t \in Tx : /\ t \in Outcomes(op) /\ tx' = [tx EXCEPT ![op] = t]
                      /\ submits[op] > 0 /\ tx[op] = None /\ UNCHANGED jobs
  BY OutcomeIsTx DEF Finalize, table, LInv
<1>4. PICK transfer, buy, burn :
        /\ transfer = tx[<<j, "transfer">>] /\ buy = tx[<<j, "buy">>] /\ burn = tx[<<j, "burn">>]
  OBVIOUS
<1>5. /\ Tally(row, transfer, buy, burn) /\ Balanced(row)
      /\ transfer \in Tx \cup {None} /\ buy \in Tx \cup {None}
  <2>1. \A s \in Stages : <<j, s>> \in Ops
    BY DEF Ops
  <2>2. QED
    BY <1>2, <1>4, <2>1 DEF LInv, IInv, TypeOK, Settled, Books, Stages
<1>6. t # None /\ tx'[op] = t /\ \A other \in Ops : other # op => tx'[other] = tx[other]
  BY <1>3, NoneAssumption DEF LInv, IInv, TypeOK
<1>7. \A k \in Lots, s \in Stages : (k # j \/ s # stage) => tx'[<<k, s>>] = tx[<<k, s>>]
  BY <1>1, <1>6 DEF Ops
<1>8. \A k \in Lots \ {j} : /\ StageBar(k)' = StageBar(k) /\ PurseBar(k)' = PurseBar(k)
                            /\ TokensBar(k)' = TokensBar(k) /\ BurnedBar(k)' = BurnedBar(k)
  BY <1>7, OthersPromise
<1>9. row.phase \in Begun(stage)
  BY <1>1, <1>2, <1>3 DEF LInv, IInv, SubmitOnce, TypeOK
<1>10. /\ row.phase \notin Begun("buy") => buy = None
       /\ row.phase \notin Begun("burn") => burn = None
  BY <1>2, <1>4, MovedIsBegun DEF LInv, Stages
<1>11. CASE stage = "transfer"
  <2>1. t.sol \in Receipts
    BY <1>1, <1>3, <1>11 DEF Outcomes
  <2>2. transfer = None /\ buy = None /\ burn = None
    BY <1>1, <1>3, <1>4, <1>5, <1>9, <1>10, <1>11 DEF Tally, Begun, Phases
  <2>3. /\ tx'[<<j, "transfer">>] = t /\ tx'[<<j, "buy">>] = None /\ tx'[<<j, "burn">>] = None
    BY <1>1, <1>4, <1>6, <1>7, <1>11, <2>2 DEF Stages
  <2>4. /\ StageBar(j) = "none" /\ StageBar(j)' = "funded" /\ PurseBar(j)' = t.sol
        /\ TokensBar(j)' = TokensBar(j) /\ BurnedBar(j)' = BurnedBar(j)
    <3>1. ~Moved(j, "transfer") /\ ~Moved(j, "buy") /\ ~Moved(j, "burn")
      BY <1>4, <2>2 DEF Moved
    <3>2. Moved(j, "transfer")' /\ ~Moved(j, "buy")' /\ ~Moved(j, "burn")'
      BY <1>6, <2>3 DEF Moved
    <3>3. t.sol \in Nat
      BY DEF Tx
    <3>4. QED
      BY <2>3, <3>1, <3>2, <3>3 DEF StageBar, PurseBar, TokensBar, BurnedBar
  <2>5. QED
    BY <1>8, <2>1, <2>4, FundPromises
<1>12. CASE stage = "buy"
  <2>1. t.sol \in 1 .. row.input /\ t.fee \in 0 .. MaxFee /\ t.tokens \in Outputs
    BY <1>1, <1>2, <1>3, <1>12 DEF Outcomes
  <2>2. /\ row.phase = "buying" /\ buy = None /\ burn = None
        /\ transfer # None /\ row.received = transfer.sol
    BY <1>1, <1>3, <1>4, <1>5, <1>9, <1>10, <1>12 DEF Tally, Begun, Phases
  <2>3. /\ tx'[<<j, "transfer">>] = transfer /\ tx'[<<j, "buy">>] = t /\ tx'[<<j, "burn">>] = None
    BY <1>1, <1>4, <1>6, <1>7, <1>12, <2>2 DEF Stages
  <2>4. ~Moved(j, "buy") /\ ~Moved(j, "burn") /\ Moved(j, "transfer")
    BY <1>4, <2>2 DEF Moved
  <2>5. Moved(j, "transfer")' /\ Moved(j, "buy")' /\ ~Moved(j, "burn")'
    BY <1>6, <2>2, <2>3 DEF Moved
  <2>6. PICK left : left = row.received - t.sol - t.fee
    OBVIOUS
  <2>7. row.received \in Nat /\ transfer.sol = row.received /\ t.sol \in Nat /\ t.fee \in Nat
        /\ MaxFee \in Nat /\ row.input \in Nat /\ row.input + 2 * MaxFee = row.received
    BY <1>5, <2>2, BuybackAssumption DEF Tx, Row, Balanced, Begun
  <2>8. left \in MaxFee .. row.received - 1
    BY <2>1, <2>6, <2>7
  <2>9. PurseBar(j) = row.received
    BY <1>4, <2>4, <2>7 DEF PurseBar
  <2>10. PurseBar(j)' = left
    BY <2>3, <2>5, <2>6, <2>7 DEF PurseBar
  <2>11. /\ StageBar(j) = "funded" /\ StageBar(j)' = "bought"
         /\ TokensBar(j)' = t.tokens /\ BurnedBar(j)' = BurnedBar(j)
    BY <2>3, <2>4, <2>5 DEF StageBar, TokensBar, BurnedBar
  <2>12. Promise!Buy(j)
    BY <1>8, <2>1, <2>8, <2>9, <2>10, <2>11, BuyPromises
  <2>13. QED
    BY <2>12
<1>13. CASE stage = "burn"
  <2>1. t.fee \in 0 .. MaxFee /\ t.tokens = row.tokens
    BY <1>1, <1>2, <1>3, <1>13 DEF Outcomes
  <2>2. /\ row.phase = "burning" /\ burn = None /\ buy # None /\ row.tokens = buy.tokens
        /\ transfer # None /\ row.received = transfer.sol
        /\ row.residual = row.received - buy.sol - buy.fee /\ row.residual >= MaxFee
    BY <1>1, <1>3, <1>4, <1>5, <1>9, <1>13 DEF Tally, Balanced, Begun, Phases
  <2>3. /\ tx'[<<j, "transfer">>] = transfer /\ tx'[<<j, "buy">>] = buy /\ tx'[<<j, "burn">>] = t
    BY <1>1, <1>4, <1>6, <1>7, <1>13 DEF Stages
  <2>4. Moved(j, "transfer") /\ Moved(j, "buy") /\ ~Moved(j, "burn")
    BY <1>4, <2>2 DEF Moved
  <2>5. Moved(j, "transfer")' /\ Moved(j, "buy")' /\ Moved(j, "burn")'
    BY <1>6, <2>2, <2>3 DEF Moved
  <2>6. /\ row.received \in Nat /\ transfer.sol = row.received /\ t.fee \in Nat
        /\ buy.sol \in Nat /\ buy.fee \in Nat /\ MaxFee \in Nat /\ row.residual \in Nat
    BY <1>5, <2>2, BuybackAssumption DEF Tx, Row
  <2>7. PurseBar(j) = row.residual /\ PurseBar(j)' = row.residual - t.fee
    BY <1>4, <2>2, <2>3, <2>4, <2>5, <2>6 DEF PurseBar
  <2>8. /\ StageBar(j) = "bought" /\ StageBar(j)' = "burnt"
        /\ TokensBar(j)' = TokensBar(j) /\ BurnedBar(j)' = TokensBar(j)
    BY <1>4, <2>1, <2>2, <2>3, <2>4, <2>5 DEF StageBar, TokensBar, BurnedBar
  <2>9. t.fee <= PurseBar(j)
    BY <2>1, <2>2, <2>6, <2>7
  <2>10. Promise!Burn(j)
    BY <1>8, <2>1, <2>7, <2>8, <2>9, BurnPromises
  <2>11. QED
    BY <2>10
<1>14. QED
  BY <1>11, <1>12, <1>13 DEF Stages

LEMMA NextPromises == ASSUME LInv, [Next]_vars PROVE [Promise!Next]_Promise!vars
<1>1. ASSUME NEW op \in Ops, Finalize(op) PROVE Promise!Next
  BY <1>1, FinalizePromises DEF Promise!Next
<1>2. (\E op \in Ops : Finalize(op)) \/ UNCHANGED tx
  BY DEF Next, vars, RecordClaim, WorkerStep, StartRun, TakeRow, Threw, Begin, Submit, Submitted,
         NotYet, Reconciled, Cites, Crash, table, world
<1>3. QED
  BY <1>1, <1>2, IdlePromises

\* Through races, crashes and late answers, what the adapters are asked to do fills a
\* lot's purse once, spends it on one purchase that leaves it the fee of a burn, and
\* burns what was bought.
THEOREM BurnsAsPromised == ASSUME OwnLots PROVE Spec => KeepsPromise
<1>1. Init => Promise!Init
  BY InitPromises
<1>2. LInv /\ [Next]_vars => [Promise!Next]_Promise!vars
  BY NextPromises
<1>3. Spec => []LInv
  BY LotsAreKept
<1>4. QED
  BY <1>1, <1>2, <1>3, PTL DEF Spec, KeepsPromise, Promise!Spec

=============================================================================

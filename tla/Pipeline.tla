------------------------------ MODULE Pipeline ------------------------------
(***************************************************************************)
(* The streamer pipeline of server/agents/pipeline.ts: several workers      *)
(* (processes, or instances over one SQLite file) drive fee jobs through    *)
(* deposit, conversion and gift.  A worker snapshots a slice of the queue   *)
(* in one transaction and handles the rows one by one; every adapter call   *)
(* is awaited, so the snapshot may be old when its result is saved.  All    *)
(* authority comes from a compare-and-swap on the row's revision.           *)
(*                                                                          *)
(* Three parts of the state are not the program's: "calls" counts the       *)
(* adapter calls that reach the outside, "charge" and "avail" are the card  *)
(* issuer's own books.                                                      *)
(***************************************************************************)
EXTENDS Integers, FiniteSets, FiniteSetsExt

CONSTANTS
  Jobs,        \* fee lots
  Historical,  \* jobs a release before native splits left in the table
  Workers,     \* pipeline instances sharing the database
  Cards,       \* card accounts
  Refs,        \* references a provider may quote (transfers, orders, charges)
  MayCite,     \* the references adapters may attribute to each job
  Nets,        \* what a conversion may report, in cents
  CardLimit,   \* credit the issuer grants on a card
  MinGift, MaxGift,   \* PipelinePolicy.minimum/maximumGiftUsdCents
  BatchSize,   \* rows of one nextBatch (100 in the code)
  MaxAge,      \* age at which a card observation is refused (60 s)
  MaxTime,     \* bound of the clock
  MaxFaults,   \* bound on provider faults and crashes together
  None         \* SQL NULL, or "no snapshot"

ASSUME PipelineAssumption ==
  /\ Historical \subseteq Jobs
  /\ IsFiniteSet(Jobs)
  /\ MayCite \in [Jobs -> SUBSET Refs]
  /\ Nets \subseteq Nat \ {0}
  /\ CardLimit \in Nat
  /\ MinGift \in Nat \ {0} /\ MaxGift \in Nat /\ MinGift <= MaxGift
  /\ BatchSize \in Nat \ {0}
  /\ MaxAge \in Nat /\ MaxTime \in Nat /\ MaxFaults \in Nat

VARIABLES
  jobs,        \* agent_fee_jobs: phase, revision and payload
  rowid,       \* insertion order of agent_fee_jobs; 0 while absent
  cursor,      \* agent_pipeline_cursor.last_rowid
  evidence,    \* agent_funding_evidence
  reservation, \* agent_card_reservations
  receipts,    \* agent_receipts
  now,         \* Date.now()
  pc,          \* where each worker stands in run()
  batch,       \* the rest of the worker's batch
  cur,         \* the row the worker is handling
  proof,       \* the funding proof it was handed
  seen,        \* the card observation it was handed
  calls,       \* adapter calls made, per job and effect
  charge,      \* cents the issuer posted for a job's gift; 0 before
  avail,       \* the issuer's available credit
  faults       \* provider faults and crashes so far

table == <<jobs, rowid, cursor, evidence, reservation, receipts>>
local == <<pc, batch, cur, proof, seen>>
world == <<calls, charge, avail>>
vars == <<table, now, local, world, faults>>

Phases == {"absent", "claimed", "depositing", "deposited", "converting",
           "converted", "gifting", "completed"}

\* The one successor of each phase.
After(phase) ==
  CASE phase = "claimed" -> "depositing"
    [] phase = "depositing" -> "deposited"
    [] phase = "deposited" -> "converting"
    [] phase = "converting" -> "converted"
    [] phase = "converted" -> "gifting"
    [] phase = "gifting" -> "completed"

\* The external effect the phase reserves, and the evidence that ends it.
Effects == {"deposit", "conversion", "gift"}
EffectOf(phase) ==
  CASE phase = "depositing" -> "deposit"
    [] phase = "converting" -> "conversion"
    [] phase = "gifting" -> "gift"

Row == [phase : Phases, revision : Nat, issue : BOOLEAN,
        deposit : Refs \cup {None}, conversion : Refs \cup {None},
        net : Nat, card : Cards \cup {None}]
Snapshot == [id : Jobs, row : Row]
Queued == [place : Nat, id : Jobs, row : Row]
Reservation == [card : Cards, cents : Nat, completedAt : Nat \cup {None}]
Proof == [ref : Refs, net : Nat]
Observation == [card : Cards, credit : Int, at : Nat]

ASSUME NoneAssumption ==
  /\ None \notin Cards /\ None \notin Refs /\ None \notin Nat
  /\ None \notin Snapshot /\ None \notin Reservation
  /\ None \notin Proof /\ None \notin Observation

NewRow(phase) == [phase |-> phase, revision |-> 0, issue |-> FALSE,
                  deposit |-> None, conversion |-> None, net |-> 0, card |-> None]

-----------------------------------------------------------------------------
\* The queue: nextBatch and its persisted rotation.

Unfinished == {j \in Jobs : jobs[j].phase \notin {"absent", "completed"}}

\* The place of a row in the rotation that starts after cursor c.
Turn(c, j) == IF rowid[j] > c THEN rowid[j] - c ELSE rowid[j] - c + Cardinality(Jobs)

\* How many rows come before it.
Place(c, j) == Cardinality({k \in Unfinished : Turn(c, k) < Turn(c, j)})

NextBatch(c) == {j \in Unfinished : Place(c, j) < BatchSize}

\* Mutant: the rotation is not persisted.
LastRowForgotten(c) == 0

\* The rowid the batch ends at, 0 when it is empty.
LastRow(c) ==
  LET last == {j \in NextBatch(c) : \A k \in NextBatch(c) : Place(c, k) <= Place(c, j)} IN
  IF last = {} THEN 0 ELSE rowid[CHOOSE j \in last : TRUE]

-----------------------------------------------------------------------------
\* save(): the compare-and-swap on the row's revision.

\* Mutant: the row is written whatever its revision.
CanSaveAlways(w) == TRUE

CanSave(w) == jobs[cur[w].id].revision = cur[w].row.revision

Saved(w, row) == [jobs EXCEPT ![cur[w].id] = [row EXCEPT !.revision = @ + 1]]

Save(w, row) == jobs' = IF CanSave(w) THEN Saved(w, row) ELSE jobs

\* transition(): the saved row moves to its next phase and loses its issue.
Advanced(row) == [row EXCEPT !.phase = After(row.phase), !.issue = FALSE]

Goto(w, label) ==
  /\ pc' = [pc EXCEPT ![w] = label]
  /\ UNCHANGED batch

\* The worker lets go of its row and is ready for the next one of its batch.
Leave(w) ==
  /\ Goto(w, "next")
  /\ cur' = [cur EXCEPT ![w] = None]
  /\ proof' = [proof EXCEPT ![w] = None]
  /\ seen' = [seen EXCEPT ![w] = None]

\* The catch of run(): the row is held with an issue, nothing is released.
Catch(w) ==
  /\ Save(w, [cur[w].row EXCEPT !.issue = TRUE])
  /\ Leave(w)

\* A provider errs or a process dies.
Fault == faults < MaxFaults /\ faults' = faults + 1

-----------------------------------------------------------------------------
Init ==
  /\ jobs \in [Jobs -> {NewRow(p) : p \in Phases}]
  /\ \A j \in Jobs : jobs[j].phase = "absent" <=> j \notin Historical
  /\ rowid \in [Jobs -> 0 .. Cardinality(Historical)]
  /\ \A j \in Jobs : rowid[j] = 0 <=> j \notin Historical
  /\ \A j, k \in Historical : j # k => rowid[j] # rowid[k]
  /\ cursor = 0 /\ evidence = {} /\ receipts = {}
  /\ reservation = [j \in Jobs |-> None]
  /\ now = 0
  /\ pc = [w \in Workers |-> "next"]
  /\ batch = [w \in Workers |-> {}]
  /\ cur = [w \in Workers |-> None]
  /\ proof = [w \in Workers |-> None]
  /\ seen = [w \in Workers |-> None]
  /\ calls = [j \in Jobs |-> [e \in Effects |-> 0]]
  /\ charge = [j \in Jobs |-> 0]
  /\ avail = [c \in Cards |-> CardLimit]
  /\ faults = 0

\* recordClaim: a repeated identical lot changes nothing.
RecordClaim(j) ==
  /\ jobs[j].phase = "absent"
  /\ jobs' = [jobs EXCEPT ![j] = NewRow("claimed")]
  /\ rowid' = [rowid EXCEPT ![j] = 1 + Cardinality({k \in Jobs : rowid[k] # 0})]
  /\ UNCHANGED <<cursor, evidence, reservation, receipts, now, local, world, faults>>

\* runOnce with no run in flight: reserve a slice and persist the rotation.
StartRun(w) ==
  /\ pc[w] = "next" /\ batch[w] = {}
  /\ batch' = [batch EXCEPT ![w] =
       {[place |-> Place(cursor, j), id |-> j, row |-> jobs[j]] : j \in NextBatch(cursor)}]
  /\ cursor' = LastRow(cursor)
  /\ UNCHANGED <<jobs, rowid, evidence, reservation, receipts, now,
                 pc, cur, proof, seen, world, faults>>

InLimits(row) == row.net \in MinGift .. MaxGift

\* The switch of run(), up to the first statement that touches the outside.
Dispatch(s) ==
  IF s.id \in Historical THEN "hold"
  ELSE CASE s.row.phase \in {"claimed", "deposited"} -> "begin"
         [] s.row.phase \in {"depositing", "converting", "gifting"} -> "ask"
         [] s.row.phase = "converted" -> IF InLimits(s.row) THEN "live" ELSE "next"

TakeRow(w) ==
  /\ pc[w] = "next"
  /\ \E s \in batch[w] :
       /\ \A t \in batch[w] : s.place <= t.place
       /\ batch' = [batch EXCEPT ![w] = @ \ {s}]
       /\ pc' = [pc EXCEPT ![w] = Dispatch(s)]
       /\ cur' = [cur EXCEPT ![w] =
                     IF Dispatch(s) = "next" THEN None ELSE [id |-> s.id, row |-> s.row]]
  /\ UNCHANGED <<table, now, proof, seen, world, faults>>

\* An unsupported allocation version is held, and marked once.
HoldHistorical(w) ==
  /\ pc[w] = "hold"
  /\ IF cur[w].row.issue THEN jobs' = jobs
     ELSE Save(w, [cur[w].row EXCEPT !.issue = TRUE])
  /\ Leave(w)
  /\ UNCHANGED <<rowid, cursor, evidence, reservation, receipts, now, world, faults>>

\* claimed -> depositing and deposited -> converting, before the call is made.
Begin(w) ==
  /\ pc[w] = "begin"
  /\ IF CanSave(w)
     THEN /\ jobs' = Saved(w, Advanced(cur[w].row))
          /\ cur' = [cur EXCEPT ![w].row =
                       [Advanced(cur[w].row) EXCEPT !.revision = @ + 1]]
          /\ Goto(w, "call")
          /\ UNCHANGED <<proof, seen>>
     ELSE UNCHANGED jobs /\ Leave(w)
  /\ UNCHANGED <<rowid, cursor, evidence, reservation, receipts, now, world, faults>>

\* adapters.deposit, adapters.convert or adapters.gift is invoked.
Call(w) ==
  /\ pc[w] = "call"
  /\ calls' = [calls EXCEPT ![cur[w].id][EffectOf(cur[w].row.phase)] = @ + 1]
  /\ Goto(w, "await")
  /\ UNCHANGED <<table, now, cur, proof, seen, charge, avail, faults>>

\* The call answers with a reference, which is saved if the row has not moved.
Returned(w) ==
  /\ pc[w] = "await"
  /\ Save(w, cur[w].row)
  /\ Leave(w)
  /\ UNCHANGED <<rowid, cursor, evidence, reservation, receipts, now, world, faults>>

\* An adapter rejects, times out, or answers with evidence run() refuses.
Threw(w) ==
  /\ pc[w] \in {"await", "ask", "live", "card"}
  /\ Fault
  /\ Catch(w)
  /\ UNCHANGED <<rowid, cursor, evidence, reservation, receipts, now, world>>

\* A reconciliation has nothing to show yet, the streamer is offline, or the
\* card's issuer is silent: the row is left as it is.
NotYet(w) ==
  /\ pc[w] \in {"ask", "live", "card"}
  /\ Leave(w)
  /\ UNCHANGED <<table, now, world, faults>>

-----------------------------------------------------------------------------
\* Funding evidence: creditEvidence and the transition it pays for.

OwnEvidence(w, ref) ==
  [ref |-> ref, kind |-> EffectOf(cur[w].row.phase), job |-> cur[w].id]

\* Mutant: a reference may serve two jobs.
ViolatesJob(e) == \E old \in evidence : old.kind = e.kind /\ old.job = e.job

\* PRIMARY KEY(reference,kind) and UNIQUE(job_id,kind).
Violates(e) ==
  \E old \in evidence : old.kind = e.kind /\ (old.ref = e.ref \/ old.job = e.job)

\* Mutant: creditEvidence always inserts, so a restart meets its own row.
FundingProofUnread(w) ==
  /\ pc[w] = "ask" /\ cur[w].row.phase \in {"depositing", "converting"}
  /\ \E ref \in MayCite[cur[w].id], net \in Nets :
       /\ proof' = [proof EXCEPT ![w] = [ref |-> ref, net |-> net]]
       /\ Goto(w, "insert")
       /\ IF Violates(OwnEvidence(w, ref)) THEN Fault ELSE UNCHANGED faults
  /\ UNCHANGED <<table, now, cur, seen, world>>

\* reconcileDeposit or reconcileConversion answers; SELECT finds the row or not.
\* To cite a reference that already serves elsewhere is a provider's fault.
FundingProof(w) ==
  /\ pc[w] = "ask" /\ cur[w].row.phase \in {"depositing", "converting"}
  /\ \E ref \in MayCite[cur[w].id], net \in Nets :
       /\ proof' = [proof EXCEPT ![w] = [ref |-> ref, net |-> net]]
       /\ \/ /\ OwnEvidence(w, ref) \in evidence
             /\ Goto(w, "credit") /\ UNCHANGED faults
          \/ /\ OwnEvidence(w, ref) \notin evidence
             /\ Goto(w, "insert")
             /\ IF Violates(OwnEvidence(w, ref)) THEN Fault ELSE UNCHANGED faults
  /\ UNCHANGED <<table, now, cur, seen, world>>

InsertEvidence(w) ==
  LET e == OwnEvidence(w, proof[w].ref) IN
  /\ pc[w] = "insert"
  /\ IF Violates(e)
     THEN Catch(w) /\ UNCHANGED evidence
     ELSE /\ evidence' = evidence \cup {e}
          /\ Goto(w, "credit")
          /\ UNCHANGED <<jobs, cur, proof, seen>>
  /\ UNCHANGED <<rowid, cursor, reservation, receipts, now, world, faults>>

\* The job with the proof in its payload, as transition() saves it.
Credited(w) ==
  IF cur[w].row.phase = "depositing"
  THEN Advanced([cur[w].row EXCEPT !.deposit = proof[w].ref])
  ELSE Advanced([cur[w].row EXCEPT !.conversion = proof[w].ref, !.net = proof[w].net])

SaveCredited(w) ==
  /\ pc[w] = "credit"
  /\ Save(w, Credited(w))
  /\ Leave(w)
  /\ UNCHANGED <<rowid, cursor, evidence, reservation, receipts, now, world, faults>>

-----------------------------------------------------------------------------
\* The gift: live check, card observation, atomic reservation.

Live(w) ==
  /\ pc[w] = "live"
  /\ Goto(w, "card")
  /\ UNCHANGED <<table, now, cur, proof, seen, world, faults>>

\* cardReady: what the issuer says now; it is used only after the await.
ObserveCard(w) ==
  /\ pc[w] = "card"
  /\ \E c \in Cards :
       /\ avail[c] > 0
       /\ seen' = [seen EXCEPT ![w] = [card |-> c, credit |-> avail[c], at |-> now]]
  /\ Goto(w, "reserve")
  /\ UNCHANGED <<table, now, cur, proof, world, faults>>

\* Mutants: a gift completed in the observation's own millisecond, or any
\* completed gift, is taken to be part of what the issuer said.
HeldSinceStrict(c, t) ==
  {j \in Jobs : /\ reservation[j] # None
                /\ reservation[j].card = c
                /\ \/ reservation[j].completedAt = None
                   \/ reservation[j].completedAt > t}
HeldOpen(c, t) ==
  {j \in Jobs : /\ reservation[j] # None
                /\ reservation[j].card = c
                /\ reservation[j].completedAt = None}

\* Reservations an observation made at time t does not account for yet.
HeldSince(c, t) ==
  {j \in Jobs : /\ reservation[j] # None
                /\ reservation[j].card = c
                /\ \/ reservation[j].completedAt = None
                   \/ reservation[j].completedAt >= t}

Cents(j) == reservation[j].cents

HeldCents(c, t) == MapThenSumSet(Cents, HeldSince(c, t))

Reserve(w) ==
  /\ pc[w] = "reserve"
  /\ now - seen[w].at <= MaxAge
  /\ CanSave(w)
  /\ HeldCents(seen[w].card, seen[w].at) + cur[w].row.net <= seen[w].credit
  /\ LET gifting == [Advanced(cur[w].row) EXCEPT !.card = seen[w].card] IN
       /\ jobs' = Saved(w, gifting)
       /\ cur' = [cur EXCEPT ![w].row = [gifting EXCEPT !.revision = @ + 1]]
  /\ reservation' = [reservation EXCEPT ![cur[w].id] =
       [card |-> seen[w].card, cents |-> cur[w].row.net, completedAt |-> None]]
  /\ seen' = [seen EXCEPT ![w] = None]
  /\ Goto(w, "call")
  /\ UNCHANGED <<rowid, cursor, evidence, receipts, now, proof, world, faults>>

\* A stale observation, a moved row or too little credit: ROLLBACK and break.
ReserveRefused(w) ==
  /\ pc[w] = "reserve"
  /\ \/ now - seen[w].at > MaxAge
     \/ ~CanSave(w)
     \/ HeldCents(seen[w].card, seen[w].at) + cur[w].row.net > seen[w].credit
  /\ Leave(w)
  /\ UNCHANGED <<table, now, world, faults>>

-----------------------------------------------------------------------------
\* The receipt: one transaction settles receipt, reservation and job.

\* PRIMARY KEY, UNIQUE charge and UNIQUE job_id of agent_receipts.
Reused(r) == \E old \in receipts : old.ref = r.ref \/ old.job = r.job

Complete(w) ==
  /\ pc[w] = "ask" /\ cur[w].row.phase = "gifting"
  /\ charge[cur[w].id] > 0
  /\ \E ref \in MayCite[cur[w].id] :
       LET r == [ref |-> ref, job |-> cur[w].id] IN
       /\ CanSave(w) /\ ~Reused(r)
       /\ receipts' = receipts \cup {r}
  /\ reservation' = [reservation EXCEPT ![cur[w].id] =
       [card |-> reservation[cur[w].id].card, cents |-> charge[cur[w].id],
        completedAt |-> now]]
  /\ jobs' = Saved(w, [cur[w].row EXCEPT !.phase = "completed"])
  /\ Leave(w)
  /\ UNCHANGED <<rowid, cursor, evidence, now, world, faults>>

\* The row has moved (ROLLBACK and break), or the receipt is another job's.
ReceiptRefused(w) ==
  /\ pc[w] = "ask" /\ cur[w].row.phase = "gifting"
  /\ charge[cur[w].id] > 0
  /\ \/ ~CanSave(w) /\ Leave(w) /\ UNCHANGED <<jobs, faults>>
     \/ /\ CanSave(w)
        /\ \E ref \in MayCite[cur[w].id] : Reused([ref |-> ref, job |-> cur[w].id])
        /\ Fault /\ Catch(w)
  /\ UNCHANGED <<rowid, cursor, evidence, reservation, receipts, now, world>>

\* A statement of either transaction fails after run() replaced its "job": the
\* transaction rolls back, and the catch then saves the phase it never reached.
CommitFails(w) ==
  /\ \/ /\ pc[w] = "reserve" /\ now - seen[w].at <= MaxAge /\ CanSave(w)
        /\ HeldCents(seen[w].card, seen[w].at) + cur[w].row.net <= seen[w].credit
        /\ jobs' = Saved(w, [cur[w].row EXCEPT !.phase = "gifting", !.card = seen[w].card,
                                               !.issue = TRUE])
     \/ /\ pc[w] = "ask" /\ cur[w].row.phase = "gifting"
        /\ charge[cur[w].id] > 0 /\ CanSave(w)
        /\ jobs' = Saved(w, [cur[w].row EXCEPT !.phase = "completed", !.issue = TRUE])
  /\ Fault
  /\ Leave(w)
  /\ UNCHANGED <<rowid, cursor, evidence, reservation, receipts, now, world>>

-----------------------------------------------------------------------------
\* The outside.

\* A gift that was called for is charged once, late or not, within its budget.
Charge(j) ==
  /\ calls[j]["gift"] > 0 /\ charge[j] = 0
  /\ \E cents \in 1 .. reservation[j].cents :
       /\ charge' = [charge EXCEPT ![j] = cents]
       /\ avail' = [avail EXCEPT ![reservation[j].card] = @ - cents]
  /\ UNCHANGED <<table, now, local, calls, faults>>

Tick ==
  /\ now < MaxTime
  /\ now' = now + 1
  /\ UNCHANGED <<table, local, world, faults>>

\* The process dies and is started again; only the database is left.
Crash(w) ==
  /\ ~(pc[w] = "next" /\ batch[w] = {})
  /\ Fault
  /\ pc' = [pc EXCEPT ![w] = "next"]
  /\ batch' = [batch EXCEPT ![w] = {}]
  /\ cur' = [cur EXCEPT ![w] = None]
  /\ proof' = [proof EXCEPT ![w] = None]
  /\ seen' = [seen EXCEPT ![w] = None]
  /\ UNCHANGED <<table, now, world>>

WorkerStep(w) ==
  \/ StartRun(w) \/ TakeRow(w) \/ HoldHistorical(w)
  \/ Begin(w) \/ Call(w) \/ Returned(w) \/ Threw(w) \/ NotYet(w)
  \/ FundingProof(w) \/ InsertEvidence(w) \/ SaveCredited(w)
  \/ Live(w) \/ ObserveCard(w) \/ Reserve(w) \/ ReserveRefused(w)
  \/ Complete(w) \/ ReceiptRefused(w)

Next ==
  \/ \E j \in Jobs : RecordClaim(j) \/ Charge(j)
  \/ \E w \in Workers : WorkerStep(w) \/ Crash(w)
  \/ Tick

Spec == Init /\ [][Next]_vars
\* The same system on a database whose transactions may fail half-way.
FailedCommitSpec == Init /\ [][Next \/ \E w \in Workers : CommitFails(w)]_vars

-----------------------------------------------------------------------------
TypeOK ==
  /\ jobs \in [Jobs -> Row]
  /\ rowid \in [Jobs -> Nat]
  /\ cursor \in Nat
  /\ evidence \subseteq [ref : Refs, kind : Effects, job : Jobs]
  /\ reservation \in [Jobs -> Reservation \cup {None}]
  /\ receipts \subseteq [ref : Refs, job : Jobs]
  /\ now \in Nat
  /\ pc \in [Workers -> {"next", "hold", "begin", "call", "await", "ask", "insert",
                         "credit", "live", "card", "reserve"}]
  /\ batch \in [Workers -> SUBSET Queued]
  /\ cur \in [Workers -> Snapshot \cup {None}]
  /\ proof \in [Workers -> Proof \cup {None}]
  /\ seen \in [Workers -> Observation \cup {None}]
  /\ calls \in [Jobs -> [Effects -> Nat]]
  /\ charge \in [Jobs -> Nat]
  /\ avail \in [Cards -> Int]
  /\ faults \in Nat

\* Each adapter call is made at most once per job, whatever workers race,
\* crash or retry: the class comment's "they never authorize a second purchase".
AtMostOneCall == \A j \in Jobs, e \in Effects : calls[j][e] <= 1

\* The phases in which an effect may already be under way.
Reserved(e) ==
  CASE e = "deposit" -> {"depositing", "deposited", "converting", "converted",
                         "gifting", "completed"}
    [] e = "conversion" -> {"converting", "converted", "gifting", "completed"}
    [] e = "gift" -> {"gifting", "completed"}

\* An effect that was asked for is covered by a committed phase, and a gift by
\* a committed reservation, for ever after: no stale save takes them back.
CommittedBeforeCall ==
  \A j \in Jobs, e \in Effects : calls[j][e] > 0 =>
    /\ jobs[j].phase \in Reserved(e)
    /\ e = "gift" => reservation[j] # None

\* The gifts that may still be charged to a card never exceed the credit it
\* really has left, although each was reserved against an old observation.
CardNotOvercommitted ==
  \A c \in Cards :
    MapThenSumSet(Cents, {j \in Jobs : /\ reservation[j] # None
                                       /\ reservation[j].card = c
                                       /\ charge[j] = 0}) <= avail[c]

Native == Jobs \ Historical

\* A job is funded exactly by the evidence recorded for it, and one transfer or
\* order funds one job.
EvidenceBacked ==
  /\ \A j \in Native :
       /\ jobs[j].phase \in {"deposited"} \cup Reserved("conversion") =>
            [ref |-> jobs[j].deposit, kind |-> "deposit", job |-> j] \in evidence
       /\ jobs[j].phase \in {"converted"} \cup Reserved("gift") =>
            [ref |-> jobs[j].conversion, kind |-> "conversion", job |-> j] \in evidence
  /\ \A e, f \in evidence : e.kind = f.kind => (e.ref = f.ref <=> e.job = f.job)

\* Completed jobs, receipts and closed reservations are the same jobs, each
\* closed at what the issuer charged, within its budget; no receipt serves two.
SettledOnce ==
  /\ \A j \in Native :
       /\ jobs[j].phase = "completed" <=> \E r \in receipts : r.job = j
       /\ jobs[j].phase = "completed" =>
            /\ reservation[j].completedAt # None
            /\ reservation[j].cents = charge[j]
            /\ charge[j] \in 1 .. jobs[j].net
  /\ \A r, s \in receipts : r.ref = s.ref <=> r.job = s.job

\* What the evidence pays for is settled, and what is settled was paid for: every
\* phase of a job rests on a reference, an order and a receipt of its own.
Proved == EvidenceBacked /\ SettledOnce

\* docs/security.md: "Durable ... card charge and receipt identities prevent
\* repeated credit": a completed job's receipt is recorded.
ReceiptIsDurable ==
  \A j \in Native : jobs[j].phase = "completed" => \E r \in receipts : r.job = j

-----------------------------------------------------------------------------
\* Scheduling: runOnce is started again and again, and every await ends,
\* adapters being bounded by timeouts.
FairSpec == Spec /\ \A w \in Workers : WF_vars(WorkerStep(w))

\* Held jobs never keep a later one from its turn, however small the batch.
NoStarvation == \A j \in Native : jobs[j].phase = "claimed" ~> jobs[j].phase # "claimed"

\* An outside that in the end answers what it is asked often enough.
Providers ==
  /\ \A w \in Workers :
       /\ SF_vars(FundingProof(w)) /\ SF_vars(Live(w)) /\ SF_vars(ObserveCard(w))
       /\ SF_vars(Complete(w))
  /\ \A j \in Jobs : WF_vars(Charge(j))

\* A worker died between committing a gift's reservation and asking for it.
Stranded(j) ==
  /\ jobs[j].phase = "gifting" /\ calls[j]["gift"] = 0
  /\ \A w \in Workers : ~(pc[w] = "call" /\ cur[w].id = j)

\* A converted lot whose net value no gift may have is held for ever.
OutsideLimits(j) == jobs[j].phase = "converted" /\ ~InLimits(jobs[j])

\* With such an outside every lot is gifted in the end, or stranded in the one
\* window in which the coordinator, by design, will not ask again, or held because
\* its conversion brought too little or too much for a gift.
EveryLotSettles ==
  Providers => \A j \in Native :
    jobs[j].phase = "claimed" ~>
      jobs[j].phase = "completed" \/ Stranded(j) \/ OutsideLimits(j)

-----------------------------------------------------------------------------
\* What a card holder is promised, with the issuer's books in full view.
Promise == INSTANCE CardPromise WITH
  stage <- [j \in Jobs |->
              IF reservation[j] = None THEN "open"
              ELSE IF jobs[j].phase = "completed" THEN "settled"
              ELSE IF charge[j] > 0 THEN "charged" ELSE "committed"],
  allowance <- [j \in Jobs |->
              IF reservation[j] = None THEN None
              ELSE [card |-> reservation[j].card, cents |-> reservation[j].cents]],
  spent <- charge,
  credit <- avail

\* Reserving against old observations, crashing and racing included, the
\* pipeline does only what the promise allows.
KeepsPromise == Promise!Spec
=============================================================================

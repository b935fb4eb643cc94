--------------------------- MODULE PipelineProofs ---------------------------
(***************************************************************************)
(* What holds of Pipeline for every number of jobs, workers, cards, faults  *)
(* and every batch size: its types; that no race, stale snapshot, crash or  *)
(* retry makes an adapter call twice or before its phase is committed; that *)
(* money moves on recorded evidence alone; that no card is promised to more *)
(* gifts than it can pay for; and that Pipeline implements CardPromise.     *)
(***************************************************************************)
EXTENDS Pipeline, FiniteSetTheorems, WellFoundedInduction, TLAPS

\* The phases a row may be in where run() stands, after the switch.
PhasesAt(label) ==
  CASE label = "begin" -> {"claimed", "deposited"}
    [] label \in {"call", "await", "ask"} -> {"depositing", "converting", "gifting"}
    [] label \in {"insert", "credit"} -> {"depositing", "converting"}
    [] label \in {"live", "card", "reserve"} -> {"converted"}
    [] OTHER -> Phases

\* A worker past the switch holds a row it may handle there, and what the
\* adapters answered.
Placed ==
  \A w \in Workers :
    /\ pc[w] # "next" => /\ cur[w] # None
                         /\ cur[w].row.phase \in PhasesAt(pc[w])
    /\ pc[w] \in {"insert", "credit"} => proof[w] # None
    /\ pc[w] = "reserve" => seen[w] # None
    /\ \A s \in batch[w] : s.row.phase \notin {"absent", "completed"}

\* A snapshot is of a recorded row, never ahead of it, and equal to it while
\* the revision has not moved: what makes the compare-and-swap sound.
Agrees(s, rows) ==
  /\ rows[s.id].phase # "absent"
  /\ s.row.revision <= rows[s.id].revision
  /\ s.row.revision = rows[s.id].revision => s.row = rows[s.id]

Snapshots ==
  \A w \in Workers :
    /\ cur[w] # None => Agrees(cur[w], jobs)
    /\ \A s \in batch[w] : Agrees(s, jobs)

Effect(w) == EffectOf(cur[w].row.phase)

\* A worker about to call is the only one about to make that call, it has not
\* been made, and its reservation is committed.
SoleCaller ==
  \A w \in Workers : pc[w] = "call" =>
    /\ calls[cur[w].id][Effect(w)] = 0
    /\ jobs[cur[w].id].phase \in Reserved(Effect(w))
    /\ Effect(w) = "gift" => reservation[cur[w].id] # None
    /\ \A v \in Workers :
         v # w /\ pc[v] = "call" /\ cur[v].id = cur[w].id => Effect(v) # Effect(w)

\* The issuer only charges gifts that were asked for.
ChargedIsCalled == \A j \in Jobs : charge[j] > 0 => calls[j]["gift"] > 0

IInv == /\ TypeOK
        /\ Placed
        /\ Snapshots
        /\ SoleCaller
        /\ CommittedBeforeCall
        /\ AtMostOneCall
        /\ ChargedIsCalled

LEMMA InitIInv == Init => IInv
  <1> SUFFICES ASSUME Init PROVE IInv
    OBVIOUS
  <1> USE DEF Init
  <1>1. TypeOK
    <2>1. Cardinality(Historical) \in Nat
      BY PipelineAssumption, FS_Subset, FS_CardinalityType
    <2>2. jobs \in [Jobs -> Row]
      <3>1. \A p \in Phases : NewRow(p) \in Row
        BY DEF NewRow, Row
      <3>2. QED
        BY <3>1
    <2>3. rowid \in [Jobs -> Nat]
      BY <2>1
    <2>4. calls \in [Jobs -> [Effects -> Nat]]
      OBVIOUS
    <2>5. avail \in [Cards -> Int]
      BY PipelineAssumption
    <2>6. QED
      BY <2>2, <2>3, <2>4, <2>5 DEF TypeOK
  <1>2. Placed
    BY DEF Placed, PhasesAt
  <1>3. Snapshots
    BY DEF Snapshots
  <1>4. SoleCaller
    BY DEF SoleCaller
  <1>5. CommittedBeforeCall
    BY DEF CommittedBeforeCall
  <1>6. AtMostOneCall
    BY DEF AtMostOneCall
  <1>7. ChargedIsCalled
    BY DEF ChargedIsCalled
  <1>8. QED
    BY <1>1, <1>2, <1>3, <1>4, <1>5, <1>6, <1>7 DEF IInv

-----------------------------------------------------------------------------
\* What a save does to the table.

LEMMA SavedRow ==
  ASSUME TypeOK, NEW w \in Workers, cur[w] \in Snapshot, NEW row \in Row,
         row.revision = cur[w].row.revision
  PROVE  /\ Saved(w, row) \in [Jobs -> Row]
         /\ Saved(w, row)[cur[w].id] = [row EXCEPT !.revision = @ + 1]
         /\ \A j \in Jobs : j # cur[w].id => Saved(w, row)[j] = jobs[j]
  <1>1. [row EXCEPT !.revision = @ + 1] \in Row
    BY DEF Row
  <1>2. cur[w].id \in Jobs
    BY DEF Snapshot
  <1>3. QED
    BY <1>1, <1>2 DEF Saved, TypeOK

LEMMA AdvancedRow ==
  ASSUME NEW row \in Row, row.phase \notin {"absent", "completed"}
  PROVE  /\ Advanced(row) \in Row
         /\ Advanced(row).revision = row.revision
         /\ Advanced(row).phase = After(row.phase)
  <1>1. After(row.phase) \in Phases
    BY DEF After, Row, Phases
  <1>2. QED
    BY <1>1 DEF Advanced, Row

\* The rows a worker saves: its own with an issue, as it is, or advanced.
LEMMA HeldRow ==
  ASSUME NEW row \in Row
  PROVE  /\ [row EXCEPT !.issue = TRUE] \in Row
         /\ [row EXCEPT !.issue = TRUE].revision = row.revision
         /\ [row EXCEPT !.issue = TRUE].phase = row.phase
  BY DEF Row

LEMMA CreditedRow ==
  ASSUME IInv, NEW w \in Workers, pc[w] = "credit"
  PROVE  /\ Credited(w) \in Row
         /\ Credited(w).revision = cur[w].row.revision
         /\ Credited(w).phase = After(cur[w].row.phase)
  <1>1. /\ cur[w].row \in Row /\ cur[w].row.phase \in {"depositing", "converting"}
        /\ proof[w] \in Proof
    BY DEF IInv, Placed, PhasesAt, TypeOK, Snapshot
  <1>2. CASE cur[w].row.phase = "depositing"
    <2> DEFINE paid == [cur[w].row EXCEPT !.deposit = proof[w].ref]
    <2>1. paid \in Row /\ paid.revision = cur[w].row.revision /\ paid.phase = cur[w].row.phase
      BY <1>1 DEF Row, Proof
    <2>2. Credited(w) = Advanced(paid)
      BY <1>2 DEF Credited
    <2> HIDE DEF paid
    <2>3. QED
      BY <1>1, <2>1, <2>2, AdvancedRow
  <1>3. CASE cur[w].row.phase = "converting"
    <2> DEFINE paid == [cur[w].row EXCEPT !.conversion = proof[w].ref, !.net = proof[w].net]
    <2>1. paid \in Row /\ paid.revision = cur[w].row.revision /\ paid.phase = cur[w].row.phase
      BY <1>1 DEF Row, Proof
    <2>2. Credited(w) = Advanced(paid)
      BY <1>3 DEF Credited
    <2> HIDE DEF paid
    <2>3. QED
      BY <1>1, <2>1, <2>2, AdvancedRow
  <1>4. QED
    BY <1>1, <1>2, <1>3

LEMMA GiftingRow ==
  ASSUME IInv, NEW w \in Workers, pc[w] = "reserve"
  PROVE  LET row == [Advanced(cur[w].row) EXCEPT !.card = seen[w].card] IN
         /\ row \in Row
         /\ row.revision = cur[w].row.revision
         /\ row.phase = "gifting"
  <1>1. /\ cur[w].row \in Row /\ cur[w].row.phase = "converted"
        /\ seen[w] \in Observation
    BY DEF IInv, Placed, PhasesAt, TypeOK, Snapshot
  <1>2. /\ Advanced(cur[w].row) \in Row
        /\ Advanced(cur[w].row).revision = cur[w].row.revision
        /\ Advanced(cur[w].row).phase = "gifting"
    BY <1>1, AdvancedRow DEF After
  <1>3. QED
    BY <1>1, <1>2 DEF Row, Observation

-----------------------------------------------------------------------------
\* How the table may change in a step: a row stays, is inserted, or is written
\* at a higher revision without taking back what its phase reserves.
Grows ==
  \A j \in Jobs :
    \/ jobs'[j] = jobs[j]
    \/ jobs[j].phase = "absent" /\ jobs'[j].phase = "claimed"
    \/ /\ jobs'[j].revision > jobs[j].revision
       /\ jobs'[j].phase # "absent"
       /\ \A e \in Effects : jobs[j].phase \in Reserved(e) => jobs'[j].phase \in Reserved(e)

LEMMA AfterReserves ==
  ASSUME NEW p \in Phases, p \notin {"absent", "completed"}
  PROVE  /\ After(p) # "absent"
         /\ \A e \in Effects : p \in Reserved(e) => After(p) \in Reserved(e)
  <1>1. After(p) # "absent"
    BY DEF After, Phases
  <1>2. p \in Reserved("deposit") => After(p) \in Reserved("deposit")
    BY DEF After, Phases, Reserved
  <1>3. p \in Reserved("conversion") => After(p) \in Reserved("conversion")
    BY DEF After, Phases, Reserved
  <1>4. p \in Reserved("gift") => After(p) \in Reserved("gift")
    BY DEF After, Phases, Reserved
  <1>5. QED
    BY <1>1, <1>2, <1>3, <1>4 DEF Effects

LEMMA SaveGrows ==
  ASSUME IInv, NEW w \in Workers, cur[w] # None,
         NEW row \in Row, row.revision = cur[w].row.revision,
         \/ row.phase = cur[w].row.phase
         \/ /\ cur[w].row.phase \notin {"absent", "completed"}
            /\ row.phase = After(cur[w].row.phase),
         Save(w, row)
  PROVE  jobs' \in [Jobs -> Row] /\ Grows
  <1>1. TypeOK /\ cur[w] \in Snapshot /\ cur[w].row \in Row /\ cur[w].id \in Jobs
    BY DEF IInv, TypeOK, Snapshot
  <1>2. CASE ~CanSave(w)
    BY <1>1, <1>2 DEF Save, Grows, TypeOK
  <1>3. CASE CanSave(w)
    <2>1. cur[w].row = jobs[cur[w].id] /\ jobs[cur[w].id].phase # "absent"
      BY <1>3 DEF CanSave, IInv, Snapshots, Agrees
    <2>2. jobs' = Saved(w, row)
      BY <1>3 DEF Save
    <2>3. /\ jobs' \in [Jobs -> Row]
          /\ jobs'[cur[w].id] = [row EXCEPT !.revision = @ + 1]
          /\ \A j \in Jobs : j # cur[w].id => jobs'[j] = jobs[j]
      BY <1>1, <2>2, SavedRow
    <2>4. /\ jobs'[cur[w].id].phase = row.phase
          /\ jobs'[cur[w].id].revision > jobs[cur[w].id].revision
      BY <1>1, <2>1, <2>3 DEF Row
    <2>5. cur[w].row.phase \in Phases
      BY <1>1 DEF Row
    <2>6. /\ row.phase # "absent"
          /\ \A e \in Effects : cur[w].row.phase \in Reserved(e) => row.phase \in Reserved(e)
      BY <2>1, <2>5, AfterReserves
    <2>7. QED
      BY <2>1, <2>3, <2>4, <2>6 DEF Grows
  <1>4. QED
    BY <1>2, <1>3

LEMMA RowsStep ==
  ASSUME IInv, [Next]_vars
  PROVE  jobs' \in [Jobs -> Row] /\ Grows
  <1> USE DEF IInv
  <1>1. ASSUME UNCHANGED jobs PROVE jobs' \in [Jobs -> Row] /\ Grows
    BY <1>1 DEF TypeOK, Grows
  <1>2. ASSUME NEW w \in Workers, cur[w] # None, Catch(w)
        PROVE  jobs' \in [Jobs -> Row] /\ Grows
    <2>1. cur[w].row \in Row
      BY <1>2 DEF TypeOK, Snapshot
    <2>2. Save(w, [cur[w].row EXCEPT !.issue = TRUE])
      BY <1>2 DEF Catch
    <2>3. QED
      BY <1>2, <2>1, <2>2, HeldRow, SaveGrows
  <1>3. ASSUME NEW j \in Jobs, RecordClaim(j) PROVE jobs' \in [Jobs -> Row] /\ Grows
    <2>1. NewRow("claimed") \in Row /\ NewRow("claimed").phase = "claimed"
      BY DEF NewRow, Row, Phases
    <2>2. QED
      BY <1>3, <2>1 DEF RecordClaim, TypeOK, Grows
  <1>4. ASSUME NEW w \in Workers, WorkerStep(w) PROVE jobs' \in [Jobs -> Row] /\ Grows
    <2>1. CASE StartRun(w) \/ TakeRow(w) \/ Call(w) \/ NotYet(w) \/ FundingProof(w)
               \/ Live(w) \/ ObserveCard(w) \/ ReserveRefused(w)
      BY <2>1, <1>1 DEF StartRun, TakeRow, Call, NotYet, FundingProof, Live, ObserveCard,
                        ReserveRefused, table
    <2>2. CASE HoldHistorical(w)
      <3>1. cur[w] # None /\ cur[w].row \in Row
        BY <2>2 DEF HoldHistorical, Placed, TypeOK, Snapshot
      <3>2. CASE cur[w].row.issue
        BY <2>2, <3>2, <1>1 DEF HoldHistorical
      <3>3. CASE ~cur[w].row.issue
        BY <2>2, <3>1, <3>3, HeldRow, SaveGrows DEF HoldHistorical
      <3>4. QED
        BY <3>2, <3>3
    <2>3. CASE Begin(w)
      <3>1. cur[w] # None /\ cur[w].row \in Row /\ cur[w].row.phase \in {"claimed", "deposited"}
        BY <2>3 DEF Begin, Placed, PhasesAt, TypeOK, Snapshot
      <3>2. Save(w, Advanced(cur[w].row))
        BY <2>3 DEF Begin, Save
      <3>3. QED
        BY <3>1, <3>2, AdvancedRow, SaveGrows
    <2>4. CASE Returned(w)
      <3>1. cur[w] # None /\ cur[w].row \in Row
        BY <2>4 DEF Returned, Placed, TypeOK, Snapshot
      <3>2. QED
        BY <2>4, <3>1, SaveGrows DEF Returned
    <2>5. CASE Threw(w)
      <3>1. cur[w] # None
        BY <2>5 DEF Threw, Placed
      <3>2. QED
        BY <2>5, <3>1, <1>2 DEF Threw
    <2>6. CASE InsertEvidence(w)
      <3>1. cur[w] # None
        BY <2>6 DEF InsertEvidence, Placed
      <3>2. QED
        BY <2>6, <3>1, <1>1, <1>2 DEF InsertEvidence
    <2>7. CASE SaveCredited(w)
      <3>1. cur[w] # None /\ cur[w].row.phase \in {"depositing", "converting"}
        BY <2>7 DEF SaveCredited, Placed, PhasesAt
      <3>2. QED
        BY <2>7, <3>1, CreditedRow, SaveGrows DEF SaveCredited
    <2>8. CASE Reserve(w)
      <3> DEFINE row == [Advanced(cur[w].row) EXCEPT !.card = seen[w].card]
      <3>1. cur[w] # None /\ cur[w].row.phase = "converted"
        BY <2>8 DEF Reserve, Placed, PhasesAt
      <3>2. row \in Row /\ row.revision = cur[w].row.revision /\ row.phase = After(cur[w].row.phase)
        BY <2>8, <3>1, GiftingRow DEF Reserve, After
      <3>3. Save(w, row)
        BY <2>8 DEF Reserve, Save
      <3> HIDE DEF row
      <3>4. QED
        BY <3>1, <3>2, <3>3, SaveGrows
    <2>9. CASE Complete(w)
      <3> DEFINE row == [cur[w].row EXCEPT !.phase = "completed"]
      <3>1. cur[w] # None /\ cur[w].row.phase = "gifting" /\ cur[w].row \in Row
        BY <2>9 DEF Complete, Placed, TypeOK, Snapshot
      <3>2. row \in Row /\ row.revision = cur[w].row.revision /\ row.phase = After(cur[w].row.phase)
        BY <3>1 DEF Row, Phases, After
      <3>3. Save(w, row)
        BY <2>9 DEF Complete, Save
      <3> HIDE DEF row
      <3>4. QED
        BY <3>1, <3>2, <3>3, SaveGrows
    <2>10. CASE ReceiptRefused(w)
      <3>1. cur[w] # None
        BY <2>10 DEF ReceiptRefused, Placed
      <3>2. QED
        BY <2>10, <3>1, <1>1, <1>2 DEF ReceiptRefused
    <2>11. QED
      BY <1>4, <2>1, <2>2, <2>3, <2>4, <2>5, <2>6, <2>7, <2>8, <2>9, <2>10 DEF WorkerStep
  <1>5. CASE \/ \E j \in Jobs : Charge(j)
             \/ \E w \in Workers : Crash(w)
             \/ Tick \/ UNCHANGED vars
    BY <1>5, <1>1 DEF Charge, Crash, Tick, vars, table
  <1>6. QED
    BY <1>3, <1>4, <1>5 DEF Next

-----------------------------------------------------------------------------
\* What a step does to the workers: types, places and snapshots.
LocalTypes ==
  /\ pc \in [Workers -> {"next", "hold", "begin", "call", "await", "ask", "insert",
                         "credit", "live", "card", "reserve"}]
  /\ batch \in [Workers -> SUBSET Queued]
  /\ cur \in [Workers -> Snapshot \cup {None}]
  /\ proof \in [Workers -> Proof \cup {None}]
  /\ seen \in [Workers -> Observation \cup {None}]

LocalOK == LocalTypes /\ Placed /\ Snapshots

LEMMA AgreesKept ==
  ASSUME IInv, [Next]_vars
  PROVE  \A s \in Snapshot \cup Queued : Agrees(s, jobs) => Agrees(s, jobs')
  <1>1. jobs \in [Jobs -> Row] /\ jobs' \in [Jobs -> Row] /\ Grows
    BY RowsStep DEF IInv, TypeOK
  <1>2. SUFFICES ASSUME NEW s \in Snapshot \cup Queued, Agrees(s, jobs)
                 PROVE  Agrees(s, jobs')
    OBVIOUS
  <1>3. s.id \in Jobs /\ s.row \in Row
    BY DEF Snapshot, Queued
  <1>4. jobs[s.id] \in Row /\ jobs'[s.id] \in Row
    BY <1>1, <1>3
  <1>5. s.row.revision \in Nat /\ jobs[s.id].revision \in Nat /\ jobs'[s.id].revision \in Nat
    BY <1>3, <1>4 DEF Row
  <1>6. CASE jobs'[s.id] = jobs[s.id]
    BY <1>2, <1>6 DEF Agrees
  <1>7. CASE jobs'[s.id].revision > jobs[s.id].revision /\ jobs'[s.id].phase # "absent"
    BY <1>2, <1>5, <1>7 DEF Agrees
  <1>8. QED
    BY <1>1, <1>2, <1>3, <1>6, <1>7 DEF Grows, Agrees

\* Only worker w moves.
Moves(w) ==
  /\ pc' = [pc EXCEPT ![w] = pc'[w]]
  /\ batch' = [batch EXCEPT ![w] = batch'[w]]
  /\ cur' = [cur EXCEPT ![w] = cur'[w]]
  /\ proof' = [proof EXCEPT ![w] = proof'[w]]
  /\ seen' = [seen EXCEPT ![w] = seen'[w]]

\* Workers that do not move stay well placed.
LEMMA OthersKept ==
  ASSUME IInv, [Next]_vars, NEW w \in Workers,
         Moves(w),
         pc'[w] \in {"next", "hold", "begin", "call", "await", "ask", "insert",
                    "credit", "live", "card", "reserve"},
         batch'[w] \subseteq batch[w],
         cur'[w] \in Snapshot \cup {None},
         proof'[w] \in Proof \cup {None},
         seen'[w] \in Observation \cup {None},
         pc'[w] # "next" => cur'[w] # None /\ cur'[w].row.phase \in PhasesAt(pc'[w]),
         pc'[w] \in {"insert", "credit"} => proof'[w] # None,
         pc'[w] = "reserve" => seen'[w] # None,
         cur'[w] # None => Agrees(cur'[w], jobs')
  PROVE  LocalOK'
  <1> USE DEF IInv, Moves
  <1>1. LocalTypes'
    BY DEF TypeOK, LocalTypes
  <1>2. Placed'
    <2>1. SUFFICES ASSUME NEW v \in Workers
                   PROVE  /\ pc'[v] # "next" => /\ cur'[v] # None
                                                /\ cur'[v].row.phase \in PhasesAt(pc'[v])
                          /\ pc'[v] \in {"insert", "credit"} => proof'[v] # None
                          /\ pc'[v] = "reserve" => seen'[v] # None
                          /\ \A s \in batch'[v] : s.row.phase \notin {"absent", "completed"}
      BY DEF Placed, PhasesAt
    <2>2. CASE v = w
      BY <2>2 DEF Placed
    <2>3. CASE v # w
      <3>1. /\ pc'[v] = pc[v] /\ cur'[v] = cur[v] /\ proof'[v] = proof[v]
            /\ seen'[v] = seen[v] /\ batch'[v] = batch[v]
        BY <2>3 DEF TypeOK
      <3>2. QED
        BY <3>1 DEF Placed
    <2>4. QED
      BY <2>2, <2>3
  <1>3. Snapshots'
    <2>1. SUFFICES ASSUME NEW v \in Workers
                   PROVE  /\ cur'[v] # None => Agrees(cur'[v], jobs')
                          /\ \A s \in batch'[v] : Agrees(s, jobs')
      BY DEF Snapshots, Agrees
    <2>2. CASE v = w
      <3>1. batch[w] \subseteq Queued /\ \A s \in batch[w] : Agrees(s, jobs)
        BY DEF TypeOK, Snapshots
      <3>2. QED
        BY <2>2, <3>1, AgreesKept
    <2>3. CASE v # w
      <3>1. cur'[v] = cur[v] /\ batch'[v] = batch[v]
        BY <2>3 DEF TypeOK
      <3>2. cur[v] \in Snapshot \cup {None} /\ batch[v] \subseteq Queued
        BY DEF TypeOK
      <3>3. QED
        BY <3>1, <3>2, AgreesKept DEF Snapshots
    <2>4. QED
      BY <2>2, <2>3
  <1>4. QED
    BY <1>1, <1>2, <1>3 DEF LocalOK

LEMMA LeaveLocal ==
  ASSUME IInv, [Next]_vars, NEW w \in Workers, Leave(w)
  PROVE  LocalOK'
  <1>1. pc'[w] = "next" /\ batch'[w] = batch[w] /\ cur'[w] = None /\ proof'[w] = None
        /\ seen'[w] = None
    BY DEF Leave, Goto, IInv, TypeOK
  <1>2. Moves(w)
    BY <1>1 DEF Leave, Goto, IInv, TypeOK, Moves
  <1>3. QED
    BY <1>1, <1>2, OthersKept

LEMMA StartRunLocal ==
  ASSUME IInv, NEW w \in Workers, StartRun(w)
  PROVE  LocalOK'
  <1> USE DEF IInv
  <1> DEFINE rows == {[place |-> Place(cursor, j), id |-> j, row |-> jobs[j]] :
                        j \in NextBatch(cursor)}
  <1>1. \A j \in NextBatch(cursor) : /\ j \in Jobs /\ jobs[j].phase # "absent"
                                     /\ Place(cursor, j) \in Nat
    <2>1. SUFFICES ASSUME NEW j \in NextBatch(cursor)
                   PROVE  /\ j \in Jobs /\ jobs[j].phase # "absent"
                          /\ Place(cursor, j) \in Nat
      OBVIOUS
    <2>2. j \in Unfinished /\ j \in Jobs /\ jobs[j].phase # "absent"
      BY DEF NextBatch, Unfinished
    <2>3. {k \in Unfinished : Turn(cursor, k) < Turn(cursor, j)} \subseteq Jobs
      BY DEF Unfinished
    <2>4. QED
      BY <2>2, <2>3, PipelineAssumption, FS_Subset, FS_CardinalityType DEF Place
  <1>2. rows \subseteq Queued /\ \A s \in rows : Agrees(s, jobs)
    <2>1. \A j \in Jobs : jobs[j] \in Row /\ jobs[j].revision \in Nat
      BY DEF TypeOK, Row
    <2>2. QED
      BY <1>1, <2>1 DEF Queued, Agrees
  <1>3. batch' = [batch EXCEPT ![w] = rows]
    BY DEF StartRun
  <1> HIDE DEF rows
  <1>4. /\ jobs' = jobs /\ pc' = pc /\ cur' = cur /\ proof' = proof /\ seen' = seen
    BY DEF StartRun
  <1>5. LocalTypes'
    BY <1>2, <1>3, <1>4 DEF TypeOK, LocalTypes
  <1>6. Placed'
    <2>1. \A s \in rows : s.row.phase \notin {"absent", "completed"}
      BY DEF rows, NextBatch, Unfinished
    <2>2. \A v \in Workers : batch'[v] = rows \/ batch'[v] = batch[v]
      BY <1>3 DEF TypeOK
    <2>3. QED
      BY <1>4, <2>1, <2>2 DEF Placed, PhasesAt
  <1>7. Snapshots'
    <2>1. SUFFICES ASSUME NEW v \in Workers
                   PROVE  /\ cur[v] # None => Agrees(cur[v], jobs)
                          /\ \A s \in batch'[v] : Agrees(s, jobs)
      BY <1>4 DEF Snapshots, Agrees
    <2>2. batch'[v] = rows \/ batch'[v] = batch[v]
      BY <1>3 DEF TypeOK
    <2>3. QED
      BY <1>2, <2>2 DEF Snapshots
  <1>8. QED
    BY <1>5, <1>6, <1>7 DEF LocalOK

\* The shapes of the steps that do not let go of the row.
LEMMA GotoLocal ==
  ASSUME IInv, [Next]_vars, NEW w \in Workers, NEW label,
         label \in {"call", "await", "insert", "credit", "card", "reserve"},
         pc[w] # "next",
         Goto(w, label),
         cur[w].row.phase \in PhasesAt(label),
         UNCHANGED cur,
         proof' = [proof EXCEPT ![w] = proof'[w]], proof'[w] \in Proof \cup {None},
         label \in {"insert", "credit"} => proof'[w] # None,
         seen' = [seen EXCEPT ![w] = seen'[w]], seen'[w] \in Observation \cup {None},
         label = "reserve" => seen'[w] # None
  PROVE  LocalOK'
  <1> USE DEF IInv
  <1>1. pc'[w] = label /\ batch'[w] = batch[w] /\ cur'[w] = cur[w]
    BY DEF Goto, TypeOK
  <1>2. Moves(w)
    BY <1>1 DEF Goto, TypeOK, Moves
  <1>3. cur[w] \in Snapshot /\ cur[w] # None /\ Agrees(cur[w], jobs)
    BY DEF TypeOK, Placed, Snapshots
  <1>4. Agrees(cur'[w], jobs')
    BY <1>1, <1>3, AgreesKept
  <1>5. QED
    BY <1>1, <1>2, <1>3, <1>4, OthersKept

\* A save that keeps the row: the worker then holds exactly what it wrote.
LEMMA SavedLocal ==
  ASSUME IInv, [Next]_vars, NEW w \in Workers, cur[w] \in Snapshot, NEW row \in Row,
         row.revision = cur[w].row.revision,
         row.phase \in {"depositing", "converting", "gifting"},
         jobs' = Saved(w, row),
         cur' = [cur EXCEPT ![w].row = [row EXCEPT !.revision = @ + 1]],
         Goto(w, "call"),
         UNCHANGED proof,
         seen' = [seen EXCEPT ![w] = seen'[w]], seen'[w] \in Observation \cup {None}
  PROVE  LocalOK'
  <1> USE DEF IInv
  <1> DEFINE saved == [row EXCEPT !.revision = @ + 1]
  <1>1. saved \in Row /\ saved.phase = row.phase /\ saved.revision = row.revision + 1
    BY DEF Row
  <1>2. cur'[w] = [cur[w] EXCEPT !.row = saved]
    BY DEF TypeOK
  <1>3. jobs'[cur[w].id] = saved
    BY SavedRow
  <1> HIDE DEF saved
  <1>4. cur'[w] \in Snapshot /\ cur'[w].id = cur[w].id /\ cur'[w].row = saved
    BY <1>1, <1>2 DEF Snapshot
  <1>5. Agrees(cur'[w], jobs')
    <2>1. row.revision \in Nat
      BY DEF Row
    <2>2. QED
      BY <1>1, <1>3, <1>4, <2>1 DEF Agrees
  <1>6. pc'[w] = "call" /\ batch'[w] = batch[w] /\ proof'[w] = proof[w]
    BY DEF Goto, TypeOK
  <1>7. Moves(w)
    BY <1>2, <1>6 DEF Goto, TypeOK, Moves
  <1>8. cur'[w].row.phase \in PhasesAt("call") /\ cur'[w] # None
    BY <1>1, <1>4, NoneAssumption DEF PhasesAt
  <1>9. QED
    BY <1>4, <1>5, <1>6, <1>7, <1>8, OthersKept DEF TypeOK

LEMMA TakeRowLocal ==
  ASSUME IInv, [Next]_vars, NEW w \in Workers, TakeRow(w)
  PROVE  LocalOK'
  <1> USE DEF IInv
  <1>1. PICK s \in batch[w] :
          /\ batch' = [batch EXCEPT ![w] = @ \ {s}]
          /\ pc' = [pc EXCEPT ![w] = Dispatch(s)]
          /\ cur' = [cur EXCEPT ![w] =
                       IF Dispatch(s) = "next" THEN None ELSE [id |-> s.id, row |-> s.row]]
          /\ proof' = proof /\ seen' = seen /\ pc[w] = "next"
    BY DEF TakeRow
  <1> DEFINE held == [id |-> s.id, row |-> s.row]
  <1>2. s \in Queued /\ Agrees(s, jobs)
    BY DEF TypeOK, Snapshots
  <1>3. held \in Snapshot /\ Agrees(held, jobs')
    BY <1>2, AgreesKept DEF Queued, Snapshot, Agrees
  <1>4. s.row.phase \in Phases \ {"absent", "completed"}
    BY <1>2 DEF Queued, Row, Placed
  <1>5. /\ Dispatch(s) \in {"hold", "begin", "ask", "live", "next"}
        /\ s.row.phase \in PhasesAt(Dispatch(s))
    BY <1>4 DEF Dispatch, PhasesAt, Phases
  <1>6. held # None /\ held.row = s.row
    BY <1>3, NoneAssumption
  <1>7. /\ pc'[w] = Dispatch(s) /\ batch'[w] \subseteq batch[w]
        /\ cur'[w] = IF Dispatch(s) = "next" THEN None ELSE held
        /\ proof'[w] = proof[w] /\ seen'[w] = seen[w]
    BY <1>1 DEF TypeOK
  <1>8. Moves(w)
    BY <1>1, <1>7 DEF Moves, TypeOK
  <1> HIDE DEF held
  <1>9. /\ cur'[w] \in Snapshot \cup {None}
        /\ proof'[w] \in Proof \cup {None} /\ seen'[w] \in Observation \cup {None}
    BY <1>3, <1>7 DEF TypeOK
  <1>10. pc'[w] # "next" => cur'[w] # None /\ cur'[w].row.phase \in PhasesAt(pc'[w])
    BY <1>5, <1>6, <1>7
  <1>11. cur'[w] # None => Agrees(cur'[w], jobs')
    BY <1>3, <1>7
  <1>12. QED
    BY <1>5, <1>7, <1>8, <1>9, <1>10, <1>11, OthersKept

LEMMA LocalStep ==
  ASSUME IInv, [Next]_vars
  PROVE  LocalOK'
  <1> USE DEF IInv
  <1>1. ASSUME UNCHANGED local PROVE LocalOK'
    <2>1. LocalTypes'
      BY <1>1 DEF local, TypeOK, LocalTypes
    <2>2. Placed'
      BY <1>1 DEF local, Placed, PhasesAt
    <2>3. \A w \in Workers : cur[w] \in Snapshot \cup {None} /\ batch[w] \subseteq Queued
      BY DEF TypeOK
    <2>4. Snapshots'
      <3>1. SUFFICES ASSUME NEW w \in Workers
                     PROVE  /\ cur[w] # None => Agrees(cur[w], jobs')
                            /\ \A s \in batch[w] : Agrees(s, jobs')
        BY <1>1 DEF local, Snapshots, Agrees
      <3>2. QED
        BY <2>3, AgreesKept DEF Snapshots
    <2>5. QED
      BY <2>1, <2>2, <2>4 DEF LocalOK
  <1>2. ASSUME NEW w \in Workers, WorkerStep(w) PROVE LocalOK'
    <2>1. ASSUME Leave(w) PROVE LocalOK'
      BY <2>1, LeaveLocal
    <2>2. CASE StartRun(w)
      BY <2>2, StartRunLocal
    <2>3. CASE TakeRow(w)
      BY <2>3, TakeRowLocal
    <2>4. CASE HoldHistorical(w) \/ Returned(w) \/ Threw(w) \/ NotYet(w) \/ SaveCredited(w)
               \/ ReserveRefused(w) \/ Complete(w) \/ ReceiptRefused(w)
      BY <2>1, <2>4 DEF HoldHistorical, Returned, Threw, NotYet, SaveCredited,
                        ReserveRefused, Complete, ReceiptRefused, Catch
    <2>5. CASE Begin(w)
      <3>1. cur[w] \in Snapshot /\ cur[w].row \in Row
            /\ cur[w].row.phase \in {"claimed", "deposited"}
        BY <2>5 DEF Begin, Placed, PhasesAt, TypeOK, Snapshot
      <3>2. CASE CanSave(w)
        <4> DEFINE row == Advanced(cur[w].row)
        <4>1. /\ row \in Row /\ row.revision = cur[w].row.revision
              /\ row.phase \in {"depositing", "converting", "gifting"}
          BY <3>1, AdvancedRow DEF After
        <4>2. /\ jobs' = Saved(w, row) /\ Goto(w, "call") /\ UNCHANGED <<proof, seen>>
              /\ cur' = [cur EXCEPT ![w].row = [row EXCEPT !.revision = @ + 1]]
          BY <2>5, <3>2 DEF Begin
        <4>3. seen' = [seen EXCEPT ![w] = seen'[w]] /\ seen'[w] \in Observation \cup {None}
          BY <4>2 DEF TypeOK
        <4> HIDE DEF row
        <4>4. QED
          BY <3>1, <4>1, <4>2, <4>3, SavedLocal
      <3>3. CASE ~CanSave(w)
        BY <2>1, <2>5, <3>3 DEF Begin
      <3>4. QED
        BY <3>2, <3>3
    <2>6. CASE Call(w) \/ Live(w)
      <3>1. UNCHANGED <<cur, proof, seen>>
        BY <2>6 DEF Call, Live
      <3>2. /\ proof' = [proof EXCEPT ![w] = proof'[w]] /\ proof'[w] \in Proof \cup {None}
            /\ seen' = [seen EXCEPT ![w] = seen'[w]] /\ seen'[w] \in Observation \cup {None}
        BY <3>1 DEF TypeOK
      <3>3. CASE Call(w)
        <4>1. pc[w] # "next" /\ Goto(w, "await") /\ cur[w].row.phase \in PhasesAt("await")
          BY <3>3 DEF Call, Placed, PhasesAt
        <4>2. QED
          BY <3>1, <3>2, <4>1, GotoLocal
      <3>4. CASE Live(w)
        <4>1. pc[w] # "next" /\ Goto(w, "card") /\ cur[w].row.phase \in PhasesAt("card")
          BY <3>4 DEF Live, Placed, PhasesAt
        <4>2. QED
          BY <3>1, <3>2, <4>1, GotoLocal
      <3>5. QED
        BY <2>6, <3>3, <3>4
    <2>7. CASE FundingProof(w)
      <3>1. PICK ref \in MayCite[cur[w].id], net \in Nets :
              /\ proof' = [proof EXCEPT ![w] = [ref |-> ref, net |-> net]]
              /\ Goto(w, "credit") \/ Goto(w, "insert")
        BY <2>7 DEF FundingProof
      <3>2. cur[w].id \in Jobs /\ pc[w] # "next"
            /\ cur[w].row.phase \in PhasesAt("credit") /\ cur[w].row.phase \in PhasesAt("insert")
        BY <2>7 DEF FundingProof, Placed, PhasesAt, TypeOK, Snapshot
      <3>3. [ref |-> ref, net |-> net] \in Proof
        BY <3>1, <3>2, PipelineAssumption DEF Proof
      <3>4. /\ proof' = [proof EXCEPT ![w] = proof'[w]] /\ proof'[w] \in Proof
            /\ proof'[w] # None /\ UNCHANGED <<cur, seen>>
            /\ seen' = [seen EXCEPT ![w] = seen'[w]] /\ seen'[w] \in Observation \cup {None}
        BY <2>7, <3>1, <3>3, NoneAssumption DEF FundingProof, TypeOK
      <3>5. QED
        BY <3>1, <3>2, <3>4, GotoLocal
    <2>8. CASE InsertEvidence(w)
      <3>1. CASE Catch(w)
        BY <2>1, <3>1 DEF Catch
      <3>2. CASE Goto(w, "credit") /\ UNCHANGED <<cur, proof, seen>>
        <4>1. /\ pc[w] # "next" /\ cur[w].row.phase \in PhasesAt("credit")
              /\ proof'[w] = proof[w] /\ proof[w] # None
          BY <2>8, <3>2 DEF InsertEvidence, Placed, PhasesAt
        <4>2. /\ proof' = [proof EXCEPT ![w] = proof'[w]] /\ proof'[w] \in Proof \cup {None}
              /\ seen' = [seen EXCEPT ![w] = seen'[w]] /\ seen'[w] \in Observation \cup {None}
          BY <3>2 DEF TypeOK
        <4>3. QED
          BY <3>2, <4>1, <4>2, GotoLocal
      <3>3. QED
        BY <2>8, <3>1, <3>2 DEF InsertEvidence
    <2>9. CASE ObserveCard(w)
      <3>1. PICK c \in Cards :
              seen' = [seen EXCEPT ![w] = [card |-> c, credit |-> avail[c], at |-> now]]
        BY <2>9 DEF ObserveCard
      <3>2. [card |-> c, credit |-> avail[c], at |-> now] \in Observation
        BY DEF TypeOK, Observation
      <3>3. /\ seen' = [seen EXCEPT ![w] = seen'[w]] /\ seen'[w] \in Observation
            /\ seen'[w] # None /\ UNCHANGED <<cur, proof>>
            /\ proof' = [proof EXCEPT ![w] = proof'[w]] /\ proof'[w] \in Proof \cup {None}
        BY <2>9, <3>1, <3>2, NoneAssumption DEF ObserveCard, TypeOK
      <3>4. pc[w] # "next" /\ Goto(w, "reserve") /\ cur[w].row.phase \in PhasesAt("reserve")
        BY <2>9 DEF ObserveCard, Placed, PhasesAt
      <3>5. QED
        BY <3>3, <3>4, GotoLocal
    <2>10. CASE Reserve(w)
      <3> DEFINE row == [Advanced(cur[w].row) EXCEPT !.card = seen[w].card]
      <3>1. cur[w] \in Snapshot
        BY <2>10 DEF Reserve, Placed, TypeOK
      <3>2. row \in Row /\ row.revision = cur[w].row.revision /\ row.phase = "gifting"
        BY <2>10, GiftingRow DEF Reserve
      <3>3. /\ jobs' = Saved(w, row) /\ Goto(w, "call") /\ UNCHANGED proof
            /\ cur' = [cur EXCEPT ![w].row = [row EXCEPT !.revision = @ + 1]]
            /\ seen' = [seen EXCEPT ![w] = None]
        BY <2>10 DEF Reserve
      <3> HIDE DEF row
      <3>4. seen' = [seen EXCEPT ![w] = seen'[w]] /\ seen'[w] \in Observation \cup {None}
        BY <3>3 DEF TypeOK
      <3>5. QED
        BY <3>1, <3>2, <3>3, <3>4, SavedLocal
    <2>11. QED
      BY <1>2, <2>2, <2>3, <2>4, <2>5, <2>6, <2>7, <2>8, <2>9, <2>10 DEF WorkerStep
  <1>3. ASSUME NEW w \in Workers, Crash(w) PROVE LocalOK'
    <2>1. /\ pc'[w] = "next" /\ batch'[w] = {} /\ cur'[w] = None /\ proof'[w] = None
          /\ seen'[w] = None
      BY <1>3 DEF Crash, TypeOK
    <2>2. Moves(w)
      BY <1>3, <2>1 DEF Crash, TypeOK, Moves
    <2>3. QED
      BY <2>1, <2>2, OthersKept
  <1>4. CASE \/ \E j \in Jobs : RecordClaim(j) \/ Charge(j)
             \/ Tick \/ UNCHANGED vars
    BY <1>1, <1>4 DEF RecordClaim, Charge, Tick, vars, local
  <1>5. QED
    BY <1>2, <1>3, <1>4 DEF Next

-----------------------------------------------------------------------------
\* The rest of the tables and the outside.

LEMMA ChargedIsReserved ==
  ASSUME IInv, NEW j \in Jobs, charge[j] > 0 \/ calls[j]["gift"] > 0
  PROVE  reservation[j] \in Reservation
  BY DEF IInv, TypeOK, ChargedIsCalled, CommittedBeforeCall, Effects

LEMMA ReservationStep ==
  ASSUME IInv, [Next]_vars
  PROVE  /\ reservation' \in [Jobs -> Reservation \cup {None}]
         /\ \A j \in Jobs : reservation[j] # None => reservation'[j] # None
  <1> USE DEF IInv
  <1>1. ASSUME UNCHANGED reservation
        PROVE  /\ reservation' \in [Jobs -> Reservation \cup {None}]
               /\ \A j \in Jobs : reservation[j] # None => reservation'[j] # None
    BY <1>1 DEF TypeOK
  <1>2. ASSUME NEW w \in Workers, Reserve(w)
        PROVE  /\ reservation' \in [Jobs -> Reservation \cup {None}]
               /\ \A j \in Jobs : reservation[j] # None => reservation'[j] # None
    <2>1. seen[w] \in Observation /\ cur[w].id \in Jobs /\ cur[w].row \in Row
      BY <1>2 DEF Reserve, Placed, TypeOK, Snapshot
    <2> DEFINE new == [card |-> seen[w].card, cents |-> cur[w].row.net, completedAt |-> None]
    <2>2. new \in Reservation /\ new # None
      BY <2>1, NoneAssumption DEF Reservation, Observation, Row
    <2>3. reservation' = [reservation EXCEPT ![cur[w].id] = new]
      BY <1>2 DEF Reserve
    <2> HIDE DEF new
    <2>4. QED
      BY <2>1, <2>2, <2>3 DEF TypeOK
  <1>3. ASSUME NEW w \in Workers, Complete(w)
        PROVE  /\ reservation' \in [Jobs -> Reservation \cup {None}]
               /\ \A j \in Jobs : reservation[j] # None => reservation'[j] # None
    <2>1. cur[w].id \in Jobs /\ charge[cur[w].id] > 0
      BY <1>3 DEF Complete, Placed, TypeOK, Snapshot
    <2>2. reservation[cur[w].id] \in Reservation
      BY <2>1, ChargedIsReserved
    <2> DEFINE new == [card |-> reservation[cur[w].id].card, cents |-> charge[cur[w].id],
                       completedAt |-> now]
    <2>3. new \in Reservation /\ new # None
      BY <2>1, <2>2, NoneAssumption DEF Reservation, TypeOK
    <2>4. reservation' = [reservation EXCEPT ![cur[w].id] = new]
      BY <1>3 DEF Complete
    <2> HIDE DEF new
    <2>5. QED
      BY <2>1, <2>3, <2>4 DEF TypeOK
  <1>4. ASSUME NEW w \in Workers, WorkerStep(w) \/ Crash(w), ~Reserve(w), ~Complete(w)
        PROVE  UNCHANGED reservation
    BY <1>4 DEF WorkerStep, StartRun, TakeRow, HoldHistorical, Begin, Call, Returned, Threw,
                NotYet, FundingProof, InsertEvidence, SaveCredited, Live, ObserveCard,
                ReserveRefused, ReceiptRefused, Crash, table
  <1>5. ASSUME NEW j \in Jobs, RecordClaim(j) \/ Charge(j) PROVE UNCHANGED reservation
    BY <1>5 DEF RecordClaim, Charge, table
  <1>6. ASSUME Tick \/ UNCHANGED vars PROVE UNCHANGED reservation
    BY <1>6 DEF Tick, vars, table
  <1>7. QED
    BY <1>1, <1>2, <1>3, <1>4, <1>5, <1>6 DEF Next

\* Calls are only counted by Call, and the issuer's books only moved by Charge.
LEMMA WorldStep ==
  ASSUME IInv, [Next]_vars
  PROVE  /\ calls' \in [Jobs -> [Effects -> Nat]]
         /\ charge' \in [Jobs -> Nat]
         /\ avail' \in [Cards -> Int]
         /\ CommittedBeforeCall' /\ AtMostOneCall' /\ ChargedIsCalled'
  <1> USE DEF IInv
  <1>1. ASSUME UNCHANGED calls PROVE CommittedBeforeCall' /\ AtMostOneCall'
    <2>1. Grows
      BY RowsStep
    <2>2. \A j \in Jobs, e \in Effects :
            jobs[j].phase \in Reserved(e) => jobs'[j].phase \in Reserved(e)
      BY <2>1 DEF Grows, Reserved, Effects
    <2>3. QED
      BY <1>1, <2>2, ReservationStep DEF CommittedBeforeCall, AtMostOneCall, Reserved
  <1>2. ASSUME NEW w \in Workers, Call(w)
        PROVE  /\ calls' \in [Jobs -> [Effects -> Nat]]
               /\ CommittedBeforeCall' /\ AtMostOneCall'
               /\ \A j \in Jobs : calls[j]["gift"] > 0 => calls'[j]["gift"] > 0
    <2> DEFINE id == cur[w].id
               e == EffectOf(cur[w].row.phase)
    <2>1. id \in Jobs /\ e \in Effects
      BY <1>2 DEF Call, Placed, PhasesAt, TypeOK, Snapshot, EffectOf, Effects
    <2>2. /\ calls[id][e] = 0 /\ jobs[id].phase \in Reserved(e)
          /\ e = "gift" => reservation[id] # None
      BY <1>2 DEF Call, SoleCaller, Effect
    <2>3. /\ calls' = [calls EXCEPT ![id][e] = @ + 1]
          /\ jobs' = jobs /\ reservation' = reservation
      BY <1>2 DEF Call, table
    <2> HIDE DEF id, e
    <2>4. calls' \in [Jobs -> [Effects -> Nat]]
      BY <2>1, <2>3 DEF TypeOK
    <2>5. \A j \in Jobs, f \in Effects :
            calls'[j][f] = IF j = id /\ f = e THEN 1 ELSE calls[j][f]
      BY <2>1, <2>2, <2>3 DEF TypeOK
    <2>6. CommittedBeforeCall'
      <3>1. SUFFICES ASSUME NEW j \in Jobs, NEW f \in Effects, calls'[j][f] > 0
                     PROVE  /\ jobs[j].phase \in Reserved(f)
                            /\ f = "gift" => reservation[j] # None
        BY <2>3 DEF CommittedBeforeCall
      <3>2. CASE j = id /\ f = e
        BY <2>2, <3>2
      <3>3. CASE ~(j = id /\ f = e)
        BY <2>5, <3>1, <3>3 DEF CommittedBeforeCall
      <3>4. QED
        BY <3>2, <3>3
    <2>7. AtMostOneCall'
      BY <2>5 DEF AtMostOneCall
    <2>8. QED
      BY <2>4, <2>5, <2>6, <2>7 DEF Effects
  <1>3. ASSUME NEW j \in Jobs, Charge(j)
        PROVE  charge' \in [Jobs -> Nat] /\ avail' \in [Cards -> Int] /\ ChargedIsCalled'
    <2>1. reservation[j] \in Reservation
      BY <1>3, ChargedIsReserved DEF Charge
    <2>2. PICK cents \in 1 .. reservation[j].cents :
            /\ charge' = [charge EXCEPT ![j] = cents]
            /\ avail' = [avail EXCEPT ![reservation[j].card] = @ - cents]
      BY <1>3 DEF Charge
    <2>3. cents \in Nat /\ reservation[j].card \in Cards
      BY <2>1, <2>2 DEF Reservation
    <2>4. calls' = calls /\ calls[j]["gift"] > 0
      BY <1>3 DEF Charge
    <2>5. QED
      BY <2>2, <2>3, <2>4 DEF TypeOK, ChargedIsCalled
  <1>4. ASSUME NEW w \in Workers, WorkerStep(w) \/ Crash(w), ~Call(w)
        PROVE  UNCHANGED world
    BY <1>4 DEF WorkerStep, StartRun, TakeRow, HoldHistorical, Begin, Returned, Threw,
                NotYet, FundingProof, InsertEvidence, SaveCredited, Live, ObserveCard,
                Reserve, ReserveRefused, Complete, ReceiptRefused, Crash
  <1>5. ASSUME NEW j \in Jobs, RecordClaim(j) PROVE UNCHANGED world
    BY <1>5 DEF RecordClaim
  <1>6. ASSUME Tick \/ UNCHANGED vars PROVE UNCHANGED world
    BY <1>6 DEF Tick, vars
  <1>7. ASSUME UNCHANGED world
        PROVE  /\ calls' \in [Jobs -> [Effects -> Nat]]
               /\ charge' \in [Jobs -> Nat] /\ avail' \in [Cards -> Int]
               /\ CommittedBeforeCall' /\ AtMostOneCall' /\ ChargedIsCalled'
    BY <1>1, <1>7 DEF world, TypeOK, ChargedIsCalled
  <1>8. ASSUME NEW w \in Workers, Call(w)
        PROVE  /\ calls' \in [Jobs -> [Effects -> Nat]]
               /\ charge' \in [Jobs -> Nat] /\ avail' \in [Cards -> Int]
               /\ CommittedBeforeCall' /\ AtMostOneCall' /\ ChargedIsCalled'
    BY <1>2, <1>8 DEF Call, TypeOK, ChargedIsCalled
  <1>9. ASSUME NEW j \in Jobs, Charge(j)
        PROVE  /\ calls' \in [Jobs -> [Effects -> Nat]]
               /\ CommittedBeforeCall' /\ AtMostOneCall'
    BY <1>1, <1>9 DEF Charge, TypeOK
  <1>10. QED
    BY <1>3, <1>4, <1>5, <1>6, <1>7, <1>8, <1>9 DEF Next

LEMMA TypeStep ==
  ASSUME IInv, [Next]_vars
  PROVE  TypeOK'
  <1> USE DEF IInv
  <1>1. /\ jobs' \in [Jobs -> Row]
        /\ reservation' \in [Jobs -> Reservation \cup {None}]
        /\ calls' \in [Jobs -> [Effects -> Nat]]
        /\ charge' \in [Jobs -> Nat]
        /\ avail' \in [Cards -> Int]
        /\ LocalTypes'
    BY RowsStep, ReservationStep, WorldStep, LocalStep DEF LocalOK
  <1>2. now' \in Nat /\ faults' \in Nat
    <2>1. now \in Nat /\ faults \in Nat
      BY DEF TypeOK
    <2>2. ASSUME NEW w \in Workers, WorkerStep(w) \/ Crash(w)
          PROVE  now' = now /\ faults' \in {faults, faults + 1}
      BY <2>2 DEF WorkerStep, StartRun, TakeRow, HoldHistorical, Begin, Call, Returned,
                  Threw, NotYet, FundingProof, InsertEvidence, SaveCredited, Live,
                  ObserveCard, Reserve, ReserveRefused, Complete, ReceiptRefused, Crash,
                  Fault
    <2>3. ASSUME NEW j \in Jobs, RecordClaim(j) \/ Charge(j)
          PROVE  now' = now /\ faults' = faults
      BY <2>3 DEF RecordClaim, Charge
    <2>4. ASSUME Tick \/ UNCHANGED vars
          PROVE  now' \in {now, now + 1} /\ faults' = faults
      BY <2>4 DEF Tick, vars
    <2>5. QED
      BY <2>1, <2>2, <2>3, <2>4 DEF Next
  <1>3. rowid' \in [Jobs -> Nat]
    <2>1. ASSUME NEW j \in Jobs, RecordClaim(j) PROVE rowid' \in [Jobs -> Nat]
      <3>1. {k \in Jobs : rowid[k] # 0} \subseteq Jobs
        OBVIOUS
      <3>2. Cardinality({k \in Jobs : rowid[k] # 0}) \in Nat
        BY <3>1, PipelineAssumption, FS_Subset, FS_CardinalityType
      <3>3. QED
        BY <2>1, <3>2 DEF RecordClaim, TypeOK
    <2>2. ASSUME UNCHANGED rowid PROVE rowid' \in [Jobs -> Nat]
      BY <2>2 DEF TypeOK
    <2>3. QED
      BY <2>1, <2>2 DEF Next, Charge, Tick, WorkerStep, StartRun, TakeRow,
           HoldHistorical, Begin, Call, Returned, Threw, NotYet, FundingProof,
           InsertEvidence, SaveCredited, Live, ObserveCard, Reserve, ReserveRefused,
           Complete, ReceiptRefused, Crash, vars, table
  <1>4. cursor' \in Nat
    <2>1. ASSUME NEW w \in Workers, StartRun(w) PROVE cursor' \in Nat
      <3>1. cursor' = LastRow(cursor)
        BY <2>1 DEF StartRun
      <3>2. NextBatch(cursor) \subseteq Jobs
        BY DEF NextBatch, Unfinished
      <3>3. QED
        BY <3>1, <3>2 DEF LastRow, TypeOK
    <2>2. ASSUME UNCHANGED cursor PROVE cursor' \in Nat
      BY <2>2 DEF TypeOK
    <2>3. QED
      BY <2>1, <2>2 DEF Next, RecordClaim, Charge, Tick, WorkerStep, TakeRow,
           HoldHistorical, Begin, Call, Returned, Threw, NotYet, FundingProof,
           InsertEvidence, SaveCredited, Live, ObserveCard, Reserve, ReserveRefused,
           Complete, ReceiptRefused, Crash, vars, table
  <1>5. evidence' \subseteq [ref : Refs, kind : Effects, job : Jobs]
    <2>1. ASSUME NEW w \in Workers, InsertEvidence(w)
          PROVE  evidence' \subseteq [ref : Refs, kind : Effects, job : Jobs]
      <3>1. /\ cur[w].id \in Jobs /\ cur[w].row.phase \in {"depositing", "converting"}
            /\ proof[w] \in Proof
        BY <2>1 DEF InsertEvidence, Placed, PhasesAt, TypeOK, Snapshot
      <3>2. OwnEvidence(w, proof[w].ref) \in [ref : Refs, kind : Effects, job : Jobs]
        BY <3>1 DEF OwnEvidence, Proof, EffectOf, Effects
      <3>3. evidence' \subseteq evidence \cup {OwnEvidence(w, proof[w].ref)}
        BY <2>1 DEF InsertEvidence
      <3>4. QED
        BY <3>2, <3>3 DEF TypeOK
    <2>2. ASSUME UNCHANGED evidence
          PROVE  evidence' \subseteq [ref : Refs, kind : Effects, job : Jobs]
      BY <2>2 DEF TypeOK
    <2>3. QED
      BY <2>1, <2>2 DEF Next, RecordClaim, Charge, Tick, WorkerStep, StartRun, TakeRow,
           HoldHistorical, Begin, Call, Returned, Threw, NotYet, FundingProof,
           SaveCredited, Live, ObserveCard, Reserve, ReserveRefused,
           Complete, ReceiptRefused, Crash, vars, table
  <1>6. receipts' \subseteq [ref : Refs, job : Jobs]
    <2>1. ASSUME NEW w \in Workers, Complete(w)
          PROVE  receipts' \subseteq [ref : Refs, job : Jobs]
      <3>1. cur[w].id \in Jobs
        BY <2>1 DEF Complete, Placed, TypeOK, Snapshot
      <3>2. PICK ref \in MayCite[cur[w].id] :
              receipts' = receipts \cup {[ref |-> ref, job |-> cur[w].id]}
        BY <2>1 DEF Complete
      <3>3. ref \in Refs
        BY <3>1, <3>2, PipelineAssumption
      <3>4. QED
        BY <3>1, <3>2, <3>3 DEF TypeOK
    <2>2. ASSUME UNCHANGED receipts PROVE receipts' \subseteq [ref : Refs, job : Jobs]
      BY <2>2 DEF TypeOK
    <2>3. QED
      BY <2>1, <2>2 DEF Next, RecordClaim, Charge, Tick, WorkerStep, StartRun, TakeRow,
           HoldHistorical, Begin, Call, Returned, Threw, NotYet, FundingProof,
           InsertEvidence, SaveCredited, Live, ObserveCard, Reserve, ReserveRefused,
           ReceiptRefused, Crash, vars, table
  <1>7. QED
    BY <1>1, <1>2, <1>3, <1>4, <1>5, <1>6 DEF TypeOK, LocalTypes

-----------------------------------------------------------------------------
\* Only Begin and Reserve bring a worker to a call, from a phase in which the
\* call cannot have been made and nobody else can be about to make it.
Enters(w) == (Begin(w) /\ CanSave(w)) \/ Reserve(w)

LEMMA EnterFacts ==
  ASSUME IInv, NEW w \in Workers, Enters(w)
  PROVE  /\ cur[w].id \in Jobs /\ cur'[w].id = cur[w].id
         /\ Effect(w)' \in Effects
         /\ jobs[cur[w].id].phase \notin Reserved(Effect(w)')
         /\ jobs'[cur[w].id].phase \in Reserved(Effect(w)')
         /\ Effect(w)' = "gift" => reservation'[cur[w].id] # None
         /\ calls' = calls
         /\ \A v \in Workers : v # w => pc'[v] = pc[v] /\ cur'[v] = cur[v]
  <1> USE DEF IInv
  <1> DEFINE id == cur[w].id
  <1>1. /\ cur[w] \in Snapshot /\ cur[w].row \in Row /\ id \in Jobs
        /\ cur[w].row.phase \in {"claimed", "deposited", "converted"}
        /\ Reserve(w) => cur[w].row.phase = "converted"
        /\ Begin(w) => cur[w].row.phase # "converted"
    BY DEF Enters, Begin, Reserve, Placed, PhasesAt, TypeOK, Snapshot
  <1>2. CanSave(w)
    BY DEF Enters, Reserve
  <1>3. jobs[id] = cur[w].row
    BY <1>1, <1>2 DEF CanSave, Snapshots, Agrees, Placed, Enters, Begin, Reserve
  <1>4. PICK row \in Row :
          /\ row.revision = cur[w].row.revision /\ row.phase = After(cur[w].row.phase)
          /\ jobs' = Saved(w, row)
          /\ cur' = [cur EXCEPT ![w].row = [row EXCEPT !.revision = @ + 1]]
    <2>1. CASE Begin(w)
      BY <1>1, <1>2, <2>1, AdvancedRow DEF Begin
    <2>2. CASE Reserve(w)
      <3> DEFINE gifting == [Advanced(cur[w].row) EXCEPT !.card = seen[w].card]
      <3>1. /\ gifting \in Row /\ gifting.revision = cur[w].row.revision
            /\ gifting.phase = After(cur[w].row.phase)
        BY <1>1, <2>2, GiftingRow DEF Reserve, After
      <3>2. /\ jobs' = Saved(w, gifting)
            /\ cur' = [cur EXCEPT ![w].row = [gifting EXCEPT !.revision = @ + 1]]
        BY <2>2 DEF Reserve
      <3> HIDE DEF gifting
      <3>3. QED
        BY <3>1, <3>2
    <2>3. QED
      BY <2>1, <2>2 DEF Enters
  <1> DEFINE saved == [row EXCEPT !.revision = @ + 1]
  <1>5. saved.phase = row.phase
    BY DEF Row
  <1>6. jobs'[id] = saved
    BY <1>1, <1>4, SavedRow
  <1>7. /\ cur'[w] = [cur[w] EXCEPT !.row = saved]
        /\ \A v \in Workers : v # w => cur'[v] = cur[v]
    BY <1>4 DEF TypeOK
  <1> HIDE DEF saved
  <1>8. cur'[w].id = id /\ cur'[w].row = saved
    BY <1>1, <1>7 DEF Snapshot
  <1>9. Effect(w)' = EffectOf(After(cur[w].row.phase))
    BY <1>4, <1>5, <1>8 DEF Effect
  <1>10. /\ Effect(w)' \in Effects
         /\ jobs[id].phase \notin Reserved(Effect(w)')
         /\ jobs'[id].phase \in Reserved(Effect(w)')
         /\ Effect(w)' = "gift" => cur[w].row.phase = "converted"
    BY <1>1, <1>3, <1>4, <1>5, <1>6, <1>9 DEF EffectOf, After, Effects, Reserved
  <1>11. Effect(w)' = "gift" => reservation'[id] # None
    <2>1. SUFFICES ASSUME Reserve(w) PROVE reservation'[id] # None
      BY <1>1, <1>10 DEF Enters
    <2> DEFINE new == [card |-> seen[w].card, cents |-> cur[w].row.net, completedAt |-> None]
    <2>2. new # None
      <3>1. seen[w] \in Observation
        BY <2>1 DEF Reserve, Placed, TypeOK
      <3>2. new \in Reservation
        BY <1>1, <3>1 DEF Reservation, Observation, Row
      <3>3. QED
        BY <3>2, NoneAssumption
    <2>3. reservation' = [reservation EXCEPT ![id] = new]
      BY <2>1 DEF Reserve
    <2> HIDE DEF new
    <2>4. QED
      BY <1>1, <2>2, <2>3 DEF TypeOK
  <1>12. calls' = calls /\ \A v \in Workers : v # w => pc'[v] = pc[v]
    BY <1>2 DEF Enters, Begin, Reserve, Goto, world, TypeOK
  <1>13. QED
    BY <1>1, <1>7, <1>8, <1>10, <1>11, <1>12

\* A worker at a call either just entered it or was there and did not move.
LEMMA CallerMoves ==
  ASSUME IInv, [Next]_vars, NEW w \in Workers, pc'[w] = "call"
  PROVE  \/ Enters(w)
         \/ pc[w] = "call" /\ cur'[w] = cur[w] /\ ~Call(w)
  <1> USE DEF IInv
  <1>1. ASSUME NEW v \in Workers, WorkerStep(v) \/ Crash(v), v # w
        PROVE  pc[w] = "call" /\ cur'[w] = cur[w]
    BY <1>1 DEF WorkerStep, StartRun, TakeRow, HoldHistorical, Begin, Call, Returned, Threw,
                NotYet, FundingProof, InsertEvidence, SaveCredited, Live, ObserveCard,
                Reserve, ReserveRefused, Complete, ReceiptRefused, Crash, Catch, Leave,
                Goto, TypeOK
  <1>2. ASSUME WorkerStep(w) \/ Crash(w), ~Enters(w)
        PROVE  pc[w] = "call" /\ cur'[w] = cur[w]
    <2>1. CASE TakeRow(w)
      <3>1. PICK s \in batch[w] : pc' = [pc EXCEPT ![w] = Dispatch(s)]
        BY <2>1 DEF TakeRow
      <3>2. s.row.phase \in Phases \ {"absent", "completed"}
        BY DEF Placed, TypeOK, Queued, Row
      <3>3. Dispatch(s) # "call"
        BY <3>2 DEF Dispatch, Phases
      <3>4. QED
        BY <3>1, <3>3 DEF TypeOK
    <2>2. CASE ~TakeRow(w)
      BY <1>2, <2>2 DEF WorkerStep, StartRun, HoldHistorical, Begin, Call, Returned, Threw,
                NotYet, FundingProof, InsertEvidence, SaveCredited, Live, ObserveCard,
                ReserveRefused, Complete, ReceiptRefused, Crash, Catch, Leave,
                Goto, TypeOK, Enters
    <2>3. QED
      BY <2>1, <2>2
  <1>3. ASSUME \/ \E j \in Jobs : RecordClaim(j) \/ Charge(j)
               \/ Tick \/ UNCHANGED vars
        PROVE  pc[w] = "call" /\ cur'[w] = cur[w]
    BY <1>3 DEF RecordClaim, Charge, Tick, vars, local
  <1>4. ~Call(w)
    BY DEF Call, Goto, TypeOK
  <1>5. QED
    BY <1>1, <1>2, <1>3, <1>4 DEF Next

LEMMA SoleCallerStep ==
  ASSUME IInv, [Next]_vars
  PROVE  SoleCaller'
  <1> USE DEF IInv
  <1>1. \A j \in Jobs, e \in Effects :
          jobs[j].phase \in Reserved(e) => jobs'[j].phase \in Reserved(e)
    BY RowsStep DEF Grows, Reserved, Effects
  <1>2. \A w \in Workers : pc[w] = "call" => cur[w].id \in Jobs /\ Effect(w) \in Effects
    BY DEF Placed, PhasesAt, TypeOK, Snapshot, Effect, EffectOf, Effects
  <1>3. SUFFICES ASSUME NEW w \in Workers, pc'[w] = "call"
                 PROVE  /\ calls'[cur'[w].id][Effect(w)'] = 0
                        /\ jobs'[cur'[w].id].phase \in Reserved(Effect(w)')
                        /\ Effect(w)' = "gift" => reservation'[cur'[w].id] # None
                        /\ \A v \in Workers :
                             v # w /\ pc'[v] = "call" /\ cur'[v].id = cur'[w].id =>
                               Effect(v)' # Effect(w)'
    BY DEF SoleCaller
  <1>4. CASE Enters(w)
    <2>1. calls'[cur'[w].id][Effect(w)'] = 0
      BY <1>4, EnterFacts DEF CommittedBeforeCall, TypeOK
    <2>2. ASSUME NEW v \in Workers, v # w, pc'[v] = "call", cur'[v].id = cur'[w].id
          PROVE  Effect(v)' # Effect(w)'
      <3>1. pc[v] = "call" /\ cur'[v] = cur[v] /\ Effect(v)' = Effect(v)
        BY <1>4, <2>2, EnterFacts DEF Effect
      <3>2. jobs[cur[v].id].phase \in Reserved(Effect(v))
        BY <3>1 DEF SoleCaller
      <3>3. QED
        BY <1>4, <2>2, <3>1, <3>2, EnterFacts
    <2>3. QED
      BY <1>4, <2>1, <2>2, EnterFacts
  <1>5. CASE ~Enters(w)
    <2>1. pc[w] = "call" /\ cur'[w] = cur[w] /\ ~Call(w) /\ Effect(w)' = Effect(w)
      BY <1>3, <1>5, CallerMoves DEF Effect
    <2>2. calls'[cur[w].id][Effect(w)] = 0
      <3>1. CASE \E v \in Workers : Call(v)
        <4>1. PICK v \in Workers : Call(v)
          BY <3>1
        <4>2. pc[v] = "call" /\ v # w /\ calls' = [calls EXCEPT ![cur[v].id][Effect(v)] = @ + 1]
          BY <2>1, <4>1 DEF Call, Effect
        <4>3. ~(cur[v].id = cur[w].id /\ Effect(v) = Effect(w))
          BY <2>1, <4>2 DEF SoleCaller
        <4>4. QED
          BY <1>2, <2>1, <4>2, <4>3 DEF SoleCaller, TypeOK
      <3>2. CASE ~\E v \in Workers : Call(v)
        <4>1. calls' = calls
          BY <3>2 DEF Next, vars, world, RecordClaim, Charge, Tick, WorkerStep, StartRun,
                TakeRow, HoldHistorical, Begin, Returned, Threw, NotYet, FundingProof,
                InsertEvidence, SaveCredited, Live, ObserveCard, Reserve, ReserveRefused,
                Complete, ReceiptRefused, Crash
        <4>2. QED
          BY <2>1, <4>1 DEF SoleCaller
      <3>3. QED
        BY <3>1, <3>2
    <2>3. /\ jobs'[cur[w].id].phase \in Reserved(Effect(w))
          /\ Effect(w) = "gift" => reservation'[cur[w].id] # None
      BY <1>1, <1>2, <2>1, ReservationStep DEF SoleCaller
    <2>4. ASSUME NEW v \in Workers, v # w, pc'[v] = "call", cur'[v].id = cur'[w].id
          PROVE  Effect(v)' # Effect(w)'
      <3>1. CASE Enters(v)
        BY <2>1, <2>4, <3>1, EnterFacts DEF SoleCaller
      <3>2. CASE ~Enters(v)
        <4>1. pc[v] = "call" /\ cur'[v] = cur[v] /\ Effect(v)' = Effect(v)
          BY <2>4, <3>2, CallerMoves DEF Effect
        <4>2. QED
          BY <2>1, <2>4, <4>1 DEF SoleCaller
      <3>3. QED
        BY <3>1, <3>2
    <2>5. QED
      BY <2>1, <2>2, <2>3, <2>4
  <1>6. QED
    BY <1>4, <1>5

-----------------------------------------------------------------------------
LEMMA Inductive == IInv /\ [Next]_vars => IInv'
  BY TypeStep, LocalStep, SoleCallerStep, WorldStep DEF IInv, LocalOK

LEMMA Invariant == Spec => []IInv
  BY InitIInv, Inductive, PTL DEF Spec

\* The types hold in every reachable state, whatever the constants.
THEOREM TypeCorrect == Spec => []TypeOK
  <1>1. IInv => TypeOK
    BY DEF IInv
  <1>2. QED
    BY <1>1, Invariant, PTL

\* No interleaving of workers, no crash and no retry makes run() ask twice for
\* the deposit, the conversion or the gift of one job.
THEOREM CallsOnce == Spec => []AtMostOneCall
  <1>1. IInv => AtMostOneCall
    BY DEF IInv
  <1>2. QED
    BY <1>1, Invariant, PTL

\* Whatever was asked for is covered, from then on, by a committed phase and,
\* for a gift, by a committed card reservation.
THEOREM CommitsFirst == Spec => []CommittedBeforeCall
  <1>1. IInv => CommittedBeforeCall
    BY DEF IInv
  <1>2. QED
    BY <1>1, Invariant, PTL

-----------------------------------------------------------------------------
\* Every phase rests on evidence of its own.  Four facts make that inductive:
\* jobs of an earlier release are only ever held, ...
OldAreHeld == \A w \in Workers : pc[w] \notin {"next", "hold"} => cur[w].id \in Native

\* ... what a worker credits is recorded, ...
OwnRecorded ==
  \A w \in Workers : pc[w] = "credit" => OwnEvidence(w, proof[w].ref) \in evidence

\* ... a gift's reservation is what the conversion brought, ...
ReservedIsNet ==
  \A j \in Native :
    /\ jobs[j].phase = "gifting" => /\ reservation[j] # None
                                   /\ reservation[j].cents = jobs[j].net
    /\ reservation[j] # None => jobs[j].phase \in {"gifting", "completed"}

\* ... and the issuer charges no more than is reserved.
ChargedInBudget ==
  \A j \in Native : charge[j] > 0 => /\ reservation[j] # None
                                    /\ charge[j] <= reservation[j].cents

PInv ==
  /\ IInv
  /\ OldAreHeld /\ OwnRecorded /\ ReservedIsNet /\ ChargedInBudget
  /\ EvidenceBacked /\ SettledOnce

\* What a save writes: the worker's row, if the table still has it.
LEMMA SaveWrites ==
  ASSUME IInv, NEW w \in Workers, cur[w] # None,
         NEW row \in Row, row.revision = cur[w].row.revision, Save(w, row)
  PROVE  /\ cur[w].id \in Jobs
         /\ \A j \in Jobs : j # cur[w].id => jobs'[j] = jobs[j]
         /\ \/ ~CanSave(w) /\ jobs' = jobs
            \/ /\ CanSave(w)
               /\ jobs[cur[w].id] = cur[w].row
               /\ jobs'[cur[w].id] = [row EXCEPT !.revision = @ + 1]
<1>1. TypeOK /\ cur[w] \in Snapshot /\ cur[w].id \in Jobs
  BY DEF IInv, TypeOK, Snapshot
<1>2. CASE ~CanSave(w)
  BY <1>1, <1>2 DEF Save
<1>3. CASE CanSave(w)
  <2>1. jobs[cur[w].id] = cur[w].row
    BY <1>3 DEF CanSave, IInv, Snapshots, Agrees
  <2>2. jobs' = Saved(w, row)
    BY <1>3 DEF Save
  <2>3. QED
    BY <1>1, <1>3, <2>1, <2>2, SavedRow
<1>4. QED
  BY <1>2, <1>3

\* The row keeps what funded it.
KeepsFunds(r, q) == q.deposit = r.deposit /\ q.conversion = r.conversion /\ q.net = r.net

\* How a step may move one job's row.
Marked(j) == KeepsFunds(jobs[j], jobs'[j]) /\ jobs'[j].phase = jobs[j].phase
Begun(j) ==
  /\ KeepsFunds(jobs[j], jobs'[j])
  /\ jobs[j].phase \in {"claimed", "deposited"} /\ jobs'[j].phase = After(jobs[j].phase)
DepositProved(j) ==
  /\ jobs[j].phase = "depositing" /\ jobs'[j].phase = "deposited"
  /\ [ref |-> jobs'[j].deposit, kind |-> "deposit", job |-> j] \in evidence
ConversionProved(j) ==
  /\ jobs[j].phase = "converting" /\ jobs'[j].phase = "converted"
  /\ jobs'[j].deposit = jobs[j].deposit
  /\ [ref |-> jobs'[j].conversion, kind |-> "conversion", job |-> j] \in evidence
GiftReserved(j) ==
  /\ jobs[j].phase = "converted" /\ jobs'[j].phase = "gifting"
  /\ KeepsFunds(jobs[j], jobs'[j])
  /\ \E w \in Workers : Reserve(w) /\ cur[w].id = j
GiftCompleted(j) ==
  /\ jobs[j].phase = "gifting" /\ jobs'[j].phase = "completed"
  /\ KeepsFunds(jobs[j], jobs'[j])
  /\ \E w \in Workers : Complete(w) /\ cur[w].id = j

RowMoves(j) ==
  \/ jobs'[j] = jobs[j]
  \/ jobs[j].phase = "absent" /\ jobs'[j].phase = "claimed"
  \/ Marked(j) \/ Begun(j) \/ DepositProved(j) \/ ConversionProved(j)
  \/ GiftReserved(j) \/ GiftCompleted(j)

LEMMA AdvancedKeeps ==
  ASSUME NEW row \in Row, row.phase \notin {"absent", "completed"}
  PROVE  KeepsFunds(row, Advanced(row))
<1>1. After(row.phase) \in Phases
  BY DEF After, Row, Phases
<1>2. QED
  BY <1>1 DEF Advanced, Row, KeepsFunds

\* A save of the row with nothing but its issue and phase changed.
LEMMA SaveKeeps ==
  ASSUME IInv, NEW w \in Workers, cur[w] # None,
         NEW row \in Row, row.revision = cur[w].row.revision, Save(w, row),
         KeepsFunds(cur[w].row, row)
  PROVE  /\ \A j \in Jobs : j # cur[w].id => jobs'[j] = jobs[j]
         /\ \/ jobs'[cur[w].id] = jobs[cur[w].id]
            \/ /\ KeepsFunds(jobs[cur[w].id], jobs'[cur[w].id])
               /\ CanSave(w)
               /\ jobs[cur[w].id].phase = cur[w].row.phase
               /\ jobs'[cur[w].id].phase = row.phase
<1>1. PICK new : new = [row EXCEPT !.revision = @ + 1]
  OBVIOUS
<1>2. KeepsFunds(row, new) /\ new.phase = row.phase
  BY <1>1 DEF Row, KeepsFunds
<1>3. QED
  BY <1>1, <1>2, SaveWrites DEF KeepsFunds

LEMMA MarkedOnly ==
  ASSUME IInv, NEW w \in Workers, cur[w] # None,
         \/ Save(w, [cur[w].row EXCEPT !.issue = TRUE])
         \/ Save(w, cur[w].row)
  PROVE  \A j \in Jobs : jobs'[j] = jobs[j] \/ Marked(j)
<1>1. cur[w].row \in Row
  BY DEF IInv, TypeOK, Snapshot
<1>2. PICK row \in {[cur[w].row EXCEPT !.issue = TRUE], cur[w].row} : Save(w, row)
  OBVIOUS
<1>3. /\ row \in Row /\ row.revision = cur[w].row.revision
      /\ row.phase = cur[w].row.phase /\ KeepsFunds(cur[w].row, row)
  BY <1>1, <1>2 DEF Row, KeepsFunds
<1>4. QED
  BY <1>2, <1>3, SaveKeeps DEF Marked

\* What each action of a worker does to the rows.
LEMMA WorkerMovesRows ==
  ASSUME PInv, NEW w \in Workers, WorkerStep(w)
  PROVE  \A j \in Jobs : RowMoves(j)
<1> USE DEF PInv
<1>0. cur[w] # None => cur[w] \in Snapshot /\ cur[w].row \in Row /\ cur[w].id \in Jobs
  BY DEF IInv, TypeOK, Snapshot
<1>1. CASE UNCHANGED jobs
  BY <1>1 DEF RowMoves
<1>2. CASE cur[w] # None /\ \/ Save(w, [cur[w].row EXCEPT !.issue = TRUE])
                            \/ Save(w, cur[w].row)
  BY <1>2, MarkedOnly DEF RowMoves
<1>3. CASE StartRun(w) \/ TakeRow(w) \/ Call(w) \/ NotYet(w) \/ FundingProof(w)
           \/ Live(w) \/ ObserveCard(w) \/ ReserveRefused(w)
  BY <1>1, <1>3 DEF StartRun, TakeRow, Call, NotYet, FundingProof, Live, ObserveCard,
                    ReserveRefused, table
<1>4. CASE HoldHistorical(w) \/ Returned(w) \/ Threw(w) \/ InsertEvidence(w)
           \/ ReceiptRefused(w)
  <2>1. cur[w] # None
    BY <1>4 DEF HoldHistorical, Returned, Threw, InsertEvidence, ReceiptRefused, IInv, Placed
  <2>2. QED
    BY <1>1, <1>2, <1>4, <2>1 DEF HoldHistorical, Returned, Threw, InsertEvidence,
                                  ReceiptRefused, Catch
<1>5. CASE Begin(w)
  <2>1. /\ cur[w] # None /\ cur[w].row.phase \in {"claimed", "deposited"}
        /\ Save(w, Advanced(cur[w].row))
    BY <1>5 DEF Begin, Save, IInv, Placed, PhasesAt
  <2>2. /\ Advanced(cur[w].row) \in Row
        /\ Advanced(cur[w].row).revision = cur[w].row.revision
        /\ Advanced(cur[w].row).phase = After(cur[w].row.phase)
        /\ KeepsFunds(cur[w].row, Advanced(cur[w].row))
    BY <1>0, <2>1, AdvancedRow, AdvancedKeeps
  <2>3. QED
    BY <2>1, <2>2, SaveKeeps DEF Begun, RowMoves
<1>6. CASE SaveCredited(w)
  <2>1. /\ pc[w] = "credit" /\ cur[w] # None /\ Save(w, Credited(w))
        /\ cur[w].row.phase \in {"depositing", "converting"} /\ proof[w] \in Proof
        /\ OwnEvidence(w, proof[w].ref) \in evidence
    BY <1>6 DEF SaveCredited, IInv, Placed, PhasesAt, OwnRecorded, TypeOK
  <2>2. /\ Credited(w) \in Row /\ Credited(w).revision = cur[w].row.revision
        /\ Credited(w).phase = After(cur[w].row.phase)
    BY <2>1, CreditedRow
  <2>3. PICK new : new = [Credited(w) EXCEPT !.revision = @ + 1]
    OBVIOUS
  <2>4. /\ new.phase = After(cur[w].row.phase) /\ new.deposit = Credited(w).deposit
        /\ new.conversion = Credited(w).conversion
    BY <2>2, <2>3 DEF Row
  <2>5. /\ \A j \in Jobs : j # cur[w].id => jobs'[j] = jobs[j]
        /\ \/ jobs' = jobs
           \/ jobs[cur[w].id] = cur[w].row /\ jobs'[cur[w].id] = new
    BY <2>1, <2>2, <2>3, SaveWrites
  <2>6. CASE cur[w].row.phase = "depositing"
    <3>1. Credited(w).deposit = proof[w].ref
      BY <1>0, <2>1, <2>6 DEF Credited, Advanced, Row
    <3>2. [ref |-> new.deposit, kind |-> "deposit", job |-> cur[w].id] \in evidence
      BY <2>1, <2>4, <2>6, <3>1 DEF OwnEvidence, EffectOf
    <3>3. new.phase = "deposited"
      BY <2>4, <2>6 DEF After
    <3>4. QED
      BY <2>5, <2>6, <3>2, <3>3 DEF DepositProved, RowMoves
  <2>7. CASE cur[w].row.phase = "converting"
    <3>1. /\ Credited(w).conversion = proof[w].ref
          /\ Credited(w).deposit = cur[w].row.deposit
      BY <1>0, <2>1, <2>7 DEF Credited, Advanced, Row
    <3>2. [ref |-> new.conversion, kind |-> "conversion", job |-> cur[w].id] \in evidence
      BY <2>1, <2>4, <2>7, <3>1 DEF OwnEvidence, EffectOf
    <3>3. new.phase = "converted"
      BY <2>4, <2>7 DEF After
    <3>4. QED
      BY <2>4, <2>5, <2>7, <3>1, <3>2, <3>3 DEF ConversionProved, RowMoves
  <2>8. QED
    BY <2>1, <2>6, <2>7
<1>7. CASE Reserve(w)
  <2> DEFINE row == [Advanced(cur[w].row) EXCEPT !.card = seen[w].card]
  <2>1. cur[w] # None /\ cur[w].row.phase = "converted" /\ pc[w] = "reserve"
    BY <1>7 DEF Reserve, IInv, Placed, PhasesAt
  <2>2. row \in Row /\ row.revision = cur[w].row.revision /\ row.phase = "gifting"
    BY <2>1, GiftingRow
  <2>3. KeepsFunds(cur[w].row, row)
    <3>1. PICK a : a = Advanced(cur[w].row)
      OBVIOUS
    <3>2. a \in Row /\ KeepsFunds(cur[w].row, a)
      BY <1>0, <2>1, <3>1, AdvancedKeeps, AdvancedRow
    <3>3. QED
      BY <3>1, <3>2 DEF KeepsFunds, Row
  <2>4. Save(w, row)
    BY <1>7 DEF Reserve, Save
  <2> HIDE DEF row
  <2>5. QED
    BY <1>7, <2>1, <2>2, <2>3, <2>4, SaveKeeps DEF GiftReserved, RowMoves
<1>8. CASE Complete(w)
  <2> DEFINE row == [cur[w].row EXCEPT !.phase = "completed"]
  <2>1. cur[w] # None /\ cur[w].row.phase = "gifting"
    BY <1>8 DEF Complete, IInv, Placed
  <2>2. /\ row \in Row /\ row.revision = cur[w].row.revision /\ row.phase = "completed"
        /\ KeepsFunds(cur[w].row, row)
    BY <1>0, <2>1 DEF Row, Phases, KeepsFunds
  <2>3. Save(w, row)
    BY <1>8 DEF Complete, Save
  <2> HIDE DEF row
  <2>4. QED
    BY <1>8, <2>1, <2>2, <2>3, SaveKeeps DEF GiftCompleted, RowMoves
<1>9. QED
  BY <1>3, <1>4, <1>5, <1>6, <1>7, <1>8 DEF WorkerStep

LEMMA RowsMove ==
  ASSUME PInv, [Next]_vars
  PROVE  \A j \in Jobs : RowMoves(j)
<1>1. ASSUME NEW j \in Jobs, RecordClaim(j) PROVE \A k \in Jobs : RowMoves(k)
  BY <1>1 DEF RecordClaim, RowMoves, NewRow, PInv, IInv, TypeOK
<1>2. ASSUME UNCHANGED jobs PROVE \A j \in Jobs : RowMoves(j)
  BY <1>2 DEF RowMoves
<1>3. QED
  BY <1>1, <1>2, WorkerMovesRows DEF Next, Charge, Crash, Tick, vars, table

LEMMA OldAreHeldStep ==
  ASSUME PInv, [Next]_vars
  PROVE  OldAreHeld'
<1> USE DEF PInv, IInv
<1>1. ASSUME NEW w \in Workers, NEW v \in Workers, WorkerStep(w) \/ Crash(w),
             pc'[v] \notin {"next", "hold"}
      PROVE  cur'[v].id \in Native
  <2>1. CASE v # w
    <3>1. pc'[v] = pc[v] /\ cur'[v] = cur[v]
      BY <1>1, <2>1 DEF WorkerStep, StartRun, TakeRow, HoldHistorical, Begin, Call, Returned,
                Threw, NotYet, FundingProof, InsertEvidence, SaveCredited, Live, ObserveCard,
                Reserve, ReserveRefused, Complete, ReceiptRefused, Crash, Catch, Leave,
                Goto, TypeOK
    <3>2. QED
      BY <1>1, <3>1 DEF OldAreHeld
  <2>2. CASE v = w /\ TakeRow(w)
    <3>1. PICK s \in batch[w] :
            /\ pc' = [pc EXCEPT ![w] = Dispatch(s)]
            /\ cur' = [cur EXCEPT ![w] =
                         IF Dispatch(s) = "next" THEN None ELSE [id |-> s.id, row |-> s.row]]
      BY <2>2 DEF TakeRow
    <3>2. s \in Queued /\ s.id \in Jobs
      BY DEF TypeOK, Queued
    <3>3. s.id \notin Historical
      BY <1>1, <2>2, <3>1 DEF TypeOK, Dispatch
    <3>4. cur'[w].id = s.id
      BY <1>1, <2>2, <3>1 DEF TypeOK
    <3>5. QED
      BY <2>2, <3>2, <3>3, <3>4 DEF Native
  <2>3. CASE v = w /\ (Begin(w) \/ Reserve(w))
    <3>1. Enters(w) /\ pc[w] \in {"begin", "reserve"}
      BY <1>1, <2>3 DEF Begin, Reserve, Enters, Leave, Goto, TypeOK
    <3>2. cur'[w].id = cur[w].id
      BY <3>1, EnterFacts
    <3>3. QED
      BY <2>3, <3>1, <3>2 DEF OldAreHeld
  <2>4. CASE v = w /\ ~TakeRow(w) /\ ~Begin(w) /\ ~Reserve(w)
    <3>1. cur'[w] = cur[w] /\ pc[w] \notin {"next", "hold"}
      BY <1>1, <2>4 DEF WorkerStep, StartRun, HoldHistorical, Call, Returned,
                Threw, NotYet, FundingProof, InsertEvidence, SaveCredited, Live, ObserveCard,
                ReserveRefused, Complete, ReceiptRefused, Crash, Catch, Leave,
                Goto, TypeOK
    <3>2. QED
      BY <2>4, <3>1 DEF OldAreHeld
  <2>5. QED
    BY <2>1, <2>2, <2>3, <2>4
<1>2. CASE UNCHANGED local
  BY <1>2 DEF local, OldAreHeld
<1>3. QED
  BY <1>1, <1>2 DEF OldAreHeld, Next, RecordClaim, Charge, Tick, vars

LEMMA EvidenceGrows ==
  ASSUME [Next]_vars
  PROVE  evidence \subseteq evidence'
<1>1. ASSUME NEW w \in Workers, InsertEvidence(w) PROVE evidence \subseteq evidence'
  BY <1>1 DEF InsertEvidence
<1>2. ASSUME NEW w \in Workers, WorkerStep(w) \/ Crash(w), ~InsertEvidence(w)
      PROVE  evidence' = evidence
  BY <1>2 DEF WorkerStep, StartRun, TakeRow, HoldHistorical, Begin, Call, Returned, Threw,
              NotYet, FundingProof, SaveCredited, Live, ObserveCard, Reserve,
              ReserveRefused, Complete, ReceiptRefused, Crash, table
<1>3. ASSUME \/ \E j \in Jobs : RecordClaim(j) \/ Charge(j)
             \/ Tick \/ UNCHANGED vars
      PROVE  evidence' = evidence
  BY <1>3 DEF RecordClaim, Charge, Tick, vars, table
<1>4. QED
  BY <1>1, <1>2, <1>3 DEF Next

LEMMA OwnRecordedStep ==
  ASSUME PInv, [Next]_vars
  PROVE  OwnRecorded'
<1> USE DEF PInv, IInv
<1>0. evidence \subseteq evidence'  BY EvidenceGrows
<1>1. ASSUME NEW w \in Workers, pc[w] = "credit",
             cur'[w] = cur[w], proof'[w] = proof[w]
      PROVE  (OwnEvidence(w, proof[w].ref) \in evidence)'
  BY <1>0, <1>1 DEF OwnRecorded, OwnEvidence
<1>2. ASSUME NEW w \in Workers, NEW v \in Workers, WorkerStep(w) \/ Crash(w),
             pc'[v] = "credit"
      PROVE  (OwnEvidence(v, proof[v].ref) \in evidence)'
  <2>1. CASE v # w
    <3>1. pc'[v] = pc[v] /\ cur'[v] = cur[v] /\ proof'[v] = proof[v]
      BY <1>2, <2>1 DEF WorkerStep, StartRun, TakeRow, HoldHistorical, Begin, Call, Returned,
                Threw, NotYet, FundingProof, InsertEvidence, SaveCredited, Live, ObserveCard,
                Reserve, ReserveRefused, Complete, ReceiptRefused, Crash, Catch, Leave,
                Goto, TypeOK
    <3>2. QED
      BY <1>1, <1>2, <3>1
  <2>2. CASE v = w /\ TakeRow(w)
    <3>1. PICK s \in batch[w] : pc' = [pc EXCEPT ![w] = Dispatch(s)]
      BY <2>2 DEF TakeRow
    <3>2. s.row.phase \in Phases \ {"absent", "completed"}
      BY DEF Placed, TypeOK, Queued, Row
    <3>3. Dispatch(s) # "credit"
      BY <3>2 DEF Dispatch, Phases
    <3>4. QED
      BY <1>2, <2>2, <3>1, <3>3 DEF TypeOK
  <2>3. CASE v = w /\ FundingProof(w)
    <3>1. PICK ref, net : /\ proof' = [proof EXCEPT ![w] = [ref |-> ref, net |-> net]]
                          /\ OwnEvidence(w, ref) \in evidence
      BY <1>2, <2>3 DEF FundingProof, Goto, TypeOK
    <3>2. proof'[w].ref = ref /\ cur' = cur
      BY <2>3, <3>1 DEF FundingProof, TypeOK
    <3>3. QED
      BY <1>0, <2>3, <3>1, <3>2 DEF OwnEvidence
  <2>4. CASE v = w /\ InsertEvidence(w)
    <3>1. evidence' = evidence \cup {OwnEvidence(w, proof[w].ref)}
          /\ UNCHANGED <<cur, proof>>
      BY <1>2, <2>4 DEF InsertEvidence, Catch, Leave, Goto, TypeOK
    <3>2. QED
      BY <2>4, <3>1 DEF OwnEvidence
  <2>5. CASE v = w /\ ~TakeRow(w) /\ ~FundingProof(w) /\ ~InsertEvidence(w)
    <3>1. pc[w] = "credit" /\ cur'[w] = cur[w] /\ proof'[w] = proof[w]
      BY <1>2, <2>5 DEF WorkerStep, StartRun, HoldHistorical, Begin, Call, Returned,
                Threw, NotYet, SaveCredited, Live, ObserveCard,
                Reserve, ReserveRefused, Complete, ReceiptRefused, Crash, Catch, Leave,
                Goto, TypeOK
    <3>2. QED
      BY <1>1, <2>5, <3>1
  <2>6. QED
    BY <2>1, <2>2, <2>3, <2>4, <2>5
<1>3. ASSUME UNCHANGED local PROVE OwnRecorded'
  BY <1>1, <1>3 DEF local, OwnRecorded
<1>4. QED
  BY <1>2, <1>3 DEF OwnRecorded, Next, RecordClaim, Charge, Tick, vars

LEMMA EvidenceStep ==
  ASSUME PInv, [Next]_vars
  PROVE  EvidenceBacked'
<1> USE DEF PInv
<1>1. evidence \subseteq evidence' /\ \A j \in Native : RowMoves(j)
  BY EvidenceGrows, RowsMove DEF Native
<1>2. ASSUME NEW j \in Native,
             jobs'[j].phase \in {"deposited"} \cup Reserved("conversion")
      PROVE  [ref |-> jobs'[j].deposit, kind |-> "deposit", job |-> j] \in evidence'
  BY <1>1, <1>2 DEF RowMoves, Marked, Begun, DepositProved, ConversionProved, GiftReserved,
                    GiftCompleted, KeepsFunds, EvidenceBacked, Reserved, After
<1>3. ASSUME NEW j \in Native,
             jobs'[j].phase \in {"converted"} \cup Reserved("gift")
      PROVE  [ref |-> jobs'[j].conversion, kind |-> "conversion", job |-> j] \in evidence'
  BY <1>1, <1>3 DEF RowMoves, Marked, Begun, DepositProved, ConversionProved, GiftReserved,
                    GiftCompleted, KeepsFunds, EvidenceBacked, Reserved, After
<1>4. \A e, f \in evidence' : e.kind = f.kind => (e.ref = f.ref <=> e.job = f.job)
  <2>1. CASE evidence' = evidence
    BY <2>1 DEF EvidenceBacked
  <2>2. CASE \E w \in Workers : InsertEvidence(w)
    <3>1. PICK w \in Workers : InsertEvidence(w)  BY <2>2
    <3>2. PICK e : e = OwnEvidence(w, proof[w].ref)  OBVIOUS
    <3>3. CASE Violates(e)  BY <2>1, <3>1, <3>2, <3>3 DEF InsertEvidence
    <3>4. CASE ~Violates(e)
      <4>1. evidence' = evidence \cup {e}  BY <3>1, <3>2, <3>4 DEF InsertEvidence
      <4>2. QED  BY <3>4, <4>1 DEF Violates, EvidenceBacked
    <3>5. QED  BY <3>3, <3>4
  <2>3. QED
    BY <2>1, <2>2 DEF Next, RecordClaim, Charge, Tick, WorkerStep, StartRun, TakeRow,
         HoldHistorical, Begin, Call, Returned, Threw, NotYet, FundingProof,
         SaveCredited, Live, ObserveCard, Reserve, ReserveRefused,
         Complete, ReceiptRefused, Crash, vars, table
<1>5. QED
  BY <1>2, <1>3, <1>4 DEF EvidenceBacked, Reserved

-----------------------------------------------------------------------------
\* What the three steps that move money do, and that no other step does.

LEMMA ReserveWrites ==
  ASSUME PInv, NEW w \in Workers, Reserve(w)
  PROVE  LET j == cur[w].id IN
         /\ j \in Native
         /\ jobs[j].phase = "converted" /\ jobs'[j].phase = "gifting"
         /\ jobs'[j].net = jobs[j].net
         /\ \A k \in Jobs : k # j => jobs'[k] = jobs[k]
         /\ reservation'[j] # None /\ reservation'[j].cents = jobs[j].net
         /\ \A k \in Jobs : k # j => reservation'[k] = reservation[k]
         /\ UNCHANGED <<charge, receipts>>
<1> USE DEF PInv, IInv
<1> DEFINE row == [Advanced(cur[w].row) EXCEPT !.card = seen[w].card]
           hold == [card |-> seen[w].card, cents |-> cur[w].row.net, completedAt |-> None]
<1>1. /\ cur[w] # None /\ cur[w].row.phase = "converted" /\ pc[w] = "reserve"
      /\ cur[w] \in Snapshot /\ cur[w].row \in Row /\ cur[w].id \in Native
      /\ seen[w] \in Observation
  BY DEF Reserve, Placed, PhasesAt, TypeOK, Snapshot, OldAreHeld
<1>2. row \in Row /\ row.revision = cur[w].row.revision /\ row.phase = "gifting"
  BY <1>1, GiftingRow
<1>3. KeepsFunds(cur[w].row, row)
  <2>1. PICK a : a = Advanced(cur[w].row)
    OBVIOUS
  <2>2. a \in Row /\ KeepsFunds(cur[w].row, a)
    BY <1>1, <2>1, AdvancedKeeps, AdvancedRow
  <2>3. QED
    BY <2>1, <2>2 DEF KeepsFunds, Row
<1>4. Save(w, row) /\ CanSave(w)
  BY DEF Reserve, Save
<1>5. hold # None /\ hold.cents = cur[w].row.net
  <2>1. hold \in Reservation
    BY <1>1 DEF Reservation, Observation, Row
  <2>2. QED
    BY <2>1, NoneAssumption
<1>6. reservation' = [reservation EXCEPT ![cur[w].id] = hold] /\ UNCHANGED <<charge, receipts>>
  BY DEF Reserve, world
<1> HIDE DEF row, hold
<1>7. /\ jobs[cur[w].id] = cur[w].row
      /\ jobs'[cur[w].id] = [row EXCEPT !.revision = @ + 1]
      /\ \A k \in Jobs : k # cur[w].id => jobs'[k] = jobs[k]
  BY <1>1, <1>2, <1>4, SaveWrites
<1>8. jobs'[cur[w].id].phase = "gifting" /\ jobs'[cur[w].id].net = jobs[cur[w].id].net
  BY <1>2, <1>3, <1>7 DEF KeepsFunds, Row
<1>9. QED
  BY <1>1, <1>5, <1>6, <1>7, <1>8 DEF TypeOK, Native

LEMMA CompleteWrites ==
  ASSUME PInv, NEW w \in Workers, Complete(w)
  PROVE  LET j == cur[w].id IN
         /\ j \in Native
         /\ jobs[j].phase = "gifting" /\ jobs'[j].phase = "completed"
         /\ jobs'[j].net = jobs[j].net
         /\ \A k \in Jobs : k # j => jobs'[k] = jobs[k]
         /\ charge[j] > 0 /\ charge' = charge
         /\ reservation'[j] # None /\ reservation'[j].cents = charge[j]
         /\ reservation'[j].completedAt # None
         /\ \A k \in Jobs : k # j => reservation'[k] = reservation[k]
         /\ \E ref \in Refs :
              /\ \A old \in receipts : old.ref # ref /\ old.job # j
              /\ receipts' = receipts \cup {[ref |-> ref, job |-> j]}
<1> USE DEF PInv, IInv
<1> DEFINE row == [cur[w].row EXCEPT !.phase = "completed"]
           paid == [card |-> reservation[cur[w].id].card, cents |-> charge[cur[w].id],
                    completedAt |-> now]
<1>1. /\ cur[w] # None /\ cur[w].row.phase = "gifting" /\ pc[w] = "ask"
      /\ cur[w] \in Snapshot /\ cur[w].row \in Row /\ cur[w].id \in Native
      /\ charge[cur[w].id] > 0
  BY DEF Complete, Placed, PhasesAt, TypeOK, Snapshot, OldAreHeld
<1>2. /\ row \in Row /\ row.revision = cur[w].row.revision /\ row.phase = "completed"
      /\ KeepsFunds(cur[w].row, row)
  BY <1>1 DEF Row, Phases, KeepsFunds
<1>3. Save(w, row) /\ CanSave(w)
  BY DEF Complete, Save
<1>4. reservation' = [reservation EXCEPT ![cur[w].id] = paid] /\ charge' = charge
  BY DEF Complete, world
<1>5. PICK ref \in MayCite[cur[w].id] :
        /\ ~Reused([ref |-> ref, job |-> cur[w].id])
        /\ receipts' = receipts \cup {[ref |-> ref, job |-> cur[w].id]}
  BY DEF Complete
<1>6. ref \in Refs
  BY <1>1, <1>5, PipelineAssumption DEF Native
<1> HIDE DEF row
<1>7. /\ jobs[cur[w].id] = cur[w].row
      /\ jobs'[cur[w].id] = [row EXCEPT !.revision = @ + 1]
      /\ \A k \in Jobs : k # cur[w].id => jobs'[k] = jobs[k]
  BY <1>1, <1>2, <1>3, SaveWrites
<1>8. jobs'[cur[w].id].phase = "completed" /\ jobs'[cur[w].id].net = jobs[cur[w].id].net
  BY <1>2, <1>7 DEF KeepsFunds, Row
<1>9. paid # None /\ paid.cents = charge[cur[w].id] /\ paid.completedAt # None
  <2>1. reservation[cur[w].id] \in Reservation
    BY <1>1, <1>7 DEF ReservedIsNet, TypeOK, Native
  <2>2. paid \in Reservation
    BY <1>1, <2>1 DEF Reservation, TypeOK, Native
  <2>3. QED
    BY <2>2, NoneAssumption DEF TypeOK
<1> HIDE DEF paid
<1>10. /\ reservation'[cur[w].id] = paid
       /\ \A k \in Jobs : k # cur[w].id => reservation'[k] = reservation[k]
  BY <1>1, <1>4 DEF TypeOK, Native
<1>11. \A old \in receipts : old.ref # ref /\ old.job # cur[w].id
  BY <1>5 DEF Reused
<1>12. QED
  BY <1>1, <1>4, <1>5, <1>6, <1>7, <1>8, <1>9, <1>10, <1>11

\* The issuer charges a gift that is reserved and not completed.
ChargedNow(j) ==
  /\ jobs[j].phase = "gifting" /\ reservation[j] # None
  /\ charge[j] = 0 /\ charge'[j] \in 1 .. reservation[j].cents

LEMMA OtherWrites ==
  ASSUME PInv, [Next]_vars, \A w \in Workers : ~Reserve(w) /\ ~Complete(w)
  PROVE  /\ UNCHANGED <<reservation, receipts>>
         /\ \A j \in Native :
              /\ \/ jobs'[j].phase = jobs[j].phase /\ jobs'[j].net = jobs[j].net
                 \/ {jobs[j].phase, jobs'[j].phase} \cap {"gifting", "completed"} = {}
              /\ charge'[j] = charge[j] \/ ChargedNow(j)
<1> USE DEF PInv, IInv
<1>1. UNCHANGED <<reservation, receipts>>
  <2>1. ASSUME NEW w \in Workers, WorkerStep(w) \/ Crash(w)
        PROVE  UNCHANGED <<reservation, receipts>>
    BY <2>1 DEF WorkerStep, StartRun, TakeRow, HoldHistorical, Begin, Call, Returned, Threw,
           NotYet, FundingProof, InsertEvidence, SaveCredited, Live, ObserveCard,
           ReserveRefused, ReceiptRefused, Crash, table
  <2>2. ASSUME NEW j \in Jobs, RecordClaim(j) \/ Charge(j)
        PROVE  UNCHANGED <<reservation, receipts>>
    BY <2>2 DEF RecordClaim, Charge, table
  <2>3. ASSUME Tick \/ UNCHANGED vars
        PROVE  UNCHANGED <<reservation, receipts>>
    BY <2>3 DEF Tick, vars, table
  <2>4. QED
    BY <2>1, <2>2, <2>3 DEF Next
<1>2. ASSUME NEW j \in Native
      PROVE  \/ jobs'[j].phase = jobs[j].phase /\ jobs'[j].net = jobs[j].net
             \/ {jobs[j].phase, jobs'[j].phase} \cap {"gifting", "completed"} = {}
  <2>1. RowMoves(j)
    BY RowsMove DEF Native
  <2>2. ~GiftReserved(j) /\ ~GiftCompleted(j)
    BY DEF GiftReserved, GiftCompleted
  <2>3. CASE jobs'[j] = jobs[j] \/ Marked(j)
    BY <2>3 DEF Marked, KeepsFunds
  <2>4. CASE jobs[j].phase = "absent" /\ jobs'[j].phase = "claimed"
    BY <2>4
  <2>5. CASE Begun(j)
    BY <2>5 DEF Begun, After
  <2>6. CASE DepositProved(j) \/ ConversionProved(j)
    BY <2>6 DEF DepositProved, ConversionProved
  <2>7. QED
    BY <2>1, <2>2, <2>3, <2>4, <2>5, <2>6 DEF RowMoves
<1>3. ASSUME NEW j \in Native
      PROVE  charge'[j] = charge[j] \/ ChargedNow(j)
  <2>1. ASSUME NEW k \in Jobs, Charge(k) PROVE charge'[j] = charge[j] \/ ChargedNow(j)
    <3>1. /\ calls[k]["gift"] > 0 /\ charge[k] = 0
          /\ \E cents \in 1 .. reservation[k].cents : charge' = [charge EXCEPT ![k] = cents]
      BY <2>1 DEF Charge
    <3>2. CASE k # j
      BY <3>1, <3>2 DEF TypeOK
    <3>3. CASE k = j
      <4>1. jobs[j].phase \in {"gifting", "completed"} /\ reservation[j] # None
        BY <3>1, <3>3 DEF CommittedBeforeCall, Effects, Reserved
      <4>2. jobs[j].phase # "completed"
        BY <3>1, <3>3 DEF SettledOnce
      <4>3. charge'[j] \in 1 .. reservation[j].cents
        BY <3>1, <3>3 DEF TypeOK
      <4>4. QED
        BY <3>1, <3>3, <4>1, <4>2, <4>3 DEF ChargedNow
    <3>4. QED
      BY <3>2, <3>3
  <2>2. ASSUME NEW w \in Workers, WorkerStep(w) \/ Crash(w) PROVE charge' = charge
    BY <2>2, Zenon DEF WorkerStep, StartRun, TakeRow, HoldHistorical, Begin, Call, Returned,
           Threw, NotYet, FundingProof, InsertEvidence, SaveCredited, Live, ObserveCard,
           Reserve, ReserveRefused, Complete, ReceiptRefused, Crash, world
  <2>3. ASSUME NEW k \in Jobs, RecordClaim(k) PROVE charge' = charge
    BY <2>3 DEF RecordClaim, world
  <2>4. ASSUME Tick \/ UNCHANGED vars PROVE charge' = charge
    BY <2>4 DEF Tick, vars, world
  <2>5. QED
    BY <2>1, <2>2, <2>3, <2>4 DEF Next
<1>4. QED
  BY <1>1, <1>2, <1>3

LEMMA MoneyStep ==
  ASSUME PInv, [Next]_vars
  PROVE  ReservedIsNet' /\ ChargedInBudget'
<1> USE DEF PInv, ReservedIsNet, ChargedInBudget
<1>0. Native \subseteq Jobs /\ \A j \in Native : charge[j] \in Nat
  BY DEF Native, IInv, TypeOK
<1>1. ASSUME NEW w \in Workers, Reserve(w) PROVE ReservedIsNet' /\ ChargedInBudget'
  <2> DEFINE j == cur[w].id
  <2>1. /\ j \in Native /\ jobs[j].phase = "converted" /\ jobs'[j].phase = "gifting"
        /\ jobs'[j].net = jobs[j].net /\ charge' = charge
        /\ reservation'[j] # None /\ reservation'[j].cents = jobs[j].net
        /\ \A k \in Jobs : k # j => jobs'[k] = jobs[k] /\ reservation'[k] = reservation[k]
    BY <1>1, ReserveWrites
  <2>2. ~(charge[j] > 0)
    BY <2>1
  <2> HIDE DEF j
  <2>3. QED
    BY <1>0, <2>1, <2>2
<1>2. ASSUME NEW w \in Workers, Complete(w) PROVE ReservedIsNet' /\ ChargedInBudget'
  <2> DEFINE j == cur[w].id
  <2>1. /\ j \in Native /\ jobs'[j].phase = "completed" /\ charge' = charge
        /\ reservation'[j] # None /\ reservation'[j].cents = charge[j]
        /\ \A k \in Jobs : k # j => jobs'[k] = jobs[k] /\ reservation'[k] = reservation[k]
    BY <1>2, CompleteWrites
  <2> HIDE DEF j
  <2>2. QED
    BY <1>0, <2>1
<1>3. CASE \A w \in Workers : ~Reserve(w) /\ ~Complete(w)
  <2>1. /\ reservation' = reservation
        /\ \A j \in Native :
              /\ \/ jobs'[j].phase = jobs[j].phase /\ jobs'[j].net = jobs[j].net
                 \/ {jobs[j].phase, jobs'[j].phase} \cap {"gifting", "completed"} = {}
              /\ charge'[j] = charge[j] \/ ChargedNow(j)
    BY <1>3, OtherWrites
  <2>2. ReservedIsNet'
    BY <2>1
  <2>3. ChargedInBudget'
    BY <2>1 DEF ChargedNow
  <2>4. QED
    BY <2>2, <2>3
<1>4. QED
  BY <1>1, <1>2, <1>3

LEMMA SettledStep ==
  ASSUME PInv, [Next]_vars
  PROVE  SettledOnce'
<1> USE DEF PInv
<1>0. Native \subseteq Jobs /\ \A j \in Native : charge[j] \in Nat
  BY DEF Native, IInv, TypeOK
<1>1. ASSUME NEW w \in Workers, Reserve(w) PROVE SettledOnce'
  <2> DEFINE j == cur[w].id
  <2>1. /\ j \in Native /\ jobs[j].phase = "converted" /\ jobs'[j].phase = "gifting"
        /\ UNCHANGED <<charge, receipts>>
        /\ \A k \in Jobs : k # j => jobs'[k] = jobs[k] /\ reservation'[k] = reservation[k]
    BY <1>1, ReserveWrites
  <2> HIDE DEF j
  <2>2. QED
    BY <1>0, <2>1 DEF SettledOnce
<1>2. ASSUME NEW w \in Workers, Complete(w) PROVE SettledOnce'
  <2> DEFINE j == cur[w].id
  <2>1. /\ j \in Native /\ jobs[j].phase = "gifting" /\ jobs'[j].phase = "completed"
        /\ jobs'[j].net = jobs[j].net /\ charge[j] > 0 /\ charge' = charge
        /\ reservation'[j].cents = charge[j] /\ reservation'[j].completedAt # None
        /\ \A k \in Jobs : k # j => jobs'[k] = jobs[k] /\ reservation'[k] = reservation[k]
    BY <1>2, CompleteWrites
  <2>2. PICK ref \in Refs :
          /\ \A old \in receipts : old.ref # ref /\ old.job # j
          /\ receipts' = receipts \cup {[ref |-> ref, job |-> j]}
    BY <1>2, CompleteWrites
  <2>3. charge[j] \in 1 .. jobs'[j].net
    BY <1>0, <2>1 DEF ChargedInBudget, ReservedIsNet
  <2> HIDE DEF j
  <2>4. ASSUME NEW k \in Native
        PROVE  /\ jobs'[k].phase = "completed" <=> \E r \in receipts' : r.job = k
               /\ jobs'[k].phase = "completed" =>
                    /\ reservation'[k].completedAt # None
                    /\ reservation'[k].cents = charge'[k]
                    /\ charge'[k] \in 1 .. jobs'[k].net
    <3>1. CASE k = j
      <4>1. [ref |-> ref, job |-> j] \in receipts' /\ [ref |-> ref, job |-> j].job = j
        BY <2>2
      <4>2. QED
        BY <2>1, <2>3, <3>1, <4>1
    <3>2. CASE k # j
      <4>1. (\E r \in receipts' : r.job = k) <=> (\E r \in receipts : r.job = k)
        BY <2>2, <3>2
      <4>2. /\ jobs'[k] = jobs[k] /\ reservation'[k] = reservation[k]
            /\ charge'[k] = charge[k]
        BY <1>0, <2>1, <3>2
      <4>3. QED
        BY <4>1, <4>2 DEF SettledOnce
    <3>3. QED
      BY <3>1, <3>2
  <2>5. \A r, s \in receipts' : r.ref = s.ref <=> r.job = s.job
    BY <2>2 DEF SettledOnce
  <2>6. QED
    BY <2>4, <2>5 DEF SettledOnce
<1>3. CASE \A w \in Workers : ~Reserve(w) /\ ~Complete(w)
  <2>1. /\ UNCHANGED <<reservation, receipts>>
        /\ \A j \in Native :
              /\ \/ jobs'[j].phase = jobs[j].phase /\ jobs'[j].net = jobs[j].net
                 \/ {jobs[j].phase, jobs'[j].phase} \cap {"gifting", "completed"} = {}
              /\ charge'[j] = charge[j] \/ ChargedNow(j)
    BY <1>3, OtherWrites
  <2>2. ASSUME NEW k \in Native
        PROVE  /\ jobs'[k].phase = "completed" <=> \E r \in receipts' : r.job = k
               /\ jobs'[k].phase = "completed" =>
                    /\ reservation'[k].completedAt # None
                    /\ reservation'[k].cents = charge'[k]
                    /\ charge'[k] \in 1 .. jobs'[k].net
    BY <1>0, <2>1 DEF SettledOnce, ChargedNow
  <2>3. QED
    BY <2>1, <2>2 DEF SettledOnce
<1>4. QED
  BY <1>1, <1>2, <1>3

LEMMA InitPInv == Init => PInv
<1> SUFFICES ASSUME Init PROVE PInv
  OBVIOUS
<1>1. IInv
  BY InitIInv
<1>2. \A j \in Native : jobs[j].phase = "absent"
  BY DEF Init, Native
<1>3. OldAreHeld /\ OwnRecorded
  BY DEF Init, OldAreHeld, OwnRecorded
<1>4. ReservedIsNet /\ ChargedInBudget
  BY <1>2 DEF Init, ReservedIsNet, ChargedInBudget, Native
<1>5. EvidenceBacked /\ SettledOnce
  BY <1>2 DEF Init, EvidenceBacked, SettledOnce, Reserved
<1>6. QED
  BY <1>1, <1>3, <1>4, <1>5 DEF PInv

LEMMA PInductive == PInv /\ [Next]_vars => PInv'
  BY Inductive, OldAreHeldStep, OwnRecordedStep, MoneyStep, EvidenceStep, SettledStep DEF PInv

\* Every phase a job reaches rests on a transfer, an order and a receipt of its
\* own: however workers race, snapshots age and processes die between steps, no
\* evidence serves two jobs, and completed jobs, receipts and closed reservations
\* are the same jobs, each charged once and within what its conversion brought.
THEOREM RestsOnProof == Spec => []Proved
<1>1. PInv => Proved
  BY DEF PInv, Proved
<1>2. QED
  BY <1>1, InitPInv, PInductive, PTL DEF Spec

-----------------------------------------------------------------------------
\* Sums.  A sum of natural numbers is the size of a set of units, so that facts
\* about sums are facts about finite sets.

Column(f, x) == {x} \X (1 .. f[x])

Units(f, S) == UNION {Column(f, x) : x \in S}

Weigh(f, S) == Cardinality(Units(f, S))

LEMMA ColumnWeighs ==
  ASSUME NEW S, NEW f \in [S -> Nat], NEW x \in S
  PROVE  IsFiniteSet(Column(f, x)) /\ Cardinality(Column(f, x)) = f[x]
<1>1. IsFiniteSet({x}) /\ Cardinality({x}) = 1
  BY FS_Singleton
<1>2. IsFiniteSet(1 .. f[x]) /\ Cardinality(1 .. f[x]) = f[x]
  BY FS_Interval
<1>3. IsFiniteSet(Column(f, x)) /\ Cardinality(Column(f, x)) = 1 * f[x]
  BY <1>1, <1>2, FS_Product DEF Column
<1>4. QED
  BY <1>3

LEMMA WeightIsNat ==
  ASSUME NEW S, IsFiniteSet(S), NEW f \in [S -> Nat], NEW T \in SUBSET S
  PROVE  IsFiniteSet(Units(f, T)) /\ Weigh(f, T) \in Nat
<1> DEFINE columns == {Column(f, x) : x \in T}
<1>1. IsFiniteSet(T)
  BY FS_Subset
<1>2. IsFiniteSet(columns)
  <2> DEFINE column == [x \in T |-> Column(f, x)]
  <2>1. column \in [T -> columns]
    OBVIOUS
  <2>2. \A y \in columns : \E x \in T : column[x] = y
    OBVIOUS
  <2>3. column \in Surjection(T, columns)
    BY <2>1, <2>2 DEF Surjection
  <2>4. QED
    BY <1>1, <2>3, FS_Surjection
<1>3. \A y \in columns : IsFiniteSet(y)
  BY ColumnWeighs
<1>4. IsFiniteSet(Units(f, T))
  BY <1>2, <1>3, FS_UNION DEF Units
<1>5. QED
  BY <1>4, FS_CardinalityType DEF Weigh

LEMMA NoWeight == ASSUME NEW f PROVE Weigh(f, {}) = 0
<1>1. Units(f, {}) = {}
  BY DEF Units
<1>2. QED
  BY <1>1, FS_EmptySet DEF Weigh

LEMMA OneMore ==
  ASSUME NEW S, IsFiniteSet(S), NEW f \in [S -> Nat], NEW T \in SUBSET S, NEW x \in S \ T
  PROVE  Weigh(f, T \cup {x}) = Weigh(f, T) + f[x]
<1>1. IsFiniteSet(Column(f, x)) /\ Cardinality(Column(f, x)) = f[x]
  BY ColumnWeighs
<1>2. IsFiniteSet(Units(f, T)) /\ Weigh(f, T) \in Nat
  BY WeightIsNat
<1>3. Units(f, T \cup {x}) = Units(f, T) \cup Column(f, x)
  BY DEF Units
<1>4. Units(f, T) \cap Column(f, x) = {}
  BY DEF Units, Column
<1>5. Cardinality(Units(f, T \cup {x})) = Cardinality(Units(f, T)) + Cardinality(Column(f, x)) - 0
  BY <1>1, <1>2, <1>3, <1>4, FS_Union, FS_EmptySet
<1>6. QED
  BY <1>1, <1>2, <1>5 DEF Weigh

LEMMA SameWeight ==
  ASSUME NEW f, NEW g, NEW T, \A x \in T : f[x] = g[x]
  PROVE  Weigh(f, T) = Weigh(g, T)
<1>1. Units(f, T) = Units(g, T)
  BY DEF Units, Column
<1>2. QED
  BY <1>1 DEF Weigh

LEMMA WeighsMore ==
  ASSUME NEW S, IsFiniteSet(S), NEW f \in [S -> Nat], NEW g \in [S -> Nat],
         NEW T \in SUBSET S, NEW U \in SUBSET T, \A x \in U : f[x] <= g[x]
  PROVE  Weigh(f, U) <= Weigh(g, T)
<1>1. IsFiniteSet(Units(g, T))
  BY WeightIsNat
<1>2. ASSUME NEW x \in U PROVE Column(f, x) \subseteq Column(g, x)
  <2>1. 1 .. f[x] \subseteq 1 .. g[x]
    OBVIOUS
  <2>2. QED
    BY <2>1 DEF Column
<1>3. Units(f, U) \subseteq Units(g, T)
  BY <1>2 DEF Units
<1>4. QED
  BY <1>1, <1>3, FS_Subset DEF Weigh

LEMMA OneChanges ==
  ASSUME NEW S, IsFiniteSet(S), NEW f \in [S -> Nat], NEW g \in [S -> Nat],
         NEW T \in SUBSET S, NEW x \in T, \A y \in T : y # x => f[y] = g[y]
  PROVE  Weigh(g, T) + f[x] = Weigh(f, T) + g[x]
<1> DEFINE rest == T \ {x}
<1>1. rest \in SUBSET S /\ x \in S \ rest /\ T = rest \cup {x}
  OBVIOUS
<1>2. Weigh(f, rest) = Weigh(g, rest)
  BY SameWeight
<1>3. Weigh(f, rest) \in Nat
  BY <1>1, WeightIsNat
<1>4. /\ Weigh(f, T) = Weigh(f, rest) + f[x]
      /\ Weigh(g, T) = Weigh(g, rest) + g[x]
  <2> HIDE DEF rest
  <2>1. QED
    BY <1>1, OneMore
<1>5. QED
  BY <1>1, <1>2, <1>3, <1>4

\* A function that adds up the subsets of S the way MapThenSumSet does.
AddsUp(h, f, S) ==
  h = [T \in SUBSET S |-> IF T = {} THEN 0
                          ELSE f[CHOOSE x \in T : TRUE] + h[T \ {CHOOSE x \in T : TRUE}]]

LEMMA WeightAddsUp ==
  ASSUME NEW S, IsFiniteSet(S), NEW f \in [S -> Nat]
  PROVE  AddsUp([T \in SUBSET S |-> Weigh(f, T)], f, S)
<1> DEFINE h == [T \in SUBSET S |-> Weigh(f, T)]
<1>1. ASSUME NEW T \in SUBSET S, T # {}
      PROVE  Weigh(f, T) = f[CHOOSE x \in T : TRUE] + h[T \ {CHOOSE x \in T : TRUE}]
  <2>1. PICK x : x = CHOOSE y \in T : TRUE
    OBVIOUS
  <2>2. x \in T
    BY <1>1, <2>1
  <2>3. x \in S \ (T \ {x}) /\ T \ {x} \in SUBSET S /\ T = (T \ {x}) \cup {x}
    BY <2>2
  <2>4. Weigh(f, T) = Weigh(f, T \ {x}) + f[x] /\ Weigh(f, T \ {x}) \in Nat /\ f[x] \in Nat
    BY <2>3, OneMore, WeightIsNat
  <2>5. h[T \ {x}] = Weigh(f, T \ {x})
    BY <2>3
  <2> HIDE DEF h
  <2>6. Weigh(f, T) = f[x] + h[T \ {x}]
    BY <2>4, <2>5
  <2>7. QED
    BY <2>1, <2>6
<1>2. \A T \in SUBSET S :
        Weigh(f, T) = IF T = {} THEN 0
                      ELSE f[CHOOSE x \in T : TRUE] + h[T \ {CHOOSE x \in T : TRUE}]
  BY <1>1, NoWeight
<1>3. h = [T \in SUBSET S |-> IF T = {} THEN 0
                      ELSE f[CHOOSE x \in T : TRUE] + h[T \ {CHOOSE x \in T : TRUE}]]
  BY <1>2, Zenon
<1>4. QED
  BY <1>3, Zenon DEF AddsUp

LEMMA SumIsWeight ==
  ASSUME NEW S, IsFiniteSet(S), NEW f \in [S -> Nat], NEW h, AddsUp(h, f, S)
  PROVE  \A T \in SUBSET S : h[T] = Weigh(f, T)
<1> DEFINE wrong == {T \in SUBSET S : h[T] # Weigh(f, T)}
<1>1. SUFFICES ASSUME wrong # {} PROVE FALSE
  OBVIOUS
<1>2. PICK T \in wrong : \A U \in wrong : ~(<<U, T>> \in StrictSubsetOrdering(S))
  <2>1. IsWellFoundedOn(StrictSubsetOrdering(S), SUBSET S)
    BY FS_StrictSubsetOrderingWellFounded, FS_FiniteSubsetsOfFinite
  <2> HIDE DEF wrong
  <2>2. wrong \subseteq SUBSET S
    BY DEF wrong
  <2>3. QED
    BY <1>1, <2>1, <2>2, WFMin
<1>3. T \in SUBSET S /\ h[T] # Weigh(f, T)
  BY <1>2
<1>4. T # {}
  <2>1. h[{}] = 0
    BY DEF AddsUp
  <2>2. QED
    BY <1>3, <2>1, NoWeight
<1>5. PICK x : x = CHOOSE y \in T : TRUE
  OBVIOUS
<1>6. x \in T
  BY <1>4, <1>5
<1>7. h[T] = f[x] + h[T \ {x}]
  BY <1>3, <1>4, <1>5 DEF AddsUp
<1>8. h[T \ {x}] = Weigh(f, T \ {x})
  <2>1. T \ {x} \subseteq T /\ T \ {x} # T /\ T \ {x} \in SUBSET S
    BY <1>3, <1>6
  <2>2. <<T \ {x}, T>> \in StrictSubsetOrdering(S)
    BY <1>3, <2>1 DEF StrictSubsetOrdering
  <2>3. QED
    BY <1>2, <2>1, <2>2
<1>9. Weigh(f, T) = Weigh(f, T \ {x}) + f[x]
  <2>1. x \in S \ (T \ {x}) /\ T \ {x} \in SUBSET S /\ T = (T \ {x}) \cup {x}
    BY <1>3, <1>6
  <2>2. QED
    BY <2>1, OneMore
<1>10. Weigh(f, T \ {x}) \in Nat /\ f[x] \in Nat
  BY <1>3, <1>6, WeightIsNat
<1>11. QED
  BY <1>3, <1>7, <1>8, <1>9, <1>10

LEMMA CentsWeigh ==
  ASSUME NEW S, IsFiniteSet(S), NEW f \in [S -> Nat], \A x \in S : Cents(x) = f[x]
  PROVE  MapThenSumSet(Cents, S) = Weigh(f, S)
<1> DEFINE Adds(h) == h = [T \in SUBSET S |->
                 IF T = {} THEN 0
                 ELSE Cents(CHOOSE x \in T : TRUE) + h[T \ {CHOOSE x \in T : TRUE}]]
<1>1. ASSUME NEW h PROVE Adds(h) <=> AddsUp(h, f, S)
  <2>1. ASSUME NEW T \in SUBSET S
        PROVE  (IF T = {} THEN 0
                ELSE Cents(CHOOSE x \in T : TRUE) + h[T \ {CHOOSE x \in T : TRUE}])
             = (IF T = {} THEN 0
                ELSE f[CHOOSE x \in T : TRUE] + h[T \ {CHOOSE x \in T : TRUE}])
    OBVIOUS
  <2>2. [T \in SUBSET S |->
           IF T = {} THEN 0
           ELSE Cents(CHOOSE x \in T : TRUE) + h[T \ {CHOOSE x \in T : TRUE}]]
      = [T \in SUBSET S |->
           IF T = {} THEN 0
           ELSE f[CHOOSE x \in T : TRUE] + h[T \ {CHOOSE x \in T : TRUE}]]
    BY <2>1, Zenon
  <2>3. QED
    BY <2>2, Zenon DEF AddsUp
<1>2. AddsUp(CHOOSE h : Adds(h), f, S)
  <2>1. PICK g : AddsUp(g, f, S)
    BY WeightAddsUp
  <2> HIDE DEF Adds
  <2>2. Adds(g)
    BY <1>1, <2>1
  <2>3. Adds(CHOOSE h : Adds(h))
    BY <2>2, Zenon
  <2>4. QED
    BY <1>1, <2>3
<1>3. MapThenSumSet(Cents, S) = (CHOOSE h : Adds(h))[S]
  BY DEF MapThenSumSet, MapThenFoldSet
<1> HIDE DEF Adds
<1>4. QED
  BY <1>2, <1>3, SumIsWeight

-----------------------------------------------------------------------------
\* The card is never overcommitted.  Gifts are reserved against observations
\* that may be old; what makes that safe is that whatever happened to the card
\* since is in the reservations the transaction adds up.

\* Gifts a card may still be charged for.
Owing(c) == {j \in Jobs : /\ reservation[j] # None
                          /\ reservation[j].card = c
                          /\ charge[j] = 0}

\* What a job takes from its card: what it was charged, or may still be.
Due == [j \in Jobs |-> IF charge[j] > 0 THEN charge[j]
                       ELSE IF reservation[j] = None THEN 0
                       ELSE reservation[j].cents]

\* A held job of an earlier release has no gift, and one is closed when charged.
GiftsAreNative == \A j \in Jobs : reservation[j] # None => j \in Native
ClosedIsCharged ==
  \A j \in Jobs : reservation[j] # None /\ charge[j] = 0 => reservation[j].completedAt = None

\* What is owed on a card next to the credit an observation showed is covered
\* by its credit now and by what is held since.
Covered ==
  \A w \in Workers : seen[w] # None =>
    /\ seen[w].at <= now
    /\ Weigh(Due, Owing(seen[w].card)) + seen[w].credit
         <= avail[seen[w].card] + Weigh(Due, HeldSince(seen[w].card, seen[w].at))

OwedIsThere == \A c \in Cards : Weigh(Due, Owing(c)) <= avail[c]

CInv == PInv /\ GiftsAreNative /\ ClosedIsCharged /\ Covered /\ OwedIsThere

LEMMA DueIsNat ==
  ASSUME CInv
  PROVE  /\ Due \in [Jobs -> Nat] /\ IsFiniteSet(Jobs)
         /\ \A c : Owing(c) \in SUBSET Jobs /\ Weigh(Due, Owing(c)) \in Nat
         /\ \A c, t : HeldSince(c, t) \in SUBSET Jobs /\ Weigh(Due, HeldSince(c, t)) \in Nat
<1>1. Due \in [Jobs -> Nat]
  BY DEF Due, CInv, PInv, IInv, TypeOK, Reservation
<1>2. IsFiniteSet(Jobs)
  BY PipelineAssumption
<1>3. \A c : Owing(c) \in SUBSET Jobs
  BY DEF Owing
<1>4. \A c, t : HeldSince(c, t) \in SUBSET Jobs
  BY DEF HeldSince
<1>5. QED
  BY <1>1, <1>2, <1>3, <1>4, WeightIsNat

\* What the issuer has charged is within what the reservation holds.
LEMMA DueIsHeld ==
  ASSUME CInv, NEW j \in Jobs, reservation[j] # None
  PROVE  reservation[j] \in Reservation /\ Due[j] <= reservation[j].cents
<1>1. reservation[j] \in Reservation /\ charge[j] \in Nat /\ j \in Native
  BY DEF CInv, PInv, IInv, TypeOK, GiftsAreNative
<1>2. charge[j] > 0 => charge[j] <= reservation[j].cents
  BY <1>1 DEF CInv, PInv, ChargedInBudget
<1>3. QED
  BY <1>1, <1>2 DEF Due, Reservation

LEMMA HeldWeighs ==
  ASSUME CInv, NEW c, NEW t
  PROVE  HeldCents(c, t) \in Nat /\ Weigh(Due, HeldSince(c, t)) <= HeldCents(c, t)
<1> DEFINE S == HeldSince(c, t)
           held == [j \in S |-> reservation[j].cents]
           due == [j \in S |-> Due[j]]
<1>1. S \in SUBSET Jobs /\ IsFiniteSet(S)
  BY PipelineAssumption, FS_Subset DEF HeldSince
<1>2. \A j \in S : reservation[j] \in Reservation /\ Due[j] <= reservation[j].cents
  BY DueIsHeld DEF HeldSince
<1>3. held \in [S -> Nat] /\ due \in [S -> Nat]
  BY <1>1, <1>2, DueIsNat DEF Reservation
<1>4. HeldCents(c, t) = Weigh(held, S)
  <2>1. \A j \in S : Cents(j) = held[j]
    BY DEF Cents
  <2> HIDE DEF held
  <2>2. MapThenSumSet(Cents, HeldSince(c, t)) = Weigh(held, S)
    BY <1>1, <1>3, <2>1, CentsWeigh
  <2>3. QED
    BY <2>2 DEF HeldCents
<1>5. Weigh(due, S) = Weigh(Due, S)
  <2>1. \A j \in S : due[j] = Due[j]
    OBVIOUS
  <2>2. QED
    BY <2>1, SameWeight
<1>6. \A j \in S : due[j] <= held[j]
  BY <1>2
<1> HIDE DEF S, held, due
<1>7. Weigh(due, S) <= Weigh(held, S) /\ Weigh(held, S) \in Nat
  BY <1>1, <1>3, <1>6, WeighsMore, WeightIsNat
<1>8. QED
  BY <1>4, <1>5, <1>7 DEF S

LEMMA OwedWeighs ==
  ASSUME CInv
  PROVE  CardNotOvercommitted
<1> SUFFICES ASSUME NEW c \in Cards PROVE MapThenSumSet(Cents, Owing(c)) <= avail[c]
  BY DEF CardNotOvercommitted, Owing
<1> DEFINE S == Owing(c)
           held == [j \in S |-> reservation[j].cents]
<1>1. S \in SUBSET Jobs /\ IsFiniteSet(S)
  BY PipelineAssumption, FS_Subset DEF Owing
<1>2. \A j \in S : reservation[j] \in Reservation /\ Due[j] = reservation[j].cents
  BY DueIsHeld DEF Owing, Due
<1>3. held \in [S -> Nat] /\ \A j \in S : Cents(j) = held[j] /\ Due[j] = held[j]
  BY <1>2 DEF Reservation, Cents
<1> HIDE DEF S, held
<1>4. MapThenSumSet(Cents, S) = Weigh(held, S)
  BY <1>1, <1>3, CentsWeigh
<1>5. Weigh(held, S) = Weigh(Due, S)
  BY <1>3, SameWeight
<1>6. QED
  BY <1>4, <1>5 DEF S, CInv, OwedIsThere

\* A reservation adds its cents to what is owed and to what is held since.
LEMMA ReserveTotals ==
  ASSUME CInv, NEW w \in Workers, Reserve(w)
  PROVE  LET c == seen[w].card
             n == cur[w].row.net
         IN /\ seen[w] \in Observation /\ n \in Nat
            /\ HeldCents(c, seen[w].at) + n <= seen[w].credit
            /\ UNCHANGED <<charge, avail, now>>
            /\ \A d : Weigh(Due, Owing(d))' = Weigh(Due, Owing(d)) + (IF d = c THEN n ELSE 0)
            /\ \A d, t : Weigh(Due, HeldSince(d, t))' =
                           Weigh(Due, HeldSince(d, t)) + (IF d = c THEN n ELSE 0)
            /\ GiftsAreNative' /\ ClosedIsCharged'
<1> DEFINE j == cur[w].id
           c == seen[w].card
           n == cur[w].row.net
           hold == [card |-> c, cents |-> n, completedAt |-> None]
<1> USE DEF CInv, PInv, IInv
<1>1. /\ pc[w] = "reserve" /\ seen[w] \in Observation /\ cur[w] \in Snapshot
      /\ HeldCents(c, seen[w].at) + n <= seen[w].credit
      /\ reservation' = [reservation EXCEPT ![j] = hold]
      /\ UNCHANGED <<charge, avail, now>>
  BY DEF Reserve, Placed, TypeOK, world
<1>2. j \in Native /\ j \in Jobs /\ n \in Nat
  BY <1>1, ReserveWrites DEF Snapshot, Row
<1>3. reservation[j] = None
  BY <1>2, ReserveWrites DEF ReservedIsNet
<1>4. charge[j] = 0
  BY <1>2, <1>3 DEF ChargedInBudget, TypeOK
<1>5. hold # None /\ hold.card = c /\ hold.cents = n /\ hold.completedAt = None
  <2>1. hold \in Reservation
    BY <1>1, <1>2 DEF Reservation, Observation
  <2>2. QED
    BY <2>1, NoneAssumption
<1>6. /\ reservation'[j] = hold
      /\ \A k \in Jobs : k # j => reservation'[k] = reservation[k]
  BY <1>1, <1>2 DEF TypeOK
<1> HIDE DEF hold, c, n, j
<1>7. GiftsAreNative' /\ ClosedIsCharged'
  BY <1>1, <1>2, <1>5, <1>6 DEF GiftsAreNative, ClosedIsCharged
<1>8. Due' \in [Jobs -> Nat] /\ Due'[j] = n /\ \A k \in Jobs : k # j => Due'[k] = Due[k]
  <2>1. \A k \in Jobs : k # j => Due'[k] = Due[k]
    BY <1>1, <1>6 DEF Due
  <2>2. Due'[j] = n
    BY <1>1, <1>2, <1>4, <1>5, <1>6 DEF Due
  <2>3. Due' = [k \in Jobs |-> Due'[k]]
    BY DEF Due
  <2>4. QED
    BY <1>2, <2>1, <2>2, <2>3, DueIsNat
<1>9. ASSUME NEW S \in SUBSET Jobs, j \notin S
      PROVE  /\ Weigh(Due', S) = Weigh(Due, S)
             /\ Weigh(Due', S \cup {j}) = Weigh(Due, S) + n
  <2>1. Weigh(Due', S) = Weigh(Due, S)
    BY <1>8, <1>9, SameWeight
  <2>2. Weigh(Due', S \cup {j}) = Weigh(Due', S) + Due'[j]
    BY <1>2, <1>8, <1>9, OneMore, PipelineAssumption
  <2>3. QED
    BY <1>8, <2>1, <2>2
<1>10. ASSUME NEW d
       PROVE  Weigh(Due, Owing(d))' = Weigh(Due, Owing(d)) + (IF d = c THEN n ELSE 0)
  <2>1. Owing(d) \in SUBSET Jobs /\ j \notin Owing(d) /\ Weigh(Due, Owing(d)) \in Nat
    BY <1>3, DueIsNat DEF Owing
  <2>2. Owing(d)' = IF d = c THEN Owing(d) \cup {j} ELSE Owing(d)
    BY <1>1, <1>2, <1>4, <1>5, <1>6, <2>1 DEF Owing
  <2>3. CASE d = c
    <3>1. Weigh(Due', Owing(d) \cup {j}) = Weigh(Due, Owing(d)) + n
      BY <1>9, <2>1
    <3>2. Owing(d)' = Owing(d) \cup {j}
      BY <2>2, <2>3
    <3>3. QED
      BY <2>3, <3>1, <3>2
  <2>4. CASE d # c
    <3>1. Weigh(Due', Owing(d)) = Weigh(Due, Owing(d))
      BY <1>9, <2>1
    <3>2. Owing(d)' = Owing(d)
      BY <2>2, <2>4
    <3>3. QED
      BY <2>1, <2>4, <3>1, <3>2
  <2>5. QED
    BY <2>3, <2>4
<1>11. ASSUME NEW d, NEW t
       PROVE  Weigh(Due, HeldSince(d, t))' =
                Weigh(Due, HeldSince(d, t)) + (IF d = c THEN n ELSE 0)
  <2>1. /\ HeldSince(d, t) \in SUBSET Jobs /\ j \notin HeldSince(d, t)
        /\ Weigh(Due, HeldSince(d, t)) \in Nat
    BY <1>3, DueIsNat DEF HeldSince
  <2>2. HeldSince(d, t)' = IF d = c THEN HeldSince(d, t) \cup {j} ELSE HeldSince(d, t)
    BY <1>2, <1>5, <1>6, <2>1 DEF HeldSince
  <2>3. QED
    BY <1>9, <2>1, <2>2
<1>12. QED
  BY <1>1, <1>2, <1>7, <1>10, <1>11 DEF c, n

\* The issuer's charge takes the reserved cents from what is owed, and what it
\* left of them from what is held since.
ChargesWithin(c, r, x) ==
  /\ c \in Cards /\ r \in Nat /\ x \in 1 .. r
  /\ avail' = [avail EXCEPT ![c] = @ - x]
  /\ \A d : Weigh(Due, Owing(d))' = Weigh(Due, Owing(d)) - (IF d = c THEN r ELSE 0)
  /\ \A d, t : Weigh(Due, HeldSince(d, t))' =
                 Weigh(Due, HeldSince(d, t)) - (IF d = c THEN r - x ELSE 0)

LEMMA ChargeTotals ==
  ASSUME CInv, NEW j \in Jobs, Charge(j)
  PROVE  /\ \E c, r, x : ChargesWithin(c, r, x)
         /\ GiftsAreNative' /\ ClosedIsCharged'
<1> USE DEF CInv, PInv, IInv
<1>1. /\ charge[j] = 0 /\ reservation[j] # None /\ reservation[j] \in Reservation
      /\ UNCHANGED reservation
  <2>1. calls[j]["gift"] > 0 /\ charge[j] = 0 /\ UNCHANGED reservation
    BY DEF Charge, table
  <2>2. QED
    BY <2>1, ChargedIsReserved, NoneAssumption
<1>2. PICK x \in 1 .. reservation[j].cents :
        /\ charge' = [charge EXCEPT ![j] = x]
        /\ avail' = [avail EXCEPT ![reservation[j].card] = @ - x]
  BY DEF Charge
<1> DEFINE c == reservation[j].card
           r == reservation[j].cents
<1>3. c \in Cards /\ r \in Nat /\ x \in Nat /\ x > 0
  BY <1>1, <1>2 DEF Reservation
<1>4. charge'[j] = x /\ \A k \in Jobs : k # j => charge'[k] = charge[k]
  BY <1>2 DEF TypeOK
<1>5. GiftsAreNative' /\ ClosedIsCharged'
  BY <1>1, <1>3, <1>4 DEF GiftsAreNative, ClosedIsCharged
<1>6. /\ Due' \in [Jobs -> Nat] /\ Due'[j] = x /\ Due[j] = r
      /\ \A k \in Jobs : k # j => Due'[k] = Due[k]
  <2>1. \A k \in Jobs : k # j => Due'[k] = Due[k]
    BY <1>1, <1>4 DEF Due
  <2>2. Due'[j] = x /\ Due[j] = r
    BY <1>1, <1>3, <1>4 DEF Due
  <2>3. Due' = [k \in Jobs |-> Due'[k]]
    BY DEF Due
  <2>4. QED
    BY <1>3, <2>1, <2>2, <2>3, DueIsNat
<1>7. ASSUME NEW d
      PROVE  Weigh(Due, Owing(d))' = Weigh(Due, Owing(d)) - (IF d = c THEN r ELSE 0)
  <2> DEFINE S == Owing(d) \ {j}
  <2>1. Owing(d)' = S
    BY <1>1, <1>3, <1>4 DEF Owing
  <2>2. S \in SUBSET Jobs /\ Weigh(Due', S) = Weigh(Due, S)
    BY <1>6, SameWeight DEF Owing
  <2>3. CASE d = c
    <3>1. Owing(d) = S \cup {j} /\ j \in Jobs \ S
      BY <1>1, <2>3 DEF Owing
    <3>2. Weigh(Due, Owing(d)) = Weigh(Due, S) + r /\ Weigh(Due, S) \in Nat
      <4> HIDE DEF S
      <4>1. QED
        BY <1>6, <2>2, <3>1, OneMore, DueIsNat, WeightIsNat
    <3> HIDE DEF S, r
    <3>3. QED
      BY <1>3, <2>1, <2>2, <2>3, <3>2
  <2>4. CASE d # c
    <3>1. Owing(d) = S
      BY <1>1, <2>4 DEF Owing
    <3>2. QED
      BY <2>1, <2>2, <2>4, <3>1, DueIsNat
  <2>5. QED
    BY <2>3, <2>4
<1>8. ASSUME NEW d, NEW t
      PROVE  Weigh(Due, HeldSince(d, t))' =
               Weigh(Due, HeldSince(d, t)) - (IF d = c THEN r - x ELSE 0)
  <2> DEFINE S == HeldSince(d, t)
  <2>1. S' = S /\ S \in SUBSET Jobs /\ Weigh(Due, S) \in Nat /\ Weigh(Due', S) \in Nat
    BY <1>1, <1>6, DueIsNat, WeightIsNat DEF HeldSince
  <2>2. CASE d = c
    <3>1. j \in S
      BY <1>1, <2>2 DEF HeldSince, ClosedIsCharged
    <3> HIDE DEF S
    <3>2. Weigh(Due', S) + r = Weigh(Due, S) + x
      BY <1>6, <2>1, <3>1, OneChanges, DueIsNat
    <3> HIDE DEF r
    <3>3. QED
      BY <1>3, <2>1, <2>2, <3>2 DEF S
  <2>3. CASE d # c
    <3>1. j \notin S
      BY <2>3 DEF HeldSince
    <3>2. Weigh(Due', S) = Weigh(Due, S)
      BY <1>6, <2>1, <3>1, SameWeight
    <3>3. QED
      BY <2>1, <2>3, <3>2
  <2>4. QED
    BY <2>2, <2>3
<1>9. ChargesWithin(c, r, x)
  BY <1>2, <1>3, <1>7, <1>8 DEF ChargesWithin
<1>10. QED
  BY <1>5, <1>9

LEMMA ReserveCovers ==
  ASSUME CInv, NEW w \in Workers, Reserve(w)
  PROVE  GiftsAreNative' /\ ClosedIsCharged' /\ Covered' /\ OwedIsThere'
<1> DEFINE c == seen[w].card
           t == seen[w].at
           n == cur[w].row.net
<1>1. /\ seen[w] \in Observation /\ n \in Nat
      /\ HeldCents(c, t) + n <= seen[w].credit
      /\ UNCHANGED <<charge, avail, now>>
      /\ \A d : Weigh(Due, Owing(d))' = Weigh(Due, Owing(d)) + (IF d = c THEN n ELSE 0)
      /\ \A d, u : Weigh(Due, HeldSince(d, u))' =
                     Weigh(Due, HeldSince(d, u)) + (IF d = c THEN n ELSE 0)
      /\ GiftsAreNative' /\ ClosedIsCharged'
  BY ReserveTotals
<1>2. seen[w] # None /\ c \in Cards /\ seen[w].credit \in Int
  BY <1>1, NoneAssumption DEF Observation
<1>3. seen' = [seen EXCEPT ![w] = None] /\ seen \in [Workers -> Observation \cup {None}]
  BY DEF Reserve, CInv, PInv, IInv, TypeOK
<1>4. avail \in [Cards -> Int]
  BY DEF CInv, PInv, IInv, TypeOK
<1>5. \A d : Weigh(Due, Owing(d)) \in Nat
  BY DueIsNat
<1>6. \A d, u : Weigh(Due, HeldSince(d, u)) \in Nat
  BY DueIsNat
<1>7. Weigh(Due, Owing(c)) + n <= avail[c]
  <2>1. Weigh(Due, Owing(c)) + seen[w].credit <= avail[c] + Weigh(Due, HeldSince(c, t))
    BY <1>2 DEF CInv, Covered
  <2>2. HeldCents(c, t) \in Nat /\ Weigh(Due, HeldSince(c, t)) <= HeldCents(c, t)
    BY HeldWeighs
  <2> HIDE DEF c, t, n
  <2>3. avail[c] \in Int
    BY <1>2, <1>4 DEF c
  <2>4. QED
    BY <1>1, <1>2, <1>5, <1>6, <2>1, <2>2, <2>3
<1> HIDE DEF c, t, n
<1>8. OwedIsThere'
  <2> SUFFICES ASSUME NEW d \in Cards PROVE Weigh(Due, Owing(d))' <= avail[d]
    BY <1>1 DEF OwedIsThere
  <2>1. Weigh(Due, Owing(d)) <= avail[d] /\ avail[d] \in Int
    BY <1>4 DEF CInv, OwedIsThere
  <2>2. Weigh(Due, Owing(d))' = Weigh(Due, Owing(d)) + (IF d = c THEN n ELSE 0)
    BY <1>1
  <2>3. QED
    BY <1>5, <1>7, <2>1, <2>2
<1>9. Covered'
  <2> SUFFICES ASSUME NEW v \in Workers, seen'[v] # None
               PROVE  /\ seen'[v].at <= now'
                      /\ Weigh(Due, Owing(seen[v].card))' + seen'[v].credit
                           <= avail'[seen'[v].card]
                              + Weigh(Due, HeldSince(seen[v].card, seen[v].at))'
    BY DEF Covered
  <2>1. v # w /\ seen'[v] = seen[v] /\ seen[v] # None
    BY <1>3
  <2>2. PICK o \in Observation : o = seen[v] /\ o = seen'[v]
    BY <1>3, <2>1
  <2>3. /\ o.at <= now
        /\ Weigh(Due, Owing(o.card)) + o.credit <= avail[o.card] + Weigh(Due, HeldSince(o.card, o.at))
    BY <2>1, <2>2 DEF CInv, Covered
  <2>4. /\ Weigh(Due, Owing(o.card))' = Weigh(Due, Owing(o.card)) + (IF o.card = c THEN n ELSE 0)
        /\ Weigh(Due, HeldSince(o.card, o.at))' =
             Weigh(Due, HeldSince(o.card, o.at)) + (IF o.card = c THEN n ELSE 0)
    BY <1>1
  <2>5. o.card \in Cards /\ o.credit \in Int /\ avail[o.card] \in Int
    BY <1>4 DEF Observation
  <2>6. Weigh(Due, Owing(o.card))' + o.credit <= avail[o.card] + Weigh(Due, HeldSince(o.card, o.at))'
    BY <1>1, <1>5, <1>6, <2>3, <2>4, <2>5
  <2>7. QED
    BY <1>1, <2>2, <2>3, <2>6
<1>10. QED
  BY <1>1, <1>8, <1>9

LEMMA ChargeCovers ==
  ASSUME CInv, NEW j \in Jobs, Charge(j)
  PROVE  GiftsAreNative' /\ ClosedIsCharged' /\ Covered' /\ OwedIsThere'
<1>1. GiftsAreNative' /\ ClosedIsCharged' /\ \E c, r, x : ChargesWithin(c, r, x)
  BY ChargeTotals
<1>2. PICK c, r, x : ChargesWithin(c, r, x)
  BY <1>1
<1>3. /\ c \in Cards /\ r \in Nat /\ x \in Nat /\ x <= r
      /\ avail' = [avail EXCEPT ![c] = @ - x]
      /\ \A d : Weigh(Due, Owing(d))' = Weigh(Due, Owing(d)) - (IF d = c THEN r ELSE 0)
      /\ \A d, t : Weigh(Due, HeldSince(d, t))' =
                     Weigh(Due, HeldSince(d, t)) - (IF d = c THEN r - x ELSE 0)
  BY <1>2 DEF ChargesWithin
<1>4. UNCHANGED <<seen, now>>
  BY DEF Charge, local
<1>5. seen \in [Workers -> Observation \cup {None}] /\ avail \in [Cards -> Int]
  BY DEF CInv, PInv, IInv, TypeOK
<1>6. \A d : Weigh(Due, Owing(d)) \in Nat
  BY DueIsNat
<1>7. \A d, u : Weigh(Due, HeldSince(d, u)) \in Nat
  BY DueIsNat
<1>8. \A d \in Cards : avail'[d] = avail[d] - (IF d = c THEN x ELSE 0) /\ avail[d] \in Int
  BY <1>3, <1>5
<1>9. OwedIsThere'
  <2> SUFFICES ASSUME NEW d \in Cards PROVE Weigh(Due, Owing(d))' <= avail'[d]
    BY DEF OwedIsThere
  <2>1. Weigh(Due, Owing(d)) <= avail[d]
    BY DEF CInv, OwedIsThere
  <2>2. Weigh(Due, Owing(d))' = Weigh(Due, Owing(d)) - (IF d = c THEN r ELSE 0)
    BY <1>3
  <2>3. QED
    BY <1>3, <1>6, <1>8, <2>1, <2>2
<1>10. Covered'
  <2> SUFFICES ASSUME NEW v \in Workers, seen'[v] # None
               PROVE  /\ seen'[v].at <= now'
                      /\ Weigh(Due, Owing(seen[v].card))' + seen'[v].credit
                           <= avail'[seen'[v].card]
                              + Weigh(Due, HeldSince(seen[v].card, seen[v].at))'
    BY DEF Covered
  <2>1. PICK o \in Observation : o = seen[v] /\ o = seen'[v]
    BY <1>4, <1>5
  <2>2. /\ o.at <= now
        /\ Weigh(Due, Owing(o.card)) + o.credit <= avail[o.card] + Weigh(Due, HeldSince(o.card, o.at))
    BY <1>4, <2>1 DEF CInv, Covered
  <2>3. /\ Weigh(Due, Owing(o.card))' = Weigh(Due, Owing(o.card)) - (IF o.card = c THEN r ELSE 0)
        /\ Weigh(Due, HeldSince(o.card, o.at))' =
             Weigh(Due, HeldSince(o.card, o.at)) - (IF o.card = c THEN r - x ELSE 0)
    BY <1>3
  <2>4. /\ o.card \in Cards /\ o.credit \in Int /\ avail[o.card] \in Int
        /\ avail'[o.card] = avail[o.card] - (IF o.card = c THEN x ELSE 0)
    BY <1>8 DEF Observation
  <2>5. Weigh(Due, Owing(o.card))' + o.credit <= avail'[o.card] + Weigh(Due, HeldSince(o.card, o.at))'
    BY <1>3, <1>6, <1>7, <2>2, <2>3, <2>4
  <2>6. QED
    BY <1>4, <2>1, <2>2, <2>5
<1>11. QED
  BY <1>1, <1>9, <1>10

\* A gift that is closed stays in what any observation so far has to count.
LEMMA CompleteCovers ==
  ASSUME CInv, NEW w \in Workers, Complete(w)
  PROVE  GiftsAreNative' /\ ClosedIsCharged' /\ Covered' /\ OwedIsThere'
<1> DEFINE j == cur[w].id
           paid == [card |-> reservation[j].card, cents |-> charge[j], completedAt |-> now]
<1>1. /\ j \in Native /\ j \in Jobs /\ jobs[j].phase = "gifting" /\ charge[j] > 0
      /\ UNCHANGED <<charge, avail, now>>
      /\ reservation' = [reservation EXCEPT ![j] = paid]
      /\ seen' = [seen EXCEPT ![w] = None]
  <2>1. j \in Native /\ jobs[j].phase = "gifting" /\ charge[j] > 0 /\ charge' = charge
    <3>1. PInv
      BY DEF CInv
    <3>2. QED
      BY <3>1, CompleteWrites
  <2>2. /\ reservation' = [reservation EXCEPT ![j] = paid]
        /\ seen' = [seen EXCEPT ![w] = None]
        /\ UNCHANGED <<avail, now>>
    BY DEF Complete, Leave, world
  <2>3. QED
    BY <2>1, <2>2 DEF Native
<1>2. reservation[j] \in Reservation /\ reservation[j] # None
  BY <1>1 DEF CInv, PInv, IInv, TypeOK, ReservedIsNet
<1>3. paid # None /\ paid.card = reservation[j].card /\ paid.completedAt = now
  <2>1. paid \in Reservation
    BY <1>1, <1>2 DEF Reservation, CInv, PInv, IInv, TypeOK
  <2>2. QED
    BY <2>1, NoneAssumption
<1>4. reservation'[j] = paid /\ \A k \in Jobs : k # j => reservation'[k] = reservation[k]
  BY <1>1 DEF CInv, PInv, IInv, TypeOK
<1> HIDE DEF paid, j
<1>5. GiftsAreNative' /\ ClosedIsCharged'
  BY <1>1, <1>4 DEF GiftsAreNative, ClosedIsCharged, CInv
<1>6. Due' = Due
  <2>1. \A k \in Jobs :
          (IF charge'[k] > 0 THEN charge'[k]
           ELSE IF reservation'[k] = None THEN 0 ELSE reservation'[k].cents)
        = (IF charge[k] > 0 THEN charge[k]
           ELSE IF reservation[k] = None THEN 0 ELSE reservation[k].cents)
    BY <1>1, <1>4
  <2>2. QED
    BY <2>1 DEF Due
<1>7. \A d : Owing(d)' = Owing(d)
  BY <1>1, <1>4 DEF Owing
<1>8. ASSUME NEW d, NEW t \in Nat, t <= now
      PROVE  HeldSince(d, t) \subseteq HeldSince(d, t)'
  <2> SUFFICES ASSUME NEW k \in HeldSince(d, t) PROVE k \in HeldSince(d, t)'
    OBVIOUS
  <2>1. CASE k = j
    <3>1. reservation'[k] # None /\ reservation'[k].card = d /\ reservation'[k].completedAt = now
      BY <1>3, <1>4, <2>1 DEF HeldSince
    <3>2. now >= t
      BY <1>8 DEF CInv, PInv, IInv, TypeOK
    <3>3. QED
      BY <3>1, <3>2 DEF HeldSince
  <2>2. CASE k # j
    BY <1>4, <2>2 DEF HeldSince
  <2>3. QED
    BY <2>1, <2>2
<1>9. OwedIsThere'
  BY <1>1, <1>6, <1>7 DEF CInv, OwedIsThere
<1>10. seen \in [Workers -> Observation \cup {None}] /\ avail \in [Cards -> Int]
  BY DEF CInv, PInv, IInv, TypeOK
<1>11. Covered'
  <2> SUFFICES ASSUME NEW v \in Workers, seen'[v] # None
               PROVE  /\ seen'[v].at <= now'
                      /\ Weigh(Due, Owing(seen[v].card))' + seen'[v].credit
                           <= avail'[seen'[v].card]
                              + Weigh(Due, HeldSince(seen[v].card, seen[v].at))'
    BY DEF Covered
  <2>1. PICK o \in Observation : o = seen[v] /\ o = seen'[v]
    BY <1>1, <1>10
  <2>2. /\ o.at <= now /\ o.at \in Nat
        /\ Weigh(Due, Owing(o.card)) + o.credit <= avail[o.card] + Weigh(Due, HeldSince(o.card, o.at))
    BY <1>1, <1>10, <2>1 DEF CInv, Covered, Observation
  <2>3. Weigh(Due, Owing(o.card))' = Weigh(Due, Owing(o.card)) /\ Weigh(Due, Owing(o.card)) \in Nat
    BY <1>6, <1>7, DueIsNat
  <2>4. /\ Weigh(Due, HeldSince(o.card, o.at)) <= Weigh(Due, HeldSince(o.card, o.at))'
        /\ Weigh(Due, HeldSince(o.card, o.at)) \in Nat
        /\ Weigh(Due, HeldSince(o.card, o.at))' \in Nat
    <3>1. /\ Due \in [Jobs -> Nat] /\ IsFiniteSet(Jobs)
          /\ HeldSince(o.card, o.at) \subseteq HeldSince(o.card, o.at)'
          /\ HeldSince(o.card, o.at) \in SUBSET Jobs /\ HeldSince(o.card, o.at)' \in SUBSET Jobs
      BY <1>8, <2>2, DueIsNat DEF HeldSince
    <3>2. \A k \in HeldSince(o.card, o.at) : Due[k] <= Due[k]
      BY <3>1
    <3>3. QED
      BY <1>6, <3>1, <3>2, WeighsMore, WeightIsNat
  <2>5. o.card \in Cards /\ o.credit \in Int /\ avail[o.card] \in Int
    BY <1>10 DEF Observation
  <2>6. QED
    BY <1>1, <2>1, <2>2, <2>3, <2>4, <2>5
<1>12. QED
  BY <1>5, <1>9, <1>11

\* Every other step leaves the books alone; an observation shows the credit the
\* issuer has, which already counts all that was charged.
LEMMA ObserveCovers ==
  ASSUME CInv, NEW w \in Workers, ObserveCard(w)
  PROVE  GiftsAreNative' /\ ClosedIsCharged' /\ Covered' /\ OwedIsThere'
<1>1. /\ UNCHANGED <<reservation, charge, avail, now>>
      /\ \E c \in Cards : seen' = [seen EXCEPT ![w] = [card |-> c, credit |-> avail[c], at |-> now]]
  BY DEF ObserveCard, table, world
<1>2. PICK c \in Cards : seen' = [seen EXCEPT ![w] = [card |-> c, credit |-> avail[c], at |-> now]]
  BY <1>1
<1>3. /\ seen \in [Workers -> Observation \cup {None}] /\ avail \in [Cards -> Int]
      /\ now \in Nat
  BY DEF CInv, PInv, IInv, TypeOK
<1>4. GiftsAreNative' /\ ClosedIsCharged'
  BY <1>1 DEF CInv, GiftsAreNative, ClosedIsCharged
<1>5. /\ Due' = Due
      /\ \A d : Owing(d)' = Owing(d)
      /\ \A d, t : HeldSince(d, t)' = HeldSince(d, t)
  BY <1>1 DEF Due, Owing, HeldSince
<1>6. OwedIsThere'
  BY <1>1, <1>5 DEF CInv, OwedIsThere
<1>7. ASSUME NEW v \in Workers, seen'[v] # None
      PROVE  /\ seen'[v].at <= now
             /\ Weigh(Due, Owing(seen'[v].card)) + seen'[v].credit
                  <= avail[seen'[v].card] + Weigh(Due, HeldSince(seen'[v].card, seen'[v].at))
  <2>1. CASE v = w
    <3>1. seen'[v].card = c /\ seen'[v].credit = avail[c] /\ seen'[v].at = now
      BY <1>2, <1>3, <2>1
    <3>2. Weigh(Due, Owing(c)) <= Weigh(Due, HeldSince(c, now))
      <4>1. Owing(c) \subseteq HeldSince(c, now)
        BY DEF Owing, HeldSince, CInv, ClosedIsCharged
      <4>2. \A k \in Owing(c) : Due[k] <= Due[k]
        BY DueIsNat
      <4>3. QED
        BY <4>1, <4>2, DueIsNat, WeighsMore
    <3>3. Weigh(Due, Owing(c)) \in Nat /\ Weigh(Due, HeldSince(c, now)) \in Nat /\ avail[c] \in Int
      BY <1>3, DueIsNat
    <3>4. QED
      BY <1>3, <3>1, <3>2, <3>3
  <2>2. CASE v # w
    <3>1. seen'[v] = seen[v]
      BY <1>2, <2>2, <1>3
    <3>2. QED
      BY <1>7, <3>1 DEF CInv, Covered
  <2>3. QED
    BY <2>1, <2>2
<1>8. Covered'
  BY <1>1, <1>5, <1>7 DEF Covered
<1>9. QED
  BY <1>4, <1>6, <1>8

Quiet ==
  /\ UNCHANGED <<reservation, charge, avail>>
  /\ now' \in Nat /\ now <= now'
  /\ \A w \in Workers : seen'[w] \in {seen[w], None}

LEMMA QuietCovers ==
  ASSUME CInv, Quiet
  PROVE  GiftsAreNative' /\ ClosedIsCharged' /\ Covered' /\ OwedIsThere'
<1>1. GiftsAreNative' /\ ClosedIsCharged'
  BY DEF Quiet, CInv, GiftsAreNative, ClosedIsCharged
<1>2. /\ Due' = Due
      /\ \A d : Owing(d)' = Owing(d)
      /\ \A d, t : HeldSince(d, t)' = HeldSince(d, t)
  BY DEF Quiet, Due, Owing, HeldSince
<1>3. OwedIsThere'
  BY <1>2 DEF Quiet, CInv, OwedIsThere
<1>4. ASSUME NEW v \in Workers, seen'[v] # None
      PROVE  /\ seen'[v].at <= now'
             /\ Weigh(Due, Owing(seen'[v].card)) + seen'[v].credit
                  <= avail[seen'[v].card] + Weigh(Due, HeldSince(seen'[v].card, seen'[v].at))
  <2>1. seen'[v] = seen[v] /\ seen[v] # None
    BY <1>4 DEF Quiet
  <2>2. seen[v].at \in Nat /\ now \in Nat
    BY <2>1 DEF CInv, PInv, IInv, TypeOK, Observation
  <2>3. seen[v].at <= now'
    BY <2>1, <2>2 DEF CInv, Covered, Quiet
  <2>4. QED
    BY <2>1, <2>3 DEF CInv, Covered
<1>5. Covered'
  BY <1>2, <1>4 DEF Covered, Quiet
<1>6. QED
  BY <1>1, <1>3, <1>5

LEMMA OthersAreQuiet ==
  ASSUME CInv, [Next]_vars,
         \A w \in Workers : ~Reserve(w) /\ ~Complete(w) /\ ~ObserveCard(w),
         \A j \in Jobs : ~Charge(j)
  PROVE  Quiet
<1>1. seen \in [Workers -> Observation \cup {None}] /\ now \in Nat
  BY DEF CInv, PInv, IInv, TypeOK
<1>2. ASSUME NEW w \in Workers, WorkerStep(w) \/ Crash(w)
      PROVE  /\ UNCHANGED <<reservation, charge, avail, now>>
             /\ seen' = seen \/ seen' = [seen EXCEPT ![w] = None]
  BY <1>2 DEF WorkerStep, StartRun, TakeRow, HoldHistorical, Begin, Call, Returned, Threw,
       NotYet, FundingProof, InsertEvidence, SaveCredited, Live, ReserveRefused,
       ReceiptRefused, Crash, Catch, Leave, table, world
<1>3. ASSUME NEW j \in Jobs, RecordClaim(j) \/ Charge(j)
      PROVE  UNCHANGED <<reservation, charge, avail, now, seen>>
  BY <1>3 DEF RecordClaim, world, local
<1>4. ASSUME Tick \/ UNCHANGED vars
      PROVE  /\ UNCHANGED <<reservation, charge, avail, seen>>
             /\ now' \in Nat /\ now <= now'
  BY <1>1, <1>4 DEF Tick, vars, table, world, local
<1>5. QED
  BY <1>1, <1>2, <1>3, <1>4 DEF Next, Quiet

LEMMA InitCInv == Init => CInv
<1> SUFFICES ASSUME Init PROVE CInv
  OBVIOUS
<1>1. PInv
  BY InitPInv
<1>2. GiftsAreNative /\ ClosedIsCharged /\ Covered
  BY DEF Init, GiftsAreNative, ClosedIsCharged, Covered
<1>3. OwedIsThere
  <2>1. \A c : Owing(c) = {}
    BY DEF Init, Owing
  <2>2. \A c : Weigh(Due, Owing(c)) = 0
    BY <2>1, NoWeight
  <2>3. \A c \in Cards : avail[c] \in Nat
    BY PipelineAssumption DEF Init
  <2>4. QED
    BY <2>2, <2>3 DEF OwedIsThere
<1>4. QED
  BY <1>1, <1>2, <1>3 DEF CInv

LEMMA CInductive == CInv /\ [Next]_vars => CInv'
<1> SUFFICES ASSUME CInv, [Next]_vars PROVE CInv'
  OBVIOUS
<1>1. PInv'
  BY PInductive DEF CInv
<1>2. GiftsAreNative' /\ ClosedIsCharged' /\ Covered' /\ OwedIsThere'
  BY ReserveCovers, CompleteCovers, ObserveCovers, ChargeCovers, OthersAreQuiet, QuietCovers
<1>3. QED
  BY <1>1, <1>2 DEF CInv

LEMMA CardCovered == Spec => []CInv
  BY InitCInv, CInductive, PTL DEF Spec

\* For any number of workers, jobs and cards and any observations however old:
\* what may still be charged to a card never exceeds the credit it really has.
THEOREM CardsCoverGifts == Spec => []CardNotOvercommitted
  BY CardCovered, OwedWeighs, PTL

-----------------------------------------------------------------------------
\* The promise.

\* A worker on its way to a reservation holds a lot within the gift's limits.
LimitsHold ==
  \A w \in Workers : pc[w] \in {"live", "card", "reserve"} => InLimits(cur[w].row)

LEMMA LimitsStep ==
  ASSUME IInv, LimitsHold, [Next]_vars
  PROVE  LimitsHold'
<1> USE DEF IInv
<1>1. ASSUME NEW w \in Workers, NEW v \in Workers, WorkerStep(w) \/ Crash(w),
             pc'[v] \in {"live", "card", "reserve"}
      PROVE  InLimits(cur'[v].row)
  <2>1. CASE v # w
    <3>1. pc'[v] = pc[v] /\ cur'[v] = cur[v]
      BY <1>1, <2>1 DEF WorkerStep, StartRun, TakeRow, HoldHistorical, Begin, Call, Returned,
                Threw, NotYet, FundingProof, InsertEvidence, SaveCredited, Live, ObserveCard,
                Reserve, ReserveRefused, Complete, ReceiptRefused, Crash, Catch, Leave,
                Goto, TypeOK
    <3>2. QED
      BY <1>1, <3>1 DEF LimitsHold
  <2>2. CASE v = w /\ TakeRow(w)
    <3>1. PICK s \in batch[w] :
            /\ pc' = [pc EXCEPT ![w] = Dispatch(s)]
            /\ cur' = [cur EXCEPT ![w] =
                         IF Dispatch(s) = "next" THEN None ELSE [id |-> s.id, row |-> s.row]]
      BY <2>2 DEF TakeRow
    <3>2. s \in Queued /\ s.row.phase \notin {"absent", "completed"}
      BY DEF TypeOK, Placed
    <3>3. Dispatch(s) \in {"live", "card", "reserve"} /\ cur'[w].row = s.row
      BY <1>1, <2>2, <3>1 DEF TypeOK
    <3>4. InLimits(s.row)
      BY <3>2, <3>3 DEF Dispatch, Queued, Row, Phases
    <3>5. QED
      BY <2>2, <3>3, <3>4
  <2>3. CASE v = w /\ ~TakeRow(w)
    <3>1. cur'[w] = cur[w] /\ pc[w] \in {"live", "card", "reserve"}
      BY <1>1, <2>3 DEF WorkerStep, StartRun, HoldHistorical, Begin, Call, Returned,
                Threw, NotYet, FundingProof, InsertEvidence, SaveCredited, Live, ObserveCard,
                Reserve, ReserveRefused, Complete, ReceiptRefused, Crash, Catch, Leave,
                Goto, TypeOK
    <3>2. QED
      BY <2>3, <3>1 DEF LimitsHold
  <2>4. QED
    BY <2>1, <2>2, <2>3
<1>2. CASE UNCHANGED local
  BY <1>2 DEF local, LimitsHold
<1>3. ASSUME NEW v \in Workers, pc'[v] \in {"live", "card", "reserve"}
      PROVE  InLimits(cur[v].row)'
  BY <1>1, <1>2, <1>3 DEF LimitsHold, InLimits, Next, RecordClaim, Charge, Tick, vars
<1>4. QED
  BY <1>3 DEF LimitsHold

\* What the database and the issuer hold, in the words of CardPromise.
StageBar(j) == IF reservation[j] = None THEN "open"
               ELSE IF jobs[j].phase = "completed" THEN "settled"
               ELSE IF charge[j] > 0 THEN "charged" ELSE "committed"
AllowBar(j) == IF reservation[j] = None THEN None
               ELSE [card |-> reservation[j].card, cents |-> reservation[j].cents]

LEMMA OutstandingIsOwed ==
  ASSUME CInv, NEW c \in Cards
  PROVE  Promise!Outstanding(c) = Weigh(Due, Owing(c))
<1> DEFINE S == Owing(c)
           held == [j \in S |-> reservation[j].cents]
           Allowed(j) == [k \in Jobs |-> AllowBar(k)][j].cents
           Adds(h) == h = [T \in SUBSET S |->
                 IF T = {} THEN 0
                 ELSE Allowed(CHOOSE x \in T : TRUE) + h[T \ {CHOOSE x \in T : TRUE}]]
<1>1. S \in SUBSET Jobs /\ IsFiniteSet(S)
  BY PipelineAssumption, FS_Subset DEF Owing
<1>2. \A j \in S : reservation[j] \in Reservation /\ Due[j] = reservation[j].cents
  BY DueIsHeld DEF Owing, Due
<1>3. \A j \in S : jobs[j].phase # "completed"
  BY DEF Owing, CInv, PInv, GiftsAreNative, SettledOnce
<1>4. held \in [S -> Nat] /\ \A j \in S : Allowed(j) = held[j] /\ Due[j] = held[j]
  <2>1. \A j \in S : AllowBar(j) = [card |-> reservation[j].card, cents |-> reservation[j].cents]
    BY DEF Owing, AllowBar
  <2>2. QED
    BY <1>1, <1>2, <2>1 DEF Reservation
<1>5. {j \in Jobs : [k \in Jobs |-> StageBar(k)][j] = "committed"
                    /\ [k \in Jobs |-> AllowBar(k)][j].card = c} = S
  <2>1. \A j \in Jobs : StageBar(j) = "committed" /\ AllowBar(j).card = c <=> j \in S
    <3> SUFFICES ASSUME NEW j \in Jobs
                 PROVE  StageBar(j) = "committed" /\ AllowBar(j).card = c <=> j \in S
      OBVIOUS
    <3>1. charge[j] \in Nat
      BY DEF CInv, PInv, IInv, TypeOK
    <3>2. CASE reservation[j] = None
      BY <3>2 DEF StageBar, Owing
    <3>3. CASE reservation[j] # None
      BY <1>3, <3>1, <3>3 DEF StageBar, AllowBar, Owing
    <3>4. QED
      BY <3>2, <3>3
  <2>2. \A j \in Jobs : /\ [k \in Jobs |-> StageBar(k)][j] = StageBar(j)
                        /\ [k \in Jobs |-> AllowBar(k)][j] = AllowBar(j)
    OBVIOUS
  <2> HIDE DEF S
  <2>3. {j \in Jobs : [k \in Jobs |-> StageBar(k)][j] = "committed"
                     /\ [k \in Jobs |-> AllowBar(k)][j].card = c}
        = {j \in Jobs : j \in S}
    BY <2>1, <2>2
  <2>4. QED
    BY <1>1, <2>3
<1>6. Promise!Outstanding(c) = (CHOOSE h : Adds(h))[S]
  <2> DEFINE listed == {j \in Jobs : [k \in Jobs |-> StageBar(k)][j] = "committed"
                                    /\ [k \in Jobs |-> AllowBar(k)][j].card = c}
             AddsTo(U, h) == h = [T \in SUBSET U |->
                 IF T = {} THEN 0
                 ELSE Allowed(CHOOSE x \in T : TRUE) + h[T \ {CHOOSE x \in T : TRUE}]]
  <2>1. Promise!Outstanding(c) = (CHOOSE h : AddsTo(listed, h))[listed]
    BY DEF Promise!Outstanding, Promise!AllowedCents, Promise!MapThenSumSet,
           Promise!MapThenFoldSet, StageBar, AllowBar
  <2>2. listed = S
    BY <1>5
  <2> HIDE DEF listed, S
  <2>3. QED
    BY <2>1, <2>2
<1>7. ASSUME NEW h PROVE Adds(h) <=> AddsUp(h, held, S)
  <2>1. ASSUME NEW T \in SUBSET S
        PROVE  (IF T = {} THEN 0
                ELSE Allowed(CHOOSE x \in T : TRUE) + h[T \ {CHOOSE x \in T : TRUE}])
             = (IF T = {} THEN 0
                ELSE held[CHOOSE x \in T : TRUE] + h[T \ {CHOOSE x \in T : TRUE}])
    <3> HIDE DEF S, held, Allowed
    <3>1. QED
      BY <1>4
  <2> HIDE DEF S, held, Allowed
  <2>2. [T \in SUBSET S |->
           IF T = {} THEN 0
           ELSE Allowed(CHOOSE x \in T : TRUE) + h[T \ {CHOOSE x \in T : TRUE}]]
      = [T \in SUBSET S |->
           IF T = {} THEN 0
           ELSE held[CHOOSE x \in T : TRUE] + h[T \ {CHOOSE x \in T : TRUE}]]
    BY <2>1, Zenon
  <2>3. QED
    BY <2>2, Zenon DEF AddsUp
<1> HIDE DEF S, held, Allowed
<1>8. AddsUp(CHOOSE h : Adds(h), held, S)
  <2>1. PICK g : AddsUp(g, held, S)
    BY <1>1, <1>4, WeightAddsUp
  <2> HIDE DEF Adds
  <2>2. Adds(g)
    BY <1>7, <2>1
  <2>3. Adds(CHOOSE h : Adds(h))
    BY <2>2, Zenon
  <2>4. QED
    BY <1>7, <2>3
<1> HIDE DEF Adds
<1>9. Promise!Outstanding(c) = Weigh(held, S)
  BY <1>1, <1>4, <1>6, <1>8, SumIsWeight
<1>10. Weigh(held, S) = Weigh(Due, S)
  BY <1>4, SameWeight
<1>11. QED
  BY <1>9, <1>10 DEF S

LEMMA InitPromises == Init => Promise!Init
  BY DEF Init, Promise!Init

\* The other jobs are as they were.
LEMMA OthersPromise ==
  ASSUME NEW j, jobs'[j].phase = "completed" <=> jobs[j].phase = "completed",
         reservation'[j] = reservation[j], charge'[j] = charge[j]
  PROVE  StageBar(j)' = StageBar(j) /\ AllowBar(j)' = AllowBar(j)
  BY DEF StageBar, AllowBar

LEMMA ReservePromises ==
  ASSUME CInv, LimitsHold, NEW w \in Workers, Reserve(w)
  PROVE  \E j \in Jobs : Promise!Commit(j)
<1> USE DEF CInv, PInv, IInv
<1>0. PICK j \in Native : j = cur[w].id
  BY ReserveWrites
<1> DEFINE c == seen[w].card
           n == cur[w].row.net
           hold == [card |-> c, cents |-> n, completedAt |-> None]
<1>1. /\ seen[w] \in Observation /\ n \in Nat
      /\ HeldCents(c, seen[w].at) + n <= seen[w].credit
      /\ UNCHANGED <<charge, avail>>
  BY ReserveTotals
<1>2. /\ j \in Native /\ j \in Jobs /\ jobs[j].phase = "converted" /\ jobs'[j].phase = "gifting"
      /\ \A k \in Jobs : k # j => jobs'[k] = jobs[k] /\ reservation'[k] = reservation[k]
  BY <1>0, ReserveWrites DEF Native
<1>3. reservation[j] = None /\ charge[j] = 0
  <2>1. reservation[j] = None
    BY <1>2 DEF ReservedIsNet
  <2>2. QED
    BY <1>2, <2>1 DEF ChargedInBudget, TypeOK
<1>4. c \in Cards /\ n > 0
  <2>1. pc[w] = "reserve"
    BY DEF Reserve
  <2>2. QED
    BY <1>1, <2>1, PipelineAssumption DEF LimitsHold, InLimits, Observation
<1>5. hold # None
  <2>1. hold \in Reservation
    BY <1>1, <1>4 DEF Reservation
  <2>2. QED
    BY <2>1, NoneAssumption
<1>6. reservation'[j] = hold
  BY <1>0, <1>2 DEF Reserve, TypeOK
<1>7. n \in 1 .. avail[c] - Promise!Outstanding(c)
  <2>1. Promise!Outstanding(c) = Weigh(Due, Owing(c)) /\ Weigh(Due, Owing(c)) \in Nat
    BY <1>4, OutstandingIsOwed, DueIsNat
  <2>2. Weigh(Due, Owing(c)) + seen[w].credit
          <= avail[c] + Weigh(Due, HeldSince(c, seen[w].at))
    <3>1. seen[w] # None
      BY <1>1, NoneAssumption
    <3>2. QED
      BY <3>1 DEF Covered
  <2>3. /\ HeldCents(c, seen[w].at) \in Nat
        /\ Weigh(Due, HeldSince(c, seen[w].at)) <= HeldCents(c, seen[w].at)
        /\ Weigh(Due, HeldSince(c, seen[w].at)) \in Nat
    BY HeldWeighs, DueIsNat
  <2>4. seen[w].credit \in Int /\ avail[c] \in Int
    BY <1>1, <1>4 DEF Observation, TypeOK
  <2> HIDE DEF n, c
  <2>5. QED
    BY <1>1, <1>4, <2>1, <2>2, <2>3, <2>4 DEF c
<1>8. /\ StageBar(j) = "open" /\ StageBar(j)' = "committed"
      /\ AllowBar(j)' = [card |-> c, cents |-> n]
  BY <1>1, <1>2, <1>3, <1>5, <1>6 DEF StageBar, AllowBar
<1> HIDE DEF hold, n, c
<1>9. \A k \in Jobs : k # j => StageBar(k)' = StageBar(k) /\ AllowBar(k)' = AllowBar(k)
  BY <1>1, <1>2, OthersPromise
<1>10. [k \in Jobs |-> StageBar(k)]' = [[k \in Jobs |-> StageBar(k)] EXCEPT ![j] = "committed"]
  BY <1>8, <1>9
<1>11. [k \in Jobs |-> AllowBar(k)]'
       = [[k \in Jobs |-> AllowBar(k)] EXCEPT ![j] = [card |-> c, cents |-> n]]
  BY <1>8, <1>9
<1>12. [k \in Jobs |-> StageBar(k)][j] = "open"
  BY <1>2, <1>8
<1>13. Promise!Commit(j)
  BY <1>1, <1>4, <1>7, <1>10, <1>11, <1>12 DEF Promise!Commit, StageBar, AllowBar
<1>14. QED
  BY <1>2, <1>13

LEMMA CompletePromises ==
  ASSUME CInv, NEW w \in Workers, Complete(w)
  PROVE  \E j \in Jobs : Promise!Settle(j)
<1> USE DEF CInv, PInv, IInv
<1>0. PICK j \in Native : j = cur[w].id
  BY CompleteWrites
<1> DEFINE paid == [card |-> reservation[j].card, cents |-> charge[j], completedAt |-> now]
<1>1. /\ j \in Native /\ j \in Jobs /\ jobs[j].phase = "gifting" /\ jobs'[j].phase = "completed"
      /\ charge[j] > 0 /\ charge' = charge
      /\ \A k \in Jobs : k # j => jobs'[k] = jobs[k] /\ reservation'[k] = reservation[k]
  BY <1>0, CompleteWrites DEF Native
<1>2. reservation' = [reservation EXCEPT ![j] = paid] /\ avail' = avail
  BY <1>0 DEF Complete, world
<1>3. reservation[j] \in Reservation /\ reservation[j] # None
  BY <1>1 DEF TypeOK, ReservedIsNet
<1>4. paid # None /\ reservation'[j] = paid
  <2>1. paid \in Reservation
    BY <1>1, <1>3 DEF Reservation, TypeOK
  <2>2. QED
    BY <1>1, <1>2, <2>1, NoneAssumption DEF TypeOK
<1>5. /\ StageBar(j) = "charged" /\ StageBar(j)' = "settled"
      /\ AllowBar(j) = [card |-> reservation[j].card, cents |-> reservation[j].cents]
      /\ AllowBar(j)' = [card |-> reservation[j].card, cents |-> charge[j]]
  BY <1>1, <1>3, <1>4 DEF StageBar, AllowBar
<1> HIDE DEF paid
<1>6. \A k \in Jobs : k # j => StageBar(k)' = StageBar(k) /\ AllowBar(k)' = AllowBar(k)
  BY <1>1, OthersPromise
<1>7. [k \in Jobs |-> StageBar(k)]' = [[k \in Jobs |-> StageBar(k)] EXCEPT ![j] = "settled"]
  BY <1>5, <1>6
<1>8. [k \in Jobs |-> AllowBar(k)]' = [[k \in Jobs |-> AllowBar(k)] EXCEPT ![j].cents = charge[j]]
  <2>1. [AllowBar(j) EXCEPT !.cents = charge[j]] = AllowBar(j)'
    BY <1>5
  <2>2. QED
    BY <1>6, <2>1
<1>9. [k \in Jobs |-> StageBar(k)][j] = "charged"
  BY <1>1, <1>5
<1>10. Promise!Settle(j)
  BY <1>1, <1>2, <1>7, <1>8, <1>9 DEF Promise!Settle, StageBar, AllowBar
<1>11. QED
  BY <1>1, <1>10

LEMMA ChargePromises ==
  ASSUME CInv, NEW j \in Jobs, Charge(j)
  PROVE  Promise!Charge(j)
<1> USE DEF CInv, PInv, IInv
<1>1. /\ charge[j] = 0 /\ calls[j]["gift"] > 0
      /\ UNCHANGED <<reservation, jobs>>
  BY DEF Charge, table
<1>2. reservation[j] \in Reservation /\ reservation[j] # None
  BY <1>1, ChargedIsReserved, NoneAssumption
<1>3. PICK x \in 1 .. reservation[j].cents :
        /\ charge' = [charge EXCEPT ![j] = x]
        /\ avail' = [avail EXCEPT ![reservation[j].card] = @ - x]
  BY DEF Charge
<1>4. charge'[j] = x /\ x > 0 /\ \A k \in Jobs : k # j => charge'[k] = charge[k]
  BY <1>2, <1>3 DEF TypeOK, Reservation
<1>5. jobs[j].phase # "completed"
  BY <1>1, <1>2 DEF GiftsAreNative, SettledOnce
<1>6. /\ StageBar(j) = "committed" /\ StageBar(j)' = "charged"
      /\ AllowBar(j) = [card |-> reservation[j].card, cents |-> reservation[j].cents]
  BY <1>1, <1>2, <1>4, <1>5 DEF StageBar, AllowBar
<1>7. \A k \in Jobs : AllowBar(k)' = AllowBar(k)
  BY <1>1 DEF AllowBar
<1>8. \A k \in Jobs : k # j => StageBar(k)' = StageBar(k)
  BY <1>1, <1>4 DEF StageBar
<1>9. [k \in Jobs |-> StageBar(k)]' = [[k \in Jobs |-> StageBar(k)] EXCEPT ![j] = "charged"]
  BY <1>6, <1>8
<1>10. [k \in Jobs |-> AllowBar(k)]' = [k \in Jobs |-> AllowBar(k)]
  BY <1>7
<1>11. /\ [k \in Jobs |-> StageBar(k)][j] = "committed"
       /\ [k \in Jobs |-> AllowBar(k)][j].cents = reservation[j].cents
       /\ [k \in Jobs |-> AllowBar(k)][j].card = reservation[j].card
  BY <1>6
<1>12. QED
  BY <1>3, <1>9, <1>10, <1>11 DEF Promise!Charge, StageBar, AllowBar

LEMMA IdlePromises ==
  ASSUME CInv, [Next]_vars, \A w \in Workers : ~Reserve(w) /\ ~Complete(w),
         \A j \in Jobs : ~Charge(j)
  PROVE  UNCHANGED Promise!vars
<1>1. UNCHANGED <<reservation, charge, avail>>
  <2>1. ASSUME NEW w \in Workers, WorkerStep(w) \/ Crash(w)
        PROVE  UNCHANGED <<reservation, charge, avail>>
    BY <2>1 DEF WorkerStep, StartRun, TakeRow, HoldHistorical, Begin, Call, Returned, Threw,
         NotYet, FundingProof, InsertEvidence, SaveCredited, Live, ObserveCard, ReserveRefused,
         ReceiptRefused, Crash, table, world
  <2>2. ASSUME NEW j \in Jobs, RecordClaim(j) \/ Charge(j)
        PROVE  UNCHANGED <<reservation, charge, avail>>
    BY <2>2 DEF RecordClaim, world
  <2>3. ASSUME Tick \/ UNCHANGED vars
        PROVE  UNCHANGED <<reservation, charge, avail>>
    BY <2>3 DEF Tick, vars, table, world
  <2>4. QED
    BY <2>1, <2>2, <2>3 DEF Next
<1>2. ASSUME NEW j \in Native
      PROVE  jobs'[j].phase = "completed" <=> jobs[j].phase = "completed"
  BY OtherWrites DEF CInv
<1>3. \A j \in Jobs : StageBar(j)' = StageBar(j) /\ AllowBar(j)' = AllowBar(j)
  BY <1>1, <1>2 DEF StageBar, AllowBar, CInv, GiftsAreNative
<1>4. /\ [k \in Jobs |-> StageBar(k)]' = [k \in Jobs |-> StageBar(k)]
      /\ [k \in Jobs |-> AllowBar(k)]' = [k \in Jobs |-> AllowBar(k)]
  BY <1>3
<1>5. QED
  BY <1>1, <1>4 DEF Promise!vars, StageBar, AllowBar

LEMMA NextPromises == ASSUME CInv, LimitsHold, [Next]_vars PROVE [Promise!Next]_Promise!vars
<1>1. ASSUME NEW w \in Workers, Reserve(w) PROVE Promise!Next
  BY <1>1, ReservePromises DEF Promise!Next
<1>2. ASSUME NEW w \in Workers, Complete(w) PROVE Promise!Next
  BY <1>2, CompletePromises DEF Promise!Next
<1>3. ASSUME NEW j \in Jobs, Charge(j) PROVE Promise!Next
  BY <1>3, ChargePromises DEF Promise!Next
<1>4. QED
  BY <1>1, <1>2, <1>3, IdlePromises

\* However late the observation a gift was reserved against and whoever raced for
\* the card, an issuer who sees the whole of its books sees a gift committed only
\* within the credit left, charged once within its budget, and settled at that.
THEOREM CardsAsPromised == Spec => KeepsPromise
<1>1. Init => Promise!Init
  BY InitPromises
<1>2. CInv /\ LimitsHold /\ [Next]_vars => [Promise!Next]_Promise!vars
  BY NextPromises
<1>3. Init => LimitsHold
  BY DEF Init, LimitsHold
<1>4. CInv /\ LimitsHold /\ [Next]_vars => LimitsHold'
  BY LimitsStep DEF CInv, PInv
<1>5. Spec => []CInv
  BY CardCovered
<1>6. QED
  BY <1>1, <1>2, <1>3, <1>4, <1>5, PTL DEF Spec, KeepsPromise, Promise!Spec

=============================================================================

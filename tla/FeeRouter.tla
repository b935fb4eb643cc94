----------------------------- MODULE FeeRouter -----------------------------
(***************************************************************************)
(* Native fee intake: server/agents/fee-router.ts between the sources that  *)
(* scanSources() of server/services.ts polls and the intakes of the         *)
(* streamer pipeline and the buyback worker.                                *)
(*                                                                          *)
(* Every services process runs two threads that only meet in the database:  *)
(* the source scan, which outlives the cycle that started it, and the hand- *)
(* off of the outbox to the buyback worker.  Each statement or transaction  *)
(* is one step, so a process may die between any two of them.               *)
(***************************************************************************)
EXTENDS Integers, Sequences

CONSTANTS
  Lots,        \* the lots that come to be finalized, in that order
  Sources,     \* how many sources a scan polls, each with its own catch
  SourceOf,    \* the source of each lot
  Redelivered, \* those whose source knows no acknowledgement (Solana claims)
  Historical,  \* pipeline jobs an earlier release recorded without a split
  MaxSource,   \* policy.maxSourceAmountBaseUnits of the buyback worker
  Processes,   \* services processes sharing the database
  MaxFailures, \* bound on crashes and failed calls together
  Nothing      \* no lot in hand

Index == 1 .. Len(Lots)

\* The native share of a lot that goes to buybacks: a fifth, rounded down.
Fifth(lot) == lot.units \div 5

\* The child of a lot, under an identity of its own.
Child(lot, branch, units) == [lot EXCEPT !.id = <<lot.id, branch>>, !.units = units]

Streamer(lot) == Child(lot, "streamer", lot.units - Fifth(lot))
BuybackOf(lot) == Child(lot, "buyback", Fifth(lot))

ASSUME FeeRouterAssumption ==
  /\ Len(Lots) \in Nat
  /\ \A i \in Index : /\ DOMAIN Lots[i] = {"id", "ref", "token", "units"}
                      /\ Lots[i].units \in Nat \ {0}
  /\ Sources \in Nat \ {0} /\ SourceOf \in [Index -> 1 .. Sources]
  /\ Redelivered \subseteq Index
  /\ \A job \in Historical : \A i \in Index : job.id # Streamer(Lots[i]).id
  /\ \A a, b \in Historical : a.ref = b.ref /\ a.token = b.token => a = b
  /\ MaxSource \in Nat /\ MaxFailures \in Nat
  /\ Nothing \notin Index

VARIABLES
  found,     \* how many lots are final at their source
  returned,  \* lots acknowledged to their source
  splits,    \* agent_native_fee_splits
  outbox,    \* agent_native_buyback_outbox, with acknowledged_at as a flag
  pipeline,  \* agent_fee_jobs: the children the pipeline has taken in
  buyback,   \* agent_buyback_jobs: the children the buyback worker has
  turn,      \* the source a process's scan polls next
  todo,      \* what it has still to record of the one it polled
  toAck,     \* the lot its scan has recorded and not acknowledged
  children,  \* what its hand-off has still to pass on
  handed,    \* the child its hand-off has passed on and not acknowledged
  failures   \* crashes and failed calls so far

routerTables == <<splits, outbox, pipeline, buyback>>
scan == <<turn, todo, toAck>>
handoff == <<children, handed>>
routerVars == <<found, returned, routerTables, scan, handoff, failures>>

RouterInit ==
  /\ found = 0 /\ returned = {}
  /\ splits = {} /\ outbox = {} /\ pipeline = Historical /\ buyback = {}
  /\ turn = [p \in Processes |-> 1]
  /\ todo = [p \in Processes |-> {}] /\ toAck = [p \in Processes |-> Nothing]
  /\ children = [p \in Processes |-> {}] /\ handed = [p \in Processes |-> Nothing]
  /\ failures = 0

\* A call to a source fails or a process dies.
Failure == failures < MaxFailures /\ failures' = failures + 1

\* A source finalizes its next lot.
Find ==
  /\ found < Len(Lots) /\ found' = found + 1
  /\ UNCHANGED <<returned, routerTables, scan, handoff, failures>>

-----------------------------------------------------------------------------
\* The source scan.

\* Mutant: every scan ends at its first source.
NextSourceFirst(p) == 1
\* The next source, failed or not; after the last one a new scan starts.
NextSource(p) == (turn[p] % Sources) + 1

\* scan() answers with the lots it has not been told are recorded.
Scan(p) ==
  /\ todo[p] = {} /\ toAck[p] = Nothing
  /\ todo' = [todo EXCEPT ![p] = {i \in (1 .. found) \ returned : SourceOf[i] = turn[p]}]
  /\ turn' = [turn EXCEPT ![p] = NextSource(p)]
  /\ UNCHANGED <<found, returned, routerTables, toAck, handoff, failures>>

\* scan() throws.
ScanFails(p) ==
  /\ todo[p] = {} /\ toAck[p] = Nothing
  /\ Failure
  /\ turn' = [turn EXCEPT ![p] = NextSource(p)]
  /\ UNCHANGED <<found, returned, routerTables, todo, toAck, handoff>>

\* The first of the lots the scan returned.
InHand(p, i) == i \in todo[p] /\ \A k \in todo[p] : i <= k

SameClaim(a, b) == a.ref = b.ref /\ a.token = b.token

\* WHERE id=? OR claim_identity=?
Previous(lot) == {old \in splits : old.id = lot.id \/ SameClaim(old, lot)}

\* Mutant: a child is taken whatever claim an earlier job was paid from.
RefusedNever(child) == \E old \in pipeline : old.id = child.id /\ old # child

\* pipeline.recordClaim refuses a child: another one has its id, or, being new,
\* it meets UNIQUE claim_identity.
Refused(child) ==
  \E old \in pipeline :
    IF old.id = child.id THEN old # child ELSE SameClaim(old, child)

OutboxOf(lot) ==
  IF Fifth(lot) = 0 THEN {} ELSE {[child |-> BuybackOf(lot), acked |-> FALSE]}

\* recordClaim of a new lot: split, outbox and pipeline in one transaction.
Split(p) ==
  /\ toAck[p] = Nothing
  /\ \E i \in Index :
       LET lot == Lots[i] IN
       /\ InHand(p, i) /\ Previous(lot) = {} /\ ~Refused(Streamer(lot))
       /\ splits' = splits \cup {lot}
       /\ outbox' = outbox \cup OutboxOf(lot)
       /\ pipeline' = pipeline \cup {Streamer(lot)}
       /\ toAck' = [toAck EXCEPT ![p] = i]
  /\ UNCHANGED <<found, returned, buyback, turn, todo, handoff, failures>>

\* recordClaim of a lot already split, the same in every field.
Known(p) ==
  /\ toAck[p] = Nothing
  /\ \E i \in Index :
       /\ InHand(p, i) /\ Previous(Lots[i]) = {Lots[i]}
       /\ toAck' = [toAck EXCEPT ![p] = i]
  /\ UNCHANGED <<found, returned, routerTables, turn, todo, handoff, failures>>

\* recordClaim throws and rolls back: the source is given up for this scan.
Conflict(p) ==
  /\ toAck[p] = Nothing
  /\ \E i \in Index :
       LET lot == Lots[i] IN
       /\ InHand(p, i)
       /\ \/ Previous(lot) \notin {{}, {lot}}
          \/ Previous(lot) = {} /\ Refused(Streamer(lot))
  /\ todo' = [todo EXCEPT ![p] = {}]
  /\ UNCHANGED <<found, returned, routerTables, turn, toAck, handoff, failures>>

\* source.acknowledge(lot.id), where there is one.
Return(p) ==
  /\ toAck[p] # Nothing
  /\ returned' = returned \cup ({toAck[p]} \ Redelivered)
  /\ todo' = [todo EXCEPT ![p] = @ \ {toAck[p]}]
  /\ toAck' = [toAck EXCEPT ![p] = Nothing]
  /\ UNCHANGED <<found, routerTables, turn, handoff, failures>>

\* acknowledge() throws, before or after it took effect: the source is given up.
ReturnFails(p) ==
  /\ toAck[p] # Nothing
  /\ Failure
  /\ returned' \in {returned, returned \cup ({toAck[p]} \ Redelivered)}
  /\ todo' = [todo EXCEPT ![p] = {}]
  /\ toAck' = [toAck EXCEPT ![p] = Nothing]
  /\ UNCHANGED <<found, routerTables, turn, handoff>>

-----------------------------------------------------------------------------
\* The hand-off of the outbox to the buyback worker.

\* buybackLots(): what is not acknowledged.
ListChildren(p) ==
  /\ children[p] = {} /\ handed[p] = Nothing
  /\ children' = [children EXCEPT ![p] = {o.child : o \in {e \in outbox : ~e.acked}}]
  /\ UNCHANGED <<found, returned, routerTables, scan, handed, failures>>

\* buyback.recordClaim refuses a child: over the policy's limit, another one has
\* its id, or, being new, it meets UNIQUE claim_identity, which names no token.
Declined(child) ==
  \/ child.units > MaxSource
  \/ \E old \in buyback :
       IF old.id = child.id THEN old # child ELSE old.ref = child.ref

HandOver(p) ==
  /\ handed[p] = Nothing
  /\ \E child \in children[p] :
       /\ children' = [children EXCEPT ![p] = @ \ {child}]
       /\ IF Declined(child)
          THEN UNCHANGED <<buyback, handed>>
          ELSE /\ buyback' = buyback \cup {child}
               /\ handed' = [handed EXCEPT ![p] = child]
  /\ UNCHANGED <<found, returned, splits, outbox, pipeline, scan, failures>>

\* Mutant: the whole outbox is acknowledged at once.
AckedAll(child) == {[o EXCEPT !.acked = TRUE] : o \in outbox}

\* SET acknowledged_at=COALESCE(acknowledged_at,?) WHERE id=?
Acked(child) == {IF o.child.id = child.id THEN [o EXCEPT !.acked = TRUE] ELSE o : o \in outbox}

AcknowledgeBuyback(p) ==
  /\ handed[p] # Nothing
  /\ outbox' = Acked(handed[p])
  /\ handed' = [handed EXCEPT ![p] = Nothing]
  /\ UNCHANGED <<found, returned, splits, pipeline, buyback, scan, children, failures>>

-----------------------------------------------------------------------------
\* The process dies and is started again; only the databases are left.
Dies(p) ==
  /\ Failure
  /\ turn' = [turn EXCEPT ![p] = 1]
  /\ todo' = [todo EXCEPT ![p] = {}] /\ toAck' = [toAck EXCEPT ![p] = Nothing]
  /\ children' = [children EXCEPT ![p] = {}] /\ handed' = [handed EXCEPT ![p] = Nothing]
  /\ UNCHANGED <<found, returned, routerTables>>

ScanStep(p) ==
  \/ Scan(p) \/ ScanFails(p) \/ Split(p) \/ Known(p) \/ Conflict(p)
  \/ Return(p) \/ ReturnFails(p)
HandoffStep(p) == ListChildren(p) \/ HandOver(p) \/ AcknowledgeBuyback(p)

RouterNext == Find \/ \E p \in Processes : ScanStep(p) \/ HandoffStep(p) \/ Dies(p)

RouterSpec == RouterInit /\ [][RouterNext]_routerVars

\* The service's timer starts a scan and a hand-off again and again.
RouterFairSpec ==
  RouterSpec /\ \A p \in Processes : WF_routerVars(ScanStep(p)) /\ WF_routerVars(HandoffStep(p))

-----------------------------------------------------------------------------
LotsSet == {Lots[i] : i \in Index}
ChildrenOf(branch(_)) == {branch(lot) : lot \in LotsSet}

RouterTypeOK ==
  /\ found \in 0 .. Len(Lots) /\ returned \subseteq 1 .. found
  /\ splits \subseteq LotsSet
  /\ outbox \subseteq [child : ChildrenOf(BuybackOf), acked : BOOLEAN]
  /\ pipeline \subseteq Historical \cup ChildrenOf(Streamer)
  /\ buyback \subseteq ChildrenOf(BuybackOf)
  /\ turn \in [Processes -> 1 .. Sources]
  /\ todo \in [Processes -> SUBSET (1 .. found)]
  /\ toAck \in [Processes -> (1 .. found) \cup {Nothing}]
  /\ children \in [Processes -> SUBSET ChildrenOf(BuybackOf)]
  /\ handed \in [Processes -> ChildrenOf(BuybackOf) \cup {Nothing}]
  /\ failures \in Nat

\* The children of a split account for every base unit of it, and nothing is
\* shared out that no split stands for.
Conserved ==
  /\ \A lot \in splits :
       \E job \in pipeline :
         LET fifths == {o.child : o \in {e \in outbox : e.child.id[1] = lot.id}} IN
         /\ job.id = <<lot.id, "streamer">>
         /\ \/ fifths = {} /\ job.units = lot.units
            \/ \E child \in fifths : /\ fifths = {child} /\ child.units > 0
                                     /\ job.units + child.units = lot.units
                                     /\ job.units >= 4 * child.units
  /\ \A job \in pipeline \ Historical : \E lot \in splits : job = Streamer(lot)
  /\ \A o \in outbox : \E lot \in splits : o.child = BuybackOf(lot)

\* A claim is paid out once: over all releases, one pipeline job has it, and a
\* job of an earlier release, which took it whole, leaves nothing to split.
PaidOnce ==
  /\ \A a, b \in pipeline : SameClaim(a, b) => a = b
  /\ \A a, b \in splits : (a.id = b.id \/ SameClaim(a, b)) => a = b
  /\ \A job \in Historical, lot \in splits : ~SameClaim(job, lot)

\* A claim is split once and exactly, over all releases, scans and crashes.
SplitOnce == RouterTypeOK /\ Conserved /\ PaidOnce

\* evm-source.ts: "call only after pipeline.recordClaim has durably accepted the
\* lot"; fee-router.ts: "acknowledgement means durable buyback worker intake".
AcknowledgedIsDurable ==
  /\ \A i \in returned : Lots[i] \in splits /\ Streamer(Lots[i]) \in pipeline
  /\ \A o \in outbox : o.acked => o.child \in buyback

-----------------------------------------------------------------------------
\* A lot no other lot and no earlier job disputes.
Undisputed(lot) ==
  /\ \A other \in LotsSet : other.id = lot.id \/ other.ref = lot.ref => other = lot
  /\ \A job \in Historical : ~SameClaim(job, lot)

\* Every lot a source found is split in the end, and the buyback worker has its
\* child, unless the policy's limit keeps it in the outbox; disputed lots hold up
\* what their own source has behind them, and no other source.
EveryLotArrives ==
  \A i \in Index :
    (\A k \in 1 .. i : SourceOf[k] = SourceOf[i] => Undisputed(Lots[k])) =>
    (found >= i ~> /\ Lots[i] \in splits
                   /\ Fifth(Lots[i]) \in 1 .. MaxSource => BuybackOf(Lots[i]) \in buyback)
=============================================================================

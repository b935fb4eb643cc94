--------------------------- MODULE TestingBudget ---------------------------
(***************************************************************************)
(* The testing budget (server/workers/testing-budget.ts), which holds every *)
(* paid operation under one cap, and the browser provider that asks it      *)
(* before it creates a session (server/providers/budgeted-browserbase.ts).  *)
(* The budget lives in the ledger's database and reads its payments: the    *)
(* costs of a creator's own payment are held under that payment's reserve   *)
(* and not under the cap.                                                   *)
(*                                                                          *)
(* Every method is one transaction, so it is an action, with what it calls  *)
(* in its own savepoint.  A confirmed cost above its reservation freezes    *)
(* the budget for good; an operator who has reviewed exactly these overruns *)
(* lets spending go on, for all (approveGlobalRecovery) or for one payment  *)
(* and a quarter of an hour (approveFundingRecovery).  A fingerprint is the *)
(* set of overruns it hashes and the number of the last incident.           *)
(*                                                                          *)
(* An operation is a kind of cost and what it is for.  Its attempt is known *)
(* by its state: a state names it if and only if the operation was tried.   *)
(* A repeated call with the same content changes nothing, and a differing   *)
(* one is refused; neither is an action.                                    *)
(***************************************************************************)
EXTENDS Ledger, Sequences

CONSTANTS
  Operations,  \* <<kind, what it is for>>: a payment, a browser attempt, an invoice
  Cap,         \* TESTING_CAP_USD_CENTS
  Ceiling,     \* what a testing reservation asks for
  Actuals,     \* what an operation may turn out to have cost
  Proofs,      \* identifiers of receipts and invoices
  Callers,     \* processes that create browser sessions
  MaxFreezes   \* bound on explicit freezes

ASSUME TestingBudgetAssumption ==
  /\ IsFiniteSet(Operations)
  /\ \A op \in Operations : op = <<op[1], op[2]>>
  /\ \A op \in Operations, id \in Proofs : None \notin {<<op[1], id>>, <<"no_spend", id>>}
  /\ Cap \in Nat /\ Ceiling \in Nat \ {0} /\ Actuals \subseteq Nat \ {0}
  /\ None \notin Payments \cup {"overrun", "policy"} /\ MaxFreezes \in Nat

VARIABLES
  expense,    \* worker_testing_budget_costs
  authorized, \* worker_creator_funding_authorizations, by payment
  reason,     \* freeze_reason; the budget is frozen if there is one
  incidents,  \* worker_testing_budget_events "testing_frozen": their reasons
  approved,   \* worker_global_recovery_grants, by fingerprint
  recovery,   \* worker_funding_recovery_grants
  review,     \* the challenge an operator has in hand
  executed,   \* how often an operation was told to execute
  caller,     \* createSession of each process
  asked, sessions  \* the provider: paid requests, and sessions by attempt

budget == <<expense, authorized, reason, incidents, approved, recovery, review, executed>>
browser == <<caller, asked, sessions>>

CreatorKinds == {"gift", "chain_fee", "offramp_fee"}
Attempts == {op[2] : op \in {o \in Operations : o[1] = "browser_fee"}}
Session(a) == <<"browser_fee", a>>

States == {"none", "reserved", "unresolved", "settled", "released", "cancelled"}
Tried(op) == expense[op].state \in {"unresolved", "settled", "released"}

NoExpense == [state |-> "none", max |-> 0, actual |-> 0, proof |-> None]

BudgetInit ==
  /\ Init
  /\ expense = [op \in Operations |-> NoExpense]
  /\ authorized = {} /\ reason = None /\ incidents = <<>>
  /\ approved = {} /\ recovery = [p \in Payments |-> None] /\ review = None
  /\ executed = [op \in Operations |-> 0]
  /\ caller = [c \in Callers |-> None]
  /\ asked = [a \in Attempts |-> 0] /\ sessions = {}

-----------------------------------------------------------------------------
\* What is spent, and whether more may be.

\* creatorCost(): the operation belongs to an authorized payment; the others are
\* paid from the cap.
Creator(op) == op[1] \in CreatorKinds /\ op[2] \in authorized
Common == {op \in Operations : ~Creator(op)}

\* Mutant: what was begun and not yet proved is not counted.
AllocatedProved(op) ==
  CASE expense[op].state = "reserved" -> expense[op].max
    [] expense[op].state = "settled" -> expense[op].actual
    [] OTHER -> 0

Allocated(op) ==
  CASE expense[op].state \in {"reserved", "unresolved"} -> expense[op].max
    [] expense[op].state = "settled" -> expense[op].actual
    [] OTHER -> 0

\* snapshot(): creators' costs are summed apart.
Total == SumFunction([op \in Common |-> Allocated(op)])

Overruns == {op \in Operations : expense[op].state = "settled" /\ expense[op].actual > expense[op].max}

\* What recoveryIncident() hashes.
Incident == [overruns |-> Overruns, event |-> Len(incidents)]

\* Mutant: a policy freeze after the overrun is not looked at.
RecoverableAlways == reason = "overrun" /\ Overruns # {}

\* recoveryIncident(): nothing but confirmed overruns, and no policy freeze after.
Recoverable ==
  /\ reason = "overrun" /\ Overruns # {}
  /\ incidents # <<>> => incidents[Len(incidents)] = "overrun"

GlobalRecovery == Total <= Cap /\ Recoverable /\ Incident \in approved
Frozen == reason # None /\ ~GlobalRecovery

\* fundingRecoveryChallenge()
Challenged == Total <= Cap /\ Frozen /\ Recoverable

-----------------------------------------------------------------------------
\* The payment behind a cost.

\* The ceilings that the native intent of a payment sets.
CeilingOf(op) ==
  LET n == pay[op[2]].plan IN
  CASE op[1] = "gift" -> n.gift [] op[1] = "chain_fee" -> n.gas [] OTHER -> n.conv

Group(p) == {op \in Operations : op[1] \in CreatorKinds /\ op[2] = p}

\* creatorPayment(): a streamer's payment with a native intent that its budget covers.
CreatorPayment(p) ==
  LET n == pay[p].plan IN
  /\ n # None /\ ChannelOf[pay[p].token] = "twitch"
  /\ n.gas <= Cap /\ n.conv <= Cap
  /\ n.gift + n.gas + n.conv <= pay[p].budget
  /\ pay[p].pinned \in 1 .. pay[p].budget

\* Nothing was sent for it yet, and the ledger holds its budget.
Untouched(p) ==
  /\ pay[p].status \in {"reserved", "funding_pending"}
  /\ ~pay[p].funded /\ ~pay[p].failed
  /\ led[p].reserved >= pay[p].budget

\* recoveryPayment()
RecoveryPayment(p) == Untouched(p) /\ ChannelOf[pay[p].token] = "twitch"

\* creatorCost(.., active): the payment still authorizes execution.
Active(op) ==
  Creator(op) => /\ CreatorPayment(op[2])
                 /\ pay[op[2]].status \notin {"completed", "cancelled"} /\ ~pay[op[2]].failed

\* assertFundingRecovery()
FundingRecovery(p) ==
  /\ recovery[p] # None /\ ~recovery[p].expired
  /\ Challenged /\ recovery[p].incident = Incident
  /\ RecoveryPayment(p)

\* enabled(), with the payment that a recovery is claimed for, or None.
Enabled(by) ==
  /\ Frozen => by # None /\ FundingRecovery(by)
  /\ Total <= Cap

\* recoveryCosts(): a frozen budget gives way to exactly the approved group.
RecoveryCosts(by, ops, group) ==
  by # None /\ Frozen =>
    /\ FundingRecovery(by) /\ CreatorPayment(by)
    /\ ops = group /\ \A op \in ops : Active(op) /\ Creator(op)

-----------------------------------------------------------------------------
\* Every write makes a review that is under way stale.
Stale == review' = IF review = None THEN None ELSE [review EXCEPT !.fresh = FALSE]

AuthorizeCreatorPayment(p, by) ==
  /\ by # None => by = p
  /\ p \notin authorized
  /\ CreatorPayment(p) /\ Enabled(by) /\ Untouched(p)
  /\ \A op \in Group(p) : expense[op].state = "none"
  /\ authorized' = authorized \cup {p}
  /\ Stale
  /\ UNCHANGED <<vars, expense, reason, incidents, approved, recovery, executed, browser>>

Asked(op) == IF Creator(op) THEN CeilingOf(op) ELSE Ceiling

\* reserveMany(): what is there already stays, and all of the rest fits or none.
Reserved(ops, by) ==
  LET new == {op \in ops : expense[op].state = "none"} IN
  /\ new # {} /\ Enabled(by)
  /\ RecoveryCosts(by, ops, IF by = None THEN {} ELSE Group(by))
  /\ \A op \in new : Active(op)
  /\ \A op \in ops \ new : expense[op].max = Asked(op)
  /\ SumFunction([op \in new \cap Common |-> Asked(op)]) <= Cap - Total
  /\ expense' = [op \in Operations |->
       IF op \in new THEN [NoExpense EXCEPT !.state = "reserved", !.max = Asked(op)]
                     ELSE expense[op]]
  /\ Stale
  /\ UNCHANGED <<authorized, reason, incidents, approved, recovery, executed>>

ReserveMany(ops, by) == Reserved(ops, by) /\ UNCHANGED <<vars, browser>>

\* beginMany(): a group is told to execute once, as a whole.
Begun(ops, by) ==
  /\ ops # {}
  /\ RecoveryCosts(by, ops, IF by = None THEN {} ELSE {op \in Group(by) : op[1] # "gift"})
  /\ \A op \in ops : expense[op].state = "reserved" /\ Active(op)
  /\ Enabled(by)
  /\ expense' = [op \in Operations |->
       IF op \in ops THEN [expense[op] EXCEPT !.state = "unresolved"] ELSE expense[op]]
  /\ executed' = [op \in Operations |-> executed[op] + (IF op \in ops THEN 1 ELSE 0)]
  /\ Stale
  /\ UNCHANGED <<authorized, reason, incidents, approved, recovery>>

BeginMany(ops, by) == Begun(ops, by) /\ UNCHANGED <<vars, browser>>

-----------------------------------------------------------------------------
\* What an operation has cost.

\* evidenceAvailable(): kinds of evidence that attest to one thing are one family.
Free(proof) == \A o \in Operations : expense[o].proof # proof

Settled(e, actual, proof) ==
  [e EXCEPT !.state = "settled", !.actual = actual, !.proof = proof]

\* The first reason stands.
Frozes(r) == IF reason = None THEN r ELSE reason

\* A cost is known from its provider: a browser's from its session.
Incurred(op) == op[1] = "browser_fee" => op[2] \in sessions

Settle(op, actual, id) ==
  LET proof == <<op[1], id>> IN
  /\ expense[op].state = "unresolved" /\ Free(proof) /\ Incurred(op)
  /\ expense' = [expense EXCEPT ![op] = Settled(@, actual, proof)]
  /\ reason' = IF actual > expense[op].max THEN Frozes("overrun") ELSE reason
  /\ Stale
  /\ UNCHANGED <<vars, authorized, incidents, approved, recovery, executed, browser>>

\* The ceiling of a cost nobody reserved.
Unreserved(op, actual) ==
  IF Creator(op) THEN CeilingOf(op) ELSE IF actual < Cap THEN actual ELSE Cap

\* reconcileObservedCost(): recorded whatever the budget says, and executed by nobody.
ReconcileObservedCost(op, actual, id) ==
  LET proof == <<op[1], id>>
      old == expense[op]
      max == IF old.state = "none" THEN Unreserved(op, actual) ELSE old.max
      over == IF actual > max THEN Frozes("overrun") ELSE reason
  IN  /\ old.state \in {"none", "reserved", "unresolved"}
      /\ Creator(op) => CreatorPayment(op[2])
      /\ Free(proof) /\ Incurred(op)
      /\ expense' = [expense EXCEPT ![op] = Settled([@ EXCEPT !.max = max], actual, proof)]
      /\ Stale
      /\ UNCHANGED <<vars, authorized, approved, recovery, executed, browser>>
      /\ IF Total' > Cap
         THEN /\ reason' = IF over = None THEN "policy" ELSE over
              /\ incidents' = Append(incidents, "policy")
         ELSE reason' = over /\ UNCHANGED incidents

CancelBeforeExecution(op) ==
  /\ expense[op].state = "reserved"
  /\ expense' = [expense EXCEPT ![op].state = "cancelled"]
  /\ Stale
  /\ UNCHANGED <<vars, authorized, reason, incidents, approved, recovery, executed, browser>>

\* A provider's or the chain's final word that nothing was charged.
ReleaseNoSpend(op, id) ==
  LET proof == <<"no_spend", id>> IN
  /\ expense[op].state = "unresolved" /\ Free(proof)
  /\ op[1] = "browser_fee" =>
       op[2] \notin sessions /\ ~\E c \in Callers : caller[c] # None /\ caller[c].a = op[2]
  /\ expense' = [expense EXCEPT ![op] = [@ EXCEPT !.state = "released", !.proof = proof]]
  /\ Stale
  /\ UNCHANGED <<vars, authorized, reason, incidents, approved, recovery, executed, browser>>

-----------------------------------------------------------------------------
\* Freezing, and what lets spending go on.

Freeze(r) ==
  /\ Len(incidents) < MaxFreezes
  /\ reason' = Frozes(r) /\ incidents' = Append(incidents, r)
  /\ UNCHANGED <<vars, expense, authorized, approved, recovery, review, executed, browser>>

\* globalRecoveryChallenge(): an operator reads what is to be approved.
GlobalRecoveryChallenge ==
  /\ Total <= Cap /\ Recoverable
  /\ review' = [incident |-> Incident, fresh |-> TRUE]
  /\ UNCHANGED <<vars, expense, authorized, reason, incidents, approved, recovery, executed, browser>>

\* The review is of these overruns, this incident and every cost as it stands now.
ApproveGlobalRecovery ==
  /\ review # None /\ Total <= Cap /\ Recoverable
  /\ review.incident = Incident /\ review.fresh
  /\ approved' = approved \cup {Incident}
  /\ review' = None
  /\ UNCHANGED <<vars, expense, authorized, reason, incidents, recovery, executed, browser>>

\* For a payment without a native intent yet; the grant is the payment's for ever.
ApproveFundingRecovery(p) ==
  /\ recovery[p] = None /\ Challenged
  /\ RecoveryPayment(p) /\ pay[p].status = "reserved"
  /\ recovery' = [recovery EXCEPT ![p] = [incident |-> Incident, expired |-> FALSE]]
  /\ Stale
  /\ UNCHANGED <<vars, expense, authorized, reason, incidents, approved, executed, browser>>

Expires(p) ==
  /\ recovery[p] # None /\ ~recovery[p].expired
  /\ recovery' = [recovery EXCEPT ![p].expired = TRUE]
  /\ UNCHANGED <<vars, expense, authorized, reason, incidents, approved, review, executed, browser>>

-----------------------------------------------------------------------------
\* BudgetedBrowserProvider.createSession: reserve, begin, ask.

\* The reservation of an earlier call is as good as a new one.
GateReserves(c, a) ==
  /\ caller[c] = None
  /\ \/ expense[Session(a)].state = "none" /\ Reserved({Session(a)}, None)
     \/ expense[Session(a)].state # "none" /\ UNCHANGED budget
  /\ caller' = [caller EXCEPT ![c] = [a |-> a, pc |-> "gate"]]
  /\ UNCHANGED <<vars, asked, sessions>>

\* Mutant: a session that is not found is created again.
GateLooksRetrying(c) ==
  /\ caller[c] # None /\ caller[c].pc = "gate"
  /\ Tried(Session(caller[c].a))
  /\ caller' = [caller EXCEPT ![c] = IF caller[c].a \in sessions THEN None
                                     ELSE [@ EXCEPT !.pc = "create"]]
  /\ UNCHANGED <<vars, budget, asked, sessions>>

\* An attempt that was begun is only looked for.
GateLooks(c) ==
  /\ caller[c] # None /\ caller[c].pc = "gate"
  /\ Tried(Session(caller[c].a))
  /\ caller' = [caller EXCEPT ![c] = None]
  /\ UNCHANGED <<vars, budget, asked, sessions>>

GateBegins(c) ==
  /\ caller[c] # None /\ caller[c].pc = "gate"
  /\ Begun({Session(caller[c].a)}, None)
  /\ caller' = [caller EXCEPT ![c].pc = "create"]
  /\ UNCHANGED <<vars, asked, sessions>>

\* The one paid request, whose answer may be lost, as may be the request.
CreatesSession(c) ==
  /\ caller[c] # None /\ caller[c].pc = "create"
  /\ asked' = [asked EXCEPT ![caller[c].a] = @ + 1]
  /\ sessions' \in {sessions, sessions \cup {caller[c].a}}
  /\ caller' = [caller EXCEPT ![c] = None]
  /\ UNCHANGED <<vars, budget>>

\* Refused, or dead.
GateEnds(c) ==
  /\ caller[c] # None
  /\ caller' = [caller EXCEPT ![c] = None]
  /\ UNCHANGED <<vars, budget, asked, sessions>>

-----------------------------------------------------------------------------
BrowserNext ==
  \E c \in Callers :
    \/ \E a \in Attempts : GateReserves(c, a)
    \/ GateLooks(c) \/ GateBegins(c) \/ CreatesSession(c) \/ GateEnds(c)

BudgetNext ==
  \/ \E by \in Payments \cup {None} :
       \/ \E p \in Payments :
            \/ AuthorizeCreatorPayment(p, by)
            \/ ReserveMany(Group(p), by)
            \/ BeginMany({op \in Group(p) : op[1] # "gift"}, by)
       \/ \E op \in Operations : ReserveMany({op}, by) \/ BeginMany({op}, by)
  \/ \E op \in Operations :
       \/ \E actual \in Actuals, id \in Proofs :
            Settle(op, actual, id) \/ ReconcileObservedCost(op, actual, id)
       \/ \E id \in Proofs : ReleaseNoSpend(op, id)
       \/ CancelBeforeExecution(op)
  \/ Freeze("policy")
  \/ GlobalRecoveryChallenge \/ ApproveGlobalRecovery
  \/ \E p \in Payments : ApproveFundingRecovery(p) \/ Expires(p)

Together ==
  \/ Next /\ UNCHANGED <<budget, browser>>
  \/ BudgetNext
  \/ BrowserNext

TogetherSpec == BudgetInit /\ [][Together]_<<vars, budget, browser>>

-----------------------------------------------------------------------------
\* What an operation may cost or has cost, apart from how the code adds it up.
Owed(op) ==
  CASE expense[op].state \in {"reserved", "unresolved"} -> expense[op].max
    [] expense[op].state = "settled" -> expense[op].actual
    [] OTHER -> 0

\* Nothing but an observed cost puts the budget above its cap, and that freezes
\* it; what was begun counts until it is proved (testing-budget.ts:1125, 1303).
WithinCap ==
  SumFunction([op \in Common |-> Owed(op)]) > Cap
    => reason # None /\ (Overruns # {} \/ incidents # <<>>)

\* An authorized payment's costs were promised no more than it earned, and a
\* receipt or an invoice item is the evidence of one operation (874, 1220).
CreatorsPay ==
  /\ \A p \in authorized :
       SumFunction([op \in Group(p) |-> expense[op].max]) <= pay[p].budget
  /\ \A op, o \in Operations :
       op # o /\ expense[op].proof # None => expense[op].proof # expense[o].proof

\* Types: a cost is in one of its states, with evidence once it is final.
BudgetTypeOK ==
  /\ \A op \in Operations :
       /\ expense[op].state \in States
       /\ expense[op].state \in {"settled", "released"} <=> expense[op].proof # None
       /\ executed[op] = 1 => Tried(op)
  /\ reason \in {None, "overrun", "policy"} /\ authorized \subseteq Payments

\* The budget is kept: under its cap, or frozen.
Budgeted == BudgetTypeOK /\ WithinCap /\ CreatorsPay

\* Approvals that reach an operation: for all, or for the transfer of one payment.
Grants(op) ==
  approved \cup {recovery[p].incident :
    p \in {q \in Payments : /\ recovery[q] # None /\ ~recovery[q].expired
                            /\ op \in Group(q) /\ op[1] # "gift"}}

\* After a policy freeze nothing more is ever executed; after overruns, only
\* what an approval reaches that has seen each of them; and for a creator's
\* payment, only while it is open (testing-budget.ts:434, 389, 990).
SpendIsReviewed ==
  [][\A op \in Operations : executed'[op] # executed[op] =>
       /\ incidents = <<>>
       /\ Overruns # {} => \E g \in Grants(op) : Overruns \subseteq g.overruns
       /\ Creator(op) => pay[op[2]].status \notin {"completed", "cancelled"}
    ]_<<vars, budget, browser>>

\* A browser attempt is paid for once, by a cost begun before, however often and
\* by however many it is asked for (budgeted-browserbase.ts:88).
OneSession ==
  /\ \A op \in Operations : executed[op] <= 1
  /\ \A a \in Attempts :
       /\ asked[a] <= executed[Session(a)]
       /\ a \in sessions => expense[Session(a)].state \in {"unresolved", "settled"}
=============================================================================

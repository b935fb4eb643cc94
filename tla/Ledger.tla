------------------------------- MODULE Ledger -------------------------------
(***************************************************************************)
(* The operations ledger (server/operations.ts): fees that tokens have      *)
(* earned, payments that spend them on streamers, and the treasury's buys   *)
(* and burns.  Every operation is one immediate SQLite transaction, so an   *)
(* operation is an action, but for an operator's completion: it is checked  *)
(* before its transaction, and another process may come in between.  What   *)
(* else is hard is what a long sequence of legal operations does to three   *)
(* books kept side by side:                                                 *)
(*   - the journal, in cents, by account (led, for a payment's entries);    *)
(*   - the SOL of a token and what it cost (assetBalances), derived from    *)
(*     claims, payments and reservations;                                   *)
(*   - the payments' own records (pay).                                     *)
(*                                                                          *)
(* A payment is named by the idempotency key that reserved it: a command    *)
(* whose key is known returns its stored result and changes nothing, as     *)
(* does a proof equal to the stored one; a differing one is refused.        *)
(* Amounts are small numbers, SOL in lamports and dollars in cents.  The    *)
(* cost estimates of a reservation, which nothing reads again, the 10^12    *)
(* cap and the shape of addresses and dates are left out.                   *)
(***************************************************************************)
EXTENDS Integers, FiniteSets, FiniteSetsExt

CONSTANTS
  Tokens,      \* registered by the launch service, each for one streamer
  Platform,    \* the platform's own tokens, of which one may be registered
  CreatorOf,   \* the fee creator of each
  ChannelOf,   \* the platform a streamer's token pays on
  Claims,      \* finalized claims a caller may report [sig, token, lamports, gross]
  Costs,       \* failed claims a caller may report, by signature
  Bps,         \* the share of the buyback, of 10000
  Payments,    \* idempotency keys of reservations
  Budgets,     \* explicit budgets of a reservation
  Plans,       \* native reservations [amount, maxFee, gift, conv, gas]
  Rate, Unit,  \* the price of SOL: Rate cents for Unit lamports
  Transfers,   \* invoiced transfers [sol, gas, usd, fee]
  Gases,       \* gas a native transfer or a failed one may turn out to cost
  Credits,     \* what the card may turn out to have received
  Spends,      \* what a purchase may turn out to have cost
  Refs,        \* purchase references, native receipts and card activities
  Urls,        \* confirmation pages
  Receipts,    \* treasury receipts a caller may report
  Threshold,   \* THRESHOLD_CENTS
  MaxOpen,     \* bound on payments and treasury receipts together
  MaxChecked,  \* bound on completions that are checked and not yet committed
  None         \* nothing

ASSUME LedgerAssumption ==
  /\ IsFiniteSet(Payments)
  /\ Bps \in 0 .. 10000 /\ Threshold \in Nat \ {0}
  /\ Rate \in Nat \ {0} /\ Unit \in Nat \ {0}
  /\ MaxOpen \in Nat /\ MaxChecked \in Nat
  /\ Claims \subseteq [sig : STRING, token : Tokens \cup Platform,
                       lamports : Nat \ {0}, gross : Nat \ {0}]
  /\ Budgets \subseteq Nat \ {0} /\ Gases \subseteq Nat
  /\ Credits \subseteq Nat \ {0} /\ Spends \subseteq Nat \ {0}
  /\ Plans \subseteq [amount : Nat \ {0}, maxFee : Nat \ {0}, gift : Nat \ {0},
                      conv : Nat \ {0}, gas : Nat \ {0}]
  /\ Transfers \subseteq [sol : Nat \ {0}, gas : Nat, usd : Nat \ {0}, fee : Nat]
  /\ \A r \in Receipts :
       /\ DOMAIN r = {"id", "kind", "token", "wallet", "moved", "consumed", "units",
                      "parent", "basis", "verified"}
       /\ r.token \in Tokens \cup Platform /\ r.moved \in Nat /\ r.consumed \in Nat
       /\ IF r.kind = "Transfer" THEN r.wallet \notin {None, CreatorOf[r.token]} ELSE r.moved = 0
  /\ None \notin Tokens \cup Plans \cup Refs \cup Urls

VARIABLES
  known,    \* ops_tokens and ops_platform_tokens
  claims,   \* ops_claims
  costs,    \* ops_claim_costs
  pay,      \* ops_payments, with the native intents and proofs
  led,      \* ops_journal, summed by payment and account
  started,  \* ops_audit: payments that were started
  receipts, \* ops_treasury_receipts
  checked   \* operators' completions that were checked, by processes about to commit

vars == <<known, claims, costs, pay, led, started, receipts, checked>>

Statuses == {"none", "reserved", "funding_pending", "funding_submitted",
             "awaiting_threshold", "ready", "in_progress", "uncertain",
             "completed", "cancelled"}
Accounts == {"available", "reserved", "spent", "cost", "residual", "fx", "pending"}

\* What a completion is filed under; "missed" is history: the payments that were
\* completed between its check and its commit.
Completions == [ref : Refs \cup {None}, native : Refs \cup {None},
                url : Urls \cup {None}, missed : SUBSET Payments]
Filings == {c \in Completions : c.ref # None /\ c.missed = {}}
NoCompletion == [ref |-> None, native |-> None, url |-> None, missed |-> {}]

\* An operator's completion on its way; "done" is history, too: what was completed
\* when it was checked.
Checks == [payment : Payments, spent : Spends, ref : Refs \cup {None},
           url : Urls \cup {None}, done : SUBSET Payments]

NoPayment ==
  [token |-> None, status |-> "none", budget |-> 0,
   plan |-> None, lamports |-> 0, from |-> 0, pinned |-> 0,
   funded |-> FALSE, credited |-> FALSE, failed |-> FALSE, over |-> FALSE,
   sol |-> 0, gas |-> 0, usd |-> 0, fee |-> 0, basis |-> 0, net |-> 0, fx |-> 0,
   credit |-> 0, charge |-> 0, spent |-> 0,
   completion |-> NoCompletion]

Init ==
  /\ known = {} /\ claims = {} /\ costs = {} /\ started = {} /\ receipts = {} /\ checked = {}
  /\ pay = [p \in Payments |-> NoPayment]
  /\ led = [p \in Payments |-> [a \in Accounts |-> 0]]

-----------------------------------------------------------------------------
\* What the books say.

Share(x) == (x * Bps) \div 10000

\* BigInt division, which rounds towards zero.
Quotient(x, y) ==
  LET abs(n) == IF n < 0 THEN -n ELSE n
  IN  IF (x < 0) = (y < 0) THEN abs(x) \div abs(y) ELSE -(abs(x) \div abs(y))

StreamerShare(t, x) == IF t \in Platform THEN 0 ELSE x - Share(x)

Of(t) == {p \in Payments : pay[p].token = t}
ClaimsOf(t) == {c \in claims : c.token = t}
ReceiptsOf(t) == {r \in receipts : r.token = t}
Pinned(t) == {p \in Of(t) : /\ pay[p].plan # None /\ ~pay[p].funded /\ ~pay[p].failed
                            /\ pay[p].status # "cancelled"}
OpenPayments == {p \in Payments : pay[p].status # "none"}

\* What a payment has used of what its token's SOL cost.
UsedBasis(p) == pay[p].basis + (IF pay[p].gas > 0 THEN pay[p].net ELSE 0)

AvailableCents(t) ==
  SumFunction([c \in ClaimsOf(t) |-> StreamerShare(t, c.gross)])
    + SumFunction([p \in Of(t) |-> led[p].available])

\* Mutant: SOL that a native reservation holds is still available.
LamportsUnheld(t) ==
  SumFunction([c \in ClaimsOf(t) |-> StreamerShare(t, c.lamports)])
    - SumFunction([p \in Of(t) |-> pay[p].sol + pay[p].gas])

AvailableLamports(t) ==
  SumFunction([c \in ClaimsOf(t) |-> StreamerShare(t, c.lamports)])
    - SumFunction([p \in Of(t) |-> pay[p].sol + pay[p].gas])
    - SumFunction([p \in Pinned(t) |-> pay[p].plan.amount + pay[p].plan.maxFee])

AvailableBasis(t) ==
  SumFunction([c \in ClaimsOf(t) |-> StreamerShare(t, c.gross)])
    - SumFunction([p \in Of(t) |-> UsedBasis(p)])
    - SumFunction([p \in Pinned(t) |-> pay[p].pinned])

Value(lamports) == (lamports * Rate) \div Unit
GasCents(gas) == (gas * Rate + Unit - 1) \div Unit

Least(x, y) == IF x < y THEN x ELSE y

\* What may be spent on the gift.
Spendable(r) ==
  IF ~r.credited \/ r.over THEN 0
  ELSE LET room == IF r.plan = None THEN r.budget - r.fee - r.charge
                                    ELSE Least(r.plan.gift, r.budget - r.fee - r.plan.conv)
       IN  IF Least(r.credit, room) < 0 THEN 0 ELSE Least(r.credit, room)

\* Principal moves between wallets and stays its source's.
Central(r) == r.wallet # None /\ r.wallet # CreatorOf[r.token]
Buyback(t) ==
  SumFunction([c \in ClaimsOf(t) |-> Share(c.lamports)])
    - SumFunction([r \in ReceiptsOf(t) |-> r.consumed])
CentralOf(t, held) ==
  SumFunction([r \in {q \in held : q.token = t /\ Central(q)} |-> r.moved - r.consumed])
AtCreator(t) == Buyback(t) - CentralOf(t, receipts)
AtTreasury(t, w) ==
  IF w = None \/ w = CreatorOf[t] THEN AtCreator(t)
  ELSE CentralOf(t, {r \in receipts : r.wallet = w})

-----------------------------------------------------------------------------
\* Registration and fees.

RegisterToken(t) ==
  /\ t \in Tokens
  /\ \A k \in known : CreatorOf[k] # CreatorOf[t]
  /\ known' = known \cup {t}
  /\ UNCHANGED <<claims, costs, pay, led, started, receipts, checked>>

RegisterPlatformToken(t) ==
  /\ t \in Platform
  /\ known \cap Platform = {}
  /\ \A k \in known : CreatorOf[k] # CreatorOf[t]
  /\ known' = known \cup {t}
  /\ UNCHANGED <<claims, costs, pay, led, started, receipts, checked>>

New(c) == (\A d \in claims : d.sig # c.sig) /\ c.sig \notin costs

RecordClaim(c) ==
  /\ c.token \in known /\ New(c)
  /\ claims' = claims \cup {c}
  /\ UNCHANGED <<known, costs, pay, led, started, receipts, checked>>

RecordFailedClaimCost(s) ==
  /\ known # {} /\ \A c \in claims : c.sig # s
  /\ costs' = costs \cup {s}
  /\ UNCHANGED <<known, claims, pay, led, started, receipts, checked>>

-----------------------------------------------------------------------------
\* Funding a payment.

\* savePayment().
Save(p, r) == pay' = [pay EXCEPT ![p] = r]

\* command(): the idempotency key is new.
Fresh(p) == pay[p].status = "none"

\* journal(): the entries of an event, which must be integers.
Book(p, l) == led' = [led EXCEPT ![p] = l]
Entries(xs) == xs \subseteq Int

Reserve(p, t, b) ==
  /\ t \in Tokens \cap known
  /\ Fresh(p)
  /\ b >= Threshold /\ b <= AvailableCents(t) /\ Entries({b})
  /\ Cardinality(OpenPayments) + Cardinality(receipts) < MaxOpen
  /\ Save(p, [NoPayment EXCEPT !.token = t, !.budget = b, !.status = "reserved"])
  /\ Book(p, [led[p] EXCEPT !.available = @ - b, !.reserved = @ + b])
  /\ UNCHANGED <<known, claims, costs, started, receipts, checked>>

ReserveNative(p, n) ==
  LET t == pay[p].token
      lamports == AvailableLamports(t)
      total == n.amount + n.maxFee
      basis == Quotient(AvailableBasis(t) * total, lamports)
  IN  /\ pay[p].status = "reserved"
      /\ n.gift >= Threshold
      /\ n.gift + n.conv + n.gas <= pay[p].budget
      /\ lamports > 0 /\ total <= lamports
      /\ basis <= pay[p].budget
      /\ Value(n.amount) \in Threshold .. n.gift
      /\ Save(p, [pay[p] EXCEPT !.plan = n, !.lamports = lamports,
                                !.from = AvailableBasis(t), !.pinned = basis,
                                !.status = "funding_pending"])
      /\ UNCHANGED <<known, claims, costs, led, started, receipts, checked>>

BeginFunding(p) ==
  /\ pay[p].status = "reserved"
  /\ Save(p, [pay[p] EXCEPT !.status = "funding_pending"])
  /\ UNCHANGED <<known, claims, costs, led, started, receipts, checked>>

\* The transfer is booked at its value, less what its SOL cost; the gas is spent.
Funded(p, x) ==
  LET fx == x.usd + x.fee - x.basis - x.net
  IN  /\ Entries({x.basis, x.net})
      /\ Save(p, [pay[p] EXCEPT !.funded = TRUE, !.sol = x.sol, !.gas = x.gas,
                                !.usd = x.usd, !.fee = x.fee, !.basis = x.basis,
                                !.net = x.net, !.fx = fx, !.over = x.over,
                                !.status = IF x.over THEN "uncertain"
                                                     ELSE "funding_submitted"])
      /\ Book(p, [led[p] EXCEPT !.reserved = @ + fx - x.fee, !.fx = @ - fx,
                                !.cost = @ + x.fee])

Overrun(n, gas) == gas > n.maxFee \/ GasCents(gas) > n.gas

\* The basis is the one the reservation saw, whatever was booked since.
BasisOf(p, lamports) == Quotient(pay[p].from * lamports, pay[p].lamports)

RecordNativeFunding(p, gas) ==
  LET n == pay[p].plan
      basis == BasisOf(p, n.amount)
  IN  /\ n # None
      /\ pay[p].status \in {"funding_pending", "uncertain"}
      /\ ~pay[p].funded /\ ~pay[p].failed
      /\ Funded(p, [sol |-> n.amount, gas |-> gas, usd |-> Value(n.amount),
                    fee |-> GasCents(gas), basis |-> basis,
                    net |-> BasisOf(p, n.amount + gas) - basis, over |-> Overrun(n, gas)])
      /\ UNCHANGED <<known, claims, costs, started, receipts, checked>>

RecordFunding(p, x) ==
  LET lamports == AvailableLamports(pay[p].token)
      used == x.sol + x.gas
      basis == Quotient(AvailableBasis(pay[p].token) * x.sol, lamports)
      net == IF x.gas > 0 THEN Quotient(AvailableBasis(pay[p].token) * used, lamports) - basis
                          ELSE x.fee
  IN  /\ pay[p].plan = None /\ ~pay[p].funded
      /\ pay[p].status \in {"reserved", "funding_pending", "uncertain"}
      /\ lamports > 0 /\ used <= lamports
      /\ basis + net <= pay[p].budget
      /\ Funded(p, [sol |-> x.sol, gas |-> x.gas, usd |-> x.usd, fee |-> x.fee,
                    basis |-> basis, net |-> net, over |-> FALSE])
      /\ UNCHANGED <<known, claims, costs, started, receipts, checked>>

Credited(p, c, status) ==
  Save(p, [pay[p] EXCEPT !.credited = TRUE, !.credit = c, !.status = status,
                         !.charge = IF pay[p].plan = None THEN pay[p].usd - c ELSE 0])

\* What the conversion kept is pending; whether it was a fee is never known.
RecordNativeCredit(p, c) ==
  /\ pay[p].plan # None /\ pay[p].funded /\ ~pay[p].credited
  /\ pay[p].status \in {"funding_submitted", "uncertain"}
  /\ Credited(p, c, IF pay[p].over THEN "uncertain"
                    ELSE IF Spendable([pay[p] EXCEPT !.credited = TRUE, !.credit = c])
                              >= Threshold THEN "ready"
                    ELSE "awaiting_threshold")
  /\ Book(p, [led[p] EXCEPT !.reserved = @ - (pay[p].usd - c),
                            !.pending = @ + (pay[p].usd - c)])
  /\ UNCHANGED <<known, claims, costs, started, receipts, checked>>

\* The credit and the provider's charge make up what was sent.
Matches(r, c) == c <= r.usd

RecordCardCredit(p, c) ==
  /\ pay[p].plan = None /\ pay[p].funded /\ ~pay[p].credited
  /\ pay[p].status \in {"funding_submitted", "uncertain"}
  /\ Matches(pay[p], c)
  /\ Credited(p, c, IF c >= Threshold THEN "ready" ELSE "awaiting_threshold")
  /\ Book(p, [led[p] EXCEPT !.reserved = @ - (pay[p].usd - c),
                            !.cost = @ + (pay[p].usd - c)])
  /\ UNCHANGED <<known, claims, costs, started, receipts, checked>>

-----------------------------------------------------------------------------
\* Spending it.

Busy == {"in_progress", "uncertain"}

\* Mutant: an unresolved attempt does not hold the donor account.
ClearNow(p) ==
  \A q \in Payments \ {p} :
    pay[q].status = "in_progress" => ChannelOf[pay[q].token] # ChannelOf[pay[p].token]

Clear(p) ==
  \A q \in Payments \ {p} :
    pay[q].status \in Busy => ChannelOf[pay[q].token] # ChannelOf[pay[p].token]

StartPayment(p) ==
  /\ pay[p].status = "ready" /\ Clear(p)
  /\ Save(p, [pay[p] EXCEPT !.status = "in_progress"])
  /\ started' = started \cup {p}
  /\ UNCHANGED <<known, claims, costs, led, receipts, checked>>

MarkUncertain(p) ==
  /\ pay[p].status \in {"funding_pending", "funding_submitted", "ready", "in_progress"}
  /\ Save(p, [pay[p] EXCEPT !.status = "uncertain"])
  /\ UNCHANGED <<known, claims, costs, led, started, receipts, checked>>

Named(c) == {c.ref, c.native} \ {None}
Other(x, y) == x = y => x = None

\* Mutant: only the reference a payment is filed under is compared.
UnusedFirst(p, c) ==
  \A q \in Payments \ {p} : Other(pay[q].completion.ref, c.ref) /\ Other(pay[q].completion.url, c.url)

\* Both checks that a reference, receipt or page is assigned to no other payment.
Unused(p, c) ==
  \A q \in Payments \ {p} : /\ Named(pay[q].completion) \cap Named(c) = {}
                            /\ Other(pay[q].completion.url, c.url)

\* The unique columns of ops_payments: the purchase reference and the page.
Indexed(p, c) ==
  \A q \in Payments \ {p} : Other(pay[q].completion.ref, c.ref) /\ Other(pay[q].completion.url, c.url)

\* What goes back to the token.
Left(r, spent) == r.budget - r.basis - r.net

\* The transaction of finishPayment, of an operator or on the browser's and the
\* card's evidence.
Finished(p, spent, c) ==
  LET r == pay[p]
      left == Left(r, spent)
  IN  /\ r.status \in {"ready", "in_progress", "uncertain"} /\ r.credited
      /\ spent <= r.credit
      /\ r.plan # None => spent <= Spendable(r)
      /\ spent + r.fee + r.charge <= r.budget
      /\ Save(p, [r EXCEPT !.status = "completed", !.spent = spent, !.completion = c])
      /\ Book(p, [led[p] EXCEPT
                   !.reserved = @ - (r.budget + r.fx - r.fee
                                       - (IF r.plan = None THEN r.charge ELSE r.usd - r.credit)),
                   !.spent = @ + spent, !.residual = @ + r.credit - spent,
                   !.available = @ + left])
      /\ UNCHANGED <<known, claims, costs, started, receipts>>

Completed == {q \in Payments : pay[q].status = "completed"}

\* What an operator attests is checked before the transaction is opened.
Check(p, spent, ref, url) ==
  /\ Cardinality(checked) < MaxChecked
  /\ ref # None \/ url # None
  /\ Unused(p, [NoCompletion EXCEPT !.ref = ref, !.url = url])
  /\ spent >= Threshold \/ pay[p].credit >= Threshold
  /\ checked' = checked \cup
       {[payment |-> p, spent |-> spent, ref |-> ref, url |-> url, done |-> Completed]}
  /\ UNCHANGED <<known, claims, costs, pay, led, started, receipts>>

Attested(e) ==
  [ref |-> e.ref, native |-> None, url |-> e.url, missed |-> Completed \ e.done]

CompletePayment(e) ==
  /\ Indexed(e.payment, Attested(e))
  /\ Finished(e.payment, e.spent, Attested(e))
  /\ checked' = checked \ {e}

\* The transaction refuses it, or its process has died.
CheckedInVain(e) ==
  /\ checked' = checked \ {e}
  /\ UNCHANGED <<known, claims, costs, pay, led, started, receipts>>

\* completePaymentVerified: check and save are one transaction, filed under the card
\* activity, for a native payment to a Twitch streamer.
CompletePaymentVerified(p, spent, c) ==
  LET r == pay[p] IN
  /\ Unused(p, c)
  /\ r.plan # None /\ ChannelOf[r.token] = "twitch"
  /\ r.credit >= Threshold /\ Spendable(r) >= Threshold
  /\ Finished(p, spent, c)
  /\ UNCHANGED checked

-----------------------------------------------------------------------------
\* Giving it up.

CancelPayment(p) ==
  /\ pay[p].status = "reserved" /\ ~pay[p].funded
  /\ Save(p, [pay[p] EXCEPT !.status = "cancelled"])
  /\ Book(p, [led[p] EXCEPT !.reserved = @ - pay[p].budget, !.available = @ + pay[p].budget])
  /\ UNCHANGED <<known, claims, costs, started, receipts, checked>>

\* A transfer that finally failed on chain: only its gas was spent.
\* Mutant: the whole budget is released.
ReleasedAll(r, basis) == r.budget

Released(r, basis) == r.budget - basis

ResolveFailed(p, gas) ==
  LET r == pay[p]
      native == r.plan # None
      lamports == IF native THEN r.lamports ELSE AvailableLamports(r.token)
      from == IF native THEN r.from ELSE AvailableBasis(r.token)
      basis == IF gas = 0 THEN 0 ELSE Quotient(from * gas, lamports)
      fee == GasCents(gas)
  IN  /\ r.status \in {"funding_pending", "uncertain"} /\ ~r.funded /\ ~r.failed
      /\ gas > 0 => lamports > 0
      /\ ~native => gas <= lamports /\ basis <= r.budget
      /\ Entries({basis})
      /\ Save(p, [r EXCEPT !.status = "cancelled", !.failed = TRUE, !.gas = gas,
                           !.fee = fee, !.basis = basis, !.fx = fee - basis,
                           !.over = native /\ Overrun(r.plan, gas)])
      /\ Book(p, [led[p] EXCEPT !.reserved = @ + (fee - basis) - fee - Released(r, basis),
                                !.fx = @ - (fee - basis), !.cost = @ + fee,
                                !.available = @ + Released(r, basis)])
      /\ UNCHANGED <<known, claims, costs, started, receipts, checked>>

-----------------------------------------------------------------------------
\* The treasury: finalized transfers, buys, burns and failures of a token's share.

BuybackCents(t) ==
  SumFunction([c \in ClaimsOf(t) |-> Share(c.gross)])
    - SumFunction([r \in ReceiptsOf(t) |-> r.basis])

Covered(r) ==
  IF r.kind = "Transfer" THEN r.moved <= AtCreator(r.token)
  ELSE \/ r.consumed <= AtTreasury(r.token, r.wallet)
       \/ r.wallet = None /\ ~\E q \in receipts : q.token = r.token /\ q.kind = "Transfer"

BurnsItsBuy(r) ==
  /\ \E b \in receipts : /\ b.kind = "Buyback" /\ b.id = r.parent /\ b.token = r.token
                         /\ b.units = r.units /\ b.wallet = r.wallet
  /\ \A q \in receipts : q.parent # r.parent

RecordTreasuryReceipt(r) ==
  /\ r.token \in known
  /\ \A q \in receipts : q.id # r.id
  /\ Cardinality(OpenPayments) + Cardinality(receipts) < MaxOpen
  /\ r.kind = "Burn" => BurnsItsBuy(r)
  /\ r.verified \/ r.consumed <= Buyback(r.token)
  /\ (r.verified /\ r.kind # "Transfer") \/ Covered(r)
  /\ receipts' = receipts \cup
       {[r EXCEPT !.basis = IF Buyback(r.token) = 0 THEN 0
                            ELSE Quotient(BuybackCents(r.token) * r.consumed, Buyback(r.token))]}
  /\ UNCHANGED <<known, claims, costs, pay, led, started, checked>>

-----------------------------------------------------------------------------
Pays(p) ==
  \/ \E t \in Tokens : \E b \in Budgets \cup {AvailableCents(t)} : Reserve(p, t, b)
  \/ \E n \in Plans : ReserveNative(p, n)
  \/ BeginFunding(p)
  \/ \E gas \in Gases : RecordNativeFunding(p, gas)
  \/ \E x \in Transfers : RecordFunding(p, x)
  \/ \E c \in Credits : RecordNativeCredit(p, c) \/ RecordCardCredit(p, c)
  \/ StartPayment(p) \/ MarkUncertain(p)
  \/ \E spent \in Spends, ref \in Refs \cup {None}, url \in Urls \cup {None} : Check(p, spent, ref, url)
  \/ \E e \in checked : e.payment = p /\ (CompletePayment(e) \/ CheckedInVain(e))
  \/ \E spent \in Spends, c \in Filings : CompletePaymentVerified(p, spent, c)
  \/ CancelPayment(p)
  \/ \E gas \in Gases : ResolveFailed(p, gas)

Next ==
  \/ \E t \in Tokens : RegisterToken(t)
  \/ \E t \in Platform : RegisterPlatformToken(t)
  \/ \E c \in Claims : RecordClaim(c)
  \/ \E s \in Costs : RecordFailedClaimCost(s)
  \/ \E p \in Payments : Pays(p)
  \/ \E r \in Receipts : RecordTreasuryReceipt(r)

Spec == Init /\ [][Next]_vars

-----------------------------------------------------------------------------
Typed(r) ==
  /\ DOMAIN r = DOMAIN NoPayment
  /\ r.token \in Tokens \cup {None} /\ r.status \in Statuses /\ r.plan \in Plans \cup {None}
  /\ r.funded \in BOOLEAN /\ r.credited \in BOOLEAN /\ r.failed \in BOOLEAN
  /\ r.over \in BOOLEAN /\ r.completion \in Completions
  /\ r.budget \in Nat /\ r.lamports \in Nat /\ r.sol \in Nat /\ r.gas \in Nat
  /\ r.usd \in Nat /\ r.fee \in Nat /\ r.credit \in Nat /\ r.charge \in Nat /\ r.spent \in Nat
  /\ r.from \in Int /\ r.pinned \in Int /\ r.basis \in Int /\ r.net \in Int /\ r.fx \in Int

\* Types: the tables hold what their columns say, and no amount a caller
\* reports is negative.
TypeOK ==
  /\ known \subseteq Tokens \cup Platform
  /\ claims \subseteq Claims /\ costs \subseteq Costs /\ started \subseteq Payments
  /\ \A p \in Payments : Typed(pay[p])
  /\ led \in [Payments -> [Accounts -> Int]]
  /\ checked \subseteq Checks

\* What a payment's own record says is held for it.
Held(r) ==
  IF r.status \in {"none", "completed", "cancelled"} THEN 0
  ELSE IF ~r.funded THEN r.budget
  ELSE r.budget - r.basis - r.net + (IF r.credited THEN r.credit ELSE r.usd)

\* The journal's reserve for a payment is what its record says is held: the
\* unused budget and what is, or will be, on the card (operations.ts journal()
\* calls of every operation).
HoldsMatch == \A p \in Payments : led[p].reserved = Held(pay[p])

\* The money of a payment is somewhere: its journal entries sum to zero, and a
\* closed payment has nothing left in reserve.
Balanced ==
  \A p \in Payments :
    led[p].available + led[p].reserved + led[p].spent + led[p].cost
      + led[p].residual + led[p].fx + led[p].pending = 0

\* The journal and the payments' own records tell one story (operations.ts:455
\* "Unbalanced journal event" checks an event, and not what several add up to).
Books == HoldsMatch /\ Balanced

NoOverrun(t) == \A p \in Of(t) : ~pay[p].over
Pending(t) == {p \in Of(t) : pay[p].status \notin {"completed", "cancelled"}}

\* A dollar the journal promises, available or as unused budget, is backed by
\* SOL that was claimed for the token and not yet spent, at what it cost; and
\* unless gas verifiably overran its ceiling no token runs short of SOL
\* (operations.ts:500-572 against 476-499).
Backed ==
  \A t \in Tokens :
    /\ AvailableCents(t)
         + SumFunction([p \in Pending(t) |-> pay[p].budget - pay[p].basis - pay[p].net])
       <= AvailableBasis(t) + SumFunction([p \in Pinned(t) |-> pay[p].pinned])
    /\ NoOverrun(t) => /\ AvailableLamports(t) >= 0 /\ AvailableBasis(t) >= 0
                       /\ AvailableCents(t) >= 0

\* A donor account has one purchase at a time that was started and whose
\* outcome is open, whatever reconciliation the payments went through
\* (operations.ts:1664 "serialized per platform donor account").
OneSpendPerChannel ==
  \A p, q \in started :
    p # q /\ pay[p].status # "completed" /\ pay[q].status # "completed"
      => ChannelOf[pay[p].token] # ChannelOf[pay[q].token]

\* Of two payments: no reference, receipt or page is theirs both, but a native
\* receipt may also be the other's reference if it was filed behind an operator's check.
FiledApart(a, q, b) ==
  /\ Other(a.ref, b.ref) /\ Other(a.native, b.native) /\ Other(a.url, b.url)
  /\ Other(a.ref, b.native) \/ q \in a.missed

\* A receipt, a card activity or a confirmation page stands for one payment only,
\* unless a verified completion overtook an operator's between its check and its
\* transaction; no purchase cost more than its card received and its budget allowed,
\* and a claim's signature is valued once (operations.ts:1723-1740, 1928-1950, 1013).
OnePurchaseOneRecord ==
  /\ \A c, d \in claims : c.sig = d.sig => c = d
  /\ \A p, q \in Payments :
       p # q => FiledApart(pay[p].completion, q, pay[q].completion)
  /\ \A p \in Payments : pay[p].spent <= pay[p].credit /\ pay[p].spent <= pay[p].budget

\* The treasury spends a token's buyback share only, unless an overrun was
\* verified, and from the wallet that holds it, unless a transfer was worth less
\* than the fee its receiver paid for it (operations.ts:691-711, 785-811).
TreasuryCovered ==
  \A t \in Tokens \cup Platform :
    (\A r \in ReceiptsOf(t) : ~r.verified) =>
      /\ Buyback(t) >= 0 /\ BuybackCents(t) >= 0 /\ AtCreator(t) >= 0
      /\ (\A r \in ReceiptsOf(t) : r.kind = "Transfer" => r.consumed <= r.moved)
           => \A r \in ReceiptsOf(t) : AtTreasury(t, r.wallet) >= 0

\* The tables are well formed, and nothing is promised or spent that was not
\* claimed.
Solvent == TypeOK /\ Backed /\ TreasuryCovered
=============================================================================

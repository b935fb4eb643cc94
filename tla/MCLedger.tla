----------------------------- MODULE MCLedger ------------------------------
(***************************************************************************)
(* Small instances of Ledger with TestingBudget for TLC.                    *)
(***************************************************************************)
EXTENDS TestingBudget, TLC

CONSTANTS k1, k2, kp, w, p1, p2, r1, r2, u, a1, c1, c2

Creators == [t \in {k1, k2, kp} |-> t]
Channels == [t \in {k1, k2} |-> "twitch"]
Fees == {[sig |-> "a", token |-> k1, lamports |-> 10, gross |-> 17],
         [sig |-> "a", token |-> k1, lamports |-> 10, gross |-> 16],
         [sig |-> "b", token |-> k2, lamports |-> 5, gross |-> 6]}
Native == {[amount |-> 3, maxFee |-> 1, gift |-> 3, conv |-> 1, gas |-> 2]}
Invoiced == {[sol |-> 2, gas |-> 1, usd |-> 4, fee |-> 1],
             [sol |-> 3, gas |-> 0, usd |-> 3, fee |-> 1]}

Receipt(id, kind, wallet) ==
  [id |-> id, kind |-> kind, token |-> k1, wallet |-> wallet, moved |-> 0, consumed |-> 1,
   units |-> 0, parent |-> None, basis |-> 0, verified |-> FALSE]
Treasury ==
  {[Receipt("transfer", "Transfer", w) EXCEPT !.moved = 2],
   [Receipt("dust", "Transfer", w) EXCEPT !.moved = 1, !.consumed = 2],
   [Receipt("buy", "Buyback", w) EXCEPT !.consumed = 2, !.units = 1],
   [Receipt("bought", "Buyback", None) EXCEPT !.units = 1],
   [Receipt("burn", "Burn", None) EXCEPT !.parent = "bought", !.units = 1],
   [Receipt("failed", "Failed", w) EXCEPT !.consumed = 4, !.verified = TRUE]}

Expenses == {<<"gift", p1>>, <<"chain_fee", p1>>, <<"offramp_fee", p1>>,
             <<"browser_fee", a1>>, <<"provider_fee", w>>}

\* The budget only reads payments.  It is explored next to one payment that
\* is native or not; and, next to no payment, with the browser provider.
BudgetStarted ==
  authorized # {} \/ reason # None \/ \E op \in Operations : expense[op].state # "none"
OnePayment ==
  /\ known = {k1} /\ costs = {} /\ receipts = {}
  /\ \A c \in claims : c.gross = 17
  /\ OpenPayments = {p1} /\ pay[p1].status \in {"reserved", "funding_pending", "cancelled"}
  /\ pay[p1].budget = 6 /\ pay[p1].gas < 2
  /\ pay[p1].status = "funding_pending" => pay[p1].plan # None
  /\ \A op \in Operations :
       \/ expense[op].state = "none"
       \/ expense[op].state \in {"reserved", "unresolved"} /\ op[1] # "browser_fee"
       \/ expense[op].state = "settled" /\ op[1] \in {"chain_fee", "provider_fee"}
BrowserAlone == known = {} /\ Cardinality({op \in Operations : expense[op].state # "none"}) <= 2
BudgetSlice == OnePayment \/ BrowserAlone

\* A completion is checked when all that is open is on the card; any other is refused.
\* One token's books are enough for its race, and a page is filed without a receipt.
Closing ==
  /\ known = {k1} /\ receipts = {} /\ costs = {}
  /\ \A c \in claims : c.gross = 17
  /\ \A p \in OpenPayments : pay[p].credited
  /\ \A e \in checked : pay[e.payment].status \in {"ready", "in_progress", "uncertain"}
Slice ==
  /\ BudgetStarted => BudgetSlice
  /\ checked # {} => ~BudgetStarted /\ Closing
  /\ \A p \in OpenPayments :
       pay[p].completion.url # None => pay[p].completion.native = None
Symmetry == Permutations({r1, r2})

Sliced ==
  /\ \/ Next /\ UNCHANGED <<budget, browser>>
     \/ BudgetSlice /\ BudgetNext
     \/ BudgetSlice /\ BrowserNext
  /\ Slice'
SlicedSpec == BudgetInit /\ [][Sliced]_<<vars, budget, browser>>
=============================================================================

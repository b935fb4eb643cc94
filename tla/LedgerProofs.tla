---------------------------- MODULE LedgerProofs ----------------------------
(***************************************************************************)
(* What holds of Ledger for every set of tokens, claims, payments, amounts  *)
(* and receipts: the journal and the payments' records agree, a donor       *)
(* account has one purchase under way, a record is used once and nothing is *)
(* promised or spent that was not claimed; and of TestingBudget, next to    *)
(* it: a browser attempt is paid for once, after an overrun only what was   *)
(* approved executes, and the allowances stay within the cap.               *)
(*                                                                          *)
(* Every operation on a payment changes that payment alone, so what is      *)
(* inductive is said of one payment and its journal entries (Kept): the     *)
(* lemmas named Keeps show it of a row and its entries, without a state,    *)
(* and those named Step place them in an operation.  A balance is a sum     *)
(* over all payments, which one row moves by a difference: the lemmas named *)
(* Covers and Solvent are of that row and its token's balances.             *)
(***************************************************************************)
EXTENDS TestingBudget, FiniteSetTheorems, WellFoundedInduction, TLAPS

\* The columns of a payment.

Columns == {"token", "status", "budget", "plan", "lamports", "from", "pinned", "funded",
            "credited", "failed", "over", "sol", "gas", "usd", "fee", "basis", "net", "fx",
            "credit", "charge", "spent", "completion"}

IsRow(r) == r = [f \in Columns |-> r[f]]
IsSheet(l) == l = [a \in Accounts |-> l[a]]

\* The types of what the journal reads of a payment's row, and of its entries.
WellFormed(r) ==
  /\ r.status \in Statuses /\ r.plan \in Plans \cup {None}
  /\ r.budget \in Nat /\ r.usd \in Nat /\ r.fee \in Nat
  /\ r.credit \in Nat /\ r.charge \in Nat /\ r.spent \in Nat
  /\ r.basis \in Int /\ r.net \in Int /\ r.fx \in Int

Whole(l) ==
  /\ l.available \in Int /\ l.reserved \in Int /\ l.spent \in Int /\ l.cost \in Int
  /\ l.residual \in Int /\ l.fx \in Int /\ l.pending \in Int

Unfunded == {"none", "reserved"}
Sent == {"funding_submitted", "awaiting_threshold", "ready", "in_progress", "completed"}
OnCard == Sent \ {"funding_submitted"}

\* Where a payment stands, and what its record holds by then.
Follows(r) ==
  /\ r.status \in Unfunded \cup {"cancelled"} => ~r.funded
  /\ r.status \in Sent => r.funded
  /\ r.status \in OnCard => r.credited
  /\ r.credited => r.funded
  /\ r.funded => r.fx = r.usd + r.fee - r.basis - r.net
  /\ r.credited => r.charge = IF r.plan = None THEN r.usd - r.credit ELSE 0
  /\ r.spent <= r.credit /\ r.spent <= r.budget
  /\ r.status # "completed" => r.spent = 0
  /\ r.status = "none" => r = NoPayment

Sum(l) == l.available + l.reserved + l.spent + l.cost + l.residual + l.fx + l.pending

\* A payment's row and its entries in the journal agree.
Kept(r, l) ==
  /\ IsRow(r) /\ WellFormed(r) /\ Follows(r)
  /\ IsSheet(l) /\ Whole(l)
  /\ l.reserved = Held(r) /\ Sum(l) = 0

-----------------------------------------------------------------------------
NoEntries == [a \in Accounts |-> 0]

\* A payment nobody reserved.
LEMMA EmptyKept == Kept(NoPayment, NoEntries)
<1>1. IsRow(NoPayment)
  <2>1. DOMAIN NoPayment = Columns  BY DEF Columns, NoPayment
  <2>2. NoPayment = [f \in DOMAIN NoPayment |-> NoPayment[f]]  BY DEF NoPayment
  <2>3. QED  BY <2>1, <2>2 DEF IsRow
<1>2. WellFormed(NoPayment)  BY DEF WellFormed, NoPayment, Statuses
<1>3. Follows(NoPayment)  BY DEF Follows, NoPayment, Unfunded, Sent, OnCard
<1>4. IsSheet(NoEntries) /\ Whole(NoEntries) /\ NoEntries.reserved = 0 /\ Sum(NoEntries) = 0
  BY DEF IsSheet, Whole, NoEntries, Accounts, Sum
<1>5. Held(NoPayment) = 0  BY DEF Held, NoPayment
<1>6. QED  BY <1>1, <1>2, <1>3, <1>4, <1>5 DEF Kept

\* A reservation moves the budget.
LEMMA ReserveKeeps ==
  ASSUME NEW r, NEW l, Kept(r, l), r.status = "none", NEW b \in Nat,
         NEW q, WellFormed(q), IsRow(q), Follows(q), q.status = "reserved", q.budget = b,
         ~q.funded,
         NEW m, IsSheet(m), m.available = l.available - b, m.reserved = l.reserved + b,
         m.spent = l.spent, m.cost = l.cost, m.residual = l.residual, m.fx = l.fx,
         m.pending = l.pending
  PROVE  Kept(q, m)
<1>1. Held(q) = b /\ l.reserved = 0  BY DEF Kept, Held
<1>2. Whole(m) /\ Sum(m) = 0 /\ m.reserved = Held(q)  BY <1>1 DEF Kept, Whole, Sum
<1>3. QED  BY <1>2 DEF Kept

\* A change of status that moves no money.
LEMMA StatusKeeps ==
  ASSUME NEW r, NEW l, Kept(r, l), NEW q, IsRow(q),
         q.plan \in Plans \cup {None}, q.plan = r.plan \/ ~r.credited,
         q.budget = r.budget, q.usd = r.usd, q.fee = r.fee, q.credit = r.credit,
         q.charge = r.charge, q.spent = r.spent, q.basis = r.basis, q.net = r.net,
         q.fx = r.fx, q.funded = r.funded, q.credited = r.credited,
         r.status \notin {"none", "completed", "cancelled"},
         q.status \in {"funding_pending", "in_progress", "uncertain"},
         q.status = "in_progress" => r.credited
  PROVE  Kept(q, l)
<1>1. WellFormed(q)  BY DEF Kept, WellFormed, Statuses
<1>2. Follows(q)  BY DEF Kept, Follows, Unfunded, Sent, OnCard
<1>3. Held(q) = Held(r)  BY DEF Held
<1>4. QED  BY <1>1, <1>2, <1>3 DEF Kept

\* A finalized transfer.
LEMMA FundedKeeps ==
  ASSUME NEW r, NEW l, Kept(r, l), NEW x,
         x.usd \in Nat, x.fee \in Nat, x.basis \in Int, x.net \in Int,
         r.status \in {"reserved", "funding_pending", "uncertain"}, ~r.funded,
         NEW fx, fx = x.usd + x.fee - x.basis - x.net
  PROVE  Kept([r EXCEPT !.funded = TRUE, !.sol = x.sol, !.gas = x.gas, !.usd = x.usd,
                        !.fee = x.fee, !.basis = x.basis, !.net = x.net, !.fx = fx,
                        !.over = x.over,
                        !.status = IF x.over THEN "uncertain" ELSE "funding_submitted"],
              [l EXCEPT !.reserved = @ + fx - x.fee, !.fx = @ - fx, !.cost = @ + x.fee])
<1> DEFINE s == IF x.over THEN "uncertain" ELSE "funding_submitted"
           q == [r EXCEPT !.funded = TRUE, !.sol = x.sol, !.gas = x.gas, !.usd = x.usd,
                          !.fee = x.fee, !.basis = x.basis, !.net = x.net, !.fx = fx,
                          !.over = x.over, !.status = s]
           m == [l EXCEPT !.reserved = @ + fx - x.fee, !.fx = @ - fx, !.cost = @ + x.fee]
<1>1. IsRow(q) /\ IsSheet(m)  BY DEF Kept, IsRow, IsSheet
<1>2. /\ q.funded = TRUE /\ q.usd = x.usd /\ q.fee = x.fee /\ q.basis = x.basis
      /\ q.net = x.net /\ q.fx = fx /\ q.status = s
      /\ q.budget = r.budget /\ q.credited = r.credited
      /\ q.credit = r.credit /\ q.charge = r.charge /\ q.spent = r.spent /\ q.plan = r.plan
  BY DEF Kept, IsRow, Columns
<1>3. /\ m.reserved = l.reserved + fx - x.fee /\ m.fx = l.fx - fx /\ m.cost = l.cost + x.fee
      /\ m.available = l.available /\ m.spent = l.spent /\ m.residual = l.residual
      /\ m.pending = l.pending
  BY DEF Kept, IsSheet, Accounts
<1>s. s \in {"uncertain", "funding_submitted"}  OBVIOUS
<1> HIDE DEF q, m, s
<1>4. WellFormed(q)  BY <1>2, <1>s DEF Kept, WellFormed, Statuses
<1>5. Follows(q)
  <2>1. ~q.credited /\ r.spent = 0  BY <1>2 DEF Kept, Follows
  <2>2. q.status \notin Unfunded \cup {"cancelled"} \cup OnCard /\ q.status # "none"
    BY <1>2, <1>s DEF Unfunded, OnCard, Sent
  <2>3. q.fx = q.usd + q.fee - q.basis - q.net  BY <1>2
  <2>4. q.spent <= q.credit /\ q.spent <= q.budget  BY <1>2, <2>1 DEF Kept, WellFormed
  <2>5. QED  BY <1>2, <2>1, <2>2, <2>3, <2>4 DEF Follows
<1>6. Whole(m) /\ Sum(m) = 0  BY <1>3 DEF Kept, Whole, Sum, WellFormed
<1>7. m.reserved = Held(q)  BY <1>2, <1>3, <1>s DEF Kept, WellFormed, Follows, Held
<1>8. QED  BY <1>1, <1>4, <1>5, <1>6, <1>7 DEF Kept, q, m, s

\* What the card received: the rest of what was sent is a charge, or pending.
LEMMA CreditedKeeps ==
  ASSUME NEW r, NEW l, Kept(r, l), NEW c \in Nat, r.plan = None => c <= r.usd,
         r.status \in {"funding_submitted", "uncertain"}, r.funded, ~r.credited,
         NEW q, IsRow(q), q.status \in {"uncertain", "ready", "awaiting_threshold"},
         q.credited, q.credit = c,
         q.charge = IF r.plan = None THEN r.usd - c ELSE 0,
         q.funded = r.funded, q.usd = r.usd, q.fee = r.fee, q.basis = r.basis,
         q.net = r.net, q.fx = r.fx, q.budget = r.budget, q.spent = r.spent, q.plan = r.plan,
         NEW m, IsSheet(m),
         m.reserved = l.reserved - (r.usd - c),
         m.available = l.available, m.spent = l.spent, m.residual = l.residual, m.fx = l.fx,
         \/ m.cost = l.cost + (r.usd - c) /\ m.pending = l.pending
         \/ m.pending = l.pending + (r.usd - c) /\ m.cost = l.cost
  PROVE  Kept(q, m)
<1>1. q.charge \in Nat /\ r.spent = 0  BY DEF Kept, WellFormed, Follows
<1>2. WellFormed(q)  BY <1>1 DEF Kept, WellFormed, Statuses
<1>3. Follows(q)
  <2>1. q.status \notin Unfunded \cup {"cancelled", "completed"} /\ q.status # "none"
    BY DEF Unfunded
  <2>2. q.funded /\ q.fx = q.usd + q.fee - q.basis - q.net  BY DEF Kept, Follows
  <2>3. q.spent = 0 /\ q.spent <= q.credit /\ q.spent <= q.budget
    BY <1>1 DEF Kept, WellFormed
  <2>4. QED  BY <2>1, <2>2, <2>3 DEF Follows
<1>4. Whole(m) /\ Sum(m) = 0  BY DEF Kept, Whole, Sum, WellFormed
<1>5. m.reserved = Held(q)  BY DEF Kept, WellFormed, Held
<1>6. QED  BY <1>2, <1>3, <1>4, <1>5 DEF Kept

\* A purchase is paid, and the rest of the budget goes back to the token.
LEMMA CompletedKeeps ==
  ASSUME NEW r, NEW l, Kept(r, l), NEW spent \in Nat,
         r.status \in {"ready", "in_progress", "uncertain"}, r.credited,
         spent <= r.credit, spent + r.fee + r.charge <= r.budget,
         NEW q, IsRow(q), q.status = "completed", q.spent = spent, q.credited = r.credited,
         q.funded = r.funded, q.usd = r.usd, q.fee = r.fee, q.basis = r.basis,
         q.net = r.net, q.fx = r.fx, q.budget = r.budget, q.credit = r.credit,
         q.plan = r.plan, q.charge = r.charge,
         NEW m, IsSheet(m),
         m.reserved = l.reserved - (r.budget + r.fx - r.fee - (r.usd - r.credit)),
         m.spent = l.spent + spent, m.residual = l.residual + r.credit - spent,
         m.available = l.available + (r.budget - r.basis - r.net),
         m.cost = l.cost, m.fx = l.fx, m.pending = l.pending
  PROVE  Kept(q, m)
<1>1. r.funded /\ r.fx = r.usd + r.fee - r.basis - r.net
  BY DEF Kept, Follows
<1>2. WellFormed(q)  BY DEF Kept, WellFormed, Statuses
<1>3. Follows(q)
  <2>1. q.status \notin Unfunded \cup {"cancelled"} /\ q.status # "none"  BY DEF Unfunded
  <2>2. q.spent <= q.credit /\ q.spent <= q.budget  BY DEF Kept, WellFormed
  <2>3. q.credited => q.charge = IF q.plan = None THEN q.usd - q.credit ELSE 0
    BY DEF Kept, Follows
  <2>4. q.funded /\ q.credited /\ q.fx = q.usd + q.fee - q.basis - q.net  BY <1>1
  <2>5. QED  BY <2>1, <2>2, <2>3, <2>4 DEF Follows
<1>4. Whole(m) /\ Sum(m) = 0  BY <1>1 DEF Kept, Whole, Sum, WellFormed
<1>5. m.reserved = Held(q)
  <2>1. Held(q) = 0  BY DEF Held
  <2>2. Held(r) = r.budget - r.basis - r.net + r.credit  BY <1>1 DEF Held
  <2>3. QED  BY <1>1, <2>1, <2>2 DEF Kept, Whole, WellFormed
<1>6. QED  BY <1>2, <1>3, <1>4, <1>5 DEF Kept

\* A payment is given up before anything was sent.
LEMMA CancelledKeeps ==
  ASSUME NEW r, NEW l, Kept(r, l), r.status = "reserved"
  PROVE  Kept([r EXCEPT !.status = "cancelled"],
              [l EXCEPT !.reserved = @ - r.budget, !.available = @ + r.budget])
<1> DEFINE q == [r EXCEPT !.status = "cancelled"]
           m == [l EXCEPT !.reserved = @ - r.budget, !.available = @ + r.budget]
<1>1. IsRow(q) /\ IsSheet(m)  BY DEF Kept, IsRow, IsSheet
<1>2. /\ q.status = "cancelled" /\ q.spent = r.spent /\ q.credited = r.credited
      /\ q.funded = r.funded /\ q.usd = r.usd /\ q.fee = r.fee /\ q.basis = r.basis
      /\ q.net = r.net /\ q.fx = r.fx /\ q.budget = r.budget /\ q.credit = r.credit
      /\ q.plan = r.plan /\ q.charge = r.charge
  BY DEF Kept, IsRow, Columns
<1>3. /\ m.reserved = l.reserved - r.budget /\ m.available = l.available + r.budget
      /\ m.spent = l.spent /\ m.residual = l.residual
      /\ m.cost = l.cost /\ m.fx = l.fx /\ m.pending = l.pending
  BY DEF Kept, IsSheet, Accounts
<1>4. ~r.funded /\ ~r.credited  BY DEF Kept, Follows, Unfunded
<1> HIDE DEF q, m
<1>5. WellFormed(q)  BY <1>2 DEF Kept, WellFormed, Statuses
<1>6. Follows(q)  BY <1>2, <1>4 DEF Kept, Follows, Unfunded, Sent, OnCard
<1>7. Whole(m) /\ Sum(m) = 0 /\ m.reserved = Held(q)
  BY <1>2, <1>3, <1>4 DEF Kept, Whole, Sum, WellFormed, Held
<1>8. QED  BY <1>1, <1>5, <1>6, <1>7 DEF Kept, q, m

\* A transfer finally failed: its gas is a cost, and the rest goes back.
LEMMA FailedKeeps ==
  ASSUME NEW r, NEW l, Kept(r, l), r.status \in {"funding_pending", "uncertain"}, ~r.funded,
         NEW fee \in Nat, NEW basis \in Int,
         NEW q, IsRow(q), q.status = "cancelled", q.fee = fee, q.basis = basis,
         q.fx = fee - basis, q.spent = r.spent, q.credited = r.credited, q.funded = r.funded,
         q.usd = r.usd, q.net = r.net, q.budget = r.budget, q.credit = r.credit,
         q.plan = r.plan, q.charge = r.charge,
         NEW m, IsSheet(m),
         m.reserved = l.reserved + (fee - basis) - fee - (r.budget - basis),
         m.fx = l.fx - (fee - basis), m.cost = l.cost + fee,
         m.available = l.available + (r.budget - basis),
         m.spent = l.spent, m.residual = l.residual, m.pending = l.pending
  PROVE  Kept(q, m)
<1>1. ~r.credited /\ r.spent = 0  BY DEF Kept, Follows
<1>2. WellFormed(q)  BY DEF Kept, WellFormed, Statuses
<1>3. Follows(q)  BY <1>1 DEF Kept, Follows, Unfunded, Sent, OnCard
<1>4. Whole(m) /\ Sum(m) = 0 /\ m.reserved = Held(q)  BY DEF Kept, Whole, Sum, WellFormed, Held
<1>5. QED  BY <1>2, <1>3, <1>4 DEF Kept

-----------------------------------------------------------------------------
\* A payment that was started has its credit, and is busy or done.
Standing(r) == r.credited /\ r.status \in Busy \cup {"completed"}

RefsApart ==
  \A p, q \in Payments : p # q => FiledApart(pay[p].completion, q, pay[q].completion)

\* Only what is completed has used a native receipt.
Filed == \A p \in Payments : pay[p].status # "completed" => pay[p].completion.native = None

\* What was completed when an operator's completion was checked still is, and does
\* not have its reference.
Foreseen(e, rows) ==
  \A q \in e.done : /\ rows[q].status = "completed"
                    /\ q # e.payment => Other(e.ref, rows[q].completion.native)
CheckedHolds == checked \subseteq Checks /\ \A e \in checked : Foreseen(e, pay)

SignedOnce == \A c, d \in claims : c.sig = d.sig => c = d

\* What the operations keep: every payment agrees with its entries, and who was
\* started, which references and which signatures are used stay apart.
IInv ==
  /\ pay = [p \in Payments |-> pay[p]] /\ led = [p \in Payments |-> led[p]]
  /\ \A p \in Payments : Kept(pay[p], led[p])
  /\ started \subseteq Payments
  /\ \A p \in started : Standing(pay[p])
  /\ OneSpendPerChannel
  /\ RefsApart /\ SignedOnce /\ Filed /\ CheckedHolds

\* Nothing is there at first.
LEMMA InvInit == Init => IInv
<1> SUFFICES ASSUME Init PROVE IInv  OBVIOUS
<1>1. \A p \in Payments : pay[p] = NoPayment /\ led[p] = NoEntries
  BY DEF Init, NoEntries
<1>2. RefsApart /\ Filed
  BY <1>1 DEF RefsApart, Filed, FiledApart, Other, NoPayment, NoCompletion
<1>3. SignedOnce /\ OneSpendPerChannel /\ CheckedHolds
  BY DEF Init, SignedOnce, OneSpendPerChannel, CheckedHolds
<1>4. QED  BY <1>1, <1>2, <1>3, EmptyKept DEF IInv, Init

\* What an operation on one payment has to do to that payment to keep all.
LEMMA OneChanges ==
  ASSUME IInv, NEW p \in Payments, NEW r, NEW l, Kept(r, l), Save(p, r), Book(p, l),
         UNCHANGED <<claims, started>>, checked' \subseteq checked,
         pay[p].status # "completed",
         \/ r.completion = pay[p].completion
         \/ /\ r.status = "completed"
            /\ \A q \in Payments \ {p} : /\ FiledApart(r.completion, q, pay[q].completion)
                                         /\ FiledApart(pay[q].completion, p, r.completion),
         p \in started => /\ Standing(r) /\ r.token = pay[p].token
                          /\ pay[p].status = "completed" => r.status = "completed"
  PROVE  IInv'
<1>1. \A q \in Payments : q # p => pay'[q] = pay[q] /\ led'[q] = led[q]
  BY DEF IInv, Save, Book
<1>2. pay'[p] = r /\ led'[p] = l  BY DEF IInv, Save, Book
<1>3. pay' = [q \in Payments |-> pay'[q]] /\ led' = [q \in Payments |-> led'[q]]
  BY DEF IInv, Save, Book
<1>4. \A q \in Payments : Kept(pay'[q], led'[q])  BY <1>1, <1>2 DEF IInv
<1>5. /\ started' \subseteq Payments
      /\ \A q \in started' : Standing(pay'[q])
  BY <1>1, <1>2 DEF IInv
<1>6. OneSpendPerChannel'
  <2>1. \A q \in started : /\ pay'[q].token = pay[q].token
                           /\ pay'[q].status # "completed" => pay[q].status # "completed"
    BY <1>1, <1>2 DEF IInv
  <2>2. QED  BY <2>1 DEF IInv, OneSpendPerChannel
<1>7. RefsApart'
  <2>1. \A q \in Payments \ {p} : /\ FiledApart(r.completion, q, pay[q].completion)
                                  /\ FiledApart(pay[q].completion, p, r.completion)
    BY DEF IInv, RefsApart
  <2>2. QED  BY <1>1, <1>2, <2>1 DEF IInv, RefsApart
<1>8. SignedOnce'  BY DEF IInv, SignedOnce
<1>9. Filed'  BY <1>1, <1>2 DEF IInv, Filed
<1>10. CheckedHolds'
  <2>1. SUFFICES ASSUME NEW e \in checked' PROVE e \in Checks /\ Foreseen(e, pay')
    BY DEF CheckedHolds
  <2>2. e \in Checks /\ Foreseen(e, pay)  BY DEF IInv, CheckedHolds
  <2>3. e.done \subseteq Payments /\ p \notin e.done
    <3>1. e.done \subseteq Payments  BY <2>2 DEF Checks
    <3>2. p \notin e.done  BY <2>2 DEF Foreseen
    <3>3. QED  BY <3>1, <3>2
  <2>4. \A q \in e.done : pay'[q] = pay[q]  BY <1>1, <2>3
  <2>5. Foreseen(e, pay')  BY <2>2, <2>4 DEF Foreseen
  <2>6. QED  BY <2>2, <2>5
<1>11. QED  BY <1>3, <1>4, <1>5, <1>6, <1>7, <1>8, <1>9, <1>10 DEF IInv

\* The same, of an operation that books nothing.
LEMMA NothingBooked ==
  ASSUME IInv, NEW p \in Payments, UNCHANGED led
  PROVE  Book(p, led[p])
BY DEF IInv, Book

-----------------------------------------------------------------------------
\* Each operation keeps the invariant.  A payment is reserved.
LEMMA ReserveStep ==
  ASSUME IInv, NEW p \in Payments, NEW t \in Tokens, NEW b, Reserve(p, t, b)
  PROVE  IInv'
<1>0. PICK r, l : r = pay[p] /\ l = led[p]  OBVIOUS
<1> DEFINE q == [NoPayment EXCEPT !.token = t, !.budget = b, !.status = "reserved"]
           m == [l EXCEPT !.available = @ - b, !.reserved = @ + b]
<1>1. b \in Nat  BY LedgerAssumption DEF Reserve, Entries
<1>2. r.status = "none" /\ Save(p, q) /\ Book(p, m) /\ UNCHANGED <<claims, started, checked>>
  BY <1>0 DEF Reserve, Fresh
<1>3. Kept(r, l)  BY <1>0 DEF IInv
<1>4. IsRow(q) /\ IsSheet(m)
  <2>1. IsRow(q)  BY EmptyKept DEF Kept, IsRow
  <2>2. IsSheet(m)  BY <1>3 DEF Kept, IsSheet
  <2>3. QED  BY <2>1, <2>2
<1>5. WellFormed(q)  BY <1>1 DEF WellFormed, NoPayment, Statuses
<1>6. Follows(q)  BY <1>1 DEF Follows, NoPayment, Unfunded, Sent, OnCard
<1>7. q.status = "reserved" /\ q.budget = b /\ ~q.funded /\ q.completion = NoCompletion  BY DEF NoPayment
<1>8. /\ m.available = l.available - b /\ m.reserved = l.reserved + b
      /\ m.spent = l.spent /\ m.cost = l.cost /\ m.residual = l.residual
      /\ m.fx = l.fx /\ m.pending = l.pending
  BY <1>3 DEF Kept, IsSheet, Accounts
<1> HIDE DEF q, m
<1>9. Kept(q, m)  BY <1>1, <1>2, <1>3, <1>4, <1>5, <1>6, <1>7, <1>8, ReserveKeeps
<1>10. q.completion = pay[p].completion  BY <1>0, <1>2, <1>3, <1>7 DEF Kept, Follows, NoPayment
<1>11. p \notin started  BY <1>0, <1>2 DEF IInv, Standing, Busy
<1>12. QED  BY <1>0, <1>2, <1>9, <1>10, <1>11, OneChanges

\* A native reservation pins SOL and books nothing.
LEMMA ReserveNativeStep ==
  ASSUME IInv, NEW p \in Payments, NEW n \in Plans, ReserveNative(p, n)
  PROVE  IInv'
<1> DEFINE r == pay[p]
           lamports == AvailableLamports(r.token)
           from == AvailableBasis(r.token)
           pin == Quotient(from * (n.amount + n.maxFee), lamports)
           q == [r EXCEPT !.plan = n, !.lamports = lamports, !.from = from, !.pinned = pin,
                          !.status = "funding_pending"]
<1>1. r.status = "reserved" /\ Save(p, q) /\ UNCHANGED <<claims, started, led, checked>>
  BY DEF ReserveNative
<1>2. Kept(r, led[p])  BY DEF IInv
<1>3. ~r.credited  BY <1>1, <1>2 DEF Kept, Follows, Unfunded
<1> HIDE DEF lamports, from, pin
<1>4. IsRow(q)  BY <1>2 DEF Kept, IsRow
<1>5. /\ q.plan = n /\ q.status = "funding_pending" /\ q.completion = r.completion
      /\ q.budget = r.budget /\ q.usd = r.usd /\ q.fee = r.fee /\ q.credit = r.credit
      /\ q.charge = r.charge /\ q.spent = r.spent /\ q.basis = r.basis /\ q.net = r.net
      /\ q.fx = r.fx /\ q.funded = r.funded /\ q.credited = r.credited
  BY <1>2 DEF Kept, IsRow, Columns
<1> HIDE DEF q
<1>6. Kept(q, led[p])  BY <1>1, <1>2, <1>3, <1>4, <1>5, StatusKeeps
<1>7. Book(p, led[p])  BY <1>1, NothingBooked
<1>8. p \notin started  BY <1>1 DEF IInv, Standing, Busy
<1>9. QED  BY <1>1, <1>5, <1>6, <1>7, <1>8, OneChanges

\* A step that only moves a payment's status.
LEMMA StatusStep ==
  ASSUME IInv, NEW p \in Payments, NEW s, Save(p, [pay[p] EXCEPT !.status = s]),
         UNCHANGED <<claims, started, led, checked>>,
         pay[p].status \notin {"none", "completed", "cancelled"},
         s \in {"funding_pending", "in_progress", "uncertain"},
         s = "in_progress" => pay[p].credited,
         p \in started => s \in Busy
  PROVE  IInv'
<1> DEFINE r == pay[p]
           q == [r EXCEPT !.status = s]
<1>1. Kept(r, led[p])  BY DEF IInv
<1>2. IsRow(q)  BY <1>1 DEF Kept, IsRow
<1>3. /\ q.plan = r.plan /\ q.status = s /\ q.completion = r.completion /\ q.token = r.token
      /\ q.budget = r.budget /\ q.usd = r.usd /\ q.fee = r.fee /\ q.credit = r.credit
      /\ q.charge = r.charge /\ q.spent = r.spent /\ q.basis = r.basis /\ q.net = r.net
      /\ q.fx = r.fx /\ q.funded = r.funded /\ q.credited = r.credited
  BY <1>1 DEF Kept, IsRow, Columns
<1>4. r.plan \in Plans \cup {None}  BY <1>1 DEF Kept, WellFormed
<1> HIDE DEF q
<1>5. Kept(q, led[p])  BY <1>1, <1>2, <1>3, <1>4, StatusKeeps
<1>6. Book(p, led[p])  BY NothingBooked
<1>7. p \in started => Standing(q)  BY <1>3 DEF IInv, Standing
<1>8. QED  BY <1>3, <1>5, <1>6, <1>7, OneChanges DEF q

\* What both ways of funding write.
LEMMA FundedStep ==
  ASSUME IInv, NEW p \in Payments, NEW x, x.usd \in Nat, x.fee \in Nat, Funded(p, x),
         pay[p].status \in {"reserved", "funding_pending", "uncertain"}, ~pay[p].funded,
         UNCHANGED <<claims, started, checked>>
  PROVE  IInv'
<1> DEFINE r == pay[p]
           fx == x.usd + x.fee - x.basis - x.net
           q == [r EXCEPT !.funded = TRUE, !.sol = x.sol, !.gas = x.gas, !.usd = x.usd,
                          !.fee = x.fee, !.basis = x.basis, !.net = x.net, !.fx = fx,
                          !.over = x.over,
                          !.status = IF x.over THEN "uncertain" ELSE "funding_submitted"]
           m == [led[p] EXCEPT !.reserved = @ + fx - x.fee, !.fx = @ - fx, !.cost = @ + x.fee]
<1>1. Save(p, q) /\ Book(p, m)  BY DEF Funded
<1>2. x.basis \in Int /\ x.net \in Int  BY DEF Funded, Entries
<1>3. Kept(r, led[p])  BY DEF IInv
<1>4. Kept(q, m)  BY <1>2, <1>3, FundedKeeps
<1>5. q.completion = r.completion  BY <1>3 DEF Kept, IsRow, Columns
<1>6. p \notin started  BY <1>3 DEF IInv, Standing, Kept, Follows
<1> HIDE DEF q, m
<1>7. QED  BY <1>1, <1>4, <1>5, <1>6, OneChanges

\* Amounts at the price of SOL are whole and not negative.
LEMMA Priced ==
  ASSUME NEW x \in Nat
  PROVE  Value(x) \in Nat /\ GasCents(x) \in Nat
<1>1. Rate \in Nat /\ Unit \in Nat \ {0}  BY LedgerAssumption
<1>2. x * Rate \in Nat  BY <1>1
<1>3. x * Rate + Unit - 1 \in Nat  BY <1>1, <1>2
<1>4. \A y \in Nat, u \in Nat \ {0} : y \div u \in Nat  OBVIOUS
<1>5. QED  BY <1>1, <1>2, <1>3, <1>4 DEF Value, GasCents

\* The transfer of a native reservation is finalized.
LEMMA NativeFundingStep ==
  ASSUME IInv, NEW p \in Payments, NEW gas \in Gases,
         RecordNativeFunding(p, gas)
  PROVE  IInv'
<1> DEFINE n == pay[p].plan
           basis == BasisOf(p, n.amount)
           x == [sol |-> n.amount, gas |-> gas, usd |-> Value(n.amount),
                 fee |-> GasCents(gas), basis |-> basis,
                 net |-> BasisOf(p, n.amount + gas) - basis, over |-> Overrun(n, gas)]
<1>1. /\ Funded(p, x) /\ pay[p].status \in {"funding_pending", "uncertain"}
      /\ ~pay[p].funded /\ n # None /\ UNCHANGED <<claims, started, checked>>
  BY DEF RecordNativeFunding
<1>2. n \in Plans  BY <1>1 DEF IInv, Kept, WellFormed
<1>3. n.amount \in Nat /\ gas \in Nat
  <2>1. \A k \in Plans : k.amount \in Nat  BY LedgerAssumption
  <2>2. Gases \subseteq Nat  BY LedgerAssumption
  <2>3. n.amount \in Nat  BY <1>2, <2>1
  <2>4. gas \in Nat  BY <2>2
  <2>5. QED  BY <2>3, <2>4
<1>4. x.usd \in Nat /\ x.fee \in Nat  BY <1>3, Priced
<1> HIDE DEF x
<1>5. QED  BY <1>1, <1>4, FundedStep

\* The transfer of an invoice is finalized.
LEMMA FundingStep ==
  ASSUME IInv, NEW p \in Payments, NEW x \in Transfers,
         RecordFunding(p, x)
  PROVE  IInv'
<1> DEFINE lamports == AvailableLamports(pay[p].token)
           used == x.sol + x.gas
           basis == Quotient(AvailableBasis(pay[p].token) * x.sol, lamports)
           net == IF x.gas > 0
                  THEN Quotient(AvailableBasis(pay[p].token) * used, lamports) - basis ELSE x.fee
           y == [sol |-> x.sol, gas |-> x.gas, usd |-> x.usd, fee |-> x.fee,
                 basis |-> basis, net |-> net, over |-> FALSE]
<1>1. /\ Funded(p, y) /\ pay[p].status \in {"reserved", "funding_pending", "uncertain"}
      /\ ~pay[p].funded /\ UNCHANGED <<claims, started, checked>>
  BY DEF RecordFunding
<1>2. y.usd \in Nat /\ y.fee \in Nat  BY LedgerAssumption
<1> HIDE DEF y
<1>3. QED  BY <1>1, <1>2, FundedStep

\* What both kinds of credit write.
LEMMA CreditedStep ==
  ASSUME IInv, NEW p \in Payments, NEW c \in Nat, NEW s, NEW m,
         Credited(p, c, s), Book(p, m), UNCHANGED <<claims, started, checked>>,
         pay[p].plan = None => c <= pay[p].usd,
         pay[p].status \in {"funding_submitted", "uncertain"},
         pay[p].funded, ~pay[p].credited,
         s \in {"uncertain", "ready", "awaiting_threshold"},
         NEW l, l = led[p], IsSheet(m),
         m.reserved = l.reserved - (pay[p].usd - c),
         m.available = l.available, m.spent = l.spent, m.residual = l.residual, m.fx = l.fx,
         \/ m.cost = l.cost + (pay[p].usd - c) /\ m.pending = l.pending
         \/ m.pending = l.pending + (pay[p].usd - c) /\ m.cost = l.cost
  PROVE  IInv'
<1>0. PICK r : r = pay[p]  OBVIOUS
<1> DEFINE g == IF r.plan = None THEN r.usd - c ELSE 0
           q == [r EXCEPT !.credited = TRUE, !.credit = c, !.status = s, !.charge = g]
<1>1. Save(p, q)  BY <1>0 DEF Credited
<1>2. Kept(r, l)  BY <1>0 DEF IInv
<1>3. /\ r.plan = None => c <= r.usd
      /\ r.status \in {"funding_submitted", "uncertain"} /\ r.funded /\ ~r.credited
      /\ m.reserved = l.reserved - (r.usd - c)
      /\ \/ m.cost = l.cost + (r.usd - c) /\ m.pending = l.pending
         \/ m.pending = l.pending + (r.usd - c) /\ m.cost = l.cost
  BY <1>0
<1>4. g = IF r.plan = None THEN r.usd - c ELSE 0  OBVIOUS
<1> HIDE DEF g
<1>5. IsRow(q)  BY <1>2 DEF Kept, IsRow
<1>6. /\ q.status = s /\ q.credit = c /\ q.completion = r.completion /\ q.funded = r.funded
      /\ q.charge = g
      /\ q.usd = r.usd /\ q.fee = r.fee /\ q.basis = r.basis /\ q.net = r.net
      /\ q.fx = r.fx /\ q.budget = r.budget /\ q.spent = r.spent /\ q.plan = r.plan
  BY <1>2 DEF Kept, IsRow, Columns
<1>7. q.credited  BY <1>2 DEF Kept, IsRow, Columns
<1> HIDE DEF q
<1>8. Kept(q, m)  BY <1>2, <1>3, <1>4, <1>5, <1>6, <1>7, CreditedKeeps
<1>9. p \notin started  BY <1>0, <1>3 DEF IInv, Standing
<1>10. QED  BY <1>0, <1>1, <1>6, <1>8, <1>9, OneChanges

\* The card received something, from either kind of funding.
LEMMA CreditStep ==
  ASSUME IInv, NEW p \in Payments, NEW c \in Credits,
         RecordNativeCredit(p, c) \/ RecordCardCredit(p, c)
  PROVE  IInv'
<1>0. PICK l, usd : l = led[p] /\ usd = pay[p].usd  OBVIOUS
<1>1. c \in Nat  BY LedgerAssumption
<1>2. IsSheet(l)  BY <1>0 DEF IInv, Kept
<1>3. CASE RecordNativeCredit(p, c)
  <2> DEFINE m == [l EXCEPT !.reserved = @ - (usd - c), !.pending = @ + (usd - c)]
             s == IF pay[p].over THEN "uncertain"
                  ELSE IF Spendable([pay[p] EXCEPT !.credited = TRUE, !.credit = c])
                            >= Threshold THEN "ready"
                  ELSE "awaiting_threshold"
  <2>1. /\ Credited(p, c, s) /\ Book(p, m) /\ UNCHANGED <<claims, started, checked>>
        /\ pay[p].plan # None /\ pay[p].status \in {"funding_submitted", "uncertain"}
        /\ pay[p].funded /\ ~pay[p].credited
    BY <1>0, <1>3 DEF RecordNativeCredit
  <2>2. s \in {"uncertain", "ready", "awaiting_threshold"}  OBVIOUS
  <2>3. IsSheet(m)  BY <1>2 DEF IsSheet
  <2>4. /\ m.reserved = l.reserved - (usd - c)
        /\ m.available = l.available /\ m.spent = l.spent /\ m.residual = l.residual
        /\ m.fx = l.fx /\ m.pending = l.pending + (usd - c) /\ m.cost = l.cost
    BY <1>2 DEF IsSheet, Accounts
  <2> HIDE DEF s, m
  <2>5. QED  BY <1>0, <1>1, <2>1, <2>2, <2>3, <2>4, CreditedStep
<1>4. CASE RecordCardCredit(p, c)
  <2> DEFINE m == [l EXCEPT !.reserved = @ - (usd - c), !.cost = @ + (usd - c)]
             s == IF c >= Threshold THEN "ready" ELSE "awaiting_threshold"
  <2>1. /\ Credited(p, c, s) /\ Book(p, m) /\ UNCHANGED <<claims, started, checked>>
        /\ c <= pay[p].usd /\ pay[p].status \in {"funding_submitted", "uncertain"}
        /\ pay[p].funded /\ ~pay[p].credited
    BY <1>0, <1>4 DEF RecordCardCredit, Matches
  <2>2. s \in {"uncertain", "ready", "awaiting_threshold"}  OBVIOUS
  <2>3. IsSheet(m)  BY <1>2 DEF IsSheet
  <2>4. /\ m.reserved = l.reserved - (usd - c)
        /\ m.available = l.available /\ m.spent = l.spent /\ m.residual = l.residual
        /\ m.fx = l.fx /\ m.cost = l.cost + (usd - c) /\ m.pending = l.pending
    BY <1>2 DEF IsSheet, Accounts
  <2> HIDE DEF s, m
  <2>5. QED  BY <1>0, <1>1, <2>1, <2>2, <2>3, <2>4, CreditedStep
<1>5. QED  BY <1>3, <1>4

\* A purchase is completed; what it is filed under is apart from every other's.
LEMMA FinishedStep ==
  ASSUME IInv, NEW p \in Payments, NEW spent \in Spends, NEW c, Finished(p, spent, c),
         checked' \subseteq checked,
         \A x \in Payments \ {p} : /\ FiledApart(c, x, pay[x].completion)
                                   /\ FiledApart(pay[x].completion, p, c)
  PROVE  IInv'
<1>0. PICK r, l : r = pay[p] /\ l = led[p]  OBVIOUS
<1> DEFINE kept == IF r.plan = None THEN r.charge ELSE r.usd - r.credit
           q == [r EXCEPT !.status = "completed", !.spent = spent, !.completion = c]
           m == [l EXCEPT !.reserved = @ - (r.budget + r.fx - r.fee - kept),
                          !.spent = @ + spent, !.residual = @ + r.credit - spent,
                          !.available = @ + (r.budget - r.basis - r.net)]
<1>1. /\ Save(p, q) /\ Book(p, m) /\ UNCHANGED <<claims, started>>
      /\ r.status \in {"ready", "in_progress", "uncertain"} /\ r.credited
      /\ spent <= r.credit /\ spent + r.fee + r.charge <= r.budget
  BY <1>0 DEF Finished, Left
<1>2. spent \in Nat  BY LedgerAssumption
<1>3. Kept(r, l)  BY <1>0 DEF IInv
<1> HIDE DEF kept
<1>4. IsRow(q) /\ IsSheet(m)
  <2>1. IsRow(q)  BY <1>3 DEF Kept, IsRow
  <2>2. IsSheet(m)  BY <1>3 DEF Kept, IsSheet
  <2>3. QED  BY <2>1, <2>2
<1>5. /\ q.status = "completed" /\ q.spent = spent /\ q.credited = r.credited
      /\ q.funded = r.funded /\ q.usd = r.usd /\ q.fee = r.fee /\ q.basis = r.basis
      /\ q.net = r.net /\ q.fx = r.fx /\ q.budget = r.budget /\ q.credit = r.credit
      /\ q.plan = r.plan /\ q.charge = r.charge /\ q.completion = c /\ q.token = r.token
  BY <1>3 DEF Kept, IsRow, Columns
<1>6. /\ m.reserved = l.reserved - (r.budget + r.fx - r.fee - kept)
      /\ m.spent = l.spent + spent /\ m.residual = l.residual + r.credit - spent
      /\ m.available = l.available + (r.budget - r.basis - r.net)
      /\ m.cost = l.cost /\ m.fx = l.fx /\ m.pending = l.pending
  BY <1>3 DEF Kept, IsSheet, Accounts
<1>7. kept = r.usd - r.credit  BY <1>1, <1>3 DEF Kept, Follows, kept
<1> HIDE DEF q, m
<1>8. Kept(q, m)  BY <1>1, <1>2, <1>3, <1>4, <1>5, <1>6, <1>7, CompletedKeeps
<1>9. Standing(q)  BY <1>1, <1>5 DEF Standing
<1>10. QED  BY <1>0, <1>1, <1>5, <1>8, <1>9, OneChanges

\* An operator's completion: what was completed behind its check is named as missed,
\* and what was not has been compared.
LEMMA CompletePaymentStep ==
  ASSUME IInv, NEW e \in checked, CompletePayment(e)
  PROVE  IInv'
<1>1. e \in Checks /\ Foreseen(e, pay)  BY DEF IInv, CheckedHolds
<1>2. e.payment \in Payments /\ e.spent \in Spends  BY <1>1 DEF Checks
<1>3. PICK p, c : p = e.payment /\ c = Attested(e)  OBVIOUS
<1>4. /\ c.ref = e.ref /\ c.native = None /\ c.url = e.url
      /\ c.missed = Completed \ e.done
  BY <1>3 DEF Attested
<1>5. ASSUME NEW x \in Payments \ {p}
      PROVE  /\ FiledApart(c, x, pay[x].completion)
             /\ FiledApart(pay[x].completion, p, c)
  <2>1. Other(pay[x].completion.ref, c.ref) /\ Other(pay[x].completion.url, c.url)
    BY <1>3 DEF CompletePayment, Indexed
  <2>2. Other(c.ref, pay[x].completion.native) \/ x \in c.missed
    <3>1. CASE x \in e.done  BY <1>1, <1>3, <1>4, <1>5, <3>1 DEF Foreseen
    <3>2. CASE x \notin e.done /\ pay[x].status = "completed"
      BY <1>4, <3>2 DEF Completed
    <3>3. CASE pay[x].status # "completed"
      BY <3>3 DEF IInv, Filed, Other
    <3>4. QED  BY <3>1, <3>2, <3>3
  <2>3. QED  BY <1>4, <2>1, <2>2 DEF FiledApart, Other
<1>6. Finished(p, e.spent, c) /\ checked' \subseteq checked
  BY <1>3 DEF CompletePayment
<1>7. p \in Payments  BY <1>2, <1>3
<1>8. QED  BY <1>2, <1>5, <1>6, <1>7, FinishedStep

\* A verified completion compares everything in its own transaction.
LEMMA CompletePaymentVerifiedStep ==
  ASSUME IInv, NEW p \in Payments, NEW spent \in Spends, NEW c \in Filings,
         CompletePaymentVerified(p, spent, c)
  PROVE  IInv'
<1>1. ASSUME NEW x \in Payments \ {p}
      PROVE  /\ FiledApart(c, x, pay[x].completion)
             /\ FiledApart(pay[x].completion, p, c)
  <2>1. /\ Named(pay[x].completion) \cap Named(c) = {}
        /\ Other(pay[x].completion.url, c.url)
    BY DEF CompletePaymentVerified, Unused
  <2>2. QED  BY <2>1 DEF FiledApart, Other, Named
<1>2. Finished(p, spent, c) /\ checked' \subseteq checked
  BY DEF CompletePaymentVerified
<1>3. QED  BY <1>1, <1>2, FinishedStep

\* An operator's completion is checked.
LEMMA CheckStep ==
  ASSUME IInv, NEW p \in Payments, NEW spent \in Spends, NEW ref \in Refs \cup {None},
         NEW url \in Urls \cup {None}, Check(p, spent, ref, url)
  PROVE  IInv'
<1>1. PICK e : e = [payment |-> p, spent |-> spent, ref |-> ref, url |-> url,
                    done |-> Completed]
  OBVIOUS
<1>2. e \in Checks  BY <1>1 DEF Checks, Completed
<1>3. /\ e.payment = p /\ e.ref = ref /\ e.done = Completed  BY <1>1
<1>4. checked' = checked \cup {e}  BY <1>1 DEF Check
<1>5. Foreseen(e, pay)
  <2>1. ASSUME NEW x \in Completed, x # p
        PROVE  Other(ref, pay[x].completion.native)
    <3>1. x \in Payments \ {p}  BY <2>1 DEF Completed
    <3>2. PICK f : f = [NoCompletion EXCEPT !.ref = ref, !.url = url]  OBVIOUS
    <3>3. f.ref = ref  BY <3>2 DEF NoCompletion
    <3>4. Named(pay[x].completion) \cap Named(f) = {}
      BY <3>1, <3>2 DEF Check, Unused
    <3>5. QED  BY <3>3, <3>4 DEF Named, Other
  <2>2. QED  BY <1>3, <2>1 DEF Foreseen, Completed
<1>6. UNCHANGED <<claims, pay, led, started>>  BY DEF Check
<1>7. CheckedHolds'  BY <1>2, <1>4, <1>5, <1>6 DEF IInv, CheckedHolds
<1>8. QED  BY <1>6, <1>7 DEF IInv, OneSpendPerChannel, RefsApart, SignedOnce, Filed

\* A reservation is cancelled.
LEMMA CancelStep ==
  ASSUME IInv, NEW p \in Payments, CancelPayment(p)
  PROVE  IInv'
<1> DEFINE r == pay[p]
           q == [r EXCEPT !.status = "cancelled"]
           m == [led[p] EXCEPT !.reserved = @ - r.budget, !.available = @ + r.budget]
<1>1. r.status = "reserved" /\ Save(p, q) /\ Book(p, m) /\ UNCHANGED <<claims, started, checked>>
  BY DEF CancelPayment
<1>2. Kept(r, led[p])  BY DEF IInv
<1>r. r.status = "reserved"  BY <1>1
<1>3. Kept(q, m)  BY <1>r, <1>2, CancelledKeeps
<1>4. q.completion = r.completion  BY <1>2 DEF Kept, IsRow, Columns
<1>5. p \notin started  BY <1>1 DEF IInv, Standing, Busy
<1> HIDE DEF q, m
<1>6. QED  BY <1>1, <1>3, <1>4, <1>5, OneChanges

\* A failed transfer is resolved.
LEMMA ResolveFailedStep ==
  ASSUME IInv, NEW p \in Payments, NEW gas \in Gases, ResolveFailed(p, gas)
  PROVE  IInv'
<1>0. PICK r, l : r = pay[p] /\ l = led[p]  OBVIOUS
<1> DEFINE native == r.plan # None
           lamports == IF native THEN r.lamports ELSE AvailableLamports(r.token)
           from == IF native THEN r.from ELSE AvailableBasis(r.token)
           basis == IF gas = 0 THEN 0 ELSE Quotient(from * gas, lamports)
           fee == GasCents(gas)
           over == native /\ Overrun(r.plan, gas)
           q == [r EXCEPT !.status = "cancelled", !.failed = TRUE, !.gas = gas, !.fee = fee,
                          !.basis = basis, !.fx = fee - basis, !.over = over]
           m == [l EXCEPT !.reserved = @ + (fee - basis) - fee - (r.budget - basis),
                               !.fx = @ - (fee - basis), !.cost = @ + fee,
                               !.available = @ + (r.budget - basis)]
<1>1. /\ r.status \in {"funding_pending", "uncertain"} /\ ~r.funded
      /\ basis \in Int /\ Save(p, q) /\ Book(p, m) /\ UNCHANGED <<claims, started, checked>>
  BY <1>0 DEF ResolveFailed, Released, Entries
<1>2. gas \in Nat  BY LedgerAssumption
<1>3. fee \in Nat  BY <1>2, Priced
<1>4. Kept(r, l)  BY <1>0 DEF IInv
<1> HIDE DEF basis, fee, over
<1>5. IsRow(q) /\ IsSheet(m)
  <2>1. IsRow(q)  BY <1>4 DEF Kept, IsRow
  <2>2. IsSheet(m)  BY <1>4 DEF Kept, IsSheet
  <2>3. QED  BY <2>1, <2>2
<1>6. /\ q.status = "cancelled" /\ q.fee = fee /\ q.basis = basis /\ q.fx = fee - basis
      /\ q.spent = r.spent /\ q.credited = r.credited /\ q.funded = r.funded
      /\ q.usd = r.usd /\ q.net = r.net /\ q.budget = r.budget /\ q.credit = r.credit
      /\ q.plan = r.plan /\ q.charge = r.charge /\ q.completion = r.completion
  BY <1>4 DEF Kept, IsRow, Columns
<1>7. /\ m.reserved = l.reserved + (fee - basis) - fee - (r.budget - basis)
      /\ m.fx = l.fx - (fee - basis) /\ m.cost = l.cost + fee
      /\ m.available = l.available + (r.budget - basis)
      /\ m.spent = l.spent /\ m.residual = l.residual
      /\ m.pending = l.pending
  BY <1>4 DEF Kept, IsSheet, Accounts
<1> HIDE DEF q, m
<1>8. Kept(q, m)  BY <1>1, <1>3, <1>4, <1>5, <1>6, <1>7, FailedKeeps
<1>9. p \notin started  BY <1>0, <1>1, <1>4 DEF IInv, Standing, Kept, Follows
<1>10. QED  BY <1>0, <1>1, <1>6, <1>8, <1>9, OneChanges

\* Starting a payment: no other of its channel is busy.
LEMMA StartStep ==
  ASSUME IInv, NEW p \in Payments, StartPayment(p)
  PROVE  IInv'
<1>1. /\ pay[p].status = "ready" /\ Clear(p) /\ started' = started \cup {p}
      /\ Save(p, [pay[p] EXCEPT !.status = "in_progress"]) /\ UNCHANGED <<claims, led, checked>>
  BY DEF StartPayment
<1>2. Kept(pay[p], led[p])  BY DEF IInv
<1>3. pay[p].credited  BY <1>1, <1>2 DEF Kept, Follows, OnCard, Sent
<1>4. PICK q : q = [pay[p] EXCEPT !.status = "in_progress"]  OBVIOUS
<1>5. PICK r : r = pay[p]  OBVIOUS
<1>6. IsRow(q)
  <2>1. IsRow(r) /\ q = [r EXCEPT !.status = "in_progress"]  BY <1>2, <1>4, <1>5 DEF Kept
  <2>2. QED  BY <2>1 DEF IsRow
<1>7. /\ q.plan = r.plan /\ q.status = "in_progress" /\ q.completion = r.completion /\ q.token = r.token
      /\ q.budget = r.budget /\ q.usd = r.usd /\ q.fee = r.fee /\ q.credit = r.credit
      /\ q.charge = r.charge /\ q.spent = r.spent /\ q.basis = r.basis /\ q.net = r.net
      /\ q.fx = r.fx /\ q.funded = r.funded /\ q.credited = r.credited
  BY <1>2, <1>4, <1>5 DEF Kept, IsRow, Columns
<1>8. Kept(q, led[p])
  <2>1. Kept(r, led[p]) /\ r.status = "ready" /\ r.credited  BY <1>1, <1>2, <1>3, <1>5
  <2>2. r.plan \in Plans \cup {None}  BY <2>1 DEF Kept, WellFormed
  <2>3. QED  BY <1>6, <1>7, <2>1, <2>2, StatusKeeps
<1>9. /\ pay' = [x \in Payments |-> pay'[x]] /\ led' = [x \in Payments |-> led'[x]]
      /\ pay'[p] = q /\ \A x \in Payments : x # p => pay'[x] = pay[x]
      /\ \A x \in Payments : led'[x] = led[x]
  BY <1>1, <1>4 DEF IInv, Save
<1>10. \A x \in Payments : Kept(pay'[x], led'[x])  BY <1>8, <1>9 DEF IInv
<1>11. \A x \in started' : Standing(pay'[x])
  <2>1. Standing(q)  BY <1>3, <1>5, <1>7 DEF Standing, Busy
  <2>2. QED  BY <1>1, <1>9, <2>1 DEF IInv
<1>12. OneSpendPerChannel'
  <2>1. \A x \in Payments : pay'[x].token = pay[x].token  BY <1>5, <1>7, <1>9
  <2>2. \A x \in started \ {p} : pay[x].status # "completed"
          => ChannelOf[pay[x].token] # ChannelOf[pay[p].token]
    BY <1>1 DEF IInv, Standing, Clear
  <2>3. \A x \in started \ {p} : pay'[x].status = pay[x].status  BY <1>9 DEF IInv
  <2>4. SUFFICES ASSUME NEW x \in started', NEW y \in started', x # y,
                        pay'[x].status # "completed", pay'[y].status # "completed"
                 PROVE  ChannelOf[pay'[x].token] # ChannelOf[pay'[y].token]
    BY DEF OneSpendPerChannel
  <2>5. CASE x = p  BY <1>1, <2>1, <2>2, <2>3, <2>4, <2>5 DEF IInv
  <2>6. CASE y = p  BY <1>1, <2>1, <2>2, <2>3, <2>4, <2>6 DEF IInv
  <2>7. CASE x # p /\ y # p
    BY <1>1, <2>1, <2>3, <2>4, <2>7 DEF IInv, OneSpendPerChannel
  <2>8. QED  BY <2>5, <2>6, <2>7
<1>13. RefsApart'
  <2>1. \A x \in Payments : pay'[x].completion = pay[x].completion  BY <1>5, <1>7, <1>9
  <2>2. QED  BY <2>1 DEF IInv, RefsApart
<1>14. SignedOnce' /\ started' \subseteq Payments  BY <1>1 DEF IInv, SignedOnce
<1>15. Filed'  BY <1>1, <1>5, <1>7, <1>9 DEF IInv, Filed
<1>16. CheckedHolds'
  <2>1. SUFFICES ASSUME NEW e \in checked PROVE e \in Checks /\ Foreseen(e, pay')
    BY <1>1 DEF CheckedHolds
  <2>2. e \in Checks /\ Foreseen(e, pay)  BY DEF IInv, CheckedHolds
  <2>3. e.done \subseteq Payments /\ p \notin e.done
    <3>1. e.done \subseteq Payments  BY <2>2 DEF Checks
    <3>2. p \notin e.done  BY <1>1, <2>2 DEF Foreseen
    <3>3. QED  BY <3>1, <3>2
  <2>4. \A x \in e.done : pay'[x] = pay[x]  BY <1>9, <2>3
  <2>5. Foreseen(e, pay')  BY <2>2, <2>4 DEF Foreseen
  <2>6. QED  BY <2>2, <2>5
<1>17. QED  BY <1>9, <1>10, <1>11, <1>12, <1>13, <1>14, <1>15, <1>16 DEF IInv

\* An operation that touches no payment.
LEMMA OthersStep ==
  ASSUME IInv, UNCHANGED <<pay, led, started>>, SignedOnce', checked' \subseteq checked
  PROVE  IInv'
<1>1. CheckedHolds'  BY DEF IInv, CheckedHolds
<1>2. QED  BY <1>1 DEF IInv, OneSpendPerChannel, RefsApart, Filed

\* Every operation on a payment keeps the invariant.
LEMMA PaysStep ==
  ASSUME IInv, NEW p \in Payments, Pays(p)
  PROVE  IInv'
<1>1. CASE \E t \in Tokens : \E b \in Budgets \cup {AvailableCents(t)} : Reserve(p, t, b)
  BY <1>1, ReserveStep
<1>2. CASE \E n \in Plans : ReserveNative(p, n)  BY <1>2, ReserveNativeStep
<1>3. CASE BeginFunding(p)
  <2>1. p \notin started  BY <1>3 DEF BeginFunding, IInv, Standing, Busy
  <2>2. QED  BY <1>3, <2>1, StatusStep DEF BeginFunding
<1>4. CASE \E gas \in Gases : RecordNativeFunding(p, gas)  BY <1>4, NativeFundingStep
<1>5. CASE \E x \in Transfers : RecordFunding(p, x)  BY <1>5, FundingStep
<1>6. CASE \E c \in Credits : RecordNativeCredit(p, c) \/ RecordCardCredit(p, c)
  BY <1>6, CreditStep
<1>7. CASE StartPayment(p)  BY <1>7, StartStep
<1>8. CASE MarkUncertain(p)
  BY <1>8, StatusStep DEF MarkUncertain, Busy
<1>9. CASE \E spent \in Spends, ref \in Refs \cup {None}, url \in Urls \cup {None} :
             Check(p, spent, ref, url)
  BY <1>9, CheckStep
<1>10. CASE \E e \in checked : e.payment = p /\ (CompletePayment(e) \/ CheckedInVain(e))
  <2>1. PICK e \in checked : CompletePayment(e) \/ CheckedInVain(e)  BY <1>10
  <2>2. CASE CompletePayment(e)  BY <2>2, CompletePaymentStep
  <2>3. CASE CheckedInVain(e)  BY <2>3, OthersStep DEF CheckedInVain, IInv, SignedOnce
  <2>4. QED  BY <2>1, <2>2, <2>3
<1>11. CASE \E spent \in Spends, c \in Filings : CompletePaymentVerified(p, spent, c)
  BY <1>11, CompletePaymentVerifiedStep
<1>12. CASE CancelPayment(p)  BY <1>12, CancelStep
<1>13. CASE \E gas \in Gases : ResolveFailed(p, gas)  BY <1>13, ResolveFailedStep
<1>14. QED
  BY <1>1, <1>2, <1>3, <1>4, <1>5, <1>6, <1>7, <1>8, <1>9, <1>10, <1>11, <1>12, <1>13 DEF Pays

\* Every step keeps the invariant.
LEMMA InvStep == IInv /\ [Next]_vars => IInv'
<1> SUFFICES ASSUME IInv, [Next]_vars PROVE IInv'  OBVIOUS
<1> USE DEF IInv, SignedOnce
<1>1. CASE \E t \in Tokens : RegisterToken(t)  BY <1>1, OthersStep DEF RegisterToken
<1>2. CASE \E t \in Platform : RegisterPlatformToken(t)
  BY <1>2, OthersStep DEF RegisterPlatformToken
<1>3. CASE \E c \in Claims : RecordClaim(c)  BY <1>3, OthersStep DEF RecordClaim, New
<1>4. CASE \E s \in Costs : RecordFailedClaimCost(s)
  BY <1>4, OthersStep DEF RecordFailedClaimCost
<1>5. CASE \E p \in Payments : Pays(p)
  <2> USE <1>5
  <2> HIDE DEF IInv
  <2>1. QED  BY PaysStep
<1>6. CASE \E r \in Receipts : RecordTreasuryReceipt(r)
  BY <1>6, OthersStep DEF RecordTreasuryReceipt
<1>7. CASE UNCHANGED vars  BY <1>7, OthersStep DEF vars
<1>8. QED  BY <1>1, <1>2, <1>3, <1>4, <1>5, <1>6, <1>7 DEF Next

\* The invariant of the specification.
LEMMA Invariance == Spec => []IInv
<1>1. QED  BY InvInit, InvStep, PTL DEF Spec

\* Of every payment: what the journal holds in reserve is what its record says
\* is held, and its entries sum to zero.
THEOREM BooksAgree == Spec => []Books
<1>1. IInv => Books
  BY DEF IInv, Books, HoldsMatch, Balanced, Kept, Sum
<1>2. QED  BY <1>1, Invariance, PTL

\* No donor account ever has two purchases under way.
THEOREM OneAtATime == Spec => []OneSpendPerChannel
<1>1. IInv => OneSpendPerChannel  BY DEF IInv
<1>2. QED  BY <1>1, Invariance, PTL

\* A receipt, a card activity or a page is one payment's, but for a verified
\* completion that overtook an operator's check; a claim's signature is valued once,
\* and no purchase exceeds what its card received or its budget.
THEOREM RecordsAreUsedOnce == Spec => []OnePurchaseOneRecord
<1>1. IInv => OnePurchaseOneRecord
  <2> SUFFICES ASSUME IInv PROVE OnePurchaseOneRecord  OBVIOUS
  <2>1. \A p \in Payments : pay[p].spent <= pay[p].credit /\ pay[p].spent <= pay[p].budget
    BY DEF IInv, Kept, Follows
  <2>2. QED  BY <2>1 DEF IInv, RefsApart, SignedOnce, OnePurchaseOneRecord
<1>2. QED  BY <1>1, Invariance, PTL

-----------------------------------------------------------------------------
\* Sums.  A sum of numbers that are not negative is the size of a set of units,
\* and any sum is the difference of two such: facts about sums are facts about
\* finite sets.

\* Of the subsets of a finite set for which something fails there is a least one.
LEMMA LeastWrong ==
  ASSUME NEW S, IsFiniteSet(S), NEW wrong \in SUBSET (SUBSET S), wrong # {}
  PROVE  \E T \in wrong : \A U \in SUBSET T : U # T => U \notin wrong
<1>1. IsWellFoundedOn(StrictSubsetOrdering(S), SUBSET S)
  BY FS_StrictSubsetOrderingWellFounded, FS_FiniteSubsetsOfFinite
<1>2. PICK T \in wrong : \A U \in wrong : ~(<<U, T>> \in StrictSubsetOrdering(S))
  BY <1>1, WFMin
<1>3. ASSUME NEW U \in SUBSET T, U # T PROVE <<U, T>> \in StrictSubsetOrdering(S)
  BY <1>3 DEF StrictSubsetOrdering
<1>4. \A U \in SUBSET T : U # T => U \notin wrong
  BY <1>2, <1>3
<1>5. QED
  BY <1>4

\* What holds of the empty set and, with a set, of that set and one element more
\* holds of all subsets of a finite set.
LEMMA SubsetsByOne ==
  ASSUME NEW S, IsFiniteSet(S), NEW good \in SUBSET (SUBSET S), {} \in good,
         \A T \in good : \A x \in S \ T : T \cup {x} \in good
  PROVE  \A T \in SUBSET S : T \in good
<1> DEFINE wrong == (SUBSET S) \ good
<1>1. SUFFICES ASSUME wrong # {} PROVE FALSE
  OBVIOUS
<1>2. PICK T \in wrong : \A U \in SUBSET T : U # T => U \notin wrong
  <2> HIDE DEF wrong
  <2>1. wrong \in SUBSET (SUBSET S)
    BY DEF wrong
  <2>2. QED
    BY <1>1, <2>1, LeastWrong
<1>3. PICK x : x \in T
  BY <1>2
<1>4. T \ {x} \in good /\ x \in S \ (T \ {x}) /\ T = (T \ {x}) \cup {x}
  BY <1>2, <1>3
<1>5. QED
  BY <1>2, <1>4

\* The gains of a function's values, as a set, and their excess over the losses.
Column(f, x) == {x} \X (1 .. f[x])
Units(f, S) == UNION {Column(f, x) : x \in S}
Weight(f, S) == Cardinality(Units(f, S))
Minus(f) == [x \in DOMAIN f |-> -f[x]]
Net(f, S) == Weight(f, S) - Weight(Minus(f), S)

LEMMA ColumnWeighs ==
  ASSUME NEW S, NEW f \in [S -> Int], NEW x \in S
  PROVE  /\ IsFiniteSet(Column(f, x))
         /\ Cardinality(Column(f, x)) = IF f[x] > 0 THEN f[x] ELSE 0
<1>1. IsFiniteSet({x}) /\ Cardinality({x}) = 1
  BY FS_Singleton
<1>2. IsFiniteSet(1 .. f[x]) /\ Cardinality(1 .. f[x]) = IF f[x] > 0 THEN f[x] ELSE 0
  BY FS_Interval
<1>3. IsFiniteSet(Column(f, x)) /\ Cardinality(Column(f, x)) = 1 * Cardinality(1 .. f[x])
  BY <1>1, <1>2, FS_Product DEF Column
<1>4. QED
  BY <1>2, <1>3

LEMMA WeightIsNat ==
  ASSUME NEW S, IsFiniteSet(S), NEW f \in [S -> Int], NEW T \in SUBSET S
  PROVE  IsFiniteSet(Units(f, T)) /\ Weight(f, T) \in Nat
<1> DEFINE columns == {Column(f, x) : x \in T}
<1>1. IsFiniteSet(T)
  BY FS_Subset
<1>2. IsFiniteSet(columns)
  <2> DEFINE column == [x \in T |-> Column(f, x)]
  <2>1. column \in [T -> columns]
    OBVIOUS
  <2>2. \A y \in columns : \E x \in T : column[x] = y
    OBVIOUS
  <2>3. column \in Surjection(T, columns)
    BY <2>1, <2>2 DEF Surjection
  <2>4. QED
    BY <1>1, <2>3, FS_Surjection
<1>3. \A y \in columns : IsFiniteSet(y)
  BY ColumnWeighs
<1>4. IsFiniteSet(Units(f, T))
  BY <1>2, <1>3, FS_UNION DEF Units
<1>5. QED
  BY <1>4, FS_CardinalityType DEF Weight

LEMMA WeightOfOneMore ==
  ASSUME NEW S, IsFiniteSet(S), NEW f \in [S -> Int], NEW T \in SUBSET S, NEW x \in S \ T
  PROVE  Weight(f, T \cup {x}) = Weight(f, T) + (IF f[x] > 0 THEN f[x] ELSE 0)
<1>1. /\ IsFiniteSet(Column(f, x)) /\ f[x] \in Int
      /\ Cardinality(Column(f, x)) = IF f[x] > 0 THEN f[x] ELSE 0
  BY ColumnWeighs
<1>2. IsFiniteSet(Units(f, T)) /\ Cardinality(Units(f, T)) \in Nat
  BY WeightIsNat DEF Weight
<1>3. Units(f, T \cup {x}) = Units(f, T) \cup Column(f, x)
  BY DEF Units
<1>4. Units(f, T) \cap Column(f, x) = {}
  BY DEF Units, Column
<1>5. Cardinality(Units(f, T) \cup Column(f, x)) =
        Cardinality(Units(f, T)) + Cardinality(Column(f, x)) - Cardinality(Units(f, T) \cap Column(f, x))
  BY <1>1, <1>2, FS_Union
<1>6. Cardinality(Units(f, T) \cap Column(f, x)) = 0
  BY <1>4, FS_EmptySet
<1>7. Weight(f, T \cup {x}) = Cardinality(Units(f, T) \cup Column(f, x))
  BY <1>3 DEF Weight
<1>8. Weight(f, T) = Cardinality(Units(f, T))
  BY DEF Weight
<1>9. QED
  BY <1>1, <1>2, <1>5, <1>6, <1>7, <1>8

LEMMA NetGrows ==
  ASSUME NEW S, IsFiniteSet(S), NEW f \in [S -> Int]
  PROVE  /\ Net(f, {}) = 0
         /\ \A T \in SUBSET S : Net(f, T) \in Int
         /\ \A T \in SUBSET S : \A x \in S \ T : Net(f, T \cup {x}) = Net(f, T) + f[x]
<1>1. Minus(f) \in [S -> Int] /\ \A x \in S : Minus(f)[x] = -f[x]
  BY DEF Minus
<1>2. Net(f, {}) = 0
  <2>1. \A g : Units(g, {}) = {}
    BY DEF Units
  <2>2. QED
    BY <2>1, FS_EmptySet DEF Net, Weight
<1>3. ASSUME NEW T \in SUBSET S
      PROVE  Weight(f, T) \in Nat /\ Weight(Minus(f), T) \in Nat
  BY <1>1, WeightIsNat
<1>4. ASSUME NEW T \in SUBSET S, NEW x \in S \ T
      PROVE  Net(f, T \cup {x}) = Net(f, T) + f[x]
  <2>1. Weight(f, T \cup {x}) = Weight(f, T) + (IF f[x] > 0 THEN f[x] ELSE 0)
    BY WeightOfOneMore
  <2>2. Weight(Minus(f), T \cup {x}) = Weight(Minus(f), T) + (IF Minus(f)[x] > 0 THEN Minus(f)[x] ELSE 0)
    BY <1>1, WeightOfOneMore
  <2>3. Minus(f)[x] = -f[x] /\ f[x] \in Int
    BY <1>1
  <2>4. QED
    BY <1>3, <2>1, <2>2, <2>3 DEF Net
<1>5. QED
  BY <1>2, <1>3, <1>4 DEF Net

\* A function that adds up the subsets of S the way the folds of the library do.
AddsUp(h, f, S) ==
  h = [T \in SUBSET S |-> IF T = {} THEN 0
                          ELSE f[CHOOSE x \in T : TRUE] + h[T \ {CHOOSE x \in T : TRUE}]]

LEMMA NetAddsUp ==
  ASSUME NEW S, IsFiniteSet(S), NEW f \in [S -> Int]
  PROVE  AddsUp([T \in SUBSET S |-> Net(f, T)], f, S)
<1> DEFINE h == [T \in SUBSET S |-> Net(f, T)]
<1>1. ASSUME NEW T \in SUBSET S, T # {}
      PROVE  Net(f, T) = f[CHOOSE x \in T : TRUE] + h[T \ {CHOOSE x \in T : TRUE}]
  <2>1. PICK x : x = CHOOSE y \in T : TRUE
    OBVIOUS
  <2>2. x \in T
    BY <1>1, <2>1
  <2>3. x \in S \ (T \ {x}) /\ T \ {x} \in SUBSET S /\ T = (T \ {x}) \cup {x}
    BY <2>2
  <2>4. Net(f, T) = Net(f, T \ {x}) + f[x] /\ Net(f, T \ {x}) \in Int /\ f[x] \in Int
    <3>1. PICK R : R = T \ {x}
      OBVIOUS
    <3>2. R \in SUBSET S /\ x \in S \ R /\ T = R \cup {x}
      BY <2>3, <3>1
    <3>3. Net(f, R \cup {x}) = Net(f, R) + f[x] /\ Net(f, R) \in Int /\ f[x] \in Int
      BY <3>2, NetGrows
    <3>4. QED
      BY <3>1, <3>2, <3>3
  <2>5. h[T \ {x}] = Net(f, T \ {x})
    BY <2>3
  <2> HIDE DEF h
  <2>6. Net(f, T) = f[x] + h[T \ {x}]
    BY <2>4, <2>5
  <2>7. QED
    BY <2>1, <2>6
<1>2. \A T \in SUBSET S :
        Net(f, T) = IF T = {} THEN 0
                    ELSE f[CHOOSE x \in T : TRUE] + h[T \ {CHOOSE x \in T : TRUE}]
  BY <1>1, NetGrows
<1>3. h = [T \in SUBSET S |-> IF T = {} THEN 0
                      ELSE f[CHOOSE x \in T : TRUE] + h[T \ {CHOOSE x \in T : TRUE}]]
  BY <1>2, Zenon
<1>4. QED
  BY <1>3, Zenon DEF AddsUp

LEMMA AddsUpToNet ==
  ASSUME NEW S, IsFiniteSet(S), NEW f \in [S -> Int], NEW h, AddsUp(h, f, S)
  PROVE  h[S] = Net(f, S)
<1> DEFINE wrong == {T \in SUBSET S : h[T] # Net(f, T)}
<1>1. SUFFICES ASSUME wrong # {} PROVE FALSE
  OBVIOUS
<1>2. PICK T \in wrong : \A U \in SUBSET T : U # T => U \notin wrong
  <2> HIDE DEF wrong
  <2>1. wrong \in SUBSET (SUBSET S)
    BY DEF wrong
  <2>2. QED
    BY <1>1, <2>1, LeastWrong
<1>3. T \in SUBSET S /\ h[T] # Net(f, T)
  BY <1>2
<1>4. T # {}
  <2>1. h[{}] = 0
    BY DEF AddsUp
  <2>2. QED
    BY <1>3, <2>1, NetGrows
<1>5. PICK x : x = CHOOSE y \in T : TRUE
  OBVIOUS
<1>6. x \in T
  BY <1>4, <1>5
<1>7. PICK R : R = T \ {x}
  OBVIOUS
<1>8. R \in SUBSET T /\ R # T /\ R \in SUBSET S /\ x \in S \ R /\ T = R \cup {x}
  BY <1>3, <1>6, <1>7
<1>9. h[T] = f[x] + h[R]
  BY <1>3, <1>4, <1>5, <1>7 DEF AddsUp
<1>10. h[R] = Net(f, R)
  BY <1>2, <1>8
<1>11. Net(f, R \cup {x}) = Net(f, R) + f[x] /\ Net(f, R) \in Int /\ f[x] \in Int
  BY <1>8, NetGrows
<1> HIDE DEF wrong
<1>12. QED
  BY <1>3, <1>8, <1>9, <1>10, <1>11

LEMMA SumIsNet ==
  ASSUME NEW S, IsFiniteSet(S), NEW f \in [S -> Int]
  PROVE  SumFunction(f) = Net(f, S)
<1> DEFINE Adds(h) == h = [T \in SUBSET S |->
                 IF T = {} THEN 0
                 ELSE f[CHOOSE x \in T : TRUE] + h[T \ {CHOOSE x \in T : TRUE}]]
<1>1. \A h : Adds(h) <=> AddsUp(h, f, S)
  BY DEF AddsUp
<1>2. AddsUp(CHOOSE h : Adds(h), f, S)
  <2>1. PICK g : AddsUp(g, f, S)
    BY NetAddsUp
  <2> HIDE DEF Adds
  <2>2. Adds(g)
    BY <1>1, <2>1
  <2>3. Adds(CHOOSE h : Adds(h))
    BY <2>2, Zenon
  <2>4. QED
    BY <1>1, <2>3
<1>3. SumFunction(f) = (CHOOSE h : Adds(h))[S]
  <2>1. DOMAIN f = S
    OBVIOUS
  <2>2. SumFunction(f) = SumFunctionOnSet(f, S)
    BY <2>1 DEF SumFunction
  <2>3. SumFunctionOnSet(f, S) = (CHOOSE h : Adds(h))[S]
    BY DEF SumFunctionOnSet, FoldFunctionOnSet, MapThenFoldSet
  <2>4. QED
    BY <2>2, <2>3
<1> HIDE DEF Adds
<1>4. QED
  BY <1>2, <1>3, AddsUpToNet

-----------------------------------------------------------------------------
\* What is used of sums.
LEMMA SumIsInt ==
  ASSUME NEW S, IsFiniteSet(S), NEW f \in [S -> Int]
  PROVE  SumFunction(f) \in Int
BY SumIsNet, NetGrows

LEMMA SameNet ==
  ASSUME NEW S, NEW f, NEW g, DOMAIN f = DOMAIN g, NEW T \in SUBSET (DOMAIN f),
         \A x \in T : f[x] = g[x]
  PROVE  Net(f, T) = Net(g, T)
<1>1. \A x \in T : Minus(f)[x] = Minus(g)[x]
  BY DEF Minus
<1>2. Units(f, T) = Units(g, T) /\ Units(Minus(f), T) = Units(Minus(g), T)
  BY <1>1 DEF Units, Column
<1>3. QED
  BY <1>2 DEF Net, Weight

\* One summand changes.
LEMMA SumChanges ==
  ASSUME NEW S, IsFiniteSet(S), NEW f \in [S -> Int], NEW g \in [S -> Int], NEW x \in S,
         \A y \in S \ {x} : g[y] = f[y]
  PROVE  SumFunction(g) = SumFunction(f) - f[x] + g[x]
<1>1. PICK R : R = S \ {x}
  OBVIOUS
<1>2. R \in SUBSET S /\ x \in S \ R /\ S = R \cup {x}
  BY <1>1
<1>3. Net(f, R) = Net(g, R)
  BY <1>1, <1>2, SameNet
<1>4. /\ Net(f, R \cup {x}) = Net(f, R) + f[x] /\ Net(f, R) \in Int /\ f[x] \in Int
      /\ Net(g, R \cup {x}) = Net(g, R) + g[x] /\ g[x] \in Int
  BY <1>2, NetGrows
<1>5. SumFunction(f) = Net(f, R \cup {x}) /\ SumFunction(g) = Net(g, R \cup {x})
  BY <1>2, SumIsNet
<1>6. QED
  BY <1>3, <1>4, <1>5

\* Sums grow with their summands.
LEMMA SumGrows ==
  ASSUME NEW S, IsFiniteSet(S), NEW f \in [S -> Int], NEW g \in [S -> Int],
         \A x \in S : f[x] <= g[x]
  PROVE  SumFunction(f) <= SumFunction(g)
<1> DEFINE good == {T \in SUBSET S : Net(f, T) <= Net(g, T)}
<1>1. {} \in good
  BY NetGrows
<1>2. ASSUME NEW T \in good, NEW x \in S \ T PROVE T \cup {x} \in good
  <2>1. T \in SUBSET S /\ Net(f, T) <= Net(g, T)
    OBVIOUS
  <2>2. /\ Net(f, T \cup {x}) = Net(f, T) + f[x] /\ Net(f, T) \in Int /\ f[x] \in Int
        /\ Net(g, T \cup {x}) = Net(g, T) + g[x] /\ Net(g, T) \in Int /\ g[x] \in Int
    BY <2>1, NetGrows
  <2>3. f[x] <= g[x]
    OBVIOUS
  <2>4. Net(f, T \cup {x}) <= Net(g, T \cup {x})
    BY <2>1, <2>2, <2>3
  <2>5. QED
    BY <2>1, <2>4
<1>3. S \in good
  <2> HIDE DEF good
  <2>1. good \in SUBSET (SUBSET S)
    BY DEF good
  <2>2. QED
    BY <1>1, <1>2, <2>1, SubsetsByOne
<1>4. QED
  BY <1>3, SumIsNet

\* The sum of sums.
LEMMA SumAdds ==
  ASSUME NEW S, IsFiniteSet(S), NEW f \in [S -> Int], NEW g \in [S -> Int]
  PROVE  SumFunction([x \in S |-> f[x] + g[x]]) = SumFunction(f) + SumFunction(g)
<1> DEFINE both == [x \in S |-> f[x] + g[x]]
           good == {T \in SUBSET S : Net(both, T) = Net(f, T) + Net(g, T)}
<1>0. both \in [S -> Int] /\ \A x \in S : both[x] = f[x] + g[x]
  OBVIOUS
<1> HIDE DEF both
<1>1. {} \in good
  <2>1. Net(both, {}) = 0 /\ Net(f, {}) = 0 /\ Net(g, {}) = 0
    BY <1>0, NetGrows
  <2>2. QED
    BY <2>1
<1>2. ASSUME NEW T \in good, NEW x \in S \ T PROVE T \cup {x} \in good
  <2>1. T \in SUBSET S /\ Net(both, T) = Net(f, T) + Net(g, T)
    OBVIOUS
  <2>2. /\ Net(f, T \cup {x}) = Net(f, T) + f[x] /\ Net(f, T) \in Int /\ f[x] \in Int
        /\ Net(g, T \cup {x}) = Net(g, T) + g[x] /\ Net(g, T) \in Int /\ g[x] \in Int
        /\ Net(both, T \cup {x}) = Net(both, T) + both[x]
    BY <1>0, <2>1, NetGrows
  <2>3. Net(both, T \cup {x}) = Net(f, T \cup {x}) + Net(g, T \cup {x})
    BY <1>0, <2>1, <2>2
  <2>4. QED
    BY <2>1, <2>3
<1>3. S \in good
  <2> HIDE DEF good
  <2>1. good \in SUBSET (SUBSET S)
    BY DEF good
  <2>2. QED
    BY <1>1, <1>2, <2>1, SubsetsByOne
<1>4. SumFunction(both) = Net(both, S) /\ SumFunction(f) = Net(f, S) /\ SumFunction(g) = Net(g, S)
  BY <1>0, SumIsNet
<1>5. QED
  BY <1>3, <1>4 DEF both

\* Summands of zero may be left out.
LEMMA SumOfPart ==
  ASSUME NEW S, IsFiniteSet(S), NEW T \in SUBSET S, NEW f \in [S -> Int], NEW g \in [T -> Int],
         \A x \in T : f[x] = g[x], \A x \in S \ T : f[x] = 0
  PROVE  SumFunction(g) = SumFunction(f)
<1>1. \A x \in T : Column(f, x) = Column(g, x) /\ Column(Minus(f), x) = Column(Minus(g), x)
  BY DEF Column, Minus
<1>2. \A x \in S \ T : Column(f, x) = {} /\ Column(Minus(f), x) = {}
  BY DEF Column, Minus
<1>3. Units(f, S) = Units(g, T) /\ Units(Minus(f), S) = Units(Minus(g), T)
  BY <1>1, <1>2 DEF Units
<1>4. Net(f, S) = Net(g, T)
  BY <1>3 DEF Net, Weight
<1>5. IsFiniteSet(T)
  BY FS_Subset
<1>6. QED
  BY <1>4, <1>5, SumIsNet

-----------------------------------------------------------------------------
\* The testing budget and the browser provider.  The amounts of a cost play no
\* part in what follows, but for the comparison that makes it an overrun.

IsExpense(e) ==
  /\ e = [state |-> e.state, max |-> e.max, actual |-> e.actual, proof |-> e.proof]
  /\ e.state \in States

Untried == {"none", "reserved", "cancelled"}
Over(e) == e.state = "settled" /\ e.actual > e.max

\* A process that is about to ask for a session.
Asks(c) == caller[c] # None /\ caller[c].pc = "create"

\* An operation is told to execute at most once, and only if it was tried.
Executed ==
  /\ expense = [op \in Operations |-> expense[op]]
  /\ executed \in [Operations -> Nat]
  /\ \A op \in Operations :
       /\ IsExpense(expense[op]) /\ executed[op] <= 1
       /\ expense[op].state \in Untried => executed[op] = 0

\* One request for each begun attempt, by the one process that began it; nothing
\* is final about an attempt whose request may still be made.
Requests ==
  /\ asked \in [Attempts -> Nat] /\ sessions \subseteq Attempts
  /\ caller \in [Callers -> {None} \cup [a : Attempts, pc : {"gate", "create"}]]
  /\ \A a \in Attempts :
       /\ asked[a] <= executed[Session(a)]
       /\ a \in sessions =>
            asked[a] > 0 /\ expense[Session(a)].state \in {"unresolved", "settled"}
  /\ \A c \in Callers : Asks(c) =>
       LET a == caller[c].a IN
       /\ expense[Session(a)].state = "unresolved" /\ asked[a] = 0
       /\ executed[Session(a)] = 1
       /\ \A d \in Callers \ {c} : Asks(d) => caller[d].a # a

\* What went wrong has frozen the budget.
Freezes ==
  /\ reason \in {None, "overrun", "policy"}
  /\ incidents \in Seq({"policy"})
  /\ incidents # <<>> => reason # None
  /\ \A op \in Operations : Over(expense[op]) => reason # None

BInv == Executed /\ Requests /\ Freezes

LEMMA SessionOf ==
  /\ \A a \in Attempts : /\ Session(a) \in Operations
                         /\ Session(a)[1] = "browser_fee" /\ Session(a)[2] = a
  /\ \A op \in Operations :
       op[1] = "browser_fee" => op[2] \in Attempts /\ op = Session(op[2])
<1>1. ASSUME NEW a \in Attempts
      PROVE  Session(a) \in Operations /\ Session(a)[1] = "browser_fee" /\ Session(a)[2] = a
  <2>1. PICK op \in Operations : op[1] = "browser_fee" /\ a = op[2]
    BY DEF Attempts
  <2>2. op = <<op[1], op[2]>>
    BY TestingBudgetAssumption
  <2>3. QED
    BY <2>1, <2>2 DEF Session
<1>2. ASSUME NEW op \in Operations, op[1] = "browser_fee"
      PROVE  op[2] \in Attempts /\ op = Session(op[2])
  <2>1. op = <<op[1], op[2]>>
    BY TestingBudgetAssumption
  <2>2. QED
    BY <1>2, <2>1 DEF Attempts, Session
<1>3. QED
  BY <1>1, <1>2

LEMMA InitBInv == BudgetInit => BInv
<1> SUFFICES ASSUME BudgetInit PROVE BInv
  OBVIOUS
<1>1. \A op \in Operations : expense[op] = NoExpense
  BY DEF BudgetInit
<1>2. IsExpense(NoExpense) /\ NoExpense.state = "none"
  BY DEF IsExpense, NoExpense, States
<1>3. Executed
  <2>1. executed = [op \in Operations |-> 0] /\ expense = [op \in Operations |-> NoExpense]
    BY DEF BudgetInit
  <2>2. QED
    BY <1>1, <1>2, <2>1 DEF Executed
<1>4. Requests
  <2>1. asked = [a \in Attempts |-> 0] /\ sessions = {} /\ caller = [c \in Callers |-> None]
    BY DEF BudgetInit
  <2>2. \A a \in Attempts : asked[a] <= executed[Session(a)]
    BY <2>1, SessionOf DEF BudgetInit
  <2>3. QED
    BY <2>1, <2>2 DEF Requests, Asks
<1>5. Freezes
  BY <1>1, <1>2 DEF BudgetInit, Freezes, Over
<1>6. QED
  BY <1>3, <1>4, <1>5 DEF BInv

\* Operations that nobody has tried may be reserved or begun.
LEMMA RequestsStay ==
  ASSUME BInv, executed' \in [Operations -> Nat],
         \A op \in Operations :
           \/ expense'[op].state = expense[op].state /\ executed'[op] = executed[op]
           \/ expense[op].state \in Untried,
         UNCHANGED <<asked, sessions>>,
         caller' \in [Callers -> {None} \cup [a : Attempts, pc : {"gate", "create"}]],
         \A c \in Callers : Asks(c)' => Asks(c) /\ caller'[c] = caller[c]
  PROVE  Requests'
<1>1. ASSUME NEW a \in Attempts
      PROVE  /\ asked[a] <= executed'[Session(a)]
             /\ a \in sessions =>
                  asked[a] > 0 /\ expense'[Session(a)].state \in {"unresolved", "settled"}
  <2>1. /\ Session(a) \in Operations /\ asked[a] \in Nat /\ asked[a] <= executed[Session(a)]
        /\ executed[Session(a)] \in Nat /\ executed'[Session(a)] \in Nat
    BY SessionOf DEF BInv, Executed, Requests
  <2>2. CASE expense[Session(a)].state \in Untried
    <3>1. executed[Session(a)] = 0 /\ a \notin sessions
      BY <2>1, <2>2 DEF BInv, Executed, Requests, Untried
    <3>2. QED
      BY <2>1, <3>1
  <2>3. CASE expense[Session(a)].state \notin Untried
    <3>1. /\ expense'[Session(a)].state = expense[Session(a)].state
          /\ executed'[Session(a)] = executed[Session(a)]
      BY <2>1, <2>3
    <3>2. QED
      BY <2>1, <3>1 DEF BInv, Requests
  <2>4. QED
    BY <2>2, <2>3
<1>2. ASSUME NEW c \in Callers, Asks(c)'
      PROVE  /\ expense'[Session(caller[c].a)].state = "unresolved" /\ asked[caller[c].a] = 0
             /\ executed'[Session(caller[c].a)] = 1
             /\ \A d \in Callers \ {c} : Asks(d)' => caller'[d].a # caller[c].a
  <2>1. Asks(c) /\ caller[c] \in [a : Attempts, pc : {"gate", "create"}]
    BY <1>2 DEF BInv, Requests, Asks
  <2>2. expense[Session(caller[c].a)].state = "unresolved"
    BY <2>1 DEF BInv, Requests
  <2>3. caller[c].a \in Attempts /\ Session(caller[c].a) \in Operations
    BY <2>1, SessionOf
  <2>4. /\ expense'[Session(caller[c].a)].state = "unresolved"
        /\ executed'[Session(caller[c].a)] = executed[Session(caller[c].a)]
    BY <2>2, <2>3 DEF Untried
  <2>5. asked[caller[c].a] = 0 /\ executed[Session(caller[c].a)] = 1
    BY <2>1 DEF BInv, Requests
  <2>6. ASSUME NEW d \in Callers \ {c}, Asks(d)' PROVE caller'[d].a # caller[c].a
    BY <2>1, <2>6 DEF BInv, Requests
  <2>7. QED
    BY <2>4, <2>5, <2>6
<1>3. QED
  BY <1>1, <1>2 DEF Requests, BInv

\* One operation's cost moves on while no request for it may still be made.
LEMMA CostMoves ==
  ASSUME BInv, NEW op \in Operations, NEW e, IsExpense(e),
         expense' = [expense EXCEPT ![op] = e],
         UNCHANGED <<executed, caller, asked, sessions>>,
         e.state \in Untried => expense[op].state \in Untried,
         op[1] = "browser_fee" =>
           /\ op[2] \in sessions => e.state = "settled"
           /\ \A c \in Callers : Asks(c) => caller[c].a # op[2],
         reason' \in {None, "overrun", "policy"}, reason # None \/ Over(e) => reason' # None,
         incidents' \in Seq({"policy"}), incidents' # <<>> => reason' # None
  PROVE  BInv'
<1>1. /\ expense' = [o \in Operations |-> expense'[o]] /\ expense'[op] = e
      /\ \A o \in Operations \ {op} : expense'[o] = expense[o]
  BY DEF BInv, Executed
<1>2. Executed'
  BY <1>1 DEF BInv, Executed
<1>3. Requests'
  <2>1. ASSUME NEW a \in Attempts, a \in sessions
        PROVE  expense'[Session(a)].state \in {"unresolved", "settled"}
    BY <1>1, <2>1, SessionOf DEF BInv, Requests
  <2>2. ASSUME NEW c \in Callers, Asks(c)
        PROVE  expense'[Session(caller[c].a)] = expense[Session(caller[c].a)]
    <3>1. caller[c].a \in Attempts
      BY <2>2 DEF BInv, Requests, Asks
    <3>2. Session(caller[c].a) # op
      BY <2>2, <3>1, SessionOf
    <3>3. QED
      BY <1>1, <3>1, <3>2, SessionOf
  <2>3. \A c \in Callers : Asks(c)' <=> Asks(c)
    BY DEF Asks
  <2>4. QED
    BY <2>1, <2>2, <2>3 DEF BInv, Requests
<1>4. Freezes'
  BY <1>1 DEF BInv, Freezes
<1>5. QED
  BY <1>2, <1>3, <1>4 DEF BInv

\* What was not begun, or has its session, is not about to be requested.
LEMMA NobodyAsks ==
  ASSUME BInv, NEW op \in Operations, op[1] = "browser_fee",
         expense[op].state # "unresolved" \/ op[2] \in sessions
  PROVE  \A c \in Callers : Asks(c) => caller[c].a # op[2]
BY SessionOf DEF BInv, Requests

LEMMA ReservedMoves ==
  ASSUME BInv, NEW ops \in SUBSET Operations, NEW by, Reserved(ops, by)
  PROVE  /\ Executed' /\ Freezes' /\ UNCHANGED executed
         /\ \A op \in Operations :
              expense'[op].state = expense[op].state \/ expense[op].state \in Untried
<1>1. PICK new \in SUBSET ops :
        /\ \A op \in new : expense[op].state = "none"
        /\ expense' = [op \in Operations |->
             IF op \in new THEN [NoExpense EXCEPT !.state = "reserved", !.max = Asked(op)]
                           ELSE expense[op]]
        /\ UNCHANGED <<reason, incidents, executed>>
  BY DEF Reserved
<1>2. ASSUME NEW op \in Operations
      PROVE  /\ IsExpense(expense'[op])
             /\ Over(expense'[op]) => Over(expense[op])
             /\ \/ expense'[op] = expense[op]
                \/ expense[op].state = "none" /\ expense'[op].state = "reserved"
  <2>1. CASE op \in new
    <3>1. expense'[op] = [state |-> "reserved", max |-> Asked(op), actual |-> 0, proof |-> None]
      BY <1>1, <2>1 DEF NoExpense
    <3>2. QED
      BY <1>1, <2>1, <3>1 DEF IsExpense, States, Over
  <2>2. CASE op \notin new
    BY <1>1, <2>2 DEF BInv, Executed
  <2>3. QED
    BY <2>1, <2>2
<1>3. \A op \in Operations :
        expense'[op].state = expense[op].state \/ expense[op].state \in Untried
  BY <1>2 DEF Untried
<1>4. Executed'
  <2>1. expense' = [op \in Operations |-> expense'[op]]
    BY <1>1
  <2>2. ASSUME NEW op \in Operations, expense'[op].state \in Untried
        PROVE  executed[op] = 0
    BY <1>2, <2>2 DEF BInv, Executed, Untried
  <2>3. QED
    BY <1>1, <1>2, <2>1, <2>2 DEF BInv, Executed
<1>5. Freezes'
  BY <1>1, <1>2 DEF BInv, Freezes
<1>6. QED
  BY <1>1, <1>3, <1>4, <1>5

\* What is begun was reserved, and executes now.
LEMMA BegunMoves ==
  ASSUME BInv, NEW ops \in SUBSET Operations, NEW by, Begun(ops, by)
  PROVE  /\ Executed' /\ Freezes'
         /\ \A op \in Operations \ ops :
              expense'[op] = expense[op] /\ executed'[op] = executed[op]
         /\ \A op \in ops : /\ expense[op].state = "reserved" /\ executed[op] = 0
                            /\ expense'[op].state = "unresolved" /\ executed'[op] = 1
<1>1. /\ \A op \in ops : expense[op].state = "reserved"
      /\ expense' = [op \in Operations |->
           IF op \in ops THEN [expense[op] EXCEPT !.state = "unresolved"] ELSE expense[op]]
      /\ executed' = [op \in Operations |-> executed[op] + (IF op \in ops THEN 1 ELSE 0)]
      /\ UNCHANGED <<reason, incidents>>
  BY DEF Begun
<1>2. ASSUME NEW op \in ops
      PROVE  /\ expense'[op].state = "unresolved" /\ IsExpense(expense'[op])
             /\ executed[op] = 0 /\ executed'[op] = 1
  <2>1. IsExpense(expense[op]) /\ executed[op] = 0
    BY <1>1 DEF BInv, Executed, Untried
  <2>2. expense'[op] = [expense[op] EXCEPT !.state = "unresolved"] /\ executed'[op] = 0 + 1
    BY <1>1, <2>1
  <2>3. QED
    BY <2>1, <2>2 DEF IsExpense, States
<1>3. \A op \in Operations \ ops : expense'[op] = expense[op] /\ executed'[op] = executed[op]
  <2> SUFFICES ASSUME NEW op \in Operations \ ops
               PROVE  expense'[op] = expense[op] /\ executed'[op] = executed[op]
    OBVIOUS
  <2>1. executed'[op] = executed[op] + 0 /\ executed[op] \in Nat
    BY <1>1 DEF BInv, Executed
  <2>2. QED
    BY <1>1, <2>1
<1>4. Executed'
  <2>1. /\ expense' = [op \in Operations |-> expense'[op]]
        /\ executed' = [op \in Operations |-> executed'[op]]
    BY <1>1
  <2>2. ASSUME NEW op \in Operations
        PROVE  /\ executed'[op] \in Nat /\ IsExpense(expense'[op]) /\ executed'[op] <= 1
               /\ expense'[op].state \in Untried => executed'[op] = 0
    BY <1>2, <1>3 DEF BInv, Executed, Untried
  <2>3. QED
    BY <2>1, <2>2 DEF Executed
<1>5. Freezes'
  BY <1>1, <1>2, <1>3 DEF BInv, Freezes, Over
<1>6. QED
  BY <1>1, <1>2, <1>3, <1>4, <1>5

LEMMA GroupKeeps ==
  ASSUME BInv, NEW ops \in SUBSET Operations, NEW by,
         ReserveMany(ops, by) \/ BeginMany(ops, by)
  PROVE  BInv'
<1>1. UNCHANGED <<caller, asked, sessions>>
  BY DEF ReserveMany, BeginMany, browser
<1>2. caller' \in [Callers -> {None} \cup [a : Attempts, pc : {"gate", "create"}]]
  BY <1>1 DEF BInv, Requests
<1>3. \A c \in Callers : Asks(c)' => Asks(c) /\ caller'[c] = caller[c]
  BY <1>1 DEF Asks
<1>4. CASE ReserveMany(ops, by)
  BY <1>1, <1>2, <1>3, <1>4, ReservedMoves, RequestsStay DEF ReserveMany, BInv, Executed
<1>5. CASE BeginMany(ops, by)
  <2>1. Executed' /\ Freezes' /\ executed' \in [Operations -> Nat]
    BY <1>5, BegunMoves DEF BeginMany, Executed
  <2>2. \A op \in Operations :
          \/ expense'[op].state = expense[op].state /\ executed'[op] = executed[op]
          \/ expense[op].state \in Untried
    BY <1>5, BegunMoves DEF BeginMany, Untried
  <2>3. QED
    BY <1>1, <1>2, <1>3, <2>1, <2>2, RequestsStay DEF BInv
<1>6. QED
  BY <1>4, <1>5

LEMMA SettledIs ==
  ASSUME NEW s, NEW m, NEW a, NEW p, NEW actual, NEW proof
  PROVE  Settled([state |-> s, max |-> m, actual |-> a, proof |-> p], actual, proof) =
           [state |-> "settled", max |-> m, actual |-> actual, proof |-> proof]
<1>1. PICK r : r = [state |-> s, max |-> m, actual |-> a, proof |-> p]
  OBVIOUS
<1>2. PICK q : q = [r EXCEPT !.state = "settled"]
  OBVIOUS
<1>3. q = [state |-> "settled", max |-> m, actual |-> a, proof |-> p]
  BY <1>1, <1>2
<1>4. PICK t : t = [q EXCEPT !.actual = actual]
  OBVIOUS
<1>5. t = [state |-> "settled", max |-> m, actual |-> actual, proof |-> p]
  BY <1>3, <1>4
<1>6. [t EXCEPT !.proof = proof] =
        [state |-> "settled", max |-> m, actual |-> actual, proof |-> proof]
  BY <1>5
<1>7. Settled(r, actual, proof) = [t EXCEPT !.proof = proof]
  BY <1>2, <1>4 DEF Settled
<1>8. QED
  BY <1>1, <1>6, <1>7

\* The evidence of what a cost was ends it, whoever brings it.
LEMMA SettledKeeps ==
  ASSUME BInv, NEW op \in Operations, NEW actual, NEW id,
         Settle(op, actual, id) \/ ReconcileObservedCost(op, actual, id)
  PROVE  BInv'
<1>1. /\ op[1] = "browser_fee" => op[2] \in sessions
      /\ UNCHANGED <<executed, caller, asked, sessions>>
  BY DEF Settle, ReconcileObservedCost, browser, Incurred
<1>2. PICK max : /\ expense' = [expense EXCEPT ![op] =
                      [state |-> "settled", max |-> max, actual |-> actual, proof |-> <<op[1], id>>]]
                 /\ actual > max => reason' # None
                 /\ reason' \in {None, "overrun", "policy"} /\ (reason # None => reason' # None)
                 /\ incidents' \in Seq({"policy"}) /\ (incidents' # <<>> => reason' # None)
  <2>1. /\ expense = [o \in Operations |-> expense[o]] /\ IsExpense(expense[op])
        /\ reason \in {None, "overrun", "policy"} /\ incidents \in Seq({"policy"})
        /\ incidents # <<>> => reason # None
    BY DEF BInv, Executed, Freezes
  <2>2. None \notin {"overrun", "policy"}
    BY TestingBudgetAssumption
  <2>3. PICK s, m, a, p : expense[op] = [state |-> s, max |-> m, actual |-> a, proof |-> p]
    BY <2>1 DEF IsExpense
  <2>4. CASE Settle(op, actual, id)
    <3>1. /\ expense' = [expense EXCEPT ![op] = Settled(expense[op], actual, <<op[1], id>>)]
          /\ reason' = (IF actual > expense[op].max THEN Frozes("overrun") ELSE reason)
          /\ UNCHANGED incidents
      BY <2>1, <2>4 DEF Settle
    <3>2. /\ expense[op].max = m
          /\ Settled(expense[op], actual, <<op[1], id>>) =
               [state |-> "settled", max |-> m, actual |-> actual, proof |-> <<op[1], id>>]
      BY <2>3, SettledIs
    <3>3. QED
      BY <2>1, <2>2, <3>1, <3>2 DEF Frozes
  <2>5. CASE ReconcileObservedCost(op, actual, id)
    <3>1. PICK max, over :
            /\ over = IF actual > max THEN Frozes("overrun") ELSE reason
            /\ expense' = [expense EXCEPT ![op] =
                 Settled([expense[op] EXCEPT !.max = max], actual, <<op[1], id>>)]
            /\ \/ /\ reason' = IF over = None THEN "policy" ELSE over
                  /\ incidents' = Append(incidents, "policy")
               \/ reason' = over /\ UNCHANGED incidents
      BY <2>1, <2>5 DEF ReconcileObservedCost
    <3>2. [expense[op] EXCEPT !.max = max] = [state |-> s, max |-> max, actual |-> a, proof |-> p]
      BY <2>3
    <3>3. Settled([expense[op] EXCEPT !.max = max], actual, <<op[1], id>>) =
            [state |-> "settled", max |-> max, actual |-> actual, proof |-> <<op[1], id>>]
      BY <3>2, SettledIs
    <3>4. Append(incidents, "policy") \in Seq({"policy"})
      BY <2>1
    <3>5. QED
      BY <2>1, <2>2, <3>1, <3>3, <3>4 DEF Frozes
  <2>6. QED
    BY <2>4, <2>5
<1>3. PICK e : e = [state |-> "settled", max |-> max, actual |-> actual, proof |-> <<op[1], id>>]
  OBVIOUS
<1>4. IsExpense(e) /\ e.state = "settled" /\ (Over(e) => reason' # None)
  BY <1>2, <1>3 DEF IsExpense, States, Over
<1>5. op[1] = "browser_fee" => \A c \in Callers : Asks(c) => caller[c].a # op[2]
  BY <1>1, NobodyAsks
<1>6. QED
  BY <1>1, <1>2, <1>3, <1>4, <1>5, CostMoves DEF Untried

\* A cost that was not begun is dropped, or the last word is that there was none.
LEMMA DroppedKeeps ==
  ASSUME BInv, NEW op \in Operations, NEW id, CancelBeforeExecution(op) \/ ReleaseNoSpend(op, id)
  PROVE  BInv'
<1>1. UNCHANGED <<executed, reason, incidents, caller, asked, sessions>>
  BY DEF CancelBeforeExecution, ReleaseNoSpend, browser
<1>2. PICK s, m, a, p : expense[op] = [state |-> s, max |-> m, actual |-> a, proof |-> p]
  BY DEF BInv, Executed, IsExpense
<1>3. /\ reason \in {None, "overrun", "policy"} /\ incidents \in Seq({"policy"})
      /\ incidents # <<>> => reason # None
  BY DEF BInv, Freezes
<1>4. CASE CancelBeforeExecution(op)
  <2>1. PICK e : e = [state |-> "cancelled", max |-> m, actual |-> a, proof |-> p]
    OBVIOUS
  <2>2. expense' = [expense EXCEPT ![op] = e] /\ expense[op].state = "reserved"
    <3>1. expense' = [expense EXCEPT ![op] = [expense[op] EXCEPT !.state = "cancelled"]]
      BY <1>4 DEF CancelBeforeExecution, BInv, Executed
    <3>2. [expense[op] EXCEPT !.state = "cancelled"] = e
      BY <1>2, <2>1
    <3>3. expense[op].state = "reserved"
      BY <1>4 DEF CancelBeforeExecution
    <3>4. QED
      BY <3>1, <3>2, <3>3
  <2>3. IsExpense(e) /\ e.state = "cancelled" /\ ~Over(e)
    BY <2>1 DEF IsExpense, States, Over
  <2>4. op[1] = "browser_fee" =>
          op[2] \notin sessions /\ \A c \in Callers : Asks(c) => caller[c].a # op[2]
    BY <2>2, SessionOf, NobodyAsks DEF BInv, Requests
  <2>5. QED
    BY <1>1, <1>3, <2>2, <2>3, <2>4, CostMoves DEF Untried
<1>5. CASE ReleaseNoSpend(op, id)
  <2>1. PICK e : e = [state |-> "released", max |-> m, actual |-> a, proof |-> <<"no_spend", id>>]
    OBVIOUS
  <2>2. expense' = [expense EXCEPT ![op] = e]
    <3>1. expense' = [expense EXCEPT ![op] =
            [expense[op] EXCEPT !.state = "released", !.proof = <<"no_spend", id>>]]
      BY <1>5 DEF ReleaseNoSpend, BInv, Executed
    <3>2. PICK r : r = [expense[op] EXCEPT !.state = "released"]
      OBVIOUS
    <3>3. r = [state |-> "released", max |-> m, actual |-> a, proof |-> p]
      BY <1>2, <3>2
    <3>4. [r EXCEPT !.proof = <<"no_spend", id>>] = e
      BY <2>1, <3>3
    <3>5. QED
      BY <3>1, <3>2, <3>4
  <2>3. IsExpense(e) /\ e.state = "released" /\ ~Over(e)
    BY <2>1 DEF IsExpense, States, Over
  <2>4. op[1] = "browser_fee" =>
          op[2] \notin sessions /\ \A c \in Callers : Asks(c) => caller[c].a # op[2]
    BY <1>5 DEF ReleaseNoSpend, Asks
  <2>5. QED
    BY <1>1, <1>3, <2>2, <2>3, <2>4, CostMoves DEF Untried
<1>6. QED
  BY <1>4, <1>5

\* The rest leaves costs and requests alone.
LEMMA QuietKeeps ==
  ASSUME BInv, UNCHANGED <<expense, executed, caller, asked, sessions>>,
         \/ UNCHANGED <<reason, incidents>>
         \/ reason' = Frozes("policy") /\ incidents' = Append(incidents, "policy")
  PROVE  BInv'
<1>1. Executed'
  BY DEF BInv, Executed
<1>2. Requests'
  BY DEF BInv, Requests, Asks
<1>3. Freezes'
  <2>1. CASE UNCHANGED <<reason, incidents>>
    BY <2>1 DEF BInv, Freezes
  <2>2. CASE reason' = Frozes("policy") /\ incidents' = Append(incidents, "policy")
    <3>1. reason' \in {"overrun", "policy"} /\ reason' # None
      BY <2>2, TestingBudgetAssumption DEF Frozes, BInv, Freezes
    <3>2. incidents' \in Seq({"policy"})
      BY <2>2 DEF BInv, Freezes
    <3>3. QED
      BY <3>1, <3>2 DEF Freezes
  <2>3. QED
    BY <2>1, <2>2
<1>4. QED
  BY <1>1, <1>2, <1>3 DEF BInv

\* createSession: the process that begins an attempt's cost is the one that asks.
LEMMA GateKeeps ==
  ASSUME BInv, NEW c \in Callers, NEW a \in Attempts, GateReserves(c, a)
  PROVE  BInv'
<1>1. /\ UNCHANGED <<asked, sessions>> /\ caller' = [caller EXCEPT ![c] = [a |-> a, pc |-> "gate"]]
      /\ caller \in [Callers -> {None} \cup [a : Attempts, pc : {"gate", "create"}]]
  BY DEF GateReserves, BInv, Requests
<1>2. /\ caller' \in [Callers -> {None} \cup [a : Attempts, pc : {"gate", "create"}]]
      /\ \A d \in Callers : Asks(d)' => Asks(d) /\ caller'[d] = caller[d]
  BY <1>1 DEF Asks
<1>3. CASE Reserved({Session(a)}, None)
  <2>1. {Session(a)} \in SUBSET Operations
    BY SessionOf
  <2>2. /\ Executed' /\ Freezes' /\ UNCHANGED executed
        /\ \A op \in Operations :
             expense'[op].state = expense[op].state \/ expense[op].state \in Untried
    BY <1>3, <2>1, ReservedMoves
  <2>3. executed' \in [Operations -> Nat]
    BY <2>2 DEF Executed
  <2>4. QED
    BY <1>1, <1>2, <2>2, <2>3, RequestsStay DEF BInv
<1>4. CASE UNCHANGED budget
  <2>1. UNCHANGED <<expense, executed, reason, incidents>>
    BY <1>4 DEF budget
  <2>2. Executed' /\ Freezes'
    BY <2>1 DEF BInv, Executed, Freezes
  <2>3. executed' \in [Operations -> Nat]
    BY <2>2 DEF Executed
  <2>4. QED
    BY <1>1, <1>2, <2>1, <2>2, <2>3, RequestsStay DEF BInv
<1>5. QED
  BY <1>3, <1>4 DEF GateReserves

LEMMA LeavesGateKeeps ==
  ASSUME BInv, NEW c \in Callers, GateLooks(c) \/ GateEnds(c)
  PROVE  BInv'
<1>1. /\ UNCHANGED <<expense, executed, reason, incidents, asked, sessions>>
      /\ caller' = [caller EXCEPT ![c] = None]
      /\ caller \in [Callers -> {None} \cup [a : Attempts, pc : {"gate", "create"}]]
  BY DEF GateLooks, GateEnds, budget, BInv, Requests
<1>2. /\ caller' \in [Callers -> {None} \cup [a : Attempts, pc : {"gate", "create"}]]
      /\ \A d \in Callers : Asks(d)' => Asks(d) /\ caller'[d] = caller[d]
  BY <1>1 DEF Asks
<1>3. Executed' /\ Freezes'
  BY <1>1 DEF BInv, Executed, Freezes
<1>4. executed' \in [Operations -> Nat]
  BY <1>3 DEF Executed
<1>5. QED
  BY <1>1, <1>2, <1>3, <1>4, RequestsStay DEF BInv

LEMMA GateBeginsKeeps ==
  ASSUME BInv, NEW c \in Callers, GateBegins(c)
  PROVE  BInv'
<1>1. PICK a : a = caller[c].a
  OBVIOUS
<1>2. /\ caller[c] # None /\ caller[c].pc = "gate" /\ Begun({Session(a)}, None)
      /\ UNCHANGED <<asked, sessions>>
      /\ caller \in [Callers -> {None} \cup [a : Attempts, pc : {"gate", "create"}]]
  BY <1>1 DEF GateBegins, BInv, Requests
<1>3. caller[c] \in [a : Attempts, pc : {"gate", "create"}] /\ a \in Attempts
  BY <1>1, <1>2
<1>4. caller' = [caller EXCEPT ![c] = [caller[c] EXCEPT !.pc = "create"]]
  BY <1>2 DEF GateBegins
<1>5. PICK k : k = [caller[c] EXCEPT !.pc = "create"]
  OBVIOUS
<1>6. k \in [a : Attempts, pc : {"gate", "create"}] /\ k.a = a /\ k.pc = "create"
  BY <1>1, <1>3, <1>5
<1>7. /\ caller' \in [Callers -> {None} \cup [a : Attempts, pc : {"gate", "create"}]]
      /\ caller'[c] = k /\ \A d \in Callers \ {c} : caller'[d] = caller[d]
  BY <1>2, <1>4, <1>5, <1>6
<1>8. /\ Executed' /\ Freezes' /\ Session(a) \in Operations
      /\ \A op \in Operations \ {Session(a)} :
           expense'[op] = expense[op] /\ executed'[op] = executed[op]
      /\ expense[Session(a)].state = "reserved" /\ executed[Session(a)] = 0
      /\ expense'[Session(a)].state = "unresolved" /\ executed'[Session(a)] = 1
  <2>1. Session(a) \in Operations /\ {Session(a)} \in SUBSET Operations
    BY <1>3, SessionOf
  <2>2. QED
    BY <1>2, <2>1, BegunMoves
<1>9. asked[a] = 0 /\ a \notin sessions
  <2>1. asked[a] \in Nat /\ asked[a] <= executed[Session(a)] /\ a \notin sessions
    BY <1>3, <1>8 DEF BInv, Requests
  <2>2. QED
    BY <1>8, <2>1
<1>10. \A d \in Callers : Asks(d) => /\ caller[d].a \in Attempts /\ caller[d].a # a
                                     /\ Session(caller[d].a) # Session(a)
  <2> SUFFICES ASSUME NEW d \in Callers, Asks(d)
               PROVE  /\ caller[d].a \in Attempts /\ caller[d].a # a
                      /\ Session(caller[d].a) # Session(a)
    OBVIOUS
  <2>1. caller[d].a \in Attempts
    BY DEF BInv, Requests, Asks
  <2>2. expense[Session(caller[d].a)].state = "unresolved"
    BY DEF BInv, Requests
  <2>3. Session(caller[d].a) # Session(a)
    BY <1>8, <2>2
  <2>4. QED
    BY <2>1, <2>3
<1>11. ASSUME NEW b \in Attempts
       PROVE  /\ asked[b] <= executed'[Session(b)]
              /\ b \in sessions =>
                   asked[b] > 0 /\ expense'[Session(b)].state \in {"unresolved", "settled"}
  <2>1. CASE b = a
    BY <1>8, <1>9, <2>1
  <2>2. CASE b # a
    <3>1. Session(b) \in Operations \ {Session(a)}
      BY <1>3, <2>2, SessionOf
    <3>2. QED
      BY <1>8, <3>1 DEF BInv, Requests
  <2>3. QED
    BY <2>1, <2>2
<1>12. ASSUME NEW d \in Callers, Asks(d)'
       PROVE  LET b == caller'[d].a IN
              /\ expense'[Session(b)].state = "unresolved" /\ asked[b] = 0
              /\ executed'[Session(b)] = 1
              /\ \A o \in Callers \ {d} : Asks(o)' => caller'[o].a # b
  <2>1. CASE d = c
    <3>1. \A o \in Callers \ {d} : Asks(o)' => Asks(o) /\ caller'[o] = caller[o]
      BY <1>7, <2>1 DEF Asks
    <3>2. QED
      BY <1>6, <1>7, <1>8, <1>9, <1>10, <2>1, <3>1
  <2>2. CASE d # c
    <3>1. Asks(d) /\ caller'[d] = caller[d]
      BY <1>7, <1>12, <2>2 DEF Asks
    <3>2. Session(caller[d].a) \in Operations \ {Session(a)} /\ caller[d].a # a
      BY <1>10, <3>1, SessionOf
    <3>3. /\ expense[Session(caller[d].a)].state = "unresolved" /\ asked[caller[d].a] = 0
          /\ executed[Session(caller[d].a)] = 1
          /\ \A o \in Callers \ {d} : Asks(o) => caller[o].a # caller[d].a
      BY <3>1 DEF BInv, Requests
    <3>4. ASSUME NEW o \in Callers \ {d}, Asks(o)' PROVE caller'[o].a # caller[d].a
      <4>1. CASE o = c
        BY <1>6, <1>7, <3>2, <4>1
      <4>2. CASE o # c
        BY <1>7, <3>3, <3>4, <4>2 DEF Asks
      <4>3. QED
        BY <4>1, <4>2
    <3>5. QED
      BY <1>8, <3>1, <3>2, <3>3, <3>4
  <2>3. QED
    BY <2>1, <2>2
<1>13. Requests'
  BY <1>2, <1>7, <1>11, <1>12 DEF Requests, BInv
<1>14. QED
  BY <1>8, <1>13 DEF BInv

LEMMA CreatesSessionKeeps ==
  ASSUME BInv, NEW c \in Callers, CreatesSession(c)
  PROVE  BInv'
<1>1. PICK a : a = caller[c].a
  OBVIOUS
<1>2. /\ Asks(c) /\ asked' = [asked EXCEPT ![a] = asked[a] + 1]
      /\ sessions' \in {sessions, sessions \cup {a}} /\ caller' = [caller EXCEPT ![c] = None]
      /\ UNCHANGED <<expense, executed, reason, incidents>>
      /\ caller \in [Callers -> {None} \cup [a : Attempts, pc : {"gate", "create"}]]
      /\ asked \in [Attempts -> Nat] /\ sessions \subseteq Attempts
  BY <1>1 DEF CreatesSession, Asks, budget, BInv, Requests
<1>3. /\ a \in Attempts /\ expense[Session(a)].state = "unresolved" /\ asked[a] = 0
      /\ executed[Session(a)] = 1
      /\ \A d \in Callers \ {c} : Asks(d) => caller[d].a # a
  <2>1. a \in Attempts
    BY <1>1, <1>2 DEF Asks
  <2>2. QED
    BY <1>1, <1>2, <2>1 DEF BInv, Requests
<1>4. Executed' /\ Freezes'
  BY <1>2 DEF BInv, Executed, Freezes
<1>5. /\ asked' \in [Attempts -> Nat] /\ asked'[a] = 1 /\ sessions' \subseteq Attempts
      /\ \A b \in Attempts \ {a} : asked'[b] = asked[b] /\ (b \in sessions' => b \in sessions)
  BY <1>2, <1>3
<1>6. /\ caller' \in [Callers -> {None} \cup [a : Attempts, pc : {"gate", "create"}]]
      /\ \A d \in Callers : Asks(d)' => d # c /\ Asks(d) /\ caller'[d] = caller[d]
  BY <1>2 DEF Asks
<1>7. ASSUME NEW b \in Attempts
      PROVE  /\ asked'[b] <= executed[Session(b)]
             /\ b \in sessions' =>
                  asked'[b] > 0 /\ expense[Session(b)].state \in {"unresolved", "settled"}
  <2>1. CASE b = a
    BY <1>3, <1>5, <2>1
  <2>2. CASE b # a
    BY <1>5, <2>2 DEF BInv, Requests
  <2>3. QED
    BY <2>1, <2>2
<1>8. ASSUME NEW d \in Callers, Asks(d)'
      PROVE  /\ expense[Session(caller[d].a)].state = "unresolved" /\ asked'[caller[d].a] = 0
             /\ executed[Session(caller[d].a)] = 1
             /\ \A o \in Callers \ {d} : Asks(o)' => caller'[o].a # caller[d].a
  <2>1. d # c /\ Asks(d) /\ caller[d].a \in Attempts
    BY <1>2, <1>6, <1>8 DEF Asks
  <2>2. caller[d].a # a
    BY <1>3, <2>1
  <2>3. QED
    BY <1>5, <1>6, <2>1, <2>2 DEF BInv, Requests
<1>9. Requests'
  BY <1>2, <1>5, <1>6, <1>7, <1>8 DEF Requests
<1>10. QED
  BY <1>4, <1>9 DEF BInv

LEMMA BudgetKeeps ==
  ASSUME BInv, BudgetNext
  PROVE  BInv'
<1>1. ASSUME NEW by \in Payments \cup {None}, NEW p \in Payments,
             \/ AuthorizeCreatorPayment(p, by)
             \/ ReserveMany(Group(p), by)
             \/ BeginMany({op \in Group(p) : op[1] # "gift"}, by)
      PROVE  BInv'
  <2>1. Group(p) \in SUBSET Operations /\ {op \in Group(p) : op[1] # "gift"} \in SUBSET Operations
    BY DEF Group
  <2>2. CASE AuthorizeCreatorPayment(p, by)
    BY <2>2, QuietKeeps DEF AuthorizeCreatorPayment, browser
  <2>3. QED
    BY <1>1, <2>1, <2>2, GroupKeeps
<1>2. ASSUME NEW by \in Payments \cup {None}, NEW op \in Operations,
             ReserveMany({op}, by) \/ BeginMany({op}, by)
      PROVE  BInv'
  <2>1. {op} \in SUBSET Operations
    OBVIOUS
  <2>2. QED
    BY <1>2, <2>1, GroupKeeps
<1>3. ASSUME NEW op \in Operations, NEW actual \in Actuals, NEW id \in Proofs,
             Settle(op, actual, id) \/ ReconcileObservedCost(op, actual, id)
      PROVE  BInv'
  BY <1>3, SettledKeeps
<1>4. ASSUME NEW op \in Operations, NEW id, CancelBeforeExecution(op) \/ ReleaseNoSpend(op, id)
      PROVE  BInv'
  BY <1>4, DroppedKeeps
<1>5. CASE Freeze("policy")
  BY <1>5, QuietKeeps DEF Freeze, browser
<1>6. CASE GlobalRecoveryChallenge \/ ApproveGlobalRecovery
  BY <1>6, QuietKeeps DEF GlobalRecoveryChallenge, ApproveGlobalRecovery, browser
<1>7. ASSUME NEW p \in Payments, ApproveFundingRecovery(p) \/ Expires(p)
      PROVE  BInv'
  BY <1>7, QuietKeeps DEF ApproveFundingRecovery, Expires, browser
<1>8. QED
  BY <1>1, <1>2, <1>3, <1>4, <1>5, <1>6, <1>7 DEF BudgetNext

LEMMA BudgetInductive == BInv /\ [Together]_<<vars, budget, browser>> => BInv'
<1> SUFFICES ASSUME BInv, [Together]_<<vars, budget, browser>> PROVE BInv'
  OBVIOUS
<1>1. CASE UNCHANGED <<budget, browser>>
  BY <1>1, QuietKeeps DEF budget, browser
<1>2. CASE BudgetNext
  BY <1>2, BudgetKeeps
<1>3. CASE BrowserNext
  BY <1>3, GateKeeps, LeavesGateKeeps, GateBeginsKeeps, CreatesSessionKeeps DEF BrowserNext
<1>4. QED
  BY <1>1, <1>2, <1>3 DEF Together

LEMMA BudgetInvariance == TogetherSpec => []BInv
BY InitBInv, BudgetInductive, PTL DEF TogetherSpec

\* budgeted-browserbase.ts:88, through lost answers, repeated calls and dead
\* processes: a browser attempt is requested once at most, after its cost was begun,
\* and a cost whose session exists is neither dropped nor released.
THEOREM SessionsArePaidOnce == TogetherSpec => []OneSession
<1>1. BInv => OneSession
  BY DEF BInv, Executed, Requests, OneSession
<1>2. QED
  BY <1>1, BudgetInvariance, PTL

\* What a reservation under a recovery reaches is what the recovery is for.
LEMMA BegunIsReviewed ==
  ASSUME BInv, NEW ops \in SUBSET Operations, NEW by \in Payments \cup {None}, Begun(ops, by),
         NEW op \in ops
  PROVE  /\ incidents = <<>>
         /\ Overruns # {} => \E g \in Grants(op) : Overruns \subseteq g.overruns
         /\ Creator(op) => pay[op[2]].status \notin {"completed", "cancelled"}
<1>1. /\ Enabled(by) /\ Active(op)
      /\ RecoveryCosts(by, ops, IF by = None THEN {} ELSE {o \in Group(by) : o[1] # "gift"})
  BY DEF Begun
<1>2. Incident.overruns = Overruns
  BY DEF Incident
<1>3. incidents = <<>>
  <2>1. Recoverable => incidents = <<>>
    <3> SUFFICES ASSUME Recoverable, incidents # <<>> PROVE FALSE
      OBVIOUS
    <3>1. incidents \in Seq({"policy"})
      BY DEF BInv, Freezes
    <3>2. Len(incidents) \in 1 .. Len(incidents)
      BY <3>1
    <3>3. incidents[Len(incidents)] = "policy"
      BY <3>1, <3>2
    <3>4. QED
      BY <3>3 DEF Recoverable
  <2>2. CASE reason = None
    BY <2>2 DEF BInv, Freezes
  <2>3. CASE reason # None
    <3>1. GlobalRecovery \/ FundingRecovery(by)
      BY <1>1, <2>3 DEF Enabled, Frozen
    <3>2. QED
      BY <2>1, <3>1 DEF GlobalRecovery, FundingRecovery, Challenged
  <2>4. QED
    BY <2>2, <2>3
<1>4. ASSUME Overruns # {}
      PROVE  \E g \in Grants(op) : Overruns \subseteq g.overruns
  <2>1. reason # None
    BY <1>4 DEF Overruns, BInv, Freezes, Over
  <2>2. CASE GlobalRecovery
    BY <1>2, <2>2 DEF GlobalRecovery, Grants
  <2>3. CASE ~GlobalRecovery
    <3>1. by \in Payments /\ FundingRecovery(by)
      BY <1>1, <2>1, <2>3 DEF Enabled, Frozen
    <3>2. by # None
      BY <3>1, TestingBudgetAssumption
    <3>3. ops = {o \in Group(by) : o[1] # "gift"}
      BY <1>1, <2>1, <2>3, <3>2 DEF RecoveryCosts, Frozen
    <3>4. recovery[by].incident \in Grants(op)
      BY <3>1, <3>3 DEF Grants, FundingRecovery
    <3>5. recovery[by].incident = Incident
      BY <3>1 DEF FundingRecovery
    <3>6. QED
      BY <1>2, <3>4, <3>5
  <2>4. QED
    BY <2>2, <2>3
<1>5. Creator(op) => pay[op[2]].status \notin {"completed", "cancelled"}
  BY <1>1 DEF Active
<1>6. QED
  BY <1>3, <1>4, <1>5

\* Only beginning a cost tells anybody to execute.
LEMMA ExecutedByBegun ==
  ASSUME BInv, [Together]_<<vars, budget, browser>>, NEW op \in Operations,
         executed'[op] # executed[op]
  PROVE  \E ops \in SUBSET Operations, by \in Payments \cup {None} : Begun(ops, by) /\ op \in ops
<1>1. ASSUME NEW ops \in SUBSET Operations, NEW by \in Payments \cup {None}, Begun(ops, by)
      PROVE  op \in ops
  BY <1>1, BegunMoves
<1>2. CASE BudgetNext
  <2>1. \E ops \in SUBSET Operations, by \in Payments \cup {None} : Begun(ops, by)
    <3>1. ASSUME NEW by \in Payments \cup {None}, NEW p \in Payments,
                 \/ AuthorizeCreatorPayment(p, by)
                 \/ ReserveMany(Group(p), by)
                 \/ BeginMany({o \in Group(p) : o[1] # "gift"}, by)
          PROVE  Begun({o \in Group(p) : o[1] # "gift"}, by)
      BY <3>1 DEF AuthorizeCreatorPayment, ReserveMany, Reserved, BeginMany
    <3>2. \A p \in Payments : {o \in Group(p) : o[1] # "gift"} \in SUBSET Operations
      BY DEF Group
    <3>3. ASSUME NEW by \in Payments \cup {None}, NEW o \in Operations,
                 ReserveMany({o}, by) \/ BeginMany({o}, by)
          PROVE  {o} \in SUBSET Operations /\ Begun({o}, by)
      BY <3>3 DEF ReserveMany, Reserved, BeginMany
    <3>4. ASSUME NEW o \in Operations, NEW actual \in Actuals, NEW id \in Proofs
          PROVE  ~(Settle(o, actual, id) \/ ReconcileObservedCost(o, actual, id))
      BY DEF Settle, ReconcileObservedCost
    <3>5. ASSUME NEW o \in Operations, NEW id
          PROVE  ~(CancelBeforeExecution(o) \/ ReleaseNoSpend(o, id))
      BY DEF CancelBeforeExecution, ReleaseNoSpend
    <3>6. ~(Freeze("policy") \/ GlobalRecoveryChallenge \/ ApproveGlobalRecovery)
      BY DEF Freeze, GlobalRecoveryChallenge, ApproveGlobalRecovery
    <3>7. \A p \in Payments : ~(ApproveFundingRecovery(p) \/ Expires(p))
      BY DEF ApproveFundingRecovery, Expires
    <3>8. QED
      BY <1>2, <3>1, <3>2, <3>3, <3>4, <3>5, <3>6, <3>7 DEF BudgetNext
  <2>2. QED
    BY <1>1, <2>1
<1>3. CASE BrowserNext
  <2>1. PICK c \in Callers :
          \/ \E a \in Attempts : GateReserves(c, a)
          \/ GateLooks(c) \/ GateBegins(c) \/ CreatesSession(c) \/ GateEnds(c)
    BY <1>3 DEF BrowserNext
  <2>2. GateBegins(c)
    BY <2>1 DEF GateReserves, Reserved, GateLooks, CreatesSession, GateEnds, budget
  <2>3. {Session(caller[c].a)} \in SUBSET Operations
    <3>1. caller[c].a \in Attempts
      BY <2>2 DEF GateBegins, BInv, Requests
    <3>2. QED
      BY <3>1, SessionOf
  <2>4. QED
    BY <1>1, <2>2, <2>3 DEF GateBegins
<1>4. CASE UNCHANGED budget
  BY <1>4 DEF budget
<1>5. QED
  BY <1>2, <1>3, <1>4 DEF Together

\* testing-budget.ts:434, 389, 990: once something went wrong, what still executes
\* is what somebody has approved in full knowledge of it.
THEOREM SpendingIsReviewed == TogetherSpec => SpendIsReviewed
<1>1. BInv /\ [Together]_<<vars, budget, browser>> =>
        [\A op \in Operations : executed'[op] # executed[op] =>
           /\ incidents = <<>>
           /\ Overruns # {} => \E g \in Grants(op) : Overruns \subseteq g.overruns
           /\ Creator(op) => pay[op[2]].status \notin {"completed", "cancelled"}
        ]_<<vars, budget, browser>>
  BY ExecutedByBegun, BegunIsReviewed
<1>2. QED
  BY <1>1, BudgetInvariance, PTL DEF TogetherSpec, SpendIsReviewed

\* The budget and the provider leave the ledger alone.
LEMMA LedgerStays ==
  ASSUME BudgetNext \/ BrowserNext
  PROVE  UNCHANGED vars
<1>1. CASE BudgetNext
  BY <1>1 DEF BudgetNext, AuthorizeCreatorPayment, ReserveMany, BeginMany, Settle,
     ReconcileObservedCost, ReleaseNoSpend, CancelBeforeExecution, Freeze,
     GlobalRecoveryChallenge, ApproveGlobalRecovery, ApproveFundingRecovery, Expires
<1>2. CASE BrowserNext
  BY <1>2 DEF BrowserNext, GateReserves, GateLooks, GateBegins, CreatesSession, GateEnds
<1>3. QED
  BY <1>1, <1>2

\* The budget lives in the ledger's database and only reads it, so the composition
\* implements the ledger and keeps whatever the ledger does.
THEOREM BudgetOnlyReads == TogetherSpec => Spec
<1>1. BudgetInit => Init
  BY DEF BudgetInit
<1>2. [Together]_<<vars, budget, browser>> => [Next]_vars
  <2> SUFFICES ASSUME [Together]_<<vars, budget, browser>> PROVE Next \/ UNCHANGED vars
    OBVIOUS
  <2>1. QED
    BY LedgerStays DEF Together
<1>3. QED
  BY <1>1, <1>2, PTL DEF TogetherSpec, Spec

-----------------------------------------------------------------------------
\* The amounts of the testing budget.

CostsAreNumbers ==
  \A op \in Operations :
    /\ expense[op].max \in Nat /\ expense[op].actual \in Nat
    /\ expense[op].state = "none" => expense[op].max = 0

\* A final cost has evidence, and no evidence serves twice.
Evidence ==
  /\ \A op \in Operations :
       expense[op].state \in {"settled", "released"} <=> expense[op].proof # None
  /\ \A op, o \in Operations :
       op # o /\ expense[op].proof # None => expense[op].proof # expense[o].proof

\* An authorized payment has a native intent that its budget covers, and each of
\* its costs stays within the ceiling of that intent.
CreatorsCovered ==
  /\ authorized \subseteq Payments
  /\ \A p \in authorized :
       /\ pay[p].plan \in Plans /\ pay[p].status \notin Unfunded
       /\ pay[p].plan.gift + pay[p].plan.gas + pay[p].plan.conv <= pay[p].budget
       /\ \A op \in Group(p) : expense[op].max <= CeilingOf(op)

\* Funding begins with the native intent, if there is one.
Unplanned == \A p \in Payments : pay[p].status \in Unfunded => pay[p].plan = None

\* What the budget, next to the ledger, keeps of its amounts.
KInv ==
  IInv /\ BInv /\ CostsAreNumbers /\ Evidence /\ CreatorsCovered /\ Unplanned /\ WithinCap

\* Nothing adds up to nothing.
LEMMA SumOfZeros ==
  ASSUME NEW S, IsFiniteSet(S), NEW f \in [S -> Int], \A x \in S : f[x] = 0
  PROVE  SumFunction(f) = 0
<1>1. PICK T : T = {}
  OBVIOUS
<1>2. PICK g : g = [x \in T |-> 0]
  OBVIOUS
<1>3. /\ g \in [T -> Int] /\ T \in SUBSET S /\ IsFiniteSet(T)
      /\ \A x \in T : f[x] = g[x]
      /\ \A x \in S \ T : f[x] = 0
  BY <1>1, <1>2, FS_EmptySet
<1>4. SumFunction(g) = SumFunction(f)
  BY <1>3, SumOfPart
<1>5. SumFunction(g) = Net(g, T) /\ Net(g, {}) = 0
  BY <1>3, SumIsNet, NetGrows
<1>6. QED
  BY <1>1, <1>4, <1>5

\* What each operation owes the cap.
OwedBy == [op \in Operations |-> IF Creator(op) THEN 0 ELSE Owed(op)]

\* What is owed is a number, and is what the code allocates.
LEMMA OwedIsNat ==
  ASSUME CostsAreNumbers, NEW op \in Operations
  PROVE  Owed(op) \in Nat /\ Allocated(op) = Owed(op)
BY DEF CostsAreNumbers, Owed, Allocated

\* The total of the common costs is a sum over all operations.
LEMMA TotalIsOwed ==
  ASSUME CostsAreNumbers
  PROVE  /\ OwedBy \in [Operations -> Int]
         /\ SumFunction([op \in Common |-> Owed(op)]) = SumFunction(OwedBy)
         /\ Total = SumFunction(OwedBy)
<1>1. OwedBy \in [Operations -> Int]
  BY OwedIsNat DEF OwedBy
<1> DEFINE part == [op \in Common |-> Owed(op)]
<1>2. /\ Common \in SUBSET Operations /\ part \in [Common -> Int]
      /\ \A op \in Common : OwedBy[op] = part[op]
      /\ \A op \in Operations \ Common : OwedBy[op] = 0
  BY OwedIsNat DEF OwedBy, Common
<1>3. part = [op \in Common |-> Allocated(op)]
  BY OwedIsNat DEF Common
<1> HIDE DEF part
<1>4. SumFunction(part) = SumFunction(OwedBy)
  BY <1>1, <1>2, TestingBudgetAssumption, SumOfPart
<1>5. QED
  BY <1>1, <1>3, <1>4 DEF part, Total

\* The cap holds on while nothing new is owed.
LEMMA OwedStays ==
  ASSUME CostsAreNumbers, CostsAreNumbers', WithinCap, authorized \subseteq authorized',
         \A op \in Operations : Owed(op)' <= Owed(op),
         reason # None => reason' # None,
         Overruns # {} \/ incidents # <<>> => (Overruns # {} \/ incidents # <<>>)'
  PROVE  WithinCap'
<1>1. /\ OwedBy \in [Operations -> Int]
      /\ SumFunction([op \in Common |-> Owed(op)]) = SumFunction(OwedBy)
  BY TotalIsOwed
<1> DEFINE part == [op \in Common' |-> Owed(op)']
           owed == [op \in Operations |-> IF op \in Common' THEN Owed(op)' ELSE 0]
<1>2. \A op \in Operations : Owed(op)' \in Nat
  BY DEF CostsAreNumbers, Owed
<1>3. /\ Common' \in SUBSET Operations /\ part \in [Common' -> Int]
      /\ owed \in [Operations -> Int]
      /\ \A op \in Common' : owed[op] = part[op]
      /\ \A op \in Operations \ Common' : owed[op] = 0
  BY <1>2 DEF Common
<1>4. \A op \in Operations : owed[op] <= OwedBy[op]
  <2> SUFFICES ASSUME NEW op \in Operations PROVE owed[op] <= OwedBy[op]
    OBVIOUS
  <2>1. Owed(op) \in Nat /\ Owed(op)' \in Nat /\ Owed(op)' <= Owed(op)
    BY <1>2, OwedIsNat
  <2>2. op \in Common' => op \in Common
    BY DEF Common, Creator
  <2>3. OwedBy[op] = IF op \in Common THEN Owed(op) ELSE 0
    BY DEF OwedBy, Common
  <2>4. QED
    BY <2>1, <2>2, <2>3
<1> HIDE DEF part, owed
<1>5. SumFunction(part) = SumFunction(owed)
  BY <1>3, TestingBudgetAssumption, SumOfPart
<1>6. SumFunction(owed) <= SumFunction(OwedBy)
  BY <1>1, <1>3, <1>4, TestingBudgetAssumption, SumGrows
<1>7. SumFunction(owed) \in Int /\ SumFunction(OwedBy) \in Int /\ Cap \in Nat
  BY <1>1, <1>3, TestingBudgetAssumption, SumIsInt
<1>8. SumFunction(part) > Cap => SumFunction([op \in Common |-> Owed(op)]) > Cap
  BY <1>1, <1>5, <1>6, <1>7
<1>9. part = [op \in Common |-> Owed(op)]'
  BY DEF part
<1>10. QED
  BY <1>8, <1>9 DEF WithinCap

\* What an operation does to the payment it is for.
LEMMA PaysChanges ==
  ASSUME IInv, NEW q \in Payments, Pays(q)
  PROVE  /\ \A p \in Payments \ {q} : pay'[p] = pay[p]
         /\ \/ pay'[q] = pay[q]
            \/ pay[q].status = "none" /\ pay'[q].plan = None
            \/ pay[q].status = "reserved" /\ pay'[q].status \notin Unfunded
            \/ /\ pay'[q].plan = pay[q].plan /\ pay'[q].budget = pay[q].budget
               /\ pay'[q].status \notin Unfunded
<1>0. PICK r : r = pay[q]
  OBVIOUS
<1>1. IsRow(r)
  BY <1>0 DEF IInv, Kept
<1>2. ASSUME NEW k, Save(q, k)
      PROVE  pay'[q] = k /\ \A p \in Payments \ {q} : pay'[p] = pay[p]
  BY <1>2 DEF Save, IInv
<1>3. ASSUME NEW t, NEW b, Reserve(q, t, b)
      PROVE  \E k : Save(q, k) /\ r.status = "none" /\ k.plan = None
  <2>1. PICK k : k = [NoPayment EXCEPT !.token = t, !.budget = b, !.status = "reserved"]
    OBVIOUS
  <2>2. k.plan = None
    BY <2>1 DEF NoPayment
  <2>3. QED
    BY <1>0, <1>3, <2>1, <2>2 DEF Reserve, Fresh
<1>4. ASSUME NEW n, ReserveNative(q, n)
      PROVE  \E k : Save(q, k) /\ r.status = "reserved" /\ k.status \notin Unfunded
  <2> DEFINE lamports == AvailableLamports(r.token)
             from == AvailableBasis(r.token)
             pin == Quotient(from * (n.amount + n.maxFee), lamports)
  <2>1. r.status = "reserved"
        /\ Save(q, [r EXCEPT !.plan = n, !.lamports = lamports, !.from = from, !.pinned = pin,
                            !.status = "funding_pending"])
    BY <1>0, <1>4 DEF ReserveNative
  <2> HIDE DEF lamports, from, pin
  <2>2. PICK k : k = [r EXCEPT !.plan = n, !.lamports = lamports, !.from = from, !.pinned = pin,
                              !.status = "funding_pending"]
    OBVIOUS
  <2>3. k.status = "funding_pending"
    BY <1>1, <2>2 DEF IsRow, Columns
  <2>4. QED
    BY <2>1, <2>2, <2>3 DEF Unfunded
<1> DEFINE Stands(k) == k.plan = r.plan /\ k.budget = r.budget /\ k.status \notin Unfunded
<1>5. ASSUME NEW s, s \notin Unfunded, Save(q, [r EXCEPT !.status = s])
      PROVE  \E k : Save(q, k) /\ Stands(k)
  <2>1. PICK k : k = [r EXCEPT !.status = s]
    OBVIOUS
  <2>2. Stands(k)
    BY <1>1, <1>5, <2>1 DEF IsRow, Columns
  <2>3. QED
    BY <1>5, <2>1, <2>2
<1>6. ASSUME NEW x, Funded(q, x) PROVE \E k : Save(q, k) /\ Stands(k)
  <2> DEFINE fx == x.usd + x.fee - x.basis - x.net
             s == IF x.over THEN "uncertain" ELSE "funding_submitted"
  <2>1. PICK k : k = [r EXCEPT !.funded = TRUE, !.sol = x.sol, !.gas = x.gas, !.usd = x.usd,
                     !.fee = x.fee, !.basis = x.basis, !.net = x.net, !.fx = fx, !.over = x.over,
                     !.status = s]
    OBVIOUS
  <2>2. Save(q, k)
    BY <1>0, <1>6, <2>1 DEF Funded
  <2>3. s \notin Unfunded
    BY DEF Unfunded
  <2> HIDE DEF fx, s
  <2>4. Stands(k)
    BY <1>1, <2>1, <2>3 DEF IsRow, Columns
  <2>5. QED
    BY <2>2, <2>4
<1>7. ASSUME NEW c, NEW s, s \notin Unfunded, Credited(q, c, s)
      PROVE  \E k : Save(q, k) /\ Stands(k)
  <2> DEFINE g == IF r.plan = None THEN r.usd - c ELSE 0
  <2>1. PICK k : k = [r EXCEPT !.credited = TRUE, !.credit = c, !.status = s, !.charge = g]
    OBVIOUS
  <2>2. Save(q, k)
    BY <1>0, <1>7, <2>1 DEF Credited
  <2> HIDE DEF g
  <2>3. Stands(k)
    BY <1>1, <1>7, <2>1 DEF IsRow, Columns
  <2>4. QED
    BY <2>2, <2>3
<1>8. ASSUME NEW c, RecordNativeCredit(q, c) \/ RecordCardCredit(q, c)
      PROVE  \E k : Save(q, k) /\ Stands(k)
  <2> HIDE DEF Stands
  <2>1. PICK s \in {"uncertain", "ready", "awaiting_threshold"} : Credited(q, c, s)
    BY <1>8 DEF RecordNativeCredit, RecordCardCredit
  <2>2. QED
    BY <1>7, <2>1 DEF Unfunded
<1>9. ASSUME NEW spent, NEW c, Finished(q, spent, c)
      PROVE  \E k : Save(q, k) /\ Stands(k)
  <2>1. PICK k : k = [r EXCEPT !.status = "completed", !.spent = spent, !.completion = c]
    OBVIOUS
  <2>2. Save(q, k)
    BY <1>0, <1>9, <2>1 DEF Finished
  <2>3. Stands(k)
    BY <1>1, <2>1 DEF IsRow, Columns, Unfunded
  <2>4. QED
    BY <2>2, <2>3
<1>10. ASSUME NEW gas, ResolveFailed(q, gas) PROVE \E k : Save(q, k) /\ Stands(k)
  <2> DEFINE native == r.plan # None
             lamports == IF native THEN r.lamports ELSE AvailableLamports(r.token)
             from == IF native THEN r.from ELSE AvailableBasis(r.token)
             basis == IF gas = 0 THEN 0 ELSE Quotient(from * gas, lamports)
             fee == GasCents(gas)
             over == native /\ Overrun(r.plan, gas)
  <2>1. PICK k : k = [r EXCEPT !.status = "cancelled", !.failed = TRUE, !.gas = gas, !.fee = fee,
                               !.basis = basis, !.fx = fee - basis, !.over = over]
    OBVIOUS
  <2>2. Save(q, k)
    BY <1>0, <1>10, <2>1 DEF ResolveFailed
  <2> HIDE DEF basis, fee, over
  <2>3. Stands(k)
    BY <1>1, <2>1 DEF IsRow, Columns, Unfunded
  <2>4. QED
    BY <2>2, <2>3
<1>11. ASSUME NEW k, Save(q, k), Stands(k)
       PROVE  /\ \A p \in Payments \ {q} : pay'[p] = pay[p]
              /\ pay'[q].plan = pay[q].plan /\ pay'[q].budget = pay[q].budget
              /\ pay'[q].status \notin Unfunded
  BY <1>0, <1>2, <1>11
<1>12. BeginFunding(q) \/ StartPayment(q) \/ MarkUncertain(q) \/ CancelPayment(q)
         => \E k : Save(q, k) /\ Stands(k)
  <2>1. \A s \in {"funding_pending", "in_progress", "uncertain", "cancelled"} :
          Save(q, [r EXCEPT !.status = s]) => \E k : Save(q, k) /\ Stands(k)
    BY <1>5 DEF Unfunded
  <2> HIDE DEF Stands
  <2>2. QED
    BY <1>0, <2>1 DEF BeginFunding, StartPayment, MarkUncertain, CancelPayment
<1> HIDE DEF Stands
<1>c. \/ UNCHANGED pay
      \/ \E k : Save(q, k) /\ Stands(k)
      \/ ~\E e \in checked : e.payment = q /\ (CompletePayment(e) \/ CheckedInVain(e))
  BY <1>9 DEF CompletePayment, CheckedInVain
<1>d. \/ UNCHANGED pay
      \/ ~\E spent \in Spends, ref \in Refs \cup {None}, url \in Urls \cup {None} :
            Check(q, spent, ref, url)
  BY DEF Check
<1>13. \/ UNCHANGED pay
       \/ \E k : Save(q, k) /\ Stands(k)
       \/ \E k : Save(q, k) /\ r.status = "none" /\ k.plan = None
       \/ \E k : Save(q, k) /\ r.status = "reserved" /\ k.status \notin Unfunded
  BY <1>3, <1>4, <1>6, <1>8, <1>9, <1>10, <1>12, <1>c, <1>d
     DEF Pays, RecordNativeFunding, RecordFunding, CompletePaymentVerified
<1>14. QED
  BY <1>0, <1>2, <1>11, <1>13

\* The ledger keeps the plan and the budget of a payment whose funding has begun.
LEMMA PlansStand ==
  ASSUME IInv, Next, NEW p \in Payments, pay[p].status \notin Unfunded
  PROVE  /\ pay'[p].plan = pay[p].plan /\ pay'[p].budget = pay[p].budget
         /\ pay'[p].status \notin Unfunded
<1>1. CASE UNCHANGED pay
  BY <1>1
<1>2. CASE \E q \in Payments : Pays(q)
  <2>1. PICK q \in Payments : Pays(q)
    BY <1>2
  <2>2. CASE q = p
    BY <2>1, <2>2, PaysChanges DEF Unfunded
  <2>3. CASE q # p
    BY <2>1, <2>3, PaysChanges
  <2>4. QED
    BY <2>2, <2>3
<1>3. QED
  BY <1>1, <1>2 DEF Next, RegisterToken, RegisterPlatformToken, RecordClaim,
     RecordFailedClaimCost, RecordTreasuryReceipt

\* The ledger gives an intent to no payment whose funding has not begun.
LEMMA UnplannedStays ==
  ASSUME IInv, Unplanned, Next
  PROVE  Unplanned'
<1>1. CASE UNCHANGED pay
  BY <1>1 DEF Unplanned
<1>2. CASE \E q \in Payments : Pays(q)
  <2>1. PICK q \in Payments : Pays(q)
    BY <1>2
  <2> SUFFICES ASSUME NEW p \in Payments, pay'[p].status \in Unfunded
               PROVE  pay'[p].plan = None
    BY DEF Unplanned
  <2>2. QED
    BY <2>1, PaysChanges DEF Unplanned
<1>3. QED
  BY <1>1, <1>2 DEF Next, RegisterToken, RegisterPlatformToken, RecordClaim,
     RecordFailedClaimCost, RecordTreasuryReceipt

\* So whatever the ledger does, an authorized payment's costs stay covered.
LEMMA LedgerCovers ==
  ASSUME KInv, Next, UNCHANGED <<budget, browser>>
  PROVE  CreatorsCovered'
<1>1. UNCHANGED <<expense, authorized>>
  BY DEF budget
<1>2. ASSUME NEW p \in authorized, NEW op \in Group(p)
      PROVE  CeilingOf(op)' = CeilingOf(op)
  <2>1. op[2] = p /\ p \in Payments /\ pay[p].status \notin Unfunded
    BY DEF KInv, CreatorsCovered, Group
  <2>2. pay'[p].plan = pay[p].plan
    BY <2>1, PlansStand DEF KInv
  <2>3. QED
    BY <2>1, <2>2 DEF CeilingOf
<1>3. QED
  BY <1>1, <1>2, PlansStand DEF KInv, CreatorsCovered, Group

\* Costs that change keep their amounts and their evidence apart.
LEMMA CostsStand ==
  ASSUME CostsAreNumbers, Evidence,
         \A op \in Operations :
           /\ expense'[op].max \in Nat /\ expense'[op].actual \in Nat
           /\ expense'[op].state = "none" => expense'[op].max = 0
           /\ expense'[op].state \in {"settled", "released"} <=> expense'[op].proof # None
           /\ \/ expense'[op].proof = expense[op].proof
              \/ \A o \in Operations \ {op} :
                   expense'[o].proof = expense[o].proof /\ expense[o].proof # expense'[op].proof
  PROVE  CostsAreNumbers' /\ Evidence'
<1>1. CostsAreNumbers'
  BY DEF CostsAreNumbers
<1>2. ASSUME NEW op \in Operations, NEW o \in Operations, op # o, expense'[op].proof # None
      PROVE  expense'[op].proof # expense'[o].proof
  <2>1. CASE expense'[op].proof = expense[op].proof /\ expense'[o].proof = expense[o].proof
    BY <1>2, <2>1 DEF Evidence
  <2>2. CASE expense'[op].proof # expense[op].proof
    BY <1>2, <2>2
  <2>3. CASE expense'[o].proof # expense[o].proof
    BY <1>2, <2>3
  <2>4. QED
    BY <2>1, <2>2, <2>3
<1>3. QED
  BY <1>1, <1>2 DEF Evidence

\* A cost of an authorized payment is asked for under its ceiling.
LEMMA CoverStands ==
  ASSUME CreatorsCovered, UNCHANGED <<pay, authorized>>,
         \A op \in Operations :
           \/ expense'[op].max = expense[op].max
           \/ Creator(op) => expense'[op].max <= CeilingOf(op)
  PROVE  CreatorsCovered'
<1>1. ASSUME NEW p \in authorized, NEW op \in Group(p)
      PROVE  expense'[op].max <= CeilingOf(op) /\ CeilingOf(op)' = CeilingOf(op)
  <2>1. op \in Operations /\ Creator(op) /\ expense[op].max <= CeilingOf(op)
    BY DEF CreatorsCovered, Group, Creator
  <2>2. CeilingOf(op)' = CeilingOf(op)
    BY DEF CeilingOf
  <2>3. QED
    BY <2>1, <2>2
<1>2. \A p \in authorized : Group(p)' = Group(p)
  BY DEF Group
<1>3. QED
  BY <1>1, <1>2 DEF CreatorsCovered

\* The ceilings of a native intent are numbers.
LEMMA CeilingIsNat ==
  ASSUME NEW op \in Operations, pay[op[2]].plan \in Plans
  PROVE  CeilingOf(op) \in Nat
<1>1. PICK n : n = pay[op[2]].plan /\ n.gift \in Nat /\ n.gas \in Nat /\ n.conv \in Nat
  BY LedgerAssumption
<1>2. CeilingOf(op) = CASE op[1] = "gift" -> n.gift [] op[1] = "chain_fee" -> n.gas [] OTHER -> n.conv
  BY <1>1 DEF CeilingOf
<1>3. QED
  BY <1>1, <1>2

\* An authorized payment's ceilings are numbers; the others ask for the same.
LEMMA AskedIsNat ==
  ASSUME KInv, NEW op \in Operations
  PROVE  /\ Asked(op) \in Nat
         /\ Creator(op) => CeilingOf(op) \in Nat /\ Asked(op) = CeilingOf(op)
<1>1. Creator(op) => CeilingOf(op) \in Nat
  BY CeilingIsNat DEF Creator, KInv, CreatorsCovered
<1>2. Ceiling \in Nat
  BY TestingBudgetAssumption
<1>3. QED
  BY <1>1, <1>2 DEF Asked

\* What the amounts of a step have to do when only one cost changes.
LEMMA OneCost ==
  ASSUME KInv, NEW op \in Operations, NEW e, expense' = [expense EXCEPT ![op] = e],
         e.max \in Nat, e.actual \in Nat, e.state # "none",
         e.state \in {"settled", "released"} <=> e.proof # None,
         e.proof = expense[op].proof \/ Free(e.proof),
         e.max = expense[op].max \/ (Creator(op) => e.max <= CeilingOf(op)),
         expense[op].state # "settled",
         UNCHANGED <<pay, authorized>>
  PROVE  /\ CostsAreNumbers' /\ Evidence' /\ CreatorsCovered'
         /\ Overruns \subseteq Overruns'
         /\ Owed(op)' = (CASE e.state \in {"reserved", "unresolved"} -> e.max
                           [] e.state = "settled" -> e.actual
                           [] OTHER -> 0)
         /\ \A o \in Operations \ {op} : Owed(o)' = Owed(o)
<1>1. expense'[op] = e /\ \A o \in Operations \ {op} : expense'[o] = expense[o]
  BY DEF KInv, BInv, Executed
<1>2. CostsAreNumbers' /\ Evidence'
  BY <1>1, CostsStand DEF KInv, CostsAreNumbers, Evidence, Free
<1>3. CreatorsCovered'
  BY <1>1, CoverStands DEF KInv
<1>4. Overruns \subseteq Overruns'
  BY <1>1 DEF Overruns
<1>5. QED
  BY <1>1, <1>2, <1>3, <1>4 DEF Owed

\* A reservation fits under the cap next to what is owed already.
LEMMA ReservedFits ==
  ASSUME KInv, NEW ops \in SUBSET Operations, NEW by, Reserved(ops, by), UNCHANGED pay
  PROVE  CostsAreNumbers' /\ Evidence' /\ CreatorsCovered' /\ WithinCap'
<1>1. PICK new : new = {op \in ops : expense[op].state = "none"}
  OBVIOUS
<1>2. /\ SumFunction([op \in new \cap Common |-> Asked(op)]) <= Cap - Total
      /\ expense' = [op \in Operations |->
           IF op \in new THEN [NoExpense EXCEPT !.state = "reserved", !.max = Asked(op)]
                         ELSE expense[op]]
      /\ UNCHANGED <<authorized, reason, incidents>>
  BY <1>1 DEF Reserved
<1>3. ASSUME NEW op \in new
      PROVE  /\ expense'[op].state = "reserved" /\ expense'[op].max = Asked(op)
             /\ expense'[op].actual = 0 /\ expense'[op].proof = None
  <2>1. expense'[op] = [state |-> "reserved", max |-> Asked(op), actual |-> 0, proof |-> None]
    BY <1>1, <1>2 DEF NoExpense
  <2>2. QED
    BY <2>1
<1>4. \A op \in Operations \ new : expense'[op] = expense[op]
  BY <1>2
<1>5. \A op \in new : expense[op].state = "none" /\ expense[op].proof = None /\ Asked(op) \in Nat
  BY <1>1, AskedIsNat DEF KInv, Evidence
<1>6. CostsAreNumbers' /\ Evidence'
  <2>1. ASSUME NEW op \in Operations
        PROVE  /\ expense'[op].max \in Nat /\ expense'[op].actual \in Nat
               /\ expense'[op].state = "none" => expense'[op].max = 0
               /\ expense'[op].state \in {"settled", "released"} <=> expense'[op].proof # None
               /\ expense'[op].proof = expense[op].proof
    <3>1. CASE op \in new
      BY <1>3, <1>5, <3>1
    <3>2. CASE op \notin new
      BY <1>4, <3>2 DEF KInv, CostsAreNumbers, Evidence
    <3>3. QED
      BY <3>1, <3>2
  <2>2. QED
    BY <2>1, CostsStand DEF KInv
<1>7. CreatorsCovered'
  <2>1. ASSUME NEW op \in Operations
        PROVE  \/ expense'[op].max = expense[op].max
               \/ Creator(op) => expense'[op].max <= CeilingOf(op)
    <3>1. CASE op \in new
      <4>1. Creator(op) => CeilingOf(op) \in Nat /\ Asked(op) = CeilingOf(op)
        BY AskedIsNat
      <4>2. QED
        BY <1>3, <3>1, <4>1
    <3>2. CASE op \notin new
      BY <1>4, <3>2
    <3>3. QED
      BY <3>1, <3>2
  <2>2. QED
    BY <1>2, <2>1, CoverStands DEF KInv
<1> DEFINE part == [op \in new \cap Common |-> Asked(op)]
           extra == [op \in Operations |-> IF op \in new \cap Common THEN Asked(op) ELSE 0]
           sums == [op \in Operations |-> OwedBy[op] + extra[op]]
           after == [op \in Common |-> Owed(op)']
<1>8. OwedBy \in [Operations -> Int] /\ Total = SumFunction(OwedBy)
  BY TotalIsOwed DEF KInv
<1>9. /\ extra \in [Operations -> Int] /\ part \in [new \cap Common -> Int]
      /\ \A op \in new \cap Common : extra[op] = part[op]
      /\ \A op \in Operations \ (new \cap Common) : extra[op] = 0
      /\ new \cap Common \in SUBSET Operations
  BY <1>1, <1>5 DEF Common
<1>10. SumFunction(part) = SumFunction(extra)
  <2> HIDE DEF part, extra
  <2>1. QED
    BY <1>9, TestingBudgetAssumption, SumOfPart
<1>11. \A op \in Common : Owed(op)' = sums[op]
  <2> SUFFICES ASSUME NEW op \in Common PROVE Owed(op)' = sums[op]
    OBVIOUS
  <2>1. op \in Operations /\ ~Creator(op) /\ OwedBy[op] = Owed(op) /\ Owed(op) \in Nat
    BY OwedIsNat DEF Common, OwedBy, KInv
  <2>2. CASE op \in new
    <3>0. extra[op] = Asked(op) /\ Asked(op) \in Nat
      BY <1>5, <2>1, <2>2
    <3>1. Owed(op) = 0 /\ Owed(op)' = Asked(op)
      BY <1>3, <1>5, <2>2 DEF Owed
    <3> HIDE DEF extra
    <3>2. QED
      BY <2>1, <3>0, <3>1
  <2>3. CASE op \notin new
    <3>1. Owed(op)' = Owed(op) /\ extra[op] = 0
      BY <1>4, <2>1, <2>3 DEF Owed
    <3> HIDE DEF extra
    <3>2. QED
      BY <2>1, <3>1
  <2>4. QED
    BY <2>2, <2>3
<1>12. \A op \in Operations \ Common : sums[op] = 0
  BY <1>9 DEF Common, OwedBy
<1>13. sums \in [Operations -> Int]
  <2> HIDE DEF extra
  <2>1. QED
    BY <1>8, <1>9
<1>14. after \in [Common -> Int] /\ Common \in SUBSET Operations /\ \A op \in Common : sums[op] = after[op]
  <2> HIDE DEF sums
  <2>1. QED
    BY <1>11, <1>13 DEF Common
<1>15. SumFunction(after) = SumFunction(sums)
  <2> HIDE DEF after, sums
  <2>1. QED
    BY <1>12, <1>13, <1>14, TestingBudgetAssumption, SumOfPart
<1>16. SumFunction(sums) = SumFunction(OwedBy) + SumFunction(extra)
  <2> HIDE DEF extra
  <2>1. QED
    BY <1>8, <1>9, TestingBudgetAssumption, SumAdds
<1>17. /\ SumFunction(OwedBy) \in Int /\ SumFunction(extra) \in Int /\ Cap \in Nat
       /\ SumFunction(extra) <= Cap - Total
  <2>1. SumFunction(part) <= Cap - Total
    BY <1>2
  <2> HIDE DEF extra, part
  <2>2. QED
    BY <1>8, <1>9, <1>10, <2>1, TestingBudgetAssumption, SumIsInt
<1>18. SumFunction(after) <= Cap
  <2> HIDE DEF after, sums, extra, part
  <2>1. QED
    BY <1>8, <1>15, <1>16, <1>17
<1>19. [op \in Common |-> Owed(op)]' = after
  BY <1>2 DEF Common, Creator
<1>20. WithinCap'
  <2> HIDE DEF after, sums, extra, part
  <2>1. SumFunction([op \in Common |-> Owed(op)])' <= Cap
    BY <1>18, <1>19
  <2>2. SumFunction([op \in Common |-> Owed(op)])' \in Int /\ Cap \in Int
    <3>1. SumFunction(after) \in Int
      BY <1>8, <1>15, <1>16, <1>17
    <3>2. QED
      BY <1>19, <3>1, TestingBudgetAssumption
  <2>3. QED
    BY <2>1, <2>2 DEF WithinCap
<1>21. QED
  BY <1>6, <1>7, <1>20

\* What is begun was owed already.
LEMMA BegunFits ==
  ASSUME KInv, NEW ops \in SUBSET Operations, NEW by, Begun(ops, by), UNCHANGED pay
  PROVE  CostsAreNumbers' /\ Evidence' /\ CreatorsCovered' /\ WithinCap'
<1>1. /\ \A op \in ops : expense[op].state = "reserved"
      /\ expense' = [op \in Operations |->
           IF op \in ops THEN [expense[op] EXCEPT !.state = "unresolved"] ELSE expense[op]]
      /\ UNCHANGED <<authorized, reason, incidents>>
  BY DEF Begun
<1>2. ASSUME NEW op \in Operations
      PROVE  /\ expense'[op].max = expense[op].max /\ expense'[op].actual = expense[op].actual
             /\ expense'[op].proof = expense[op].proof
             /\ \/ expense'[op].state = expense[op].state
                \/ expense[op].state = "reserved" /\ expense'[op].state = "unresolved"
  <2>1. IsExpense(expense[op])
    BY DEF KInv, BInv, Executed
  <2>2. CASE op \in ops
    <3>1. expense'[op] = [expense[op] EXCEPT !.state = "unresolved"]
      BY <1>1, <2>2
    <3>2. QED
      BY <1>1, <2>1, <2>2, <3>1 DEF IsExpense
  <2>3. CASE op \notin ops
    BY <1>1, <2>3
  <2>4. QED
    BY <2>2, <2>3
<1>3. CostsAreNumbers' /\ Evidence'
  BY <1>2, CostsStand DEF KInv, CostsAreNumbers, Evidence
<1>4. CreatorsCovered'
  BY <1>1, <1>2, CoverStands DEF KInv
<1>5. Overruns' = Overruns
  BY <1>2 DEF Overruns
<1>6. \A op \in Operations : Owed(op)' <= Owed(op)
  <2> SUFFICES ASSUME NEW op \in Operations PROVE Owed(op)' <= Owed(op)
    OBVIOUS
  <2>1. Owed(op)' = Owed(op) /\ Owed(op) \in Nat
    BY <1>2, OwedIsNat DEF Owed, KInv
  <2>2. QED
    BY <2>1
<1>7. WithinCap'
  BY <1>1, <1>3, <1>5, <1>6, OwedStays DEF KInv
<1>8. QED
  BY <1>3, <1>4, <1>7

\* A known cost may exceed its ceiling, which freezes the budget.
LEMMA SettledFits ==
  ASSUME KInv, NEW op \in Operations, NEW actual \in Actuals, NEW id \in Proofs,
         Settle(op, actual, id) \/ ReconcileObservedCost(op, actual, id)
  PROVE  CostsAreNumbers' /\ Evidence' /\ CreatorsCovered' /\ WithinCap'
<1>1. /\ expense = [o \in Operations |-> expense[o]] /\ IsExpense(expense[op])
      /\ reason \in {None, "overrun", "policy"} /\ incidents \in Seq({"policy"})
      /\ None \notin {"overrun", "policy"}
  BY TestingBudgetAssumption DEF KInv, BInv, Executed, Freezes
<1>2. PICK s, m, a, p : expense[op] = [state |-> s, max |-> m, actual |-> a, proof |-> p]
  BY <1>1 DEF IsExpense
<1>3. /\ expense[op].max = m /\ expense[op].state = s /\ m \in Nat
      /\ actual \in Nat /\ <<op[1], id>> # None /\ Cap \in Nat
      /\ s = "none" => m = 0
  BY <1>2, TestingBudgetAssumption DEF KInv, CostsAreNumbers
<1>4. UNCHANGED <<pay, authorized>>
  BY DEF Settle, ReconcileObservedCost, vars
<1>5. CASE Settle(op, actual, id)
  <2>1. PICK e : e = [state |-> "settled", max |-> m, actual |-> actual, proof |-> <<op[1], id>>]
    OBVIOUS
  <2>2. /\ expense' = [expense EXCEPT ![op] = e] /\ s = "unresolved" /\ Free(e.proof)
        /\ reason' = (IF actual > m THEN Frozes("overrun") ELSE reason)
        /\ UNCHANGED incidents
    <3>1. Settled(expense[op], actual, <<op[1], id>>) = e
      BY <1>2, <2>1, SettledIs
    <3>2. expense' = [expense EXCEPT ![op] = Settled(expense[op], actual, <<op[1], id>>)]
      BY <1>1, <1>5 DEF Settle
    <3>3. e.proof = <<op[1], id>>
      BY <2>1
    <3>4. QED
      BY <1>3, <1>5, <3>1, <3>2, <3>3 DEF Settle
  <2>3. /\ e.state = "settled" /\ e.max = m /\ e.actual = actual /\ e.proof = <<op[1], id>>
    BY <2>1
  <2>4. /\ CostsAreNumbers' /\ Evidence' /\ CreatorsCovered'
        /\ Overruns \subseteq Overruns' /\ Owed(op)' = actual
        /\ \A o \in Operations \ {op} : Owed(o)' = Owed(o)
    BY <1>3, <1>4, <2>2, <2>3, OneCost
  <2>5. CASE actual > m
    <3>1. expense'[op] = e
      BY <1>1, <2>2
    <3>2. op \in Overruns'
      BY <2>3, <2>5, <3>1 DEF Overruns
    <3>3. reason' # None
      BY <1>1, <2>2, <2>5 DEF Frozes
    <3>4. QED
      BY <2>4, <3>2, <3>3 DEF WithinCap
  <2>6. CASE ~(actual > m)
    <3>1. Owed(op) = m
      BY <1>3, <2>2 DEF Owed
    <3>2. \A o \in Operations : Owed(o)' <= Owed(o)
      <4> SUFFICES ASSUME NEW o \in Operations PROVE Owed(o)' <= Owed(o)
        OBVIOUS
      <4>1. Owed(o) \in Nat
        BY OwedIsNat DEF KInv
      <4>2. QED
        BY <1>3, <2>4, <2>6, <3>1, <4>1
    <3>3. WithinCap'
      BY <1>4, <2>2, <2>4, <2>6, <3>2, OwedStays DEF KInv
    <3>4. QED
      BY <2>4, <3>3
  <2>7. QED
    BY <2>5, <2>6
<1>6. CASE ReconcileObservedCost(op, actual, id)
  <2>1. PICK max : max = IF s = "none" THEN Unreserved(op, actual) ELSE m
    OBVIOUS
  <2>2. PICK over : over = IF actual > max THEN Frozes("overrun") ELSE reason
    OBVIOUS
  <2>3. max \in Nat /\ (max = m \/ (Creator(op) => max <= CeilingOf(op)))
    <3>1. Creator(op) => CeilingOf(op) \in Nat
      BY AskedIsNat
    <3>2. CASE s = "none" /\ Creator(op)
      BY <2>1, <3>1, <3>2 DEF Unreserved
    <3>3. CASE s = "none" /\ ~Creator(op)
      BY <1>3, <2>1, <3>3 DEF Unreserved
    <3>4. CASE s # "none"
      BY <1>3, <2>1, <3>4
    <3>5. QED
      BY <3>2, <3>3, <3>4
  <2>4. PICK e : e = [state |-> "settled", max |-> max, actual |-> actual, proof |-> <<op[1], id>>]
    OBVIOUS
  <2>5. /\ expense' = [expense EXCEPT ![op] = e] /\ s \in {"none", "reserved", "unresolved"}
        /\ Free(e.proof)
        /\ IF Total' > Cap
           THEN /\ reason' = IF over = None THEN "policy" ELSE over
                /\ incidents' = Append(incidents, "policy")
           ELSE reason' = over /\ UNCHANGED incidents
    <3>1. [expense[op] EXCEPT !.max = max] = [state |-> s, max |-> max, actual |-> a, proof |-> p]
      BY <1>2
    <3>2. Settled([expense[op] EXCEPT !.max = max], actual, <<op[1], id>>) = e
      BY <2>4, <3>1, SettledIs
    <3>3. expense' = [expense EXCEPT ![op] =
            Settled([expense[op] EXCEPT !.max = max], actual, <<op[1], id>>)]
      BY <1>1, <1>3, <1>6, <2>1 DEF ReconcileObservedCost
    <3>4. e.proof = <<op[1], id>>
      BY <2>4
    <3>5. /\ s \in {"none", "reserved", "unresolved"} /\ Free(<<op[1], id>>)
          /\ IF Total' > Cap
             THEN /\ reason' = IF over = None THEN "policy" ELSE over
                  /\ incidents' = Append(incidents, "policy")
             ELSE reason' = over /\ UNCHANGED incidents
      BY <1>3, <1>6, <2>1, <2>2 DEF ReconcileObservedCost
    <3>6. QED
      BY <3>2, <3>3, <3>4, <3>5
  <2>6. /\ e.state = "settled" /\ e.max = max /\ e.actual = actual /\ e.proof = <<op[1], id>>
    BY <2>4
  <2>7. CostsAreNumbers' /\ Evidence' /\ CreatorsCovered'
    BY <1>3, <1>4, <2>3, <2>5, <2>6, OneCost
  <2>8. Total = SumFunction([o \in Common |-> Owed(o)])
    BY DEF Total, Allocated, Owed
  <2>9. Total' = SumFunction([o \in Common |-> Owed(o)])'
    BY DEF Total, Allocated, Owed
  <2>10. WithinCap'
    <3>1. CASE Total' > Cap
      <4>1. incidents' # <<>>
        BY <1>1, <2>5, <3>1
      <4>2. reason' # None
        BY <1>1, <2>5, <3>1
      <4>3. QED
        BY <4>1, <4>2 DEF WithinCap
    <3>2. CASE ~(Total' > Cap)
      BY <2>9, <3>2 DEF WithinCap
    <3>3. QED
      BY <3>1, <3>2
  <2>11. QED
    BY <2>7, <2>10
<1>7. QED
  BY <1>5, <1>6

\* A cost that is dropped is owed no more.
LEMMA DroppedFits ==
  ASSUME KInv, NEW op \in Operations, NEW id,
         CancelBeforeExecution(op) \/ (id \in Proofs /\ ReleaseNoSpend(op, id))
  PROVE  CostsAreNumbers' /\ Evidence' /\ CreatorsCovered' /\ WithinCap'
<1>1. PICK s, m, a, p : expense[op] = [state |-> s, max |-> m, actual |-> a, proof |-> p]
  BY DEF KInv, BInv, Executed, IsExpense
<1>2. /\ UNCHANGED <<pay, authorized, reason, incidents>>
      /\ expense = [o \in Operations |-> expense[o]]
  BY DEF CancelBeforeExecution, ReleaseNoSpend, vars, KInv, BInv, Executed
<1>3. /\ expense[op].max = m /\ expense[op].state = s /\ expense[op].proof = p
      /\ expense[op].actual = a /\ m \in Nat /\ a \in Nat
      /\ id \in Proofs => <<"no_spend", id>> # None
      /\ s \in {"settled", "released"} <=> p # None
  BY <1>1, TestingBudgetAssumption DEF KInv, CostsAreNumbers, Evidence
<1>4. PICK e : /\ expense' = [expense EXCEPT ![op] = e]
               /\ e.max = m /\ e.actual = a
               /\ \/ s = "reserved" /\ e.state = "cancelled" /\ e.proof = p
                  \/ /\ s = "unresolved" /\ e.state = "released"
                     /\ id \in Proofs /\ e.proof = <<"no_spend", id>> /\ Free(e.proof)
  <2>1. CASE CancelBeforeExecution(op)
    <3>1. PICK e : e = [expense[op] EXCEPT !.state = "cancelled"]
      OBVIOUS
    <3>2. expense' = [expense EXCEPT ![op] = e] /\ s = "reserved"
      BY <1>2, <1>3, <2>1, <3>1 DEF CancelBeforeExecution
    <3>3. e.max = m /\ e.actual = a /\ e.state = "cancelled" /\ e.proof = p
      BY <1>1, <3>1
    <3>4. QED
      BY <3>2, <3>3
  <2>2. CASE id \in Proofs /\ ReleaseNoSpend(op, id)
    <3>1. PICK k : k = [expense[op] EXCEPT !.state = "released"]
      OBVIOUS
    <3>2. PICK e : e = [k EXCEPT !.proof = <<"no_spend", id>>]
      OBVIOUS
    <3>3. expense' = [expense EXCEPT ![op] = e] /\ s = "unresolved" /\ Free(<<"no_spend", id>>)
      BY <1>2, <1>3, <2>2, <3>1, <3>2 DEF ReleaseNoSpend
    <3>4. k = [state |-> "released", max |-> m, actual |-> a, proof |-> p]
      BY <1>1, <3>1
    <3>5. e.max = m /\ e.actual = a /\ e.state = "released" /\ e.proof = <<"no_spend", id>>
      BY <3>2, <3>4
    <3>6. QED
      BY <2>2, <3>3, <3>5
  <2>3. QED
    BY <2>1, <2>2
<1>5. /\ CostsAreNumbers' /\ Evidence' /\ CreatorsCovered'
      /\ Overruns \subseteq Overruns' /\ Owed(op)' = 0
      /\ \A o \in Operations \ {op} : Owed(o)' = Owed(o)
  BY <1>2, <1>3, <1>4, OneCost
<1>6. \A o \in Operations : Owed(o)' <= Owed(o)
  <2> SUFFICES ASSUME NEW o \in Operations PROVE Owed(o)' <= Owed(o)
    OBVIOUS
  <2>1. Owed(o) \in Nat
    BY OwedIsNat DEF KInv
  <2>2. QED
    BY <1>5, <2>1
<1>7. WithinCap'
  BY <1>2, <1>5, <1>6, OwedStays DEF KInv
<1>8. QED
  BY <1>5, <1>7

\* A payment that is authorized takes its costs out of the cap.
LEMMA AuthorizeFits ==
  ASSUME KInv, NEW p \in Payments, NEW by, AuthorizeCreatorPayment(p, by)
  PROVE  CostsAreNumbers' /\ Evidence' /\ CreatorsCovered' /\ WithinCap'
<1>1. /\ UNCHANGED <<pay, expense, reason, incidents>> /\ authorized' = authorized \cup {p}
      /\ CreatorPayment(p) /\ Untouched(p) /\ \A op \in Group(p) : expense[op].state = "none"
  BY DEF AuthorizeCreatorPayment, vars
<1>2. CostsAreNumbers' /\ Evidence'
  BY <1>1 DEF KInv, CostsAreNumbers, Evidence
<1>3. pay[p].plan \in Plans /\ pay[p].status \notin Unfunded
  <2>1. pay[p].plan # None /\ pay[p].plan \in Plans \cup {None}
    BY <1>1 DEF CreatorPayment, KInv, IInv, Kept, WellFormed
  <2>2. QED
    BY <2>1 DEF KInv, Unplanned
<1>4. ASSUME NEW op \in Group(p) PROVE expense[op].max <= CeilingOf(op)
  <2>1. op \in Operations /\ op[2] = p
    BY DEF Group
  <2>2. expense[op].max = 0
    BY <1>1, <2>1 DEF KInv, CostsAreNumbers
  <2>3. CeilingOf(op) \in Nat
    BY <1>3, <2>1, CeilingIsNat
  <2>4. QED
    BY <2>2, <2>3
<1>5. ASSUME NEW q \in authorized'
      PROVE  /\ q \in Payments /\ pay[q].plan \in Plans /\ pay[q].status \notin Unfunded
             /\ pay[q].plan.gift + pay[q].plan.gas + pay[q].plan.conv <= pay[q].budget
             /\ \A op \in Group(q) : expense[op].max <= CeilingOf(op)
  <2>1. CASE q \in authorized
    BY <2>1 DEF KInv, CreatorsCovered
  <2>2. CASE q = p
    BY <1>1, <1>3, <1>4, <2>2 DEF CreatorPayment
  <2>3. QED
    BY <1>1, <2>1, <2>2
<1>6. \A op \in Operations : CeilingOf(op)' = CeilingOf(op)
  BY <1>1 DEF CeilingOf
<1>7. CreatorsCovered'
  <2>1. \A q : Group(q)' = Group(q) /\ Group(q) \subseteq Operations
    BY DEF Group
  <2>2. QED
    BY <1>1, <1>5, <1>6, <2>1 DEF CreatorsCovered
<1>8. \A op \in Operations : Owed(op)' <= Owed(op)
  <2> SUFFICES ASSUME NEW op \in Operations PROVE Owed(op)' <= Owed(op)
    OBVIOUS
  <2>1. Owed(op)' = Owed(op) /\ Owed(op) \in Nat
    BY <1>1, OwedIsNat DEF Owed, KInv
  <2>2. QED
    BY <2>1
<1>9. Overruns' = Overruns
  BY <1>1 DEF Overruns
<1>10. WithinCap'
  BY <1>1, <1>2, <1>8, <1>9, OwedStays DEF KInv
<1>11. QED
  BY <1>2, <1>7, <1>10

\* The rest leaves the amounts alone; an incident only adds to what was there.
LEMMA QuietFits ==
  ASSUME KInv, UNCHANGED <<expense, authorized>>, CreatorsCovered',
         reason # None => reason' # None, incidents # <<>> => incidents' # <<>>
  PROVE  CostsAreNumbers' /\ Evidence' /\ CreatorsCovered' /\ WithinCap'
<1>1. CostsAreNumbers' /\ Evidence'
  BY DEF KInv, CostsAreNumbers, Evidence
<1>2. \A op \in Operations : Owed(op)' <= Owed(op)
  <2> SUFFICES ASSUME NEW op \in Operations PROVE Owed(op)' <= Owed(op)
    OBVIOUS
  <2>1. Owed(op)' = Owed(op) /\ Owed(op) \in Nat
    BY OwedIsNat DEF Owed, KInv
  <2>2. QED
    BY <2>1
<1>3. Overruns' = Overruns
  BY DEF Overruns
<1>4. WithinCap'
  BY <1>1, <1>2, <1>3, OwedStays DEF KInv
<1>5. QED
  BY <1>1, <1>4

\* Nothing that covers a payment's costs has changed.
LEMMA CoverSame ==
  ASSUME CreatorsCovered, UNCHANGED <<pay, expense, authorized>>
  PROVE  CreatorsCovered'
BY CoverStands

\* Nothing is owed at first.
LEMMA InitKInv == BudgetInit => KInv
<1> SUFFICES ASSUME BudgetInit PROVE KInv
  OBVIOUS
<1>1. IInv /\ BInv
  BY InvInit, InitBInv DEF BudgetInit
<1>2. /\ \A op \in Operations : expense[op] = NoExpense
      /\ authorized = {} /\ \A p \in Payments : pay[p] = NoPayment
  BY DEF BudgetInit, Init
<1>3. CostsAreNumbers /\ Evidence /\ CreatorsCovered /\ Unplanned
  BY <1>2 DEF CostsAreNumbers, Evidence, CreatorsCovered, Unplanned, NoExpense, NoPayment
<1>4. WithinCap
  <2>1. OwedBy \in [Operations -> Int] /\ SumFunction([op \in Common |-> Owed(op)]) = SumFunction(OwedBy)
    BY <1>3, TotalIsOwed
  <2>2. \A op \in Operations : OwedBy[op] = 0
    BY <1>2 DEF OwedBy, Owed, NoExpense
  <2>3. SumFunction(OwedBy) = 0
    BY <2>1, <2>2, TestingBudgetAssumption, SumOfZeros
  <2>4. QED
    BY <2>1, <2>3, TestingBudgetAssumption DEF WithinCap
<1>5. QED
  BY <1>1, <1>3, <1>4 DEF KInv

\* Every operation of the budget keeps its amounts.
LEMMA BudgetFits ==
  ASSUME KInv, BudgetNext
  PROVE  CostsAreNumbers' /\ Evidence' /\ CreatorsCovered' /\ WithinCap'
<1> DEFINE Fit == (CostsAreNumbers /\ Evidence /\ CreatorsCovered /\ WithinCap)'
<1>0. UNCHANGED pay
  BY LedgerStays DEF vars
<1>a. CreatorsCovered
  BY DEF KInv
<1>1. ASSUME NEW by \in Payments \cup {None}, NEW p \in Payments,
             \/ AuthorizeCreatorPayment(p, by)
             \/ ReserveMany(Group(p), by)
             \/ BeginMany({op \in Group(p) : op[1] # "gift"}, by)
      PROVE  Fit
  <2>1. Group(p) \in SUBSET Operations /\ {op \in Group(p) : op[1] # "gift"} \in SUBSET Operations
    BY DEF Group
  <2>2. QED
    BY <1>0, <1>1, <2>1, AuthorizeFits, ReservedFits, BegunFits DEF ReserveMany, BeginMany
<1>2. ASSUME NEW by \in Payments \cup {None}, NEW op \in Operations,
             ReserveMany({op}, by) \/ BeginMany({op}, by)
      PROVE  Fit
  <2>1. {op} \in SUBSET Operations
    OBVIOUS
  <2>2. QED
    BY <1>0, <1>2, <2>1, ReservedFits, BegunFits DEF ReserveMany, BeginMany
<1>3. ASSUME NEW op \in Operations, NEW actual \in Actuals, NEW id \in Proofs,
             Settle(op, actual, id) \/ ReconcileObservedCost(op, actual, id)
      PROVE  Fit
  BY <1>3, SettledFits
<1>4. ASSUME NEW op \in Operations, NEW id \in Proofs, ReleaseNoSpend(op, id)
      PROVE  Fit
  BY <1>4, DroppedFits
<1>5. ASSUME NEW op \in Operations, CancelBeforeExecution(op)
      PROVE  Fit
  BY <1>5, DroppedFits
<1>6. CASE Freeze("policy")
  <2>1. UNCHANGED <<pay, expense, authorized>> /\ reason' = Frozes("policy")
        /\ incidents' = Append(incidents, "policy")
    BY <1>0, <1>6 DEF Freeze
  <2>2. incidents' # <<>> /\ reason' # None
    BY <2>1, TestingBudgetAssumption DEF Frozes, KInv, BInv, Freezes
  <2>3. QED
    BY <1>a, <2>1, <2>2, CoverSame, QuietFits
<1>7. CASE GlobalRecoveryChallenge \/ ApproveGlobalRecovery
  BY <1>0, <1>a, <1>7, CoverSame, QuietFits DEF GlobalRecoveryChallenge, ApproveGlobalRecovery
<1>8. ASSUME NEW p \in Payments, ApproveFundingRecovery(p) \/ Expires(p)
      PROVE  Fit
  BY <1>0, <1>a, <1>8, CoverSame, QuietFits DEF ApproveFundingRecovery, Expires
<1>9. QED
  BY <1>1, <1>2, <1>3, <1>4, <1>5, <1>6, <1>7, <1>8 DEF BudgetNext

\* So does the browser provider.
LEMMA GateFits ==
  ASSUME KInv, BrowserNext
  PROVE  CostsAreNumbers' /\ Evidence' /\ CreatorsCovered' /\ WithinCap'
<1>0. UNCHANGED pay
  BY LedgerStays DEF vars
<1>1. PICK c \in Callers :
        \/ \E a \in Attempts : GateReserves(c, a)
        \/ GateLooks(c) \/ GateBegins(c) \/ CreatesSession(c) \/ GateEnds(c)
  BY DEF BrowserNext
<1>2. CASE UNCHANGED budget
  BY <1>0, <1>2, CoverSame, QuietFits DEF budget, KInv
<1>3. CASE \E a \in Attempts : Reserved({Session(a)}, None)
  <2>1. \A a \in Attempts : {Session(a)} \in SUBSET Operations
    BY SessionOf
  <2>2. QED
    BY <1>0, <1>3, <2>1, ReservedFits
<1>4. CASE GateBegins(c)
  <2>1. {Session(caller[c].a)} \in SUBSET Operations
    <3>1. caller[c].a \in Attempts
      BY <1>4 DEF GateBegins, KInv, BInv, Requests
    <3>2. QED
      BY <3>1, SessionOf
  <2>2. QED
    BY <1>0, <1>4, <2>1, BegunFits DEF GateBegins
<1>5. QED
  BY <1>1, <1>2, <1>3, <1>4 DEF GateReserves, GateLooks, CreatesSession, GateEnds

\* Every step of the ledger, the budget and the provider keeps the invariant.
LEMMA KInvStep == KInv /\ [Together]_<<vars, budget, browser>> => KInv'
<1> SUFFICES ASSUME KInv, [Together]_<<vars, budget, browser>> PROVE KInv'
  OBVIOUS
<1>1. BInv'
  BY BudgetInductive DEF KInv
<1>2. CASE Next /\ UNCHANGED <<budget, browser>>
  <2>1. IInv' /\ Unplanned'
    BY <1>2, InvStep, UnplannedStays DEF KInv
  <2>2. CreatorsCovered'
    BY <1>2, LedgerCovers
  <2>3. UNCHANGED <<expense, authorized, reason, incidents>>
    BY <1>2 DEF budget
  <2>4. QED
    BY <1>1, <2>1, <2>2, <2>3, QuietFits DEF KInv
<1>3. CASE UNCHANGED <<vars, budget, browser>>
  <2>1. IInv'
    BY <1>3, InvStep DEF KInv
  <2>2. UNCHANGED <<pay, expense, authorized, reason, incidents>>
    BY <1>3 DEF vars, budget
  <2>3. Unplanned'
    BY <2>2 DEF KInv, Unplanned
  <2>4. QED
    BY <1>1, <2>1, <2>2, <2>3, CoverSame, QuietFits DEF KInv
<1>4. CASE BudgetNext \/ BrowserNext
  <2>1. UNCHANGED vars /\ UNCHANGED pay
    BY <1>4, LedgerStays DEF vars
  <2>2. IInv'
    BY <2>1, InvStep DEF KInv
  <2>3. Unplanned'
    BY <2>1 DEF KInv, Unplanned
  <2>4. QED
    BY <1>1, <1>4, <2>2, <2>3, BudgetFits, GateFits DEF KInv
<1>5. QED
  BY <1>2, <1>3, <1>4 DEF Together

\* The three costs of an authorized payment stay within its budget together.
LEMMA CostsAreCovered ==
  ASSUME KInv, NEW p \in authorized
  PROVE  SumFunction([op \in Group(p) |-> expense[op].max]) <= pay[p].budget
<1> DEFINE gift == <<"gift", p>>
           gas == <<"chain_fee", p>>
           conv == <<"offramp_fee", p>>
           all == {gift, gas, conv}
           most == [op \in all |-> IF op \in Operations THEN expense[op].max ELSE 0]
           part == [op \in Group(p) |-> expense[op].max]
<1>1. PICK n : /\ n = pay[p].plan /\ n.gift \in Nat /\ n.gas \in Nat /\ n.conv \in Nat
               /\ n.gift + n.gas + n.conv <= pay[p].budget
  BY LedgerAssumption DEF KInv, CreatorsCovered
<1>2. pay[p].budget \in Nat
  BY DEF KInv, CreatorsCovered, IInv, Kept, WellFormed
<1>3. Group(p) \in SUBSET all /\ Group(p) \in SUBSET Operations
      /\ \A op \in all : op \in Operations => op \in Group(p)
  BY TestingBudgetAssumption DEF Group, CreatorKinds
<1>4. \A op \in Operations : expense[op].max \in Nat
  BY DEF KInv, CostsAreNumbers
<1>5. \A op \in Group(p) : expense[op].max <= CeilingOf(op)
  BY DEF KInv, CreatorsCovered
<1>6. /\ gift \in Group(p) => CeilingOf(gift) = n.gift
      /\ gas \in Group(p) => CeilingOf(gas) = n.gas
      /\ conv \in Group(p) => CeilingOf(conv) = n.conv
  BY <1>1 DEF CeilingOf
<1>7. most[gift] <= n.gift /\ most[gas] <= n.gas /\ most[conv] <= n.conv
  BY <1>1, <1>3, <1>4, <1>5, <1>6
<1>8. /\ most \in [all -> Int] /\ part \in [Group(p) -> Int]
      /\ \A op \in Group(p) : most[op] = part[op]
      /\ \A op \in all \ Group(p) : most[op] = 0
  BY <1>3, <1>4
<1>9. gift # gas /\ gift # conv /\ gas # conv
  OBVIOUS
<1> HIDE DEF gift, gas, conv, part, most
<1>10. IsFiniteSet(all)
  <2>1. IsFiniteSet({gift}) /\ IsFiniteSet({gift} \cup {gas})
    BY FS_Singleton, FS_AddElement
  <2>2. IsFiniteSet(({gift} \cup {gas}) \cup {conv})
    BY <2>1, FS_AddElement
  <2>3. all = ({gift} \cup {gas}) \cup {conv}
    OBVIOUS
  <2>4. QED
    BY <2>2, <2>3
<1>11. SumFunction(part) = SumFunction(most)
  <2> HIDE DEF all
  <2>1. QED
    BY <1>3, <1>8, <1>10, SumOfPart
<1>12. SumFunction(most) = most[gift] + most[gas] + most[conv]
  <2>1. PICK T : T = {gift}
    OBVIOUS
  <2>2. PICK U : U = {gift, gas}
    OBVIOUS
  <2>a. gift \in all /\ gas \in all /\ conv \in all /\ all = {gift, gas, conv}
    OBVIOUS
  <2> HIDE DEF all
  <2>3. /\ {} \in SUBSET all /\ gift \in all \ {} /\ T = {} \cup {gift}
        /\ T \in SUBSET all /\ gas \in all \ T /\ U = T \cup {gas}
        /\ U \in SUBSET all /\ conv \in all \ U /\ all = U \cup {conv}
    BY <1>9, <2>a, <2>1, <2>2
  <2>4. /\ Net(most, {}) = 0
        /\ \A V \in SUBSET all : Net(most, V) \in Int
        /\ \A V \in SUBSET all : \A op \in all \ V : Net(most, V \cup {op}) = Net(most, V) + most[op]
    BY <1>8, <1>10, NetGrows
  <2>5. Net(most, T) = Net(most, {}) + most[gift]
    BY <2>3, <2>4
  <2>6. Net(most, U) = Net(most, T) + most[gas]
    BY <2>3, <2>4
  <2>7. Net(most, all) = Net(most, U) + most[conv]
    BY <2>3, <2>4
  <2>8. SumFunction(most) = Net(most, all)
    BY <1>8, <1>10, SumIsNet
  <2>9. most[gift] \in Int /\ most[gas] \in Int /\ most[conv] \in Int
    BY <1>8, <2>3
  <2>10. QED
    BY <2>4, <2>5, <2>6, <2>7, <2>8, <2>9
<1>13. most[gift] \in Int /\ most[gas] \in Int /\ most[conv] \in Int
  BY <1>8
<1>14. SumFunction(part) <= pay[p].budget
  BY <1>1, <1>2, <1>7, <1>11, <1>12, <1>13
<1>15. QED
  BY <1>14 DEF part

\* testing-budget.ts:1007, 1125, 1303: what may still be charged fits under the cap,
\* or the budget is frozen and says why; what was promised for a creator's payment
\* fits its budget; and a receipt or an invoice is the evidence of one operation.
THEOREM BudgetIsKept == TogetherSpec => []Budgeted
<1>1. KInv => Budgeted
  <2> SUFFICES ASSUME KInv PROVE Budgeted
    OBVIOUS
  <2>1. BudgetTypeOK
    <3>1. ASSUME NEW op \in Operations PROVE executed[op] = 1 => Tried(op)
      BY DEF KInv, BInv, Executed, IsExpense, Untried, Tried, States
    <3>2. \A op \in Operations : expense[op].state \in States
      BY DEF KInv, BInv, Executed, IsExpense
    <3>3. QED
      BY <3>1, <3>2 DEF KInv, BInv, Freezes, Evidence, CreatorsCovered, BudgetTypeOK
  <2>2. CreatorsPay
    BY CostsAreCovered DEF CreatorsPay, KInv, Evidence
  <2>3. QED
    BY <2>1, <2>2 DEF KInv, Budgeted
<1>2. QED
  BY <1>1, InitKInv, KInvStep, PTL DEF TogetherSpec

-----------------------------------------------------------------------------
\* The ledger's solvency.  A balance is a sum over all payments, to which a row and its
\* entries contribute the following.

\* A native reservation holds the SOL of its plan at the cost it saw.
Pins(r) == r.plan # None /\ ~r.funded /\ ~r.failed /\ r.status # "cancelled"

LamportsIn(t, r) ==
  IF r.token # t THEN 0
  ELSE -(r.sol + r.gas) - (IF Pins(r) THEN r.plan.amount + r.plan.maxFee ELSE 0)
BasisIn(t, r) ==
  IF r.token # t THEN 0
  ELSE -(r.basis + (IF r.gas > 0 THEN r.net ELSE 0)) - (IF Pins(r) THEN r.pinned ELSE 0)
CentsIn(t, r, l) == IF r.token # t THEN 0 ELSE l.available

\* What a reservation saw: the SOL it holds was there, and was worth the budget.
Planned(r) ==
  r.plan # None =>
    /\ r.lamports > 0 /\ r.plan.amount + r.plan.maxFee <= r.lamports
    /\ r.pinned = Quotient(r.from * (r.plan.amount + r.plan.maxFee), r.lamports)
    /\ r.pinned <= r.budget

\* What was sent cost no more than the budget, as far as the ledger could see.
InBudget(r) == r.funded /\ ~r.over /\ (r.plan # None => r.from >= 0) => r.basis + r.net <= r.budget

\* What the journal has taken from the token for a payment.
Taken(r) ==
  CASE r.status = "none" -> 0
    [] r.status = "completed" -> r.basis + r.net
    [] r.status = "cancelled" -> r.basis
    [] OTHER -> r.budget

\* A payment's row, and its entry in what is available.
Sound(r, l) ==
  /\ Typed(r)
  /\ l.available + Taken(r) = 0
  /\ Planned(r) /\ InBudget(r)
  /\ r.status \in Unfunded => r.plan = None
  /\ r.status # "none" => r.token # None
  /\ r.failed => r.status = "cancelled" /\ ~r.funded
  /\ ~r.funded => r.sol = 0 /\ r.net = 0
  /\ ~r.funded /\ ~r.failed => r.gas = 0 /\ r.basis = 0 /\ ~r.over
  /\ r.gas = 0 => r.net >= 0

\* A token none of whose payments overran its ceiling has what it promised.
Covers(t) ==
  /\ \A p \in Of(t) : pay[p].plan # None => pay[p].from >= 0
  /\ AvailableLamports(t) >= 0 /\ AvailableBasis(t) >= 0 /\ AvailableCents(t) >= 0

\* Every such token.
AllCovered == \A t \in Tokens : NoOverrun(t) => Covers(t)

\* The tables of fees.
Tables ==
  /\ known \subseteq Tokens \cup Platform /\ costs \subseteq Costs
  /\ claims \subseteq Claims /\ IsFiniteSet(claims)

\* A receipt as it is kept: one that was reported, at the cost of its SOL.
IsReceipt(r) ==
  /\ \E q \in Receipts : r = [q EXCEPT !.basis = r.basis]
  /\ r.basis \in Int

\* A token's share, and where it is: nothing leaves a wallet that has received nothing.
ShareKept(t) ==
  (\A r \in ReceiptsOf(t) : ~r.verified) =>
    /\ Buyback(t) >= 0 /\ BuybackCents(t) >= 0 /\ AtCreator(t) >= 0
    /\ (\A r \in ReceiptsOf(t) : r.kind # "Transfer") =>
         \A r \in ReceiptsOf(t) : Central(r) => r.moved = 0 /\ r.consumed = 0
    /\ (\A r \in ReceiptsOf(t) : r.kind = "Transfer" => r.consumed <= r.moved)
         => \A q \in Receipts : CentralOf(t, {r \in receipts : r.wallet = q.wallet}) >= 0

\* Every kept receipt is one, and every token's share is kept.
TreasuryKept ==
  /\ IsFiniteSet(receipts) /\ \A r \in receipts : IsReceipt(r)
  /\ \A t \in Tokens \cup Platform : ShareKept(t)

\* What is inductive: books, tables, rows, balances and shares.
SInv ==
  /\ IInv /\ Tables
  /\ \A p \in Payments : Sound(pay[p], led[p])
  /\ AllCovered
  /\ TreasuryKept

-----------------------------------------------------------------------------
\* Division.
LEMMA Division ==
  ASSUME NEW a \in Int, NEW c \in Nat \ {0}
  PROVE  /\ a \div c \in Int
         /\ c * (a \div c) <= a
         /\ a < c * (a \div c) + c
OBVIOUS

\* Products grow with their factors.
LEMMA TimesGrows ==
  ASSUME NEW a \in Nat, NEW x \in Int, NEW y \in Int, x <= y
  PROVE  a * x <= a * y
OBVIOUS

\* Quotients grow with what is divided.
LEMMA DivisionGrows ==
  ASSUME NEW a \in Int, NEW b \in Int, a <= b, NEW c \in Nat \ {0}
  PROVE  a \div c <= b \div c
<1>1. PICK q \in Int, s \in Int : q = a \div c /\ s = b \div c
  BY Division
<1>2. c * q <= a /\ b < c * s + c
  BY <1>1, Division
<1>3. SUFFICES ASSUME q >= s + 1 PROVE FALSE
  BY <1>1
<1>4. c * (s + 1) <= c * q
  BY <1>3, TimesGrows
<1>5. c * (s + 1) = c * s + c
  OBVIOUS
<1>6. QED
  BY <1>2, <1>4, <1>5

\* A multiple divides exactly.
LEMMA DivisionOf ==
  ASSUME NEW a \in Int, NEW c \in Nat \ {0}
  PROVE  (a * c) \div c = a /\ 0 \div c = 0
<1>1. PICK q \in Int : q = (a * c) \div c /\ c * q <= a * c /\ a * c < c * q + c
  BY Division
<1>2. q = a
  <2>1. CASE q >= a + 1
    <3>1. c * (a + 1) <= c * q
      BY <2>1, TimesGrows
    <3>2. QED
      BY <1>1, <3>1
  <2>2. CASE q <= a - 1
    <3>1. c * q <= c * (a - 1)
      BY <2>2, TimesGrows
    <3>2. c * (a - 1) = a * c - c
      OBVIOUS
    <3>3. QED
      BY <1>1, <3>1, <3>2
  <2>3. QED
    BY <2>1, <2>2
<1>3. QED
  BY <1>1, <1>2

\* A part of an amount is at most the amount.
LEMMA PartOf ==
  ASSUME NEW a \in Nat, NEW c \in Nat, NEW d \in Nat \ {0}, c <= d
  PROVE  (a * c) \div d \in 0 .. a
<1>1. PICK x \in Int, y \in Int : x = a * c /\ y = a * d
  OBVIOUS
<1>2. 0 <= x /\ x <= y
  BY <1>1, TimesGrows
<1>3. 0 \div d <= x \div d /\ x \div d <= y \div d
  BY <1>2, DivisionGrows
<1>4. y \div d = a /\ 0 \div d = 0 /\ x \div d \in Int
  BY <1>1, DivisionOf, Division
<1>5. QED
  BY <1>1, <1>3, <1>4

\* BigInt division, whatever the signs.
LEMMA QuotientIsInt ==
  ASSUME NEW x \in Int, NEW y \in Int \ {0}
  PROVE  Quotient(x, y) \in Int
<1>1. \A a \in Nat, c \in Nat \ {0} : a \div c \in Int
  BY Division
<1>2. PICK a \in Nat : a = IF x < 0 THEN -x ELSE x
  OBVIOUS
<1>3. PICK c \in Nat \ {0} : c = IF y < 0 THEN -y ELSE y
  OBVIOUS
<1>4. Quotient(x, y) = IF (x < 0) = (y < 0) THEN a \div c ELSE -(a \div c)
  BY <1>2, <1>3 DEF Quotient
<1>5. QED
  BY <1>1, <1>4

\* Of numbers that are not negative it is the quotient.
LEMMA QuotientIs ==
  ASSUME NEW x \in Nat, NEW y \in Nat \ {0}
  PROVE  Quotient(x, y) = x \div y
BY DEF Quotient

\* It grows with what is divided.
LEMMA QuotientGrows ==
  ASSUME NEW x \in Nat, NEW z \in Nat, x <= z, NEW y \in Nat \ {0}
  PROVE  0 <= Quotient(x, y) /\ Quotient(x, y) <= Quotient(z, y)
<1>1. Quotient(x, y) = x \div y /\ Quotient(z, y) = z \div y
  BY QuotientIs
<1>2. 0 \div y <= x \div y /\ x \div y <= z \div y
  BY DivisionGrows
<1>3. QED
  BY <1>1, <1>2, DivisionOf

\* What a part of the SOL costs is at most what all of it costs.
LEMMA QuotientOfPart ==
  ASSUME NEW a \in Nat, NEW c \in Nat, NEW d \in Nat \ {0}, c <= d
  PROVE  Quotient(a * c, d) \in 0 .. a
<1>1. a * c \in Nat
  OBVIOUS
<1>2. QED
  BY <1>1, PartOf, QuotientIs

\* Each share of an amount is a part of it.
LEMMA SharesAreParts ==
  ASSUME NEW t, NEW x \in Nat
  PROVE  Share(x) \in 0 .. x /\ StreamerShare(t, x) \in 0 .. x
<1>1. Bps \in Nat /\ Bps <= 10000 /\ 10000 \in Nat \ {0}
  BY LedgerAssumption
<1>2. Share(x) \in 0 .. x
  <2>1. PICK d \in Nat \ {0} : d = 10000
    BY <1>1
  <2>2. (x * Bps) \div d \in 0 .. x
    BY <1>1, <2>1, PartOf
  <2>3. QED
    BY <2>1, <2>2 DEF Share
<1>3. QED
  BY <1>2 DEF StreamerShare

\* A sum with one summand more.
LEMMA SumOneMore ==
  ASSUME NEW S, IsFiniteSet(S), NEW x, x \notin S, NEW f \in [S -> Int],
         NEW g \in [S \cup {x} -> Int], \A y \in S : g[y] = f[y]
  PROVE  SumFunction(g) = SumFunction(f) + g[x]
<1>1. PICK R : R = S \cup {x}
  OBVIOUS
<1>2. IsFiniteSet(R) /\ S \in SUBSET R /\ x \in R \ S /\ g \in [R -> Int]
  BY <1>1, FS_AddElement
<1>3. Net(f, S) = Net(g, S)
  <2>1. Units(f, S) = Units(g, S)
    BY DEF Units, Column
  <2>2. \A y \in S : Minus(f)[y] = Minus(g)[y]
    BY DEF Minus
  <2>3. Units(Minus(f), S) = Units(Minus(g), S)
    BY <2>2 DEF Units, Column
  <2>4. QED
    BY <2>1, <2>3 DEF Net, Weight
<1>4. Net(g, S \cup {x}) = Net(g, S) + g[x]
  BY <1>2, NetGrows
<1>5. SumFunction(f) = Net(f, S) /\ SumFunction(g) = Net(g, S \cup {x})
  BY <1>1, <1>2, SumIsNet
<1>6. QED
  BY <1>3, <1>4, <1>5

\* The sum of differences.
Less(h, f, g, S) ==
  /\ f \in [S -> Int] /\ g \in [S -> Int] /\ h \in [S -> Int]
  /\ \A x \in S : h[x] = f[x] - g[x]

\* The sum of differences is the difference of the sums.
LEMMA SumTakes ==
  ASSUME NEW S, IsFiniteSet(S), NEW f, NEW g, NEW h, Less(h, f, g, S)
  PROVE  /\ SumFunction(h) = SumFunction(f) - SumFunction(g)
         /\ SumFunction(f) \in Int /\ SumFunction(g) \in Int
<1>1. f = [x \in S |-> h[x] + g[x]]
  <2>1. \A x \in S : f[x] = h[x] + g[x]
    BY DEF Less
  <2>2. f = [x \in S |-> f[x]]
    BY DEF Less
  <2>3. QED
    BY <2>1, <2>2
<1>2. SumFunction(f) = SumFunction(h) + SumFunction(g)
  BY <1>1, SumAdds DEF Less
<1>3. SumFunction(f) \in Int /\ SumFunction(g) \in Int /\ SumFunction(h) \in Int
  BY SumIsInt DEF Less
<1>4. QED
  BY <1>2, <1>3

-----------------------------------------------------------------------------
\* The tables' rows.
RowsFit == IInv /\ Tables /\ \A p \in Payments : Sound(pay[p], led[p])

\* What a token has earned.
EarnedLamports(t) == SumFunction([c \in ClaimsOf(t) |-> StreamerShare(t, c.lamports)])
EarnedCents(t) == SumFunction([c \in ClaimsOf(t) |-> StreamerShare(t, c.gross)])

\* What each payment contributes to the balances.
LamportsOf(t) == [p \in Payments |-> LamportsIn(t, pay[p])]
BasisFor(t) == [p \in Payments |-> BasisIn(t, pay[p])]
CentsOf(t) == [p \in Payments |-> CentsIn(t, pay[p], led[p])]

\* What a sound row contributes is a number.
LEMMA RowCounts ==
  ASSUME NEW r, NEW l, Kept(r, l), Sound(r, l), NEW t
  PROVE  /\ LamportsIn(t, r) \in Int /\ BasisIn(t, r) \in Int /\ CentsIn(t, r, l) \in Int
         /\ r.plan # None => r.plan.amount \in Nat /\ r.plan.maxFee \in Nat
         /\ r.sol \in Nat /\ r.gas \in Nat /\ r.basis \in Int /\ r.net \in Int /\ r.pinned \in Int
<1>1. /\ r.sol \in Nat /\ r.gas \in Nat /\ r.basis \in Int /\ r.net \in Int /\ r.pinned \in Int
      /\ r.plan \in Plans \cup {None} /\ l.available \in Int
  BY DEF Sound, Typed, Kept, Whole
<1>2. r.plan # None => r.plan.amount \in Nat /\ r.plan.maxFee \in Nat
  BY <1>1, LedgerAssumption
<1>3. LamportsIn(t, r) \in Int
  BY <1>1, <1>2 DEF LamportsIn, Pins
<1>4. BasisIn(t, r) \in Int /\ CentsIn(t, r, l) \in Int
  BY <1>1 DEF BasisIn, CentsIn
<1>5. QED
  BY <1>1, <1>2, <1>3, <1>4

\* The balances are sums over all payments.
SumsOf(t) ==
  /\ LamportsOf(t) \in [Payments -> Int] /\ BasisFor(t) \in [Payments -> Int]
  /\ CentsOf(t) \in [Payments -> Int]
  /\ EarnedLamports(t) \in Int /\ EarnedCents(t) \in Int
  /\ AvailableLamports(t) = EarnedLamports(t) + SumFunction(LamportsOf(t))
  /\ AvailableBasis(t) = EarnedCents(t) + SumFunction(BasisFor(t))
  /\ AvailableCents(t) = EarnedCents(t) + SumFunction(CentsOf(t))
BalancesAddUp == \A t \in Tokens : SumsOf(t)

\* The code's sums over a token's payments are sums over all payments.
LEMMA BalancesAre == RowsFit => BalancesAddUp
<1> SUFFICES ASSUME RowsFit, NEW t \in Tokens PROVE SumsOf(t)
  BY DEF BalancesAddUp
<1>1. \A p \in Payments : Kept(pay[p], led[p]) /\ Sound(pay[p], led[p])
  BY DEF RowsFit, IInv
<1>2. /\ LamportsOf(t) \in [Payments -> Int] /\ BasisFor(t) \in [Payments -> Int]
      /\ CentsOf(t) \in [Payments -> Int]
  BY <1>1, RowCounts DEF LamportsOf, BasisFor, CentsOf
<1>3. EarnedLamports(t) \in Int /\ EarnedCents(t) \in Int
  <2>1. IsFiniteSet(ClaimsOf(t))
    BY FS_Subset DEF RowsFit, Tables, ClaimsOf
  <2>2. \A c \in ClaimsOf(t) : c.lamports \in Nat /\ c.gross \in Nat
    BY LedgerAssumption DEF RowsFit, Tables, ClaimsOf
  <2>3. \A x \in Nat : StreamerShare(t, x) \in Int
    BY SharesAreParts
  <2>4. /\ [c \in ClaimsOf(t) |-> StreamerShare(t, c.lamports)] \in [ClaimsOf(t) -> Int]
        /\ [c \in ClaimsOf(t) |-> StreamerShare(t, c.gross)] \in [ClaimsOf(t) -> Int]
    BY <2>2, <2>3
  <2>5. QED
    BY <2>1, <2>4, SumIsInt DEF EarnedLamports, EarnedCents
<1>4. Of(t) \in SUBSET Payments /\ Pinned(t) \in SUBSET Payments /\ IsFiniteSet(Payments)
  BY LedgerAssumption DEF Of, Pinned
<1>5. \A p \in Payments : p \in Of(t) <=> pay[p].token = t
  BY DEF Of
<1>6. \A p \in Payments : p \in Pinned(t) <=> pay[p].token = t /\ Pins(pay[p])
  BY DEF Of, Pinned, Pins
<1>7. AvailableLamports(t) = EarnedLamports(t) + SumFunction(LamportsOf(t))
  <2>1. PICK f, g, u, v, h :
          /\ f = [p \in Of(t) |-> pay[p].sol + pay[p].gas]
          /\ g = [p \in Pinned(t) |-> pay[p].plan.amount + pay[p].plan.maxFee]
          /\ u = [p \in Payments |-> IF p \in Of(t) THEN pay[p].sol + pay[p].gas ELSE 0]
          /\ v = [p \in Payments |-> IF p \in Pinned(t) THEN pay[p].plan.amount + pay[p].plan.maxFee ELSE 0]
          /\ h = LamportsOf(t)
    OBVIOUS
  <2>2. \A p \in Payments :
          /\ pay[p].sol + pay[p].gas \in Int
          /\ p \in Pinned(t) => pay[p].plan.amount + pay[p].plan.maxFee \in Int
    BY <1>1, <1>6, RowCounts DEF Pins
  <2>3. /\ f \in [Of(t) -> Int] /\ u \in [Payments -> Int]
        /\ \A p \in Of(t) : u[p] = f[p]
        /\ \A p \in Payments \ Of(t) : u[p] = 0
    BY <1>4, <2>1, <2>2
  <2>4. /\ g \in [Pinned(t) -> Int] /\ v \in [Payments -> Int]
        /\ \A p \in Pinned(t) : v[p] = g[p]
        /\ \A p \in Payments \ Pinned(t) : v[p] = 0
    BY <1>4, <2>1, <2>2
  <2>5. \A p \in Payments : h[p] = -u[p] - v[p]
    <3> SUFFICES ASSUME NEW p \in Payments PROVE h[p] = -u[p] - v[p]
      OBVIOUS
    <3>1. h[p] = LamportsIn(t, pay[p])
      BY <2>1 DEF LamportsOf
    <3>2. QED
      BY <1>5, <1>6, <2>1, <3>1 DEF LamportsIn
  <2>6. PICK z, d : z = [p \in Payments |-> 0] /\ d = [p \in Payments |-> -u[p]]
    OBVIOUS
  <2>7. Less(d, z, u, Payments) /\ Less(h, d, v, Payments)
    BY <1>2, <2>1, <2>3, <2>4, <2>5, <2>6 DEF Less
  <2>8. /\ SumFunction(d) = SumFunction(z) - SumFunction(u)
        /\ SumFunction(h) = SumFunction(d) - SumFunction(v)
        /\ SumFunction(u) \in Int /\ SumFunction(v) \in Int
    BY <1>4, <2>7, SumTakes
  <2>9. SumFunction(z) = 0
    BY <1>4, <2>6, <2>7, SumOfZeros DEF Less
  <2>10. SumFunction(f) = SumFunction(u) /\ SumFunction(g) = SumFunction(v)
    BY <1>4, <2>3, <2>4, SumOfPart
  <2>11. AvailableLamports(t) = EarnedLamports(t) - SumFunction(f) - SumFunction(g)
    BY <2>1 DEF AvailableLamports, EarnedLamports
  <2>12. QED
    BY <1>3, <2>1, <2>8, <2>9, <2>10, <2>11
<1>8. AvailableBasis(t) = EarnedCents(t) + SumFunction(BasisFor(t))
  <2>1. PICK f, g, u, v, h :
          /\ f = [p \in Of(t) |-> UsedBasis(p)]
          /\ g = [p \in Pinned(t) |-> pay[p].pinned]
          /\ u = [p \in Payments |-> IF p \in Of(t) THEN UsedBasis(p) ELSE 0]
          /\ v = [p \in Payments |-> IF p \in Pinned(t) THEN pay[p].pinned ELSE 0]
          /\ h = BasisFor(t)
    OBVIOUS
  <2>2. \A p \in Payments :
          /\ UsedBasis(p) \in Int
          /\ p \in Pinned(t) => pay[p].pinned \in Int
    BY <1>1, <1>6, RowCounts DEF Pins, UsedBasis
  <2>3. /\ f \in [Of(t) -> Int] /\ u \in [Payments -> Int]
        /\ \A p \in Of(t) : u[p] = f[p]
        /\ \A p \in Payments \ Of(t) : u[p] = 0
    BY <1>4, <2>1, <2>2
  <2>4. /\ g \in [Pinned(t) -> Int] /\ v \in [Payments -> Int]
        /\ \A p \in Pinned(t) : v[p] = g[p]
        /\ \A p \in Payments \ Pinned(t) : v[p] = 0
    BY <1>4, <2>1, <2>2
  <2>5. \A p \in Payments : h[p] = -u[p] - v[p]
    <3> SUFFICES ASSUME NEW p \in Payments PROVE h[p] = -u[p] - v[p]
      OBVIOUS
    <3>1. h[p] = BasisIn(t, pay[p])
      BY <2>1 DEF BasisFor
    <3>2. QED
      BY <1>5, <1>6, <2>1, <3>1 DEF BasisIn, UsedBasis
  <2>6. PICK z, d : z = [p \in Payments |-> 0] /\ d = [p \in Payments |-> -u[p]]
    OBVIOUS
  <2>7. Less(d, z, u, Payments) /\ Less(h, d, v, Payments)
    BY <1>2, <2>1, <2>3, <2>4, <2>5, <2>6 DEF Less
  <2>8. /\ SumFunction(d) = SumFunction(z) - SumFunction(u)
        /\ SumFunction(h) = SumFunction(d) - SumFunction(v)
        /\ SumFunction(u) \in Int /\ SumFunction(v) \in Int
    BY <1>4, <2>7, SumTakes
  <2>9. SumFunction(z) = 0
    BY <1>4, <2>6, <2>7, SumOfZeros DEF Less
  <2>10. SumFunction(f) = SumFunction(u) /\ SumFunction(g) = SumFunction(v)
    BY <1>4, <2>3, <2>4, SumOfPart
  <2>11. AvailableBasis(t) = EarnedCents(t) - SumFunction(f) - SumFunction(g)
    BY <2>1 DEF AvailableBasis, EarnedCents
  <2>12. QED
    BY <1>3, <2>1, <2>8, <2>9, <2>10, <2>11
<1>9. AvailableCents(t) = EarnedCents(t) + SumFunction(CentsOf(t))
  <2>1. PICK f : f = [p \in Of(t) |-> led[p].available]
    OBVIOUS
  <2>2. /\ f \in [Of(t) -> Int]
        /\ \A p \in Of(t) : CentsOf(t)[p] = f[p]
        /\ \A p \in Payments \ Of(t) : CentsOf(t)[p] = 0
    BY <1>1, <1>4, <1>5, <2>1 DEF CentsOf, CentsIn, Kept, Whole
  <2>3. SumFunction(f) = SumFunction(CentsOf(t))
    BY <1>2, <1>4, <2>2, SumOfPart
  <2>4. QED
    BY <2>1, <2>3 DEF AvailableCents, EarnedCents
<1>10. QED
  BY <1>2, <1>3, <1>7, <1>8, <1>9 DEF SumsOf

-----------------------------------------------------------------------------
\* What an operation on one payment must do to its row and its entry, next to what
\* the token has left of SOL, of cost and of dollars: a covered token stays covered.
Change(r, l, q, m, s, b, c) ==
  /\ Sound(q, m)
  /\ r.token \in {None, q.token} /\ q.token \in Tokens
  /\ r.over => q.over
  /\ ~q.over /\ s >= 0 /\ b >= 0 /\ c >= 0 /\ (r.plan # None => r.from >= 0) =>
       /\ q.plan # None => q.from >= 0
       /\ s - LamportsIn(q.token, r) + LamportsIn(q.token, q) >= 0
       /\ b - BasisIn(q.token, r) + BasisIn(q.token, q) >= 0
       /\ c - CentsIn(q.token, r, l) + CentsIn(q.token, q, m) >= 0

\* The columns the journal does not read have their types too.
LEMMA TypedIf ==
  ASSUME NEW q, NEW m, Kept(q, m), q.token \in Tokens \cup {None},
         q.funded \in BOOLEAN, q.credited \in BOOLEAN, q.failed \in BOOLEAN, q.over \in BOOLEAN,
         q.completion \in Completions, q.lamports \in Nat, q.sol \in Nat, q.gas \in Nat,
         q.from \in Int, q.pinned \in Int
  PROVE  Typed(q)
<1>1. DOMAIN q = DOMAIN NoPayment
  BY DEF Kept, IsRow, Columns, NoPayment
<1>2. QED
  BY <1>1 DEF Typed, Kept, WellFormed

\* A row that differs where the journal reads it only has its types.
LEMMA TypedLike ==
  ASSUME NEW r, Typed(r), NEW q, NEW m, Kept(q, m), q.token = r.token,
         q.lamports = r.lamports, q.from = r.from, q.pinned = r.pinned, q.funded = r.funded,
         q.failed = r.failed, q.over = r.over, q.sol = r.sol, q.gas = r.gas,
         q.credited \in BOOLEAN, q.completion \in Completions
  PROVE  Typed(q)
<1>1. /\ r.token \in Tokens \cup {None} /\ r.funded \in BOOLEAN /\ r.failed \in BOOLEAN
      /\ r.over \in BOOLEAN /\ r.lamports \in Nat /\ r.sol \in Nat /\ r.gas \in Nat
      /\ r.from \in Int /\ r.pinned \in Int
  BY DEF Typed
<1>2. QED
  BY <1>1, TypedIf

\* A reservation takes no more than is available.
LEMMA ReserveCovers ==
  ASSUME NEW r, NEW l, Kept(r, l), Sound(r, l), r.status = "none",
         NEW t \in Tokens, NEW n \in Nat,
         NEW q, q.token = t, q.budget = n, q.status = "reserved", q.plan = None,
         q.funded = FALSE, q.credited = FALSE, q.failed = FALSE, q.over = FALSE,
         q.completion = NoCompletion, q.lamports = 0, q.sol = 0, q.gas = 0, q.from = 0, q.pinned = 0,
         q.basis = 0, q.net = 0,
         NEW m, Kept(q, m), m.available = l.available - n,
         NEW s \in Int, NEW b \in Int, NEW c \in Int, n <= c
  PROVE  Change(r, l, q, m, s, b, c)
<1>1. r = NoPayment
  BY DEF Kept, Follows
<1>3. /\ r.token = None /\ r.plan = None /\ r.over = FALSE
  BY <1>1 DEF NoPayment
<1>4. l.available = 0 /\ m.available = -n
  <2>1. Taken(r) = 0
    BY DEF Taken
  <2>2. QED
    BY <2>1 DEF Sound, Kept, Whole
<1>5. None \notin Tokens
  BY LedgerAssumption
<1>6. Typed(q)
  <2>1. /\ q.funded \in BOOLEAN /\ q.credited \in BOOLEAN /\ q.failed \in BOOLEAN
        /\ q.over \in BOOLEAN
    OBVIOUS
  <2>2. /\ q.token \in Tokens \cup {None} /\ q.completion \in Completions
        /\ q.lamports \in Nat /\ q.sol \in Nat /\ q.gas \in Nat /\ q.from \in Int
        /\ q.pinned \in Int
    BY DEF NoCompletion, Completions
  <2>3. QED
    BY <2>1, <2>2, TypedIf
<1>7. Sound(q, m)
  BY <1>4, <1>5, <1>6 DEF Sound, Taken, Planned, InBudget
<1>8. /\ LamportsIn(t, r) = 0 /\ BasisIn(t, r) = 0 /\ CentsIn(t, r, l) = 0
      /\ LamportsIn(t, q) = 0 /\ BasisIn(t, q) = 0 /\ CentsIn(t, q, m) = -n
  BY <1>3, <1>4, <1>5 DEF LamportsIn, BasisIn, CentsIn, Pins
<1>9. QED
  BY <1>3, <1>7, <1>8 DEF Change

\* A change of status that moves no SOL and no entry of what is available.
LEMMA StatusCovers ==
  ASSUME NEW r, NEW l, Kept(r, l), Sound(r, l),
         r.status \notin {"none", "completed", "cancelled"},
         NEW q, NEW m, Kept(q, m), m.available = l.available, q.credited \in BOOLEAN, q.completion \in Completions,
         q.status \notin Unfunded \cup {"completed", "cancelled"},
         q.token = r.token, q.budget = r.budget, q.plan = r.plan, q.lamports = r.lamports,
         q.from = r.from, q.pinned = r.pinned, q.funded = r.funded, q.failed = r.failed,
         q.over = r.over, q.sol = r.sol, q.gas = r.gas, q.basis = r.basis, q.net = r.net,
         NEW s \in Int, NEW b \in Int, NEW c \in Int
  PROVE  Change(r, l, q, m, s, b, c)
<1>0. Typed(q)
  BY TypedLike DEF Sound
<1>1. ~r.failed
  BY DEF Sound
<1>2. r.token \in Tokens
  BY DEF Sound, Typed
<1>3. Taken(q) = Taken(r)
  BY DEF Taken, Unfunded
<1>4. Sound(q, m)
  BY <1>0, <1>1, <1>2, <1>3, LedgerAssumption DEF Sound, Planned, InBudget
<1>5. /\ LamportsIn(q.token, q) = LamportsIn(q.token, r) /\ BasisIn(q.token, q) = BasisIn(q.token, r)
      /\ CentsIn(q.token, q, m) = CentsIn(q.token, r, l)
  BY DEF LamportsIn, BasisIn, CentsIn, Pins
<1>6. /\ LamportsIn(q.token, r) \in Int /\ BasisIn(q.token, r) \in Int
      /\ CentsIn(q.token, r, l) \in Int
  BY RowCounts
<1>7. QED
  BY <1>2, <1>4, <1>5, <1>6 DEF Change

\* A purchase that was made releases what the budget has left.
LEMMA CompletedCovers ==
  ASSUME NEW r, NEW l, Kept(r, l), Sound(r, l), r.credited,
         r.status \in {"ready", "in_progress", "uncertain"},
         NEW q, NEW m, Kept(q, m), m.available = l.available + (r.budget - r.basis - r.net),
         q.credited \in BOOLEAN, q.completion \in Completions, q.status = "completed",
         q.token = r.token, q.budget = r.budget, q.plan = r.plan, q.lamports = r.lamports,
         q.from = r.from, q.pinned = r.pinned, q.funded = r.funded, q.failed = r.failed,
         q.over = r.over, q.sol = r.sol, q.gas = r.gas, q.basis = r.basis, q.net = r.net,
         NEW s \in Int, NEW b \in Int, NEW c \in Int
  PROVE  Change(r, l, q, m, s, b, c)
<1>0. Typed(q)
  BY TypedLike DEF Sound
<1>1. ~r.failed /\ r.funded
  BY DEF Sound, Kept, Follows
<1>2. r.token \in Tokens
  BY DEF Sound, Typed
<1>3. r.budget \in Nat /\ r.basis \in Int /\ r.net \in Int /\ l.available = -r.budget
  <2>1. Taken(r) = r.budget
    BY DEF Taken
  <2>2. r.budget \in Nat /\ r.basis \in Int /\ r.net \in Int /\ l.available \in Int
    BY DEF Sound, Typed, Kept, Whole
  <2>3. l.available + Taken(r) = 0
    BY DEF Sound
  <2>4. QED
    BY <2>1, <2>2, <2>3
<1>4. m.available + Taken(q) = 0
  BY <1>3 DEF Taken
<1>5. Sound(q, m)
  BY <1>0, <1>1, <1>2, <1>4, LedgerAssumption DEF Sound, Planned, InBudget, Unfunded
<1>6. /\ LamportsIn(q.token, q) = LamportsIn(q.token, r) /\ BasisIn(q.token, q) = BasisIn(q.token, r)
      /\ CentsIn(q.token, q, m) = m.available /\ CentsIn(q.token, r, l) = l.available
  BY DEF LamportsIn, BasisIn, CentsIn, Pins
<1>7. LamportsIn(q.token, r) \in Int /\ BasisIn(q.token, r) \in Int
  BY RowCounts
<1>8. ~q.over /\ (r.plan # None => r.from >= 0) => r.basis + r.net <= r.budget
  BY <1>1 DEF Sound, InBudget
<1>9. QED
  BY <1>2, <1>3, <1>5, <1>6, <1>7, <1>8 DEF Change

\* A payment that is given up releases its budget.
LEMMA CancelledCovers ==
  ASSUME NEW r, NEW l, Kept(r, l), Sound(r, l), r.status = "reserved", ~r.funded,
         NEW q, NEW m, Kept(q, m), m.available = l.available + r.budget,
         q.credited \in BOOLEAN, q.completion \in Completions, q.status = "cancelled",
         q.token = r.token, q.budget = r.budget, q.plan = r.plan, q.lamports = r.lamports,
         q.from = r.from, q.pinned = r.pinned, q.funded = r.funded, q.failed = r.failed,
         q.over = r.over, q.sol = r.sol, q.gas = r.gas, q.basis = r.basis, q.net = r.net,
         NEW s \in Int, NEW b \in Int, NEW c \in Int
  PROVE  Change(r, l, q, m, s, b, c)
<1>0. Typed(q)
  BY TypedLike DEF Sound
<1>1. /\ ~r.failed /\ r.plan = None /\ r.sol = 0 /\ r.gas = 0 /\ r.basis = 0 /\ r.net = 0
      /\ ~r.over
  BY DEF Sound, Unfunded
<1>2. r.token \in Tokens
  BY DEF Sound, Typed
<1>3. r.budget \in Nat /\ l.available = -r.budget
  <2>1. Taken(r) = r.budget
    BY DEF Taken
  <2>2. r.budget \in Nat /\ r.basis \in Int /\ r.net \in Int /\ l.available \in Int
    BY DEF Sound, Typed, Kept, Whole
  <2>3. l.available + Taken(r) = 0
    BY DEF Sound
  <2>4. QED
    BY <2>1, <2>2, <2>3
<1>4. m.available + Taken(q) = 0
  BY <1>1, <1>3 DEF Taken
<1>5. Sound(q, m)
  BY <1>0, <1>1, <1>2, <1>4, LedgerAssumption DEF Sound, Planned, InBudget, Unfunded
<1>6. /\ LamportsIn(q.token, q) = LamportsIn(q.token, r) /\ BasisIn(q.token, q) = BasisIn(q.token, r)
      /\ CentsIn(q.token, q, m) = m.available /\ CentsIn(q.token, r, l) = l.available
  BY <1>1 DEF LamportsIn, BasisIn, CentsIn, Pins
<1>7. LamportsIn(q.token, r) \in Int /\ BasisIn(q.token, r) \in Int
  BY RowCounts
<1>8. QED
  BY <1>1, <1>2, <1>3, <1>5, <1>6, <1>7 DEF Change

\* What a row holds of the SOL of its token, and of what it cost.
HeldLamports(r) == IF Pins(r) THEN r.plan.amount + r.plan.maxFee ELSE 0
HeldBasis(r) == IF Pins(r) THEN r.pinned ELSE 0
CostOf(r) == r.basis + (IF r.gas > 0 THEN r.net ELSE 0)

\* What a row contributes, by what it holds and what it cost.
LEMMA Holds ==
  ASSUME NEW r, NEW l, Kept(r, l), Sound(r, l)
  PROVE  /\ HeldLamports(r) \in Int /\ HeldBasis(r) \in Int /\ CostOf(r) \in Int
         /\ LamportsIn(r.token, r) = -(r.sol + r.gas) - HeldLamports(r)
         /\ BasisIn(r.token, r) = -CostOf(r) - HeldBasis(r)
         /\ CentsIn(r.token, r, l) = l.available
<1>1. HeldLamports(r) \in Int /\ HeldBasis(r) \in Int /\ CostOf(r) \in Int
  BY RowCounts DEF HeldLamports, HeldBasis, CostOf, Pins
<1>2. QED
  BY <1>1 DEF LamportsIn, BasisIn, CentsIn, HeldLamports, HeldBasis, CostOf

\* A native reservation holds no more than there is.
LEMMA PlannedCovers ==
  ASSUME NEW r, NEW l, Kept(r, l), Sound(r, l), r.status = "reserved",
         NEW s \in Int, NEW b \in Int, NEW c \in Int, NEW n \in Plans,
         s > 0, n.amount + n.maxFee <= s,
         NEW q, NEW m, Kept(q, m), m.available = l.available, q.status = "funding_pending",
         q.token = r.token, q.budget = r.budget, q.plan = n, q.lamports = s, q.from = b,
         q.pinned = Quotient(b * (n.amount + n.maxFee), s), q.pinned <= r.budget,
         q.funded = r.funded, q.failed = r.failed, q.over = r.over, q.sol = r.sol,
         q.gas = r.gas, q.basis = r.basis, q.net = r.net,
         q.credited \in BOOLEAN, q.completion \in Completions
  PROVE  Change(r, l, q, m, s, b, c)
<1>1. PICK k \in Nat : k = n.amount + n.maxFee
  BY LedgerAssumption
<1>2. q.pinned = Quotient(b * k, s) /\ k <= s /\ q.pinned \in Int
  <2>1. b * k \in Int /\ s \in Int \ {0}
    OBVIOUS
  <2>2. QED
    BY <1>1, <2>1, QuotientIsInt
<1>3. /\ r.funded = FALSE /\ r.failed = FALSE /\ r.plan = None
      /\ r.sol = 0 /\ r.gas = 0 /\ r.basis = 0 /\ r.net = 0 /\ r.over = FALSE
      /\ r.token \in Tokens /\ r.budget \in Nat
  BY DEF Sound, Typed, Kept, Follows, Unfunded
<1>4. Typed(q)
  <2>1. q.funded \in BOOLEAN /\ q.failed \in BOOLEAN /\ q.over \in BOOLEAN
    BY <1>3
  <2>2. q.token \in Tokens \cup {None} /\ q.sol \in Nat /\ q.gas \in Nat
    BY <1>3
  <2>3. q.lamports \in Nat /\ q.from \in Int /\ q.pinned \in Int
    BY <1>2
  <2>4. QED
    BY <2>1, <2>2, <2>3, TypedIf
<1>5. None \notin Tokens \cup Plans
  BY LedgerAssumption
<1>6. Planned(q) /\ InBudget(q)
  BY <1>3 DEF Planned, InBudget
<1>7. m.available + Taken(q) = 0
  <2>1. Taken(r) = r.budget /\ Taken(q) = r.budget
    BY DEF Taken
  <2>2. QED
    BY <2>1 DEF Sound
<1>8. Sound(q, m)
  BY <1>3, <1>4, <1>5, <1>6, <1>7 DEF Sound, Unfunded
<1>9. /\ LamportsIn(q.token, r) = 0 /\ BasisIn(q.token, r) = 0
      /\ LamportsIn(q.token, q) = -k /\ BasisIn(q.token, q) = -q.pinned
      /\ CentsIn(q.token, q, m) = CentsIn(q.token, r, l) /\ CentsIn(q.token, r, l) \in Int
  <2>1. Pins(q) /\ ~Pins(r)
    BY <1>3, <1>5 DEF Pins
  <2>2. LamportsIn(q.token, r) = 0 /\ BasisIn(q.token, r) = 0
    <3>1. HeldLamports(r) = 0 /\ HeldBasis(r) = 0 /\ CostOf(r) = 0
      BY <1>3, <2>1 DEF HeldLamports, HeldBasis, CostOf
    <3>2. QED
      BY <1>3, <3>1, Holds
  <2>3. LamportsIn(q.token, q) = -k /\ BasisIn(q.token, q) = -q.pinned
    BY <1>1, <1>2, <1>3, <2>1 DEF LamportsIn, BasisIn
  <2>4. QED
    BY <2>2, <2>3, RowCounts DEF CentsIn
<1>10. b >= 0 => q.pinned <= b
  BY <1>1, <1>2, QuotientOfPart
<1>11. QED
  BY <1>1, <1>2, <1>3, <1>8, <1>9, <1>10 DEF Change

\* A transfer that was paid for from what was held, or from what there is.
LEMMA FundedCovers ==
  ASSUME NEW r, NEW l, Kept(r, l), Sound(r, l), ~r.funded, ~r.failed,
         r.status \in {"reserved", "funding_pending", "uncertain"},
         NEW s \in Int, NEW b \in Int, NEW c \in Int,
         NEW q, NEW m, Kept(q, m), m.available = l.available,
         q.status \in {"uncertain", "funding_submitted"},
         q.token = r.token, q.budget = r.budget, q.plan = r.plan, q.lamports = r.lamports,
         q.from = r.from, q.pinned = r.pinned, q.funded = TRUE, q.failed = r.failed,
         q.over \in BOOLEAN, q.sol \in Nat, q.gas \in Nat,
         q.credited \in BOOLEAN, q.completion \in Completions,
         q.gas = 0 => q.net >= 0,
         ~q.over /\ (r.plan # None => r.from >= 0) => q.basis + q.net <= r.budget,
         ~q.over /\ (r.plan # None => r.from >= 0) /\ s >= 0 /\ b >= 0 =>
           q.sol + q.gas <= s + HeldLamports(r) /\ CostOf(q) <= b + HeldBasis(r)
  PROVE  Change(r, l, q, m, s, b, c)
<1>1. /\ r.sol = 0 /\ r.gas = 0 /\ r.basis = 0 /\ r.net = 0 /\ ~r.over /\ r.token \in Tokens
      /\ r.status \in Unfunded => r.plan = None
  BY DEF Sound, Typed
<1>2. Typed(q)
  <2>1. /\ q.funded \in BOOLEAN /\ q.failed \in BOOLEAN /\ q.token \in Tokens \cup {None}
        /\ q.lamports \in Nat /\ q.from \in Int /\ q.pinned \in Int
    BY DEF Sound, Typed
  <2>2. QED
    BY <2>1, TypedIf
<1>3. None \notin Tokens
  BY LedgerAssumption
<1>4. Planned(q) /\ InBudget(q)
  BY DEF Sound, Planned, InBudget
<1>5. m.available + Taken(q) = 0
  <2>1. Taken(r) = r.budget /\ Taken(q) = r.budget
    BY DEF Taken
  <2>2. QED
    BY <2>1 DEF Sound
<1>6. Sound(q, m)
  BY <1>1, <1>2, <1>3, <1>4, <1>5 DEF Sound, Unfunded
<1>7. HeldLamports(q) = 0 /\ HeldBasis(q) = 0 /\ CostOf(r) = 0
  BY <1>1 DEF HeldLamports, HeldBasis, CostOf, Pins
<1>8. /\ LamportsIn(q.token, r) = -HeldLamports(r) /\ BasisIn(q.token, r) = -HeldBasis(r)
      /\ HeldLamports(r) \in Int /\ HeldBasis(r) \in Int
      /\ CentsIn(q.token, r, l) = l.available /\ l.available \in Int
  BY <1>1, <1>7, Holds DEF Kept, Whole
<1>9. /\ LamportsIn(q.token, q) = -(q.sol + q.gas) /\ BasisIn(q.token, q) = -CostOf(q)
      /\ CostOf(q) \in Int /\ CentsIn(q.token, q, m) = m.available
  BY <1>6, <1>7, Holds
<1>10. QED
  BY <1>1, <1>6, <1>8, <1>9 DEF Change

\* A transfer that failed: its gas was paid for from what was held, or from what there is.
LEMMA FailedCovers ==
  ASSUME NEW r, NEW l, Kept(r, l), Sound(r, l), ~r.funded, ~r.failed,
         r.status \in {"funding_pending", "uncertain"},
         NEW s \in Int, NEW b \in Int, NEW c \in Int,
         NEW q, NEW m, Kept(q, m), m.available = l.available + (r.budget - q.basis),
         q.status = "cancelled",
         q.token = r.token, q.budget = r.budget, q.plan = r.plan, q.lamports = r.lamports,
         q.from = r.from, q.pinned = r.pinned, q.funded = r.funded, q.failed = TRUE,
         q.over \in BOOLEAN, q.sol = r.sol, q.gas \in Nat, q.net = r.net,
         q.credited \in BOOLEAN, q.completion \in Completions,
         ~q.over /\ (r.plan # None => r.from >= 0) /\ s >= 0 /\ b >= 0 =>
           /\ q.gas <= s + HeldLamports(r) /\ q.basis <= b + HeldBasis(r)
           /\ q.basis <= r.budget
  PROVE  Change(r, l, q, m, s, b, c)
<1>1. /\ r.sol = 0 /\ r.gas = 0 /\ r.basis = 0 /\ r.net = 0 /\ ~r.over /\ r.token \in Tokens
      /\ q.basis \in Int /\ r.budget \in Nat
  BY DEF Sound, Typed, Kept, WellFormed
<1>2. Typed(q)
  <2>1. /\ q.funded \in BOOLEAN /\ q.failed \in BOOLEAN /\ q.token \in Tokens \cup {None}
        /\ q.lamports \in Nat /\ q.from \in Int /\ q.pinned \in Int /\ q.sol \in Nat
    BY DEF Sound, Typed
  <2>2. QED
    BY <2>1, TypedIf
<1>3. None \notin Tokens
  BY LedgerAssumption
<1>4. Planned(q) /\ InBudget(q)
  BY DEF Sound, Planned, InBudget
<1>5. m.available + Taken(q) = 0 /\ l.available = -r.budget
  <2>1. Taken(r) = r.budget /\ Taken(q) = q.basis
    BY DEF Taken
  <2>2. l.available \in Int /\ l.available + Taken(r) = 0
    BY DEF Sound, Kept, Whole
  <2>3. QED
    BY <1>1, <2>1, <2>2
<1>6. Sound(q, m)
  BY <1>1, <1>2, <1>3, <1>4, <1>5 DEF Sound, Unfunded
<1>7. HeldLamports(q) = 0 /\ HeldBasis(q) = 0 /\ CostOf(r) = 0 /\ CostOf(q) = q.basis
  BY <1>1 DEF HeldLamports, HeldBasis, CostOf, Pins
<1>8. /\ LamportsIn(q.token, r) = -HeldLamports(r) /\ BasisIn(q.token, r) = -HeldBasis(r)
      /\ HeldLamports(r) \in Int /\ HeldBasis(r) \in Int
      /\ CentsIn(q.token, r, l) = l.available /\ l.available \in Int
  BY <1>1, <1>7, Holds DEF Kept, Whole
<1>9. /\ LamportsIn(q.token, q) = -q.gas /\ BasisIn(q.token, q) = -q.basis
      /\ CentsIn(q.token, q, m) = m.available
  BY <1>1, <1>6, <1>7, Holds
<1>10. QED
  BY <1>1, <1>5, <1>6, <1>8, <1>9 DEF Change

\* When one payment changes, the balances move by what it contributes.
LEMMA BalancesMove ==
  ASSUME RowsFit, RowsFit', claims' = claims, NEW p \in Payments,
         \A x \in Payments \ {p} : pay'[x] = pay[x] /\ led'[x] = led[x], NEW t \in Tokens
  PROVE  /\ AvailableLamports(t)' = AvailableLamports(t) - LamportsIn(t, pay[p]) + LamportsIn(t, pay'[p])
         /\ AvailableBasis(t)' = AvailableBasis(t) - BasisIn(t, pay[p]) + BasisIn(t, pay'[p])
         /\ AvailableCents(t)' = AvailableCents(t) - CentsIn(t, pay[p], led[p])
                                   + CentsIn(t, pay'[p], led'[p])
         /\ AvailableLamports(t) \in Int /\ AvailableBasis(t) \in Int /\ AvailableCents(t) \in Int
<1>1. SumsOf(t)
  BY BalancesAre DEF BalancesAddUp
<1>2. SumsOf(t)'
  <2>1. BalancesAddUp'
    BY BalancesAre, PTL
  <2>2. QED
    BY <2>1 DEF BalancesAddUp
<1>3. EarnedLamports(t)' = EarnedLamports(t) /\ EarnedCents(t)' = EarnedCents(t)
  BY DEF EarnedLamports, EarnedCents, ClaimsOf
<1>4. PICK f, f1, g, g1, h, h1 :
        /\ f = LamportsOf(t) /\ f1 = LamportsOf(t)'
        /\ g = BasisFor(t) /\ g1 = BasisFor(t)'
        /\ h = CentsOf(t) /\ h1 = CentsOf(t)'
  OBVIOUS
<1>5. /\ f \in [Payments -> Int] /\ f1 \in [Payments -> Int]
      /\ g \in [Payments -> Int] /\ g1 \in [Payments -> Int]
      /\ h \in [Payments -> Int] /\ h1 \in [Payments -> Int]
  BY <1>1, <1>2, <1>4 DEF SumsOf
<1>6. \A x \in Payments :
        /\ f[x] = LamportsIn(t, pay[x]) /\ f1[x] = LamportsIn(t, pay'[x])
        /\ g[x] = BasisIn(t, pay[x]) /\ g1[x] = BasisIn(t, pay'[x])
        /\ h[x] = CentsIn(t, pay[x], led[x]) /\ h1[x] = CentsIn(t, pay'[x], led'[x])
  BY <1>4 DEF LamportsOf, BasisFor, CentsOf
<1>7. \A x \in Payments \ {p} : f1[x] = f[x] /\ g1[x] = g[x] /\ h1[x] = h[x]
  BY <1>6
<1>8. IsFiniteSet(Payments)
  BY LedgerAssumption
<1>9. /\ SumFunction(f1) = SumFunction(f) - f[p] + f1[p]
      /\ SumFunction(g1) = SumFunction(g) - g[p] + g1[p]
      /\ SumFunction(h1) = SumFunction(h) - h[p] + h1[p]
  BY <1>5, <1>7, <1>8, SumChanges
<1>10. SumFunction(f) \in Int /\ SumFunction(g) \in Int /\ SumFunction(h) \in Int
  BY <1>5, <1>8, SumIsInt
<1>11. /\ f[p] \in Int /\ f1[p] \in Int /\ g[p] \in Int /\ g1[p] \in Int
       /\ h[p] \in Int /\ h1[p] \in Int
  BY <1>5
<1>12. /\ AvailableLamports(t) = EarnedLamports(t) + SumFunction(f)
       /\ AvailableBasis(t) = EarnedCents(t) + SumFunction(g)
       /\ AvailableCents(t) = EarnedCents(t) + SumFunction(h)
       /\ EarnedLamports(t) \in Int /\ EarnedCents(t) \in Int
  BY <1>1, <1>4 DEF SumsOf
<1>13. /\ AvailableLamports(t)' = EarnedLamports(t) + SumFunction(f1)
       /\ AvailableBasis(t)' = EarnedCents(t) + SumFunction(g1)
       /\ AvailableCents(t)' = EarnedCents(t) + SumFunction(h1)
  BY <1>2, <1>3, <1>4 DEF SumsOf
<1>14. QED
  BY <1>6, <1>9, <1>10, <1>11, <1>12, <1>13

\* An operation that does that to one payment keeps every covered token covered.
LEMMA ChangeCovers ==
  ASSUME RowsFit, AllCovered, IInv', Tables', claims' = claims, NEW p \in Payments,
         \A x \in Payments \ {p} : pay'[x] = pay[x] /\ led'[x] = led[x],
         NEW q, NEW m, q = pay'[p], m = led'[p],
         Change(pay[p], led[p], q, m, AvailableLamports(q.token), AvailableBasis(q.token),
                AvailableCents(q.token))
  PROVE  RowsFit' /\ AllCovered'
<1>1. RowsFit'
  <2>1. \A x \in Payments : Sound(pay'[x], led'[x])
    BY DEF RowsFit, Change
  <2>2. QED
    BY <2>1 DEF RowsFit
<1>2. SUFFICES ASSUME NEW t \in Tokens, NoOverrun(t)' PROVE Covers(t)'
  BY <1>1 DEF AllCovered
<1>3. PICK r, l : r = pay[p] /\ l = led[p]
  OBVIOUS
<1>4. Sound(q, m) /\ Sound(r, l) /\ Kept(r, l)
  BY <1>3 DEF Change, RowsFit, IInv
<1>5. (r.token = None \/ r.token = q.token) /\ None # t
  BY <1>3, LedgerAssumption DEF Change
<1>6. /\ NoOverrun(t) <=> \A x \in Payments : pay[x].token = t => ~pay[x].over
      /\ NoOverrun(t)' <=> \A x \in Payments : pay'[x].token = t => ~pay'[x].over
  BY DEF NoOverrun, Of
<1>7. NoOverrun(t)
  <2> SUFFICES ASSUME NEW x \in Payments, pay[x].token = t, pay[x].over PROVE FALSE
    BY <1>6
  <2>1. CASE x = p
    <3>1. q.token = t /\ q.over
      BY <1>3, <1>5, <2>1 DEF Change
    <3>2. QED
      BY <1>2, <1>6, <3>1
  <2>2. CASE x # p
    BY <1>2, <1>6, <2>2
  <2>3. QED
    BY <2>1, <2>2
<1>8. Covers(t)
  BY <1>7 DEF AllCovered
<1>9. /\ AvailableLamports(t) >= 0 /\ AvailableBasis(t) >= 0 /\ AvailableCents(t) >= 0
      /\ \A x \in Payments : pay[x].token = t /\ pay[x].plan # None => pay[x].from >= 0
  BY <1>8 DEF Covers, Of
<1>10. /\ AvailableLamports(t)' = AvailableLamports(t) - LamportsIn(t, r) + LamportsIn(t, q)
       /\ AvailableBasis(t)' = AvailableBasis(t) - BasisIn(t, r) + BasisIn(t, q)
       /\ AvailableCents(t)' = AvailableCents(t) - CentsIn(t, r, l) + CentsIn(t, q, m)
       /\ AvailableLamports(t) \in Int /\ AvailableBasis(t) \in Int /\ AvailableCents(t) \in Int
  BY <1>1, <1>3, BalancesMove
<1>11. CASE q.token = t
  <2>1. ~q.over
    BY <1>2, <1>6, <1>11
  <2>2. r.plan # None => r.from >= 0
    <3>1. CASE r.token = t
      BY <1>3, <1>9, <3>1
    <3>2. CASE r.token = None
      BY <1>4, <1>5, <3>2 DEF Sound, Unfunded
    <3>3. QED
      BY <1>5, <1>11, <3>1, <3>2
  <2>3. /\ q.plan # None => q.from >= 0
        /\ AvailableLamports(t) - LamportsIn(t, r) + LamportsIn(t, q) >= 0
        /\ AvailableBasis(t) - BasisIn(t, r) + BasisIn(t, q) >= 0
        /\ AvailableCents(t) - CentsIn(t, r, l) + CentsIn(t, q, m) >= 0
    BY <1>3, <1>9, <1>11, <2>1, <2>2 DEF Change
  <2>4. \A x \in Of(t)' : pay'[x].plan # None => pay'[x].from >= 0
    <3> SUFFICES ASSUME NEW x \in Payments, pay'[x].token = t, pay'[x].plan # None
                 PROVE  pay'[x].from >= 0
      BY DEF Of
    <3>1. CASE x = p
      BY <2>3, <3>1
    <3>2. CASE x # p
      BY <1>9, <3>2
    <3>3. QED
      BY <3>1, <3>2
  <2>5. QED
    BY <1>10, <2>3, <2>4 DEF Covers
<1>12. CASE q.token # t
  <2>1. r.token # t
    BY <1>5, <1>12
  <2>2. /\ LamportsIn(t, r) = 0 /\ LamportsIn(t, q) = 0 /\ BasisIn(t, r) = 0 /\ BasisIn(t, q) = 0
        /\ CentsIn(t, r, l) = 0 /\ CentsIn(t, q, m) = 0
    BY <1>12, <2>1 DEF LamportsIn, BasisIn, CentsIn
  <2>3. \A x \in Of(t)' : pay'[x].plan # None => pay'[x].from >= 0
    <3> SUFFICES ASSUME NEW x \in Payments, pay'[x].token = t, pay'[x].plan # None
                 PROVE  pay'[x].from >= 0
      BY DEF Of
    <3>1. x # p
      BY <1>12
    <3>2. QED
      BY <1>9, <3>1
  <2>4. QED
    BY <1>9, <1>10, <2>2, <2>3 DEF Covers
<1>13. QED
  BY <1>11, <1>12

\* The same, of what an operation saves and books.
LEMMA SavedCovers ==
  ASSUME RowsFit, AllCovered, IInv', UNCHANGED <<known, claims, costs>>, NEW p \in Payments,
         NEW q, NEW m, Save(p, q), Book(p, m),
         Kept(q, m) =>
           Change(pay[p], led[p], q, m, AvailableLamports(q.token), AvailableBasis(q.token),
                  AvailableCents(q.token))
  PROVE  RowsFit' /\ AllCovered'
<1>1. pay'[p] = q /\ led'[p] = m
  BY DEF RowsFit, IInv, Save, Book
<1>2. \A x \in Payments \ {p} : pay'[x] = pay[x] /\ led'[x] = led[x]
  BY DEF RowsFit, IInv, Save, Book
<1>3. Kept(q, m)
  BY <1>1 DEF IInv
<1>4. Tables'
  BY DEF RowsFit, Tables
<1>5. QED
  BY <1>1, <1>2, <1>3, <1>4, ChangeCovers

\* A payment's token has its balances.
LEMMA BalancesAreInts ==
  ASSUME RowsFit, NEW t \in Tokens
  PROVE  AvailableLamports(t) \in Int /\ AvailableBasis(t) \in Int /\ AvailableCents(t) \in Int
<1>1. SumsOf(t)
  BY BalancesAre DEF BalancesAddUp
<1>2. PICK f, g, h : f = LamportsOf(t) /\ g = BasisFor(t) /\ h = CentsOf(t)
  OBVIOUS
<1>3. SumFunction(f) \in Int /\ SumFunction(g) \in Int /\ SumFunction(h) \in Int
  BY <1>1, <1>2, LedgerAssumption, SumIsInt DEF SumsOf
<1>4. QED
  BY <1>1, <1>2, <1>3 DEF SumsOf

-----------------------------------------------------------------------------
\* reservePayment.
LEMMA ReserveSolvent ==
  ASSUME RowsFit, AllCovered, IInv', NEW p \in Payments, NEW t \in Tokens, NEW b, Reserve(p, t, b)
  PROVE  RowsFit' /\ AllCovered'
<1>1. PICK q, m, l : /\ q = [NoPayment EXCEPT !.token = t, !.budget = b, !.status = "reserved"]
                     /\ m = [l EXCEPT !.available = @ - b, !.reserved = @ + b]
                     /\ l = led[p]
  OBVIOUS
<1>2. /\ Save(p, q) /\ Book(p, m) /\ UNCHANGED <<known, claims, costs>>
      /\ pay[p].status = "none" /\ b <= AvailableCents(t)
  BY <1>1 DEF Reserve, Fresh
<1>3. b \in Nat
  BY LedgerAssumption DEF Reserve, Entries
<1>4. Kept(pay[p], l) /\ Sound(pay[p], l)
  BY <1>1 DEF RowsFit, IInv
<1>5. m.available = l.available - b
  BY <1>1, <1>4 DEF Kept, IsSheet, Accounts
<1>6. /\ q.token = t /\ q.budget = b /\ q.status = "reserved" /\ q.plan = None
      /\ q.funded = FALSE /\ q.credited = FALSE /\ q.failed = FALSE /\ q.over = FALSE
      /\ q.completion = NoCompletion /\ q.lamports = 0 /\ q.sol = 0 /\ q.gas = 0 /\ q.from = 0 /\ q.pinned = 0
      /\ q.basis = 0 /\ q.net = 0
  BY <1>1 DEF NoPayment
<1>7. ASSUME Kept(q, m)
      PROVE  Change(pay[p], led[p], q, m, AvailableLamports(t), AvailableBasis(t),
                    AvailableCents(t))
  BY <1>1, <1>2, <1>3, <1>4, <1>5, <1>6, <1>7, BalancesAreInts, ReserveCovers
<1>8. QED
  BY <1>2, <1>6, <1>7, SavedCovers

\* beginFunding, startPayment and markUncertain.
LEMMA StatusSolvent ==
  ASSUME RowsFit, AllCovered, IInv', NEW p \in Payments,
         BeginFunding(p) \/ StartPayment(p) \/ MarkUncertain(p)
  PROVE  RowsFit' /\ AllCovered'
<1>1. PICK r, l : r = pay[p] /\ l = led[p]
  OBVIOUS
<1>2. PICK s \in {"funding_pending", "in_progress", "uncertain"} :
        Save(p, [r EXCEPT !.status = s])
  BY <1>1 DEF BeginFunding, StartPayment, MarkUncertain
<1>3. PICK q : q = [r EXCEPT !.status = s]
  OBVIOUS
<1>4. /\ r.status \notin {"none", "completed", "cancelled"}
      /\ UNCHANGED led /\ UNCHANGED <<known, claims, costs>>
  BY <1>1 DEF BeginFunding, StartPayment, MarkUncertain
<1>5. Kept(r, l) /\ Sound(r, l) /\ Book(p, l)
  BY <1>1, <1>4, NothingBooked DEF RowsFit, IInv
<1>6. /\ q.status = s /\ q.token = r.token /\ q.budget = r.budget /\ q.plan = r.plan
      /\ q.lamports = r.lamports /\ q.from = r.from /\ q.pinned = r.pinned
      /\ q.funded = r.funded /\ q.failed = r.failed /\ q.over = r.over /\ q.sol = r.sol
      /\ q.gas = r.gas /\ q.basis = r.basis /\ q.net = r.net /\ q.credited = r.credited
      /\ q.completion = r.completion
  BY <1>3, <1>5 DEF Kept, IsRow, Columns
<1>7. r.token \in Tokens /\ r.credited \in BOOLEAN /\ r.completion \in Completions
  BY <1>4, <1>5 DEF Sound, Typed
<1>8. q.status \notin Unfunded \cup {"completed", "cancelled"}
  BY <1>6 DEF Unfunded
<1>9. ASSUME Kept(q, l)
      PROVE  Change(r, l, q, l, AvailableLamports(q.token), AvailableBasis(q.token),
                    AvailableCents(q.token))
  BY <1>4, <1>5, <1>6, <1>7, <1>8, <1>9, BalancesAreInts, StatusCovers
<1>10. QED
  BY <1>1, <1>2, <1>3, <1>4, <1>5, <1>9, SavedCovers

\* recordNativeCredit and confirmFunding.
LEMMA CreditSolvent ==
  ASSUME RowsFit, AllCovered, IInv', NEW p \in Payments, NEW c,
         RecordNativeCredit(p, c) \/ RecordCardCredit(p, c)
  PROVE  RowsFit' /\ AllCovered'
<1>1. PICK r, l : r = pay[p] /\ l = led[p]
  OBVIOUS
<1>2. Kept(r, l) /\ Sound(r, l)
  BY <1>1 DEF RowsFit, IInv
<1>3. PICK d : d = r.usd - c
  OBVIOUS
<1>4. PICK m : /\ Book(p, m) /\ m.available = l.available
  <2>1. PICK m1, m2 : /\ m1 = [l EXCEPT !.reserved = @ - d, !.pending = @ + d]
                      /\ m2 = [l EXCEPT !.reserved = @ - d, !.cost = @ + d]
    OBVIOUS
  <2>2. m1.available = l.available /\ m2.available = l.available
    BY <1>2, <2>1 DEF Kept, IsSheet, Accounts
  <2>3. Book(p, m1) \/ Book(p, m2)
    BY <1>1, <1>3, <2>1 DEF RecordNativeCredit, RecordCardCredit
  <2>4. QED
    BY <2>2, <2>3
<1>5. PICK s \in {"uncertain", "ready", "awaiting_threshold"} : Credited(p, c, s)
  BY DEF RecordNativeCredit, RecordCardCredit
<1>6. PICK g : g = IF r.plan = None THEN r.usd - c ELSE 0
  OBVIOUS
<1>7. PICK q : q = [r EXCEPT !.credited = TRUE, !.credit = c, !.status = s, !.charge = g]
  OBVIOUS
<1>8. Save(p, q)
  BY <1>1, <1>5, <1>6, <1>7 DEF Credited
<1>9. /\ r.status \in {"funding_submitted", "uncertain"} /\ UNCHANGED <<known, claims, costs>>
  BY <1>1 DEF RecordNativeCredit, RecordCardCredit
<1>10. /\ q.status = s /\ q.token = r.token /\ q.budget = r.budget /\ q.plan = r.plan
       /\ q.lamports = r.lamports /\ q.from = r.from /\ q.pinned = r.pinned
       /\ q.funded = r.funded /\ q.failed = r.failed /\ q.over = r.over /\ q.sol = r.sol
       /\ q.gas = r.gas /\ q.basis = r.basis /\ q.net = r.net /\ q.credited = TRUE
       /\ q.completion = r.completion
  BY <1>2, <1>7 DEF Kept, IsRow, Columns
<1>11. r.token \in Tokens /\ q.credited \in BOOLEAN /\ r.completion \in Completions
  BY <1>2, <1>9, <1>10 DEF Sound, Typed
<1>12. q.status \notin Unfunded \cup {"completed", "cancelled"}
  BY <1>10 DEF Unfunded
<1>13. ASSUME Kept(q, m)
       PROVE  Change(r, l, q, m, AvailableLamports(q.token), AvailableBasis(q.token),
                     AvailableCents(q.token))
  BY <1>2, <1>4, <1>9, <1>10, <1>11, <1>12, <1>13, BalancesAreInts, StatusCovers
<1>14. QED
  BY <1>1, <1>4, <1>8, <1>9, <1>13, SavedCovers

\* finishPayment.
LEMMA FinishedSolvent ==
  ASSUME RowsFit, AllCovered, IInv', NEW p \in Payments, NEW spent, NEW c \in Completions,
         Finished(p, spent, c)
  PROVE  RowsFit' /\ AllCovered'
<1>1. PICK r, l : r = pay[p] /\ l = led[p]
  OBVIOUS
<1>2. Kept(r, l) /\ Sound(r, l)
  BY <1>1 DEF RowsFit, IInv
<1>3. PICK kept : kept = IF r.plan = None THEN r.charge ELSE r.usd - r.credit
  OBVIOUS
<1>4. PICK q, m : /\ q = [r EXCEPT !.status = "completed", !.spent = spent, !.completion = c]
                  /\ m = [l EXCEPT !.reserved = @ - (r.budget + r.fx - r.fee - kept),
                                   !.spent = @ + spent, !.residual = @ + r.credit - spent,
                                   !.available = @ + (r.budget - r.basis - r.net)]
  OBVIOUS
<1>5. /\ Save(p, q) /\ Book(p, m) /\ UNCHANGED <<known, claims, costs>>
      /\ r.status \in {"ready", "in_progress", "uncertain"} /\ r.credited
  BY <1>1, <1>3, <1>4 DEF Finished, Left
<1>6. m.available = l.available + (r.budget - r.basis - r.net)
  BY <1>2, <1>4 DEF Kept, IsSheet, Accounts
<1>7. /\ q.status = "completed" /\ q.token = r.token /\ q.budget = r.budget /\ q.plan = r.plan
      /\ q.lamports = r.lamports /\ q.from = r.from /\ q.pinned = r.pinned
      /\ q.funded = r.funded /\ q.failed = r.failed /\ q.over = r.over /\ q.sol = r.sol
      /\ q.gas = r.gas /\ q.basis = r.basis /\ q.net = r.net /\ q.credited = r.credited
      /\ q.completion = c
  BY <1>2, <1>4 DEF Kept, IsRow, Columns
<1>8. r.token \in Tokens /\ r.credited \in BOOLEAN
  BY <1>2, <1>5 DEF Sound, Typed
<1>9. ASSUME Kept(q, m)
      PROVE  Change(r, l, q, m, AvailableLamports(q.token), AvailableBasis(q.token),
                    AvailableCents(q.token))
  BY <1>2, <1>5, <1>6, <1>7, <1>8, <1>9, BalancesAreInts, CompletedCovers
<1>10. QED
  BY <1>1, <1>5, <1>9, SavedCovers

\* Either way of completing.
LEMMA CompleteSolvent ==
  ASSUME RowsFit, AllCovered, IInv', NEW e \in checked, CompletePayment(e)
  PROVE  RowsFit' /\ AllCovered'
<1>1. e \in Checks
  BY DEF RowsFit, IInv, CheckedHolds
<1>2. e.payment \in Payments /\ Attested(e) \in Completions
  BY <1>1 DEF Checks, Attested, Completions, Completed
<1>3. QED
  BY <1>2, FinishedSolvent DEF CompletePayment

LEMMA CompleteVerifiedSolvent ==
  ASSUME RowsFit, AllCovered, IInv', NEW p \in Payments, NEW spent, NEW c \in Filings,
         CompletePaymentVerified(p, spent, c)
  PROVE  RowsFit' /\ AllCovered'
<1>1. c \in Completions
  BY DEF Filings
<1>2. QED
  BY <1>1, FinishedSolvent DEF CompletePaymentVerified

\* cancelPayment.
LEMMA CancelSolvent ==
  ASSUME RowsFit, AllCovered, IInv', NEW p \in Payments, CancelPayment(p)
  PROVE  RowsFit' /\ AllCovered'
<1>1. PICK r, l : r = pay[p] /\ l = led[p]
  OBVIOUS
<1>2. Kept(r, l) /\ Sound(r, l)
  BY <1>1 DEF RowsFit, IInv
<1>3. PICK q, m : /\ q = [r EXCEPT !.status = "cancelled"]
                  /\ m = [l EXCEPT !.reserved = @ - r.budget, !.available = @ + r.budget]
  OBVIOUS
<1>4. /\ Save(p, q) /\ Book(p, m) /\ UNCHANGED <<known, claims, costs>>
      /\ r.status = "reserved" /\ ~r.funded
  BY <1>1, <1>3 DEF CancelPayment
<1>5. m.available = l.available + r.budget
  BY <1>2, <1>3 DEF Kept, IsSheet, Accounts
<1>6. /\ q.status = "cancelled" /\ q.token = r.token /\ q.budget = r.budget /\ q.plan = r.plan
      /\ q.lamports = r.lamports /\ q.from = r.from /\ q.pinned = r.pinned
      /\ q.funded = r.funded /\ q.failed = r.failed /\ q.over = r.over /\ q.sol = r.sol
      /\ q.gas = r.gas /\ q.basis = r.basis /\ q.net = r.net /\ q.credited = r.credited
      /\ q.completion = r.completion
  BY <1>2, <1>3 DEF Kept, IsRow, Columns
<1>7. r.token \in Tokens /\ r.credited \in BOOLEAN /\ r.completion \in Completions
  BY <1>2, <1>4 DEF Sound, Typed
<1>8. ASSUME Kept(q, m)
      PROVE  Change(r, l, q, m, AvailableLamports(q.token), AvailableBasis(q.token),
                    AvailableCents(q.token))
  BY <1>2, <1>4, <1>5, <1>6, <1>7, <1>8, BalancesAreInts, CancelledCovers
<1>9. QED
  BY <1>1, <1>4, <1>8, SavedCovers

\* reserveNativeFunding.
LEMMA PlannedSolvent ==
  ASSUME RowsFit, AllCovered, IInv', NEW p \in Payments, NEW n \in Plans, ReserveNative(p, n)
  PROVE  RowsFit' /\ AllCovered'
<1>1. PICK r, l : r = pay[p] /\ l = led[p]
  OBVIOUS
<1>2. PICK s, b, c : /\ s = AvailableLamports(r.token) /\ b = AvailableBasis(r.token)
                     /\ c = AvailableCents(r.token)
  OBVIOUS
<1>3. PICK k : k = Quotient(b * (n.amount + n.maxFee), s)
  OBVIOUS
<1>4. PICK q : q = [r EXCEPT !.plan = n, !.lamports = s, !.from = b, !.pinned = k,
                             !.status = "funding_pending"]
  OBVIOUS
<1>5. /\ Save(p, q) /\ UNCHANGED led /\ UNCHANGED <<known, claims, costs>>
      /\ r.status = "reserved" /\ s > 0 /\ n.amount + n.maxFee <= s /\ k <= r.budget
  BY <1>1, <1>2, <1>3, <1>4 DEF ReserveNative
<1>6. Kept(r, l) /\ Sound(r, l) /\ Book(p, l)
  BY <1>1, <1>5, NothingBooked DEF RowsFit, IInv
<1>7. /\ q.status = "funding_pending" /\ q.token = r.token /\ q.budget = r.budget /\ q.plan = n
      /\ q.lamports = s /\ q.from = b /\ q.pinned = k
      /\ q.funded = r.funded /\ q.failed = r.failed /\ q.over = r.over /\ q.sol = r.sol
      /\ q.gas = r.gas /\ q.basis = r.basis /\ q.net = r.net /\ q.credited = r.credited
      /\ q.completion = r.completion
  BY <1>4, <1>6 DEF Kept, IsRow, Columns
<1>8. r.token \in Tokens /\ r.credited \in BOOLEAN /\ r.completion \in Completions
  BY <1>5, <1>6 DEF Sound, Typed
<1>9. s \in Int /\ b \in Int /\ c \in Int
  BY <1>2, <1>8, BalancesAreInts
<1>10. ASSUME Kept(q, l) PROVE Change(r, l, q, l, s, b, c)
  BY <1>3, <1>5, <1>6, <1>7, <1>8, <1>9, <1>10, PlannedCovers
<1>11. QED
  BY <1>1, <1>2, <1>5, <1>6, <1>7, <1>10, SavedCovers

\* A finalized transfer.  x is what was sent and what it cost.
LEMMA FundedSolvent ==
  ASSUME RowsFit, AllCovered, IInv', UNCHANGED <<known, claims, costs>>, NEW p \in Payments,
         ~pay[p].funded, ~pay[p].failed,
         pay[p].status \in {"reserved", "funding_pending", "uncertain"},
         NEW x, Funded(p, x), x.sol \in Nat, x.gas \in Nat, x.over \in BOOLEAN,
         x.basis \in Int, x.net \in Int,
         x.gas = 0 => x.net >= 0,
         ~x.over /\ (pay[p].plan # None => pay[p].from >= 0) =>
           x.basis + x.net <= pay[p].budget,
         ~x.over /\ (pay[p].plan # None => pay[p].from >= 0)
           /\ AvailableLamports(pay[p].token) >= 0 /\ AvailableBasis(pay[p].token) >= 0 =>
             /\ x.sol + x.gas <= AvailableLamports(pay[p].token) + HeldLamports(pay[p])
             /\ x.basis + (IF x.gas > 0 THEN x.net ELSE 0)
                  <= AvailableBasis(pay[p].token) + HeldBasis(pay[p])
  PROVE  RowsFit' /\ AllCovered'
<1>1. PICK r, l : r = pay[p] /\ l = led[p]
  OBVIOUS
<1>2. Kept(r, l) /\ Sound(r, l)
  BY <1>1 DEF RowsFit, IInv
<1>3. PICK fx, s : /\ fx = x.usd + x.fee - x.basis - x.net
                   /\ s = IF x.over THEN "uncertain" ELSE "funding_submitted"
  OBVIOUS
<1>4. PICK q, m : /\ q = [r EXCEPT !.funded = TRUE, !.sol = x.sol, !.gas = x.gas, !.usd = x.usd,
                                   !.fee = x.fee, !.basis = x.basis, !.net = x.net, !.fx = fx,
                                   !.over = x.over, !.status = s]
                  /\ m = [l EXCEPT !.reserved = @ + fx - x.fee, !.fx = @ - fx, !.cost = @ + x.fee]
  OBVIOUS
<1>5. Save(p, q) /\ Book(p, m)
  BY <1>1, <1>3, <1>4 DEF Funded
<1>6. m.available = l.available
  BY <1>2, <1>4 DEF Kept, IsSheet, Accounts
<1>7. /\ q.status = s /\ q.token = r.token /\ q.budget = r.budget /\ q.plan = r.plan
      /\ q.lamports = r.lamports /\ q.from = r.from /\ q.pinned = r.pinned
      /\ q.funded = TRUE /\ q.failed = r.failed /\ q.over = x.over /\ q.sol = x.sol
      /\ q.gas = x.gas /\ q.basis = x.basis /\ q.net = x.net /\ q.credited = r.credited
      /\ q.completion = r.completion
  BY <1>2, <1>4 DEF Kept, IsRow, Columns
<1>8. s \in {"uncertain", "funding_submitted"}
  BY <1>3
<1>9. r.token \in Tokens /\ r.credited \in BOOLEAN /\ r.completion \in Completions
  BY <1>1, <1>2 DEF Sound, Typed
<1>10. PICK a, b, c : /\ a = AvailableLamports(r.token) /\ b = AvailableBasis(r.token)
                      /\ c = AvailableCents(r.token)
  OBVIOUS
<1>11. a \in Int /\ b \in Int /\ c \in Int
  BY <1>9, <1>10, BalancesAreInts
<1>12. CostOf(q) = x.basis + (IF x.gas > 0 THEN x.net ELSE 0)
  BY <1>7 DEF CostOf
<1>13. /\ ~q.over /\ (r.plan # None => r.from >= 0) => q.basis + q.net <= r.budget
       /\ ~q.over /\ (r.plan # None => r.from >= 0) /\ a >= 0 /\ b >= 0 =>
            q.sol + q.gas <= a + HeldLamports(r) /\ CostOf(q) <= b + HeldBasis(r)
       /\ q.gas = 0 => q.net >= 0
  BY <1>1, <1>7, <1>10, <1>12
<1>14. ASSUME Kept(q, m) PROVE Change(r, l, q, m, a, b, c)
  <2>1. /\ q.over \in BOOLEAN /\ q.sol \in Nat /\ q.gas \in Nat /\ q.credited \in BOOLEAN
        /\ q.completion \in Completions /\ q.status \in {"uncertain", "funding_submitted"}
    BY <1>7, <1>8, <1>9
  <2>2. /\ ~r.funded /\ ~r.failed /\ r.status \in {"reserved", "funding_pending", "uncertain"}
    BY <1>1
  <2>3. QED
    BY <1>2, <1>6, <1>7, <1>11, <1>13, <1>14, <2>1, <2>2, FundedCovers
<1>15. QED
  BY <1>1, <1>5, <1>7, <1>10, <1>14, SavedCovers

\* What a native reservation costs is a part of what it holds, within its ceiling.
LEMMA BasisGrows ==
  ASSUME NEW r, Planned(r), r.plan \in Plans, r.lamports \in Nat, r.from \in Int, NEW x \in Nat
  PROVE  /\ Quotient(r.from * x, r.lamports) \in Int
         /\ r.from >= 0 /\ x <= r.plan.amount + r.plan.maxFee =>
              Quotient(r.from * x, r.lamports) <= r.pinned
<1>1. PICK k \in Nat : k = r.plan.amount + r.plan.maxFee
  BY LedgerAssumption
<1>2. r.lamports \in Nat \ {0} /\ r.pinned = Quotient(r.from * k, r.lamports)
  BY <1>1, LedgerAssumption DEF Planned
<1>3. r.from * x \in Int
  OBVIOUS
<1>4. Quotient(r.from * x, r.lamports) \in Int
  BY <1>2, <1>3, QuotientIsInt
<1>5. ASSUME r.from >= 0, x <= k PROVE Quotient(r.from * x, r.lamports) <= r.pinned
  <2>1. r.from * x <= r.from * k
    BY <1>5, TimesGrows
  <2>2. r.from * x \in Nat /\ r.from * k \in Nat
    BY <1>5
  <2>3. QED
    BY <1>2, <2>1, <2>2, QuotientGrows
<1>6. QED
  BY <1>1, <1>4, <1>5

\* recordNativeFunding: the transfer was paid for from what was held.
LEMMA NativeFundingSolvent ==
  ASSUME RowsFit, AllCovered, IInv', NEW p \in Payments, NEW gas \in Gases,
         RecordNativeFunding(p, gas)
  PROVE  RowsFit' /\ AllCovered'
<1>1. PICK r, l, n : r = pay[p] /\ l = led[p] /\ n = r.plan
  OBVIOUS
<1>2. Kept(r, l) /\ Sound(r, l)
  BY <1>1 DEF RowsFit, IInv
<1>3. PICK basis, both : basis = BasisOf(p, n.amount) /\ both = BasisOf(p, n.amount + gas)
  OBVIOUS
<1>4. PICK x : x = [sol |-> n.amount, gas |-> gas, usd |-> Value(n.amount),
                    fee |-> GasCents(gas), basis |-> basis, net |-> both - basis,
                    over |-> Overrun(n, gas)]
  OBVIOUS
<1>5. /\ Funded(p, x) /\ n # None /\ r.status \in {"funding_pending", "uncertain"}
      /\ ~r.funded /\ ~r.failed /\ UNCHANGED <<known, claims, costs>>
  BY <1>1, <1>3, <1>4 DEF RecordNativeFunding
<1>6. /\ n \in Plans /\ Planned(r) /\ r.lamports \in Nat /\ r.from \in Int /\ r.budget \in Nat
      /\ r.pinned \in Int /\ r.token \in Tokens
  BY <1>1, <1>2, <1>5 DEF Sound, Typed
<1>7. n.amount \in Nat /\ n.maxFee \in Nat /\ gas \in Nat
  BY <1>6, LedgerAssumption
<1>8. basis = Quotient(r.from * n.amount, r.lamports)
      /\ both = Quotient(r.from * (n.amount + gas), r.lamports)
  BY <1>1, <1>3 DEF BasisOf
<1>9. /\ basis \in Int /\ both \in Int
      /\ r.from >= 0 => basis <= r.pinned
      /\ r.from >= 0 /\ gas <= n.maxFee => both <= r.pinned
  <2>1. PICK k \in Nat : k = n.amount + gas
    BY <1>7
  <2>2. n.amount <= n.amount + n.maxFee /\ (gas <= n.maxFee => k <= n.amount + n.maxFee)
    BY <1>7, <2>1
  <2>3. /\ Quotient(r.from * n.amount, r.lamports) \in Int
        /\ r.from >= 0 => Quotient(r.from * n.amount, r.lamports) <= r.pinned
    BY <1>1, <1>6, <1>7, <2>2, BasisGrows
  <2>4. /\ Quotient(r.from * k, r.lamports) \in Int
        /\ r.from >= 0 /\ k <= n.amount + n.maxFee => Quotient(r.from * k, r.lamports) <= r.pinned
    BY <1>1, <1>6, <2>1, BasisGrows
  <2>5. QED
    BY <1>8, <2>1, <2>2, <2>3, <2>4
<1>10. gas = 0 => both = basis
  BY <1>7, <1>8
<1>11. /\ x.sol = n.amount /\ x.gas = gas /\ x.basis = basis /\ x.net = both - basis
       /\ x.over = Overrun(n, gas)
  BY <1>4
<1>21. x.over \in BOOLEAN
  BY <1>11 DEF Overrun
<1>22. ASSUME ~x.over PROVE gas <= n.maxFee
  <2>1. ~Overrun(n, gas)
    BY <1>11, <1>22
  <2>2. ~(gas > n.maxFee)
    BY <2>1 DEF Overrun
  <2>3. QED
    BY <1>7, <2>2
<1>12. HeldLamports(r) = n.amount + n.maxFee /\ HeldBasis(r) = r.pinned
  BY <1>1, <1>5 DEF HeldLamports, HeldBasis, Pins
<1>13. r.pinned <= r.budget
  BY <1>1, <1>5, <1>6 DEF Planned
<1>14. PICK s, b : s = AvailableLamports(r.token) /\ b = AvailableBasis(r.token)
  OBVIOUS
<1>15. s \in Int /\ b \in Int
  BY <1>6, <1>14, BalancesAreInts
<1>16. x.basis + x.net = both
  BY <1>9, <1>11
<1>17. ASSUME ~x.over, r.from >= 0
       PROVE  basis <= r.pinned /\ both <= r.pinned /\ both <= r.budget
  <2>1. gas <= n.maxFee
    BY <1>17, <1>22
  <2>2. basis <= r.pinned /\ both <= r.pinned
    BY <1>9, <1>17, <2>1
  <2>3. both <= r.budget
    BY <1>6, <1>9, <1>13, <2>2
  <2>4. QED
    BY <2>2, <2>3
<1>18. r.plan # None
  BY <1>1, <1>5
<1>23. x.gas = 0 => x.net >= 0
  BY <1>9, <1>10, <1>11
<1>24. ASSUME ~x.over, r.from >= 0, s >= 0, b >= 0
       PROVE  /\ x.sol + x.gas <= s + HeldLamports(r)
              /\ x.basis + (IF x.gas > 0 THEN x.net ELSE 0) <= b + HeldBasis(r)
  <2>1. x.sol + x.gas <= s + HeldLamports(r)
    BY <1>7, <1>11, <1>12, <1>15, <1>22, <1>24
  <2>2. CASE x.gas > 0
    BY <1>6, <1>9, <1>12, <1>15, <1>16, <1>17, <1>24, <2>1, <2>2
  <2>3. CASE ~(x.gas > 0)
    <3>1. x.basis <= r.pinned /\ x.basis \in Int
      BY <1>9, <1>11, <1>17, <1>24
    <3>2. QED
      BY <1>6, <1>12, <1>15, <1>24, <2>1, <2>3, <3>1
  <2>4. QED
    BY <2>2, <2>3
<1>19. /\ x.sol \in Nat /\ x.gas \in Nat /\ x.basis \in Int /\ x.net \in Int
  BY <1>7, <1>9, <1>11
<1>25. ~x.over /\ (r.plan # None => r.from >= 0) => x.basis + x.net <= r.budget
  BY <1>16, <1>17, <1>18
<1>26. ~x.over /\ (r.plan # None => r.from >= 0) /\ s >= 0 /\ b >= 0 =>
         /\ x.sol + x.gas <= s + HeldLamports(r)
         /\ x.basis + (IF x.gas > 0 THEN x.net ELSE 0) <= b + HeldBasis(r)
  BY <1>18, <1>24
<1>27. ~pay[p].funded /\ ~pay[p].failed /\ UNCHANGED <<known, claims, costs>>
       /\ pay[p].status \in {"reserved", "funding_pending", "uncertain"}
  BY <1>1, <1>5
<1>20. QED
  BY <1>1, <1>5, <1>14, <1>19, <1>21, <1>23, <1>25, <1>26, <1>27, FundedSolvent

\* recordFunding: the transfer was paid for from what there is.
LEMMA FundingSolvent ==
  ASSUME RowsFit, AllCovered, IInv', NEW p \in Payments, NEW x \in Transfers,
         RecordFunding(p, x)
  PROVE  RowsFit' /\ AllCovered'
<1>1. PICK r, l : r = pay[p] /\ l = led[p]
  OBVIOUS
<1>2. Kept(r, l) /\ Sound(r, l)
  BY <1>1 DEF RowsFit, IInv
<1>3. PICK s, b : s = AvailableLamports(r.token) /\ b = AvailableBasis(r.token)
  OBVIOUS
<1>4. PICK used : used = x.sol + x.gas
  OBVIOUS
<1>5. PICK basis : basis = Quotient(b * x.sol, s)
  OBVIOUS
<1>6. PICK net : net = IF x.gas > 0 THEN Quotient(b * used, s) - basis ELSE x.fee
  OBVIOUS
<1>7. PICK y : y = [sol |-> x.sol, gas |-> x.gas, usd |-> x.usd, fee |-> x.fee,
                    basis |-> basis, net |-> net, over |-> FALSE]
  OBVIOUS
<1>8. /\ Funded(p, y) /\ r.plan = None /\ ~r.funded
      /\ r.status \in {"reserved", "funding_pending", "uncertain"}
      /\ s > 0 /\ used <= s /\ basis + net <= r.budget
      /\ UNCHANGED <<known, claims, costs>>
  BY <1>1, <1>3, <1>4, <1>5, <1>6, <1>7 DEF RecordFunding
<1>9. r.token \in Tokens /\ ~r.failed
  BY <1>2, <1>8 DEF Sound, Typed
<1>10. s \in Nat \ {0} /\ b \in Int
  BY <1>3, <1>8, <1>9, BalancesAreInts
<1>11. x.sol \in Nat /\ x.gas \in Nat /\ x.fee \in Nat /\ x.sol <= used /\ used \in Nat
  BY <1>4, LedgerAssumption
<1>12. /\ y.sol = x.sol /\ y.gas = x.gas /\ y.basis = basis /\ y.net = net /\ y.over = FALSE
  BY <1>7
<1>13. basis \in Int /\ net \in Int
  BY <1>8, <1>12 DEF Funded, Entries
<1>14. HeldLamports(r) = 0 /\ HeldBasis(r) = 0
  BY <1>8 DEF HeldLamports, HeldBasis, Pins
<1>15. y.gas = 0 => y.net >= 0
  BY <1>6, <1>11, <1>12
<1>16. ASSUME b >= 0
       PROVE  basis + (IF x.gas > 0 THEN net ELSE 0) <= b
  <2>1. b \in Nat
    BY <1>10, <1>16
  <2>2. CASE x.gas > 0
    <3>1. PICK both : both = Quotient(b * used, s)
      OBVIOUS
    <3>2. both \in 0 .. b
      BY <1>8, <1>10, <1>11, <2>1, <3>1, QuotientOfPart
    <3>3. net = both - basis
      BY <1>6, <2>2, <3>1
    <3>4. QED
      BY <1>13, <2>1, <2>2, <3>2, <3>3
  <2>3. CASE ~(x.gas > 0)
    <3>1. basis \in 0 .. b
      <4>1. x.sol <= s
        BY <1>8, <1>10, <1>11
      <4>2. QED
        BY <1>5, <1>10, <1>11, <2>1, <4>1, QuotientOfPart
    <3>2. QED
      BY <2>1, <2>3, <3>1
  <2>4. QED
    BY <2>2, <2>3
<1>17. /\ y.over \in BOOLEAN /\ y.sol \in Nat /\ y.gas \in Nat /\ y.basis \in Int /\ y.net \in Int
       /\ y.basis + y.net <= r.budget
  BY <1>8, <1>11, <1>12, <1>13
<1>18. s >= 0 /\ b >= 0 =>
         /\ y.sol + y.gas <= s + HeldLamports(r)
         /\ y.basis + (IF y.gas > 0 THEN y.net ELSE 0) <= b + HeldBasis(r)
  <2>1. y.sol + y.gas = used /\ s + HeldLamports(r) = s /\ b + HeldBasis(r) = b
    BY <1>4, <1>10, <1>12, <1>14
  <2>2. QED
    BY <1>8, <1>12, <1>16, <2>1
<1>19. QED
  BY <1>1, <1>3, <1>8, <1>9, <1>15, <1>17, <1>18, FundedSolvent

\* resolveFailedFunding.
LEMMA ResolveFailedSolvent ==
  ASSUME RowsFit, AllCovered, IInv', NEW p \in Payments, NEW gas \in Gases,
         ResolveFailed(p, gas)
  PROVE  RowsFit' /\ AllCovered'
<1>1. PICK r, l : r = pay[p] /\ l = led[p]
  OBVIOUS
<1>2. Kept(r, l) /\ Sound(r, l)
  BY <1>1 DEF RowsFit, IInv
<1>3. PICK a, b, c : /\ a = AvailableLamports(r.token) /\ b = AvailableBasis(r.token)
                     /\ c = AvailableCents(r.token)
  OBVIOUS
<1>4. PICK lamports, from : /\ lamports = IF r.plan # None THEN r.lamports ELSE a
                            /\ from = IF r.plan # None THEN r.from ELSE b
  OBVIOUS
<1>5. PICK basis : basis = IF gas = 0 THEN 0 ELSE Quotient(from * gas, lamports)
  OBVIOUS
<1>6. PICK fee, over : fee = GasCents(gas) /\ over = (r.plan # None /\ Overrun(r.plan, gas))
  OBVIOUS
<1>7. PICK q, m : /\ q = [r EXCEPT !.status = "cancelled", !.failed = TRUE, !.gas = gas,
                                   !.fee = fee, !.basis = basis, !.fx = fee - basis, !.over = over]
                  /\ m = [l EXCEPT !.reserved = @ + (fee - basis) - fee - (r.budget - basis),
                                   !.fx = @ - (fee - basis), !.cost = @ + fee,
                                   !.available = @ + (r.budget - basis)]
  OBVIOUS
<1>8. /\ Save(p, q) /\ Book(p, m) /\ UNCHANGED <<known, claims, costs>>
      /\ r.status \in {"funding_pending", "uncertain"} /\ ~r.funded /\ ~r.failed
      /\ gas > 0 => lamports > 0
      /\ r.plan = None => gas <= lamports /\ basis <= r.budget
      /\ basis \in Int
  BY <1>1, <1>3, <1>4, <1>5, <1>6, <1>7 DEF ResolveFailed, Released, Entries
<1>9. m.available = l.available + (r.budget - basis)
  BY <1>2, <1>7 DEF Kept, IsSheet, Accounts
<1>10. /\ q.status = "cancelled" /\ q.token = r.token /\ q.budget = r.budget /\ q.plan = r.plan
       /\ q.lamports = r.lamports /\ q.from = r.from /\ q.pinned = r.pinned
       /\ q.funded = r.funded /\ q.failed = TRUE /\ q.over = over /\ q.sol = r.sol
       /\ q.gas = gas /\ q.basis = basis /\ q.net = r.net /\ q.credited = r.credited
       /\ q.completion = r.completion
  BY <1>2, <1>7 DEF Kept, IsRow, Columns
<1>11. r.token \in Tokens /\ r.credited \in BOOLEAN /\ r.completion \in Completions
  BY <1>2, <1>8 DEF Sound, Typed
<1>12. a \in Int /\ b \in Int /\ c \in Int
  BY <1>3, <1>11, BalancesAreInts
<1>13. gas \in Nat
  BY LedgerAssumption
<1>14. over \in BOOLEAN
  BY <1>6 DEF Overrun
<1>15. ASSUME ~over, r.plan # None => r.from >= 0, a >= 0, b >= 0
       PROVE  /\ gas <= a + HeldLamports(r) /\ basis <= b + HeldBasis(r)
              /\ basis <= r.budget
  <2>1. CASE r.plan = None
    <3>1. HeldLamports(r) = 0 /\ HeldBasis(r) = 0 /\ lamports = a /\ from = b
      BY <1>4, <2>1 DEF HeldLamports, HeldBasis, Pins
    <3>2. gas <= a /\ basis <= r.budget
      BY <1>8, <2>1, <3>1
    <3>3. basis <= b
      <4>1. CASE gas = 0
        BY <1>5, <1>12, <1>15, <4>1
      <4>2. CASE gas # 0
        <5>1. b \in Nat /\ a \in Nat \ {0} /\ gas <= a
          BY <1>8, <1>12, <1>13, <1>15, <3>1, <3>2, <4>2
        <5>2. Quotient(b * gas, a) \in 0 .. b
          BY <1>13, <5>1, QuotientOfPart
        <5>3. QED
          BY <1>5, <3>1, <4>2, <5>1, <5>2
      <4>3. QED
        BY <4>1, <4>2
    <3>4. QED
      BY <1>12, <3>1, <3>2, <3>3
  <2>2. CASE r.plan # None
    <3>1. PICK n : n = r.plan
      OBVIOUS
    <3>2. /\ n \in Plans /\ Planned(r) /\ r.lamports \in Nat /\ r.from \in Int /\ r.budget \in Nat
          /\ r.pinned \in Int
      BY <1>2, <2>2, <3>1 DEF Sound, Typed
    <3>3. n.amount \in Nat /\ n.maxFee \in Nat
      BY <3>2, LedgerAssumption
    <3>4. HeldLamports(r) = n.amount + n.maxFee /\ HeldBasis(r) = r.pinned
      BY <1>8, <2>2, <3>1 DEF HeldLamports, HeldBasis, Pins
    <3>5. gas <= n.maxFee
      <4>1. ~Overrun(n, gas)
        BY <1>6, <1>15, <2>2, <3>1
      <4>2. ~(gas > n.maxFee)
        BY <4>1 DEF Overrun
      <4>3. QED
        BY <1>13, <3>3, <4>2
    <3>6. 0 <= r.pinned /\ r.pinned <= r.budget
      <4>1. Quotient(r.from * 0, r.lamports) \in Int /\ Quotient(r.from * 0, r.lamports) <= r.pinned
        <5>1. r.from >= 0 /\ 0 <= n.amount + n.maxFee /\ r.plan \in Plans /\ 0 \in Nat
          BY <1>15, <2>2, <3>1, <3>2, <3>3
        <5>2. QED
          BY <3>1, <3>2, <5>1, BasisGrows
      <4>2. Quotient(r.from * 0, r.lamports) = 0
        <5>1. r.lamports \in Nat \ {0} /\ r.from * 0 = 0
          BY <2>2, <3>2 DEF Planned
        <5>2. Quotient(0, r.lamports) = 0 \div r.lamports
          BY <5>1, QuotientIs
        <5>3. 0 \div r.lamports = 0
          BY <5>1, DivisionOf
        <5>4. QED
          BY <5>1, <5>2, <5>3
      <4>3. QED
        BY <2>2, <3>2, <4>1, <4>2 DEF Planned
    <3>7. basis <= r.pinned
      <4>1. CASE gas = 0
        BY <1>5, <3>6, <4>1
      <4>2. CASE gas # 0
        <5>1. basis = Quotient(r.from * gas, r.lamports)
          BY <1>4, <1>5, <2>2, <4>2
        <5>2. r.from >= 0 /\ gas <= n.amount + n.maxFee /\ r.plan \in Plans
          BY <1>13, <1>15, <2>2, <3>1, <3>2, <3>3, <3>5
        <5>3. QED
          BY <1>13, <3>1, <3>2, <5>1, <5>2, BasisGrows
      <4>3. QED
        BY <4>1, <4>2
    <3>8. basis <= r.budget
      BY <1>8, <3>2, <3>6, <3>7
    <3>9. QED
      BY <1>8, <1>12, <1>13, <1>15, <3>2, <3>3, <3>4, <3>5, <3>7, <3>8
  <2>3. QED
    BY <2>1, <2>2
<1>16. ASSUME Kept(q, m) PROVE Change(r, l, q, m, a, b, c)
  <2>1. /\ m.available = l.available + (r.budget - q.basis) /\ q.over \in BOOLEAN /\ q.gas \in Nat
        /\ q.credited \in BOOLEAN /\ q.completion \in Completions
    BY <1>9, <1>10, <1>11, <1>13, <1>14
  <2>2. ~q.over /\ (r.plan # None => r.from >= 0) /\ a >= 0 /\ b >= 0 =>
          /\ q.gas <= a + HeldLamports(r) /\ q.basis <= b + HeldBasis(r)
          /\ q.basis <= r.budget
    BY <1>10, <1>15
  <2>3. QED
    BY <1>2, <1>8, <1>10, <1>12, <1>16, <2>1, <2>2, FailedCovers
<1>17. QED
  BY <1>1, <1>3, <1>8, <1>10, <1>16, SavedCovers

\* An operation that touches no payment and no claim keeps them too.
LEMMA QuietSolvent ==
  ASSUME RowsFit, AllCovered, IInv', Tables', UNCHANGED <<claims, pay, led>>
  PROVE  RowsFit' /\ AllCovered'
<1>1. RowsFit'
  BY DEF RowsFit
<1>2. \A t \in Tokens :
        /\ Of(t)' = Of(t) /\ Pinned(t)' = Pinned(t) /\ ClaimsOf(t)' = ClaimsOf(t)
        /\ \A p \in Payments : UsedBasis(p)' = UsedBasis(p)
  BY DEF Of, Pinned, ClaimsOf, UsedBasis
<1>3. ASSUME NEW t \in Tokens
      PROVE  /\ AvailableLamports(t)' = AvailableLamports(t)
             /\ AvailableBasis(t)' = AvailableBasis(t) /\ AvailableCents(t)' = AvailableCents(t)
  BY <1>2 DEF AvailableLamports, AvailableBasis, AvailableCents, Of, Pinned, ClaimsOf, UsedBasis
<1>4. AllCovered'
  BY <1>2, <1>3 DEF AllCovered, Covers, NoOverrun
<1>5. QED
  BY <1>1, <1>4

\* Nor does what an operator's completion does before its transaction.
LEMMA KeptSolvent ==
  ASSUME RowsFit, AllCovered, IInv', UNCHANGED <<known, claims, costs, pay, led>>
  PROVE  RowsFit' /\ AllCovered'
<1>1. Tables'
  BY DEF RowsFit, Tables
<1>2. QED
  BY <1>1, QuietSolvent

\* Every operation on a payment keeps the rows sound and the tokens covered.
LEMMA PaysSolvent ==
  ASSUME RowsFit, AllCovered, IInv', NEW p \in Payments, Pays(p)
  PROVE  RowsFit' /\ AllCovered'
<1>1. CASE \E t \in Tokens : \E b \in Budgets \cup {AvailableCents(t)} : Reserve(p, t, b)
  BY <1>1, ReserveSolvent
<1>2. CASE \E n \in Plans : ReserveNative(p, n)
  BY <1>2, PlannedSolvent
<1>3. CASE BeginFunding(p) \/ StartPayment(p) \/ MarkUncertain(p)
  BY <1>3, StatusSolvent
<1>4. CASE \E gas \in Gases : RecordNativeFunding(p, gas)
  BY <1>4, NativeFundingSolvent
<1>5. CASE \E x \in Transfers : RecordFunding(p, x)
  BY <1>5, FundingSolvent
<1>6. CASE \E c \in Credits : RecordNativeCredit(p, c) \/ RecordCardCredit(p, c)
  BY <1>6, CreditSolvent
<1>7. CASE \E e \in checked : e.payment = p /\ (CompletePayment(e) \/ CheckedInVain(e))
  <2>1. PICK e \in checked : CompletePayment(e) \/ CheckedInVain(e)
    BY <1>7
  <2>2. CASE CheckedInVain(e)
    BY <2>2, KeptSolvent DEF CheckedInVain
  <2>3. QED
    BY <2>1, <2>2, CompleteSolvent
<1>8. CASE CancelPayment(p)
  BY <1>8, CancelSolvent
<1>9. CASE \E gas \in Gases : ResolveFailed(p, gas)
  BY <1>9, ResolveFailedSolvent
<1>10. CASE \E spent \in Spends, c \in Filings : CompletePaymentVerified(p, spent, c)
  BY <1>10, CompleteVerifiedSolvent
<1>11. CASE \E spent \in Spends, ref \in Refs \cup {None}, url \in Urls \cup {None} :
              Check(p, spent, ref, url)
  BY <1>11, KeptSolvent DEF Check
<1>12. QED
  BY <1>1, <1>2, <1>3, <1>4, <1>5, <1>6, <1>7, <1>8, <1>9, <1>10, <1>11 DEF Pays

-----------------------------------------------------------------------------
\* A claim adds to what its token has earned.
LEMMA EarnedGrows ==
  ASSUME Tables, Tables', NEW c \in Claims, c \notin claims, claims' = claims \cup {c}, NEW t
  PROVE  EarnedLamports(t)' >= EarnedLamports(t) /\ EarnedCents(t)' >= EarnedCents(t)
<1>1. PICK S, R : S = ClaimsOf(t) /\ R = ClaimsOf(t)'
  OBVIOUS
<1>2. IsFiniteSet(S) /\ c \notin S
  BY <1>1, FS_Subset DEF Tables, ClaimsOf
<1>3. \A d \in R : d.lamports \in Nat /\ d.gross \in Nat
  BY <1>1, LedgerAssumption DEF Tables, ClaimsOf
<1>4. \A x \in Nat : StreamerShare(t, x) \in Nat
  BY SharesAreParts
<1>5. PICK f, g, h, k : /\ f = [d \in S |-> StreamerShare(t, d.lamports)]
                        /\ g = [d \in R |-> StreamerShare(t, d.lamports)]
                        /\ h = [d \in S |-> StreamerShare(t, d.gross)]
                        /\ k = [d \in R |-> StreamerShare(t, d.gross)]
  OBVIOUS
<1>6. /\ EarnedLamports(t) = SumFunction(f) /\ EarnedLamports(t)' = SumFunction(g)
      /\ EarnedCents(t) = SumFunction(h) /\ EarnedCents(t)' = SumFunction(k)
  BY <1>1, <1>5 DEF EarnedLamports, EarnedCents
<1>7. S \in SUBSET R
  BY <1>1 DEF ClaimsOf
<1>8. /\ f \in [S -> Int] /\ g \in [R -> Int] /\ h \in [S -> Int] /\ k \in [R -> Int]
  BY <1>3, <1>4, <1>5, <1>7
<1>9. CASE c.token = t
  <2>1. R = S \cup {c}
    BY <1>1, <1>9 DEF ClaimsOf
  <2>2. SumFunction(g) = SumFunction(f) + g[c] /\ SumFunction(k) = SumFunction(h) + k[c]
    <3>1. \A d \in S : g[d] = f[d] /\ k[d] = h[d]
      BY <1>5, <1>7
    <3>2. QED
      BY <1>2, <1>8, <2>1, <3>1, SumOneMore
  <2>3. g[c] \in Nat /\ k[c] \in Nat
    BY <1>3, <1>4, <1>5, <2>1
  <2>4. SumFunction(f) \in Int /\ SumFunction(h) \in Int
    BY <1>2, <1>8, SumIsInt
  <2>5. QED
    BY <1>6, <2>2, <2>3, <2>4
<1>10. CASE c.token # t
  <2>1. R = S
    BY <1>1, <1>10 DEF ClaimsOf
  <2>2. f = g /\ h = k
    BY <1>5, <2>1
  <2>3. SumFunction(f) \in Int /\ SumFunction(h) \in Int
    BY <1>2, <1>8, SumIsInt
  <2>4. QED
    BY <1>6, <2>2, <2>3
<1>11. QED
  BY <1>9, <1>10

\* recordClaim.
LEMMA ClaimSolvent ==
  ASSUME RowsFit, AllCovered, IInv', Tables', NEW c \in Claims, RecordClaim(c)
  PROVE  RowsFit' /\ AllCovered'
<1>1. c \notin claims /\ claims' = claims \cup {c} /\ UNCHANGED <<pay, led>>
  BY DEF RecordClaim, New
<1>2. RowsFit'
  BY <1>1 DEF RowsFit
<1>3. Tables
  BY DEF RowsFit
<1>4. ASSUME NEW t \in Tokens
      PROVE  /\ AvailableLamports(t)' >= AvailableLamports(t)
             /\ AvailableBasis(t)' >= AvailableBasis(t)
             /\ AvailableCents(t)' >= AvailableCents(t)
  <2>1. SumsOf(t) /\ SumsOf(t)'
    <3>1. BalancesAddUp /\ BalancesAddUp'
      BY <1>2, BalancesAre, PTL
    <3>2. QED
      BY <3>1 DEF BalancesAddUp
  <2>2. EarnedLamports(t)' >= EarnedLamports(t) /\ EarnedCents(t)' >= EarnedCents(t)
    BY <1>1, <1>3, EarnedGrows
  <2>3. PICK f, g, h : f = LamportsOf(t) /\ g = BasisFor(t) /\ h = CentsOf(t)
    OBVIOUS
  <2>4. LamportsOf(t)' = f /\ BasisFor(t)' = g /\ CentsOf(t)' = h
    BY <1>1, <2>3 DEF LamportsOf, BasisFor, CentsOf
  <2>5. SumFunction(f) \in Int /\ SumFunction(g) \in Int /\ SumFunction(h) \in Int
    BY <2>1, <2>3, SumIsInt, LedgerAssumption DEF SumsOf
  <2>6. PICK a, a1, b, b1 \in Int : /\ a = EarnedLamports(t) /\ a1 = EarnedLamports(t)'
                                    /\ b = EarnedCents(t) /\ b1 = EarnedCents(t)'
    BY <2>1 DEF SumsOf
  <2>7. /\ AvailableLamports(t) = a + SumFunction(f) /\ AvailableLamports(t)' = a1 + SumFunction(f)
        /\ AvailableBasis(t) = b + SumFunction(g) /\ AvailableBasis(t)' = b1 + SumFunction(g)
        /\ AvailableCents(t) = b + SumFunction(h) /\ AvailableCents(t)' = b1 + SumFunction(h)
    BY <2>1, <2>3, <2>4, <2>6 DEF SumsOf
  <2>8. QED
    BY <2>2, <2>5, <2>6, <2>7
<1>5. \A t \in Tokens : Of(t)' = Of(t) /\ (NoOverrun(t)' <=> NoOverrun(t))
  BY <1>1 DEF Of, NoOverrun
<1>6. ASSUME NEW t \in Tokens, NoOverrun(t)' PROVE Covers(t)'
  <2>1. Covers(t)
    BY <1>5, <1>6 DEF AllCovered
  <2>2. /\ AvailableLamports(t) \in Int /\ AvailableBasis(t) \in Int /\ AvailableCents(t) \in Int
        /\ AvailableLamports(t)' \in Int /\ AvailableBasis(t)' \in Int /\ AvailableCents(t)' \in Int
    <3>1. RowsFit' => /\ AvailableLamports(t)' \in Int /\ AvailableBasis(t)' \in Int
                      /\ AvailableCents(t)' \in Int
      <4>1. SumsOf(t)'
        <5>1. BalancesAddUp'
          BY <1>2, BalancesAre, PTL
        <5>2. QED
          BY <5>1 DEF BalancesAddUp
      <4>2. PICK f, g, h : f = LamportsOf(t)' /\ g = BasisFor(t)' /\ h = CentsOf(t)'
        OBVIOUS
      <4>3. SumFunction(f) \in Int /\ SumFunction(g) \in Int /\ SumFunction(h) \in Int
        BY <4>1, <4>2, LedgerAssumption, SumIsInt DEF SumsOf
      <4>4. QED
        BY <4>1, <4>2, <4>3 DEF SumsOf
    <3>2. QED
      BY <1>2, <3>1, BalancesAreInts
  <2>3. \A p \in Of(t)' : pay'[p].plan # None => pay'[p].from >= 0
    BY <1>1, <1>5, <2>1 DEF Covers
  <2>4. AvailableLamports(t)' >= 0 /\ AvailableBasis(t)' >= 0 /\ AvailableCents(t)' >= 0
    BY <1>4, <2>1, <2>2 DEF Covers
  <2>5. QED
    BY <2>3, <2>4 DEF Covers
<1>7. QED
  BY <1>2, <1>6 DEF AllCovered

\* Every step keeps the rows sound and the tokens covered.
LEMMA RowsStep ==
  ASSUME RowsFit, AllCovered, IInv', [Next]_vars
  PROVE  RowsFit' /\ AllCovered'
<1>1. CASE \E t \in Tokens : RegisterToken(t)
  <2>1. Tables' /\ UNCHANGED <<claims, pay, led>>
    BY <1>1 DEF RegisterToken, RowsFit, Tables
  <2>2. QED
    BY <2>1, QuietSolvent
<1>2. CASE \E t \in Platform : RegisterPlatformToken(t)
  <2>1. Tables' /\ UNCHANGED <<claims, pay, led>>
    BY <1>2 DEF RegisterPlatformToken, RowsFit, Tables
  <2>2. QED
    BY <2>1, QuietSolvent
<1>3. CASE \E c \in Claims : RecordClaim(c)
  <2>1. PICK c \in Claims : RecordClaim(c)
    BY <1>3
  <2>2. Tables'
    <3>1. IsFiniteSet(claims \cup {c})
      BY FS_AddElement DEF RowsFit, Tables
    <3>2. QED
      BY <2>1, <3>1 DEF RecordClaim, RowsFit, Tables
  <2>3. QED
    BY <2>1, <2>2, ClaimSolvent
<1>4. CASE \E s \in Costs : RecordFailedClaimCost(s)
  <2>1. Tables' /\ UNCHANGED <<claims, pay, led>>
    BY <1>4 DEF RecordFailedClaimCost, RowsFit, Tables
  <2>2. QED
    BY <2>1, QuietSolvent
<1>5. CASE \E p \in Payments : Pays(p)
  BY <1>5, PaysSolvent
<1>6. CASE \E r \in Receipts : RecordTreasuryReceipt(r)
  <2>1. Tables' /\ UNCHANGED <<claims, pay, led>>
    BY <1>6 DEF RecordTreasuryReceipt, RowsFit, Tables
  <2>2. QED
    BY <2>1, QuietSolvent
<1>7. CASE UNCHANGED vars
  <2>1. Tables' /\ UNCHANGED <<claims, pay, led>>
    BY <1>7 DEF vars, RowsFit, Tables
  <2>2. QED
    BY <2>1, QuietSolvent
<1>8. QED
  BY <1>1, <1>2, <1>3, <1>4, <1>5, <1>6, <1>7 DEF Next

-----------------------------------------------------------------------------
\* The receipts are as they were kept.
ReceiptsFit == IsFiniteSet(receipts) /\ \A r \in receipts : IsReceipt(r)

\* A kept receipt's columns.
LEMMA ReceiptIs ==
  ASSUME NEW r, IsReceipt(r)
  PROVE  /\ r.moved \in Nat /\ r.consumed \in Nat /\ r.basis \in Int
         /\ r.kind = "Transfer" => Central(r)
         /\ r.kind # "Transfer" => r.moved = 0
         /\ \E q \in Receipts : q.wallet = r.wallet
<1>1. PICK q \in Receipts : r = [q EXCEPT !.basis = r.basis]
  BY DEF IsReceipt
<1>2. /\ DOMAIN q = {"id", "kind", "token", "wallet", "moved", "consumed", "units",
                     "parent", "basis", "verified"}
      /\ q.moved \in Nat /\ q.consumed \in Nat
      /\ IF q.kind = "Transfer" THEN q.wallet \notin {None, CreatorOf[q.token]} ELSE q.moved = 0
  BY LedgerAssumption
<1>3. /\ r.moved = q.moved /\ r.consumed = q.consumed /\ r.kind = q.kind /\ r.wallet = q.wallet
      /\ r.token = q.token
  BY <1>1, <1>2
<1>4. r.basis \in Int
  BY DEF IsReceipt
<1>5. QED
  BY <1>2, <1>3, <1>4 DEF Central

\* A receipt is kept with the cost the ledger put on it.
LEMMA ReceiptOf ==
  ASSUME NEW q \in Receipts, NEW k \in Int, NEW r, r = [q EXCEPT !.basis = k]
  PROVE  /\ IsReceipt(r) /\ r.basis = k /\ r.id = q.id /\ r.kind = q.kind /\ r.token = q.token
         /\ r.wallet = q.wallet /\ r.moved = q.moved /\ r.consumed = q.consumed
         /\ r.verified = q.verified
<1>1. DOMAIN q = {"id", "kind", "token", "wallet", "moved", "consumed", "units",
                  "parent", "basis", "verified"}
  BY LedgerAssumption
<1>2. /\ r.basis = k /\ r.id = q.id /\ r.kind = q.kind /\ r.token = q.token
      /\ r.wallet = q.wallet /\ r.moved = q.moved /\ r.consumed = q.consumed
      /\ r.verified = q.verified
  BY <1>1
<1>3. IsReceipt(r)
  BY <1>2 DEF IsReceipt
<1>4. QED
  BY <1>2, <1>3

\* What central wallets hold, with one receipt more.
LEMMA CentralAdds ==
  ASSUME NEW H, IsFiniteSet(H), \A r \in H : IsReceipt(r), NEW t
  PROVE  /\ CentralOf(t, H) \in Int
         /\ \A x : x \notin H /\ IsReceipt(x) =>
              CentralOf(t, H \cup {x}) =
                CentralOf(t, H) + (IF x.token = t /\ Central(x) THEN x.moved - x.consumed ELSE 0)
<1>1. PICK S : S = {q \in H : q.token = t /\ Central(q)}
  OBVIOUS
<1>2. IsFiniteSet(S) /\ S \in SUBSET H
  BY <1>1, FS_Subset
<1>3. PICK f : f = [r \in S |-> r.moved - r.consumed]
  OBVIOUS
<1>4. f \in [S -> Int]
  BY <1>2, <1>3, ReceiptIs
<1>5. CentralOf(t, H) = SumFunction(f) /\ SumFunction(f) \in Int
  BY <1>1, <1>2, <1>3, <1>4, SumIsInt DEF CentralOf
<1>6. ASSUME NEW x, x \notin H, IsReceipt(x)
      PROVE  CentralOf(t, H \cup {x}) =
               CentralOf(t, H) + (IF x.token = t /\ Central(x) THEN x.moved - x.consumed ELSE 0)
  <2>1. PICK R : R = {q \in H \cup {x} : q.token = t /\ Central(q)}
    OBVIOUS
  <2>2. PICK g : g = [r \in R |-> r.moved - r.consumed]
    OBVIOUS
  <2>3. CentralOf(t, H \cup {x}) = SumFunction(g)
    BY <2>1, <2>2 DEF CentralOf
  <2>4. CASE x.token = t /\ Central(x)
    <3>1. R = S \cup {x} /\ x \notin S
      BY <1>1, <1>6, <2>1, <2>4
    <3>2. \A r \in R : IsReceipt(r)
      BY <1>2, <1>6, <3>1
    <3>3. g \in [R -> Int] /\ \A r \in S : g[r] = f[r]
      BY <1>3, <2>2, <3>1, <3>2, ReceiptIs
    <3>4. SumFunction(g) = SumFunction(f) + g[x]
      BY <1>2, <1>4, <3>1, <3>3, SumOneMore
    <3>5. g[x] = x.moved - x.consumed
      BY <2>2, <3>1
    <3>6. QED
      BY <1>5, <2>3, <2>4, <3>4, <3>5
  <2>5. CASE ~(x.token = t /\ Central(x))
    <3>1. R = S
      BY <1>1, <2>1, <2>5
    <3>2. g = f
      BY <1>3, <2>2, <3>1
    <3>3. QED
      BY <1>5, <2>3, <2>5, <3>2
  <2>6. QED
    BY <2>4, <2>5
<1>7. QED
  BY <1>5, <1>6

\* What a token's share has earned, and what of it was spent.
ShareLamports(t) == SumFunction([c \in ClaimsOf(t) |-> Share(c.lamports)])
ShareCents(t) == SumFunction([c \in ClaimsOf(t) |-> Share(c.gross)])
ConsumedOf(t) == SumFunction([r \in ReceiptsOf(t) |-> r.consumed])
CostsOf(t) == SumFunction([r \in ReceiptsOf(t) |-> r.basis])

\* A token's share is a number.
LEMMA ShareIsInt ==
  ASSUME Tables, ReceiptsFit, NEW t
  PROVE  /\ ShareLamports(t) \in Int /\ ShareCents(t) \in Int
         /\ ConsumedOf(t) \in Int /\ CostsOf(t) \in Int
         /\ Buyback(t) = ShareLamports(t) - ConsumedOf(t)
         /\ BuybackCents(t) = ShareCents(t) - CostsOf(t)
         /\ Buyback(t) \in Int /\ BuybackCents(t) \in Int /\ AtCreator(t) \in Int
<1>1. IsFiniteSet(ClaimsOf(t)) /\ IsFiniteSet(ReceiptsOf(t))
  BY FS_Subset DEF Tables, ReceiptsFit, ClaimsOf, ReceiptsOf
<1>2. \A c \in ClaimsOf(t) : c.lamports \in Nat /\ c.gross \in Nat
  BY LedgerAssumption DEF Tables, ClaimsOf
<1>3. \A x \in Nat : Share(x) \in Int
  BY SharesAreParts
<1>4. /\ [c \in ClaimsOf(t) |-> Share(c.lamports)] \in [ClaimsOf(t) -> Int]
      /\ [c \in ClaimsOf(t) |-> Share(c.gross)] \in [ClaimsOf(t) -> Int]
  BY <1>2, <1>3
<1>5. \A r \in ReceiptsOf(t) : r.consumed \in Int /\ r.basis \in Int
  BY ReceiptIs DEF ReceiptsFit, ReceiptsOf
<1>6. /\ [r \in ReceiptsOf(t) |-> r.consumed] \in [ReceiptsOf(t) -> Int]
      /\ [r \in ReceiptsOf(t) |-> r.basis] \in [ReceiptsOf(t) -> Int]
  BY <1>5
<1>7. /\ ShareLamports(t) \in Int /\ ShareCents(t) \in Int
      /\ ConsumedOf(t) \in Int /\ CostsOf(t) \in Int
  BY <1>1, <1>4, <1>6, SumIsInt DEF ShareLamports, ShareCents, ConsumedOf, CostsOf
<1>8. /\ Buyback(t) = ShareLamports(t) - ConsumedOf(t)
      /\ BuybackCents(t) = ShareCents(t) - CostsOf(t)
  BY DEF Buyback, BuybackCents, ShareLamports, ShareCents, ConsumedOf, CostsOf
<1>9. CentralOf(t, receipts) \in Int
  BY CentralAdds DEF ReceiptsFit
<1>10. Buyback(t) \in Int /\ BuybackCents(t) \in Int
  BY <1>7, <1>8
<1>11. AtCreator(t) \in Int
  BY <1>9, <1>10 DEF AtCreator
<1>12. QED
  BY <1>7, <1>8, <1>10, <1>11

\* What a receipt takes from its token's share.
LEMMA OneReceiptMore ==
  ASSUME Tables, ReceiptsFit, UNCHANGED claims, NEW x, IsReceipt(x), x \notin receipts,
         receipts' = receipts \cup {x}, NEW t
  PROVE  /\ Buyback(t)' = Buyback(t) - (IF x.token = t THEN x.consumed ELSE 0)
         /\ BuybackCents(t)' = BuybackCents(t) - (IF x.token = t THEN x.basis ELSE 0)
<1>1. PICK S, R : S = ReceiptsOf(t) /\ R = ReceiptsOf(t)'
  OBVIOUS
<1>2. IsFiniteSet(S) /\ x \notin S /\ \A r \in S : IsReceipt(r)
  BY <1>1, FS_Subset DEF ReceiptsFit, ReceiptsOf
<1>3. PICK f, g, h, k : /\ f = [r \in S |-> r.consumed] /\ g = [r \in R |-> r.consumed]
                        /\ h = [r \in S |-> r.basis] /\ k = [r \in R |-> r.basis]
  OBVIOUS
<1>4. PICK a, b : a = ShareLamports(t) /\ b = ShareCents(t)
  OBVIOUS
<1>5. ShareLamports(t)' = a /\ ShareCents(t)' = b
  BY <1>4 DEF ShareLamports, ShareCents, ClaimsOf
<1>6. /\ Buyback(t) = a - SumFunction(f) /\ Buyback(t)' = a - SumFunction(g)
      /\ BuybackCents(t) = b - SumFunction(h) /\ BuybackCents(t)' = b - SumFunction(k)
  BY <1>1, <1>3, <1>4, <1>5 DEF Buyback, BuybackCents, ShareLamports, ShareCents
<1>7. a \in Int /\ b \in Int /\ SumFunction(f) \in Int /\ SumFunction(h) \in Int
  BY <1>1, <1>3, <1>4, ShareIsInt DEF ConsumedOf, CostsOf
<1>8. f \in [S -> Int] /\ h \in [S -> Int]
  BY <1>2, <1>3, ReceiptIs
<1>9. CASE x.token = t
  <2>1. R = S \cup {x}
    BY <1>1, <1>9 DEF ReceiptsOf
  <2>2. \A r \in R : IsReceipt(r)
    BY <1>2, <2>1
  <2>3. g \in [R -> Int] /\ k \in [R -> Int] /\ \A r \in S : g[r] = f[r] /\ k[r] = h[r]
    BY <1>3, <2>1, <2>2, ReceiptIs
  <2>4. SumFunction(g) = SumFunction(f) + g[x] /\ SumFunction(k) = SumFunction(h) + k[x]
    BY <1>2, <1>8, <2>1, <2>3, SumOneMore
  <2>5. g[x] = x.consumed /\ k[x] = x.basis
    BY <1>3, <2>1
  <2>6. x.consumed \in Int /\ x.basis \in Int
    BY ReceiptIs
  <2>7. QED
    BY <1>6, <1>7, <1>9, <2>4, <2>5, <2>6
<1>10. CASE x.token # t
  <2>1. R = S
    BY <1>1, <1>10 DEF ReceiptsOf
  <2>2. f = g /\ h = k
    BY <1>3, <2>1
  <2>3. QED
    BY <1>6, <1>7, <1>10, <2>2
<1>11. QED
  BY <1>9, <1>10

\* A claim adds to its token's share.
LEMMA ShareGrows ==
  ASSUME Tables, Tables', ReceiptsFit, UNCHANGED receipts,
         NEW c \in Claims, c \notin claims, claims' = claims \cup {c}, NEW t
  PROVE  /\ Buyback(t)' >= Buyback(t) /\ BuybackCents(t)' >= BuybackCents(t)
         /\ AtCreator(t)' >= AtCreator(t)
         /\ Buyback(t)' \in Int /\ BuybackCents(t)' \in Int /\ AtCreator(t)' \in Int
<1>1. PICK S, R : S = ClaimsOf(t) /\ R = ClaimsOf(t)'
  OBVIOUS
<1>2. IsFiniteSet(S) /\ c \notin S
  BY <1>1, FS_Subset DEF Tables, ClaimsOf
<1>3. \A d \in R : d.lamports \in Nat /\ d.gross \in Nat
  BY <1>1, LedgerAssumption DEF Tables, ClaimsOf
<1>4. \A x \in Nat : Share(x) \in Nat
  BY SharesAreParts
<1>5. PICK f, g, h, k : /\ f = [d \in S |-> Share(d.lamports)] /\ g = [d \in R |-> Share(d.lamports)]
                        /\ h = [d \in S |-> Share(d.gross)] /\ k = [d \in R |-> Share(d.gross)]
  OBVIOUS
<1>6. PICK u, v, w : u = ConsumedOf(t) /\ v = CostsOf(t) /\ w = CentralOf(t, receipts)
  OBVIOUS
<1>7. ConsumedOf(t)' = u /\ CostsOf(t)' = v /\ receipts' = receipts
  BY <1>6 DEF ConsumedOf, CostsOf, ReceiptsOf
<1>8. /\ Buyback(t) = SumFunction(f) - u /\ Buyback(t)' = SumFunction(g) - u
      /\ BuybackCents(t) = SumFunction(h) - v /\ BuybackCents(t)' = SumFunction(k) - v
  BY <1>1, <1>5, <1>6, <1>7 DEF Buyback, BuybackCents, ConsumedOf, CostsOf
<1>9. u \in Int /\ v \in Int /\ w \in Int
  BY <1>6, ShareIsInt, CentralAdds DEF ReceiptsFit
<1>10. S \in SUBSET R
  BY <1>1 DEF ClaimsOf
<1>11. /\ f \in [S -> Int] /\ g \in [R -> Int] /\ h \in [S -> Int] /\ k \in [R -> Int]
  BY <1>3, <1>4, <1>5, <1>10
<1>12. SumFunction(f) \in Int /\ SumFunction(h) \in Int
  BY <1>2, <1>11, SumIsInt
<1>13. /\ SumFunction(g) >= SumFunction(f) /\ SumFunction(k) >= SumFunction(h)
       /\ SumFunction(g) \in Int /\ SumFunction(k) \in Int
  <2>1. CASE c.token = t
    <3>1. R = S \cup {c}
      BY <1>1, <2>1 DEF ClaimsOf
    <3>2. \A d \in S : g[d] = f[d] /\ k[d] = h[d]
      BY <1>5, <1>10
    <3>3. SumFunction(g) = SumFunction(f) + g[c] /\ SumFunction(k) = SumFunction(h) + k[c]
      BY <1>2, <1>11, <3>1, <3>2, SumOneMore
    <3>4. g[c] \in Nat /\ k[c] \in Nat
      BY <1>3, <1>4, <1>5, <3>1
    <3>5. QED
      BY <1>12, <3>3, <3>4
  <2>2. CASE c.token # t
    <3>1. R = S
      BY <1>1, <2>2 DEF ClaimsOf
    <3>2. f = g /\ h = k
      BY <1>5, <3>1
    <3>3. QED
      BY <1>12, <3>2
  <2>3. QED
    BY <2>1, <2>2
<1>14. PICK i, i1, j, j1 \in Int : /\ i = Buyback(t) /\ i1 = Buyback(t)'
                                   /\ j = BuybackCents(t) /\ j1 = BuybackCents(t)'
                                   /\ i1 >= i /\ j1 >= j
  BY <1>8, <1>9, <1>12, <1>13
<1>15. AtCreator(t) = i - w /\ AtCreator(t)' = i1 - w
  BY <1>6, <1>7, <1>14 DEF AtCreator
<1>16. QED
  BY <1>9, <1>14, <1>15

\* recordClaim adds to the share where its creator holds it.
LEMMA ClaimTreasury ==
  ASSUME Tables, Tables', TreasuryKept, NEW c \in Claims, RecordClaim(c)
  PROVE  TreasuryKept'
<1>1. ReceiptsFit /\ UNCHANGED receipts /\ c \notin claims /\ claims' = claims \cup {c}
  BY DEF TreasuryKept, ReceiptsFit, RecordClaim, New
<1>2. ASSUME NEW t \in Tokens \cup Platform PROVE ShareKept(t)'
  <2>1. /\ Buyback(t)' >= Buyback(t) /\ BuybackCents(t)' >= BuybackCents(t)
        /\ AtCreator(t)' >= AtCreator(t)
        /\ Buyback(t)' \in Int /\ BuybackCents(t)' \in Int /\ AtCreator(t)' \in Int
    BY <1>1, ShareGrows
  <2>2. Buyback(t) \in Int /\ BuybackCents(t) \in Int /\ AtCreator(t) \in Int
    BY <1>1, ShareIsInt
  <2>3. ReceiptsOf(t)' = ReceiptsOf(t) /\ receipts' = receipts
    BY <1>1 DEF ReceiptsOf
  <2>4. ShareKept(t)
    BY DEF TreasuryKept
  <2>5. ASSUME \A r \in ReceiptsOf(t) : ~r.verified
        PROVE  Buyback(t)' >= 0 /\ BuybackCents(t)' >= 0 /\ AtCreator(t)' >= 0
    BY <2>1, <2>2, <2>4, <2>5 DEF ShareKept
  <2>6. QED
    BY <2>3, <2>4, <2>5 DEF ShareKept
<1>3. QED
  BY <1>1, <1>2 DEF TreasuryKept

\* What a receipt moves into a central wallet.
Adds(t, x) == IF x.token = t /\ Central(x) THEN x.moved - x.consumed ELSE 0

\* The receipts of one wallet.
InWallet(R, w) == {r \in R : r.wallet = w}

\* What a receipt does to what is held by central wallets, and by one of them.
LEMMA WalletAdds ==
  ASSUME ReceiptsFit, NEW x, IsReceipt(x), x \notin receipts, receipts' = receipts \cup {x}, NEW t, NEW w
  PROVE  /\ CentralOf(t, receipts') = CentralOf(t, receipts) + Adds(t, x)
         /\ CentralOf(t, receipts) \in Int /\ Adds(t, x) \in Int /\ CentralOf(t, InWallet(receipts, w)) \in Int
         /\ CentralOf(t, InWallet(receipts', w)) =
              CentralOf(t, InWallet(receipts, w)) + (IF x.wallet = w THEN Adds(t, x) ELSE 0)
<1>0. PICK H, G : H = InWallet(receipts, w) /\ G = InWallet(receipts', w)
  OBVIOUS
<1>1. Adds(t, x) \in Int
  BY ReceiptIs DEF Adds
<1>2. /\ CentralOf(t, receipts') = CentralOf(t, receipts) + Adds(t, x)
      /\ CentralOf(t, receipts) \in Int
  BY CentralAdds DEF ReceiptsFit, Adds
<1>3. IsFiniteSet(H) /\ x \notin H /\ \A r \in H : IsReceipt(r)
  BY <1>0, FS_Subset DEF ReceiptsFit, InWallet
<1>4. CentralOf(t, H) \in Int /\ CentralOf(t, H \cup {x}) = CentralOf(t, H) + Adds(t, x)
  BY <1>3, CentralAdds DEF Adds
<1>5. CASE x.wallet # w
  <2>1. G = H
    BY <1>0, <1>5 DEF InWallet
  <2>2. QED
    BY <1>0, <1>1, <1>2, <1>4, <1>5, <2>1
<1>6. CASE x.wallet = w
  <2>1. G = H \cup {x}
    BY <1>0, <1>6 DEF InWallet
  <2>2. QED
    BY <1>0, <1>1, <1>2, <1>4, <1>6, <2>1
<1>7. QED
  BY <1>5, <1>6

\* Sums of nothing.
LEMMA CentralNothing ==
  ASSUME NEW H, IsFiniteSet(H), \A r \in H : IsReceipt(r), NEW t,
         \A r \in H : r.token = t /\ Central(r) => r.moved = 0 /\ r.consumed = 0
  PROVE  CentralOf(t, H) = 0
<1>1. PICK S : S = {q \in H : q.token = t /\ Central(q)}
  OBVIOUS
<1>2. IsFiniteSet(S) /\ S \in SUBSET H
  BY <1>1, FS_Subset
<1>3. PICK f : f = [r \in S |-> r.moved - r.consumed]
  OBVIOUS
<1>4. f \in [S -> Int] /\ \A r \in S : f[r] = 0
  BY <1>1, <1>3
<1>5. SumFunction(f) = 0
  BY <1>2, <1>4, SumOfZeros
<1>6. QED
  BY <1>1, <1>3, <1>5 DEF CentralOf

\* recordTreasuryReceipt: what it spends was there, in that wallet.
LEMMA ReceiptTreasury ==
  ASSUME Tables, TreasuryKept, NEW r \in Receipts, RecordTreasuryReceipt(r)
  PROVE  TreasuryKept'
<1>1. PICK b, c : b = Buyback(r.token) /\ c = BuybackCents(r.token)
  OBVIOUS
<1>2. PICK k : k = IF b = 0 THEN 0 ELSE Quotient(c * r.consumed, b)
  OBVIOUS
<1>3. PICK x : x = [r EXCEPT !.basis = k]
  OBVIOUS
<1>4. /\ \A q \in receipts : q.id # r.id
      /\ r.verified \/ r.consumed <= b
      /\ (r.verified /\ r.kind # "Transfer") \/ Covered(r)
      /\ receipts' = receipts \cup {x} /\ UNCHANGED <<known, claims, costs, pay, led>>
  BY <1>1, <1>2, <1>3 DEF RecordTreasuryReceipt
<1>5. ReceiptsFit
  BY DEF TreasuryKept, ReceiptsFit
<1>6. b \in Int /\ c \in Int
  BY <1>1, <1>5, ShareIsInt
<1>7. r.moved \in Nat /\ r.consumed \in Nat /\ r.token \in Tokens \cup Platform
  BY LedgerAssumption
<1>8. k \in Int
  <2>1. CASE b = 0
    BY <1>2, <2>1
  <2>2. CASE b # 0
    <3>1. c * r.consumed \in Int
      BY <1>6, <1>7
    <3>2. QED
      BY <1>2, <1>6, <2>2, <3>1, QuotientIsInt
  <2>3. QED
    BY <2>1, <2>2
<1>9. /\ IsReceipt(x) /\ x.basis = k /\ x.id = r.id /\ x.kind = r.kind /\ x.token = r.token
      /\ x.wallet = r.wallet /\ x.moved = r.moved /\ x.consumed = r.consumed
      /\ x.verified = r.verified
  BY <1>3, <1>8, ReceiptOf
<1>10. x \notin receipts
  BY <1>4, <1>9
<1>11. ReceiptsFit'
  <2>1. IsFiniteSet(receipts \cup {x})
    BY <1>5, FS_AddElement DEF ReceiptsFit
  <2>2. QED
    BY <1>4, <1>5, <1>9, <2>1 DEF ReceiptsFit
<1>12. ASSUME NEW t \in Tokens \cup Platform, t # r.token PROVE ShareKept(t)'
  <2>1. ReceiptsOf(t)' = ReceiptsOf(t)
    BY <1>4, <1>9, <1>12 DEF ReceiptsOf
  <2>2. Buyback(t)' = Buyback(t) /\ BuybackCents(t)' = BuybackCents(t)
    BY <1>4, <2>1 DEF Buyback, BuybackCents, ClaimsOf
  <2>3. \A H : CentralOf(t, H \cup {x}) = CentralOf(t, H)
    <3>1. \A H : {q \in H \cup {x} : q.token = t /\ Central(q)} = {q \in H : q.token = t /\ Central(q)}
      BY <1>9, <1>12
    <3>2. QED
      BY <3>1 DEF CentralOf
  <2>4. AtCreator(t)' = AtCreator(t)
    BY <1>4, <2>2, <2>3 DEF AtCreator
  <2>5. \A w : CentralOf(t, {q \in receipts' : q.wallet = w}) = CentralOf(t, {q \in receipts : q.wallet = w})
    <3>1. ASSUME NEW w
          PROVE  CentralOf(t, {q \in receipts' : q.wallet = w}) = CentralOf(t, {q \in receipts : q.wallet = w})
      <4>1. \/ {q \in receipts' : q.wallet = w} = {q \in receipts : q.wallet = w}
            \/ {q \in receipts' : q.wallet = w} = {q \in receipts : q.wallet = w} \cup {x}
        BY <1>4
      <4>2. QED
        BY <2>3, <4>1
    <3>2. QED
      BY <3>1
  <2>6. ShareKept(t)
    BY <1>12 DEF TreasuryKept
  <2>7. QED
    BY <2>1, <2>2, <2>4, <2>5, <2>6 DEF ShareKept
<1>13. ASSUME NEW t, t = r.token PROVE ShareKept(t)'
  <2>1. SUFFICES ASSUME \A q \in ReceiptsOf(t)' : ~q.verified
                 PROVE  /\ Buyback(t)' >= 0 /\ BuybackCents(t)' >= 0 /\ AtCreator(t)' >= 0
                        /\ (\A q \in ReceiptsOf(t)' : q.kind # "Transfer") =>
                             \A q \in ReceiptsOf(t)' : Central(q) => q.moved = 0 /\ q.consumed = 0
                        /\ (\A q \in ReceiptsOf(t)' : q.kind = "Transfer" => q.consumed <= q.moved)
                             => \A q \in Receipts :
                                  CentralOf(t, {y \in receipts' : y.wallet = q.wallet}) >= 0
    BY DEF ShareKept
  <2>2. ReceiptsOf(t)' = ReceiptsOf(t) \cup {x}
    BY <1>4, <1>9, <1>13 DEF ReceiptsOf
  <2>3. ~r.verified /\ \A q \in ReceiptsOf(t) : ~q.verified
    BY <1>9, <2>1, <2>2
  <2>4. ShareKept(t) /\ t \in Tokens \cup Platform
    BY <1>7, <1>13 DEF TreasuryKept
  <2>5. PICK a : a = AtCreator(t)
    OBVIOUS
  <2>6. b >= 0 /\ c >= 0 /\ a >= 0 /\ a \in Int
    BY <1>1, <1>5, <1>13, <2>3, <2>4, <2>5, ShareIsInt DEF ShareKept
  <2>7. r.consumed <= b /\ Covered(r)
    BY <1>4, <2>3
  <2>8. k \in 0 .. c
    <3>1. CASE b = 0
      BY <1>2, <1>6, <2>6, <3>1
    <3>2. CASE b # 0
      <4>1. c \in Nat /\ b \in Nat \ {0}
        BY <1>6, <2>6, <3>2
      <4>2. Quotient(c * r.consumed, b) \in 0 .. c
        BY <1>7, <2>7, <4>1, QuotientOfPart
      <4>3. QED
        BY <1>2, <3>2, <4>2
    <3>3. QED
      BY <3>1, <3>2
  <2>9. Buyback(t)' = b - r.consumed /\ BuybackCents(t)' = c - k
    <3>1. /\ Buyback(t)' = Buyback(t) - (IF x.token = t THEN x.consumed ELSE 0)
          /\ BuybackCents(t)' = BuybackCents(t) - (IF x.token = t THEN x.basis ELSE 0)
      BY <1>4, <1>5, <1>9, <1>10, OneReceiptMore
    <3>2. QED
      BY <1>1, <1>9, <1>13, <3>1
  <2>10. Buyback(t)' >= 0 /\ BuybackCents(t)' >= 0
    BY <1>6, <1>7, <2>7, <2>8, <2>9
  <2>11. PICK d, e : d = CentralOf(t, receipts) /\ e = Adds(t, x)
    OBVIOUS
  <2>12. d \in Int /\ e \in Int /\ CentralOf(t, receipts') = d + e
    BY <1>4, <1>5, <1>9, <1>10, <2>11, WalletAdds
  <2>13. a = b - d /\ AtCreator(t)' = b - r.consumed - (d + e)
    BY <1>1, <1>13, <2>5, <2>9, <2>11, <2>12 DEF AtCreator
  <2>14. /\ r.kind = "Transfer" => Central(r) /\ r.moved <= a
         /\ r.kind # "Transfer" => r.moved = 0
         /\ Central(r) <=> Central(x)
    <3>1. Central(r) <=> Central(x)
      BY <1>9 DEF Central
    <3>2. /\ r.kind = "Transfer" => Central(x)
          /\ r.kind # "Transfer" => r.moved = 0
      BY <1>9, ReceiptIs
    <3>3. r.kind = "Transfer" => r.moved <= a
      BY <1>13, <2>5, <2>7 DEF Covered
    <3>4. QED
      BY <3>1, <3>2, <3>3
  <2>15. e = IF Central(r) THEN r.moved - r.consumed ELSE 0
    BY <1>9, <1>13, <2>11, <2>14 DEF Adds
  <2>16. ASSUME \A q \in ReceiptsOf(t) : q.kind # "Transfer" PROVE d = 0
    <3>1. \A q \in receipts : q.token = t /\ Central(q) => q.moved = 0 /\ q.consumed = 0
      BY <2>3, <2>4, <2>16 DEF ShareKept, ReceiptsOf
    <3>2. QED
      BY <1>5, <2>11, <3>1, CentralNothing DEF ReceiptsFit
  <2>17. r.kind # "Transfer" /\ ~Central(r) => r.consumed <= a
    <3>1. SUFFICES ASSUME r.kind # "Transfer", ~Central(r) PROVE r.consumed <= a
      OBVIOUS
    <3>2. CASE r.consumed <= AtTreasury(r.token, r.wallet)
      BY <1>13, <2>5, <3>1, <3>2 DEF AtTreasury, Central
    <3>3. CASE ~\E q \in receipts : q.token = r.token /\ q.kind = "Transfer"
      <4>1. d = 0
        BY <1>13, <2>16, <3>3 DEF ReceiptsOf
      <4>2. QED
        BY <1>6, <2>7, <2>13, <4>1
    <3>4. QED
      BY <2>7, <3>1, <3>2, <3>3 DEF Covered
  <2>18. AtCreator(t)' >= 0
    <3>1. CASE r.kind = "Transfer"
      BY <1>6, <1>7, <2>6, <2>12, <2>13, <2>14, <2>15, <3>1
    <3>2. CASE r.kind # "Transfer" /\ Central(r)
      BY <1>6, <1>7, <2>6, <2>12, <2>13, <2>14, <2>15, <3>2
    <3>3. CASE r.kind # "Transfer" /\ ~Central(r)
      BY <1>6, <1>7, <2>6, <2>12, <2>13, <2>15, <2>17, <3>3
    <3>4. QED
      BY <3>1, <3>2, <3>3
  <2>19. r.kind # "Transfer" /\ Central(r) =>
           r.consumed <= CentralOf(t, {y \in receipts : y.wallet = r.wallet})
    BY <1>13, <2>7 DEF Covered, AtTreasury, Central
  <2>20. ASSUME \A q \in ReceiptsOf(t)' : q.kind # "Transfer"
         PROVE  \A q \in ReceiptsOf(t)' : Central(q) => q.moved = 0 /\ q.consumed = 0
    <3>1. \A q \in ReceiptsOf(t) : Central(q) => q.moved = 0 /\ q.consumed = 0
      BY <2>2, <2>3, <2>4, <2>20 DEF ShareKept
    <3>2. ASSUME Central(x) PROVE x.moved = 0 /\ x.consumed = 0
      <4>1. r.kind # "Transfer"
        BY <1>9, <2>2, <2>20
      <4>2. PICK H : H = {y \in receipts : y.wallet = r.wallet}
        OBVIOUS
      <4>3. CentralOf(t, H) = 0
        <5>1. \A q \in H : q.token = t /\ Central(q) => q.moved = 0 /\ q.consumed = 0
          BY <3>1, <4>2 DEF ReceiptsOf
        <5>2. IsFiniteSet(H) /\ \A q \in H : IsReceipt(q)
          BY <1>5, <4>2, FS_Subset DEF ReceiptsFit
        <5>3. QED
          BY <5>1, <5>2, CentralNothing
      <4>4. r.consumed <= 0
        BY <2>14, <2>19, <3>2, <4>1, <4>2, <4>3
      <4>5. QED
        BY <1>7, <1>9, <2>14, <4>1, <4>4
    <3>3. QED
      BY <2>2, <3>1, <3>2
  <2>21. ASSUME \A q \in ReceiptsOf(t)' : q.kind = "Transfer" => q.consumed <= q.moved,
                NEW q \in Receipts
         PROVE  CentralOf(t, {y \in receipts' : y.wallet = q.wallet}) >= 0
    <3>1. PICK w, g, g1 : /\ w = q.wallet
                          /\ g = CentralOf(t, {y \in receipts : y.wallet = q.wallet})
                          /\ g1 = CentralOf(t, {y \in receipts' : y.wallet = q.wallet})
      OBVIOUS
    <3>2. /\ g \in Int
          /\ r.wallet # w => g1 = g
          /\ r.wallet = w => g1 = g + e
      <4>1. g = CentralOf(t, InWallet(receipts, w)) /\ g1 = CentralOf(t, InWallet(receipts', w))
        BY <3>1 DEF InWallet
      <4>2. /\ CentralOf(t, InWallet(receipts, w)) \in Int
            /\ CentralOf(t, InWallet(receipts', w)) =
                 CentralOf(t, InWallet(receipts, w)) + (IF x.wallet = w THEN Adds(t, x) ELSE 0)
        <5>1. ReceiptsFit /\ IsReceipt(x) /\ x \notin receipts /\ receipts' = receipts \cup {x}
          BY <1>4, <1>5, <1>9, <1>10
        <5>2. QED
          BY <5>1, WalletAdds
      <4>3. QED
        BY <1>9, <2>11, <2>12, <4>1, <4>2
    <3>3. g >= 0
      <4>1. \A y \in ReceiptsOf(t) : y.kind = "Transfer" => y.consumed <= y.moved
        BY <2>2, <2>21
      <4>2. QED
        BY <2>3, <2>4, <3>1, <4>1 DEF ShareKept
    <3>4. SUFFICES g1 >= 0
      BY <3>1
    <3>5. CASE r.wallet # w
      BY <3>2, <3>3, <3>5
    <3>6. CASE r.wallet = w /\ ~Central(r)
      BY <2>12, <2>15, <3>2, <3>3, <3>6
    <3>7. CASE r.wallet = w /\ r.kind = "Transfer" /\ Central(r)
      <4>1. r.consumed <= r.moved
        BY <1>9, <2>2, <2>21, <3>7
      <4>2. QED
        BY <1>7, <2>12, <2>15, <3>2, <3>3, <3>7, <4>1
    <3>8. CASE r.wallet = w /\ r.kind # "Transfer" /\ Central(r)
      <4>1. r.consumed <= g
        BY <2>19, <3>1, <3>8
      <4>2. r.moved = 0
        BY <2>14, <3>8
      <4>3. QED
        BY <1>7, <2>12, <2>15, <3>2, <3>3, <3>8, <4>1, <4>2
    <3>9. QED
      BY <3>5, <3>6, <3>7, <3>8
  <2>22. QED
    BY <2>10, <2>18, <2>20, <2>21
<1>14. QED
  BY <1>11, <1>12, <1>13 DEF TreasuryKept, ReceiptsFit

\* An operation that books neither a claim nor a receipt.
LEMMA QuietTreasury ==
  ASSUME TreasuryKept, UNCHANGED <<claims, receipts>>
  PROVE  TreasuryKept'
<1>1. \A t : ReceiptsOf(t)' = ReceiptsOf(t) /\ ClaimsOf(t)' = ClaimsOf(t)
  BY DEF ReceiptsOf, ClaimsOf
<1>2. \A t : Buyback(t)' = Buyback(t) /\ BuybackCents(t)' = BuybackCents(t)
  BY <1>1 DEF Buyback, BuybackCents
<1>3. \A t : AtCreator(t)' = AtCreator(t)
  BY <1>2 DEF AtCreator
<1>4. ASSUME NEW t \in Tokens \cup Platform PROVE ShareKept(t)'
  <2>1. ShareKept(t)
    BY DEF TreasuryKept
  <2>2. receipts' = receipts
    OBVIOUS
  <2>3. QED
    BY <1>1, <1>2, <1>3, <2>1, <2>2 DEF ShareKept
<1>5. QED
  BY <1>4 DEF TreasuryKept

\* Payments leave claims and receipts alone.
LEMMA PaysLeaves ==
  ASSUME NEW p \in Payments, Pays(p)
  PROVE  UNCHANGED <<claims, receipts>>
BY DEF Pays, Reserve, ReserveNative, BeginFunding, RecordNativeFunding, RecordFunding,
       RecordNativeCredit, RecordCardCredit, StartPayment, MarkUncertain, Check,
       CompletePayment, CheckedInVain, CompletePaymentVerified, Finished, CancelPayment,
       ResolveFailed

\* Every step keeps the share.
LEMMA TreasuryStep ==
  ASSUME Tables, Tables', TreasuryKept, [Next]_vars
  PROVE  TreasuryKept'
<1>1. CASE \E c \in Claims : RecordClaim(c)
  BY <1>1, ClaimTreasury
<1>2. CASE \E r \in Receipts : RecordTreasuryReceipt(r)
  BY <1>2, ReceiptTreasury
<1>3. CASE \E p \in Payments : Pays(p)
  BY <1>3, PaysLeaves, QuietTreasury
<1>4. CASE \/ \E t \in Tokens : RegisterToken(t)
           \/ \E t \in Platform : RegisterPlatformToken(t)
           \/ \E s \in Costs : RecordFailedClaimCost(s)
           \/ UNCHANGED vars
  <2>1. UNCHANGED <<claims, receipts>>
    BY <1>4 DEF RegisterToken, RegisterPlatformToken, RecordFailedClaimCost, vars
  <2>2. QED
    BY <2>1, QuietTreasury
<1>5. QED
  BY <1>1, <1>2, <1>3, <1>4 DEF Next

-----------------------------------------------------------------------------
\* Nothing was earned, and nothing is promised.
LEMMA InitSInv == Init => SInv
<1> SUFFICES ASSUME Init PROVE SInv
  OBVIOUS
<1>1. IInv
  BY InvInit
<1>2. Tables
  BY FS_EmptySet DEF Init, Tables
<1>3. ASSUME NEW p \in Payments PROVE Sound(pay[p], led[p])
  <2>1. PICK r, l : r = NoPayment /\ l = NoEntries
    OBVIOUS
  <2>2. pay[p] = r /\ led[p] = l /\ Kept(r, l)
    BY <1>1, <2>1 DEF Init, NoEntries, IInv
  <2>3. l.available = 0
    BY <2>1 DEF NoEntries, Accounts
  <2>4. /\ r.token = None /\ r.status = "none" /\ r.plan = None /\ r.failed = FALSE
        /\ r.funded = FALSE /\ r.credited = FALSE /\ r.over = FALSE /\ r.completion = NoCompletion
        /\ r.lamports = 0 /\ r.sol = 0 /\ r.gas = 0 /\ r.from = 0 /\ r.pinned = 0
        /\ r.basis = 0 /\ r.net = 0
    BY <2>1 DEF NoPayment
  <2>5. /\ r.funded \in BOOLEAN /\ r.credited \in BOOLEAN /\ r.failed \in BOOLEAN
        /\ r.over \in BOOLEAN
    BY <2>4
  <2>6. /\ r.token \in Tokens \cup {None} /\ r.completion \in Completions
        /\ r.lamports \in Nat /\ r.sol \in Nat /\ r.gas \in Nat /\ r.from \in Int
        /\ r.pinned \in Int
    BY <2>4 DEF NoCompletion, Completions
  <2>7. Typed(r)
    BY <2>2, <2>5, <2>6, TypedIf
  <2>8. Taken(r) = 0
    BY <2>4 DEF Taken
  <2>9. Planned(r) /\ InBudget(r)
    BY <2>4 DEF Planned, InBudget
  <2>10. Sound(r, l)
    BY <2>3, <2>4, <2>7, <2>8, <2>9 DEF Sound
  <2>11. QED
    BY <2>2, <2>10
<1>4. RowsFit
  BY <1>1, <1>2, <1>3 DEF RowsFit
<1>5. AllCovered
  <2>1. SUFFICES ASSUME NEW t \in Tokens PROVE Covers(t)
    BY DEF AllCovered
  <2>2. \A p \in Payments : pay[p].token # t /\ Of(t) = {}
    BY LedgerAssumption DEF Init, NoPayment, Of
  <2>3. SumsOf(t)
    BY <1>4, BalancesAre DEF BalancesAddUp
  <2>4. PICK f, g, h : f = LamportsOf(t) /\ g = BasisFor(t) /\ h = CentsOf(t)
    OBVIOUS
  <2>5. /\ \A p \in Payments : f[p] = 0
        /\ \A p \in Payments : g[p] = 0
        /\ \A p \in Payments : h[p] = 0
    BY <2>2, <2>4 DEF LamportsOf, BasisFor, CentsOf, LamportsIn, BasisIn, CentsIn
  <2>6. SumFunction(f) = 0 /\ SumFunction(g) = 0 /\ SumFunction(h) = 0
    BY <2>3, <2>4, <2>5, SumOfZeros, LedgerAssumption DEF SumsOf
  <2>7. PICK S : S = ClaimsOf(t)
    OBVIOUS
  <2>8. S = {} /\ IsFiniteSet(S)
    BY <2>7, FS_EmptySet DEF Init, ClaimsOf
  <2>9. PICK u, v : /\ u = [c \in S |-> StreamerShare(t, c.lamports)]
                    /\ v = [c \in S |-> StreamerShare(t, c.gross)]
    OBVIOUS
  <2>10. SumFunction(u) = 0 /\ SumFunction(v) = 0
    <3>1. /\ u \in [S -> Int] /\ v \in [S -> Int]
          /\ \A x \in S : u[x] = 0
          /\ \A x \in S : v[x] = 0
      BY <2>8, <2>9
    <3>2. QED
      BY <2>8, <3>1, SumOfZeros
  <2>11. EarnedLamports(t) = 0 /\ EarnedCents(t) = 0
    BY <2>7, <2>9, <2>10 DEF EarnedLamports, EarnedCents
  <2>12. AvailableLamports(t) = 0 /\ AvailableBasis(t) = 0 /\ AvailableCents(t) = 0
    BY <2>3, <2>4, <2>6, <2>11 DEF SumsOf
  <2>13. \A p \in Of(t) : pay[p].plan # None => pay[p].from >= 0
    BY DEF Init, NoPayment, Of
  <2>14. QED
    BY <2>12, <2>13 DEF Covers
<1>6. TreasuryKept
  <2>1. receipts = {} /\ IsFiniteSet(receipts) /\ claims = {}
    BY FS_EmptySet DEF Init
  <2>2. ReceiptsFit
    BY <2>1 DEF ReceiptsFit
  <2>3. \A t, H : H \in SUBSET receipts => CentralOf(t, H) = 0
    <3>1. SUFFICES ASSUME NEW t, NEW H, H \in SUBSET receipts PROVE CentralOf(t, H) = 0
      OBVIOUS
    <3>2. H = {} /\ IsFiniteSet(H) /\ \A r \in H : FALSE
      BY <2>1, <3>1
    <3>3. QED
      BY <3>2, CentralNothing
  <2>4. ASSUME NEW t \in Tokens \cup Platform PROVE ShareKept(t)
    <3>1. PICK S, R : S = ClaimsOf(t) /\ R = ReceiptsOf(t)
      OBVIOUS
    <3>2. S = {} /\ R = {} /\ IsFiniteSet(S) /\ IsFiniteSet(R)
      BY <2>1, <3>1, FS_EmptySet DEF ClaimsOf, ReceiptsOf
    <3>3. PICK f, g, h, k : /\ f = [c \in S |-> Share(c.lamports)] /\ g = [c \in S |-> Share(c.gross)]
                            /\ h = [r \in R |-> r.consumed] /\ k = [r \in R |-> r.basis]
      OBVIOUS
    <3>4. /\ f \in [S -> Int] /\ g \in [S -> Int] /\ h \in [R -> Int] /\ k \in [R -> Int]
          /\ \A x \in S : f[x] = 0
          /\ \A x \in S : g[x] = 0
          /\ \A x \in R : h[x] = 0
          /\ \A x \in R : k[x] = 0
      BY <3>2, <3>3
    <3>5. /\ SumFunction(f) = 0 /\ SumFunction(g) = 0 /\ SumFunction(h) = 0 /\ SumFunction(k) = 0
      BY <3>2, <3>4, SumOfZeros
    <3>6. Buyback(t) = 0 /\ BuybackCents(t) = 0
      BY <3>1, <3>3, <3>5 DEF Buyback, BuybackCents
    <3>7. CentralOf(t, receipts) = 0
      BY <2>3
    <3>8. AtCreator(t) = 0
      BY <3>6, <3>7 DEF AtCreator
    <3>9. \A q \in Receipts : CentralOf(t, {y \in receipts : y.wallet = q.wallet}) = 0
      BY <2>3
    <3>10. QED
      BY <3>1, <3>2, <3>6, <3>8, <3>9 DEF ShareKept
  <2>5. QED
    BY <2>1, <2>4 DEF TreasuryKept
<1>7. QED
  BY <1>1, <1>2, <1>3, <1>5, <1>6 DEF SInv

\* Every step keeps it all.
LEMMA SInvStep == SInv /\ [Next]_vars => SInv'
<1> SUFFICES ASSUME SInv, [Next]_vars PROVE SInv'
  OBVIOUS
<1>1. IInv'
  BY InvStep DEF SInv
<1>2. RowsFit' /\ AllCovered'
  <2>1. RowsFit /\ AllCovered
    BY DEF SInv, RowsFit
  <2>2. QED
    BY <1>1, <2>1, RowsStep
<1>3. TreasuryKept'
  <2>1. Tables /\ Tables' /\ TreasuryKept
    BY <1>2 DEF SInv, RowsFit
  <2>2. QED
    BY <2>1, TreasuryStep
<1>4. QED
  BY <1>2, <1>3 DEF SInv, RowsFit

\* The invariant of the specification.
LEMMA SolvencyInvariance == Spec => []SInv
<1>1. QED
  BY InitSInv, SInvStep, PTL DEF Spec

\* What a payment still promises is what is left of what it was taken for.
Promised(r) ==
  IF r.status \in {"completed", "cancelled"} THEN 0 ELSE r.budget - r.basis - r.net

\* A payment's entry and its promise come to no more than what its SOL cost.
LEMMA PromiseIsBacked ==
  ASSUME NEW r, NEW l, Kept(r, l), Sound(r, l), NEW t \in Tokens, r.token = t
  PROVE  /\ Promised(r) \in Int
         /\ CentsIn(t, r, l) + Promised(r) <= BasisIn(t, r) + HeldBasis(r)
<1>1. /\ r.budget \in Nat /\ r.basis \in Int /\ r.net \in Int /\ r.gas \in Nat /\ l.available \in Int
      /\ l.available + Taken(r) = 0
      /\ r.gas = 0 => r.net >= 0
      /\ r.status = "cancelled" => r.net = 0
  BY DEF Sound, Typed, Kept, Whole, Follows
<1>2. BasisIn(t, r) = -CostOf(r) - HeldBasis(r) /\ CentsIn(t, r, l) = l.available
      /\ HeldBasis(r) \in Int /\ CostOf(r) \in Int
  BY Holds
<1>3. CostOf(r) = r.basis + (IF r.gas > 0 THEN r.net ELSE 0)
  BY DEF CostOf
<1>4. r.status # "none"
  BY LedgerAssumption DEF Kept, Follows, NoPayment
<1>5. Promised(r) \in Int
  BY <1>1 DEF Promised
<1>6. l.available + Promised(r) <= -CostOf(r)
  <2>1. CASE r.status = "cancelled"
    <3>1. Taken(r) = r.basis /\ Promised(r) = 0
      BY <2>1 DEF Taken, Promised
    <3>2. CostOf(r) = r.basis
      BY <1>1, <1>3, <2>1
    <3>3. QED
      BY <1>1, <3>1, <3>2
  <2>2. CASE r.status # "cancelled"
    <3>1. l.available + Promised(r) = -(r.basis + r.net)
      <4>1. CASE r.status = "completed"
        <5>1. Taken(r) = r.basis + r.net /\ Promised(r) = 0
          BY <4>1 DEF Taken, Promised
        <5>2. QED
          BY <1>1, <5>1
      <4>2. CASE r.status # "completed"
        <5>1. Taken(r) = r.budget /\ Promised(r) = r.budget - r.basis - r.net
          BY <1>4, <2>2, <4>2 DEF Taken, Promised
        <5>2. QED
          BY <1>1, <5>1
      <4>3. QED
        BY <4>1, <4>2
    <3>2. CostOf(r) <= r.basis + r.net
      <4>1. CASE r.gas = 0
        BY <1>1, <1>3, <4>1
      <4>2. CASE r.gas # 0
        BY <1>1, <1>3, <4>2
      <4>3. QED
        BY <4>1, <4>2
    <3>3. QED
      BY <1>1, <1>2, <1>5, <3>1, <3>2
  <2>3. QED
    BY <2>1, <2>2
<1>7. QED
  BY <1>1, <1>2, <1>5, <1>6

\* Summed over a token's payments: the first half of Backed.
LEMMA PromisesAreBacked ==
  ASSUME RowsFit, NEW t \in Tokens
  PROVE  AvailableCents(t)
           + SumFunction([p \in Pending(t) |-> pay[p].budget - pay[p].basis - pay[p].net])
         <= AvailableBasis(t) + SumFunction([p \in Pinned(t) |-> pay[p].pinned])
<1>1. SumsOf(t)
  BY BalancesAre DEF BalancesAddUp
<1>2. \A p \in Payments : Kept(pay[p], led[p]) /\ Sound(pay[p], led[p])
  BY DEF RowsFit, IInv
<1>3. /\ Pending(t) \in SUBSET Payments /\ Pinned(t) \in SUBSET Payments /\ IsFiniteSet(Payments)
  BY LedgerAssumption DEF Pending, Pinned, Of
<1>4. PICK g, h, e : g = BasisFor(t) /\ h = CentsOf(t) /\ e = EarnedCents(t)
  OBVIOUS
<1>5. PICK f, k : /\ f = [p \in Pending(t) |-> pay[p].budget - pay[p].basis - pay[p].net]
                  /\ k = [p \in Pinned(t) |-> pay[p].pinned]
  OBVIOUS
<1>6. PICK u, v : /\ u = [p \in Payments |-> IF pay[p].token = t THEN Promised(pay[p]) ELSE 0]
                  /\ v = [p \in Payments |-> IF pay[p].token = t THEN HeldBasis(pay[p]) ELSE 0]
  OBVIOUS
<1>7. \A p \in Payments :
        /\ pay[p].token = t => Promised(pay[p]) \in Int
        /\ HeldBasis(pay[p]) \in Int
  BY <1>2, PromiseIsBacked, Holds
<1>8. u \in [Payments -> Int] /\ v \in [Payments -> Int]
  BY <1>6, <1>7
<1>9. SumFunction(f) = SumFunction(u)
  <2>1. \A p \in Payments :
          p \in Pending(t) <=> pay[p].token = t /\ pay[p].status \notin {"completed", "cancelled"}
    BY DEF Pending, Of
  <2>2. \A p \in Pending(t) : u[p] = f[p] /\ u[p] \in Int
    BY <1>3, <1>5, <1>6, <1>8, <2>1 DEF Promised
  <2>3. f \in [Pending(t) -> Int]
    <3>1. f = [p \in Pending(t) |-> f[p]]
      BY <1>5
    <3>2. \A p \in Pending(t) : f[p] \in Int
      BY <2>2
    <3>3. QED
      BY <3>1, <3>2
  <2>4. \A p \in Payments \ Pending(t) : u[p] = 0
    BY <1>6, <2>1 DEF Promised
  <2>5. QED
    BY <1>3, <1>8, <2>2, <2>3, <2>4, SumOfPart
<1>10. SumFunction(k) = SumFunction(v)
  <2>1. \A p \in Payments : p \in Pinned(t) <=> pay[p].token = t /\ Pins(pay[p])
    BY DEF Pinned, Of, Pins
  <2>2. \A p \in Pinned(t) : v[p] = k[p] /\ v[p] \in Int
    BY <1>3, <1>5, <1>6, <1>8, <2>1 DEF HeldBasis
  <2>3. k \in [Pinned(t) -> Int]
    <3>1. k = [p \in Pinned(t) |-> k[p]]
      BY <1>5
    <3>2. \A p \in Pinned(t) : k[p] \in Int
      BY <2>2
    <3>3. QED
      BY <3>1, <3>2
  <2>4. \A p \in Payments \ Pinned(t) : v[p] = 0
    BY <1>6, <2>1 DEF HeldBasis
  <2>5. QED
    BY <1>3, <1>8, <2>2, <2>3, <2>4, SumOfPart
<1>11. PICK x, y : /\ x = [p \in Payments |-> h[p] + u[p]] /\ y = [p \in Payments |-> g[p] + v[p]]
  OBVIOUS
<1>12. g \in [Payments -> Int] /\ h \in [Payments -> Int] /\ e \in Int
  BY <1>1, <1>4 DEF SumsOf
<1>13. x \in [Payments -> Int] /\ y \in [Payments -> Int]
  BY <1>8, <1>11, <1>12
<1>14. ASSUME NEW p \in Payments PROVE x[p] <= y[p]
  <2>1. PICK r, l : r = pay[p] /\ l = led[p]
    OBVIOUS
  <2>2. h[p] = CentsIn(t, r, l) /\ g[p] = BasisIn(t, r)
    BY <1>4, <2>1 DEF CentsOf, BasisFor
  <2>3. x[p] = h[p] + u[p] /\ y[p] = g[p] + v[p]
    BY <1>11
  <2>4. CASE r.token = t
    <3>1. u[p] = Promised(r) /\ v[p] = HeldBasis(r)
      BY <1>6, <2>1, <2>4
    <3>2. CentsIn(t, r, l) + Promised(r) <= BasisIn(t, r) + HeldBasis(r)
      BY <1>2, <2>1, <2>4, PromiseIsBacked
    <3>3. QED
      BY <2>2, <2>3, <3>1, <3>2
  <2>5. CASE r.token # t
    <3>1. u[p] = 0 /\ v[p] = 0
      BY <1>6, <2>1, <2>5
    <3>2. h[p] = 0 /\ g[p] = 0
      BY <2>2, <2>5 DEF CentsIn, BasisIn
    <3>3. QED
      BY <2>3, <3>1, <3>2
  <2>6. QED
    BY <2>4, <2>5
<1>15. SumFunction(x) <= SumFunction(y)
  BY <1>3, <1>13, <1>14, SumGrows
<1>16. /\ SumFunction(x) = SumFunction(h) + SumFunction(u)
       /\ SumFunction(y) = SumFunction(g) + SumFunction(v)
  BY <1>3, <1>8, <1>11, <1>12, SumAdds
<1>17. /\ SumFunction(h) \in Int /\ SumFunction(u) \in Int
       /\ SumFunction(g) \in Int /\ SumFunction(v) \in Int
  BY <1>3, <1>8, <1>12, SumIsInt
<1>18. AvailableCents(t) = e + SumFunction(h) /\ AvailableBasis(t) = e + SumFunction(g)
  BY <1>1, <1>4 DEF SumsOf
<1>19. AvailableCents(t) + SumFunction(f) <= AvailableBasis(t) + SumFunction(k)
  BY <1>9, <1>10, <1>12, <1>15, <1>16, <1>17, <1>18
<1>20. QED
  BY <1>5, <1>19

\* What is kept of the share is what TreasuryCovered says.
LEMMA ShareIsCovered == SInv => TreasuryCovered
<1> SUFFICES ASSUME SInv, NEW t \in Tokens \cup Platform, \A r \in ReceiptsOf(t) : ~r.verified
             PROVE  /\ Buyback(t) >= 0 /\ BuybackCents(t) >= 0 /\ AtCreator(t) >= 0
                    /\ (\A r \in ReceiptsOf(t) : r.kind = "Transfer" => r.consumed <= r.moved)
                         => \A r \in ReceiptsOf(t) : AtTreasury(t, r.wallet) >= 0
  BY DEF TreasuryCovered
<1>1. ShareKept(t)
  BY DEF SInv, TreasuryKept
<1>2. Buyback(t) >= 0 /\ BuybackCents(t) >= 0 /\ AtCreator(t) >= 0
  BY <1>1 DEF ShareKept
<1>3. ASSUME \A r \in ReceiptsOf(t) : r.kind = "Transfer" => r.consumed <= r.moved,
             NEW r \in ReceiptsOf(t)
      PROVE  AtTreasury(t, r.wallet) >= 0
  <2>1. \A q \in Receipts : CentralOf(t, {y \in receipts : y.wallet = q.wallet}) >= 0
    BY <1>1, <1>3 DEF ShareKept
  <2>2. IsReceipt(r)
    BY DEF SInv, TreasuryKept, ReceiptsOf
  <2>3. PICK q \in Receipts : q.wallet = r.wallet
    BY <2>2, ReceiptIs
  <2>4. CentralOf(t, {y \in receipts : y.wallet = r.wallet}) >= 0
    <3>1. {y \in receipts : y.wallet = r.wallet} = {y \in receipts : y.wallet = q.wallet}
      BY <2>3
    <3>2. QED
      BY <2>1, <3>1
  <2>5. QED
    BY <1>2, <2>4 DEF AtTreasury
<1>4. QED
  BY <1>2, <1>3

\* What is inductive implies that nothing is overdrawn.
LEMMA PromisesAreKept == SInv => Solvent
<1> SUFFICES ASSUME SInv PROVE Solvent
  OBVIOUS
<1>1. RowsFit
  BY DEF SInv, RowsFit
<1>2. TypeOK
  <2>1. known \subseteq Tokens \cup Platform /\ claims \subseteq Claims /\ costs \subseteq Costs
    BY DEF SInv, Tables
  <2>2. started \subseteq Payments
    BY DEF SInv, IInv
  <2>3. \A p \in Payments : Typed(pay[p])
    BY DEF SInv, Sound
  <2>4. led \in [Payments -> [Accounts -> Int]]
    <3>1. ASSUME NEW p \in Payments PROVE led[p] \in [Accounts -> Int]
      <4>1. PICK l : l = led[p]
        OBVIOUS
      <4>2. l = [a \in Accounts |-> l[a]] /\ Whole(l)
        BY <4>1 DEF SInv, IInv, Kept, IsSheet
      <4>3. \A a \in Accounts : l[a] \in Int
        BY <4>2 DEF Whole, Accounts
      <4>4. QED
        BY <4>1, <4>2, <4>3
    <3>2. led = [p \in Payments |-> led[p]]
      BY DEF SInv, IInv
    <3>3. QED
      BY <3>1, <3>2
  <2>5. checked \subseteq Checks
    BY DEF SInv, IInv, CheckedHolds
  <2>6. QED
    BY <2>1, <2>2, <2>3, <2>4, <2>5 DEF TypeOK
<1>3. Backed
  <2>1. ASSUME NEW t \in Tokens, NoOverrun(t)
        PROVE  AvailableLamports(t) >= 0 /\ AvailableBasis(t) >= 0 /\ AvailableCents(t) >= 0
    BY <2>1 DEF SInv, AllCovered, Covers
  <2>2. QED
    BY <1>1, <2>1, PromisesAreBacked DEF Backed
<1>4. QED
  BY <1>2, <1>3, ShareIsCovered DEF Solvent

\* The tables are well formed, what the journal promises is backed by SOL that was
\* claimed, and the treasury spends the buyback share only (operations.ts:476-572, 691-711).
THEOREM NothingIsOverdrawn == Spec => []Solvent
<1>1. QED
  BY SolvencyInvariance, PromisesAreKept, PTL

=============================================================================

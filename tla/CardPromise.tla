---------------------------- MODULE CardPromise ----------------------------
(***************************************************************************)
(* What the gift side of the pipeline promises about a card, told by one    *)
(* who sees the issuer's books: an allowance is committed only while the    *)
(* card's credit covers it next to every allowance not charged yet, it is   *)
(* charged once and within its cents, and it is settled at what was charged.*)
(***************************************************************************)
EXTENDS Integers, FiniteSetsExt

CONSTANTS Jobs, Cards, CardLimit, None

VARIABLES
  stage,      \* "open", "committed", "charged" or "settled"
  allowance,  \* the card and cents committed to a job, or None
  spent,      \* cents charged; 0 before
  credit      \* the issuer's available credit

vars == <<stage, allowance, spent, credit>>

AllowedCents(j) == allowance[j].cents

\* Credit that allowances still to be charged will take.
Outstanding(c) ==
  MapThenSumSet(AllowedCents,
                {j \in Jobs : stage[j] = "committed" /\ allowance[j].card = c})

Init ==
  /\ stage = [j \in Jobs |-> "open"]
  /\ allowance = [j \in Jobs |-> None]
  /\ spent = [j \in Jobs |-> 0]
  /\ credit = [c \in Cards |-> CardLimit]

Commit(j) ==
  /\ stage[j] = "open"
  /\ \E c \in Cards : \E cents \in 1 .. credit[c] - Outstanding(c) :
       allowance' = [allowance EXCEPT ![j] = [card |-> c, cents |-> cents]]
  /\ stage' = [stage EXCEPT ![j] = "committed"]
  /\ UNCHANGED <<spent, credit>>

Charge(j) ==
  /\ stage[j] = "committed"
  /\ \E cents \in 1 .. allowance[j].cents :
       /\ spent' = [spent EXCEPT ![j] = cents]
       /\ credit' = [credit EXCEPT ![allowance[j].card] = @ - cents]
  /\ stage' = [stage EXCEPT ![j] = "charged"]
  /\ UNCHANGED allowance

Settle(j) ==
  /\ stage[j] = "charged"
  /\ stage' = [stage EXCEPT ![j] = "settled"]
  /\ allowance' = [allowance EXCEPT ![j].cents = spent[j]]
  /\ UNCHANGED <<spent, credit>>

Next == \E j \in Jobs : Commit(j) \/ Charge(j) \/ Settle(j)

Spec == Init /\ [][Next]_vars
=============================================================================

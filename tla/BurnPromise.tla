---------------------------- MODULE BurnPromise ----------------------------
(***************************************************************************)
(* What a buyback branch promises, told by the Solana ledger: each lot is   *)
(* a purse of its own, filled once, spent on one purchase that leaves it    *)
(* the fee of a burn, and emptied of tokens by one burn of all it bought.   *)
(***************************************************************************)
EXTENDS Integers

CONSTANTS
  Lots,
  MaxFee,    \* the most a burn may cost
  Receipts,  \* what may arrive for a lot
  Outputs    \* what a purchase may bring

VARIABLES
  purse,   \* lamports a lot still has in the dev wallet
  tokens,  \* tokens a lot bought
  burned,  \* tokens burnt for a lot
  stage    \* "none", "funded", "bought" or "burnt"

vars == <<purse, tokens, burned, stage>>

Init ==
  /\ purse = [j \in Lots |-> 0]
  /\ tokens = [j \in Lots |-> 0]
  /\ burned = [j \in Lots |-> 0]
  /\ stage = [j \in Lots |-> "none"]

Fund(j) ==
  /\ stage[j] = "none"
  /\ \E sol \in Receipts : purse' = [purse EXCEPT ![j] = sol]
  /\ stage' = [stage EXCEPT ![j] = "funded"]
  /\ UNCHANGED <<tokens, burned>>

Buy(j) ==
  /\ stage[j] = "funded"
  /\ \E left \in MaxFee .. purse[j] - 1 : purse' = [purse EXCEPT ![j] = left]
  /\ \E amount \in Outputs : tokens' = [tokens EXCEPT ![j] = amount]
  /\ stage' = [stage EXCEPT ![j] = "bought"]
  /\ UNCHANGED burned

Burn(j) ==
  /\ stage[j] = "bought"
  /\ \E fee \in 0 .. MaxFee : fee <= purse[j] /\ purse' = [purse EXCEPT ![j] = @ - fee]
  /\ burned' = [burned EXCEPT ![j] = tokens[j]]
  /\ stage' = [stage EXCEPT ![j] = "burnt"]
  /\ UNCHANGED tokens

Next == \E j \in Lots : Fund(j) \/ Buy(j) \/ Burn(j)

Spec == Init /\ [][Next]_vars
=============================================================================

----------------------------- MODULE SerialBooks -----------------------------
(***************************************************************************)
(* What the ledger promises whatever runs concurrently: the books change   *)
(* by whole transactions only.  One step debits a leaf and all its         *)
(* ancestors and credits another leaf and all its ancestors, on one day,   *)
(* and no such step is lost or seen in part.                               *)
(***************************************************************************)
EXTENDS Integers, Sequences

CONSTANTS
  Accounts,    \* ledger_accounts
  Chain,       \* Chain[a] = <<a>> \o ancestor_ids of a
  Transfers,   \* Transfers[t] = [debtor, creditor, amount] of transaction t
  NumDays      \* days 1..NumDays

VARIABLES
  balance,     \* ledger_accounts.balance
  daily,       \* daily_debit and daily_credit of each account and day
  posted       \* the transactions that have posted

vars == <<balance, daily, posted>>

Directions == {"debit", "credit"}

OnChain(a, leaf) == \E i \in DOMAIN Chain[leaf] : Chain[leaf][i] = a

(* What transaction t adds to account a in direction dir.                  *)
Amount(t, a, dir) ==
  LET leaf == IF dir = "debit" THEN Transfers[t].debtor ELSE Transfers[t].creditor
  IN  IF OnChain(a, leaf) THEN Transfers[t].amount ELSE 0

Init ==
  /\ balance = [a \in Accounts |-> 0]
  /\ daily = [a \in Accounts |-> [d \in 1..NumDays |-> [dir \in Directions |-> 0]]]
  /\ posted = {}

PostWhole(t, d) ==
  /\ t \notin posted
  /\ posted' = posted \cup {t}
  /\ balance' = [a \in Accounts |->
                   balance[a] + Amount(t, a, "credit") - Amount(t, a, "debit")]
  /\ daily' = [a \in Accounts |->
                 [daily[a] EXCEPT ![d] = [dir \in Directions |-> @[dir] + Amount(t, a, dir)]]]

Next == \E t \in DOMAIN Transfers, d \in 1..NumDays : PostWhole(t, d)

Spec == Init /\ [][Next]_vars
=============================================================================

------------------------- MODULE MCLedgerConcurrency -------------------------
(***************************************************************************)
(* Leaves A and B under one root R and a leaf X of its own; transfers in   *)
(* opposite directions, and two that share a root.                         *)
(***************************************************************************)
EXTENDS LedgerConcurrency

CONSTANTS R, A, B, X, t1, t2

MCAccounts == {R, A, B, X}
MCChain == [a \in MCAccounts |-> IF a \in {A, B} THEN <<a, R>> ELSE <<a>>]
MCRank == [a \in MCAccounts |->
             CASE a = A -> 1 [] a = R -> 2 [] a = B -> 3 [] a = X -> 4]
Move(from, to, n) == [debtor |-> from, creditor |-> to, amount |-> n]

MCTransfers == [t \in {t1, t2} |-> IF t = t1 THEN Move(A, X, 2) ELSE Move(B, A, 2)]
MCControls ==
  {[is_blocked |-> FALSE, max |-> 3], [is_blocked |-> TRUE, max |-> Null]}
=============================================================================

-------------------------- MODULE MCTransactionFlow --------------------------
(***************************************************************************)
(* Three requests of one account holder in the sub-CTR band: distinct      *)
(* transactions, or two attempts at one, the second sent as accepted, and  *)
(* another without a creditor account.                                     *)
(***************************************************************************)
EXTENDS TransactionFlow, TLC

CONSTANTS t1, t2, t3, key1, payee

MCRequests == {t1, t2, t3}
Distinct == [r \in MCRequests |-> [key |-> Null, status |-> "pending", wired |-> TRUE]]
Retried ==
  [r \in MCRequests |->
     [key |-> IF r = t3 THEN Null ELSE key1,
      status |-> IF r = t2 THEN "accepted" ELSE "pending", wired |-> r # t3]]
MCSymmetry == Permutations(MCRequests)
MCBodies == {Distinct} \cup {[r \in MCRequests |-> Retried[p[r]]] : p \in MCSymmetry}
MCCreditor == [r \in MCRequests |-> payee]
MCParties == {payee}
=============================================================================

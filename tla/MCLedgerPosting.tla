--------------------------- MODULE MCLedgerPosting ---------------------------
(***************************************************************************)
(* The root R of an account holder over the leaves A and B of two payment  *)
(* accounts, and a counterparty's account X; payments to and from X and a  *)
(* transfer between the holder's own.                                      *)
(***************************************************************************)
EXTENDS LedgerPosting

CONSTANTS R, A, B, X, holder, pa1, pa2, payee

MCAccounts == {R, A, B, X}
MCLeaves == {A, B, X}
MCChain == [a \in MCAccounts |-> IF a \in {A, B} THEN <<a, R>> ELSE <<a>>]
MCEntities == {holder, pa1, pa2, payee}
MCOwnedBy == [x \in MCEntities |->
                CASE x = holder -> {R} [] x = pa1 -> {A} [] x = pa2 -> {B}
                  [] x = payee -> {X}]
MCTransfers == {<<A, X>>, <<B, A>>, <<X, B>>}

(* Two days of one week and one year, across the end of a month.           *)
MCIsoWeek == <<5, 5>>
MCMonth == <<1, 2>>
MCYear == <<2026, 2026>>

NoLimits == [s \in Slots |-> Null]
Only(s, cap) == [NoLimits EXCEPT ![s] = cap]

MCEntryLimits == {Only(<<"daily", "debit">>, 2)}
MCControls ==
  {[is_blocked |-> FALSE, max |-> NoLimits],
   [is_blocked |-> FALSE, max |-> Only(<<"weekly", "debit">>, 3)]}
=============================================================================

------------------------- MODULE MCLedgerMaintenance -------------------------
(***************************************************************************)
(* A root R over one leaf A; entries are inserted, replaced and deleted on *)
(* either, over two days of one week.                                      *)
(***************************************************************************)
EXTENDS LedgerMaintenance

CONSTANTS R, A, holder

MCAccounts == {R, A}
MCLeaves == {A}
MCChain == [a \in MCAccounts |-> IF a = A THEN <<A, R>> ELSE <<R>>]
MCEntities == {holder}
MCOwnedBy == [x \in MCEntities |-> MCAccounts]
MCTransfers == {<<A, A>>}

MCIsoWeek == <<5, 5>>
MCMonth == <<1, 2>>
MCYear == <<2026, 2026>>

NoLimits == [s \in Slots |-> Null]
Only(s, cap) == [NoLimits EXCEPT ![s] = cap]

MCEntryLimits == {NoLimits, Only(<<"daily", "debit">>, 0)}
MCControls == {[is_blocked |-> FALSE, max |-> Only(<<"weekly", "debit">>, 2)]}
=============================================================================

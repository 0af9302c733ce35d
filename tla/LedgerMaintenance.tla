-------------------------- MODULE LedgerMaintenance --------------------------
(***************************************************************************)
(* The ledger under its REST endpoints: besides the pairs a transaction    *)
(* posts, a caller may insert a single entry, replace an entry (voiding it *)
(* or giving it back another status) and delete one.  The trigger runs on  *)
(* every insert and on every update that changes an entry's status.        *)
(* Blocks and hard caps are not castable through the REST endpoints: they  *)
(* change by Onboard of LedgerPosting alone.                               *)
(***************************************************************************)
EXTENDS LedgerPosting

CONSTANTS
  InsertStatuses,   \* bound: statuses a caller inserts a single entry with
  UpdateStatuses,   \* bound: statuses a caller moves an entry to
  UpdateAmounts,    \* bound: amounts a caller replaces an entry's amount with
  MaxEdits          \* bound: calls of the endpoints below

ASSUME MaintenanceAssumption ==
  /\ InsertStatuses \subseteq Statuses
  /\ UpdateStatuses \subseteq Statuses
  /\ UpdateAmounts \subseteq 0..MaxInt
  /\ MaxEdits \in Nat

VARIABLE
  edits      \* calls so far, to bound the behaviours

maintenanceVars == <<vars, edits>>

(* create_ledger_entry: an insert that is already voided moves nothing.    *)
CreateLedgerEntry(acct, dir, amount, status, limits) ==
  LET v == IF status = "voided"
           THEN [code |-> "POSTED", node |-> Null]
           ELSE Verdict(ledger, acct, Delta(dir, amount), limits)
  IN  /\ Len(entries) < MaxEntries
      /\ v.code # "ERROR"
      /\ ledger' = IF status = "voided" THEN ledger
                   ELSE Propagate(ledger, acct, Delta(dir, amount), limits)
      /\ entries' = Append(entries,
                      NewEntry(acct, dir, amount,
                               IF v.code = "POSTED" THEN status ELSE "voided", limits, v))
      /\ UNCHANGED <<today, control>>

(* The fields of an entry that a PUT may change.                           *)
Replaced(e, acct, dir, amount, status, limits) ==
  [e EXCEPT !.account = acct, !.type = dir, !.amount = amount, !.status = status,
            !.limits = limits]

(* Fault: a void gives the balance back but not the rolling totals.        *)
VoidBalanceOnly(i, acct, dir, amount, status, limits) ==
  LET old   == entries[i]
      voids == status = "voided" /\ old.status # "voided"
      after == Propagate(ledger, acct, Delta(old.type, -old.amount), old.limits)
  IN  /\ ledger' = IF voids THEN [ledger EXCEPT !.balance = after.balance] ELSE ledger
      /\ entries' = [entries EXCEPT ![i] = Replaced(@, acct, dir, amount, status, limits)]
      /\ UNCHANGED <<today, control>>

(* Fault: a void is not subject to blocks and limits.                      *)
VoidUnchecked(i, acct, dir, amount, status, limits) ==
  LET old   == entries[i]
      voids == status = "voided" /\ old.status # "voided"
  IN  /\ ledger' = IF voids THEN Moved(ledger, acct, Delta(old.type, -old.amount), old.limits)
                   ELSE ledger
      /\ entries' = [entries EXCEPT ![i] = Replaced(@, acct, dir, amount, status, limits)]
      /\ UNCHANGED <<today, control>>

(* update_ledger_entry: the trigger takes the delta and the limits from    *)
(* the OLD row, the chain from the NEW one and the date from the clock. A  *)
(* rejected reversal still persists the entry voided, with the rejection.  *)
UpdateLedgerEntry(i, acct, dir, amount, status, limits) ==
  LET old   == entries[i]
      voids == status = "voided" /\ old.status # "voided"
      delta == Delta(old.type, -old.amount)
      v     == Verdict(ledger, acct, delta, old.limits)
      new   == Replaced(old, acct, dir, amount, status, limits)
  IN  /\ voids => v.code # "ERROR"
      /\ ledger' = IF voids THEN Propagate(ledger, acct, delta, old.limits) ELSE ledger
      /\ entries' = [entries EXCEPT ![i] =
                       IF voids /\ v.code # "POSTED"
                       THEN [new EXCEPT !.code = v.code, !.node = v.node] ELSE new]
      /\ UNCHANGED <<today, control>>

(* delete_ledger_entry: the row goes, the balances stay.                   *)
DeleteLedgerEntry(i) ==
  /\ entries' = SubSeq(entries, 1, i - 1) \o SubSeq(entries, i + 1, Len(entries))
  /\ UNCHANGED <<today, control, ledger>>

InsertOne ==
  \E acct \in Accounts, dir \in Directions, amount \in Amounts, status \in InsertStatuses,
     l \in EntryLimits : CreateLedgerEntry(acct, dir, amount, status, l)

Replace ==
  \E i \in 1..Len(entries), status \in UpdateStatuses, amount \in UpdateAmounts,
     acct \in Accounts, dir \in Directions, l \in EntryLimits :
    /\ entries[i] # Replaced(entries[i], acct, dir, amount, status, l)
    /\ UpdateLedgerEntry(i, acct, dir, amount, status, l)

Remove == \E i \in 1..Len(entries) : DeleteLedgerEntry(i)

Edit ==
  /\ edits < MaxEdits
  /\ edits' = edits + 1
  /\ \/ InsertOne
     \/ Replace
     \/ Remove

MaintenanceNext == (Next /\ UNCHANGED edits) \/ Edit

MaintenanceSpec == (Init /\ edits = 0) /\ [][MaintenanceNext]_maintenanceVars

-----------------------------------------------------------------------------
(***************************************************************************)
(* Properties                                                              *)
(***************************************************************************)
(* Standing entry i is voided and keeps its account.                       *)
Voids(i) ==
  /\ Len(entries') = Len(entries)
  /\ entries'[i].account = entries[i].account
  /\ Live(entries[i]) /\ ~ Live(entries'[i])

(* The balances of the chain of entry i give back what it added.           *)
GivesBack(i) ==
  LET e == entries[i]
      back == IF e.type = "credit" THEN -e.amount ELSE e.amount
  IN  \A a \in Accounts : InChain(a, e.account) =>
        ledger'.balance[a] = ledger.balance[a] + back

(* update_ledger_entry promises that moving an entry to voided reverses    *)
(* its balance on the leaf and on every ancestor.                          *)
VoidReverses ==
  [][\A i \in 1..Len(entries) : Voids(i) => GivesBack(i)]_vars

(* A zero cap freezes: an entry that arrives with a cap of 0 on its own    *)
(* direction is voided whatever the day's total is, also when voids of     *)
(* older entries have made that total negative.                            *)
ZeroCapFreezes ==
  [][\A i \in (Len(entries) + 1)..Len(entries') :
       (entries'[i].amount > 0 /\ entries'[i].limits[<<"daily", entries'[i].type>>] = 0)
       => entries'[i].status = "voided"]_vars
=============================================================================

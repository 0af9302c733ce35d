---------------------------- MODULE LedgerPosting ----------------------------
(***************************************************************************)
(* The ledger: accounts arranged in chains from a regime leaf up to its    *)
(* root, entries posted on a leaf, and the BEFORE-INSERT trigger           *)
(* propagate_ledger_entry_to_balances that carries every entry up the      *)
(* chain, checks the control limits and voids the entry when a limit or a  *)
(* block forbids it.                                                       *)
(*                                                                         *)
(* One step is one committed database transaction.  The interleaving of    *)
(* the statements of concurrent transactions is the subject of             *)
(* LedgerConcurrency.                                                      *)
(***************************************************************************)
EXTENDS Integers, Sequences, Sums

CONSTANTS
  Accounts,       \* ledger_accounts rows
  Leaves,         \* the *_payment_account_regime_root accounts
  Chain,          \* Chain[a] = <<a>> \o ancestor_ids of a
  Entities,       \* account holders, counterparties and payment accounts
  OwnedBy,        \* OwnedBy[x] = LedgerAccountContext.list_for_entity(x)
  NumDays,        \* bound: the days 1..NumDays
  IsoWeek, Month, Year,      \* EXTRACT(WEEK | MONTH | YEAR) of each day
  MaxInt,         \* the largest value of an INTEGER column
  Transfers,      \* bound: the <<debtor leaf, creditor leaf>> pairs tried
  Amounts,        \* bound: transaction amounts tried
  EntryLimits,    \* bound: per-transaction caps the rule engine returns
  Controls,       \* bound: onboarding controls the rule engine returns
  MaxEntries,     \* bound: ledger_entries rows
  Null            \* SQL NULL: no cap, no rejection

Days == 1..NumDays
Periods == {"daily", "weekly", "monthly", "yearly"}
Directions == {"debit", "credit"}
Slots == Periods \X Directions
Caps == Nat \cup {Null}
LimitSet == [Slots -> Caps]
ControlSet == [is_blocked : BOOLEAN, max : LimitSet]
Statuses == {"pending", "posted", "reversed", "voided"}
Codes == {"POSTED", "BLOCKED", "LIMIT_EXCEEDED", "ERROR"}

ASSUME ConstantsAssumption ==
  /\ Leaves \subseteq Accounts /\ IsFiniteSet(Leaves)
  /\ Chain \in [Accounts -> Seq(Accounts)]
  /\ \A a \in Accounts : Chain[a] # <<>> /\ Chain[a][1] = a
  /\ \A a, b \in Leaves : (\E i \in DOMAIN Chain[a] : Chain[a][i] = b) => a = b
  /\ OwnedBy \in [Entities -> SUBSET Accounts]
  /\ NumDays \in Nat \ {0}
  /\ IsoWeek \in [Days -> Nat] /\ Month \in [Days -> Nat] /\ Year \in [Days -> Nat]
  /\ MaxInt \in Nat /\ MaxEntries \in Nat
  /\ Transfers \subseteq Leaves \X Leaves
  /\ Amounts \subseteq 0..MaxInt
  /\ EntryLimits \subseteq LimitSet
  /\ Controls \subseteq ControlSet
  /\ Null \notin Int

VARIABLES
  today,     \* the UTC date of NOW()
  control,   \* is_blocked and max_* of each ledger account
  ledger,    \* ledger_accounts.balance and the ledger_account_balances rows
  entries    \* ledger_entries, in insertion order

vars == <<today, control, ledger, entries>>

-----------------------------------------------------------------------------
(***************************************************************************)
(* Rows and limits                                                         *)
(***************************************************************************)
(* A ledger_account_balances row: the cumulative totals of the eight       *)
(* period x direction columns and the eight last_*_limit columns.  A row   *)
(* that does not exist yet is the row of zeros without limits: every read  *)
(* of the trigger goes through COALESCE and ON CONFLICT adds to it.        *)
Row == [total : [Slots -> Int], limit : LimitSet]

EmptyRow ==
  [total |-> [s \in Slots |-> 0], limit |-> [s \in Slots |-> Null]]

(* Which days the trigger sums into the total of period p on day t.        *)
SamePeriod(p, d, t) ==
  CASE p = "daily"   -> d = t
    [] p = "weekly"  -> IsoWeek[d] = IsoWeek[t] /\ Year[d] = Year[t]
    [] p = "monthly" -> Month[d] = Month[t] /\ Year[d] = Year[t]
    [] p = "yearly"  -> Year[d] = Year[t]

(* Fault: the prior sum includes the day itself.                           *)
PriorWithToday(rows, p, dir, t) ==
  SumTo([d \in Days |-> IF p # "daily" /\ SamePeriod(p, d, t)
                        THEN rows[d].total[<<"daily", dir>>] ELSE 0],
        NumDays)

(* v_prior: the sum of the other days' daily column in the same period.    *)
Prior(rows, p, dir, t) ==
  SumTo([d \in Days |-> IF d # t /\ SamePeriod(p, d, t)
                        THEN rows[d].total[<<"daily", dir>>] ELSE 0],
        NumDays)

(* The UPSERT of the row of day t with the deltas of one entry.            *)
UpsertRow(rows, t, delta, caps) ==
  [total |-> [s \in Slots |-> Prior(rows, s[1], s[2], t)
                              + rows[t].total[<<"daily", s[2]>>] + delta[s[2]]],
   limit |-> [s \in Slots |-> IF caps[s] # Null THEN caps[s] ELSE rows[t].limit[s]]]

(* The row the INSERT proposes.  Its CHECKs are evaluated before ON        *)
(* CONFLICT turns the INSERT into the UPDATE above.                        *)
ProposedRow(rows, t, delta, caps) ==
  [total |-> [s \in Slots |-> Prior(rows, s[1], s[2], t) + delta[s[2]]],
   limit |-> caps]

(* Fault: the daily CHECKs are missing.                                    *)
WithinLongLimits(row) ==
  \A s \in Slots : (s[1] # "daily" /\ row.limit[s] # Null) => row.total[s] <= row.limit[s]

(* The eight lab_<period>_<direction>_limit CHECK constraints.             *)
WithinLimits(row) ==
  \A s \in Slots : row.limit[s] # Null => row.total[s] <= row.limit[s]

(* INTEGER columns are 32 bits wide; a value outside raises.               *)
Fits(v) == -MaxInt - 1 <= v /\ v <= MaxInt

RowFits(row) ==
  \A s \in Slots : Fits(row.total[s]) /\ (row.limit[s] # Null => Fits(row.limit[s]))

(* Fault: only the leaf's own hard cap counts, not its ancestors'.         *)
LeafCap(acct, s, limits) ==
  LET caps == {control[acct].max[s], limits[s]} \ {Null}
  IN  IF caps = {} THEN Null ELSE CHOOSE m \in caps : \A c \in caps : m <= c

(* LEAST of the chain's smallest hard cap and the entry's own cap; NULL is *)
(* ignored.                                                                *)
EffectiveCap(acct, s, limits) ==
  LET caps == ({control[Chain[acct][i]].max[s] : i \in DOMAIN Chain[acct]}
               \cup {limits[s]}) \ {Null}
  IN  IF caps = {} THEN Null ELSE CHOOSE m \in caps : \A c \in caps : m <= c

-----------------------------------------------------------------------------
(***************************************************************************)
(* The trigger                                                             *)
(***************************************************************************)
InChain(a, acct) == \E i \in DOMAIN Chain[acct] : Chain[acct][i] = a

EffectiveCaps(acct, limits) == [s \in Slots |-> EffectiveCap(acct, s, limits)]

(* The balance and row writes of the trigger's inner block, all of them.   *)
Moved(led, acct, delta, limits) ==
  LET caps == EffectiveCaps(acct, limits)
  IN  [balance |-> [a \in Accounts |->
                      IF InChain(a, acct)
                      THEN led.balance[a] + delta["credit"] - delta["debit"]
                      ELSE led.balance[a]],
       row |-> [a \in Accounts |->
                  IF InChain(a, acct)
                  THEN [led.row[a] EXCEPT ![today] =
                          UpsertRow(led.row[a], today, delta, caps)]
                  ELSE led.row[a]]]

(* The first of a set of positions of the chain.                           *)
FirstOf(S) == CHOOSE i \in S : \A j \in S : i <= j

(* Fault: only the updated row is checked, not the row the INSERT proposes. *)
UpdatedOutcome(led, a, acct, delta, limits) ==
  LET updated == UpsertRow(led.row[a], today, delta, EffectiveCaps(acct, limits))
  IN  IF ~ RowFits(updated) THEN "ERROR"
      ELSE IF ~ WithinLimits(updated) THEN "LIMIT_EXCEEDED"
      ELSE "POSTED"

(* What writing the row of one account of the chain comes to: an INTEGER   *)
(* out of range raises, a broken CHECK is caught by the trigger.           *)
RowOutcome(led, a, acct, delta, limits) ==
  LET caps     == EffectiveCaps(acct, limits)
      proposed == ProposedRow(led.row[a], today, delta, caps)
      updated  == UpsertRow(led.row[a], today, delta, caps)
  IN  IF ~ RowFits(proposed) THEN "ERROR"
      ELSE IF ~ WithinLimits(proposed) THEN "LIMIT_EXCEEDED"
      ELSE IF ~ RowFits(updated) THEN "ERROR"
      ELSE IF ~ WithinLimits(updated) THEN "LIMIT_EXCEEDED"
      ELSE "POSTED"

(* What the trigger decides about an entry: the first blocked account of   *)
(* the chain voids it; a balance out of range raises; the first account of *)
(* the chain whose row cannot be written raises or voids it; else it posts.*)
Verdict(led, acct, delta, limits) ==
  LET chain   == Chain[acct]
      blocked == {i \in DOMAIN chain : control[chain[i]].is_blocked}
      outcome(i) == RowOutcome(led, chain[i], acct, delta, limits)
      failed  == {i \in DOMAIN chain : outcome(i) # "POSTED"}
  IN  IF blocked # {}
      THEN [code |-> "BLOCKED", node |-> chain[FirstOf(blocked)]]
      ELSE IF \E i \in DOMAIN chain :
                ~ Fits(led.balance[chain[i]] + delta["credit"] - delta["debit"])
      THEN [code |-> "ERROR", node |-> Null]
      ELSE IF failed = {}
      THEN [code |-> "POSTED", node |-> Null]
      ELSE [code |-> outcome(FirstOf(failed)), node |-> chain[FirstOf(failed)]]

(* The ledger after the trigger ran: the exception handler rolls the inner *)
(* block back unless everything was written.                               *)
Propagate(led, acct, delta, limits) ==
  IF Verdict(led, acct, delta, limits).code = "POSTED"
  THEN Moved(led, acct, delta, limits)
  ELSE led

Delta(dir, amount) == [x \in Directions |-> IF x = dir THEN amount ELSE 0]

-----------------------------------------------------------------------------
(***************************************************************************)
(* Operations                                                              *)
(***************************************************************************)
Entry ==
  [account : Accounts, type : Directions, amount : Nat, status : Statuses,
   limits : LimitSet, day : Days, code : Codes, node : Accounts \cup {Null}]

NewEntry(acct, dir, amount, status, limits, verdict) ==
  [account |-> acct, type |-> dir, amount |-> amount, status |-> status,
   limits |-> limits, day |-> today, code |-> verdict.code, node |-> verdict.node]

Init ==
  /\ today = 1
  /\ control = [a \in Accounts |->
                  [is_blocked |-> TRUE, max |-> [s \in Slots |-> Null]]]
  /\ ledger = [balance |-> [a \in Accounts |-> 0],
               row |-> [a \in Accounts |-> [d \in Days |-> EmptyRow]]]
  /\ entries = <<>>

(* Fault: no transaction around the pair, a rejected credit leaves the     *)
(* debit's balances behind.                                                *)
CreateWithoutRollback(debtor, creditor, amount, debitLimits, creditLimits) ==
  LET v1  == Verdict(ledger, debtor, Delta("debit", amount), debitLimits)
      mid == Propagate(ledger, debtor, Delta("debit", amount), debitLimits)
      v2  == Verdict(mid, creditor, Delta("credit", amount), creditLimits)
      both == v1.code = "POSTED" /\ v2.code = "POSTED"
      status == IF both THEN "posted" ELSE "voided"
  IN  /\ Len(entries) + 2 <= MaxEntries
      /\ v1.code # "ERROR" /\ v2.code # "ERROR"
      /\ ledger' = Propagate(mid, creditor, Delta("credit", amount), creditLimits)
      /\ entries' = Append(Append(entries,
                      NewEntry(debtor, "debit", amount, status, debitLimits, v1)),
                      NewEntry(creditor, "credit", amount, status, creditLimits, v2))
      /\ UNCHANGED <<today, control>>

(* Fault: each leg keeps the fate the trigger gave it.                     *)
CreateLegByLeg(debtor, creditor, amount, debitLimits, creditLimits) ==
  LET v1  == Verdict(ledger, debtor, Delta("debit", amount), debitLimits)
      mid == Propagate(ledger, debtor, Delta("debit", amount), debitLimits)
      v2  == Verdict(mid, creditor, Delta("credit", amount), creditLimits)
      fate(v) == IF v.code = "POSTED" THEN "posted" ELSE "voided"
  IN  /\ Len(entries) + 2 <= MaxEntries
      /\ v1.code # "ERROR" /\ v2.code # "ERROR"
      /\ ledger' = Propagate(mid, creditor, Delta("credit", amount), creditLimits)
      /\ entries' = Append(Append(entries,
                      NewEntry(debtor, "debit", amount, fate(v1), debitLimits, v1)),
                      NewEntry(creditor, "credit", amount, fate(v2), creditLimits, v2))
      /\ UNCHANGED <<today, control>>

(* create_entries: the debit and then the credit in one transaction; when  *)
(* either comes back voided the transaction rolls back and both legs are   *)
(* recorded again, voided, with the rejection of the first voided leg.     *)
(* An overflow raises out of create_entries and leaves nothing behind.     *)
CreateEntries(debtor, creditor, amount, debitLimits, creditLimits) ==
  LET v1  == Verdict(ledger, debtor, Delta("debit", amount), debitLimits)
      mid == Propagate(ledger, debtor, Delta("debit", amount), debitLimits)
      v2  == Verdict(mid, creditor, Delta("credit", amount), creditLimits)
      both == v1.code = "POSTED" /\ v2.code = "POSTED"
      rejection == IF v1.code # "POSTED" THEN v1 ELSE v2
      status == IF both THEN "posted" ELSE "voided"
  IN  /\ Len(entries) + 2 <= MaxEntries
      /\ v1.code # "ERROR" /\ v2.code # "ERROR"
      /\ ledger' = IF both
                   THEN Propagate(mid, creditor, Delta("credit", amount), creditLimits)
                   ELSE ledger
      /\ entries' = Append(Append(entries,
                      NewEntry(debtor, "debit", amount, status, debitLimits, rejection)),
                      NewEntry(creditor, "credit", amount, status, creditLimits, rejection))
      /\ UNCHANGED <<today, control>>

(* What apply_controls writes on an account the engine is silent about.    *)
BlockByDefault == [is_blocked |-> TRUE, max |-> [s \in Slots |-> Null]]

(* apply_controls: one transaction writes the controls of every account of *)
(* an entity; an account without a Control is blocked again.               *)
ApplyControls(entity, result) ==
  /\ control' = [a \in Accounts |->
                   IF a \notin OwnedBy[entity] THEN control[a]
                   ELSE IF a \in DOMAIN result THEN result[a]
                   ELSE BlockByDefault]
  /\ UNCHANGED <<today, ledger, entries>>

(* Midnight UTC.                                                           *)
NextDay ==
  /\ today < NumDays
  /\ today' = today + 1
  /\ UNCHANGED <<control, ledger, entries>>

Post ==
  \E t \in Transfers, amount \in Amounts, l1, l2 \in EntryLimits :
    /\ t[1] = t[2] => l1 = l2
    /\ CreateEntries(t[1], t[2], amount, l1, l2)

Onboard ==
  \E x \in Entities : \E S \in SUBSET OwnedBy[x] : \E result \in [S -> Controls] :
    ApplyControls(x, result)

Next == Post \/ Onboard \/ NextDay

Spec == Init /\ [][Next]_vars

-----------------------------------------------------------------------------
(***************************************************************************)
(* Properties                                                              *)
(***************************************************************************)
LedgerSet == [balance : [Accounts -> Int], row : [Accounts -> [Days -> Row]]]

TypeOK ==
  /\ today \in Days
  /\ control \in [Accounts -> ControlSet]
  /\ ledger \in LedgerSet
  /\ entries \in Seq(Entry)

Live(e) == e.status # "voided"

(* What entry e contributes to account a in direction dir.                 *)
Share(e, a, dir) ==
  IF Live(e) /\ e.type = dir /\ InChain(a, e.account) THEN e.amount ELSE 0

(* Daily credits minus daily debits of account a, day by day.              *)
DailyNet(led, a) ==
  [d \in Days |-> led.row[a][d].total[<<"daily", "credit">>]
                  - led.row[a][d].total[<<"daily", "debit">>]]

(* Credits minus debits of account a, entry by entry.                      *)
EntryNet(es, a) ==
  [i \in 1..Len(es) |-> Share(es[i], a, "credit") - Share(es[i], a, "debit")]

(* The two stores of the ledger reconcile without a nightly job: the       *)
(* running balance of an account is the sum over all days of its daily     *)
(* credits minus its daily debits.                                         *)
BalanceMatchesRows ==
  \A a \in Accounts :
    ledger.balance[a] = SumTo(DailyNet(ledger, a), NumDays)

(* The running balance of every account of a chain is the net of the       *)
(* entries that stand below it: a rejected pair has moved nothing, on no   *)
(* level, and a posted one has moved every level once.                     *)
BalanceMatchesEntries ==
  \A a \in Accounts :
    ledger.balance[a] = SumTo(EntryNet(entries, a), Len(entries))

(* The cumulative column of every period holds what the standing entries   *)
(* of that period add up to, counted up to the row's day.                  *)
TotalsMatchEntries ==
  \A a \in Accounts, d \in Days, s \in Slots :
    (\E i \in 1..Len(entries) : /\ Live(entries[i]) /\ entries[i].day = d
                                /\ InChain(a, entries[i].account))
    => ledger.row[a][d].total[s] =
         SumTo([i \in 1..Len(entries) |->
                  IF SamePeriod(s[1], entries[i].day, d) /\ entries[i].day <= d
                  THEN Share(entries[i], a, s[2]) ELSE 0], Len(entries))

(* What the entries of day d contribute to account a, entry by entry.      *)
DayShare(es, a, d, dir) ==
  [i \in 1..Len(es) |-> IF es[i].day = d THEN Share(es[i], a, dir) ELSE 0]

(* "You cannot post past a limit": what stands posted on a day, under any  *)
(* account, is within the daily limit that account's row records.          *)
DailyPostedWithinLimit ==
  \A a \in Accounts, d \in Days, dir \in Directions :
    ledger.row[a][d].limit[<<"daily", dir>>] # Null
    => SumTo(DayShare(entries, a, d, dir), Len(entries))
       <= ledger.row[a][d].limit[<<"daily", dir>>]

(* Double entry: over the leaves of all chains the books sum to zero.      *)
DoubleEntry == SumOver(ledger.balance, Leaves) = 0

(* No money moves through a blocked account, whichever leg of whichever    *)
(* chain it sits on: as long as it is blocked neither its balance nor its  *)
(* rolling totals change.                                                  *)
BlockedNeverMoves ==
  [][\A a \in Accounts : control[a].is_blocked =>
       /\ ledger'.balance[a] = ledger.balance[a]
       /\ ledger'.row[a] = ledger.row[a]]_vars

(* The max_* caps are hard ceilings: whenever a row of an account that has *)
(* one is written, by an entry on it or anywhere below it and whatever cap *)
(* that entry brings, the period's total stays within the ceiling.         *)
HardCeiling ==
  [][\A a \in Accounts, s \in Slots :
       (ledger'.row[a][today] # ledger.row[a][today] /\ control[a].max[s] # Null)
       => ledger'.row[a][today].total[s] <= control[a].max[s]]_vars
=============================================================================

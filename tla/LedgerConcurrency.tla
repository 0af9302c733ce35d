-------------------------- MODULE LedgerConcurrency --------------------------
(***************************************************************************)
(* create_entries of several transactions at once, statement by statement, *)
(* under PostgreSQL's READ COMMITTED: the trigger reads blocks and caps    *)
(* without a lock, its UPDATE of ledger_accounts locks the rows of the     *)
(* chain one after the other until the transaction ends, and NOW() is the  *)
(* time the transaction began.  One cap, on daily debits, stands for the   *)
(* eight that LedgerPosting tells apart.                                   *)
(***************************************************************************)
EXTENDS Integers, Sequences, FiniteSets
LOCAL INSTANCE Relation

CONSTANTS
  Accounts,    \* ledger_accounts
  Chain,       \* Chain[a] = <<a>> \o ancestor_ids of a
  Rank,        \* the order in which an UPDATE visits the rows
  Transfers,   \* Transfers[t] = [debtor, creditor, amount]
  NumDays,     \* bound: days
  Controls,    \* bound: controls an onboarding writes
  MaxControls, \* bound: number of such writes
  Null         \* no cap

Txns == DOMAIN Transfers
Days == 1..NumDays
Directions == {"debit", "credit"}
Caps == Nat \cup {Null}
ControlSet == [is_blocked : BOOLEAN, max : Caps]
Steps == {"idle", "check", "caps", "lock", "end", "void", "done"}
Fates == {"none", "posted", "voided", "error"}

ASSUME ConcurrencyAssumption ==
  /\ Chain \in [Accounts -> Seq(Accounts)]
  /\ Rank \in [Accounts -> Nat]
  /\ \A a, b \in Accounts : Rank[a] = Rank[b] => a = b
  /\ \A t \in Txns : Transfers[t] \in [debtor : Accounts, creditor : Accounts,
                                    amount : Nat \ {0}]
  /\ NumDays \in Nat \ {0} /\ MaxControls \in Nat
  /\ Controls \subseteq ControlSet
  /\ Null \notin Nat

VARIABLES
  today,
  control,     \* is_blocked and max_daily_debit, committed
  balance,     \* ledger_accounts.balance, committed
  daily,       \* daily_debit and daily_credit, committed
  limit,       \* last_daily_debit_limit, committed
  posted,      \* transactions committed with both entries posted
  at, leg,     \* where each transaction stands, and on which entry
  now,         \* now[t]: the day of NOW() in t
  cap,         \* cap[t]: the cap the trigger has read
  held,        \* held[t]: rows of ledger_accounts t has locked
  mine,        \* mine[t]: uncommitted amounts of t by account and direction
  setLimit,    \* setLimit[t]: uncommitted last_daily_debit_limit of t
  voids,       \* voids[t]: an entry of t came back voided
  fate, writes

books == <<balance, daily, limit, posted>>
txnVars == <<at, leg, now, cap, held, mine, setLimit, voids, fate>>
vars == <<today, control, books, txnVars, writes>>

Nothing == [a \in Accounts |-> [dir \in Directions |-> 0]]
NoLimits == [a \in Accounts |-> Null]

Init ==
  /\ today = 1
  /\ control = [a \in Accounts |-> [is_blocked |-> FALSE, max |-> Null]]
  /\ balance = [a \in Accounts |-> 0]
  /\ daily = [a \in Accounts |-> [d \in Days |-> [dir \in Directions |-> 0]]]
  /\ limit = [a \in Accounts |-> [d \in Days |-> Null]]
  /\ posted = {}
  /\ at = [t \in Txns |-> "idle"]
  /\ leg = [t \in Txns |-> "debit"]
  /\ now = [t \in Txns |-> 1]
  /\ cap = [t \in Txns |-> Null]
  /\ held = [t \in Txns |-> {}]
  /\ mine = [t \in Txns |-> Nothing]
  /\ setLimit = [t \in Txns |-> NoLimits]
  /\ voids = [t \in Txns |-> FALSE]
  /\ fate = [t \in Txns |-> "none"]
  /\ writes = 0

-----------------------------------------------------------------------------
Goto(t, s) == at' = [at EXCEPT ![t] = s]

(* The accounts the trigger works on: v_account_ids of the current entry.  *)
ChainOf(t, dir) ==
  LET leaf == IF dir = "debit" THEN Transfers[t].debtor ELSE Transfers[t].creditor
  IN  {Chain[leaf][i] : i \in DOMAIN Chain[leaf]}

(* The entry is inserted, posted or voided; the debit is followed by the   *)
(* credit whatever became of it.                                           *)
NextEntry(t) ==
  /\ leg' = [leg EXCEPT ![t] = "credit"]
  /\ Goto(t, IF leg[t] = "debit" THEN "check" ELSE "end")

Begin(t) ==
  /\ at[t] = "idle"
  /\ now' = [now EXCEPT ![t] = today]
  /\ Goto(t, "check")
  /\ UNCHANGED <<today, control, books, leg, cap, held, mine, setLimit, voids, fate, writes>>

(* The block check: an unlocked SELECT.                                    *)
CheckBlocks(t) ==
  /\ at[t] = "check"
  /\ IF \E a \in ChainOf(t, leg[t]) : control[a].is_blocked
     THEN voids' = [voids EXCEPT ![t] = TRUE] /\ NextEntry(t)
     ELSE Goto(t, "caps") /\ UNCHANGED <<leg, voids>>
  /\ UNCHANGED <<today, control, books, now, cap, held, mine, setLimit, fate, writes>>

(* LEAST over the chain's hard caps: another unlocked SELECT.              *)
ReadCaps(t) ==
  /\ at[t] = "caps"
  /\ cap' = [cap EXCEPT ![t] =
       LET caps == {control[a].max : a \in ChainOf(t, leg[t])} \ {Null}
       IN  IF caps = {} THEN Null ELSE CHOOSE m \in caps : \A c \in caps : m <= c]
  /\ Goto(t, "lock")
  /\ UNCHANGED <<today, control, books, leg, now, held, mine, setLimit, voids, fate, writes>>

(* The row the UPDATE of ledger_accounts comes to next.                    *)
Missing(t) == ChainOf(t, leg[t]) \ held[t]
NextRow(t) == CHOOSE a \in Missing(t) : \A b \in Missing(t) : Rank[a] <= Rank[b]

Waiting(t, o) == t # o /\ at[t] = "lock" /\ Missing(t) # {} /\ NextRow(t) \in held[o]

(* Fault: the rows are read without being locked.                          *)
LockShared(t) ==
  /\ at[t] = "lock" /\ Missing(t) # {}
  /\ held' = [held EXCEPT ![t] = @ \cup {NextRow(t)}]
  /\ UNCHANGED <<today, control, books, at, leg, now, cap, mine, setLimit, voids, fate, writes>>

LockRow(t) ==
  /\ at[t] = "lock" /\ Missing(t) # {}
  /\ \A o \in Txns : ~ Waiting(t, o)
  /\ held' = [held EXCEPT ![t] = @ \cup {NextRow(t)}]
  /\ UNCHANGED <<today, control, books, at, leg, now, cap, mine, setLimit, voids, fate, writes>>

(* The total and the limit of a's row as t sees them with the new entry.   *)
NewDebit(t, a) ==
  daily[a][now[t]]["debit"] + mine[t][a]["debit"]
  + (IF leg[t] = "debit" THEN Transfers[t].amount ELSE 0)

NewLimit(t, a) ==
  IF cap[t] # Null THEN cap[t]
  ELSE IF setLimit[t][a] # Null THEN setLimit[t][a] ELSE limit[a][now[t]]

(* A row's amounts with the new entry added.                               *)
WithEntry(t, amounts) ==
  [dir \in Directions |-> amounts[dir] + (IF dir = leg[t] THEN Transfers[t].amount ELSE 0)]

(* The UPSERTs of the chain's rows, under the locks.  A broken CHECK rolls *)
(* the inner block back, which gives up the locks it took unless an        *)
(* earlier entry of the transaction holds them too.                        *)
Upsert(t) ==
  LET chain == ChainOf(t, leg[t])
      ok == \A a \in chain : NewLimit(t, a) # Null => NewDebit(t, a) <= NewLimit(t, a)
  IN  /\ at[t] = "lock" /\ Missing(t) = {}
      /\ IF ok
         THEN /\ mine' = [mine EXCEPT ![t] = [a \in Accounts |->
                  IF a \in chain THEN WithEntry(t, @[a]) ELSE @[a]]]
              /\ setLimit' = [setLimit EXCEPT ![t] = [a \in Accounts |->
                  IF a \in chain THEN NewLimit(t, a) ELSE @[a]]]
              /\ UNCHANGED <<held, voids>>
         ELSE /\ voids' = [voids EXCEPT ![t] = TRUE]
              /\ held' = [held EXCEPT ![t] = {a \in @ : mine[t][a] # Nothing[a]}]
              /\ UNCHANGED <<mine, setLimit>>
      /\ NextEntry(t)
      /\ UNCHANGED <<today, control, books, now, cap, fate, writes>>

Release(t) ==
  /\ held' = [held EXCEPT ![t] = {}]
  /\ mine' = [mine EXCEPT ![t] = Nothing]
  /\ setLimit' = [setLimit EXCEPT ![t] = NoLimits]

(* Fault: the transaction commits although its credit was voided.          *)
CommitHalf(t) ==
  /\ at[t] = "end"
  /\ balance' = [a \in Accounts |-> balance[a] + mine[t][a]["credit"] - mine[t][a]["debit"]]
  /\ daily' = [a \in Accounts |->
       [daily[a] EXCEPT ![now[t]] = [dir \in Directions |-> @[dir] + mine[t][a][dir]]]]
  /\ posted' = posted \cup {t}
  /\ fate' = [fate EXCEPT ![t] = "posted"]
  /\ Release(t)
  /\ Goto(t, "done")
  /\ UNCHANGED <<today, control, limit, leg, now, cap, voids, writes>>

(* Both entries posted: the transaction commits.                           *)
Commit(t) ==
  /\ at[t] = "end" /\ ~ voids[t]
  /\ balance' = [a \in Accounts |-> balance[a] + mine[t][a]["credit"] - mine[t][a]["debit"]]
  /\ daily' = [a \in Accounts |->
       [daily[a] EXCEPT ![now[t]] = [dir \in Directions |-> @[dir] + mine[t][a][dir]]]]
  /\ limit' = [a \in Accounts |->
       [limit[a] EXCEPT ![now[t]] = IF setLimit[t][a] # Null THEN setLimit[t][a] ELSE @]]
  /\ posted' = posted \cup {t}
  /\ fate' = [fate EXCEPT ![t] = "posted"]
  /\ Release(t)
  /\ Goto(t, "done")
  /\ UNCHANGED <<today, control, leg, now, cap, voids, writes>>

(* An entry came back voided: Repo.rollback.                               *)
Rollback(t) ==
  /\ at[t] = "end" /\ voids[t]
  /\ Release(t)
  /\ Goto(t, "void")
  /\ UNCHANGED <<today, control, books, leg, now, cap, voids, fate, writes>>

(* Both entries again, voided; the trigger returns at once.                *)
RecordVoided(t) ==
  /\ at[t] = "void"
  /\ fate' = [fate EXCEPT ![t] = "voided"]
  /\ Goto(t, "done")
  /\ UNCHANGED <<today, control, books, leg, now, cap, held, mine, setLimit, voids, writes>>

(* Fault: nobody looks for deadlocks.                                      *)
DeadlockIgnored(t) == FALSE /\ UNCHANGED vars

WaitsForItself(t) == TransitiveClosure([p, q \in Txns |-> Waiting(p, q)], Txns)[t, t]

(* PostgreSQL's deadlock detector aborts a transaction that waits for      *)
(* itself; the error leaves create_entries, nothing is retried.            *)
Deadlock(t) ==
  /\ WaitsForItself(t)
  /\ fate' = [fate EXCEPT ![t] = "error"]
  /\ Release(t)
  /\ Goto(t, "done")
  /\ UNCHANGED <<today, control, books, leg, now, cap, voids, writes>>

(* apply_controls commits a new control; it waits for the row's lock.      *)
WriteControl(a, c) ==
  /\ writes < MaxControls
  /\ writes' = writes + 1
  /\ \A t \in Txns : a \notin held[t]
  /\ control' = [control EXCEPT ![a] = c]
  /\ UNCHANGED <<today, books, txnVars>>

Midnight ==
  /\ today < NumDays
  /\ today' = today + 1
  /\ UNCHANGED <<control, books, txnVars, writes>>

Advance(t) ==
  \/ CheckBlocks(t)
  \/ ReadCaps(t)
  \/ LockRow(t)
  \/ Upsert(t)
  \/ Commit(t)
  \/ Rollback(t)
  \/ RecordVoided(t)
  \/ Deadlock(t)

Next ==
  \/ \E t \in Txns : Begin(t) \/ Advance(t)
  \/ \E a \in Accounts, c \in Controls : WriteControl(a, c)
  \/ Midnight

(* The database goes on with a transaction that is not waiting and breaks  *)
(* deadlocks after deadlock_timeout.                                       *)
Fairness == \A t \in Txns : WF_vars(Advance(t))

Spec == Init /\ [][Next]_vars /\ Fairness

-----------------------------------------------------------------------------
(***************************************************************************)
(* Properties                                                              *)
(***************************************************************************)
TypeOK ==
  /\ today \in Days
  /\ control \in [Accounts -> ControlSet]
  /\ balance \in [Accounts -> Int]
  /\ daily \in [Accounts -> [Days -> [Directions -> Nat]]]
  /\ limit \in [Accounts -> [Days -> Caps]]
  /\ posted \subseteq Txns
  /\ at \in [Txns -> Steps] /\ leg \in [Txns -> Directions] /\ now \in [Txns -> Days]
  /\ cap \in [Txns -> Caps]
  /\ held \in [Txns -> SUBSET Accounts]
  /\ mine \in [Txns -> [Accounts -> [Directions -> Nat]]]
  /\ setLimit \in [Txns -> [Accounts -> Caps]]
  /\ voids \in [Txns -> BOOLEAN] /\ fate \in [Txns -> Fates]
  /\ writes \in 0..MaxControls

Books == INSTANCE SerialBooks WITH
           Accounts <- Accounts, Chain <- Chain, Transfers <- Transfers,
           NumDays <- NumDays, balance <- balance, daily <- daily, posted <- posted

(* The interleaved statements implement whole transactions: what is        *)
(* committed moves by one complete debit and credit chain at a time.       *)
ImplementsSerialBooks == Books!Spec

(* Two transactions that each fit under a limit cannot both slip past it:  *)
(* the committed total of a day is within the limit its row records.       *)
LimitHolds ==
  \A a \in Accounts, d \in Days :
    limit[a][d] # Null => daily[a][d]["debit"] <= limit[a][d]

(* A row of ledger_accounts has one writer at a time, and whoever has      *)
(* uncommitted amounts on an account holds its row.                        *)
OneWriter ==
  /\ \A t, o \in Txns : t # o => held[t] \cap held[o] = {}
  /\ \A t \in Txns, a \in Accounts : mine[t][a] # Nothing[a] => a \in held[t]

(* Every create_entries ends, transfers in opposite directions included.   *)
EveryoneEnds == \A t \in Txns : at[t] = "check" ~> at[t] = "done"
=============================================================================

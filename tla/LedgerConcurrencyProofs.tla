----------------------- MODULE LedgerConcurrencyProofs -----------------------
(***************************************************************************)
(* What the row locks of the balance trigger guarantee for any number of   *)
(* concurrent transactions, any chart of accounts and any lock order: the  *)
(* limits hold, and the books change by whole transactions.                *)
(***************************************************************************)
EXTENDS LedgerConcurrency, FiniteSetTheorems, WellFoundedInduction, TLAPS

(* Every nonempty set of natural numbers has a least element.              *)
LEMMA NatLeast ==
  ASSUME NEW T \in SUBSET Nat, T # {}
  PROVE  \E m \in T : \A k \in T : m <= k
<1> DEFINE Less == OpToRel(<, Nat)
<1>1. IsWellFoundedOn(Less, Nat)
  BY NatLessThanWellFounded
<1>2. \A i, j \in Nat : <<i, j>> \in Less <=> i < j
  BY DEF OpToRel
<1> HIDE DEF Less
<1>3. PICK m \in T : \A k \in T : ~ (<<k, m>> \in Less)
  BY <1>1, WFMin
<1>4. ASSUME NEW k \in T PROVE m <= k
  <2>1. k \in Nat /\ m \in Nat
    OBVIOUS
  <2>2. ~ (k < m)
    BY <1>2, <1>3, <2>1
  <2> QED BY <2>1, <2>2
<1> QED BY <1>4

(* The limit of a's row as t sees it.                                      *)
Limit(t, a) == IF setLimit[t][a] # Null THEN setLimit[t][a] ELSE limit[a][now[t]]

(* What t has not committed yet is within the limit too.                   *)
Capped(t, a) ==
  /\ mine[t][a] = Nothing[a] => setLimit[t][a] = Null
  /\ mine[t][a] # Nothing[a] /\ Limit(t, a) # Null =>
       daily[a][now[t]]["debit"] + mine[t][a]["debit"] <= Limit(t, a)

Trigger == {"check", "caps", "lock"}

(* The amounts of t after its debit, and after both entries.               *)
DebitOnly(t) == [a \in Accounts |-> [dir \in Directions |->
                  IF dir = "debit" THEN Books!Amount(t, a, dir) ELSE 0]]
Both(t) == [a \in Accounts |-> [dir \in Directions |-> Books!Amount(t, a, dir)]]

(* What t has done where it stands, unless an entry was voided.            *)
InPhase(t) ==
  /\ t \in posted => at[t] = "done"
  /\ at[t] = "idle" => leg[t] = "debit"
  /\ \/ at[t] \in {"idle", "void", "done"}
     \/ at[t] \in Trigger /\ leg[t] = "debit"
     => mine[t] = Nothing
  /\ at[t] \in Trigger /\ leg[t] = "credit" /\ ~ voids[t] => mine[t] = DebitOnly(t)
  /\ at[t] = "end" /\ ~ voids[t] => mine[t] = Both(t)

ConcurrencyInv ==
  /\ TypeOK /\ OneWriter /\ LimitHolds
  /\ \A t \in Txns, a \in Accounts : Capped(t, a)
  /\ \A t \in Txns : InPhase(t)
-----------------------------------------------------------------------------
(* The trigger works on accounts.                                          *)
LEMMA ChainOfType ==
  ASSUME NEW t \in Txns, NEW dir \in Directions
  PROVE  ChainOf(t, dir) \subseteq Accounts
<1> DEFINE leaf == IF dir = "debit" THEN Transfers[t].debtor ELSE Transfers[t].creditor
<1>1. leaf \in Accounts
  BY ConcurrencyAssumption
<1>2. Chain[leaf] \in Seq(Accounts)
  BY <1>1, ConcurrencyAssumption
<1>3. ChainOf(t, dir) = {Chain[leaf][i] : i \in DOMAIN Chain[leaf]}
  BY DEF ChainOf
<1> HIDE DEF leaf
<1> QED
  BY <1>2, <1>3

(* The UPDATE always finds its next row among those it still misses.       *)
LEMMA NextRowMissing ==
  ASSUME TypeOK, NEW t \in Txns, Missing(t) # {}
  PROVE  NextRow(t) \in Missing(t) /\ NextRow(t) \in Accounts
<1>1. Missing(t) \subseteq Accounts
  BY ChainOfType DEF TypeOK, Missing
<1> DEFINE ranks == {Rank[a] : a \in Missing(t)}
<1>2. ranks \in SUBSET Nat /\ ranks # {}
  BY <1>1, ConcurrencyAssumption
<1>3. PICK m \in ranks : \A k \in ranks : m <= k
  BY <1>2, NatLeast
<1>4. \E a \in Missing(t) : \A b \in Missing(t) : Rank[a] <= Rank[b]
  BY <1>3
<1> HIDE DEF ranks
<1> QED
  BY <1>1, <1>4 DEF NextRow

(* The cap the trigger reads is a cap.                                     *)
LEMMA CapRead ==
  ASSUME TypeOK, NEW t \in Txns, ReadCaps(t)
  PROVE  cap' \in [Txns -> Caps]
<1> DEFINE caps == {control[a].max : a \in ChainOf(t, leg[t])} \ {Null}
           low == IF caps = {} THEN Null ELSE CHOOSE m \in caps : \A c \in caps : m <= c
<1>1. cap' = [cap EXCEPT ![t] = low]
  BY DEF ReadCaps
<1>2. \A a \in ChainOf(t, leg[t]) : control[a].max \in Caps
  BY ChainOfType DEF TypeOK, ControlSet
<1>3. caps \in SUBSET Nat
  BY <1>2 DEF Caps
<1>4. low \in Caps
  <2> HIDE DEF caps
  <2>1. CASE caps = {}
    BY <2>1 DEF Caps
  <2>2. CASE caps # {}
    <3>1. \E m \in caps : \A c \in caps : m <= c
      BY <2>2, <1>3, NatLeast
    <3>2. low \in caps
      BY <3>1, <2>2
    <3> QED
      BY <3>2, <1>3 DEF Caps
  <2> QED
    BY <2>1, <2>2
<1> HIDE DEF low
<1> QED
  BY <1>1, <1>4 DEF TypeOK

(* What the trigger works with has the types of its columns.               *)
LEMMA NewValues ==
  ASSUME TypeOK, NEW t \in Txns, NEW a \in Accounts
  PROVE  /\ NewLimit(t, a) \in Caps /\ NewDebit(t, a) \in Nat
         /\ Transfers[t].amount \in Nat /\ Transfers[t].amount > 0
<1>1. Transfers[t].amount \in Nat /\ Transfers[t].amount > 0
  BY ConcurrencyAssumption
<1>2. daily[a][now[t]]["debit"] \in Nat /\ mine[t][a]["debit"] \in Nat
  BY DEF TypeOK, Directions
<1>3. NewLimit(t, a) \in Caps
  BY DEF TypeOK, NewLimit
<1> QED
  BY <1>1, <1>2, <1>3 DEF NewDebit

(* The entry of t posts and makes m and l of its amounts and limits.       *)
Posts(t, m, l) ==
  /\ m \in [Accounts -> [Directions -> Nat]] /\ l \in [Accounts -> Caps]
  /\ mine' = [mine EXCEPT ![t] = m] /\ setLimit' = [setLimit EXCEPT ![t] = l]
  /\ UNCHANGED <<held, voids>>
  /\ \A a \in Accounts \ ChainOf(t, leg[t]) : m[a] = mine[t][a] /\ l[a] = setLimit[t][a]
  /\ \A a \in ChainOf(t, leg[t]) :
       /\ l[a] = NewLimit(t, a)
       /\ \A dir \in Directions : m[a][dir] = mine[t][a][dir]
            + (IF dir = leg[t] THEN Transfers[t].amount ELSE 0)
       /\ NewLimit(t, a) # Null => NewDebit(t, a) <= NewLimit(t, a)

(* The entry of t is voided.                                               *)
Voids(t) ==
  /\ UNCHANGED <<mine, setLimit>>
  /\ voids' = [voids EXCEPT ![t] = TRUE]
  /\ held' = [held EXCEPT ![t] = {a \in held[t] : mine[t][a] # Nothing[a]}]

(* The outcomes of the UPSERTs: all rows within their limits, or none      *)
(* written and the entry voided.                                           *)
LEMMA UpsertCases ==
  ASSUME TypeOK, NEW t \in Txns, Upsert(t)
  PROVE  /\ at[t] = "lock" /\ ChainOf(t, leg[t]) \subseteq held[t]
         /\ NextEntry(t) /\ UNCHANGED <<today, control, books, now, cap, fate, writes>>
         /\ \/ \E m, l : Posts(t, m, l)
            \/ Voids(t)
<1> DEFINE chain == ChainOf(t, leg[t])
           ok == \A a \in chain : NewLimit(t, a) # Null => NewDebit(t, a) <= NewLimit(t, a)
<1>1. /\ at[t] = "lock" /\ chain \subseteq held[t]
      /\ NextEntry(t) /\ UNCHANGED <<today, control, books, now, cap, fate, writes>>
  BY DEF Upsert, Missing
<1>2. CASE ok
  <2> DEFINE m == [a \in Accounts |-> IF a \in chain THEN WithEntry(t, mine[t][a])
                                                ELSE mine[t][a]]
             l == [a \in Accounts |-> IF a \in chain THEN NewLimit(t, a) ELSE setLimit[t][a]]
  <2>1. mine' = [mine EXCEPT ![t] = m] /\ setLimit' = [setLimit EXCEPT ![t] = l]
    BY <1>2 DEF Upsert
  <2>2. UNCHANGED <<held, voids>>
    BY <1>2 DEF Upsert
  <2>3. l \in [Accounts -> Caps]
    BY NewValues DEF TypeOK
  <2>4. ASSUME NEW a \in Accounts
        PROVE  m[a] \in [Directions -> Nat]
    BY NewValues DEF TypeOK, WithEntry
  <2>5. m \in [Accounts -> [Directions -> Nat]]
    BY <2>4
  <2>6. chain \subseteq Accounts
    BY ChainOfType DEF TypeOK
  <2>7. ASSUME NEW a \in chain, NEW dir \in Directions
        PROVE  m[a][dir] = mine[t][a][dir] + (IF dir = leg[t] THEN Transfers[t].amount ELSE 0)
    BY <2>6 DEF WithEntry
  <2>8. \A a \in Accounts \ chain : m[a] = mine[t][a] /\ l[a] = setLimit[t][a]
    OBVIOUS
  <2>9. \A a \in chain : l[a] = NewLimit(t, a)
    BY <2>6
  <2> HIDE DEF m, l
  <2>10. Posts(t, m, l)
    BY <1>2, <2>1, <2>2, <2>3, <2>5, <2>7, <2>8, <2>9 DEF Posts
  <2> QED
    BY <1>1, <2>10
<1>3. CASE ~ ok
  BY <1>1, <1>3 DEF Upsert, Voids
<1> QED
  BY <1>2, <1>3

(* Amounts and limits start empty.                                         *)
LEMMA EmptyTypes ==
  /\ Nothing \in [Accounts -> [Directions -> Nat]]
  /\ NoLimits \in [Accounts -> Caps]
BY DEF Nothing, NoLimits, Caps

(* Every transaction starts with nothing on books without limits.          *)
LEMMA ConcurrencyStarts == Init => ConcurrencyInv
<1> SUFFICES ASSUME Init PROVE ConcurrencyInv
  OBVIOUS
<1>1. TypeOK
  <2>1. today \in Days /\ now \in [Txns -> Days] /\ writes \in 0..MaxControls
    BY ConcurrencyAssumption DEF Init, Days
  <2>2. control \in [Accounts -> ControlSet]
    BY DEF Init, ControlSet, Caps
  <2>3. balance \in [Accounts -> Int] /\ daily \in [Accounts -> [Days -> [Directions -> Nat]]]
    BY DEF Init
  <2>4. limit \in [Accounts -> [Days -> Caps]] /\ cap \in [Txns -> Caps]
    BY DEF Init, Caps
  <2>5. mine \in [Txns -> [Accounts -> [Directions -> Nat]]]
        /\ setLimit \in [Txns -> [Accounts -> Caps]]
    BY EmptyTypes DEF Init
  <2> QED
    BY <2>1, <2>2, <2>3, <2>4, <2>5 DEF Init, TypeOK, Steps, Directions, Fates
<1>2. OneWriter /\ LimitHolds
  BY DEF Init, OneWriter, LimitHolds
<1>3. ASSUME NEW t \in Txns, NEW a \in Accounts PROVE Capped(t, a)
  BY DEF Init, Capped, NoLimits
<1>4. ASSUME NEW t \in Txns PROVE InPhase(t)
  BY DEF Init, InPhase, Trigger
<1> QED
  BY <1>1, <1>2, <1>3, <1>4 DEF ConcurrencyInv

(* The statements of a transaction keep the types.                         *)
LEMMA TxnType ==
  ASSUME TypeOK, NEW t \in Txns, Begin(t) \/ Advance(t)
  PROVE  TypeOK'
<1> USE DEF Goto, Steps
<1>1. CASE Begin(t)
  BY <1>1 DEF TypeOK, Begin, books
<1>2. CASE CheckBlocks(t)
  BY <1>2 DEF TypeOK, CheckBlocks, NextEntry, Directions, books
<1>3. CASE ReadCaps(t)
  BY <1>3, CapRead DEF TypeOK, ReadCaps, books
<1>4. CASE LockRow(t)
  <2>1. NextRow(t) \in Accounts
    BY <1>4, NextRowMissing DEF LockRow
  <2> QED
    BY <1>4, <2>1 DEF TypeOK, LockRow, books
<1>5. CASE Upsert(t)
  <2>1. /\ mine' \in [Txns -> [Accounts -> [Directions -> Nat]]]
        /\ setLimit' \in [Txns -> [Accounts -> Caps]]
        /\ held' \in [Txns -> SUBSET Accounts] /\ voids' \in [Txns -> BOOLEAN]
    <3>1. ASSUME NEW m, NEW l, Posts(t, m, l)
          PROVE  /\ mine' \in [Txns -> [Accounts -> [Directions -> Nat]]]
                 /\ setLimit' \in [Txns -> [Accounts -> Caps]]
                 /\ held' \in [Txns -> SUBSET Accounts] /\ voids' \in [Txns -> BOOLEAN]
      BY <3>1 DEF Posts, TypeOK
    <3>2. CASE Voids(t)
      BY <3>2 DEF Voids, TypeOK
    <3> QED
      BY <3>1, <3>2, <1>5, UpsertCases
  <2>3. at' \in [Txns -> Steps] /\ leg' \in [Txns -> Directions]
    BY <1>5, UpsertCases DEF TypeOK, NextEntry, Directions
  <2>4. UNCHANGED <<today, control, books, now, cap, fate, writes>>
    BY <1>5, UpsertCases
  <2> QED
    BY <2>1, <2>3, <2>4 DEF TypeOK, books
<1>6. CASE Commit(t)
  <2>1. balance' \in [Accounts -> Int]
    BY <1>6 DEF TypeOK, Commit, Directions
  <2>2. daily' \in [Accounts -> [Days -> [Directions -> Nat]]]
    <3>1. ASSUME NEW a \in Accounts
          PROVE  daily'[a] \in [Days -> [Directions -> Nat]]
      <4> DEFINE row == [dir \in Directions |-> daily[a][now[t]][dir] + mine[t][a][dir]]
      <4>1. daily'[a] = [daily[a] EXCEPT ![now[t]] = row]
        BY <1>6 DEF Commit
      <4>2. row \in [Directions -> Nat]
        BY DEF TypeOK
      <4> HIDE DEF row
      <4> QED
        BY <4>1, <4>2 DEF TypeOK
    <3> QED
      BY <3>1, <1>6 DEF Commit
  <2>3. limit' \in [Accounts -> [Days -> Caps]]
    BY <1>6 DEF TypeOK, Commit
  <2> QED
    BY <2>1, <2>2, <2>3, <1>6, EmptyTypes DEF TypeOK, Commit, Release, Fates
<1>7. CASE Rollback(t)
  BY <1>7, EmptyTypes DEF TypeOK, Rollback, Release, books
<1>8. CASE RecordVoided(t)
  BY <1>8 DEF TypeOK, RecordVoided, books, Fates
<1>9. CASE Deadlock(t)
  BY <1>9, EmptyTypes DEF TypeOK, Deadlock, Release, books, Fates
<1> QED
  BY <1>1, <1>2, <1>3, <1>4, <1>5, <1>6, <1>7, <1>8, <1>9 DEF Advance

(* A statement of one transaction leaves the others as they are.           *)
LEMMA TxnFrame ==
  ASSUME TypeOK, NEW t \in Txns, Begin(t) \/ Advance(t), NEW o \in Txns, o # t
  PROVE  /\ at'[o] = at[o] /\ leg'[o] = leg[o] /\ now'[o] = now[o] /\ held'[o] = held[o]
         /\ mine'[o] = mine[o] /\ setLimit'[o] = setLimit[o] /\ voids'[o] = voids[o]
<1> USE DEF Goto, TypeOK
<1>1. CASE Begin(t)
  BY <1>1 DEF Begin
<1>2. CASE CheckBlocks(t)
  BY <1>2 DEF CheckBlocks, NextEntry
<1>3. CASE ReadCaps(t)
  BY <1>3 DEF ReadCaps
<1>4. CASE LockRow(t)
  BY <1>4 DEF LockRow
<1>5. CASE Upsert(t)
  <2>1. /\ mine'[o] = mine[o] /\ setLimit'[o] = setLimit[o]
        /\ held'[o] = held[o] /\ voids'[o] = voids[o]
    <3>1. ASSUME NEW m, NEW l, Posts(t, m, l)
          PROVE  /\ mine'[o] = mine[o] /\ setLimit'[o] = setLimit[o]
                 /\ held'[o] = held[o] /\ voids'[o] = voids[o]
      BY <3>1 DEF Posts
    <3>2. CASE Voids(t)
      BY <3>2 DEF Voids
    <3> QED
      BY <3>1, <3>2, <1>5, UpsertCases
  <2>2. now' = now /\ NextEntry(t)
    BY <1>5, UpsertCases
  <2> QED
    BY <2>1, <2>2 DEF NextEntry
<1>6. CASE Commit(t) \/ Rollback(t) \/ Deadlock(t)
  BY <1>6 DEF Commit, Rollback, Deadlock, Release
<1>7. CASE RecordVoided(t)
  BY <1>7 DEF RecordVoided
<1> QED
  BY <1>1, <1>2, <1>3, <1>4, <1>5, <1>6, <1>7 DEF Advance

(* Only a COMMIT changes the books.                                        *)
LEMMA BooksFrame ==
  ASSUME TypeOK, NEW t \in Txns, Begin(t) \/ Advance(t), ~ Commit(t)
  PROVE  UNCHANGED books
BY UpsertCases DEF Advance, Begin, CheckBlocks, ReadCaps, LockRow, Rollback, RecordVoided,
                   Deadlock

(* Without an UPSERT and until the end, amounts and limits stay.           *)
LEMMA MineFrame ==
  ASSUME NEW t \in Txns,
         Begin(t) \/ CheckBlocks(t) \/ ReadCaps(t) \/ LockRow(t) \/ RecordVoided(t)
  PROVE  UNCHANGED <<mine, setLimit>>
BY DEF Begin, CheckBlocks, ReadCaps, LockRow, RecordVoided

-----------------------------------------------------------------------------
(* A row that an UPSERT has written shows it.                              *)
LEMMA WrittenShows ==
  ASSUME TypeOK, NEW t \in Txns, NEW m, NEW l, Posts(t, m, l), NEW a \in ChainOf(t, leg[t])
  PROVE  m[a] # Nothing[a]
<1>1. leg[t] \in Directions /\ a \in Accounts
  BY ChainOfType DEF TypeOK
<1>2. m[a][leg[t]] = mine[t][a][leg[t]] + Transfers[t].amount
  BY <1>1 DEF Posts
<1>3. mine[t][a][leg[t]] \in Nat /\ Transfers[t].amount \in Nat /\ Transfers[t].amount > 0
  BY <1>1, NewValues DEF TypeOK
<1>4. Nothing[a][leg[t]] = 0
  BY <1>1 DEF Nothing
<1> QED
  BY <1>2, <1>3, <1>4

(* The locks stay exclusive and cover what is written.                     *)
LEMMA WriterStep ==
  ASSUME TypeOK, OneWriter, NEW t \in Txns, Begin(t) \/ Advance(t)
  PROVE  OneWriter'
<1> USE DEF Goto
<1> DEFINE Own == /\ \A o \in Txns \ {t} : held'[t] \cap held[o] = {}
                  /\ \A a \in Accounts : mine'[t][a] # Nothing[a] => a \in held'[t]
<1>1. SUFFICES Own
  <2> HIDE DEF Own
  <2>1. SUFFICES ASSUME Own PROVE OneWriter'
    OBVIOUS
  <2>2. \A o \in Txns \ {t} : held'[o] = held[o] /\ mine'[o] = mine[o]
    BY TxnFrame
  <2>3. \A p, o \in Txns : p # o => held'[p] \cap held'[o] = {}
    BY <2>1, <2>2 DEF OneWriter, Own
  <2>4. \A p \in Txns, a \in Accounts : mine'[p][a] # Nothing[a] => a \in held'[p]
    BY <2>1, <2>2 DEF OneWriter, Own
  <2> QED
    BY <2>3, <2>4 DEF OneWriter, Nothing
<1>2. CASE Begin(t) \/ CheckBlocks(t) \/ ReadCaps(t) \/ RecordVoided(t)
  BY <1>2 DEF OneWriter, Begin, CheckBlocks, ReadCaps, RecordVoided
<1>3. CASE LockRow(t)
  <2>1. held'[t] = held[t] \cup {NextRow(t)} /\ mine' = mine
    BY <1>3 DEF LockRow, TypeOK
  <2>2. \A o \in Txns \ {t} : NextRow(t) \notin held[o]
    BY <1>3 DEF LockRow, Waiting
  <2> QED
    BY <2>1, <2>2 DEF OneWriter
<1>4. CASE Upsert(t)
  <2>1. ASSUME NEW m, NEW l, Posts(t, m, l) PROVE Own
    <3>1. mine'[t] = m /\ held' = held
      BY <2>1 DEF Posts, TypeOK
    <3>2. ASSUME NEW a \in Accounts, m[a] # Nothing[a] PROVE a \in held[t]
      <4>1. CASE a \in ChainOf(t, leg[t])
        BY <4>1, <1>4, UpsertCases
      <4>2. CASE a \notin ChainOf(t, leg[t])
        BY <4>2, <2>1, <3>2 DEF Posts, OneWriter
      <4> QED
        BY <4>1, <4>2
    <3> QED
      BY <3>1, <3>2 DEF OneWriter
  <2>2. CASE Voids(t)
    <3>1. mine' = mine /\ held'[t] = {a \in held[t] : mine[t][a] # Nothing[a]}
      BY <2>2 DEF Voids, TypeOK
    <3> QED
      BY <3>1 DEF OneWriter
  <2> QED
    BY <2>1, <2>2, <1>4, UpsertCases
<1>5. CASE Commit(t) \/ Rollback(t) \/ Deadlock(t)
  <2>1. held'[t] = {} /\ mine'[t] = Nothing
    BY <1>5 DEF Commit, Rollback, Deadlock, Release, TypeOK
  <2> QED
    BY <2>1
<1> QED
  BY <1>2, <1>3, <1>4, <1>5 DEF Advance

(* Nothing is committed without its limit being kept.                      *)
LEMMA CommitKeepsLimits ==
  ASSUME ConcurrencyInv, NEW t \in Txns, Commit(t)
  PROVE  /\ LimitHolds'
         /\ \A o \in Txns \ {t}, a \in Accounts : Capped(o, a)'
<1>0. TypeOK /\ OneWriter /\ LimitHolds /\ \A o \in Txns, a \in Accounts : Capped(o, a)
  BY DEF ConcurrencyInv
<1>1. ASSUME NEW a \in Accounts, NEW d \in Days
      PROVE  /\ d # now[t] => daily'[a][d] = daily[a][d] /\ limit'[a][d] = limit[a][d]
             /\ d = now[t] => /\ limit'[a][d] = Limit(t, a)
                              /\ daily'[a][d]["debit"] =
                                   daily[a][d]["debit"] + mine[t][a]["debit"]
  BY <1>0, <1>1 DEF TypeOK, Commit, Limit, Directions
<1>2. ASSUME NEW a \in Accounts, NEW d \in Days, mine[t][a] = Nothing[a]
      PROVE  limit'[a][d] = limit[a][d] /\ daily'[a][d]["debit"] = daily[a][d]["debit"]
  <2>1. setLimit[t][a] = Null /\ mine[t][a]["debit"] = 0
    BY <1>0, <1>2 DEF Capped, Nothing, Directions
  <2>2. daily[a][d]["debit"] \in Nat
    BY <1>0 DEF TypeOK, Directions
  <2> QED
    BY <1>1, <2>1, <2>2 DEF Limit
<1>3. ASSUME NEW a \in Accounts, NEW d \in Days, limit'[a][d] # Null
      PROVE  daily'[a][d]["debit"] <= limit'[a][d]
  <2>1. CASE mine[t][a] = Nothing[a]
    BY <2>1, <1>0, <1>2, <1>3 DEF LimitHolds
  <2>2. CASE mine[t][a] # Nothing[a] /\ d = now[t]
    BY <2>2, <1>0, <1>1, <1>3 DEF Capped
  <2>3. CASE d # now[t]
    BY <2>3, <1>0, <1>1, <1>3 DEF LimitHolds
  <2> QED
    BY <2>1, <2>2, <2>3
<1>4. ASSUME NEW o \in Txns \ {t}, NEW a \in Accounts
      PROVE  Capped(o, a)'
  <2>1. mine'[o] = mine[o] /\ setLimit'[o] = setLimit[o] /\ now'[o] = now[o]
    BY <1>0, TxnFrame DEF Advance
  <2>2. Capped(o, a) /\ Nothing' = Nothing
    BY <1>0 DEF Nothing
  <2>3. CASE mine[o][a] = Nothing[a]
    BY <2>1, <2>2, <2>3 DEF Capped
  <2>4. CASE mine[o][a] # Nothing[a]
    <3>1. mine[t][a] = Nothing[a]
      BY <2>4, <1>0 DEF OneWriter
    <3>2. now[o] \in Days
      BY <1>0 DEF TypeOK
    <3>3. limit'[a][now[o]] = limit[a][now[o]]
          /\ daily'[a][now[o]]["debit"] = daily[a][now[o]]["debit"]
      BY <1>2, <3>1, <3>2
    <3> QED
      BY <2>1, <2>2, <2>4, <3>3 DEF Capped, Limit
  <2> QED
    BY <2>3, <2>4
<1> QED
  BY <1>3, <1>4 DEF LimitHolds

(* The statements of t keep its own uncommitted amounts within the limits. *)
LEMMA OwnCapped ==
  ASSUME ConcurrencyInv, NEW t \in Txns, Begin(t) \/ Advance(t), NEW a \in Accounts
  PROVE  Capped(t, a)'
<1> USE DEF Goto
<1>0. TypeOK /\ Capped(t, a) /\ InPhase(t) /\ Nothing' = Nothing
  BY DEF ConcurrencyInv, Nothing
<1>1. CASE Begin(t)
  <2>1. mine[t] = Nothing /\ UNCHANGED <<mine, setLimit>>
    BY <1>0, <1>1 DEF InPhase, Begin
  <2> QED
    BY <2>1, <1>0 DEF Capped
<1>2. CASE CheckBlocks(t) \/ ReadCaps(t) \/ LockRow(t) \/ RecordVoided(t)
  <2>1. UNCHANGED <<mine, setLimit, now, daily, limit>>
    BY <1>2 DEF CheckBlocks, ReadCaps, LockRow, RecordVoided, books
  <2> QED
    BY <2>1, <1>0 DEF Capped, Limit
<1>3. CASE Upsert(t)
  <2>0. UNCHANGED <<now, daily, limit>>
    BY <1>3, <1>0, UpsertCases DEF books
  <2>1. ASSUME NEW m, NEW l, Posts(t, m, l) PROVE Capped(t, a)'
    <3>0. mine'[t] = m /\ setLimit'[t] = l
      BY <1>0, <2>1 DEF Posts, TypeOK
    <3>1. CASE a \notin ChainOf(t, leg[t])
      <4>1. m[a] = mine[t][a] /\ l[a] = setLimit[t][a]
        BY <2>1, <3>1 DEF Posts
      <4> QED
        BY <4>1, <3>0, <2>0, <1>0 DEF Capped, Limit
    <3>2. CASE a \in ChainOf(t, leg[t])
      <4>0. m[a] # Nothing[a]
        BY <1>0, <2>1, <3>2, WrittenShows
      <4>1. /\ l[a] = NewLimit(t, a)
            /\ NewLimit(t, a) # Null => NewDebit(t, a) <= NewLimit(t, a)
        BY <2>1, <3>2 DEF Posts
      <4>2. daily[a][now[t]]["debit"] + m[a]["debit"] = NewDebit(t, a)
        <5>1. m[a]["debit"] = mine[t][a]["debit"]
                              + (IF "debit" = leg[t] THEN Transfers[t].amount ELSE 0)
          BY <2>1, <3>2 DEF Posts, Directions
        <5>2. daily[a][now[t]]["debit"] \in Nat /\ mine[t][a]["debit"] \in Nat
              /\ Transfers[t].amount \in Nat
          BY <1>0, NewValues DEF TypeOK, Directions
        <5> QED
          BY <5>1, <5>2 DEF NewDebit
      <4>3. Limit(t, a)' = NewLimit(t, a)
        BY <4>1, <3>0, <2>0 DEF Limit, NewLimit
      <4> QED
        BY <4>0, <4>1, <4>2, <4>3, <3>0, <2>0, <1>0 DEF Capped
    <3> QED
      BY <3>1, <3>2
  <2>2. CASE Voids(t)
    BY <2>0, <2>2, <1>0 DEF Voids, Capped, Limit
  <2> QED
    BY <2>1, <2>2, <1>0, <1>3, UpsertCases
<1>4. CASE Commit(t) \/ Rollback(t) \/ Deadlock(t)
  <2>1. mine'[t] = Nothing /\ setLimit'[t] = NoLimits
    BY <1>0, <1>4 DEF Commit, Rollback, Deadlock, Release, TypeOK
  <2> QED
    BY <2>1, <1>0 DEF Capped, NoLimits
<1> QED
  BY <1>1, <1>2, <1>3, <1>4 DEF Advance

-----------------------------------------------------------------------------
(* What a transaction adds to an account, by the chains of its entries.    *)
LEMMA AmountOnChain ==
  ASSUME NEW t \in Txns, NEW a \in Accounts, NEW dir \in Directions
  PROVE  Books!Amount(t, a, dir) =
           IF a \in ChainOf(t, dir) THEN Transfers[t].amount ELSE 0
BY DEF Books!Amount, Books!OnChain, ChainOf

(* The first entry of t that posts leaves the debit's amounts, the second  *)
(* both.                                                                   *)
LEMMA EntryAdds ==
  ASSUME TypeOK, NEW t \in Txns, NEW m, NEW l, Posts(t, m, l)
  PROVE  /\ leg[t] = "debit" /\ mine[t] = Nothing => m = DebitOnly(t)
         /\ leg[t] = "credit" /\ mine[t] = DebitOnly(t) => m = Both(t)
<1>0. m \in [Accounts -> [Directions -> Nat]] /\ Transfers[t].amount \in Nat
      /\ leg[t] \in Directions /\ mine[t] \in [Accounts -> [Directions -> Nat]]
  BY ConcurrencyAssumption DEF Posts, TypeOK
<1>1. ASSUME NEW a \in Accounts, NEW dir \in Directions
      PROVE  m[a][dir] = mine[t][a][dir]
               + (IF dir = leg[t] THEN Books!Amount(t, a, dir) ELSE 0)
  <2>0. mine[t][a][dir] \in Nat
    BY <1>0
  <2>1. CASE a \in ChainOf(t, leg[t])
    BY <2>1, <1>0, AmountOnChain DEF Posts
  <2>2. CASE a \notin ChainOf(t, leg[t])
    BY <2>0, <2>2, <1>0, AmountOnChain DEF Posts
  <2> QED
    BY <2>1, <2>2
<1>2. ASSUME NEW a \in Accounts, NEW dir \in Directions
      PROVE  Books!Amount(t, a, dir) \in Nat
  BY <1>0, AmountOnChain
<1>3. ASSUME leg[t] = "debit", mine[t] = Nothing PROVE m = DebitOnly(t)
  <2>1. ASSUME NEW a \in Accounts, NEW dir \in Directions
        PROVE  m[a][dir] = IF dir = "debit" THEN Books!Amount(t, a, dir) ELSE 0
    BY <1>1, <1>2, <1>3 DEF Nothing
  <2>2. ASSUME NEW a \in Accounts
        PROVE  m[a] = [dir \in Directions |->
                         IF dir = "debit" THEN Books!Amount(t, a, dir) ELSE 0]
    BY <2>1, <1>0
  <2> QED
    BY <2>2, <1>0 DEF DebitOnly
<1>4. ASSUME leg[t] = "credit", mine[t] = DebitOnly(t) PROVE m = Both(t)
  <2>1. ASSUME NEW a \in Accounts, NEW dir \in Directions
        PROVE  m[a][dir] = Books!Amount(t, a, dir)
    BY <1>1, <1>2, <1>4 DEF DebitOnly, Directions
  <2>2. ASSUME NEW a \in Accounts
        PROVE  m[a] = [dir \in Directions |-> Books!Amount(t, a, dir)]
    BY <2>1, <1>0
  <2> QED
    BY <2>2, <1>0 DEF Both
<1> QED
  BY <1>3, <1>4

(* Each statement brings t from one phase to the next.                     *)
LEMMA OwnPhase ==
  ASSUME ConcurrencyInv, NEW t \in Txns, Begin(t) \/ Advance(t)
  PROVE  InPhase(t)'
<1> USE DEF Goto, Trigger
<1>0. /\ TypeOK /\ InPhase(t) /\ Nothing' = Nothing
      /\ DebitOnly(t)' = DebitOnly(t) /\ Both(t)' = Both(t)
  BY DEF ConcurrencyInv, Nothing, DebitOnly, Both, Books!Amount, Books!OnChain
<1>1. CASE Begin(t)
  BY <1>0, <1>1 DEF InPhase, Begin, TypeOK, books
<1>2. CASE CheckBlocks(t)
  <2>1. /\ at[t] = "check" /\ UNCHANGED <<mine, posted>>
        /\ \/ /\ voids'[t]
              /\ leg'[t] = "credit"
              /\ at'[t] = IF leg[t] = "debit" THEN "check" ELSE "end"
           \/ at'[t] = "caps" /\ UNCHANGED <<leg, voids>>
    BY <1>0, <1>2 DEF CheckBlocks, NextEntry, TypeOK, books
  <2> QED
    BY <1>0, <2>1 DEF InPhase
<1>3. CASE ReadCaps(t)
  BY <1>0, <1>3 DEF InPhase, ReadCaps, TypeOK, books
<1>4. CASE LockRow(t)
  BY <1>0, <1>4 DEF InPhase, LockRow, books
<1>5. CASE Upsert(t)
  <2>1. /\ at[t] = "lock" /\ leg'[t] = "credit" /\ UNCHANGED posted
        /\ at'[t] = IF leg[t] = "debit" THEN "check" ELSE "end"
    BY <1>0, <1>5, UpsertCases DEF NextEntry, TypeOK, books
  <2>2. t \notin posted /\ leg[t] \in {"debit", "credit"}
    BY <1>0, <2>1 DEF InPhase, TypeOK, Directions
  <2>3. ASSUME NEW m, NEW l, Posts(t, m, l) PROVE InPhase(t)'
    <3>1. mine'[t] = m /\ voids' = voids
      BY <1>0, <2>3 DEF Posts, TypeOK
    <3>2. leg[t] = "debit" => m = DebitOnly(t)
      BY <1>0, <2>1, <2>3, EntryAdds DEF InPhase
    <3>3. leg[t] = "credit" /\ ~ voids[t] => m = Both(t)
      BY <1>0, <2>1, <2>3, EntryAdds DEF InPhase
    <3> QED
      BY <1>0, <2>1, <2>2, <3>1, <3>2, <3>3 DEF InPhase
  <2>4. CASE Voids(t)
    <3>1. voids'[t]
      BY <1>0, <2>4 DEF Voids, TypeOK
    <3> QED
      BY <2>1, <2>2, <3>1 DEF InPhase
  <2> QED
    BY <2>3, <2>4, <1>0, <1>5, UpsertCases
<1>6. CASE Commit(t) \/ Rollback(t) \/ Deadlock(t)
  <2>1. mine'[t] = Nothing /\ at'[t] \in {"void", "done"}
    BY <1>0, <1>6 DEF Commit, Rollback, Deadlock, Release, TypeOK
  <2>2. t \in posted' => at'[t] = "done"
    BY <1>0, <1>6 DEF Commit, Rollback, Deadlock, TypeOK, InPhase, books
  <2> QED
    BY <2>1, <2>2, <1>0 DEF InPhase
<1>7. CASE RecordVoided(t)
  BY <1>0, <1>7 DEF InPhase, RecordVoided, TypeOK, books
<1> QED
  BY <1>1, <1>2, <1>3, <1>4, <1>5, <1>6, <1>7 DEF Advance

(* The invariant is inductive.                                             *)
LEMMA ConcurrencyStep == ConcurrencyInv /\ [Next]_vars => ConcurrencyInv'
<1> SUFFICES ASSUME ConcurrencyInv, [Next]_vars PROVE ConcurrencyInv'
  OBVIOUS
<1>0. /\ TypeOK /\ OneWriter /\ LimitHolds
      /\ \A t \in Txns, a \in Accounts : Capped(t, a)
      /\ \A t \in Txns : InPhase(t)
  BY DEF ConcurrencyInv
<1>c. /\ Nothing' = Nothing
      /\ \A t \in Txns : DebitOnly(t)' = DebitOnly(t) /\ Both(t)' = Both(t)
  BY DEF Nothing, DebitOnly, Both, Books!Amount, Books!OnChain
<1>1. ASSUME NEW t \in Txns, Begin(t) \/ Advance(t)
      PROVE  ConcurrencyInv'
  <2>1. TypeOK' /\ OneWriter' /\ InPhase(t)' /\ \A a \in Accounts : Capped(t, a)'
    BY <1>0, <1>1, TxnType, WriterStep, OwnPhase, OwnCapped
  <2>2. LimitHolds' /\ \A o \in Txns \ {t}, a \in Accounts : Capped(o, a)'
    <3>1. CASE Commit(t)
      BY <3>1, CommitKeepsLimits
    <3>2. CASE ~ Commit(t)
      <4>1. UNCHANGED <<daily, limit>>
        BY <3>2, <1>0, <1>1, BooksFrame DEF books
      <4>2. ASSUME NEW o \in Txns \ {t}, NEW a \in Accounts PROVE Capped(o, a)'
        <5>1. mine'[o] = mine[o] /\ setLimit'[o] = setLimit[o] /\ now'[o] = now[o]
          BY <1>0, <1>1, TxnFrame
        <5> QED
          BY <5>1, <4>1, <1>0, <1>c DEF Capped, Limit
      <4> QED
        BY <4>1, <4>2, <1>0 DEF LimitHolds
    <3> QED
      BY <3>1, <3>2
  <2>3. ASSUME NEW o \in Txns \ {t} PROVE InPhase(o)'
    <3>1. /\ at'[o] = at[o] /\ leg'[o] = leg[o] /\ mine'[o] = mine[o] /\ voids'[o] = voids[o]
      BY <1>0, <1>1, TxnFrame
    <3>2. o \in posted' => o \in posted
      <4>1. CASE Commit(t)
        BY <4>1 DEF Commit
      <4>2. CASE ~ Commit(t)
        BY <4>2, <1>0, <1>1, BooksFrame DEF books
      <4> QED
        BY <4>1, <4>2
    <3> QED
      BY <3>1, <3>2, <1>0, <1>c DEF InPhase
  <2> QED
    BY <2>1, <2>2, <2>3 DEF ConcurrencyInv
<1>2. ASSUME UNCHANGED <<books, txnVars>>, TypeOK' PROVE ConcurrencyInv'
  <2>1. OneWriter' /\ LimitHolds'
    BY <1>0, <1>2, <1>c DEF OneWriter, LimitHolds, books, txnVars
  <2>2. ASSUME NEW t \in Txns, NEW a \in Accounts PROVE Capped(t, a)'
    BY <1>0, <1>2, <1>c DEF Capped, Limit, books, txnVars
  <2>3. ASSUME NEW t \in Txns PROVE InPhase(t)'
    BY <1>0, <1>2, <1>c DEF InPhase, books, txnVars
  <2> QED
    BY <1>2, <2>1, <2>2, <2>3 DEF ConcurrencyInv
<1>3. ASSUME NEW a \in Accounts, NEW c \in Controls, WriteControl(a, c)
      PROVE  ConcurrencyInv'
  <2>1. c \in ControlSet
    BY ConcurrencyAssumption
  <2>2. writes' \in 0..MaxControls
    BY <1>0, <1>3, ConcurrencyAssumption DEF WriteControl, TypeOK
  <2>3. TypeOK'
    BY <2>1, <2>2, <1>0, <1>3 DEF WriteControl, TypeOK, books, txnVars
  <2> QED
    BY <2>3, <1>2, <1>3 DEF WriteControl
<1>4. CASE Midnight
  <2>1. today' \in Days
    BY <1>0, <1>4, ConcurrencyAssumption DEF Midnight, TypeOK, Days
  <2>2. TypeOK'
    BY <2>1, <1>0, <1>4 DEF Midnight, TypeOK, books, txnVars
  <2> QED
    BY <2>2, <1>2, <1>4 DEF Midnight
<1>5. CASE UNCHANGED vars
  <2>1. TypeOK'
    BY <1>0, <1>5 DEF vars, TypeOK, books, txnVars
  <2> QED
    BY <2>1, <1>2, <1>5 DEF vars
<1> QED
  BY <1>1, <1>3, <1>4, <1>5 DEF Next

(* The invariant holds in every state.                                     *)
LEMMA ConcurrencyInvariant == Spec => []ConcurrencyInv
BY ConcurrencyStarts, ConcurrencyStep, PTL DEF Spec

-----------------------------------------------------------------------------
(* The columns and the state of the transactions keep their types.         *)
THEOREM ConcurrencyTypeCorrect == Spec => []TypeOK
<1>1. ConcurrencyInv => TypeOK
  BY DEF ConcurrencyInv
<1> QED
  BY <1>1, ConcurrencyInvariant, PTL

(* However the statements of the trigger interleave, a row of              *)
(* ledger_accounts has one writer until that transaction ends.             *)
THEOREM RowsHaveOneWriter == Spec => []OneWriter
<1>1. ConcurrencyInv => OneWriter
  BY DEF ConcurrencyInv
<1> QED
  BY <1>1, ConcurrencyInvariant, PTL

(* However the statements of the trigger interleave, the committed debits  *)
(* of a day never exceed the limit recorded with them: the totals are      *)
(* compared under the row locks, on what is committed and on what the      *)
(* transaction itself has written.                                         *)
THEOREM ConcurrentLimitHolds == Spec => []LimitHolds
<1>1. ConcurrencyInv => LimitHolds
  BY DEF ConcurrencyInv
<1> QED
  BY <1>1, ConcurrencyInvariant, PTL

-----------------------------------------------------------------------------
(* A COMMIT of the detailed system is a whole transaction of SerialBooks.  *)
LEMMA CommitIsWhole ==
  ASSUME ConcurrencyInv, NEW t \in Txns, Commit(t)
  PROVE  Books!PostWhole(t, now[t])
<1>0. TypeOK /\ t \notin posted /\ mine[t] = Both(t)
  BY DEF ConcurrencyInv, InPhase, Commit
<1>1. ASSUME NEW a \in Accounts, NEW dir \in Directions
      PROVE  mine[t][a][dir] = Books!Amount(t, a, dir)
  BY <1>0 DEF Both
<1>2. posted' = posted \cup {t}
  BY DEF Commit
<1>3. balance' = [a \in Accounts |->
                    balance[a] + Books!Amount(t, a, "credit") - Books!Amount(t, a, "debit")]
  BY <1>1 DEF Commit, Directions
<1>4. daily' = [a \in Accounts |-> [daily[a] EXCEPT ![now[t]] =
                  [dir \in Directions |-> daily[a][now[t]][dir] + Books!Amount(t, a, dir)]]]
  BY <1>1 DEF Commit
<1>5. Books!Directions = Directions
  BY DEF Books!Directions, Directions
<1> QED
  BY <1>0, <1>2, <1>3, <1>4, <1>5 DEF Books!PostWhole

(* Every step of the detailed system is a step of SerialBooks or leaves    *)
(* the books as they are.                                                  *)
LEMMA StepIsSerial ==
  ConcurrencyInv /\ [Next]_vars => [Books!Next]_(Books!vars)
<1> SUFFICES ASSUME ConcurrencyInv, [Next]_vars PROVE [Books!Next]_(Books!vars)
  OBVIOUS
<1>1. ASSUME NEW t \in Txns, Begin(t) \/ Advance(t)
      PROVE  [Books!Next]_(Books!vars)
  <2>1. CASE Commit(t)
    <3>1. now[t] \in 1..NumDays /\ t \in DOMAIN Transfers
      BY DEF ConcurrencyInv, TypeOK, Days, Txns
    <3>2. Books!PostWhole(t, now[t])
      BY <2>1, CommitIsWhole
    <3> QED
      BY <3>1, <3>2 DEF Books!Next
  <2>2. CASE ~ Commit(t)
    BY <2>2, <1>1, BooksFrame DEF ConcurrencyInv, books, Books!vars
  <2> QED
    BY <2>1, <2>2
<1>2. CASE UNCHANGED books
  BY <1>2 DEF books, Books!vars
<1> QED
  BY <1>1, <1>2 DEF Next, WriteControl, Midnight, vars

(* The ledger under concurrency implements SerialBooks: what other         *)
(* transactions can see moves by one complete debit and credit chain at a  *)
(* time, none is posted twice, and none is seen in part, whatever voids,   *)
(* deadlocks and day changes come between the statements.                  *)
THEOREM ConcurrencyRefinesBooks == Spec => ImplementsSerialBooks
<1>1. Init => Books!Init
  <2>1. Books!Directions = Directions /\ Days = 1..NumDays
    BY DEF Books!Directions, Directions, Days
  <2> QED
    BY <2>1 DEF Init, Books!Init
<1> QED
  BY <1>1, StepIsSerial, ConcurrencyInvariant, PTL DEF Spec, ImplementsSerialBooks, Books!Spec
=============================================================================

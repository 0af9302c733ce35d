----------------------------- MODULE LedgerProofs -----------------------------
(***************************************************************************)
(* Proofs about LedgerPosting and LedgerMaintenance, for every chart of    *)
(* accounts, every calendar and every set of amounts, limits and controls. *)
(***************************************************************************)
EXTENDS LedgerMaintenance, FiniteSetTheorems, SequenceTheorems, WellFoundedInduction, TLAPS

(***************************************************************************)
(* What SumTo and SumOver compute, for every length and finite set.        *)
(*                                                                         *)
(* Induction over the length is done by least counterexample: the set of   *)
(* lengths for which a fact fails is a subset of Nat, and NatLeast gives   *)
(* its least element, whose predecessor cannot be in the set.              *)
(***************************************************************************)

(* Every nonempty set of natural numbers has a least element.              *)
LEMMA NatLeast ==
  ASSUME NEW T \in SUBSET Nat, T # {}
  PROVE  \E m \in T : \A k \in T : m <= k
<1> DEFINE Less == OpToRel(<, Nat)
<1>1. IsWellFoundedOn(Less, Nat)
  BY NatLessThanWellFounded
<1>2. \A i, j \in Nat : <<i, j>> \in Less <=> i < j
  BY DEF OpToRel
<1> HIDE DEF Less
<1>3. PICK m \in T : \A k \in T : ~ (<<k, m>> \in Less)
  BY <1>1, WFMin
<1>4. ASSUME NEW k \in T PROVE m <= k
  <2>1. k \in Nat /\ m \in Nat
    OBVIOUS
  <2>2. ~ (k < m)
    BY <1>2, <1>3, <2>1
  <2> QED BY <2>1, <2>2
<1> QED BY <1>4

(* s is the table of the partial sums of x up to n.                        *)
IsRunningSum(s, x, n) ==
  s = [k \in 0..n |-> IF k = 0 THEN 0 ELSE s[k - 1] + x[k]]

(* The recursive definition in SumTo has a solution.                       *)
LEMMA RunningSumExists ==
  ASSUME NEW x, NEW n \in Nat
  PROVE  \E s : IsRunningSum(s, x, n)
<1> DEFINE T == {k \in Nat : ~ \E s : IsRunningSum(s, x, k)}
<1> SUFFICES ASSUME T # {} PROVE FALSE
  OBVIOUS
<1>1. PICK m \in T : \A k \in T : m <= k
  <2>1. T \in SUBSET Nat
    OBVIOUS
  <2> HIDE DEF T
  <2> QED BY <2>1, NatLeast
<1>2. CASE m = 0
  <2>1. IsRunningSum([k \in 0..0 |-> 0], x, 0)
    BY DEF IsRunningSum
  <2> QED BY <1>2, <2>1
<1>3. CASE m # 0
  <2>1. m - 1 \in Nat /\ m - 1 \notin T
    BY <1>1, <1>3
  <2>2. PICK s : IsRunningSum(s, x, m - 1)
    BY <2>1
  <2> DEFINE r == [k \in 0..m |-> IF k = m THEN s[m - 1] + x[m] ELSE s[k]]
  <2>3. IsRunningSum(r, x, m)
    <3>1. ASSUME NEW k \in 0..m
          PROVE  r[k] = IF k = 0 THEN 0 ELSE r[k - 1] + x[k]
      BY <1>3, <2>2 DEF IsRunningSum
    <3> QED BY <3>1 DEF IsRunningSum
  <2> QED BY <2>3
<1> QED BY <1>2, <1>3

(* SumTo(x, n) is the last entry of the table of partial sums.             *)
LEMMA SumToIsRunning ==
  ASSUME NEW x, NEW n \in Nat
  PROVE  \E s : IsRunningSum(s, x, n) /\ SumTo(x, n) = s[n]
<1> DEFINE t == CHOOSE s : IsRunningSum(s, x, n)
<1>1. IsRunningSum(t, x, n)
  BY RunningSumExists
<1>2. SumTo(x, n) = t[n]
  BY DEF SumTo, IsRunningSum
<1> QED BY <1>1, <1>2

(* Two tables for columns that agree up to n agree up to n.                *)
LEMMA RunningSumsAgree ==
  ASSUME NEW x, NEW y, NEW m \in Nat, NEW n \in 0..m, NEW s, NEW r,
         IsRunningSum(s, x, n), IsRunningSum(r, y, m),
         \A k \in 1..n : x[k] = y[k]
  PROVE  \A k \in 0..n : s[k] = r[k]
<1> DEFINE T == {k \in 0..n : s[k] # r[k]}
<1> SUFFICES ASSUME T # {} PROVE FALSE
  OBVIOUS
<1>1. PICK l \in T : \A k \in T : l <= k
  <2>1. T \in SUBSET Nat
    OBVIOUS
  <2> HIDE DEF T
  <2> QED BY <2>1, NatLeast
<1>2. l # 0
  BY DEF IsRunningSum
<1>3. l - 1 \in 0..n /\ l - 1 \notin T
  BY <1>1, <1>2
<1>4. s[l] = s[l - 1] + x[l] /\ r[l] = r[l - 1] + y[l]
  BY <1>2, <1>3 DEF IsRunningSum
<1> QED BY <1>2, <1>3, <1>4

(* An empty table sums to 0.                                               *)
LEMMA SumToZero ==
  ASSUME NEW x
  PROVE  SumTo(x, 0) = 0
BY SumToIsRunning DEF IsRunningSum

(* One more row adds its value.                                            *)
LEMMA SumToStep ==
  ASSUME NEW x, NEW n \in Nat
  PROVE  SumTo(x, n + 1) = SumTo(x, n) + x[n + 1]
<1>1. PICK m \in Nat : m = n + 1
  OBVIOUS
<1>2. PICK s : IsRunningSum(s, x, n) /\ SumTo(x, n) = s[n]
  BY SumToIsRunning
<1>3. PICK r : IsRunningSum(r, x, m) /\ SumTo(x, m) = r[m]
  BY SumToIsRunning
<1>4. r[m] = r[n] + x[m]
  BY <1>1, <1>3 DEF IsRunningSum
<1>5. \A k \in 0..n : s[k] = r[k]
  <2>1. PICK y : y = x
    OBVIOUS
  <2>2. IsRunningSum(s, y, n) /\ n \in 0..m /\ \A k \in 1..n : y[k] = x[k]
    BY <1>1, <1>2, <2>1
  <2> HIDE <2>1
  <2> QED BY <1>3, <2>2, RunningSumsAgree
<1>6. s[n] = r[n]
  BY <1>5
<1> QED BY <1>1, <1>2, <1>3, <1>4, <1>6

(* Columns with the same values have the same sum.                         *)
LEMMA SumToAgree ==
  ASSUME NEW x, NEW y, NEW n \in Nat, \A k \in 1..n : x[k] = y[k]
  PROVE  SumTo(x, n) = SumTo(y, n)
<1>1. PICK s : IsRunningSum(s, x, n) /\ SumTo(x, n) = s[n]
  BY SumToIsRunning
<1>2. PICK r : IsRunningSum(r, y, n) /\ SumTo(y, n) = r[n]
  BY SumToIsRunning
<1>3. n \in 0..n
  OBVIOUS
<1>4. \A k \in 0..n : s[k] = r[k]
  BY <1>1, <1>2, <1>3, RunningSumsAgree
<1> QED BY <1>1, <1>2, <1>3, <1>4

(* A column of integers has an integer sum.                                *)
LEMMA SumToInt ==
  ASSUME NEW x, NEW n \in Nat, \A k \in 1..n : x[k] \in Int
  PROVE  SumTo(x, n) \in Int
<1> DEFINE T == {k \in 0..n : SumTo(x, k) \notin Int}
<1> SUFFICES ASSUME T # {} PROVE FALSE
  OBVIOUS
<1>1. PICK m \in T : \A k \in T : m <= k
  <2>1. T \in SUBSET Nat
    OBVIOUS
  <2> HIDE DEF T
  <2> QED BY <2>1, NatLeast
<1>2. m # 0
  BY SumToZero
<1>3. m - 1 \in Nat /\ m - 1 \in 0..n /\ m - 1 \notin T
  BY <1>1, <1>2
<1>4. SumTo(x, (m - 1) + 1) = SumTo(x, m - 1) + x[(m - 1) + 1]
  BY <1>3, SumToStep
<1>5. (m - 1) + 1 = m /\ m \in 1..n
  BY <1>2
<1> QED BY <1>3, <1>4, <1>5

(* Two integer columns that differ in row i only: the sums differ by the   *)
(* difference of that row.                                                 *)
LEMMA SumToUpdate ==
  ASSUME NEW x, NEW y, NEW n \in Nat, NEW i \in 1..n,
         \A k \in 1..n : x[k] \in Int /\ y[k] \in Int,
         \A k \in 1..n : k # i => x[k] = y[k]
  PROVE  SumTo(y, n) = SumTo(x, n) + y[i] - x[i]
<1> DEFINE T == {k \in i..n : SumTo(y, k) # SumTo(x, k) + y[i] - x[i]}
<1> SUFFICES ASSUME T # {} PROVE FALSE
  OBVIOUS
<1>1. PICK m \in T : \A k \in T : m <= k
  <2>1. T \in SUBSET Nat
    OBVIOUS
  <2> HIDE DEF T
  <2> QED BY <2>1, NatLeast
<1>2. m - 1 \in Nat /\ m \in 1..n /\ (m - 1) + 1 = m
  OBVIOUS
<1>3. SumTo(x, m) = SumTo(x, m - 1) + x[m] /\ SumTo(y, m) = SumTo(y, m - 1) + y[m]
  BY <1>2, SumToStep
<1>4. SumTo(x, m - 1) \in Int /\ SumTo(y, m - 1) \in Int
  BY <1>2, SumToInt
<1>5. CASE m = i
  <2>1. SumTo(x, m - 1) = SumTo(y, m - 1)
    BY <1>2, <1>5, SumToAgree
  <2> QED BY <1>3, <1>4, <1>5, <2>1
<1>6. CASE m # i
  <2>1. m - 1 \in i..n /\ m - 1 \notin T
    BY <1>1, <1>2, <1>6
  <2>2. x[m] = y[m]
    BY <1>2, <1>6
  <2> QED BY <1>2, <1>3, <1>4, <2>1, <2>2
<1> QED BY <1>5, <1>6

(* A column of zeros sums to 0.                                            *)
LEMMA SumToZeros ==
  ASSUME NEW x, NEW n \in Nat, \A k \in 1..n : x[k] = 0
  PROVE  SumTo(x, n) = 0
<1> DEFINE T == {k \in 0..n : SumTo(x, k) # 0}
<1> SUFFICES ASSUME T # {} PROVE FALSE
  OBVIOUS
<1>1. PICK m \in T : \A k \in T : m <= k
  <2>1. T \in SUBSET Nat
    OBVIOUS
  <2> HIDE DEF T
  <2> QED BY <2>1, NatLeast
<1>2. m # 0
  BY SumToZero
<1>3. m - 1 \in Nat /\ m - 1 \in 0..n /\ m - 1 \notin T
  BY <1>1, <1>2
<1>4. SumTo(x, (m - 1) + 1) = SumTo(x, m - 1) + x[(m - 1) + 1]
  BY <1>3, SumToStep
<1>5. (m - 1) + 1 = m /\ m \in 1..n
  BY <1>2
<1> QED BY <1>3, <1>4, <1>5

(* Two more rows add their values.                                         *)
LEMMA SumToPair ==
  ASSUME NEW x, NEW y, NEW n \in Nat, \A k \in 1..n : x[k] = y[k]
  PROVE  SumTo(y, n + 2) = (SumTo(x, n) + y[n + 1]) + y[n + 2]
<1>1. SumTo(x, n) = SumTo(y, n)
  BY SumToAgree
<1>2. SumTo(y, n + 1) = SumTo(y, n) + y[n + 1]
  BY SumToStep
<1>3. PICK m \in Nat : m = n + 1
  OBVIOUS
<1>4. SumTo(y, m + 1) = SumTo(y, m) + y[m + 1]
  BY SumToStep
<1> QED BY <1>1, <1>2, <1>3, <1>4

(* Adding two columns row by row adds their sums.                          *)
LEMMA SumToPlus ==
  ASSUME NEW x, NEW y, NEW z, NEW n \in Nat,
         \A k \in 1..n : x[k] \in Int /\ y[k] \in Int /\ z[k] = x[k] + y[k]
  PROVE  SumTo(z, n) = SumTo(x, n) + SumTo(y, n)
<1> DEFINE T == {k \in 0..n : SumTo(z, k) # SumTo(x, k) + SumTo(y, k)}
<1> SUFFICES ASSUME T # {} PROVE FALSE
  OBVIOUS
<1>1. PICK m \in T : \A k \in T : m <= k
  <2>1. T \in SUBSET Nat
    OBVIOUS
  <2> HIDE DEF T
  <2> QED BY <2>1, NatLeast
<1>2. m \in 0..n /\ SumTo(z, m) # SumTo(x, m) + SumTo(y, m)
  BY <1>1
<1>3. m # 0
  BY <1>2, SumToZero
<1>4. PICK j \in Nat : m = j + 1
  BY <1>2, <1>3
<1>5. SumTo(z, j) = SumTo(x, j) + SumTo(y, j)
  BY <1>1, <1>2, <1>4
<1>6. SumTo(x, j) \in Int /\ SumTo(y, j) \in Int
  <2>1. j <= n
    BY <1>2, <1>4
  <2> QED
    BY <2>1, SumToInt
<1>7. /\ SumTo(x, m) = SumTo(x, j) + x[m] /\ SumTo(y, m) = SumTo(y, j) + y[m]
      /\ SumTo(z, m) = SumTo(z, j) + z[m]
  BY <1>4, SumToStep
<1>8. m \in 1..n
  BY <1>2, <1>3
<1> QED
  BY <1>2, <1>5, <1>6, <1>7, <1>8
(* Order lists a finite set: every element, once.                          *)
LEMMA OrderLists ==
  ASSUME NEW S, IsFiniteSet(S)
  PROVE  /\ Cardinality(S) \in Nat
         /\ Order(S) \in [1..Cardinality(S) -> S]
         /\ \A x \in S : \E i \in 1..Cardinality(S) : Order(S)[i] = x
         /\ \A i, j \in 1..Cardinality(S) : Order(S)[i] = Order(S)[j] => i = j
<1> DEFINE n == Cardinality(S)
<1>1. n \in Nat /\ ExistsBijection(1..n, S)
  BY FS_CardinalityType
<1> HIDE DEF n
<1>2. PICK e \in [1..n -> S] : /\ \A x \in S : \E i \in 1..n : e[i] = x
                               /\ \A i, j \in 1..n : e[i] = e[j] => i = j
  BY <1>1 DEF ExistsBijection, Bijection, Injection, Surjection, IsInjective
<1> QED
  BY <1>1, <1>2 DEF Order, n

(* Two functions on a finite set that differ in x only: the sums differ by *)
(* the difference there.                                                   *)
LEMMA SumOverUpdate ==
  ASSUME NEW S, IsFiniteSet(S), NEW f, NEW g, NEW x \in S,
         \A a \in S : f[a] \in Int /\ g[a] \in Int,
         \A a \in S : a # x => f[a] = g[a]
  PROVE  SumOver(g, S) = SumOver(f, S) + g[x] - f[x]
<1>0. PICK n \in Nat : n = Cardinality(S)
  BY OrderLists
<1>1. PICK e \in [1..n -> S] :
        /\ e = Order(S)
        /\ \A a \in S : \E i \in 1..n : e[i] = a
        /\ \A i, j \in 1..n : e[i] = e[j] => i = j
  BY <1>0, OrderLists
<1>2. PICK i \in 1..n : e[i] = x
  BY <1>1
<1> DEFINE u == [k \in 1..n |-> f[e[k]]]
           v == [k \in 1..n |-> g[e[k]]]
<1>3. SumOver(f, S) = SumTo(u, n) /\ SumOver(g, S) = SumTo(v, n)
  BY <1>0, <1>1 DEF SumOver
<1>4. /\ \A k \in 1..n : u[k] \in Int /\ v[k] \in Int
      /\ \A k \in 1..n : k # i => u[k] = v[k]
      /\ u[i] = f[x] /\ v[i] = g[x]
  BY <1>1, <1>2
<1> HIDE DEF u, v
<1>5. SumTo(v, n) = SumTo(u, n) + v[i] - u[i]
  BY <1>4, SumToUpdate
<1> QED
  BY <1>3, <1>4, <1>5

(* A function that is 0 on a finite set sums to 0 over it.                 *)
LEMMA SumOverZeros ==
  ASSUME NEW S, IsFiniteSet(S), NEW f, \A a \in S : f[a] = 0
  PROVE  SumOver(f, S) = 0
<1>0. PICK n \in Nat : n = Cardinality(S)
  BY OrderLists
<1>1. PICK e \in [1..n -> S] : e = Order(S)
  BY <1>0, OrderLists
<1> DEFINE u == [k \in 1..n |-> f[e[k]]]
<1>2. SumOver(f, S) = SumTo(u, n)
  BY <1>0, <1>1 DEF SumOver
<1>3. \A k \in 1..n : u[k] = 0
  BY <1>1
<1> HIDE DEF u
<1> QED
  BY <1>2, <1>3, SumToZeros

(* A function with integer values on a finite set has an integer sum.      *)
LEMMA SumOverInt ==
  ASSUME NEW S, IsFiniteSet(S), NEW f, \A a \in S : f[a] \in Int
  PROVE  SumOver(f, S) \in Int
<1>0. PICK n \in Nat : n = Cardinality(S)
  BY OrderLists
<1>1. PICK e \in [1..n -> S] : e = Order(S)
  BY <1>0, OrderLists
<1> DEFINE u == [k \in 1..n |-> f[e[k]]]
<1>2. SumOver(f, S) = SumTo(u, n)
  BY <1>0, <1>1 DEF SumOver
<1>3. \A k \in 1..n : u[k] \in Int
  BY <1>1
<1> HIDE DEF u
<1> QED
  BY <1>2, <1>3, SumToInt
-----------------------------------------------------------------------------
DeltaSet == [Directions -> Int]

(* The trigger's cap is NULL or one of the caps it was computed from.      *)
LEMMA EffectiveCapType ==
  ASSUME NEW acct \in Accounts, NEW s \in Slots, NEW limits \in LimitSet,
         control \in [Accounts -> ControlSet]
  PROVE  EffectiveCap(acct, s, limits) \in Caps
<1> DEFINE caps == ({control[Chain[acct][i]].max[s] : i \in DOMAIN Chain[acct]}
                    \cup {limits[s]}) \ {Null}
<1>1. \A i \in DOMAIN Chain[acct] : Chain[acct][i] \in Accounts
  BY ConstantsAssumption
<1>2. \A i \in DOMAIN Chain[acct] : control[Chain[acct][i]].max[s] \in Caps
  BY <1>1 DEF ControlSet, LimitSet
<1>3. limits[s] \in Caps
  BY DEF LimitSet
<1>4. caps \in SUBSET Nat
  BY <1>2, <1>3 DEF Caps
<1> HIDE DEF caps
<1>5. CASE caps = {}
  <2>1. EffectiveCap(acct, s, limits) = Null
    BY <1>5 DEF EffectiveCap, caps
  <2> QED BY <2>1 DEF Caps
<1>6. CASE caps # {}
  <2>1. \E m \in caps : \A c \in caps : m <= c
    BY <1>4, <1>6, NatLeast
  <2>2. EffectiveCap(acct, s, limits) = CHOOSE m \in caps : \A c \in caps : m <= c
    BY <1>6 DEF EffectiveCap, caps
  <2>3. EffectiveCap(acct, s, limits) \in caps
    BY <2>1, <2>2
  <2> QED BY <1>4, <2>3 DEF Caps
<1> QED BY <1>5, <1>6

(* A period's prior sum is an integer; there is nothing prior to a day.    *)
LEMMA PriorType ==
  ASSUME NEW rows \in [Days -> Row], NEW p \in Periods, NEW dir \in Directions,
         NEW t \in Days
  PROVE  /\ Prior(rows, p, dir, t) \in Int
         /\ p = "daily" => Prior(rows, p, dir, t) = 0
<1> DEFINE x == [d \in Days |-> IF d # t /\ SamePeriod(p, d, t)
                                THEN rows[d].total[<<"daily", dir>>] ELSE 0]
<1>1. NumDays \in Nat /\ Days = 1..NumDays
  BY ConstantsAssumption DEF Days
<1>2. <<"daily", dir>> \in Slots
  BY DEF Slots, Periods
<1>3. \A k \in 1..NumDays : x[k] \in Int
  BY <1>1, <1>2 DEF Row
<1>4. p = "daily" => \A k \in 1..NumDays : x[k] = 0
  BY <1>1 DEF SamePeriod
<1>5. Prior(rows, p, dir, t) = SumTo(x, NumDays)
  BY DEF Prior
<1> HIDE DEF x
<1> QED BY <1>1, <1>3, <1>4, <1>5, SumToInt, SumToZeros

(* An upserted row is a row, and its daily columns moved by the delta.     *)
LEMMA UpsertRowEffect ==
  ASSUME NEW rows \in [Days -> Row], NEW t \in Days, NEW delta \in DeltaSet,
         NEW caps \in LimitSet
  PROVE  /\ UpsertRow(rows, t, delta, caps) \in Row
         /\ \A dir \in Directions :
              UpsertRow(rows, t, delta, caps).total[<<"daily", dir>>]
                = rows[t].total[<<"daily", dir>>] + delta[dir]
<1> DEFINE r == UpsertRow(rows, t, delta, caps)
<1>1. \A s \in Slots : s[1] \in Periods /\ s[2] \in Directions
  BY DEF Slots
<1>2. \A dir \in Directions : <<"daily", dir>> \in Slots
  BY DEF Slots, Periods
<1>3. \A s \in Slots : Prior(rows, s[1], s[2], t) \in Int
  BY <1>1, PriorType
<1>4. \A dir \in Directions : Prior(rows, "daily", dir, t) = 0
  BY PriorType DEF Periods
<1>5. rows[t] \in Row
  OBVIOUS
<1>6. \A s \in Slots : /\ r.total[s] = Prior(rows, s[1], s[2], t)
                            + rows[t].total[<<"daily", s[2]>>] + delta[s[2]]
                       /\ r.limit[s] = IF caps[s] # Null THEN caps[s] ELSE rows[t].limit[s]
  BY DEF UpsertRow
<1>7. ASSUME NEW s \in Slots PROVE r.total[s] \in Int
  <2>1. rows[t].total[<<"daily", s[2]>>] \in Int /\ delta[s[2]] \in Int
    BY <1>1, <1>2, <1>5 DEF Row, DeltaSet
  <2> HIDE DEF r
  <2> QED BY <1>3, <1>6, <2>1
<1>8. \A s \in Slots : r.limit[s] \in Caps
  BY <1>5, <1>6 DEF Row, LimitSet
<1>9. r \in Row
  BY <1>7, <1>8 DEF UpsertRow, Row, LimitSet
<1>10. ASSUME NEW dir \in Directions
       PROVE  r.total[<<"daily", dir>>] = rows[t].total[<<"daily", dir>>] + delta[dir]
  <2>1. r.total[<<"daily", dir>>]
          = Prior(rows, "daily", dir, t) + rows[t].total[<<"daily", dir>>] + delta[dir]
    BY <1>2, <1>6
  <2>2. rows[t].total[<<"daily", dir>>] \in Int /\ delta[dir] \in Int
    BY <1>2, <1>5 DEF Row, DeltaSet
  <2> QED BY <1>4, <2>1, <2>2
<1> QED BY <1>9, <1>10

(* What the trigger's inner block writes, account by account.              *)
LEMMA MovedEffect ==
  ASSUME NEW led \in LedgerSet, NEW acct \in Accounts, NEW delta \in DeltaSet,
         NEW limits \in LimitSet, today \in Days,
         control \in [Accounts -> ControlSet]
  PROVE  /\ Moved(led, acct, delta, limits) \in LedgerSet
         /\ \A a \in Accounts : InChain(a, acct) =>
              /\ Moved(led, acct, delta, limits).balance[a]
                   = led.balance[a] + delta["credit"] - delta["debit"]
              /\ \A d \in Days \ {today} :
                   Moved(led, acct, delta, limits).row[a][d] = led.row[a][d]
              /\ \A dir \in Directions :
                   Moved(led, acct, delta, limits).row[a][today].total[<<"daily", dir>>]
                     = led.row[a][today].total[<<"daily", dir>>] + delta[dir]
         /\ \A a \in Accounts : ~ InChain(a, acct) =>
              /\ Moved(led, acct, delta, limits).balance[a] = led.balance[a]
              /\ Moved(led, acct, delta, limits).row[a] = led.row[a]
<1> DEFINE M == Moved(led, acct, delta, limits)
           caps == EffectiveCaps(acct, limits)
           up(a) == UpsertRow(led.row[a], today, delta, caps)
<1>1. caps \in LimitSet
  BY EffectiveCapType DEF EffectiveCaps, LimitSet
<1>2. \A a \in Accounts : led.balance[a] \in Int /\ led.row[a] \in [Days -> Row]
  BY DEF LedgerSet
<1>3. delta["credit"] \in Int /\ delta["debit"] \in Int
  BY DEF DeltaSet, Directions
<1>4. /\ M.balance = [a \in Accounts |->
                       IF InChain(a, acct)
                       THEN led.balance[a] + delta["credit"] - delta["debit"]
                       ELSE led.balance[a]]
      /\ M.row = [a \in Accounts |->
                   IF InChain(a, acct)
                   THEN [led.row[a] EXCEPT ![today] = up(a)]
                   ELSE led.row[a]]
      /\ M = [balance |-> M.balance, row |-> M.row]
  BY DEF Moved
<1> HIDE DEF M, caps
<1>5. \A a \in Accounts :
        /\ up(a) \in Row
        /\ \A dir \in Directions :
             up(a).total[<<"daily", dir>>] = led.row[a][today].total[<<"daily", dir>>] + delta[dir]
  BY <1>1, <1>2, UpsertRowEffect
<1> HIDE DEF up
<1>6. \A a \in Accounts : M.row[a] \in [Days -> Row]
  BY <1>2, <1>4, <1>5
<1>7. \A a \in Accounts : M.balance[a] \in Int
  BY <1>2, <1>3, <1>4
<1>8. M \in LedgerSet
  BY <1>4, <1>6, <1>7 DEF LedgerSet
<1>9. ASSUME NEW a \in Accounts, InChain(a, acct)
      PROVE  /\ M.balance[a] = led.balance[a] + delta["credit"] - delta["debit"]
             /\ \A d \in Days \ {today} : M.row[a][d] = led.row[a][d]
             /\ \A dir \in Directions :
                  M.row[a][today].total[<<"daily", dir>>]
                    = led.row[a][today].total[<<"daily", dir>>] + delta[dir]
  <2>1. M.row[a] = [led.row[a] EXCEPT ![today] = up(a)]
    BY <1>4, <1>9
  <2>2. M.row[a][today] = up(a) /\ \A d \in Days \ {today} : M.row[a][d] = led.row[a][d]
    BY <1>2, <2>1
  <2> QED BY <1>4, <1>5, <1>9, <2>2
<1>10. ASSUME NEW a \in Accounts, ~ InChain(a, acct)
       PROVE  M.balance[a] = led.balance[a] /\ M.row[a] = led.row[a]
  BY <1>4, <1>10
<1> QED BY <1>8, <1>9, <1>10 DEF M

(* The inner block keeps the two stores reconciled: it adds the same net   *)
(* to the balance and to today's row.                                      *)
LEMMA MovedReconciles ==
  ASSUME NEW led \in LedgerSet, NEW acct \in Accounts, NEW delta \in DeltaSet,
         NEW limits \in LimitSet, today \in Days,
         control \in [Accounts -> ControlSet],
         \A a \in Accounts : led.balance[a] = SumTo(DailyNet(led, a), NumDays)
  PROVE  \A a \in Accounts :
           Moved(led, acct, delta, limits).balance[a]
             = SumTo(DailyNet(Moved(led, acct, delta, limits), a), NumDays)
<1> DEFINE M == Moved(led, acct, delta, limits)
<1> HIDE DEF M
<1>1. M \in LedgerSet
  BY MovedEffect DEF M
<1> SUFFICES ASSUME NEW a \in Accounts
             PROVE  M.balance[a] = SumTo(DailyNet(M, a), NumDays)
  BY DEF M
<1>2. NumDays \in Nat /\ Days = 1..NumDays
  BY ConstantsAssumption DEF Days
<1>3. <<"daily", "credit">> \in Slots /\ <<"daily", "debit">> \in Slots
  BY DEF Slots, Periods, Directions
<1>4. \A l \in LedgerSet : \A d \in Days : l.row[a][d].total \in [Slots -> Int]
  BY DEF LedgerSet, Row
<1>5. \A l \in LedgerSet : \A d \in Days : DailyNet(l, a)[d] \in Int
  BY <1>3, <1>4 DEF DailyNet
<1>6. CASE ~ InChain(a, acct)
  <2>1. M.balance[a] = led.balance[a] /\ M.row[a] = led.row[a]
    BY <1>6, MovedEffect DEF M
  <2>2. DailyNet(M, a) = DailyNet(led, a)
    BY <2>1 DEF DailyNet
  <2> QED BY <2>1, <2>2
<1>7. CASE InChain(a, acct)
  <2>1. /\ M.balance[a] = led.balance[a] + delta["credit"] - delta["debit"]
        /\ \A d \in Days \ {today} : M.row[a][d] = led.row[a][d]
        /\ \A dir \in Directions :
             M.row[a][today].total[<<"daily", dir>>]
               = led.row[a][today].total[<<"daily", dir>>] + delta[dir]
    BY <1>7, MovedEffect DEF M
  <2>2. delta["credit"] \in Int /\ delta["debit"] \in Int /\ led.balance[a] \in Int
    BY DEF DeltaSet, Directions, LedgerSet
  <2>3. \A d \in Days : d # today => DailyNet(led, a)[d] = DailyNet(M, a)[d]
    BY <2>1 DEF DailyNet
  <2>4. DailyNet(M, a)[today]
          = DailyNet(led, a)[today] + delta["credit"] - delta["debit"]
    <3>1. /\ M.row[a][today].total[<<"daily", "credit">>]
               = led.row[a][today].total[<<"daily", "credit">>] + delta["credit"]
          /\ M.row[a][today].total[<<"daily", "debit">>]
               = led.row[a][today].total[<<"daily", "debit">>] + delta["debit"]
      BY <2>1 DEF Directions
    <3>2. /\ led.row[a][today].total[<<"daily", "credit">>] \in Int
          /\ led.row[a][today].total[<<"daily", "debit">>] \in Int
      BY <1>3, <1>4
    <3> QED BY <2>2, <3>1, <3>2 DEF DailyNet
  <2>5. SumTo(DailyNet(M, a), NumDays)
          = SumTo(DailyNet(led, a), NumDays) + DailyNet(M, a)[today] - DailyNet(led, a)[today]
    BY <1>1, <1>2, <1>5, <2>3, SumToUpdate
  <2>6. SumTo(DailyNet(led, a), NumDays) \in Int /\ DailyNet(led, a)[today] \in Int
    BY <1>2, <1>5, SumToInt
  <2> QED BY <2>1, <2>2, <2>4, <2>5, <2>6
<1> QED BY <1>6, <1>7

-----------------------------------------------------------------------------
(* FirstOf picks a member.                                                 *)
LEMMA FirstOfIn ==
  ASSUME NEW S \in SUBSET Nat, S # {}
  PROVE  FirstOf(S) \in S
BY NatLeast DEF FirstOf

(* The trigger's verdict is one of its codes and names an account of the   *)
(* chain or none; it posts only when no account of the chain is blocked    *)
(* and every row can be written.                                           *)
LEMMA VerdictEffect ==
  ASSUME NEW led, NEW acct \in Accounts, NEW delta, NEW limits
  PROVE  /\ Verdict(led, acct, delta, limits).code \in Codes
         /\ Verdict(led, acct, delta, limits).node \in Accounts \cup {Null}
         /\ Verdict(led, acct, delta, limits).code = "POSTED" =>
              \A a \in Accounts : InChain(a, acct) =>
                /\ ~ control[a].is_blocked
                /\ RowOutcome(led, a, acct, delta, limits) = "POSTED"
<1> DEFINE chain == Chain[acct]
           blocked == {i \in DOMAIN chain : control[chain[i]].is_blocked}
           outcome(i) == RowOutcome(led, chain[i], acct, delta, limits)
           failed == {i \in DOMAIN chain : outcome(i) # "POSTED"}
           tooBig == \E i \in DOMAIN chain :
                       ~ Fits(led.balance[chain[i]] + delta["credit"] - delta["debit"])
           V == Verdict(led, acct, delta, limits)
<1>1. chain \in Seq(Accounts)
  BY ConstantsAssumption
<1>2. DOMAIN chain \in SUBSET Nat /\ \A i \in DOMAIN chain : chain[i] \in Accounts
  BY <1>1
<1>3. blocked # {} => chain[FirstOf(blocked)] \in Accounts
  <2>1. blocked \in SUBSET Nat /\ blocked \subseteq DOMAIN chain
    BY <1>2
  <2> HIDE DEF blocked, chain
  <2> QED BY <1>2, <2>1, FirstOfIn
<1>4. failed # {} => chain[FirstOf(failed)] \in Accounts
  <2>1. failed \in SUBSET Nat /\ failed \subseteq DOMAIN chain
    BY <1>2
  <2> HIDE DEF failed, chain
  <2> QED BY <1>2, <2>1, FirstOfIn
<1>5. V = IF blocked # {}
          THEN [code |-> "BLOCKED", node |-> chain[FirstOf(blocked)]]
          ELSE IF tooBig
          THEN [code |-> "ERROR", node |-> Null]
          ELSE IF failed = {}
          THEN [code |-> "POSTED", node |-> Null]
          ELSE [code |-> outcome(FirstOf(failed)), node |-> chain[FirstOf(failed)]]
  BY DEF Verdict
<1>6. \A i : outcome(i) \in {"ERROR", "LIMIT_EXCEEDED", "POSTED"}
  BY DEF RowOutcome
<1>7. failed # {} => outcome(FirstOf(failed)) # "POSTED"
  <2>1. failed \in SUBSET Nat /\ \A i \in failed : outcome(i) # "POSTED"
    BY <1>2
  <2> HIDE DEF failed, outcome
  <2> QED BY <2>1, FirstOfIn
<1>8. V.code = "POSTED" => blocked = {} /\ failed = {}
  <2> HIDE DEF V, blocked, failed, outcome, tooBig, chain
  <2> QED BY <1>5, <1>7
<1>9. V.code \in Codes /\ V.node \in Accounts \cup {Null}
  <2> HIDE DEF V, blocked, failed, outcome, tooBig, chain
  <2> QED BY <1>3, <1>4, <1>5, <1>6 DEF Codes
<1>10. V.code = "POSTED" => \A i \in DOMAIN chain :
         ~ control[chain[i]].is_blocked /\ outcome(i) = "POSTED"
  <2>1. blocked = {} => \A i \in DOMAIN chain : ~ control[chain[i]].is_blocked
    OBVIOUS
  <2>2. failed = {} => \A i \in DOMAIN chain : outcome(i) = "POSTED"
    OBVIOUS
  <2> HIDE DEF V, blocked, failed, outcome, tooBig, chain
  <2> QED BY <1>8, <2>1, <2>2
<1> QED BY <1>9, <1>10 DEF InChain

(* What an entry moves is an integer.                                      *)
LEMMA DeltaType ==
  ASSUME NEW dir \in Directions, NEW amount \in Nat
  PROVE  /\ Delta(dir, amount) \in DeltaSet
         /\ Delta("debit", amount)["debit"] = amount
         /\ Delta("debit", amount)["credit"] = 0
         /\ Delta("credit", amount)["credit"] = amount
         /\ Delta("credit", amount)["debit"] = 0
BY DEF Delta, DeltaSet, Directions

(* Either nothing was written or the whole inner block was, and then no    *)
(* account of the chain was blocked.                                       *)
LEMMA PropagateEffect ==
  ASSUME NEW led \in LedgerSet, NEW acct \in Accounts, NEW delta \in DeltaSet,
         NEW limits \in LimitSet, today \in Days,
         control \in [Accounts -> ControlSet]
  PROVE  /\ Propagate(led, acct, delta, limits) \in LedgerSet
         /\ \A a \in Accounts : control[a].is_blocked =>
              /\ Propagate(led, acct, delta, limits).balance[a] = led.balance[a]
              /\ Propagate(led, acct, delta, limits).row[a] = led.row[a]
         /\ (\A a \in Accounts : led.balance[a] = SumTo(DailyNet(led, a), NumDays))
            => \A a \in Accounts :
                 Propagate(led, acct, delta, limits).balance[a]
                   = SumTo(DailyNet(Propagate(led, acct, delta, limits), a), NumDays)
<1>1. CASE Verdict(led, acct, delta, limits).code # "POSTED"
  BY <1>1 DEF Propagate
<1>2. CASE Verdict(led, acct, delta, limits).code = "POSTED"
  <2>1. Propagate(led, acct, delta, limits) = Moved(led, acct, delta, limits)
    BY <1>2 DEF Propagate
  <2>2. \A a \in Accounts : control[a].is_blocked => ~ InChain(a, acct)
    BY <1>2, VerdictEffect
  <2>3. Moved(led, acct, delta, limits) \in LedgerSet
    BY MovedEffect
  <2>4. \A a \in Accounts : ~ InChain(a, acct) =>
          /\ Moved(led, acct, delta, limits).balance[a] = led.balance[a]
          /\ Moved(led, acct, delta, limits).row[a] = led.row[a]
    BY MovedEffect
  <2>5. (\A a \in Accounts : led.balance[a] = SumTo(DailyNet(led, a), NumDays))
         => \A a \in Accounts :
              Moved(led, acct, delta, limits).balance[a]
                = SumTo(DailyNet(Moved(led, acct, delta, limits), a), NumDays)
    BY MovedReconciles
  <2> QED BY <2>1, <2>2, <2>3, <2>4, <2>5
<1> QED BY <1>1, <1>2

-----------------------------------------------------------------------------
(* The inputs of a posting step are of their types.                        *)
LEMMA PostInputs ==
  ASSUME NEW t \in Transfers, NEW amount \in Amounts, NEW l \in EntryLimits
  PROVE  t[1] \in Accounts /\ t[2] \in Accounts /\ amount \in Nat /\ l \in LimitSet
BY ConstantsAssumption

(* The initial state has its types.                                        *)
LEMMA TypeInit == Init => TypeOK
<1> SUFFICES ASSUME Init PROVE TypeOK
  OBVIOUS
<1>1. [s \in Slots |-> Null] \in LimitSet /\ [s \in Slots |-> 0] \in [Slots -> Int]
  BY DEF LimitSet, Caps
<1>2. EmptyRow \in Row
  BY <1>1 DEF EmptyRow, Row
<1>3. today \in Days
  BY ConstantsAssumption DEF Init, Days
<1>4. control \in [Accounts -> ControlSet]
  BY <1>1 DEF Init, ControlSet
<1>5. ledger \in LedgerSet
  BY <1>2 DEF Init, LedgerSet
<1>6. entries \in Seq(Entry)
  <2>1. entries = <<>>
    BY DEF Init
  <2> QED BY <2>1
<1> QED BY <1>3, <1>4, <1>5, <1>6 DEF TypeOK

(* What a posting step does to the typed state.                            *)
LEMMA CreateEntriesType ==
  ASSUME TypeOK, NEW debtor \in Accounts, NEW creditor \in Accounts,
         NEW amount \in Nat, NEW l1 \in LimitSet, NEW l2 \in LimitSet,
         CreateEntries(debtor, creditor, amount, l1, l2)
  PROVE  TypeOK'
<1> DEFINE v1 == Verdict(ledger, debtor, Delta("debit", amount), l1)
           mid == Propagate(ledger, debtor, Delta("debit", amount), l1)
           v2 == Verdict(mid, creditor, Delta("credit", amount), l2)
           end == Propagate(mid, creditor, Delta("credit", amount), l2)
           both == v1.code = "POSTED" /\ v2.code = "POSTED"
           rejection == IF v1.code # "POSTED" THEN v1 ELSE v2
           status == IF both THEN "posted" ELSE "voided"
           e1 == NewEntry(debtor, "debit", amount, status, l1, rejection)
           e2 == NewEntry(creditor, "credit", amount, status, l2, rejection)
<1>1. Delta("debit", amount) \in DeltaSet /\ Delta("credit", amount) \in DeltaSet
  BY DeltaType DEF Directions
<1>2. mid \in LedgerSet
  BY <1>1, PropagateEffect DEF TypeOK
<1>3. end \in LedgerSet
  <2> HIDE DEF mid
  <2> QED BY <1>1, <1>2, PropagateEffect DEF TypeOK
<1>4. rejection.code \in Codes /\ rejection.node \in Accounts \cup {Null}
  <2>1. v1.code \in Codes /\ v1.node \in Accounts \cup {Null}
    BY VerdictEffect
  <2>2. v2.code \in Codes /\ v2.node \in Accounts \cup {Null}
    BY VerdictEffect
  <2> HIDE DEF v1, v2
  <2> QED BY <2>1, <2>2
<1>5. ledger' = (IF both THEN end ELSE ledger)
      /\ entries' = Append(Append(entries, e1), e2) /\ today' = today /\ control' = control
  BY DEF CreateEntries
<1> HIDE DEF v1, v2, mid, end, rejection
<1>6. e1 \in Entry /\ e2 \in Entry
  BY <1>4 DEF NewEntry, Entry, Statuses, Directions, TypeOK
<1> HIDE DEF e1, e2, both
<1>7. entries' \in Seq(Entry)
  BY <1>5, <1>6 DEF TypeOK
<1>8. ledger' \in LedgerSet
  BY <1>3, <1>5 DEF TypeOK
<1> QED BY <1>5, <1>7, <1>8 DEF TypeOK

(* apply_controls keeps the types.                                         *)
LEMMA ApplyControlsType ==
  ASSUME TypeOK, NEW x \in Entities, NEW S \in SUBSET OwnedBy[x],
         NEW result \in [S -> Controls], ApplyControls(x, result)
  PROVE  TypeOK'
<1>1. BlockByDefault \in ControlSet
  BY DEF BlockByDefault, ControlSet, LimitSet, Caps
<1>2. \A a \in DOMAIN result : result[a] \in ControlSet
  BY ConstantsAssumption
<1>3. control' \in [Accounts -> ControlSet]
  BY <1>1, <1>2 DEF ApplyControls, TypeOK
<1> QED BY <1>3 DEF ApplyControls, TypeOK

(* Every action keeps the types.                                           *)
LEMMA TypeStep == TypeOK /\ [Next]_vars => TypeOK'
<1> SUFFICES ASSUME TypeOK, [Next]_vars PROVE TypeOK'
  OBVIOUS
<1>1. CASE Post
  <2>1. PICK t \in Transfers, amount \in Amounts, l1 \in EntryLimits, l2 \in EntryLimits :
          CreateEntries(t[1], t[2], amount, l1, l2)
    BY <1>1 DEF Post
  <2>2. t[1] \in Accounts /\ t[2] \in Accounts /\ amount \in Nat
        /\ l1 \in LimitSet /\ l2 \in LimitSet
    BY PostInputs
  <2> QED BY <2>1, <2>2, CreateEntriesType
<1>2. CASE Onboard
  BY <1>2, ApplyControlsType DEF Onboard
<1>3. CASE NextDay
  BY <1>3, ConstantsAssumption DEF NextDay, TypeOK, Days
<1>4. CASE UNCHANGED vars
  BY <1>4 DEF vars, TypeOK
<1> QED BY <1>1, <1>2, <1>3, <1>4 DEF Next

(* Type correctness: the integer columns stay integers and every entry     *)
(* carries a verdict of the trigger, for every chart of accounts.          *)
THEOREM TypeCorrect == Spec => []TypeOK
BY TypeInit, TypeStep, PTL DEF Spec

-----------------------------------------------------------------------------
(* A posting step keeps every account reconciled and moves no blocked      *)
(* account.                                                                *)
LEMMA CreateEntriesEffect ==
  ASSUME TypeOK, NEW debtor \in Accounts, NEW creditor \in Accounts,
         NEW amount \in Nat, NEW l1 \in LimitSet, NEW l2 \in LimitSet,
         CreateEntries(debtor, creditor, amount, l1, l2)
  PROVE  /\ BalanceMatchesRows => BalanceMatchesRows'
         /\ \A a \in Accounts : control[a].is_blocked =>
              /\ ledger'.balance[a] = ledger.balance[a]
              /\ ledger'.row[a] = ledger.row[a]
<1> DEFINE mid == Propagate(ledger, debtor, Delta("debit", amount), l1)
           end == Propagate(mid, creditor, Delta("credit", amount), l2)
           Balanced(l) == \A a \in Accounts : l.balance[a] = SumTo(DailyNet(l, a), NumDays)
           Kept(l) == \A a \in Accounts : control[a].is_blocked =>
                        l.balance[a] = ledger.balance[a] /\ l.row[a] = ledger.row[a]
<1>1. Delta("debit", amount) \in DeltaSet /\ Delta("credit", amount) \in DeltaSet
  BY DeltaType DEF Directions
<1>2. mid \in LedgerSet /\ Kept(mid) /\ (Balanced(ledger) => Balanced(mid))
  <2>1. ledger \in LedgerSet /\ today \in Days /\ control \in [Accounts -> ControlSet]
    BY DEF TypeOK
  <2>2. mid \in LedgerSet
    BY <1>1, <2>1, PropagateEffect
  <2>3. Kept(mid)
    BY <1>1, <2>1, PropagateEffect
  <2>4. Balanced(ledger) => Balanced(mid)
    BY <1>1, <2>1, PropagateEffect
  <2> QED BY <2>2, <2>3, <2>4
<1>3. Kept(end) /\ (Balanced(mid) => Balanced(end))
  <2> HIDE DEF mid
  <2>1. /\ \A a \in Accounts : control[a].is_blocked =>
             end.balance[a] = mid.balance[a] /\ end.row[a] = mid.row[a]
        /\ Balanced(mid) => Balanced(end)
    BY <1>1, <1>2, PropagateEffect DEF TypeOK
  <2> QED BY <1>2, <2>1
<1>4. ledger' = end \/ ledger' = ledger
  BY DEF CreateEntries
<1> HIDE DEF mid, end
<1>5. Kept(ledger')
  BY <1>3, <1>4
<1>6. Balanced(ledger) => Balanced(ledger')
  BY <1>2, <1>3, <1>4
<1> QED BY <1>5, <1>6 DEF BalanceMatchesRows, DailyNet

(* Empty rows sum to empty balances.                                       *)
LEMMA ReconciledInit == Init => BalanceMatchesRows
<1> SUFFICES ASSUME Init, NEW a \in Accounts
             PROVE  ledger.balance[a] = SumTo(DailyNet(ledger, a), NumDays)
  BY DEF BalanceMatchesRows
<1>1. NumDays \in Nat /\ Days = 1..NumDays
  BY ConstantsAssumption DEF Days
<1>2. <<"daily", "credit">> \in Slots /\ <<"daily", "debit">> \in Slots
  BY DEF Slots, Periods, Directions
<1>3. \A d \in Days : ledger.row[a][d] = EmptyRow
  BY DEF Init
<1>4. \A s \in Slots : EmptyRow.total[s] = 0
  BY DEF EmptyRow
<1>5. \A d \in Days : DailyNet(ledger, a)[d] = 0
  BY <1>2, <1>3, <1>4 DEF DailyNet
<1>6. SumTo(DailyNet(ledger, a), NumDays) = 0
  BY <1>1, <1>5, SumToZeros
<1> QED BY <1>6 DEF Init

(* Every step keeps balances and rows together and blocked accounts still. *)
LEMMA LedgerStep ==
  ASSUME TypeOK, [Next]_vars
  PROVE  /\ BalanceMatchesRows => BalanceMatchesRows'
         /\ \A a \in Accounts : control[a].is_blocked =>
              /\ ledger'.balance[a] = ledger.balance[a]
              /\ ledger'.row[a] = ledger.row[a]
<1>1. CASE Post
  <2>1. PICK t \in Transfers, amount \in Amounts, l1 \in EntryLimits, l2 \in EntryLimits :
          CreateEntries(t[1], t[2], amount, l1, l2)
    BY <1>1 DEF Post
  <2>2. t[1] \in Accounts /\ t[2] \in Accounts /\ amount \in Nat
        /\ l1 \in LimitSet /\ l2 \in LimitSet
    BY PostInputs
  <2> QED BY <2>1, <2>2, CreateEntriesEffect
<1>2. CASE Onboard \/ NextDay \/ UNCHANGED vars
  <2>1. ledger' = ledger
    BY <1>2 DEF Onboard, ApplyControls, NextDay, vars
  <2> QED BY <2>1 DEF BalanceMatchesRows, DailyNet
<1> QED BY <1>1, <1>2 DEF Next

(* The balance column and the daily rows reconcile in every reachable      *)
(* state, for every tree of accounts and whatever limits, blocks and       *)
(* overflows reject on the way.                                            *)
THEOREM Reconciled == Spec => []BalanceMatchesRows
<1>1. TypeOK /\ BalanceMatchesRows /\ [Next]_vars => BalanceMatchesRows'
  BY LedgerStep
<1> QED BY <1>1, ReconciledInit, TypeCorrect, PTL DEF Spec

(* No step moves money through an account that is blocked when the step    *)
(* begins, wherever in the debtor's or the creditor's chain it sits.       *)
THEOREM BlockedStaysPut == Spec => BlockedNeverMoves
<1>1. TypeOK /\ [Next]_vars =>
        [\A a \in Accounts : control[a].is_blocked =>
           /\ ledger'.balance[a] = ledger.balance[a]
           /\ ledger'.row[a] = ledger.row[a]]_vars
  BY LedgerStep
<1> QED BY <1>1, TypeCorrect, PTL DEF Spec, BlockedNeverMoves

-----------------------------------------------------------------------------
(* What entry e adds to the balance of account a.                          *)
Net(e, a) == Share(e, a, "credit") - Share(e, a, "debit")

(* Recording a pair adds the two legs to the net of the entries.           *)
LEMMA EntryNetOfPair ==
  ASSUME NEW es \in Seq(Entry), NEW e1 \in Entry, NEW e2 \in Entry, NEW a \in Accounts
  PROVE  LET es2 == Append(Append(es, e1), e2)
         IN  SumTo(EntryNet(es2, a), Len(es2))
               = SumTo(EntryNet(es, a), Len(es)) + Net(e1, a) + Net(e2, a)
<1> DEFINE es2 == Append(Append(es, e1), e2)
           n == Len(es)
           x == EntryNet(es, a)
           y == EntryNet(es2, a)
<1>1. n \in Nat /\ Len(es2) = n + 2
  OBVIOUS
<1>2. \A k \in 1..n : es2[k] = es[k]
  OBVIOUS
<1>3. es2[n + 1] = e1 /\ es2[n + 2] = e2
  OBVIOUS
<1> HIDE DEF es2, n
<1>4. \A k \in 1..n : x[k] = y[k]
  BY <1>1, <1>2 DEF EntryNet, n
<1>5. y[n + 1] = Net(e1, a) /\ y[n + 2] = Net(e2, a)
  BY <1>1, <1>3 DEF EntryNet, Net
<1> HIDE DEF x, y
<1>6. SumTo(y, n + 2) = (SumTo(x, n) + y[n + 1]) + y[n + 2]
  BY <1>1, <1>4, SumToPair
<1>7. SumTo(y, Len(es2)) = SumTo(x, n) + Net(e1, a) + Net(e2, a)
  BY <1>1, <1>5, <1>6
<1> QED BY <1>7 DEF es2, n, x, y

(* A voided leg weighs nothing; a posted leg weighs its amount on every    *)
(* account of its chain.                                                   *)
LEMMA NetOfLeg ==
  ASSUME NEW acct \in Accounts, NEW a \in Accounts, NEW amount \in Nat,
         NEW limits, NEW verdict
  PROVE  /\ Net(NewEntry(acct, "debit", amount, "voided", limits, verdict), a) = 0
         /\ Net(NewEntry(acct, "credit", amount, "voided", limits, verdict), a) = 0
         /\ Net(NewEntry(acct, "debit", amount, "posted", limits, verdict), a)
              = IF InChain(a, acct) THEN -amount ELSE 0
         /\ Net(NewEntry(acct, "credit", amount, "posted", limits, verdict), a)
              = IF InChain(a, acct) THEN amount ELSE 0
BY DEF Net, Share, Live, NewEntry

(* What posting one leg does to the balances.                              *)
LEMMA PostedLegBalance ==
  ASSUME NEW led \in LedgerSet, NEW acct \in Accounts, NEW dir \in Directions,
         NEW amount \in Nat, NEW limits \in LimitSet, today \in Days,
         control \in [Accounts -> ControlSet],
         Verdict(led, acct, Delta(dir, amount), limits).code = "POSTED"
  PROVE  \A a \in Accounts :
           Propagate(led, acct, Delta(dir, amount), limits).balance[a]
             = led.balance[a] + (IF ~ InChain(a, acct) THEN 0
                                 ELSE IF dir = "credit" THEN amount ELSE -amount)
<1> DEFINE d == Delta(dir, amount)
           M == Moved(led, acct, d, limits)
<1>1. d \in DeltaSet
  BY DeltaType
<1>2. d["credit"] - d["debit"] = IF dir = "credit" THEN amount ELSE -amount
  BY DEF Delta, Directions
<1>3. d["credit"] \in Int /\ d["debit"] \in Int
  BY <1>1 DEF DeltaSet, Directions
<1>4. Propagate(led, acct, d, limits) = M
  BY DEF Propagate
<1> HIDE DEF d
<1>5. \A a \in Accounts : InChain(a, acct) =>
        M.balance[a] = led.balance[a] + d["credit"] - d["debit"]
  BY <1>1, MovedEffect
<1>6. \A a \in Accounts : ~ InChain(a, acct) => M.balance[a] = led.balance[a]
  BY <1>1, MovedEffect
<1>7. \A a \in Accounts : led.balance[a] \in Int
  BY DEF LedgerSet
<1> HIDE DEF M
<1>8. \A a \in Accounts :
        M.balance[a] = led.balance[a] + (IF ~ InChain(a, acct) THEN 0
                                         ELSE IF dir = "credit" THEN amount ELSE -amount)
  BY <1>2, <1>3, <1>5, <1>6, <1>7
<1> QED BY <1>4, <1>8 DEF d

(* A posting step moves the balances by exactly the pair it records.       *)
LEMMA CreateEntriesNet ==
  ASSUME TypeOK, NEW debtor \in Accounts, NEW creditor \in Accounts,
         NEW amount \in Nat, NEW l1 \in LimitSet, NEW l2 \in LimitSet,
         CreateEntries(debtor, creditor, amount, l1, l2), BalanceMatchesEntries
  PROVE  BalanceMatchesEntries'
<1> DEFINE v1 == Verdict(ledger, debtor, Delta("debit", amount), l1)
           mid == Propagate(ledger, debtor, Delta("debit", amount), l1)
           v2 == Verdict(mid, creditor, Delta("credit", amount), l2)
           end == Propagate(mid, creditor, Delta("credit", amount), l2)
           both == v1.code = "POSTED" /\ v2.code = "POSTED"
           rejection == IF v1.code # "POSTED" THEN v1 ELSE v2
           status == IF both THEN "posted" ELSE "voided"
           e1 == NewEntry(debtor, "debit", amount, status, l1, rejection)
           e2 == NewEntry(creditor, "credit", amount, status, l2, rejection)
<1> SUFFICES ASSUME NEW a \in Accounts
             PROVE  ledger'.balance[a] = SumTo(EntryNet(entries', a), Len(entries'))
  BY DEF BalanceMatchesEntries, EntryNet
<1>0. Delta("debit", amount) \in DeltaSet /\ "debit" \in Directions /\ "credit" \in Directions
  BY DeltaType DEF Directions
<1>1. mid \in LedgerSet
  BY <1>0, PropagateEffect DEF TypeOK
<1>2. e1 \in Entry /\ e2 \in Entry
  <2>1. v1.code \in Codes /\ v1.node \in Accounts \cup {Null}
    BY VerdictEffect
  <2>2. v2.code \in Codes /\ v2.node \in Accounts \cup {Null}
    BY VerdictEffect
  <2> HIDE DEF v1, v2
  <2> QED BY <2>1, <2>2 DEF NewEntry, Entry, Statuses, Directions, TypeOK
<1>3. ledger' = (IF both THEN end ELSE ledger) /\ entries' = Append(Append(entries, e1), e2)
  BY DEF CreateEntries
<1>4. SumTo(EntryNet(entries', a), Len(entries')) = ledger.balance[a] + Net(e1, a) + Net(e2, a)
  <2> HIDE DEF e1, e2
  <2>1. SumTo(EntryNet(entries', a), Len(entries'))
          = SumTo(EntryNet(entries, a), Len(entries)) + Net(e1, a) + Net(e2, a)
    BY <1>2, <1>3, EntryNetOfPair DEF TypeOK
  <2> QED BY <2>1 DEF BalanceMatchesEntries
<1>5. ledger.balance[a] \in Int
  BY DEF TypeOK, LedgerSet
<1>6. CASE both
  <2>1. mid.balance[a] = ledger.balance[a] + (IF InChain(a, debtor) THEN -amount ELSE 0)
    BY <1>0, <1>6, PostedLegBalance DEF TypeOK
  <2>2. end.balance[a] = mid.balance[a] + (IF InChain(a, creditor) THEN amount ELSE 0)
    <3> HIDE DEF mid
    <3> QED BY <1>0, <1>1, <1>6, PostedLegBalance DEF TypeOK
  <2>3. Net(e1, a) = (IF InChain(a, debtor) THEN -amount ELSE 0)
    BY <1>6, NetOfLeg
  <2>4. Net(e2, a) = (IF InChain(a, creditor) THEN amount ELSE 0)
    BY <1>6, NetOfLeg
  <2> HIDE DEF mid, end, e1, e2, both
  <2> QED BY <1>3, <1>4, <1>5, <1>6, <2>1, <2>2, <2>3, <2>4
<1>7. CASE ~ both
  <2>1. Net(e1, a) = 0 /\ Net(e2, a) = 0
    <3>1. status = "voided"
      BY <1>7
    <3> HIDE DEF status, rejection
    <3> QED BY <3>1, NetOfLeg
  <2> HIDE DEF end, e1, e2, both
  <2> QED BY <1>3, <1>4, <1>5, <1>7, <2>1
<1> QED BY <1>6, <1>7

(* Every balance is the net of the entries standing below the account: a   *)
(* rejected pair has moved nothing on any level, a posted one has moved    *)
(* every level of both chains once.                                        *)
THEOREM BalancesAreEntries == Spec => []BalanceMatchesEntries
<1>1. Init => BalanceMatchesEntries
  <2> SUFFICES ASSUME Init, NEW a \in Accounts
               PROVE  ledger.balance[a] = SumTo(EntryNet(entries, a), Len(entries))
    BY DEF BalanceMatchesEntries
  <2>1. entries = <<>> /\ ledger.balance[a] = 0
    BY DEF Init
  <2>2. Len(entries) = 0
    BY <2>1
  <2> QED BY <2>1, <2>2, SumToZero
<1>2. TypeOK /\ BalanceMatchesEntries /\ [Next]_vars => BalanceMatchesEntries'
  <2> SUFFICES ASSUME TypeOK, BalanceMatchesEntries, [Next]_vars PROVE BalanceMatchesEntries'
    OBVIOUS
  <2>1. CASE Post
    <3>1. PICK t \in Transfers, amount \in Amounts, l1 \in EntryLimits, l2 \in EntryLimits :
            CreateEntries(t[1], t[2], amount, l1, l2)
      BY <2>1 DEF Post
    <3>2. t[1] \in Accounts /\ t[2] \in Accounts /\ amount \in Nat
          /\ l1 \in LimitSet /\ l2 \in LimitSet
      BY PostInputs
    <3> QED BY <3>1, <3>2, CreateEntriesNet
  <2>2. CASE Onboard \/ NextDay \/ UNCHANGED vars
    <3>1. ledger' = ledger /\ entries' = entries
      BY <2>2 DEF Onboard, ApplyControls, NextDay, vars
    <3> QED BY <3>1 DEF BalanceMatchesEntries, EntryNet
  <2> QED BY <2>1, <2>2 DEF Next
<1> QED BY <1>1, <1>2, TypeCorrect, PTL DEF Spec

-----------------------------------------------------------------------------
(***************************************************************************)
(* Nothing posts past a daily limit.  The limit bounds a column of the     *)
(* row, not the entries, so the invariant has two parts: every row meets   *)
(* its CHECK constraints, and the daily columns are what the entries of    *)
(* the day add up to.                                                      *)
(***************************************************************************)
RowsWithinLimits ==
  \A a \in Accounts, d \in Days : WithinLimits(ledger.row[a][d])

DailyIsEntries(led, es) ==
  \A a \in Accounts, d \in Days, dir \in Directions :
    led.row[a][d].total[<<"daily", dir>>] = SumTo(DayShare(es, a, d, dir), Len(es))

(* What leg e adds to the daily column of account a.                       *)
DayPart(e, a, d, dir) == IF e.day = d THEN Share(e, a, dir) ELSE 0

(* What a posted leg on acct adds to it today.                             *)
LegPart(acct, leg, amount, a, d, dir) ==
  IF d = today /\ leg = dir /\ InChain(a, acct) THEN amount ELSE 0

(* Ledger l2 is l1 after a leg was added to the daily columns.             *)
LegAdded(l1, l2, acct, leg, amount) ==
  \A a \in Accounts, d \in Days, dir \in Directions :
    l2.row[a][d].total[<<"daily", dir>>]
      = l1.row[a][d].total[<<"daily", dir>>] + LegPart(acct, leg, amount, a, d, dir)

(* What a pair adds to a day's entries of an account.                      *)
LEMMA DayShareOfPair ==
  ASSUME NEW es \in Seq(Entry), NEW e1 \in Entry, NEW e2 \in Entry, NEW a \in Accounts,
         NEW d \in Days, NEW dir \in Directions
  PROVE  LET es2 == Append(Append(es, e1), e2)
         IN  SumTo(DayShare(es2, a, d, dir), Len(es2))
               = SumTo(DayShare(es, a, d, dir), Len(es))
                 + DayPart(e1, a, d, dir) + DayPart(e2, a, d, dir)
<1> DEFINE es2 == Append(Append(es, e1), e2)
           n == Len(es)
           x == DayShare(es, a, d, dir)
           y == DayShare(es2, a, d, dir)
<1>1. n \in Nat /\ Len(es2) = n + 2
  OBVIOUS
<1>2. \A k \in 1..n : es2[k] = es[k]
  OBVIOUS
<1>3. es2[n + 1] = e1 /\ es2[n + 2] = e2
  OBVIOUS
<1> HIDE DEF es2, n
<1>4. \A k \in 1..n : x[k] = y[k]
  BY <1>1, <1>2 DEF DayShare, n
<1>5. y[n + 1] = DayPart(e1, a, d, dir) /\ y[n + 2] = DayPart(e2, a, d, dir)
  BY <1>1, <1>3 DEF DayShare, DayPart
<1> HIDE DEF x, y
<1>6. SumTo(y, n + 2) = (SumTo(x, n) + y[n + 1]) + y[n + 2]
  BY <1>1, <1>4, SumToPair
<1>7. SumTo(y, Len(es2)) = SumTo(x, n) + DayPart(e1, a, d, dir) + DayPart(e2, a, d, dir)
  BY <1>1, <1>5, <1>6
<1> QED BY <1>7 DEF es2, n, x, y

(* What one leg adds to a day's total of an account.                       *)
LEMMA DayPartOfLeg ==
  ASSUME NEW acct \in Accounts, NEW a \in Accounts, NEW amount \in Nat,
         NEW leg \in Directions, NEW limits, NEW verdict, NEW d, NEW dir
  PROVE  /\ DayPart(NewEntry(acct, leg, amount, "voided", limits, verdict), a, d, dir) = 0
         /\ DayPart(NewEntry(acct, leg, amount, "posted", limits, verdict), a, d, dir)
              = LegPart(acct, leg, amount, a, d, dir)
BY DEF DayPart, LegPart, Share, Live, NewEntry

(* What posting one leg does to the rows: the CHECKs hold on each row of   *)
(* the chain, and today's daily column of the leg's direction grew.        *)
LEMMA PostedLegRows ==
  ASSUME NEW led \in LedgerSet, NEW acct \in Accounts, NEW leg \in Directions,
         NEW amount \in Nat, NEW limits \in LimitSet, today \in Days,
         control \in [Accounts -> ControlSet],
         Verdict(led, acct, Delta(leg, amount), limits).code = "POSTED"
  PROVE  /\ (\A a \in Accounts, d \in Days : WithinLimits(led.row[a][d]))
            => \A a \in Accounts, d \in Days :
                 WithinLimits(Propagate(led, acct, Delta(leg, amount), limits).row[a][d])
         /\ LegAdded(led, Propagate(led, acct, Delta(leg, amount), limits), acct, leg, amount)
<1> DEFINE delta == Delta(leg, amount)
           M == Moved(led, acct, delta, limits)
<1>1. delta \in DeltaSet
  BY DeltaType
<1>2. \A dir \in Directions : delta[dir] = IF leg = dir THEN amount ELSE 0
  BY DEF Delta
<1>3. Propagate(led, acct, delta, limits) = M
  BY DEF Propagate
<1>4. \A a \in Accounts : InChain(a, acct) => WithinLimits(M.row[a][today])
  <2> SUFFICES ASSUME NEW a \in Accounts, InChain(a, acct)
               PROVE  WithinLimits(M.row[a][today])
    OBVIOUS
  <2> DEFINE up == UpsertRow(led.row[a], today, delta, EffectiveCaps(acct, limits))
  <2>1. RowOutcome(led, a, acct, delta, limits) = "POSTED"
    BY VerdictEffect
  <2>2. WithinLimits(up)
    BY <2>1 DEF RowOutcome
  <2>3. M.row[a] = [led.row[a] EXCEPT ![today] = up]
    BY DEF Moved
  <2>4. led.row[a] \in [Days -> Row]
    BY DEF LedgerSet
  <2> HIDE DEF M, up
  <2> QED BY <2>2, <2>3, <2>4
<1> HIDE DEF delta
<1>5. /\ \A a \in Accounts : InChain(a, acct) =>
           /\ \A d \in Days \ {today} : M.row[a][d] = led.row[a][d]
           /\ \A dir \in Directions :
                M.row[a][today].total[<<"daily", dir>>]
                  = led.row[a][today].total[<<"daily", dir>>] + delta[dir]
      /\ \A a \in Accounts : ~ InChain(a, acct) => M.row[a] = led.row[a]
  BY <1>1, MovedEffect
<1>6. \A a \in Accounts, d \in Days, dir \in Directions :
        led.row[a][d].total[<<"daily", dir>>] \in Int
  <2>1. \A dir \in Directions : <<"daily", dir>> \in Slots
    BY DEF Slots, Periods
  <2>2. \A a \in Accounts, d \in Days : led.row[a][d].total \in [Slots -> Int]
    BY DEF LedgerSet, Row
  <2> QED BY <2>1, <2>2
<1>7. ASSUME NEW a \in Accounts, NEW d \in Days,
             \A b \in Accounts, c \in Days : WithinLimits(led.row[b][c])
      PROVE  WithinLimits(M.row[a][d])
  <2>1. CASE InChain(a, acct) /\ d = today
    BY <1>4, <2>1
  <2>2. CASE ~ (InChain(a, acct) /\ d = today)
    <3>1. M.row[a][d] = led.row[a][d]
      BY <1>5, <2>2
    <3> QED BY <1>7, <3>1
  <2> QED BY <2>1, <2>2
<1>8. ASSUME NEW a \in Accounts, NEW d \in Days, NEW dir \in Directions
      PROVE  M.row[a][d].total[<<"daily", dir>>]
               = led.row[a][d].total[<<"daily", dir>>]
                 + LegPart(acct, leg, amount, a, d, dir)
  <2> HIDE DEF M
  <2>1. CASE InChain(a, acct) /\ d = today
    BY <1>2, <1>5, <2>1 DEF LegPart
  <2>2. CASE ~ (InChain(a, acct) /\ d = today)
    <3>1. M.row[a][d] = led.row[a][d]
      BY <1>5, <2>2
    <3> QED BY <1>6, <2>2, <3>1 DEF LegPart
  <2> QED BY <2>1, <2>2
<1> QED BY <1>3, <1>7, <1>8 DEF delta, LegAdded

(* A posted or voided pair keeps rows and entries within the limits.       *)
LEMMA CreateEntriesLimits ==
  ASSUME TypeOK, NEW debtor \in Accounts, NEW creditor \in Accounts,
         NEW amount \in Nat, NEW l1 \in LimitSet, NEW l2 \in LimitSet,
         CreateEntries(debtor, creditor, amount, l1, l2),
         RowsWithinLimits, DailyIsEntries(ledger, entries)
  PROVE  RowsWithinLimits' /\ DailyIsEntries(ledger', entries')
<1> DEFINE v1 == Verdict(ledger, debtor, Delta("debit", amount), l1)
           mid == Propagate(ledger, debtor, Delta("debit", amount), l1)
           v2 == Verdict(mid, creditor, Delta("credit", amount), l2)
           end == Propagate(mid, creditor, Delta("credit", amount), l2)
           both == v1.code = "POSTED" /\ v2.code = "POSTED"
           rejection == IF v1.code # "POSTED" THEN v1 ELSE v2
           status == IF both THEN "posted" ELSE "voided"
           e1 == NewEntry(debtor, "debit", amount, status, l1, rejection)
           e2 == NewEntry(creditor, "credit", amount, status, l2, rejection)
           Bounded(l) == \A a \in Accounts, d \in Days : WithinLimits(l.row[a][d])
<1>0. Delta("debit", amount) \in DeltaSet /\ "debit" \in Directions /\ "credit" \in Directions
  BY DeltaType DEF Directions
<1>1. mid \in LedgerSet
  BY <1>0, PropagateEffect DEF TypeOK
<1>2. e1 \in Entry /\ e2 \in Entry
  <2>1. v1.code \in Codes /\ v1.node \in Accounts \cup {Null}
    BY VerdictEffect
  <2>2. v2.code \in Codes /\ v2.node \in Accounts \cup {Null}
    BY VerdictEffect
  <2> HIDE DEF v1, v2
  <2> QED BY <2>1, <2>2 DEF NewEntry, Entry, Statuses, Directions, TypeOK
<1>3. ledger' = (IF both THEN end ELSE ledger) /\ entries' = Append(Append(entries, e1), e2)
  BY DEF CreateEntries
<1>4. ASSUME both
      PROVE  /\ Bounded(end)
             /\ \A a \in Accounts, d \in Days, dir \in Directions :
                  end.row[a][d].total[<<"daily", dir>>]
                    = (ledger.row[a][d].total[<<"daily", dir>>]
                       + LegPart(debtor, "debit", amount, a, d, dir))
                      + LegPart(creditor, "credit", amount, a, d, dir)
  <2>0. ledger \in LedgerSet /\ today \in Days /\ control \in [Accounts -> ControlSet]
    BY DEF TypeOK
  <2>1. Bounded(ledger) => Bounded(mid)
    BY <1>0, <1>4, <2>0, PostedLegRows
  <2>2. LegAdded(ledger, mid, debtor, "debit", amount)
    BY <1>0, <1>4, <2>0, PostedLegRows
  <2> HIDE DEF mid
  <2>3. Bounded(mid) => Bounded(end)
    BY <1>0, <1>1, <1>4, <2>0, PostedLegRows
  <2>4. LegAdded(mid, end, creditor, "credit", amount)
    BY <1>0, <1>1, <1>4, <2>0, PostedLegRows
  <2>5. Bounded(ledger)
    BY DEF RowsWithinLimits
  <2> HIDE DEF end
  <2> QED BY <2>1, <2>2, <2>3, <2>4, <2>5 DEF LegAdded
<1>5. RowsWithinLimits'
  <2> HIDE DEF both, end
  <2>1. Bounded(ledger')
    BY <1>3, <1>4 DEF RowsWithinLimits
  <2> QED BY <2>1 DEF RowsWithinLimits, WithinLimits
<1>6. ASSUME NEW a \in Accounts, NEW d \in Days, NEW dir \in Directions
      PROVE  ledger'.row[a][d].total[<<"daily", dir>>]
               = SumTo(DayShare(entries', a, d, dir), Len(entries'))
  <2>1. SumTo(DayShare(entries', a, d, dir), Len(entries'))
          = ledger.row[a][d].total[<<"daily", dir>>]
            + DayPart(e1, a, d, dir) + DayPart(e2, a, d, dir)
    <3> HIDE DEF e1, e2
    <3>1. SumTo(DayShare(entries', a, d, dir), Len(entries'))
            = SumTo(DayShare(entries, a, d, dir), Len(entries))
              + DayPart(e1, a, d, dir) + DayPart(e2, a, d, dir)
      BY <1>2, <1>3, DayShareOfPair DEF TypeOK
    <3> QED BY <3>1 DEF DailyIsEntries
  <2>2. ledger.row[a][d].total[<<"daily", dir>>] \in Int
    <3>1. <<"daily", dir>> \in Slots
      BY DEF Slots, Periods
    <3> QED BY <3>1 DEF TypeOK, LedgerSet, Row
  <2>3. CASE both
    <3>1. status = "posted"
      BY <2>3
    <3>2. /\ DayPart(e1, a, d, dir)
               = LegPart(debtor, "debit", amount, a, d, dir)
          /\ DayPart(e2, a, d, dir)
               = LegPart(creditor, "credit", amount, a, d, dir)
      <4> HIDE DEF status, rejection
      <4> QED BY <1>0, <3>1, DayPartOfLeg
    <3> HIDE DEF both, end, e1, e2
    <3> QED BY <1>3, <1>4, <2>1, <2>3, <3>2
  <2>4. CASE ~ both
    <3>1. status = "voided"
      BY <2>4
    <3>2. DayPart(e1, a, d, dir) = 0 /\ DayPart(e2, a, d, dir) = 0
      <4> HIDE DEF status, rejection
      <4> QED BY <1>0, <3>1, DayPartOfLeg
    <3> HIDE DEF both, end, e1, e2
    <3> QED BY <1>3, <2>1, <2>2, <2>4, <3>2
  <2> QED BY <2>3, <2>4
<1> QED BY <1>5, <1>6 DEF DailyIsEntries

(* Empty rows are within their limits.                                     *)
LEMMA LimitsInit == Init => RowsWithinLimits /\ DailyIsEntries(ledger, entries)
<1> SUFFICES ASSUME Init PROVE RowsWithinLimits /\ DailyIsEntries(ledger, entries)
  OBVIOUS
<1>1. \A a \in Accounts, d \in Days : ledger.row[a][d] = EmptyRow
  BY DEF Init
<1>2. \A s \in Slots : EmptyRow.total[s] = 0 /\ EmptyRow.limit[s] = Null
  BY DEF EmptyRow
<1>3. RowsWithinLimits
  BY <1>1, <1>2 DEF RowsWithinLimits, WithinLimits
<1>4. Len(entries) = 0
  <2>1. entries = <<>>
    BY DEF Init
  <2> QED BY <2>1
<1>5. \A dir \in Directions : <<"daily", dir>> \in Slots
  BY DEF Slots, Periods
<1>6. \A x : SumTo(x, Len(entries)) = 0
  BY <1>4, SumToZero
<1> QED BY <1>1, <1>2, <1>3, <1>5, <1>6 DEF DailyIsEntries

(* You cannot post past a limit: on every account of every tree, what      *)
(* stands posted on a day is within the daily limit the row records.       *)
THEOREM NeverPastTheLimit == Spec => []DailyPostedWithinLimit
<1>1. TypeOK /\ RowsWithinLimits /\ DailyIsEntries(ledger, entries) /\ [Next]_vars
      => (RowsWithinLimits /\ DailyIsEntries(ledger, entries))'
  <2> SUFFICES ASSUME TypeOK, RowsWithinLimits, DailyIsEntries(ledger, entries), [Next]_vars
               PROVE  (RowsWithinLimits /\ DailyIsEntries(ledger, entries))'
    OBVIOUS
  <2>1. CASE Post
    <3>1. PICK t \in Transfers, amount \in Amounts, l1 \in EntryLimits, l2 \in EntryLimits :
            CreateEntries(t[1], t[2], amount, l1, l2)
      BY <2>1 DEF Post
    <3>2. t[1] \in Accounts /\ t[2] \in Accounts /\ amount \in Nat
          /\ l1 \in LimitSet /\ l2 \in LimitSet
      BY PostInputs
    <3>3. RowsWithinLimits' /\ DailyIsEntries(ledger', entries')
      BY <3>1, <3>2, CreateEntriesLimits
    <3> QED BY <3>3 DEF DailyIsEntries, DayShare, Share, Live
  <2>2. CASE Onboard \/ NextDay \/ UNCHANGED vars
    <3>1. ledger' = ledger /\ entries' = entries
      BY <2>2 DEF Onboard, ApplyControls, NextDay, vars
    <3> QED BY <3>1 DEF RowsWithinLimits, WithinLimits, DailyIsEntries
  <2> QED BY <2>1, <2>2 DEF Next
<1>2. RowsWithinLimits /\ DailyIsEntries(ledger, entries) => DailyPostedWithinLimit
  <2>1. \A dir \in Directions : <<"daily", dir>> \in Slots
    BY DEF Slots, Periods
  <2> QED BY <2>1 DEF RowsWithinLimits, WithinLimits, DailyIsEntries, DailyPostedWithinLimit
<1> QED BY <1>1, <1>2, LimitsInit, TypeCorrect, PTL DEF Spec

-----------------------------------------------------------------------------
(***************************************************************************)
(* The caps of an entry and of the accounts above it are ceilings.         *)
(***************************************************************************)
(* The effective cap is under the hard cap of every account of the chain   *)
(* and under the entry's own.                                              *)
LEMMA EffectiveCapLeast ==
  ASSUME NEW acct \in Accounts, NEW s \in Slots, NEW limits \in LimitSet,
         control \in [Accounts -> ControlSet], NEW c \in Nat,
         \/ limits[s] = c
         \/ \E i \in DOMAIN Chain[acct] : control[Chain[acct][i]].max[s] = c
  PROVE  EffectiveCap(acct, s, limits) \in Nat /\ EffectiveCap(acct, s, limits) <= c
<1> DEFINE caps == ({control[Chain[acct][i]].max[s] : i \in DOMAIN Chain[acct]}
                    \cup {limits[s]}) \ {Null}
<1>1. \A i \in DOMAIN Chain[acct] : Chain[acct][i] \in Accounts
  BY ConstantsAssumption
<1>2. \A i \in DOMAIN Chain[acct] : control[Chain[acct][i]].max[s] \in Caps
  BY <1>1 DEF ControlSet, LimitSet
<1>3. limits[s] \in Caps
  BY DEF LimitSet
<1>4. caps \in SUBSET Nat
  BY <1>2, <1>3 DEF Caps
<1>5. c \in caps
  BY ConstantsAssumption
<1>6. EffectiveCap(acct, s, limits) =
        IF caps = {} THEN Null ELSE CHOOSE m \in caps : \A k \in caps : m <= k
  BY DEF EffectiveCap
<1> HIDE DEF caps
<1>7. \E m \in caps : \A k \in caps : m <= k
  BY <1>4, <1>5, NatLeast
<1>8. EffectiveCap(acct, s, limits) \in caps
      /\ \A k \in caps : EffectiveCap(acct, s, limits) <= k
  BY <1>5, <1>6, <1>7
<1> QED
  BY <1>4, <1>5, <1>8

(* A row of today the trigger writes is within the hard caps of its        *)
(* account, whatever the entry's own caps and whichever sign it moves.     *)
LEMMA PropagateCeiling ==
  ASSUME NEW led \in LedgerSet, NEW acct \in Accounts, NEW delta \in DeltaSet,
         NEW limits \in LimitSet, today \in Days, control \in [Accounts -> ControlSet],
         NEW a \in Accounts, NEW s \in Slots, control[a].max[s] # Null,
         Propagate(led, acct, delta, limits).row[a][today] # led.row[a][today]
  PROVE  Propagate(led, acct, delta, limits).row[a][today].total[s] <= control[a].max[s]
<1> DEFINE P == Propagate(led, acct, delta, limits)
           M == Moved(led, acct, delta, limits)
           up == UpsertRow(led.row[a], today, delta, EffectiveCaps(acct, limits))
<1>1. Verdict(led, acct, delta, limits).code = "POSTED" /\ P = M
  BY DEF Propagate
<1>2. InChain(a, acct)
  <2>1. ~ InChain(a, acct) => M.row[a] = led.row[a]
    BY MovedEffect
  <2> HIDE DEF P, M
  <2> QED
    BY <1>1, <2>1 DEF P
<1>3. WithinLimits(up)
  <2>1. RowOutcome(led, a, acct, delta, limits) = "POSTED"
    BY <1>1, <1>2, VerdictEffect
  <2> QED
    BY <2>1 DEF RowOutcome
<1>4. M.row[a][today] = up
  <2>1. M.row[a] = [led.row[a] EXCEPT ![today] = up]
    BY <1>2 DEF Moved
  <2>2. led.row[a] \in [Days -> Row]
    BY DEF LedgerSet
  <2> HIDE DEF M, up
  <2> QED
    BY <2>1, <2>2
<1> DEFINE cap == EffectiveCap(acct, s, limits)
<1>5. cap \in Nat /\ cap <= control[a].max[s] /\ control[a].max[s] \in Nat
  <2>1. PICK c \in Nat : control[a].max[s] = c
    BY DEF ControlSet, LimitSet, Caps
  <2>2. \E i \in DOMAIN Chain[acct] : control[Chain[acct][i]].max[s] = c
    BY <1>2, <2>1 DEF InChain
  <2> QED
    BY <2>1, <2>2, EffectiveCapLeast
<1>6. up.limit[s] = cap
  <2> HIDE DEF cap
  <2>1. up.limit[s] = IF EffectiveCaps(acct, limits)[s] # Null
                      THEN EffectiveCaps(acct, limits)[s] ELSE led.row[a][today].limit[s]
    BY DEF UpsertRow
  <2>2. EffectiveCaps(acct, limits)[s] = cap
    BY DEF EffectiveCaps, cap
  <2>3. cap # Null
    BY <1>5, ConstantsAssumption
  <2> HIDE DEF up
  <2> QED
    BY <2>1, <2>2, <2>3
<1>7. up.total[s] \in Int
  <2>1. led.row[a] \in [Days -> Row] /\ EffectiveCaps(acct, limits) \in LimitSet
    BY EffectiveCapType DEF LedgerSet, EffectiveCaps, LimitSet
  <2>2. up \in Row
    BY <2>1, UpsertRowEffect
  <2> HIDE DEF up
  <2> QED
    BY <2>2 DEF Row
<1> HIDE DEF up, cap, M
<1>8. up.total[s] <= cap
  <2>1. cap # Null
    BY <1>5, ConstantsAssumption
  <2> QED
    BY <1>3, <1>6, <2>1 DEF WithinLimits
<1> QED
  BY <1>1, <1>4, <1>5, <1>7, <1>8

(* The step respects the hard caps.                                        *)
UnderCeilings ==
  \A a \in Accounts, s \in Slots :
    (ledger'.row[a][today] # ledger.row[a][today] /\ control[a].max[s] # Null)
    => ledger'.row[a][today].total[s] <= control[a].max[s]

(* A pair respects them on every account of both chains.                   *)
LEMMA CreateEntriesCeiling ==
  ASSUME TypeOK, NEW debtor \in Accounts, NEW creditor \in Accounts,
         NEW amount \in Nat, NEW l1 \in LimitSet, NEW l2 \in LimitSet,
         CreateEntries(debtor, creditor, amount, l1, l2)
  PROVE  UnderCeilings
<1> DEFINE mid == Propagate(ledger, debtor, Delta("debit", amount), l1)
           end == Propagate(mid, creditor, Delta("credit", amount), l2)
<1>0. /\ Delta("debit", amount) \in DeltaSet /\ Delta("credit", amount) \in DeltaSet
      /\ ledger \in LedgerSet /\ today \in Days /\ control \in [Accounts -> ControlSet]
  BY DeltaType DEF Directions, TypeOK
<1>1. mid \in LedgerSet
  BY <1>0, PropagateEffect
<1>2. ledger' = end \/ ledger' = ledger
  BY DEF CreateEntries
<1>3. ASSUME NEW a \in Accounts, NEW s \in Slots, control[a].max[s] # Null,
             mid.row[a][today] # ledger.row[a][today]
      PROVE  mid.row[a][today].total[s] <= control[a].max[s]
  BY <1>0, <1>3, PropagateCeiling
<1>4. ASSUME NEW a \in Accounts, NEW s \in Slots, control[a].max[s] # Null,
             end.row[a][today] # mid.row[a][today]
      PROVE  end.row[a][today].total[s] <= control[a].max[s]
  <2> HIDE DEF mid
  <2> QED
    BY <1>0, <1>1, <1>4, PropagateCeiling
<1> HIDE DEF mid, end
<1> QED
  BY <1>2, <1>3, <1>4 DEF UnderCeilings

(* No entry, whatever caps it brings, and nowhere below the account it     *)
(* sits on, takes a period's total past the max_* of an account.           *)
THEOREM CeilingsAreHard == Spec => HardCeiling
<1>1. TypeOK /\ [Next]_vars => [UnderCeilings]_vars
  <2> SUFFICES ASSUME TypeOK, [Next]_vars PROVE UnderCeilings
    OBVIOUS
  <2>1. CASE Post
    <3>1. PICK t \in Transfers, amount \in Amounts, l1 \in EntryLimits, l2 \in EntryLimits :
            CreateEntries(t[1], t[2], amount, l1, l2)
      BY <2>1 DEF Post
    <3>2. t[1] \in Accounts /\ t[2] \in Accounts /\ amount \in Nat
          /\ l1 \in LimitSet /\ l2 \in LimitSet
      BY PostInputs
    <3> QED
      BY <3>1, <3>2, CreateEntriesCeiling
  <2>2. CASE Onboard \/ NextDay \/ UNCHANGED vars
    <3>1. ledger' = ledger
      BY <2>2 DEF Onboard, ApplyControls, NextDay, vars
    <3> QED
      BY <3>1 DEF UnderCeilings
  <2> QED
    BY <2>1, <2>2 DEF Next
<1> QED
  BY <1>1, TypeCorrect, PTL DEF Spec, HardCeiling, UnderCeilings

(* An amount under a cap of zero is never posted: the row the INSERT       *)
(* proposes breaks its CHECK whatever the day's total is.                  *)
LEMMA ZeroCapRejects ==
  ASSUME NEW led \in LedgerSet, NEW acct \in Accounts, NEW dir \in Directions,
         NEW amount \in Nat, amount > 0, NEW limits \in LimitSet,
         limits[<<"daily", dir>>] = 0, today \in Days, control \in [Accounts -> ControlSet]
  PROVE  Verdict(led, acct, Delta(dir, amount), limits).code # "POSTED"
<1> SUFFICES ASSUME Verdict(led, acct, Delta(dir, amount), limits).code = "POSTED"
             PROVE  FALSE
  OBVIOUS
<1> DEFINE delta == Delta(dir, amount)
           caps == EffectiveCaps(acct, limits)
           s == <<"daily", dir>>
           row == ProposedRow(led.row[acct], today, delta, caps)
<1>1. s \in Slots /\ s[1] = "daily" /\ s[2] = dir
  BY DEF Slots, Periods
<1>2. InChain(acct, acct)
  <2>1. Chain[acct] \in Seq(Accounts) /\ Chain[acct] # <<>> /\ Chain[acct][1] = acct
    BY ConstantsAssumption
  <2>2. 1 \in DOMAIN Chain[acct]
    BY <2>1
  <2> QED
    BY <2>1, <2>2 DEF InChain
<1>3. WithinLimits(row)
  <2>1. RowOutcome(led, acct, acct, delta, limits) = "POSTED"
    BY <1>2, VerdictEffect
  <2> QED
    BY <2>1 DEF RowOutcome
<1>4. caps[s] \in Nat /\ caps[s] <= 0
  <2>1. EffectiveCap(acct, s, limits) \in Nat /\ EffectiveCap(acct, s, limits) <= 0
    BY <1>1, EffectiveCapLeast
  <2> HIDE DEF s
  <2> QED
    BY <1>1, <2>1 DEF EffectiveCaps
<1>5. row.limit[s] = caps[s] /\ row.total[s] = Prior(led.row[acct], "daily", dir, today) + delta[dir]
  <2> HIDE DEF caps, delta, s
  <2> QED
    BY <1>1 DEF ProposedRow
<1>6. delta[dir] = amount
  BY DEF Delta
<1>7. Prior(led.row[acct], "daily", dir, today) = 0
  <2>1. led.row[acct] \in [Days -> Row] /\ "daily" \in Periods
    BY DEF LedgerSet, Periods
  <2> QED
    BY <2>1, PriorType
<1> HIDE DEF row, caps, delta, s
<1> QED
  BY <1>1, <1>3, <1>4, <1>5, <1>6, <1>7, ConstantsAssumption DEF WithinLimits

-----------------------------------------------------------------------------
(***************************************************************************)
(* The cumulative columns are what the entries of their period add up to.  *)
(* The trigger adds the daily columns of the other days of the period, so  *)
(* the invariant speaks of those sums for every day, written or not; a     *)
(* total is then compared when it is written, and later entries no longer  *)
(* count for it.                                                           *)
(***************************************************************************)
(* What the entries of the days D add to account a in direction dir.       *)
ShareIn(es, a, D, dir) ==
  [i \in 1..Len(es) |-> IF es[i].day \in D THEN Share(es[i], a, dir) ELSE 0]
SumIn(es, a, D, dir) == SumTo(ShareIn(es, a, D, dir), Len(es))
PartIn(e, a, D, dir) == IF e.day \in D THEN Share(e, a, dir) ELSE 0

OtherDays(p, t) == {d \in Days : d # t /\ SamePeriod(p, d, t)}
UpTo(p, t) == {d \in Days : SamePeriod(p, d, t) /\ d <= t}

PriorIsEntries(led, es) ==
  \A a \in Accounts, t \in Days, p \in Periods, dir \in Directions :
    Prior(led.row[a], p, dir, t) = SumIn(es, a, OtherDays(p, t), dir)

NotAhead == \A i \in 1..Len(entries) : entries[i].day <= today

(* What an entry adds is an integer.                                       *)
LEMMA ShareType ==
  ASSUME NEW e \in Entry, NEW a, NEW dir, NEW D
  PROVE  PartIn(e, a, D, dir) \in Int
BY DEF Entry, Share, PartIn

(* The sum over some days is an integer.                                   *)
LEMMA SumInType ==
  ASSUME NEW es \in Seq(Entry), NEW a, NEW D, NEW dir
  PROVE  SumIn(es, a, D, dir) \in Int
<1>1. \A k \in 1..Len(es) : es[k] \in Entry
  OBVIOUS
<1>2. \A k \in 1..Len(es) : ShareIn(es, a, D, dir)[k] = PartIn(es[k], a, D, dir)
  BY DEF ShareIn, PartIn
<1>3. \A k \in 1..Len(es) : ShareIn(es, a, D, dir)[k] \in Int
  BY <1>1, <1>2, ShareType
<1> QED
  BY <1>3, SumToInt DEF SumIn

(* What a pair adds to a sum over some days.                               *)
LEMMA SumInOfPair ==
  ASSUME NEW es \in Seq(Entry), NEW e1 \in Entry, NEW e2 \in Entry, NEW a, NEW D, NEW dir
  PROVE  SumIn(Append(Append(es, e1), e2), a, D, dir)
           = SumIn(es, a, D, dir) + PartIn(e1, a, D, dir) + PartIn(e2, a, D, dir)
<1> DEFINE es2 == Append(Append(es, e1), e2)
           n == Len(es)
           x == ShareIn(es, a, D, dir)
           y == ShareIn(es2, a, D, dir)
<1>1. n \in Nat /\ Len(es2) = n + 2
  OBVIOUS
<1>2. \A k \in 1..n : es2[k] = es[k]
  OBVIOUS
<1>3. es2[n + 1] = e1 /\ es2[n + 2] = e2
  OBVIOUS
<1> HIDE DEF es2, n
<1>4. \A k \in 1..n : x[k] = y[k]
  BY <1>1, <1>2 DEF ShareIn, n
<1>5. y[n + 1] = PartIn(e1, a, D, dir) /\ y[n + 2] = PartIn(e2, a, D, dir)
  BY <1>1, <1>3 DEF ShareIn, PartIn
<1> HIDE DEF x, y
<1>6. SumTo(y, n + 2) = (SumTo(x, n) + y[n + 1]) + y[n + 2]
  BY <1>1, <1>4, SumToPair
<1>7. SumTo(y, Len(es2)) = SumTo(x, n) + PartIn(e1, a, D, dir) + PartIn(e2, a, D, dir)
  BY <1>1, <1>5, <1>6
<1> QED
  BY <1>7 DEF es2, n, x, y, SumIn

(* Days that hold all entries of two disjoint sets of days add up.         *)
LEMMA SumInSplit ==
  ASSUME NEW es \in Seq(Entry), NEW a, NEW D, NEW D1, NEW D2, NEW dir,
         \A i \in 1..Len(es) : /\ es[i].day \in D <=> es[i].day \in D1 \cup D2
                               /\ es[i].day \notin D1 \cap D2
  PROVE  SumIn(es, a, D, dir) = SumIn(es, a, D1, dir) + SumIn(es, a, D2, dir)
<1> DEFINE x == ShareIn(es, a, D1, dir)
           y == ShareIn(es, a, D2, dir)
           z == ShareIn(es, a, D, dir)
<1>1. ASSUME NEW k \in 1..Len(es)
      PROVE  x[k] \in Int /\ y[k] \in Int /\ z[k] = x[k] + y[k]
  <2>1. Share(es[k], a, dir) \in Int
    <3>1. es[k] \in Entry
      OBVIOUS
    <3> QED
      BY <3>1 DEF Entry, Share
  <2> QED
    BY <2>1 DEF ShareIn
<1>2. Len(es) \in Nat
  OBVIOUS
<1> HIDE DEF x, y, z
<1>3. SumTo(z, Len(es)) = SumTo(x, Len(es)) + SumTo(y, Len(es))
  BY <1>1, <1>2, SumToPlus
<1> QED
  BY <1>3 DEF SumIn, x, y, z

(* The daily columns are sums over one day.                                *)
LEMMA DayIsSumIn ==
  ASSUME NEW es \in Seq(Entry), NEW a, NEW d, NEW dir
  PROVE  SumTo(DayShare(es, a, d, dir), Len(es)) = SumIn(es, a, {d}, dir)
<1>1. DayShare(es, a, d, dir) = ShareIn(es, a, {d}, dir)
  BY DEF DayShare, ShareIn
<1> QED
  BY <1>1 DEF SumIn

(* What one leg adds to the prior sums of an account.                      *)
LEMMA PriorAfterLeg ==
  ASSUME NEW l1 \in LedgerSet, NEW l2 \in LedgerSet, NEW acct \in Accounts,
         NEW leg \in Directions, NEW amount \in Nat, today \in Days,
         LegAdded(l1, l2, acct, leg, amount),
         NEW a \in Accounts, NEW t \in Days, NEW p \in Periods, NEW dir \in Directions
  PROVE  /\ Prior(l1.row[a], p, dir, t) \in Int
         /\ Prior(l2.row[a], p, dir, t) = Prior(l1.row[a], p, dir, t)
              + (IF today \in OtherDays(p, t) THEN LegPart(acct, leg, amount, a, today, dir)
                 ELSE 0)
<1> DEFINE x == [d \in Days |-> IF d # t /\ SamePeriod(p, d, t)
                                THEN l1.row[a][d].total[<<"daily", dir>>] ELSE 0]
           y == [d \in Days |-> IF d # t /\ SamePeriod(p, d, t)
                                THEN l2.row[a][d].total[<<"daily", dir>>] ELSE 0]
<1>0. NumDays \in Nat /\ Days = 1..NumDays /\ today \in 1..NumDays
  BY ConstantsAssumption DEF Days
<1>1. /\ Prior(l1.row[a], p, dir, t) = SumTo(x, NumDays)
      /\ Prior(l2.row[a], p, dir, t) = SumTo(y, NumDays)
  BY DEF Prior
<1>2. ASSUME NEW d \in Days
      PROVE  /\ l1.row[a][d].total[<<"daily", dir>>] \in Int
             /\ l2.row[a][d].total[<<"daily", dir>>] \in Int
             /\ l2.row[a][d].total[<<"daily", dir>>]
                  = l1.row[a][d].total[<<"daily", dir>>]
                    + LegPart(acct, leg, amount, a, d, dir)
  <2>1. <<"daily", dir>> \in Slots
    BY DEF Slots, Periods
  <2>2. l1.row[a][d].total \in [Slots -> Int] /\ l2.row[a][d].total \in [Slots -> Int]
    BY DEF LedgerSet, Row
  <2> QED
    BY <2>1, <2>2 DEF LegAdded
<1>3. \A k \in 1..NumDays : x[k] \in Int /\ y[k] \in Int
  BY <1>0, <1>2
<1>4. \A k \in 1..NumDays : k # today => x[k] = y[k]
  BY <1>0, <1>2 DEF LegPart
<1>5. y[today] = x[today] + (IF today \in OtherDays(p, t)
                             THEN LegPart(acct, leg, amount, a, today, dir) ELSE 0)
  BY <1>0, <1>2 DEF OtherDays, LegPart
<1>6. LegPart(acct, leg, amount, a, today, dir) \in Int
  BY DEF LegPart
<1> HIDE DEF x, y
<1>7. SumTo(x, NumDays) \in Int
  BY <1>0, <1>3, SumToInt
<1>8. SumTo(y, NumDays) = SumTo(x, NumDays) + y[today] - x[today]
  BY <1>0, <1>3, <1>4, SumToUpdate
<1>9. x[today] \in Int
  BY <1>0, <1>3
<1> QED
  BY <1>1, <1>5, <1>6, <1>7, <1>8, <1>9

(* The cumulative columns of today's row of an account follow its daily    *)
(* columns.                                                                *)
Cumulative(led, a) ==
  \A s \in Slots : led.row[a][today].total[s]
    = Prior(led.row[a], s[1], s[2], today) + led.row[a][today].total[<<"daily", s[2]>>]

(* A posted leg brings the cumulative columns of its chain up to date and  *)
(* writes no other row.                                                    *)
LEMMA LegCumulative ==
  ASSUME NEW led \in LedgerSet, NEW acct \in Accounts, NEW delta \in DeltaSet,
         NEW limits \in LimitSet, today \in Days, control \in [Accounts -> ControlSet],
         Verdict(led, acct, delta, limits).code = "POSTED"
  PROVE  LET P == Propagate(led, acct, delta, limits)
         IN  \A a \in Accounts :
               /\ InChain(a, acct) => Cumulative(P, a)
               /\ ~ InChain(a, acct) => P.row[a] = led.row[a]
               /\ \A d \in Days \ {today} : P.row[a][d] = led.row[a][d]
<1> DEFINE P == Propagate(led, acct, delta, limits)
           M == Moved(led, acct, delta, limits)
<1>1. P = M
  BY DEF Propagate
<1>2. /\ \A a \in Accounts : ~ InChain(a, acct) => M.row[a] = led.row[a]
      /\ \A a \in Accounts : \A d \in Days \ {today} : M.row[a][d] = led.row[a][d]
  BY MovedEffect
<1>3. ASSUME NEW a \in Accounts, InChain(a, acct), NEW s \in Slots
      PROVE  M.row[a][today].total[s]
               = Prior(M.row[a], s[1], s[2], today) + M.row[a][today].total[<<"daily", s[2]>>]
  <2> DEFINE caps == EffectiveCaps(acct, limits)
             up == UpsertRow(led.row[a], today, delta, caps)
  <2>0. s[1] \in Periods /\ s[2] \in Directions
    BY DEF Slots
  <2>1. led.row[a] \in [Days -> Row]
    BY DEF LedgerSet
  <2>2. M.row[a][today] = up
    <3>1. M.row[a] = [led.row[a] EXCEPT ![today] = up]
      BY <1>3 DEF Moved
    <3> HIDE DEF M, up
    <3> QED
      BY <3>1, <2>1
  <2>3. up.total[s] = Prior(led.row[a], s[1], s[2], today)
                      + led.row[a][today].total[<<"daily", s[2]>>] + delta[s[2]]
    BY DEF UpsertRow
  <2>4. M.row[a][today].total[<<"daily", s[2]>>]
          = led.row[a][today].total[<<"daily", s[2]>>] + delta[s[2]]
    BY <1>3, <2>0, MovedEffect
  <2>5. Prior(M.row[a], s[1], s[2], today) = Prior(led.row[a], s[1], s[2], today)
    <3> HIDE DEF M
    <3> DEFINE x == [d \in Days |-> IF d # today /\ SamePeriod(s[1], d, today)
                                    THEN led.row[a][d].total[<<"daily", s[2]>>] ELSE 0]
               y == [d \in Days |-> IF d # today /\ SamePeriod(s[1], d, today)
                                    THEN M.row[a][d].total[<<"daily", s[2]>>] ELSE 0]
    <3>1. \A k \in Days : x[k] = y[k]
      BY <1>2
    <3>2. NumDays \in Nat /\ Days = 1..NumDays
      BY ConstantsAssumption DEF Days
    <3>3. /\ Prior(led.row[a], s[1], s[2], today) = SumTo(x, NumDays)
          /\ Prior(M.row[a], s[1], s[2], today) = SumTo(y, NumDays)
      BY DEF Prior
    <3> HIDE DEF x, y
    <3> QED
      BY <3>1, <3>2, <3>3, SumToAgree
  <2>6. /\ Prior(led.row[a], s[1], s[2], today) \in Int
        /\ led.row[a][today].total[<<"daily", s[2]>>] \in Int /\ delta[s[2]] \in Int
    <3>1. <<"daily", s[2]>> \in Slots
      BY <2>0 DEF Slots, Periods
    <3>2. led.row[a][today].total[<<"daily", s[2]>>] \in Int
      BY <2>1, <3>1 DEF Row
    <3> QED
      BY <2>0, <2>1, <3>2, PriorType DEF DeltaSet
  <2> HIDE DEF M, up
  <2> QED
    BY <2>2, <2>3, <2>4, <2>5, <2>6
<1>4. \A a \in Accounts : InChain(a, acct) => Cumulative(M, a)
  <2> HIDE DEF M
  <2> QED
    BY <1>3 DEF Cumulative
<1> HIDE DEF M
<1> QED
  BY <1>1, <1>2, <1>4

(* TotalsMatchEntries in terms of SumIn.                                   *)
TotalsAre(led, es) ==
  \A a \in Accounts, d \in Days, s \in Slots :
    (\E i \in 1..Len(es) : Live(es[i]) /\ es[i].day = d /\ InChain(a, es[i].account))
    => led.row[a][d].total[s] = SumIn(es, a, UpTo(s[1], d), s[2])

(* An entry of a sequence of entries has a day of the calendar.            *)
LEMMA EntryDay ==
  ASSUME NEW es \in Seq(Entry), NEW i \in 1..Len(es)
  PROVE  es[i].day \in Days
<1>1. es[i] \in Entry
  OBVIOUS
<1> QED
  BY <1>1 DEF Entry

(* Every day is in its own period.                                         *)
LEMMA SameDay == ASSUME NEW p \in Periods, NEW t PROVE SamePeriod(p, t, t)
BY DEF SamePeriod, Periods

(* A posted or voided pair keeps the prior sums and the totals right.      *)
LEMMA CreateEntriesTotals ==
  ASSUME TypeOK, NEW debtor \in Accounts, NEW creditor \in Accounts,
         NEW amount \in Nat, NEW l1 \in LimitSet, NEW l2 \in LimitSet,
         CreateEntries(debtor, creditor, amount, l1, l2),
         DailyIsEntries(ledger', entries'), PriorIsEntries(ledger, entries),
         NotAhead, TotalsAre(ledger, entries)
  PROVE  PriorIsEntries(ledger', entries') /\ NotAhead' /\ TotalsAre(ledger', entries')
<1> DEFINE v1 == Verdict(ledger, debtor, Delta("debit", amount), l1)
           mid == Propagate(ledger, debtor, Delta("debit", amount), l1)
           v2 == Verdict(mid, creditor, Delta("credit", amount), l2)
           end == Propagate(mid, creditor, Delta("credit", amount), l2)
           both == v1.code = "POSTED" /\ v2.code = "POSTED"
           rejection == IF v1.code # "POSTED" THEN v1 ELSE v2
           status == IF both THEN "posted" ELSE "voided"
           e1 == NewEntry(debtor, "debit", amount, status, l1, rejection)
           e2 == NewEntry(creditor, "credit", amount, status, l2, rejection)
<1>0. /\ Delta("debit", amount) \in DeltaSet /\ Delta("credit", amount) \in DeltaSet
      /\ "debit" \in Directions /\ "credit" \in Directions
      /\ ledger \in LedgerSet /\ today \in Days /\ control \in [Accounts -> ControlSet]
      /\ entries \in Seq(Entry)
  BY DeltaType DEF Directions, TypeOK
<1>1. mid \in LedgerSet
  BY <1>0, PropagateEffect
<1>2. e1 \in Entry /\ e2 \in Entry /\ e1.day = today /\ e2.day = today
  <2>1. v1.code \in Codes /\ v1.node \in Accounts \cup {Null}
    BY VerdictEffect
  <2>2. v2.code \in Codes /\ v2.node \in Accounts \cup {Null}
    BY VerdictEffect
  <2> HIDE DEF v1, v2
  <2> QED
    BY <1>0, <2>1, <2>2 DEF NewEntry, Entry, Statuses
<1>3. /\ ledger' = (IF both THEN end ELSE ledger) /\ today' = today
      /\ entries' = Append(Append(entries, e1), e2)
  BY DEF CreateEntries
<1>4. both => /\ LegAdded(ledger, mid, debtor, "debit", amount)
              /\ LegAdded(mid, end, creditor, "credit", amount)
              /\ end \in LedgerSet
  <2>1. both => LegAdded(ledger, mid, debtor, "debit", amount)
    BY <1>0, PostedLegRows
  <2> HIDE DEF mid
  <2>2. both => LegAdded(mid, end, creditor, "credit", amount)
    BY <1>0, <1>1, PostedLegRows
  <2>3. end \in LedgerSet
    BY <1>0, <1>1, PropagateEffect
  <2> QED
    BY <2>1, <2>2, <2>3
(* What the new entries add, and to which accounts.                        *)
<1>5. ASSUME NEW a \in Accounts, NEW D, NEW dir \in Directions
      PROVE  /\ ~ both => PartIn(e1, a, D, dir) = 0 /\ PartIn(e2, a, D, dir) = 0
             /\ today \notin D => PartIn(e1, a, D, dir) = 0 /\ PartIn(e2, a, D, dir) = 0
             /\ ~ InChain(a, debtor) => PartIn(e1, a, D, dir) = 0
             /\ ~ InChain(a, creditor) => PartIn(e2, a, D, dir) = 0
             /\ both /\ today \in D =>
                  /\ PartIn(e1, a, D, dir) = LegPart(debtor, "debit", amount, a, today, dir)
                  /\ PartIn(e2, a, D, dir) = LegPart(creditor, "credit", amount, a, today, dir)
             /\ Live(e1) \/ Live(e2) => both
             /\ e1.account = debtor /\ e2.account = creditor
  <2>1. both => status = "posted"
    OBVIOUS
  <2>2. ~ both => status = "voided"
    OBVIOUS
  <2> HIDE DEF status, both, rejection
  <2> QED
    BY <2>1, <2>2 DEF PartIn, LegPart, Share, Live, NewEntry
(* Which rows changed.                                                     *)
<1>6. ASSUME NEW a \in Accounts
      PROVE  /\ \A d \in Days \ {today} : ledger'.row[a][d] = ledger.row[a][d]
             /\ both /\ (InChain(a, debtor) \/ InChain(a, creditor)) => Cumulative(end, a)
             /\ ~ (both /\ (InChain(a, debtor) \/ InChain(a, creditor)))
                  => ledger'.row[a] = ledger.row[a]
  <2>1. both => /\ InChain(a, debtor) => Cumulative(mid, a)
                /\ ~ InChain(a, debtor) => mid.row[a] = ledger.row[a]
                /\ \A d \in Days \ {today} : mid.row[a][d] = ledger.row[a][d]
    BY <1>0, LegCumulative
  <2>2. both => /\ InChain(a, creditor) => Cumulative(end, a)
                /\ ~ InChain(a, creditor) => end.row[a] = mid.row[a]
                /\ \A d \in Days \ {today} : end.row[a][d] = mid.row[a][d]
    <3> HIDE DEF mid
    <3> QED
      BY <1>0, <1>1, LegCumulative
  <2> HIDE DEF mid, end, both
  <2>3. Cumulative(mid, a) /\ end.row[a] = mid.row[a] => Cumulative(end, a)
    BY DEF Cumulative
  <2> QED
    BY <1>3, <2>1, <2>2, <2>3
<1> HIDE DEF both, end, mid, e1, e2
<1>7. ASSUME NEW a, NEW D, NEW dir
      PROVE  SumIn(entries', a, D, dir)
               = SumIn(entries, a, D, dir) + PartIn(e1, a, D, dir) + PartIn(e2, a, D, dir)
  BY <1>0, <1>2, <1>3, SumInOfPair
<1>8. /\ Len(entries') = Len(entries) + 2
      /\ \A i \in 1..Len(entries) : entries'[i] = entries[i]
      /\ entries'[Len(entries) + 1] = e1 /\ entries'[Len(entries) + 2] = e2
      /\ entries' \in Seq(Entry)
  BY <1>0, <1>2, <1>3
<1>9. ASSUME NEW i \in 1..Len(entries')
      PROVE  i \in 1..Len(entries) \/ i = Len(entries) + 1 \/ i = Len(entries) + 2
  BY <1>0, <1>8
<1>10. today \in Nat /\ Days \subseteq Nat
  BY <1>0, ConstantsAssumption DEF Days
<1>11. \A i \in 1..Len(entries') : entries'[i].day \in Days /\ entries'[i].day <= today
  <2>1. \A i \in 1..Len(entries') : entries'[i].day \in Days
    BY <1>8, EntryDay
  <2>2. ASSUME NEW i \in 1..Len(entries') PROVE entries'[i].day <= today
    <3>1. CASE i \in 1..Len(entries)
      BY <3>1, <1>8 DEF NotAhead
    <3>2. CASE i = Len(entries) + 1 \/ i = Len(entries) + 2
      BY <3>2, <1>2, <1>8, <1>10
    <3> QED
      BY <3>1, <3>2, <1>9
  <2> QED
    BY <2>1, <2>2
<1>12. NotAhead'
  BY <1>3, <1>11 DEF NotAhead
<1>13. PriorIsEntries(ledger', entries')
  <2> SUFFICES ASSUME NEW a \in Accounts, NEW t \in Days, NEW p \in Periods,
                      NEW dir \in Directions
               PROVE  Prior(ledger'.row[a], p, dir, t)
                        = SumIn(entries', a, OtherDays(p, t), dir)
    BY DEF PriorIsEntries
  <2>1. Prior(ledger.row[a], p, dir, t) = SumIn(entries, a, OtherDays(p, t), dir)
    BY DEF PriorIsEntries
  <2>2. SumIn(entries, a, OtherDays(p, t), dir) \in Int
    BY <1>0, SumInType
  <2>3. CASE ~ both
    BY <2>1, <2>2, <2>3, <1>3, <1>5, <1>7
  <2>4. CASE both
    <3>1. Prior(mid.row[a], p, dir, t) = Prior(ledger.row[a], p, dir, t)
            + (IF today \in OtherDays(p, t)
               THEN LegPart(debtor, "debit", amount, a, today, dir) ELSE 0)
      BY <2>4, <1>0, <1>1, <1>4, PriorAfterLeg
    <3>2. Prior(end.row[a], p, dir, t) = Prior(mid.row[a], p, dir, t)
            + (IF today \in OtherDays(p, t)
               THEN LegPart(creditor, "credit", amount, a, today, dir) ELSE 0)
      BY <2>4, <1>0, <1>1, <1>4, PriorAfterLeg
    <3>3. PartIn(e1, a, OtherDays(p, t), dir) =
            IF today \in OtherDays(p, t)
            THEN LegPart(debtor, "debit", amount, a, today, dir) ELSE 0
      BY <2>4, <1>5
    <3>4. PartIn(e2, a, OtherDays(p, t), dir) =
            IF today \in OtherDays(p, t)
            THEN LegPart(creditor, "credit", amount, a, today, dir) ELSE 0
      BY <2>4, <1>5
    <3>5. ledger' = end
      BY <2>4, <1>3
    <3> QED
      BY <3>1, <3>2, <3>3, <3>4, <3>5, <2>1, <1>7
  <2> QED
    BY <2>3, <2>4
<1>14. TotalsAre(ledger', entries')
  <2> SUFFICES ASSUME NEW a \in Accounts, NEW d \in Days, NEW s \in Slots,
                      NEW i \in 1..Len(entries'), Live(entries'[i]),
                      entries'[i].day = d, InChain(a, entries'[i].account)
               PROVE  ledger'.row[a][d].total[s] = SumIn(entries', a, UpTo(s[1], d), s[2])
    BY DEF TotalsAre
  <2>0. s[1] \in Periods /\ s[2] \in Directions
    BY DEF Slots
  <2>a. SumIn(entries, a, UpTo(s[1], d), s[2]) \in Int
    BY <1>0, SumInType
(* An earlier entry of the same day is there and the pair adds nothing.    *)
  <2>b. ASSUME i \in 1..Len(entries), ledger'.row[a][d] = ledger.row[a][d],
               PartIn(e1, a, UpTo(s[1], d), s[2]) = 0, PartIn(e2, a, UpTo(s[1], d), s[2]) = 0
        PROVE  ledger'.row[a][d].total[s] = SumIn(entries', a, UpTo(s[1], d), s[2])
    <3>1. ledger.row[a][d].total[s] = SumIn(entries, a, UpTo(s[1], d), s[2])
      BY <2>b, <1>8 DEF TotalsAre
    <3> QED
      BY <3>1, <2>a, <2>b, <1>7
  <2>1. CASE d # today
    <3>1. i \in 1..Len(entries)
      BY <2>1, <1>2, <1>8, <1>9
    <3>2. d < today
      BY <2>1, <1>10, <1>11
    <3>3. today \notin UpTo(s[1], d)
      BY <3>2, <1>10 DEF UpTo
    <3> QED
      BY <3>1, <3>3, <2>0, <2>1, <2>b, <1>5, <1>6
  <2>2. CASE d = today /\ both /\ (InChain(a, debtor) \/ InChain(a, creditor))
    <3>1. Cumulative(end, a) /\ ledger' = end
      BY <2>2, <1>3, <1>6
    <3>2. ledger'.row[a][d].total[s] = Prior(ledger'.row[a], s[1], s[2], d)
                                       + ledger'.row[a][d].total[<<"daily", s[2]>>]
      BY <3>1, <2>2 DEF Cumulative
    <3>3. Prior(ledger'.row[a], s[1], s[2], d) = SumIn(entries', a, OtherDays(s[1], d), s[2])
      BY <2>0, <1>13 DEF PriorIsEntries
    <3>4. ledger'.row[a][d].total[<<"daily", s[2]>>] = SumIn(entries', a, {d}, s[2])
      BY <2>0, <1>8, DayIsSumIn DEF DailyIsEntries
    <3>5. ASSUME NEW j \in 1..Len(entries')
          PROVE  /\ entries'[j].day \in UpTo(s[1], d)
                      <=> entries'[j].day \in OtherDays(s[1], d) \cup {d}
                 /\ entries'[j].day \notin OtherDays(s[1], d) \cap {d}
      BY <2>0, <2>2, <1>10, <1>11, SameDay DEF UpTo, OtherDays
    <3>6. SumIn(entries', a, UpTo(s[1], d), s[2])
            = SumIn(entries', a, OtherDays(s[1], d), s[2]) + SumIn(entries', a, {d}, s[2])
      BY <3>5, <1>8, SumInSplit
    <3> QED
      BY <3>2, <3>3, <3>4, <3>6
  <2>3. CASE d = today /\ ~ (both /\ (InChain(a, debtor) \/ InChain(a, creditor)))
    <3>1. i \in 1..Len(entries)
      <4>1. /\ Live(e1) \/ Live(e2) => both
            /\ e1.account = debtor /\ e2.account = creditor
        BY <2>0, <1>5
      <4>2. i # Len(entries) + 1
        BY <4>1, <2>3, <1>8
      <4>3. i # Len(entries) + 2
        BY <4>1, <2>3, <1>8
      <4> QED
        BY <4>2, <4>3, <1>9
    <3> QED
      BY <3>1, <2>0, <2>3, <2>b, <1>5, <1>6
  <2> QED
    BY <2>1, <2>2, <2>3
<1> QED
  BY <1>12, <1>13, <1>14

(* What the trigger accumulates: its prior sums are sums of entries, and   *)
(* every total of a row with standing entries counts the entries of its    *)
(* period up to its day.                                                   *)
TotalsInv ==
  /\ RowsWithinLimits /\ DailyIsEntries(ledger, entries)
  /\ PriorIsEntries(ledger, entries) /\ NotAhead /\ TotalsAre(ledger, entries)

(* The weekly, monthly and yearly columns, which the trigger computes from *)
(* the daily columns of other rows, hold what the standing entries of the  *)
(* period add up to, on every account and for every calendar.              *)
THEOREM TotalsAreEntries == Spec => []TotalsMatchEntries
<1>1. Init => TotalsInv
  <2> SUFFICES ASSUME Init PROVE TotalsInv
    OBVIOUS
  <2>1. RowsWithinLimits /\ DailyIsEntries(ledger, entries)
    BY LimitsInit
  <2>2. entries = <<>> /\ Len(entries) = 0
    <3>1. entries = <<>>
      BY DEF Init
    <3> QED
      BY <3>1
  <2>3. NotAhead /\ TotalsAre(ledger, entries)
    BY <2>2 DEF NotAhead, TotalsAre
  <2>4. ASSUME NEW a \in Accounts, NEW t \in Days, NEW p \in Periods, NEW dir \in Directions
        PROVE  Prior(ledger.row[a], p, dir, t) = SumIn(entries, a, OtherDays(p, t), dir)
    <3> DEFINE x == [d \in Days |-> IF d # t /\ SamePeriod(p, d, t)
                                    THEN ledger.row[a][d].total[<<"daily", dir>>] ELSE 0]
    <3>1. <<"daily", dir>> \in Slots
      BY DEF Slots, Periods
    <3>2. \A d \in Days : ledger.row[a][d].total[<<"daily", dir>>] = 0
      BY <3>1 DEF Init, EmptyRow
    <3>3. NumDays \in Nat /\ Days = 1..NumDays
      BY ConstantsAssumption DEF Days
    <3>4. \A k \in 1..NumDays : x[k] = 0
      BY <3>2, <3>3
    <3>5. Prior(ledger.row[a], p, dir, t) = SumTo(x, NumDays)
      BY DEF Prior
    <3> HIDE DEF x
    <3>6. Prior(ledger.row[a], p, dir, t) = 0
      BY <3>3, <3>4, <3>5, SumToZeros
    <3> QED
      BY <3>6, <2>2, SumToZero DEF SumIn
  <2> QED
    BY <2>1, <2>3, <2>4 DEF TotalsInv, PriorIsEntries
<1>2. TypeOK /\ TotalsInv /\ [Next]_vars => TotalsInv'
  <2> SUFFICES ASSUME TypeOK, TotalsInv, [Next]_vars PROVE TotalsInv'
    OBVIOUS
  <2>1. CASE Post
    <3>1. PICK t \in Transfers, amount \in Amounts, l1 \in EntryLimits, l2 \in EntryLimits :
            CreateEntries(t[1], t[2], amount, l1, l2)
      BY <2>1 DEF Post
    <3>2. t[1] \in Accounts /\ t[2] \in Accounts /\ amount \in Nat
          /\ l1 \in LimitSet /\ l2 \in LimitSet
      BY PostInputs
    <3>3. RowsWithinLimits' /\ DailyIsEntries(ledger', entries')
      BY <3>1, <3>2, CreateEntriesLimits DEF TotalsInv
    <3>4. PriorIsEntries(ledger', entries') /\ NotAhead' /\ TotalsAre(ledger', entries')
      BY <3>1, <3>2, <3>3, CreateEntriesTotals DEF TotalsInv
    <3> QED
      BY <3>3, <3>4 DEF TotalsInv, DailyIsEntries, DayShare, Share, Live, PriorIsEntries,
                        TotalsAre, SumIn, ShareIn
  <2>2. CASE Onboard \/ NextDay \/ UNCHANGED vars
    <3>1. ledger' = ledger /\ entries' = entries
          /\ (today' = today \/ today' = today + 1)
      BY <2>2 DEF Onboard, ApplyControls, NextDay, vars
    <3>2. \A i \in 1..Len(entries) : entries[i].day \in Nat
      BY ConstantsAssumption, EntryDay DEF TypeOK, Days
    <3>3. today \in Nat
      BY ConstantsAssumption DEF TypeOK, Days
    <3>4. NotAhead'
      BY <3>1, <3>2, <3>3 DEF TotalsInv, NotAhead
    <3> QED
      BY <3>1, <3>4 DEF TotalsInv, RowsWithinLimits, WithinLimits, DailyIsEntries,
                        PriorIsEntries, TotalsAre
  <2> QED
    BY <2>1, <2>2 DEF Next
<1>3. TypeOK /\ TotalsInv => TotalsMatchEntries
  <2> SUFFICES ASSUME TypeOK, TotalsAre(ledger, entries),
                      NEW a \in Accounts, NEW d \in Days, NEW s \in Slots,
                      \E i \in 1..Len(entries) :
                        /\ Live(entries[i]) /\ entries[i].day = d
                        /\ InChain(a, entries[i].account)
               PROVE  ledger.row[a][d].total[s] =
                        SumTo([i \in 1..Len(entries) |->
                                 IF SamePeriod(s[1], entries[i].day, d) /\ entries[i].day <= d
                                 THEN Share(entries[i], a, s[2]) ELSE 0], Len(entries))
    BY DEF TotalsInv, TotalsMatchEntries
  <2>1. ledger.row[a][d].total[s] = SumIn(entries, a, UpTo(s[1], d), s[2])
    BY DEF TotalsAre
  <2>2. entries \in Seq(Entry)
    BY DEF TypeOK
  <2> DEFINE y == [i \in 1..Len(entries) |->
                     IF SamePeriod(s[1], entries[i].day, d) /\ entries[i].day <= d
                     THEN Share(entries[i], a, s[2]) ELSE 0]
  <2>3. \A i \in 1..Len(entries) : entries[i].day \in Days
    BY <2>2, EntryDay
  <2>4. ShareIn(entries, a, UpTo(s[1], d), s[2]) = y
    BY <2>3 DEF ShareIn, UpTo
  <2> HIDE DEF y
  <2>5. SumIn(entries, a, UpTo(s[1], d), s[2]) = SumTo(y, Len(entries))
    BY <2>4 DEF SumIn
  <2>6. ledger.row[a][d].total[s] = SumTo(y, Len(entries))
    BY <2>1, <2>5
  <2> QED
    BY <2>6 DEF y
<1> QED
  BY <1>1, <1>2, <1>3, TypeCorrect, PTL DEF Spec
-----------------------------------------------------------------------------
(***************************************************************************)
(* Double entry.  A leg moves one leaf, because no leaf is above another,  *)
(* and a pair moves its two leaves by opposite amounts or not at all.      *)
(***************************************************************************)

(* What one leg does to the sum over the leaves.                           *)
LEMMA LegMovesItsLeaf ==
  ASSUME NEW f \in [Accounts -> Int], NEW g \in [Accounts -> Int], NEW leaf \in Leaves,
         NEW v \in Int,
         \A a \in Accounts : g[a] = f[a] + (IF InChain(a, leaf) THEN v ELSE 0)
  PROVE  SumOver(g, Leaves) = SumOver(f, Leaves) + v
<1>1. /\ Leaves \subseteq Accounts /\ IsFiniteSet(Leaves)
      /\ Chain[leaf] # <<>> /\ Chain[leaf][1] = leaf /\ Chain[leaf] \in Seq(Accounts)
      /\ \A a \in Leaves : InChain(a, leaf) => a = leaf
  BY ConstantsAssumption DEF InChain
<1>2. InChain(leaf, leaf)
  BY <1>1 DEF InChain
<1>3. \A a \in Leaves : a # leaf => f[a] = g[a]
  BY <1>1
<1>4. g[leaf] = f[leaf] + v /\ f[leaf] \in Int /\ \A a \in Leaves : f[a] \in Int /\ g[a] \in Int
  BY <1>1, <1>2
<1>5. SumOver(g, Leaves) = SumOver(f, Leaves) + g[leaf] - f[leaf]
  <2>1. IsFiniteSet(Leaves)
    BY <1>1
  <2>2. \A a \in Leaves : f[a] \in Int /\ g[a] \in Int
    BY <1>4
  <2>3. \A x \in Leaves : (\A a \in Leaves : a # x => f[a] = g[a])
                           => SumOver(g, Leaves) = SumOver(f, Leaves) + g[x] - f[x]
    BY <2>1, <2>2, SumOverUpdate
  <2> QED
    BY <1>3, <2>3
<1>6. SumOver(f, Leaves) \in Int
  BY <1>1, <1>4, SumOverInt
<1> QED
  BY <1>4, <1>5, <1>6

(* Whatever is posted, rejected or voided on the way in, the leaves of all *)
(* chains sum to zero: create_entries moves two of them by opposite        *)
(* amounts or rolls both legs back.                                        *)
THEOREM BooksBalance == Spec => []DoubleEntry
<1>1. Init => DoubleEntry
  <2>1. Init => \A a \in Leaves : ledger.balance[a] = 0
    BY ConstantsAssumption DEF Init
  <2> QED
    BY <2>1, ConstantsAssumption, SumOverZeros DEF DoubleEntry
<1>2. TypeOK /\ DoubleEntry /\ [Next]_vars => DoubleEntry'
  <2> SUFFICES ASSUME TypeOK, DoubleEntry, [Next]_vars PROVE DoubleEntry'
    OBVIOUS
  <2>1. CASE Post
    <3>1. PICK t \in Transfers, amount \in Amounts, l1 \in EntryLimits, l2 \in EntryLimits :
            CreateEntries(t[1], t[2], amount, l1, l2)
      BY <2>1 DEF Post
    <3>2. /\ t[1] \in Accounts /\ t[2] \in Accounts /\ amount \in Nat
          /\ l1 \in LimitSet /\ l2 \in LimitSet
      BY PostInputs
    <3>3. t[1] \in Leaves /\ t[2] \in Leaves
      BY ConstantsAssumption
    <3> DEFINE v1 == Verdict(ledger, t[1], Delta("debit", amount), l1)
               mid == Propagate(ledger, t[1], Delta("debit", amount), l1)
               v2 == Verdict(mid, t[2], Delta("credit", amount), l2)
               end == Propagate(mid, t[2], Delta("credit", amount), l2)
               both == v1.code = "POSTED" /\ v2.code = "POSTED"
    <3>4. ledger' = IF both THEN end ELSE ledger
      BY <3>1 DEF CreateEntries
    <3>5. /\ Delta("debit", amount) \in DeltaSet /\ Delta("credit", amount) \in DeltaSet
          /\ "debit" \in Directions /\ "credit" \in Directions
          /\ ledger \in LedgerSet /\ today \in Days /\ control \in [Accounts -> ControlSet]
      BY <3>2, DeltaType DEF Directions, TypeOK
    <3>6. mid \in LedgerSet
      BY <3>2, <3>5, PropagateEffect
    <3>7. CASE ~ both
      BY <3>4, <3>7 DEF DoubleEntry
    <3>8. CASE both
      <4>1. \A a \in Accounts :
              mid.balance[a] = ledger.balance[a] + (IF InChain(a, t[1]) THEN -amount ELSE 0)
        BY <3>2, <3>5, <3>8, PostedLegBalance
      <4> HIDE DEF mid
      <4>2. \A a \in Accounts :
              end.balance[a] = mid.balance[a] + (IF InChain(a, t[2]) THEN amount ELSE 0)
        BY <3>2, <3>5, <3>6, <3>8, PostedLegBalance
      <4>3. end \in LedgerSet
        BY <3>2, <3>5, <3>6, PropagateEffect
      <4> HIDE DEF end, both
      <4>4. /\ ledger.balance \in [Accounts -> Int] /\ mid.balance \in [Accounts -> Int]
            /\ end.balance \in [Accounts -> Int] /\ amount \in Int /\ -amount \in Int
        BY <3>2, <3>5, <3>6, <4>3 DEF LedgerSet
      <4>5. SumOver(mid.balance, Leaves) = SumOver(ledger.balance, Leaves) + (-amount)
        BY <3>3, <4>1, <4>4, LegMovesItsLeaf
      <4>6. SumOver(end.balance, Leaves) = SumOver(mid.balance, Leaves) + amount
        BY <3>3, <4>2, <4>4, LegMovesItsLeaf
      <4>7. SumOver(ledger.balance, Leaves) = 0 /\ ledger' = end
        BY <3>4, <3>8 DEF DoubleEntry
      <4>8. SumOver(end.balance, Leaves) = 0
        BY <4>4, <4>5, <4>6, <4>7
      <4> QED
        BY <4>7, <4>8 DEF DoubleEntry
    <3> QED
      BY <3>7, <3>8
  <2>2. CASE Onboard \/ NextDay \/ UNCHANGED vars
    <3>1. ledger' = ledger
      BY <2>2 DEF Onboard, ApplyControls, NextDay, vars
    <3> QED
      BY <3>1 DEF DoubleEntry
  <2> QED
    BY <2>1, <2>2 DEF Next
<1> QED
  BY <1>1, <1>2, TypeCorrect, PTL DEF Spec

-----------------------------------------------------------------------------
(* The endpoints.  The ledger stays reconciled, and blocked accounts stay  *)
(* put, whatever sequence of transactions and endpoint calls the ledger    *)
(* goes through.                                                           *)


(* A step that keeps the books: the stores stay reconciled and no blocked  *)
(* account moves.                                                          *)
KeepsBooks ==
  /\ BalanceMatchesRows => BalanceMatchesRows'
  /\ \A a \in Accounts : control[a].is_blocked =>
       /\ ledger'.balance[a] = ledger.balance[a]
       /\ ledger'.row[a] = ledger.row[a]

(* One run of the trigger keeps the books.                                 *)
LEMMA TriggerKeepsBooks ==
  ASSUME TypeOK, NEW acct \in Accounts, NEW delta \in DeltaSet, NEW limits \in LimitSet,
         ledger' = Propagate(ledger, acct, delta, limits)
  PROVE  ledger' \in LedgerSet /\ KeepsBooks
<1> DEFINE P == Propagate(ledger, acct, delta, limits)
<1>1. ledger \in LedgerSet /\ today \in Days /\ control \in [Accounts -> ControlSet]
  BY DEF TypeOK
<1>2. P \in LedgerSet
  BY <1>1, PropagateEffect
<1>3. \A a \in Accounts : control[a].is_blocked =>
        P.balance[a] = ledger.balance[a] /\ P.row[a] = ledger.row[a]
  BY <1>1, PropagateEffect
<1>4. (\A a \in Accounts : ledger.balance[a] = SumTo(DailyNet(ledger, a), NumDays))
      => \A a \in Accounts : P.balance[a] = SumTo(DailyNet(P, a), NumDays)
  BY <1>1, PropagateEffect
<1> HIDE DEF P
<1>6. ledger' = P
  BY DEF P
<1>7. BalanceMatchesRows => BalanceMatchesRows'
  BY <1>4, <1>6 DEF BalanceMatchesRows, DailyNet
<1> QED BY <1>2, <1>3, <1>6, <1>7 DEF KeepsBooks

(* A step that leaves the ledger alone keeps the books.                    *)
LEMMA UntouchedKeepsBooks ==
  ASSUME ledger' = ledger
  PROVE  KeepsBooks
BY DEF KeepsBooks, BalanceMatchesRows, DailyNet

(* A delta of either sign.                                                 *)
LEMMA SignedDelta ==
  ASSUME NEW dir \in Directions, NEW n \in Int
  PROVE  Delta(dir, n) \in DeltaSet
BY DEF Delta, DeltaSet

(* create_ledger_entry.                                                    *)
LEMMA InsertStep ==
  ASSUME TypeOK, InsertOne
  PROVE  TypeOK' /\ KeepsBooks
<1>1. PICK acct \in Accounts, dir \in Directions, amount \in Amounts,
           status \in InsertStatuses, l \in EntryLimits :
        CreateLedgerEntry(acct, dir, amount, status, l)
  BY DEF InsertOne
<1>2. amount \in Nat /\ amount \in Int /\ l \in LimitSet /\ status \in Statuses
  BY ConstantsAssumption, MaintenanceAssumption
<1> DEFINE v == IF status = "voided"
                THEN [code |-> "POSTED", node |-> Null]
                ELSE Verdict(ledger, acct, Delta(dir, amount), l)
           st == IF v.code = "POSTED" THEN status ELSE "voided"
           e == NewEntry(acct, dir, amount, st, l, v)
<1>3. v.code \in Codes /\ v.node \in Accounts \cup {Null}
  <2>1. /\ Verdict(ledger, acct, Delta(dir, amount), l).code \in Codes
        /\ Verdict(ledger, acct, Delta(dir, amount), l).node \in Accounts \cup {Null}
    BY VerdictEffect
  <2> QED BY <2>1 DEF Codes
<1>4. /\ ledger' = IF status = "voided" THEN ledger
                   ELSE Propagate(ledger, acct, Delta(dir, amount), l)
      /\ entries' = Append(entries, e) /\ today' = today /\ control' = control
  BY <1>1 DEF CreateLedgerEntry
<1>5. e \in Entry
  <2>1. st \in Statuses
    BY <1>2 DEF Statuses
  <2> HIDE DEF v, st
  <2> QED BY <1>2, <1>3, <2>1 DEF NewEntry, Entry, TypeOK
<1>6. entries' \in Seq(Entry)
  <2> HIDE DEF e
  <2> QED BY <1>4, <1>5 DEF TypeOK
<1>7. ledger' \in LedgerSet /\ KeepsBooks
  <2>1. CASE status = "voided"
    <3>1. ledger' = ledger
      BY <1>4, <2>1
    <3> QED BY <3>1, UntouchedKeepsBooks DEF TypeOK
  <2>2. CASE status # "voided"
    <3>1. ledger' = Propagate(ledger, acct, Delta(dir, amount), l)
      BY <1>4, <2>2
    <3>2. Delta(dir, amount) \in DeltaSet
      BY <1>2, SignedDelta
    <3> QED BY <1>2, <3>1, <3>2, TriggerKeepsBooks
  <2> QED BY <2>1, <2>2
<1> QED BY <1>4, <1>6, <1>7 DEF TypeOK

(* update_ledger_entry.                                                    *)
LEMMA ReplaceStep ==
  ASSUME TypeOK, Replace
  PROVE  TypeOK' /\ KeepsBooks
<1>1. PICK i \in 1..Len(entries), status \in UpdateStatuses,
           amount \in UpdateAmounts, acct \in Accounts, dir \in Directions,
           l \in EntryLimits :
        UpdateLedgerEntry(i, acct, dir, amount, status, l)
  BY DEF Replace
<1> DEFINE old == entries[i]
           voids == status = "voided" /\ old.status # "voided"
           delta == Delta(old.type, -old.amount)
           v == Verdict(ledger, acct, delta, old.limits)
           new == Replaced(old, acct, dir, amount, status, l)
           rej == [new EXCEPT !.code = v.code, !.node = v.node]
           e == IF voids /\ v.code # "POSTED" THEN rej ELSE new
<1>2. amount \in Nat /\ status \in Statuses /\ l \in LimitSet
  BY ConstantsAssumption, MaintenanceAssumption
<1>3. old \in Entry
  BY DEF TypeOK
<1>4. /\ ledger' = IF voids THEN Propagate(ledger, acct, delta, old.limits) ELSE ledger
      /\ entries' = [entries EXCEPT ![i] = e] /\ today' = today /\ control' = control
  BY <1>1 DEF UpdateLedgerEntry
<1>5. v.code \in Codes /\ v.node \in Accounts \cup {Null}
  BY VerdictEffect
<1>6. delta \in DeltaSet /\ old.limits \in LimitSet
  <2>1. old.type \in Directions /\ -old.amount \in Int /\ old.limits \in LimitSet
    <3> HIDE DEF old
    <3> QED BY <1>3 DEF Entry
  <2> QED BY <2>1, SignedDelta
<1>7. e \in Entry
  <2> HIDE DEF old, v, voids
  <2> QED BY <1>2, <1>3, <1>5 DEF Entry, Replaced
<1>8. entries' \in Seq(Entry)
  <2> HIDE DEF e
  <2> QED BY <1>4, <1>7 DEF TypeOK
<1>9. ledger' \in LedgerSet /\ KeepsBooks
  <2> HIDE DEF old, delta, voids, e
  <2>1. CASE voids
    <3>1. ledger' = Propagate(ledger, acct, delta, old.limits)
      BY <1>4, <2>1
    <3> QED BY <1>6, <3>1, TriggerKeepsBooks
  <2>2. CASE ~ voids
    <3>1. ledger' = ledger
      BY <1>4, <2>2
    <3> QED BY <3>1, UntouchedKeepsBooks DEF TypeOK
  <2> QED BY <2>1, <2>2
<1> QED BY <1>4, <1>8, <1>9 DEF TypeOK

(* delete_ledger_entry.                                                    *)
LEMMA RemoveStep ==
  ASSUME TypeOK, Remove
  PROVE  TypeOK' /\ KeepsBooks
<1>1. PICK i \in 1..Len(entries) : DeleteLedgerEntry(i)
  BY DEF Remove
<1>2. /\ entries' = SubSeq(entries, 1, i - 1) \o SubSeq(entries, i + 1, Len(entries))
      /\ ledger' = ledger /\ today' = today /\ control' = control
  BY <1>1 DEF DeleteLedgerEntry
<1>3. SubSeq(entries, 1, i - 1) \in Seq(Entry)
  BY DEF TypeOK
<1>4. SubSeq(entries, i + 1, Len(entries)) \in Seq(Entry)
  BY DEF TypeOK
<1>5. entries' \in Seq(Entry)
  BY <1>2, <1>3, <1>4
<1> QED BY <1>2, <1>5, UntouchedKeepsBooks DEF TypeOK

(* A transaction's pair keeps the books too.                               *)
LEMMA PostKeepsBooks ==
  ASSUME TypeOK, Post
  PROVE  KeepsBooks
<1>1. PICK t \in Transfers, amount \in Amounts, l1 \in EntryLimits, l2 \in EntryLimits :
        CreateEntries(t[1], t[2], amount, l1, l2)
  BY DEF Post
<1>2. t[1] \in Accounts /\ t[2] \in Accounts /\ amount \in Nat
      /\ l1 \in LimitSet /\ l2 \in LimitSet
  BY PostInputs
<1> QED BY <1>1, <1>2, CreateEntriesEffect DEF KeepsBooks

(* Every action keeps types and books.                                     *)
LEMMA MaintenanceStep ==
  ASSUME TypeOK, [MaintenanceNext]_maintenanceVars
  PROVE  TypeOK' /\ KeepsBooks
<1>1. CASE Edit
  BY <1>1, InsertStep, ReplaceStep, RemoveStep DEF Edit
<1>2. CASE Next
  <2>1. TypeOK'
    BY <1>2, TypeStep
  <2>2. CASE Post
    BY <2>1, <2>2, PostKeepsBooks
  <2>3. CASE Onboard \/ NextDay
    <3>1. ledger' = ledger
      BY <2>3 DEF Onboard, ApplyControls, NextDay
    <3> QED BY <2>1, <3>1, UntouchedKeepsBooks
  <2> QED BY <1>2, <2>2, <2>3 DEF Next
<1>3. CASE UNCHANGED maintenanceVars
  <2>1. UNCHANGED vars
    BY <1>3 DEF maintenanceVars
  <2>2. ledger' = ledger
    BY <2>1 DEF vars
  <2> QED BY <2>1, <2>2, TypeStep, UntouchedKeepsBooks
<1> QED BY <1>1, <1>2, <1>3 DEF MaintenanceNext

(* Type correctness of the ledger under its endpoints.                     *)
THEOREM MaintenanceTypeCorrect == MaintenanceSpec => []TypeOK
<1>1. TypeOK /\ [MaintenanceNext]_maintenanceVars => TypeOK'
  BY MaintenanceStep
<1> QED BY <1>1, TypeInit, PTL DEF MaintenanceSpec

(* No sequence of transactions, voids, un-voids, deletions, replacements   *)
(* and account edits drives the balance column and the daily rows apart.   *)
THEOREM MaintenanceReconciled == MaintenanceSpec => []BalanceMatchesRows
<1>1. TypeOK /\ BalanceMatchesRows /\ [MaintenanceNext]_maintenanceVars => BalanceMatchesRows'
  BY MaintenanceStep DEF KeepsBooks
<1> QED BY <1>1, ReconciledInit, MaintenanceTypeCorrect, PTL DEF MaintenanceSpec

(* A void is no way around a block: nothing moves a blocked account.       *)
THEOREM MaintenanceBlockedStaysPut == MaintenanceSpec => BlockedNeverMoves
<1>1. TypeOK /\ [MaintenanceNext]_maintenanceVars =>
        [\A a \in Accounts : control[a].is_blocked =>
           /\ ledger'.balance[a] = ledger.balance[a]
           /\ ledger'.row[a] = ledger.row[a]]_vars
  BY MaintenanceStep DEF KeepsBooks
<1> QED BY <1>1, MaintenanceTypeCorrect, PTL DEF MaintenanceSpec, BlockedNeverMoves

(* One run of the trigger respects the hard caps.                          *)
LEMMA TriggerUnderCeilings ==
  ASSUME TypeOK, NEW acct \in Accounts, NEW delta \in DeltaSet, NEW limits \in LimitSet,
         ledger' = Propagate(ledger, acct, delta, limits)
  PROVE  UnderCeilings
<1>1. ledger \in LedgerSet /\ today \in Days /\ control \in [Accounts -> ControlSet]
  BY DEF TypeOK
<1> QED
  BY <1>1, PropagateCeiling DEF UnderCeilings

(* The hard caps bind the endpoints too: no insert, replacement or void    *)
(* writes a total past the max_* of any account of its chain.              *)
THEOREM MaintenanceCeilingsAreHard == MaintenanceSpec => HardCeiling
<1>1. TypeOK /\ [MaintenanceNext]_maintenanceVars => [UnderCeilings]_vars
  <2> SUFFICES ASSUME TypeOK, [MaintenanceNext]_maintenanceVars PROVE UnderCeilings
    OBVIOUS
  <2>1. CASE ledger' = ledger
    BY <2>1 DEF UnderCeilings
  <2>2. CASE Post
    <3>1. PICK t \in Transfers, amount \in Amounts, l1 \in EntryLimits, l2 \in EntryLimits :
            CreateEntries(t[1], t[2], amount, l1, l2)
      BY <2>2 DEF Post
    <3>2. t[1] \in Accounts /\ t[2] \in Accounts /\ amount \in Nat
          /\ l1 \in LimitSet /\ l2 \in LimitSet
      BY PostInputs
    <3> QED
      BY <3>1, <3>2, CreateEntriesCeiling
  <2>3. CASE InsertOne
    <3>1. PICK acct \in Accounts, dir \in Directions, amount \in Amounts,
               status \in InsertStatuses, l \in EntryLimits :
            CreateLedgerEntry(acct, dir, amount, status, l)
      BY <2>3 DEF InsertOne
    <3>2. Delta(dir, amount) \in DeltaSet /\ l \in LimitSet
      BY ConstantsAssumption, SignedDelta
    <3>3. ledger' = ledger \/ ledger' = Propagate(ledger, acct, Delta(dir, amount), l)
      BY <3>1 DEF CreateLedgerEntry
    <3> QED
      BY <3>2, <3>3, <2>1, TriggerUnderCeilings
  <2>4. CASE Replace
    <3>1. PICK i \in 1..Len(entries), status \in UpdateStatuses,
               amount \in UpdateAmounts, acct \in Accounts, dir \in Directions,
               l \in EntryLimits :
            UpdateLedgerEntry(i, acct, dir, amount, status, l)
      BY <2>4 DEF Replace
    <3> DEFINE old == entries[i]
               delta == Delta(old.type, -old.amount)
    <3>2. ledger' = ledger \/ ledger' = Propagate(ledger, acct, delta, old.limits)
      BY <3>1 DEF UpdateLedgerEntry
    <3>3. old \in Entry
      BY DEF TypeOK
    <3>4. delta \in DeltaSet /\ old.limits \in LimitSet
      <4>1. old.type \in Directions /\ -old.amount \in Int /\ old.limits \in LimitSet
        <5> HIDE DEF old
        <5> QED
          BY <3>3 DEF Entry
      <4> QED
        BY <4>1, SignedDelta
    <3> HIDE DEF delta, old
    <3> QED
      BY <3>2, <3>4, <2>1, TriggerUnderCeilings
  <2>5. CASE Remove \/ Onboard \/ NextDay \/ UNCHANGED maintenanceVars
    <3>1. ledger' = ledger
      BY <2>5 DEF Remove, DeleteLedgerEntry, Onboard,
                  ApplyControls, NextDay, maintenanceVars, vars
    <3> QED
      BY <3>1, <2>1
  <2> QED
    BY <2>2, <2>3, <2>4, <2>5 DEF MaintenanceNext, Edit, Next
<1> QED
  BY <1>1, MaintenanceTypeCorrect, PTL DEF MaintenanceSpec, HardCeiling, UnderCeilings

(* The entries a step adds respect a zero cap.                             *)
ZeroCapHeld ==
  \A i \in (Len(entries) + 1)..Len(entries') :
    (entries'[i].amount > 0 /\ entries'[i].limits[<<"daily", entries'[i].type>>] = 0)
    => entries'[i].status = "voided"

(* A new entry that stands despite a zero cap was not checked.             *)
LEMMA StandingWasChecked ==
  ASSUME TypeOK, NEW led \in LedgerSet, NEW acct \in Accounts, NEW dir \in Directions,
         NEW amount \in Nat, NEW l \in LimitSet, NEW status, NEW v,
         status # "voided" => Verdict(led, acct, Delta(dir, amount), l).code = "POSTED",
         NewEntry(acct, dir, amount, status, l, v).amount > 0,
         NewEntry(acct, dir, amount, status, l, v).limits[<<"daily",
           NewEntry(acct, dir, amount, status, l, v).type>>] = 0
  PROVE  NewEntry(acct, dir, amount, status, l, v).status = "voided"
<1>1. amount > 0 /\ l[<<"daily", dir>>] = 0
  BY DEF NewEntry
<1>2. Verdict(led, acct, Delta(dir, amount), l).code # "POSTED"
  BY <1>1, ZeroCapRejects DEF TypeOK
<1> QED
  BY <1>2 DEF NewEntry

(* A cap of zero, which is how the rules freeze an account for one         *)
(* transaction, voids the entry through every door, even when voids of     *)
(* older entries have made the day's total negative.                       *)
THEOREM ZeroCapIsAFreeze == MaintenanceSpec => ZeroCapFreezes
<1>1. TypeOK /\ [MaintenanceNext]_maintenanceVars => [ZeroCapHeld]_vars
  <2> SUFFICES ASSUME TypeOK, [MaintenanceNext]_maintenanceVars PROVE ZeroCapHeld
    OBVIOUS
  <2>0. entries \in Seq(Entry) /\ ledger \in LedgerSet
    BY DEF TypeOK
  <2>1. CASE Len(entries') <= Len(entries) /\ Len(entries') \in Nat
    BY <2>0, <2>1 DEF ZeroCapHeld
  <2>2. CASE Post
    <3>1. PICK t \in Transfers, amount \in Amounts, l1 \in EntryLimits, l2 \in EntryLimits :
            CreateEntries(t[1], t[2], amount, l1, l2)
      BY <2>2 DEF Post
    <3>2. t[1] \in Accounts /\ t[2] \in Accounts /\ amount \in Nat
          /\ l1 \in LimitSet /\ l2 \in LimitSet
      BY PostInputs
    <3> DEFINE v1 == Verdict(ledger, t[1], Delta("debit", amount), l1)
               mid == Propagate(ledger, t[1], Delta("debit", amount), l1)
               v2 == Verdict(mid, t[2], Delta("credit", amount), l2)
               rejection == IF v1.code # "POSTED" THEN v1 ELSE v2
               status == IF v1.code = "POSTED" /\ v2.code = "POSTED" THEN "posted" ELSE "voided"
               e1 == NewEntry(t[1], "debit", amount, status, l1, rejection)
               e2 == NewEntry(t[2], "credit", amount, status, l2, rejection)
    <3>3. entries' = Append(Append(entries, e1), e2)
      BY <3>1 DEF CreateEntries
    <3>4. mid \in LedgerSet /\ "debit" \in Directions /\ "credit" \in Directions
      <4>1. Delta("debit", amount) \in DeltaSet
        BY <3>2, DeltaType DEF Directions
      <4> QED
        BY <4>1, <3>2, PropagateEffect DEF TypeOK, Directions
    <3>5. status # "voided" => v1.code = "POSTED" /\ v2.code = "POSTED"
      OBVIOUS
    <3>6. e1.amount > 0 /\ e1.limits[<<"daily", e1.type>>] = 0 => e1.status = "voided"
      <4> HIDE DEF status, rejection, v2
      <4> QED
        BY <3>2, <3>4, <3>5, <2>0, StandingWasChecked
    <3>7. e2.amount > 0 /\ e2.limits[<<"daily", e2.type>>] = 0 => e2.status = "voided"
      <4> HIDE DEF status, rejection, v1, mid
      <4> QED
        BY <3>2, <3>4, <3>5, <2>0, StandingWasChecked
    <3> HIDE DEF e1, e2
    <3>8. Len(entries') = Len(entries) + 2
          /\ entries'[Len(entries) + 1] = e1 /\ entries'[Len(entries) + 2] = e2
      BY <3>3, <2>0
    <3>9. \A i \in (Len(entries) + 1)..Len(entries') : i = Len(entries) + 1 \/ i = Len(entries) + 2
      BY <3>8, <2>0
    <3> QED
      BY <3>6, <3>7, <3>8, <3>9 DEF ZeroCapHeld
  <2>3. CASE InsertOne
    <3>1. PICK acct \in Accounts, dir \in Directions, amount \in Amounts,
               status \in InsertStatuses, l \in EntryLimits :
            CreateLedgerEntry(acct, dir, amount, status, l)
      BY <2>3 DEF InsertOne
    <3>2. amount \in Nat /\ l \in LimitSet
      BY ConstantsAssumption
    <3> DEFINE V == Verdict(ledger, acct, Delta(dir, amount), l)
               v == IF status = "voided" THEN [code |-> "POSTED", node |-> Null] ELSE V
               st == IF v.code = "POSTED" THEN status ELSE "voided"
               e == NewEntry(acct, dir, amount, st, l, v)
    <3>3. entries' = Append(entries, e)
      BY <3>1 DEF CreateLedgerEntry
    <3>4. st # "voided" => V.code = "POSTED"
      <4> HIDE DEF V
      <4> QED
        OBVIOUS
    <3>5. e.amount > 0 /\ e.limits[<<"daily", e.type>>] = 0 => e.status = "voided"
      <4> HIDE DEF st, v
      <4> QED
        BY <3>2, <3>4, <2>0, StandingWasChecked
    <3> HIDE DEF e
    <3>6. Len(entries') = Len(entries) + 1 /\ entries'[Len(entries) + 1] = e
      BY <3>3, <2>0
    <3>7. \A i \in (Len(entries) + 1)..Len(entries') : i = Len(entries) + 1
      BY <3>6, <2>0
    <3> QED
      BY <3>5, <3>6, <3>7 DEF ZeroCapHeld
  <2>4. CASE Replace
    <3>1. PICK i \in 1..Len(entries), status \in UpdateStatuses,
                amount \in UpdateAmounts, acct \in Accounts, dir \in Directions,
                l \in EntryLimits :
            UpdateLedgerEntry(i, acct, dir, amount, status, l)
      BY <2>4 DEF Replace
    <3>2. \E e : entries' = [entries EXCEPT ![i] = e]
      BY <3>1, Zenon DEF UpdateLedgerEntry
    <3>3. Len(entries') = Len(entries) /\ Len(entries) \in Nat
      BY <3>2, <2>0
    <3> QED
      BY <3>3, <2>1
  <2>5. CASE Remove
    <3>1. PICK i \in 1..Len(entries) :
            entries' = SubSeq(entries, 1, i - 1) \o SubSeq(entries, i + 1, Len(entries))
      BY <2>5 DEF Remove, DeleteLedgerEntry
    <3> DEFINE p == SubSeq(entries, 1, i - 1)
               q == SubSeq(entries, i + 1, Len(entries))
    <3>2. p \in Seq(Entry) /\ Len(p) = i - 1
      BY <2>0
    <3>3. q \in Seq(Entry) /\ Len(q) = Len(entries) - i
      BY <2>0
    <3>4. Len(entries') = Len(entries) - 1
      <4>1. entries' = p \o q
        BY <3>1
      <4> HIDE DEF p, q
      <4>2. Len(p \o q) = Len(p) + Len(q)
        BY <3>2, <3>3, ConcatProperties
      <4> QED
        BY <4>1, <4>2, <3>2, <3>3, <2>0
    <3> QED
      BY <3>4, <2>0, <2>1
  <2>6. CASE Onboard \/ NextDay \/ UNCHANGED maintenanceVars
    <3>1. entries' = entries
      BY <2>6 DEF Onboard, ApplyControls, NextDay,
                  maintenanceVars, vars
    <3> QED
      BY <3>1, <2>0, <2>1
  <2> QED
    BY <2>2, <2>3, <2>4, <2>5, <2>6 DEF MaintenanceNext, Edit, Next
<1> QED
  BY <1>1, MaintenanceTypeCorrect, PTL DEF MaintenanceSpec, ZeroCapFreezes, ZeroCapHeld
=============================================================================

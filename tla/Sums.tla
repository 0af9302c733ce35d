-------------------------------- MODULE Sums --------------------------------
(***************************************************************************)
(* SQL's SUM over the rows 1..n of a table column, and over a finite set.  *)
(*                                                                         *)
(* The sum is a recursive function, not a RECURSIVE operator, so that the  *)
(* theorems of LedgerProofs can be stated about it.                        *)
(***************************************************************************)
EXTENDS Integers, FiniteSets

(* x[1] + ... + x[n]; 0 when n = 0, as COALESCE(SUM(...), 0).              *)
SumTo(x, n) ==
  LET s[k \in 0..n] == IF k = 0 THEN 0 ELSE s[k - 1] + x[k]
  IN  s[n]

(* The elements of a finite set in some order, each once.                  *)
Order(S) ==
  LET n == Cardinality(S)
  IN  CHOOSE e \in [1..n -> S] : /\ \A x \in S : \E i \in 1..n : e[i] = x
                                /\ \A i, j \in 1..n : e[i] = e[j] => i = j

(* f[x] summed over the elements x of S.                                   *)
SumOver(f, S) ==
  LET n == Cardinality(S) IN SumTo([i \in 1..n |-> f[Order(S)[i]]], n)
=============================================================================

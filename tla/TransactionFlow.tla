--------------------------- MODULE TransactionFlow ---------------------------
(***************************************************************************)
(* create_transaction, run by concurrent requests of one account holder:   *)
(* insert the row, read the payload, let the rule engine decide,           *)
(* post the pair of ledger entries, record the outcome on the row.  Every  *)
(* step commits on its own; between any two of them other requests, a      *)
(* screening job, a PUT, a DELETE or a crash may come.                     *)
(*                                                                         *)
(* The ledger is reduced to its answer (pair posted, voided, or an error): *)
(* LedgerPosting says when it gives which.  An amount above zero with a    *)
(* zero cap is always voided (ZeroCapFreezes of LedgerMaintenance).        *)
(***************************************************************************)
EXTENDS Integers, FiniteSets

CONSTANTS
  Requests,       \* create_transaction calls, each by a process of its own
  Bodies,         \* what the requests may send, functions to [key, status, wired]
  SubCtr,         \* requests whose amount lies in the sub-CTR band
  Creditor,       \* Creditor[r]: the party behind the creditor account
  Parties,        \* parties that are screened
  CallerStatuses, \* bound: statuses a PUT sets
  MaxEdits,       \* bound: PUTs, DELETEs and screening results
  Null            \* SQL NULL

Statuses == {"pending", "accepted", "settled", "rejected", "reversed", "cancelled"}
Steps == {"idle", "inserted", "counted", "screened", "ruled", "rejected",
          "booked", "answered", "crashed"}

ASSUME FlowAssumption ==
  /\ IsFiniteSet(Requests) /\ SubCtr \subseteq Requests
  /\ \A b \in Bodies, r \in Requests : b[r].status \in Statuses /\ b[r].wired \in BOOLEAN
  /\ Creditor \in [Requests -> Parties]
  /\ CallerStatuses \subseteq Statuses
  /\ MaxEdits \in Nat

VARIABLES
  body,     \* body[r]: the key the caller gives or Null, the status it sends
            \* ("pending" if none) and whether it names a creditor account
  row,      \* row[r]: the transactions row, [status, key], or Null
  step,     \* step[r]: how far the request has come
  debits,   \* debits[r]: recent_debits_24h of its payload
  matched,  \* matched[r]: its payload holds an open match of the creditor
  frozen,   \* frozen[r]: some rule set the caps of one of its accounts to 0
  pair,     \* pair[r]: its ledger entries
  reply,    \* reply[r]: what the caller got
  matches,  \* parties with a sanctions match that is not cleared
  asserted, \* ghost: asserted[r], the statuses PUTs changed the row to
  edits     \* to bound the behaviours

vars == <<body, row, step, debits, matched, frozen, pair, reply, matches,
          asserted, edits>>

ExternalId(r) == body[r].key
SentStatus(r) == body[r].status

(* has_payment_accounts?; every request here has a debtor account.         *)
Wired == {r \in Requests : body[r].wired}

Init ==
  /\ body \in Bodies
  /\ row = [r \in Requests |-> Null]
  /\ step = [r \in Requests |-> "idle"]
  /\ debits = [r \in Requests |-> {}]
  /\ matched = [r \in Requests |-> FALSE]
  /\ frozen = [r \in Requests |-> FALSE]
  /\ pair = [r \in Requests |-> "none"]
  /\ reply = [r \in Requests |-> "none"]
  /\ matches = {}
  /\ asserted = [r \in Requests |-> {}]
  /\ edits = 0

-----------------------------------------------------------------------------
Goto(r, s) == step' = [step EXCEPT ![r] = s]

Answer(r, what) ==
  /\ reply' = [reply EXCEPT ![r] = what]
  /\ Goto(r, "answered")

Present(r) == row[r] # Null

(* transactions_external_id_tenant_unique, sparse.                         *)
Taken(key, r) == key # Null /\ \E o \in Requests \ {r} : Present(o) /\ row[o].key = key

NewRow(r) == [status |-> SentStatus(r), key |-> ExternalId(r)]

(* Fault: the unique index is missing.                                     *)
InsertAnyway(r) ==
  /\ step[r] = "idle"
  /\ row' = [row EXCEPT ![r] = NewRow(r)]
  /\ Goto(r, "inserted")
  /\ UNCHANGED <<debits, matched, frozen, pair, reply, matches, asserted, edits>>

(* Repo.insert of the changeset.                                           *)
Insert(r) ==
  /\ step[r] = "idle"
  /\ IF Taken(ExternalId(r), r)
     THEN Answer(r, "error") /\ UNCHANGED row
     ELSE /\ row' = [row EXCEPT ![r] = NewRow(r)]
          /\ Goto(r, "inserted")
          /\ UNCHANGED reply
  /\ UNCHANGED <<debits, matched, frozen, pair, matches, asserted, edits>>

(* Fault: only finished transactions count as recent debits.               *)
CountAccepted(r) ==
  /\ step[r] = "inserted"
  /\ debits' = [debits EXCEPT ![r] =
                  {o \in Requests \ {r} : /\ Present(o)
                                          /\ row[o].status \in {"accepted", "settled"}}]
  /\ Goto(r, "counted")
  /\ UNCHANGED <<row, matched, frozen, pair, reply, matches, asserted, edits>>

(* list_recent_debits_for_account_holder, the first read of the payload.   *)
CountDebits(r) ==
  /\ step[r] = "inserted"
  /\ debits' = [debits EXCEPT ![r] =
                  {o \in Requests \ {r} : Present(o) /\ row[o].status # "rejected"}]
  /\ Goto(r, "counted")
  /\ UNCHANGED <<row, matched, frozen, pair, reply, matches, asserted, edits>>

(* build_compliance_screenings of the creditor account, the last read.     *)
ReadScreenings(r) ==
  /\ step[r] = "counted"
  /\ matched' = [matched EXCEPT ![r] = r \in Wired /\ Creditor[r] \in matches]
  /\ Goto(r, "screened")
  /\ UNCHANGED <<row, debits, frozen, pair, reply, matches, asserted, edits>>

(* The rules ctr_structuring and ofac_sdn_match.                           *)
Structuring(r) ==
  /\ r \in SubCtr
  /\ Cardinality(debits[r] \cap SubCtr) >= 2

(* Fault: a failed rule call counts as a rule without output.              *)
EvaluateFailOpen(r) ==
  /\ step[r] = "screened"
  /\ \E freeze \in {Structuring(r) \/ matched[r], FALSE} :
       /\ frozen' = [frozen EXCEPT ![r] = freeze]
       /\ IF freeze \/ r \in Wired
          THEN Goto(r, "ruled") /\ UNCHANGED reply
          ELSE Answer(r, "ok")
  /\ UNCHANGED <<row, debits, matched, pair, matches, asserted, edits>>

(* evaluate_in_parallel and fold: one failed call fails them all and the   *)
(* row stays as it is.  Without controls and without both accounts nothing *)
(* is posted.                                                              *)
Evaluate(r) ==
  /\ step[r] = "screened"
  /\ \/ /\ frozen' = [frozen EXCEPT ![r] = Structuring(r) \/ matched[r]]
        /\ IF frozen'[r] \/ r \in Wired
           THEN Goto(r, "ruled") /\ UNCHANGED reply
           ELSE Answer(r, "ok")
     \/ Answer(r, "error") /\ UNCHANGED frozen
  /\ UNCHANGED <<row, debits, matched, pair, matches, asserted, edits>>

(* create_entries, the first transaction: the pair posts, or it rolls back *)
(* with a rejection, or it fails (a missing leaf, an overflow).            *)
PostPair(r) ==
  /\ step[r] = "ruled"
  /\ \/ /\ r \in Wired /\ ~ frozen[r]
        /\ pair' = [pair EXCEPT ![r] = "posted"]
        /\ Goto(r, "booked") /\ UNCHANGED reply
     \/ r \in Wired /\ Goto(r, "rejected") /\ UNCHANGED <<pair, reply>>
     \/ Answer(r, "error") /\ UNCHANGED pair
  /\ UNCHANGED <<row, debits, matched, frozen, matches, asserted, edits>>

(* create_entries, the second transaction: both legs again, voided.        *)
RecordVoided(r) ==
  /\ step[r] = "rejected"
  /\ pair' = [pair EXCEPT ![r] = "voided"]
  /\ Goto(r, "booked")
  /\ UNCHANGED <<row, debits, matched, frozen, reply, matches, asserted, edits>>

Outcome(r) == IF pair[r] = "posted" THEN "accepted" ELSE "rejected"

(* Fault: the outcome is accepted whatever became of the pair.             *)
FinishAccepted(r) ==
  /\ step[r] = "booked"
  /\ row' = IF Present(r) THEN [row EXCEPT ![r].status = "accepted"] ELSE row
  /\ Answer(r, IF Present(r) THEN "ok" ELSE "error")
  /\ UNCHANGED <<debits, matched, frozen, pair, matches, asserted, edits>>

(* post_entries' Repo.update with transaction_outcome.  Ecto writes what   *)
(* differs from the struct the request inserted: the status, if another    *)
(* was sent, over what a PUT wrote meanwhile; a rejection's details        *)
(* always.  A deleted row raises StaleEntryError unless there is nothing   *)
(* to write.                                                               *)
Finish(r) ==
  /\ step[r] = "booked"
  /\ row' = IF Present(r) /\ Outcome(r) # SentStatus(r)
            THEN [row EXCEPT ![r].status = Outcome(r)] ELSE row
  /\ Answer(r, IF Present(r) \/ (Outcome(r) = "accepted" /\ SentStatus(r) = "accepted")
               THEN "ok" ELSE "error")
  /\ UNCHANGED <<debits, matched, frozen, pair, matches, asserted, edits>>

(* An exception in the request's process, a failed database call say: the  *)
(* caller gets a 500, and what was committed stays.  That of post_entries'  *)
(* Repo.update comes after the pair moved money.                           *)
Raise(r) ==
  /\ step[r] \notin {"idle", "answered", "crashed"}
  /\ Answer(r, "error")
  /\ UNCHANGED <<row, debits, matched, frozen, pair, matches, asserted, edits>>

(* The node dies, and nobody answers; nothing takes the transaction up     *)
(* again.                                                                  *)
Crash(r) ==
  /\ step[r] \notin {"idle", "answered", "crashed"}
  /\ Goto(r, "crashed")
  /\ UNCHANGED <<row, debits, matched, frozen, pair, reply, matches, asserted, edits>>

-----------------------------------------------------------------------------
(* PUT: a full replacement, the key included; a body without a status      *)
(* leaves it.  The amount and the accounts stay as they are here.          *)
UpdateTransaction(r, status, key) ==
  /\ Present(r) /\ ~ Taken(key, r)
  /\ row' = [row EXCEPT ![r] = [status |-> status, key |-> key]]
  /\ asserted' = [asserted EXCEPT ![r] = @ \cup ({status} \ {row[r].status})]
  /\ UNCHANGED <<step, debits, matched, frozen, pair, reply, matches>>

(* DELETE: the entries of the transaction stay.                            *)
DeleteTransaction(r) ==
  /\ Present(r)
  /\ row' = [row EXCEPT ![r] = Null]
  /\ UNCHANGED <<step, debits, matched, frozen, pair, reply, matches, asserted>>

(* record_screening of a rescreening job, and an investigator's override.  *)
RecordMatch(p) ==
  /\ matches' = matches \cup {p}
  /\ UNCHANGED <<row, step, debits, matched, frozen, pair, reply, asserted>>

ClearMatch(p) ==
  /\ p \in matches
  /\ matches' = matches \ {p}
  /\ UNCHANGED <<row, step, debits, matched, frozen, pair, reply, asserted>>

Edit ==
  /\ edits < MaxEdits
  /\ edits' = edits + 1
  /\ \/ \E r \in {x \in Requests : Present(x)} :
          \E key \in {ExternalId(r), Null}, status \in CallerStatuses \cup {row[r].status} :
            UpdateTransaction(r, status, key)
     \/ \E r \in Requests : DeleteTransaction(r)
     \/ \E p \in Parties : RecordMatch(p)
     \/ \E p \in Parties : ClearMatch(p)

Advance(r) ==
  \/ Insert(r)
  \/ CountDebits(r)
  \/ ReadScreenings(r)
  \/ Evaluate(r)
  \/ PostPair(r)
  \/ RecordVoided(r)
  \/ Finish(r)

Next ==
  /\ \/ \E r \in Requests : Advance(r) \/ Raise(r) \/ Crash(r)
     \/ Edit
  /\ UNCHANGED body

Spec == Init /\ [][Next]_vars

-----------------------------------------------------------------------------
(***************************************************************************)
(* Properties                                                              *)
(***************************************************************************)
Keys == {ExternalId(r) : r \in Requests} \cup {Null}
RowSet == [status : Statuses, key : Keys] \cup {Null}

TypeOK ==
  /\ row \in [Requests -> RowSet]
  /\ step \in [Requests -> Steps]
  /\ debits \in [Requests -> SUBSET Requests]
  /\ matched \in [Requests -> BOOLEAN]
  /\ frozen \in [Requests -> BOOLEAN]
  /\ pair \in [Requests -> {"none", "posted", "voided"}]
  /\ reply \in [Requests -> {"none", "ok", "error"}]
  /\ matches \subseteq Parties
  /\ asserted \in [Requests -> SUBSET Statuses]
  /\ edits \in 0..MaxEdits

(* A crash, an error or an impatient caller may have the same transaction  *)
(* sent again: of the requests of one external id at most one moves money, *)
(* unless a PUT or a DELETE took the id off its row.                       *)
PostedOnce ==
  \A r, o \in Requests :
    (r # o /\ ExternalId(r) = ExternalId(o) /\ ExternalId(r) # Null
     /\ pair[r] = "posted" /\ pair[o] = "posted")
    => \E x \in {r, o} : ~ Present(x) \/ row[x].key = Null

(* What callers said of the status themselves, on creation or by PUT.      *)
Claimed(r) == asserted[r] \cup {SentStatus(r)}

(* The anti-structuring rule holds against concurrency: however requests   *)
(* interleave, no three debits of the sub-CTR band stand posted, because   *)
(* each request commits its own row before it counts the others'.  A debit *)
(* that a caller calls rejected is out of the count.                       *)
StructuringCaught ==
  Cardinality({r \in SubCtr : /\ pair[r] = "posted"
                              /\ Present(r) /\ "rejected" \notin Claimed(r)}) <= 2

(* Nothing posts unless every rule answered and none of them froze one of  *)
(* its accounts: a failed or unreachable rule engine moves no money.       *)
PostedPassedGate ==
  \A r \in Requests : pair[r] = "posted" => ~ matched[r] /\ ~ Structuring(r)

(* accepted and rejected on a row tell what became of its entries, at      *)
(* every moment and whatever is edited, raises or crashes, except where a  *)
(* caller wrote that very status; and a caller who is answered ok finds    *)
(* the outcome on the row, unless a PUT has put another status there.      *)
OutcomeMatchesPair ==
  \A r \in Requests : Present(r) =>
    /\ row[r].status = "accepted" => pair[r] = "posted" \/ "accepted" \in Claimed(r)
    /\ row[r].status = "rejected" => pair[r] = "voided" \/ "rejected" \in Claimed(r)
    /\ reply[r] = "ok" /\ pair[r] # "none" => row[r].status \in {Outcome(r)} \cup asserted[r]
=============================================================================

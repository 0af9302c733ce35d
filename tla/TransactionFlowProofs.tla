------------------------ MODULE TransactionFlowProofs ------------------------
(***************************************************************************)
(* What create_transaction guarantees for any number of concurrent         *)
(* requests, crashes, edits and screening results.                         *)
(***************************************************************************)
EXTENDS TransactionFlow, FiniteSetTheorems, TLAPS

(* A row has the key it was sent with or none, and a key has one row.      *)
KeysUnique ==
  /\ \A r \in Requests : Present(r) => row[r].key \in {ExternalId(r), Null}
  /\ \A r, o \in Requests :
       r # o /\ Present(r) /\ Present(o) /\ row[r].key = row[o].key => row[r].key = Null

(* What a request has done and what it still may do.                       *)
Passed(r) ==
  /\ pair[r] # "none" => step[r] \in {"booked", "answered", "crashed"}
  /\ step[r] = "booked" => pair[r] # "none"
  /\ step[r] = "ruled" /\ ~ frozen[r] => ~ matched[r] /\ ~ Structuring(r)
  /\ pair[r] = "posted" => ~ matched[r] /\ ~ Structuring(r)
  /\ reply[r] # "none" => step[r] = "answered"

FlowInv ==
  /\ TypeOK /\ body \in Bodies /\ KeysUnique
  /\ \A r \in Requests : Passed(r)

(* Requests that have counted and have posted or still may.                *)
Standing(r) == /\ Present(r)
               /\ "rejected" \notin Claimed(r)
               /\ pair[r] = "posted" \/ step[r] \in {"counted", "screened", "ruled"}

(* Of three of them the last to count has seen the others.                 *)
LastSeesAll ==
  \A a, b, c \in Requests :
    a # b /\ a # c /\ b # c /\ Standing(a) /\ Standing(b) /\ Standing(c)
    => \/ {b, c} \subseteq debits[a] \/ {a, c} \subseteq debits[b]
       \/ {a, b} \subseteq debits[c]

(* Until the request is answered its row says what callers wrote on it.     *)
RowAsClaimed ==
  \A r \in Requests : Present(r) /\ step[r] # "answered" => row[r].status \in Claimed(r)

OutcomeInv == OutcomeMatchesPair /\ RowAsClaimed
-----------------------------------------------------------------------------
(* A step that leaves a request's values alone leaves Passed alone.        *)
LEMMA PassedFrame ==
  ASSUME NEW o \in Requests, Passed(o),
         step'[o] = step[o], debits'[o] = debits[o], matched'[o] = matched[o],
         frozen'[o] = frozen[o], pair'[o] = pair[o], reply'[o] = reply[o]
  PROVE  Passed(o)'
BY DEF Passed, Structuring

(* Initially nothing is inserted, posted or answered.                      *)
LEMMA FlowStarts == Init => FlowInv
<1> SUFFICES ASSUME Init PROVE FlowInv
  OBVIOUS
<1>1. TypeOK
  <2>1. row \in [Requests -> RowSet]
    BY DEF Init, RowSet
  <2>2. edits \in 0..MaxEdits
    BY FlowAssumption DEF Init
  <2> QED
    BY <2>1, <2>2 DEF Init, TypeOK, Steps
<1>2. body \in Bodies /\ KeysUnique
  BY DEF Init, KeysUnique, Present
<1>3. \A r \in Requests : Passed(r)
  BY DEF Init, Passed, Present
<1> QED
  BY <1>1, <1>2, <1>3 DEF FlowInv

(* The row a request inserts is a row.                                     *)
LEMMA NewRowType ==
  ASSUME NEW r \in Requests, body \in Bodies
  PROVE  NewRow(r) \in RowSet
BY FlowAssumption DEF NewRow, RowSet, Keys, ExternalId, SentStatus

(* Writing a free key, or one of the row's own, keeps the keys apart.      *)
LEMMA WriteKeepsKeys ==
  ASSUME NEW r \in Requests, NEW new, TypeOK, KeysUnique, UNCHANGED body,
         row' = [row EXCEPT ![r] = new],
         new # Null => /\ new.key \in {ExternalId(r), Null}
                       /\ ~ Taken(new.key, r)
  PROVE  KeysUnique'
<1>1. \A o \in Requests : row'[o] = IF o = r THEN new ELSE row[o]
  BY DEF TypeOK
<1>2. \A o \in Requests : ExternalId(o)' = ExternalId(o)
  BY DEF ExternalId
<1>3. \A o \in Requests : Present(o)' => row'[o].key \in {ExternalId(o)', Null}
  BY <1>1, <1>2 DEF KeysUnique, Present
<1>4. ASSUME NEW o \in Requests, NEW x \in Requests,
             o # x, Present(o)', Present(x)', row'[o].key = row'[x].key
      PROVE  row'[o].key = Null
  <2>1. CASE o = r
    BY <2>1, <1>1, <1>4 DEF Present, Taken
  <2>2. CASE x = r
    BY <2>2, <1>1, <1>4 DEF Present, Taken
  <2>3. CASE o # r /\ x # r
    BY <2>3, <1>1, <1>4 DEF Present, KeysUnique
  <2> QED
    BY <2>1, <2>2, <2>3
<1> QED
  BY <1>3, <1>4 DEF KeysUnique

(* Nothing is written: the keys stay apart.                                *)
LEMMA KeysFrame ==
  ASSUME KeysUnique, UNCHANGED <<body, row>>
  PROVE  KeysUnique'
BY DEF KeysUnique, Present, ExternalId

(* Every step of a request keeps the types.                                *)
LEMMA AdvanceType ==
  ASSUME FlowInv, NEW r \in Requests, Advance(r) \/ Raise(r) \/ Crash(r), UNCHANGED body
  PROVE  TypeOK'
<1> USE DEF Goto, Answer, Steps
<1>0. TypeOK /\ body \in Bodies /\ RowSet' = RowSet
  BY DEF FlowInv, RowSet, Keys, ExternalId
<1>1. CASE Insert(r)
  BY <1>0, <1>1, NewRowType DEF TypeOK, Insert
<1>2. CASE CountDebits(r)
  BY <1>0, <1>2 DEF TypeOK, CountDebits
<1>3. CASE ReadScreenings(r)
  <2>1. matched' \in [Requests -> BOOLEAN]
    <3> DEFINE now == r \in Wired /\ Creditor[r] \in matches
    <3>1. matched' = [matched EXCEPT ![r] = now] /\ now \in BOOLEAN
      BY <1>3 DEF ReadScreenings
    <3> HIDE DEF now
    <3> QED
      BY <3>1, <1>0 DEF TypeOK
  <2> QED
    BY <2>1, <1>0, <1>3 DEF TypeOK, ReadScreenings
<1>4. CASE Evaluate(r)
  <2>1. frozen' \in [Requests -> BOOLEAN]
    <3> DEFINE now == Structuring(r) \/ matched[r]
    <3>1. frozen' = [frozen EXCEPT ![r] = now] \/ UNCHANGED frozen
      BY <1>4 DEF Evaluate
    <3>2. now \in BOOLEAN
      OBVIOUS
    <3> HIDE DEF now
    <3> QED
      BY <3>1, <3>2, <1>0 DEF TypeOK
  <2>2. step' \in [Requests -> Steps] /\ reply' \in [Requests -> {"none", "ok", "error"}]
    BY <1>0, <1>4 DEF TypeOK, Evaluate
  <2> QED
    BY <2>1, <2>2, <1>0, <1>4 DEF TypeOK, Evaluate
<1>5. CASE PostPair(r)
  BY <1>0, <1>5 DEF TypeOK, PostPair
<1>6. CASE RecordVoided(r)
  BY <1>0, <1>6 DEF TypeOK, RecordVoided
<1>7. CASE Finish(r)
  <2>1. Present(r) => [row[r] EXCEPT !.status = Outcome(r)] \in RowSet
    BY <1>0 DEF TypeOK, Present, RowSet, Outcome, Statuses
  <2>2. row' \in [Requests -> RowSet]
    BY <2>1, <1>0, <1>7 DEF TypeOK, Finish
  <2> QED
    BY <2>2, <1>0, <1>7 DEF TypeOK, Finish
<1>8. CASE Raise(r) \/ Crash(r)
  BY <1>0, <1>8 DEF TypeOK, Raise, Crash
<1> QED
  BY <1>1, <1>2, <1>3, <1>4, <1>5, <1>6, <1>7, <1>8 DEF Advance

(* Every step of a request keeps the keys apart.                           *)
LEMMA AdvanceKeys ==
  ASSUME FlowInv, NEW r \in Requests, Advance(r) \/ Raise(r) \/ Crash(r), UNCHANGED body
  PROVE  KeysUnique'
<1>0. TypeOK /\ KeysUnique
  BY DEF FlowInv
<1>1. CASE Insert(r)
  <2>1. CASE UNCHANGED row
    BY <2>1, <1>0, KeysFrame
  <2>2. CASE row' = [row EXCEPT ![r] = NewRow(r)] /\ ~ Taken(ExternalId(r), r)
    <3>1. NewRow(r).key = ExternalId(r)
      BY DEF NewRow
    <3> QED
      BY <3>1, <2>2, <1>0, WriteKeepsKeys
  <2> QED
    BY <1>1, <2>1, <2>2 DEF Insert
<1>2. CASE Finish(r)
  <2>1. CASE UNCHANGED row
    BY <2>1, <1>0, KeysFrame
  <2>2. CASE Present(r) /\ row' = [row EXCEPT ![r].status = Outcome(r)]
    <3> DEFINE new == [row[r] EXCEPT !.status = Outcome(r)]
    <3>1. new.key = row[r].key
      BY <1>0, <2>2 DEF TypeOK, RowSet, Present
    <3>2. row' = [row EXCEPT ![r] = new]
      BY <2>2
    <3>3. row[r].key \in {ExternalId(r), Null} /\ ~ Taken(row[r].key, r)
      BY <1>0, <2>2 DEF KeysUnique, Taken
    <3> HIDE DEF new
    <3> QED
      BY <3>1, <3>2, <3>3, <1>0, WriteKeepsKeys
  <2> QED
    BY <1>2, <2>1, <2>2 DEF Finish
<1>3. CASE ~ Insert(r) /\ ~ Finish(r)
  <2>1. UNCHANGED row
    BY <1>3 DEF Advance, CountDebits, ReadScreenings, Evaluate, PostPair, RecordVoided,
                    Raise, Crash
  <2> QED
    BY <2>1, <1>0, KeysFrame
<1> QED
  BY <1>1, <1>2, <1>3

(* A step of one request leaves the values of the others as they are.      *)
LEMMA AdvanceFrame ==
  ASSUME TypeOK, NEW r \in Requests, Advance(r) \/ Raise(r) \/ Crash(r),
         NEW o \in Requests, o # r
  PROVE  /\ step'[o] = step[o] /\ debits'[o] = debits[o] /\ matched'[o] = matched[o]
         /\ frozen'[o] = frozen[o] /\ pair'[o] = pair[o] /\ reply'[o] = reply[o]
         /\ row'[o] = row[o] /\ asserted'[o] = asserted[o]
<1> USE DEF Goto, Answer, TypeOK
<1>1. CASE Insert(r)
  BY <1>1 DEF Insert
<1>2. CASE CountDebits(r)
  BY <1>2 DEF CountDebits
<1>3. CASE ReadScreenings(r)
  BY <1>3 DEF ReadScreenings
<1>4. CASE Evaluate(r)
  BY <1>4 DEF Evaluate
<1>5. CASE PostPair(r)
  BY <1>5 DEF PostPair
<1>6. CASE RecordVoided(r)
  BY <1>6 DEF RecordVoided
<1>7. CASE Finish(r)
  BY <1>7 DEF Finish
<1>8. CASE Raise(r) \/ Crash(r)
  BY <1>8 DEF Raise, Crash
<1> QED
  BY <1>1, <1>2, <1>3, <1>4, <1>5, <1>6, <1>7, <1>8 DEF Advance

(* What a request's own step makes of it.                                  *)
LEMMA AdvancePassed ==
  ASSUME FlowInv, NEW r \in Requests, Advance(r) \/ Raise(r) \/ Crash(r)
  PROVE  Passed(r)'
<1> USE DEF Goto, Answer
<1>0. TypeOK /\ Passed(r)
  BY DEF FlowInv
<1>1. CASE Insert(r)
  BY <1>0, <1>1 DEF TypeOK, Insert, Passed, Structuring, Present
<1>2. CASE CountDebits(r)
  BY <1>0, <1>2 DEF TypeOK, CountDebits, Passed, Structuring, Present
<1>3. CASE ReadScreenings(r)
  BY <1>0, <1>3 DEF TypeOK, ReadScreenings, Passed, Structuring, Present
<1>4. CASE Evaluate(r)
  <2>1. pair[r] = "none" /\ pair'[r] = "none" /\ reply[r] = "none"
    BY <1>0, <1>4 DEF TypeOK, Evaluate, Passed
  <2>2. step'[r] \in {"ruled", "answered"} /\ (reply'[r] # "none" => step'[r] = "answered")
    BY <1>0, <1>4, <2>1 DEF TypeOK, Evaluate
  <2>3. step'[r] = "ruled" /\ ~ frozen'[r] => ~ matched'[r] /\ ~ Structuring(r)'
    <3>1. Structuring(r)' <=> Structuring(r)
      BY <1>4 DEF Evaluate, Structuring
    <3>2. matched'[r] = matched[r]
      BY <1>4 DEF Evaluate
    <3>3. CASE Answer(r, "error")
      BY <3>3, <1>0 DEF TypeOK
    <3>4. CASE frozen' = [frozen EXCEPT ![r] = Structuring(r) \/ matched[r]]
      BY <3>1, <3>2, <3>4, <1>0, Zenon DEF TypeOK
    <3> QED
      BY <3>3, <3>4, <1>4 DEF Evaluate
  <2> QED
    BY <2>1, <2>2, <2>3 DEF Passed
<1>5. CASE PostPair(r)
  <2>1. pair[r] = "none" /\ reply[r] = "none" /\ UNCHANGED <<debits, matched, frozen, row>>
    BY <1>0, <1>5 DEF TypeOK, PostPair, Passed
  <2>2. Structuring(r)' <=> Structuring(r)
    BY <2>1 DEF Structuring
  <2>3. pair'[r] = "posted" => ~ matched[r] /\ ~ Structuring(r)
    BY <1>0, <1>5, <2>1 DEF TypeOK, PostPair, Passed
  <2>4. /\ step'[r] \in {"booked", "rejected", "answered"}
        /\ pair'[r] # "none" => step'[r] = "booked"
        /\ step'[r] = "booked" => pair'[r] # "none"
        /\ reply'[r] # "none" => step'[r] = "answered" /\ pair'[r] = "none"
    BY <1>0, <1>5, <2>1 DEF TypeOK, PostPair
  <2> QED
    BY <2>1, <2>2, <2>3, <2>4 DEF Passed
<1>6. CASE RecordVoided(r)
  BY <1>0, <1>6 DEF TypeOK, RecordVoided, Passed, Structuring, Present
<1>7. CASE Finish(r)
  <2>1. step'[r] = "answered" /\ UNCHANGED <<debits, matched, frozen, pair>>
    BY <1>0, <1>7 DEF TypeOK, Finish
  <2> QED
    BY <2>1, <1>0 DEF Passed, Structuring
<1>8. CASE Raise(r) \/ Crash(r)
  BY <1>0, <1>8 DEF TypeOK, Raise, Crash, Passed, Structuring
<1> QED
  BY <1>1, <1>2, <1>3, <1>4, <1>5, <1>6, <1>7, <1>8 DEF Advance

(* What an edit does to the rows: one is written with a free key of its    *)
(* own, one is deleted, or none changes.                                   *)
LEMMA EditCases ==
  ASSUME Edit
  PROVE  /\ UNCHANGED <<step, debits, matched, frozen, pair, reply>>
         /\ \/ /\ UNCHANGED matches
               /\ \E r \in Requests : \E key \in {ExternalId(r), Null},
                       status \in CallerStatuses \cup {row[r].status} :
                    /\ Present(r) /\ ~ Taken(key, r)
                    /\ row' = [row EXCEPT ![r] = [status |-> status, key |-> key]]
                    /\ asserted' = [asserted EXCEPT ![r] = @ \cup ({status} \ {row[r].status})]
            \/ /\ UNCHANGED <<matches, asserted>>
               /\ \E r \in Requests : Present(r) /\ row' = [row EXCEPT ![r] = Null]
            \/ UNCHANGED <<row, asserted>> /\ \E p \in Parties : matches' \in {matches \cup {p}, matches \ {p}}
<1>1. CASE \E r \in {x \in Requests : Present(x)} :
             \E key \in {ExternalId(r), Null}, status \in CallerStatuses \cup {row[r].status} :
               UpdateTransaction(r, status, key)
  BY <1>1 DEF UpdateTransaction
<1>2. CASE \E r \in Requests : DeleteTransaction(r)
  BY <1>2 DEF DeleteTransaction
<1>3. CASE \E p \in Parties : RecordMatch(p)
  BY <1>3 DEF RecordMatch
<1>4. CASE \E p \in Parties : ClearMatch(p)
  BY <1>4 DEF ClearMatch
<1> QED
  BY <1>1, <1>2, <1>3, <1>4 DEF Edit

(* An edit keeps the invariant.                                            *)
LEMMA EditStep ==
  ASSUME FlowInv, Edit, UNCHANGED body
  PROVE  FlowInv'
<1>0. /\ TypeOK /\ KeysUnique /\ body \in Bodies /\ RowSet' = RowSet
      /\ \A r \in Requests : Passed(r)
  BY DEF FlowInv, RowSet, Keys, ExternalId
<1>1. edits' \in 0..MaxEdits
  BY <1>0, FlowAssumption DEF Edit, TypeOK
<1>2. UNCHANGED <<step, debits, matched, frozen, pair, reply>>
  BY EditCases
<1> DEFINE Kept ==
      /\ row' \in [Requests -> RowSet] /\ matches' \subseteq Parties /\ KeysUnique'
      /\ asserted' \in [Requests -> SUBSET Statuses]
<1>3. Kept
  <2>1. ASSUME UNCHANGED matches, NEW r \in Requests, NEW key \in {ExternalId(r), Null},
               NEW status \in CallerStatuses \cup {row[r].status},
               Present(r), ~ Taken(key, r),
               row' = [row EXCEPT ![r] = [status |-> status, key |-> key]],
               asserted' = [asserted EXCEPT ![r] = @ \cup ({status} \ {row[r].status})]
        PROVE  Kept
    <3> DEFINE new == [status |-> status, key |-> key]
    <3>1. row[r].status \in Statuses
      BY <1>0, <2>1 DEF TypeOK, RowSet, Present
    <3>2. new \in RowSet /\ new.key = key
      BY <3>1, FlowAssumption DEF RowSet, Keys
    <3>3. row' = [row EXCEPT ![r] = new]
      BY <2>1
    <3> HIDE DEF new
    <3>4. KeysUnique'
      BY <3>2, <3>3, <2>1, <1>0, WriteKeepsKeys
    <3>5. asserted' \in [Requests -> SUBSET Statuses]
      BY <3>1, <2>1, <1>0, FlowAssumption DEF TypeOK
    <3> QED
      BY <3>2, <3>3, <3>4, <3>5, <2>1, <1>0 DEF TypeOK
  <2>2. ASSUME UNCHANGED <<matches, asserted>>, NEW r \in Requests, Present(r),
               row' = [row EXCEPT ![r] = Null]
        PROVE  Kept
    <3>1. KeysUnique'
      BY <2>2, <1>0, WriteKeepsKeys
    <3> QED
      BY <3>1, <2>2, <1>0 DEF TypeOK, Present, RowSet
  <2>3. ASSUME UNCHANGED <<row, asserted>>, NEW p \in Parties,
               matches' \in {matches \cup {p}, matches \ {p}}
        PROVE  Kept
    BY <2>3, <1>0, KeysFrame DEF TypeOK, Present
  <2> QED
    BY <2>1, <2>2, <2>3, EditCases
<1>4. TypeOK'
  BY <1>0, <1>1, <1>2, <1>3 DEF TypeOK
<1>5. ASSUME NEW o \in Requests PROVE Passed(o)'
  BY <1>0, <1>2, <1>3, PassedFrame
<1> QED
  BY <1>0, <1>3, <1>4, <1>5 DEF FlowInv

(* The invariant is inductive.                                             *)
LEMMA FlowStep == FlowInv /\ [Next]_vars => FlowInv'
<1> SUFFICES ASSUME FlowInv, [Next]_vars PROVE FlowInv'
  OBVIOUS
<1>1. ASSUME NEW r \in Requests, Advance(r) \/ Raise(r) \/ Crash(r), UNCHANGED body
      PROVE  FlowInv'
  <2>1. TypeOK' /\ KeysUnique' /\ Passed(r)' /\ body' \in Bodies
    BY <1>1, AdvanceType, AdvanceKeys, AdvancePassed DEF FlowInv
  <2>2. ASSUME NEW o \in Requests, o # r PROVE Passed(o)'
    BY <1>1, <2>2, AdvanceFrame, PassedFrame DEF FlowInv, Present
  <2> QED
    BY <2>1, <2>2 DEF FlowInv
<1>2. CASE UNCHANGED vars
  BY <1>2 DEF vars, FlowInv, TypeOK, KeysUnique, Passed, Structuring, Present, RowSet, Keys,
              ExternalId
<1> QED
  BY <1>1, <1>2, EditStep DEF Next

(* The invariant holds in every state.                                     *)
LEMMA FlowInvariant == Spec => []FlowInv
BY FlowStarts, FlowStep, PTL DEF Spec

-----------------------------------------------------------------------------
(* Rows, steps, payloads, entries and answers keep their types.            *)
THEOREM FlowTypeCorrect == Spec => []TypeOK
<1>1. FlowInv => TypeOK
  BY DEF FlowInv
<1> QED
  BY <1>1, FlowInvariant, PTL

(* However often, and however concurrently, create_transaction is called   *)
(* with one external id, one call at most moves money while the id is on   *)
(* its row: the unique index decides before anything is posted.            *)
THEOREM OneIdMovesOnce == Spec => []PostedOnce
<1>1. FlowInv => PostedOnce
  <2> SUFFICES ASSUME FlowInv, NEW r \in Requests, NEW o \in Requests,
                      r # o, ExternalId(r) = ExternalId(o), Present(r), Present(o)
               PROVE  \E x \in {r, o} : row[x].key = Null
    BY DEF PostedOnce
  <2> QED
    BY DEF FlowInv, KeysUnique
<1> QED
  BY <1>1, FlowInvariant, PTL

(* No pair is posted past an open match or the structuring rule: the gate  *)
(* between evaluate and create_entries cannot be overtaken.                *)
THEOREM GateIsPassed == Spec => []PostedPassedGate
<1>1. FlowInv => PostedPassedGate
  BY DEF FlowInv, Passed, PostedPassedGate
<1> QED
  BY <1>1, FlowInvariant, PTL

-----------------------------------------------------------------------------
(* What a step does to the status of a row: a PUT writes one and claims    *)
(* it, or the row stays.                                                   *)
LEMMA EditClaims ==
  ASSUME TypeOK, Edit, UNCHANGED body, NEW o \in Requests, Present(o)'
  PROVE  /\ Present(o) /\ Claimed(o) \subseteq Claimed(o)' /\ asserted[o] \subseteq asserted'[o]
         /\ row'[o].status \in {row[o].status} \cup asserted'[o]
<1>0. SentStatus(o)' = SentStatus(o)
  BY DEF SentStatus
<1>1. ASSUME NEW r \in Requests, NEW key, NEW status, Present(r),
             row' = [row EXCEPT ![r] = [status |-> status, key |-> key]],
             asserted' = [asserted EXCEPT ![r] = @ \cup ({status} \ {row[r].status})]
      PROVE  /\ Present(o) /\ asserted[o] \subseteq asserted'[o]
             /\ row'[o].status \in {row[o].status} \cup asserted'[o]
  <2>1. CASE o = r
    BY <1>1, <2>1 DEF TypeOK
  <2>2. CASE o # r
    BY <1>1, <2>2 DEF TypeOK, Present
  <2> QED
    BY <2>1, <2>2
<1>2. ASSUME NEW r \in Requests, row' = [row EXCEPT ![r] = Null], UNCHANGED asserted
      PROVE  /\ Present(o) /\ asserted[o] \subseteq asserted'[o]
             /\ row'[o].status \in {row[o].status} \cup asserted'[o]
  BY <1>2 DEF TypeOK, Present
<1>3. ASSUME UNCHANGED <<row, asserted>>
      PROVE  /\ Present(o) /\ asserted[o] \subseteq asserted'[o]
             /\ row'[o].status \in {row[o].status} \cup asserted'[o]
  BY <1>3 DEF Present
<1>4. /\ Present(o) /\ asserted[o] \subseteq asserted'[o]
      /\ row'[o].status \in {row[o].status} \cup asserted'[o]
  BY <1>1, <1>2, <1>3, EditCases
<1> QED
  BY <1>0, <1>4 DEF Claimed

(* The statuses of the flow keep to what became of the entries.            *)
LEMMA OutcomeStep == FlowInv /\ OutcomeInv /\ [Next]_vars => OutcomeInv'
<1> DEFINE Kept(o) ==
      /\ row[o].status = "accepted" => pair[o] = "posted" \/ "accepted" \in Claimed(o)
      /\ row[o].status = "rejected" => pair[o] = "voided" \/ "rejected" \in Claimed(o)
      /\ reply[o] = "ok" /\ pair[o] # "none" => row[o].status \in {Outcome(o)} \cup asserted[o]
      /\ step[o] # "answered" => row[o].status \in Claimed(o)
<1> SUFFICES ASSUME FlowInv, OutcomeInv, [Next]_vars, NEW o \in Requests, Present(o)'
             PROVE  Kept(o)'
  BY DEF OutcomeInv, OutcomeMatchesPair, RowAsClaimed
<1> USE DEF Goto, Answer
<1>0. /\ TypeOK /\ Passed(o) /\ SentStatus(o)' = SentStatus(o)
      /\ Present(o) => Kept(o)
  BY DEF FlowInv, Next, vars, SentStatus, OutcomeInv, OutcomeMatchesPair, RowAsClaimed
<1>a. ASSUME row'[o] = row[o], pair'[o] = pair[o], asserted'[o] = asserted[o],
             \/ reply'[o] = reply[o] \/ reply'[o] = "error" \/ pair[o] = "none",
             step'[o] = "answered" \/ step[o] # "answered"
      PROVE  Kept(o)'
  BY <1>0, <1>a DEF Present, Claimed, Outcome
<1>1. ASSUME NEW r \in Requests, Advance(r) \/ Raise(r) \/ Crash(r), o # r
      PROVE  Kept(o)'
  BY <1>0, <1>1, AdvanceFrame DEF Present, Claimed, Outcome
<1>2. CASE Insert(o)
  <2>1. CASE UNCHANGED row
    BY <2>1, <1>0, <1>2, <1>a DEF Insert, TypeOK
  <2>2. CASE row' = [row EXCEPT ![o] = NewRow(o)] /\ UNCHANGED reply
    <3>1. row'[o].status = SentStatus(o) /\ SentStatus(o) \in Claimed(o)'
      BY <2>2, <1>0 DEF TypeOK, NewRow, Claimed
    <3>2. reply'[o] # "ok"
      BY <2>2, <1>0, <1>2 DEF Passed, Insert
    <3> QED
      BY <3>1, <3>2
  <2> QED
    BY <1>2, <2>1, <2>2 DEF Insert
<1>3. CASE PostPair(o) \/ RecordVoided(o)
  <2>1. pair[o] = "none" /\ row' = row /\ asserted' = asserted /\ reply'[o] # "ok"
    BY <1>0, <1>3 DEF PostPair, RecordVoided, Passed, TypeOK
  <2>2. step[o] # "answered"
    BY <1>3 DEF PostPair, RecordVoided
  <2> QED
    BY <2>1, <2>2, <1>0 DEF Present, Claimed
<1>4. CASE Finish(o)
  <2>1. /\ pair[o] \in {"posted", "voided"} /\ pair' = pair /\ asserted' = asserted
        /\ step'[o] = "answered" /\ Present(o) /\ step[o] # "answered"
    BY <1>0, <1>4 DEF Finish, Passed, TypeOK, Present
  <2>2. CASE Outcome(o) # SentStatus(o)
    <3>1. row'[o].status = Outcome(o)
      BY <2>1, <2>2, <1>0, <1>4 DEF Finish, TypeOK, RowSet, Present
    <3> QED
      BY <2>1, <3>1 DEF Outcome
  <2>3. CASE Outcome(o) = SentStatus(o)
    <3>1. row' = row /\ row[o].status \in {Outcome(o)} \cup asserted[o]
      BY <2>1, <2>3, <1>0, <1>4 DEF Finish, Claimed
    <3> QED
      BY <2>1, <3>1, <1>0 DEF Claimed, Outcome
  <2> QED
    BY <2>2, <2>3
<1>5. CASE CountDebits(o) \/ ReadScreenings(o) \/ Evaluate(o) \/ Raise(o) \/ Crash(o)
  <2>1. pair' = pair /\ row' = row /\ asserted' = asserted /\ step[o] # "answered"
    BY <1>5 DEF CountDebits, ReadScreenings, Evaluate, Raise, Crash
  <2>2. CASE Evaluate(o)
    <3>1. pair[o] = "none"
      BY <2>2, <1>0 DEF Evaluate, Passed
    <3> QED
      BY <2>1, <3>1, <1>a
  <2>3. CASE Raise(o)
    <3>1. reply'[o] = "error"
      BY <2>3, <1>0 DEF Raise, TypeOK
    <3> QED
      BY <2>1, <3>1, <1>a
  <2>4. CASE CountDebits(o) \/ ReadScreenings(o) \/ Crash(o)
    <3>1. reply' = reply
      BY <2>4 DEF CountDebits, ReadScreenings, Crash
    <3> QED
      BY <2>1, <3>1, <1>a
  <2> QED
    BY <1>5, <2>2, <2>3, <2>4
<1>6. CASE Edit
  <2>1. UNCHANGED <<step, pair, reply, body>>
    BY <1>6, EditCases DEF Next, vars
  <2>2. /\ Present(o) /\ Claimed(o) \subseteq Claimed(o)' /\ asserted[o] \subseteq asserted'[o]
        /\ row'[o].status \in {row[o].status} \cup asserted'[o]
    BY <2>1, <1>0, <1>6, EditClaims
  <2>3. asserted'[o] \subseteq Claimed(o)' /\ Outcome(o)' = Outcome(o)
    BY <2>1 DEF Claimed, Outcome
  <2> QED
    BY <2>1, <2>2, <2>3, <1>0
<1>7. CASE UNCHANGED vars
  BY <1>7, <1>0 DEF vars, Present, Claimed, Outcome
<1> QED
  BY <1>1, <1>2, <1>3, <1>4, <1>5, <1>6, <1>7 DEF Next, Advance

(* At every moment accepted and rejected on a row say what became of the   *)
(* entries, unless a caller wrote the status; and after an ok the outcome  *)
(* is on the row, unless a PUT has written another.  Callers may send and  *)
(* set any status.                                                         *)
THEOREM OutcomeTellsThePair == Spec => []OutcomeMatchesPair
<1>1. Init => OutcomeInv
  BY DEF Init, OutcomeInv, OutcomeMatchesPair, RowAsClaimed, Present
<1>2. OutcomeInv => OutcomeMatchesPair
  BY DEF OutcomeInv
<1> QED
  BY <1>1, <1>2, OutcomeStep, FlowInvariant, PTL DEF Spec

-----------------------------------------------------------------------------
(* A finite set of more than two elements has three.                       *)
LEMMA ThreeOfMany ==
  ASSUME NEW S, IsFiniteSet(S), ~ (Cardinality(S) <= 2)
  PROVE  \E a, b, c \in S : a # b /\ a # c /\ b # c
<1>1. Cardinality(S) \in Nat /\ Cardinality(S) >= 3
  BY FS_CardinalityType
<1>2. PICK a \in S : TRUE
  BY <1>1, FS_EmptySet
<1>3. IsFiniteSet(S \ {a}) /\ Cardinality(S \ {a}) = Cardinality(S) - 1
  BY <1>2, FS_RemoveElement
<1>4. PICK b \in S \ {a} : TRUE
  BY <1>1, <1>3, FS_EmptySet
<1>5. Cardinality((S \ {a}) \ {b}) = Cardinality(S) - 2
  <2>1. Cardinality((S \ {a}) \ {b}) = Cardinality(S \ {a}) - 1
    BY <1>3, <1>4, FS_RemoveElement
  <2> QED
    BY <2>1, <1>1, <1>3
<1>6. PICK c \in (S \ {a}) \ {b} : TRUE
  BY <1>1, <1>5, FS_EmptySet
<1> QED
  BY <1>2, <1>4, <1>6

(* A finite set with two different elements counts two at least.           *)
LEMMA TwoCount ==
  ASSUME NEW S, IsFiniteSet(S), NEW a \in S, NEW b \in S, a # b
  PROVE  Cardinality(S) >= 2
<1>1. Cardinality({a, b}) = 2
  <2>1. IsFiniteSet({a}) /\ Cardinality({a}) = 1
    BY FS_Singleton
  <2>2. Cardinality({a} \cup {b}) = Cardinality({a}) + 1
    BY <2>1, FS_AddElement
  <2>3. {a} \cup {b} = {a, b}
    OBVIOUS
  <2> QED
    BY <2>1, <2>2, <2>3
<1>2. Cardinality({a, b}) <= Cardinality(S)
  BY FS_Subset
<1> QED
  BY <1>1, <1>2, FS_CardinalityType

(* A request starts to stand by counting, and then it counts all that      *)
(* stand; no other step adds one or changes what one counted.              *)
LEMMA StandingStep ==
  ASSUME FlowInv, OutcomeInv, [Next]_vars
  PROVE  \/ \A o \in Requests : Standing(o)' => Standing(o) /\ debits'[o] = debits[o]
         \/ \E r \in Requests : \A o \in Requests \ {r} :
              Standing(o)' => Standing(o) /\ debits'[o] = debits[o] /\ o \in debits'[r]
<1> USE DEF Goto, Answer
<1>0. /\ TypeOK /\ \A o \in Requests : Passed(o)
      /\ \A o \in Requests : SentStatus(o)' = SentStatus(o)
  BY DEF FlowInv, Next, vars, SentStatus
<1> USE DEF Claimed
<1>1. ASSUME NEW r \in Requests, Advance(r) \/ Raise(r) \/ Crash(r), ~ CountDebits(r),
             NEW o \in Requests, Standing(o)'
      PROVE  Standing(o) /\ debits'[o] = debits[o]
  <2>1. CASE o # r
    BY <2>1, <1>0, <1>1, AdvanceFrame DEF Standing, Present
  <2>2. CASE o = r
    <3>1. debits' = debits /\ asserted' = asserted
      BY <1>1, <2>2 DEF Advance, Insert, ReadScreenings, Evaluate, PostPair, RecordVoided,
                        Finish, Raise, Crash
    <3>2. CASE Insert(o)
      BY <3>2, <1>0, <1>1 DEF Insert, TypeOK, Standing, Passed
    <3>3. CASE ReadScreenings(o) \/ Raise(o) \/ Crash(o)
      BY <3>1, <3>3, <1>0, <1>1 DEF ReadScreenings, Raise, Crash, TypeOK, Standing, Present
    <3>4. CASE Evaluate(o)
      BY <3>1, <3>4, <1>0, <1>1 DEF Evaluate, TypeOK, Standing, Present
    <3>5. CASE PostPair(o)
      BY <3>1, <3>5, <1>0, <1>1 DEF PostPair, TypeOK, Standing, Present
    <3>6. CASE RecordVoided(o)
      BY <3>1, <3>6, <1>0, <1>1 DEF RecordVoided, TypeOK, Standing
    <3>7. CASE Finish(o)
      BY <3>1, <3>7, <1>0, <1>1 DEF Finish, TypeOK, Standing, Present
    <3> QED
      BY <3>1, <3>2, <3>3, <3>4, <3>5, <3>6, <3>7, <1>1, <2>2 DEF Advance
  <2> QED
    BY <2>1, <2>2
<1>2. ASSUME NEW r \in Requests, CountDebits(r), NEW o \in Requests \ {r}, Standing(o)'
      PROVE  Standing(o) /\ debits'[o] = debits[o] /\ o \in debits'[r]
  <2>1. Standing(o) /\ debits'[o] = debits[o]
    BY <1>0, <1>2, AdvanceFrame DEF Advance, Standing, Present
  <2>2. pair[o] # "voided"
    BY <2>1, <1>0 DEF Standing, Passed
  <2>3. Present(o) /\ row[o].status # "rejected"
    BY <2>1, <2>2 DEF Standing, OutcomeInv, OutcomeMatchesPair
  <2> QED
    BY <2>1, <2>3, <1>0, <1>2 DEF CountDebits, TypeOK
<1>3. ASSUME Edit, NEW o \in Requests, Standing(o)'
      PROVE  Standing(o) /\ debits'[o] = debits[o]
  <2>1. UNCHANGED <<step, debits, pair, body>>
    BY <1>3, EditCases DEF Next, vars
  <2>2. Present(o) /\ Claimed(o) \subseteq Claimed(o)'
    BY <2>1, <1>0, <1>3, EditClaims DEF Standing
  <2> QED
    BY <2>1, <2>2, <1>3 DEF Standing
<1>4. CASE UNCHANGED vars
  BY <1>0, <1>4 DEF vars, Standing, Present
<1> QED
  BY <1>1, <1>2, <1>3, <1>4 DEF Next, Advance

(* Of three that stand the last to count has seen the other two.           *)
LEMMA LastStep ==
  FlowInv /\ OutcomeInv /\ LastSeesAll /\ [Next]_vars => LastSeesAll'
<1> SUFFICES ASSUME FlowInv, OutcomeInv, LastSeesAll, [Next]_vars,
                    NEW a \in Requests, NEW b \in Requests, NEW c \in Requests,
                    a # b, a # c, b # c, Standing(a)', Standing(b)', Standing(c)'
             PROVE  \/ {b, c} \subseteq debits'[a] \/ {a, c} \subseteq debits'[b]
                    \/ {a, b} \subseteq debits'[c]
  BY DEF LastSeesAll
<1>1. CASE \A o \in Requests : Standing(o)' => Standing(o) /\ debits'[o] = debits[o]
  BY <1>1 DEF LastSeesAll
<1>2. ASSUME NEW r \in Requests, \A o \in Requests \ {r} :
               Standing(o)' => Standing(o) /\ debits'[o] = debits[o] /\ o \in debits'[r]
      PROVE  \/ {b, c} \subseteq debits'[a] \/ {a, c} \subseteq debits'[b]
             \/ {a, b} \subseteq debits'[c]
  <2>1. CASE r \in {a, b, c}
    BY <2>1, <1>2
  <2>2. CASE r \notin {a, b, c}
    BY <2>2, <1>2 DEF LastSeesAll
  <2> QED
    BY <2>1, <2>2
<1> QED
  BY <1>1, <1>2, StandingStep

(* One that has counted two of the band does not post.                     *)
LEMMA SeenTwoBlocks ==
  ASSUME FlowInv, NEW a \in SubCtr, NEW b \in SubCtr, NEW c \in SubCtr,
         b # c, {b, c} \subseteq debits[a]
  PROVE  pair[a] # "posted"
<1>1. a \in Requests /\ IsFiniteSet(debits[a] \cap SubCtr)
  BY FlowAssumption, FS_Subset
<1>2. Structuring(a)
  BY <1>1, TwoCount DEF Structuring
<1> QED
  BY <1>1, <1>2 DEF FlowInv, Passed

(* Of the debits in the band no more than two stand posted, whatever       *)
(* number of requests race: each commits its row before it counts the      *)
(* rows of the others, so that of any three the last one to count sees     *)
(* both.  A debit that a caller calls rejected is out of the count.        *)
THEOREM NoThreeInTheBand == Spec => []StructuringCaught
<1>1. Init => OutcomeInv /\ LastSeesAll
  BY DEF Init, OutcomeInv, OutcomeMatchesPair, RowAsClaimed, LastSeesAll, Standing, Present
<1>2. FlowInv /\ OutcomeInv /\ [Next]_vars => OutcomeInv'
  BY OutcomeStep
<1>3. FlowInv /\ OutcomeInv /\ LastSeesAll => StructuringCaught
  <2> DEFINE S == {r \in SubCtr : /\ pair[r] = "posted"
                                  /\ Present(r) /\ "rejected" \notin Claimed(r)}
  <2> SUFFICES ASSUME FlowInv, LastSeesAll, ~ (Cardinality(S) <= 2) PROVE FALSE
    BY DEF StructuringCaught
  <2>1. IsFiniteSet(S)
    BY FlowAssumption, FS_Subset
  <2>2. PICK a, b, c \in S : a # b /\ a # c /\ b # c
    BY <2>1, ThreeOfMany
  <2>3. \/ {b, c} \subseteq debits[a] \/ {a, c} \subseteq debits[b]
        \/ {a, b} \subseteq debits[c]
    BY <2>2, FlowAssumption DEF LastSeesAll, Standing
  <2> QED
    BY <2>2, <2>3, SeenTwoBlocks
<1> QED
  BY <1>1, <1>2, <1>3, LastStep, FlowInvariant, PTL DEF Spec
=============================================================================

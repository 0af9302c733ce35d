--------------------------- MODULE DocumentIntake ---------------------------
(***************************************************************************)
(* The wizard's documents step in one tab: files are dropped, classified   *)
(* by name and verified one after the other, retyped, removed, and sent to *)
(* the parser in a batch, whose answer is merged into the application.     *)
(* The step stays usable while verifications and the parser run, and can   *)
(* be left: its zone is then unmounted, its continuations are not.  The    *)
(* other steps show what was read, in inputs that are given their values   *)
(* when they mount; only the identity step writes what is typed.           *)
(***************************************************************************)
EXTENDS Prefill, FiniteSets

CONSTANTS
  Files,       \* files the user may drop
  Drops,       \* the sequences of files that are dropped together
  Traits,      \* file -> [named, format, flags]: what its name, type, size show
  Data,        \* file -> what the parser reads in it
  DocTypes,    \* document types the user gives files
  Samples,     \* bundled samples in use
  FormsOpened, \* steps of forms the user opens
  MaxClicks    \* bound: what the user does

SampleTypes == {"TRADE_LICENSE", "MEMORANDUM_OF_ASSOCIATION", "PASSPORT", "EMIRATES_ID",
                "CERTIFICATE_OF_INCORPORATION", "PROOF_OF_ADDRESS", "BANK_STATEMENT"}

ASSUME IntakeAssumption ==
  /\ Drops \subseteq Seq(Files) /\ MaxClicks \in Nat
  /\ \A d \in Drops : d # <<>> /\ \A i, j \in DOMAIN d : d[i] = d[j] => i = j
  /\ Null \notin Files /\ Files \cap SampleTypes = {}
  /\ FormsOpened \subseteq {"identity", "addresses", "contacts", "activity", "transfers",
                          "ownership", "directors", "ubos"}
  /\ DocTypes \subseteq SampleTypes \cup {"OTHER"}
  /\ Samples \in Seq(SampleTypes)
  /\ \A f \in Files : Traits[f].named \in SampleTypes \cup {"OTHER"}

VARIABLES
  app,       \* the application, in the layout's hook and in localStorage
  place,     \* what is mounted: the bulk zone, the cards, another step
  form,      \* what the inputs of that step show
  zone,      \* how often the zone has been unmounted
  pending,   \* entries of the mounted zone
  loops,     \* the verification loops of addFiles, each what it has to verify
  rechecks,  \* verifications begun by updateType
  batches,   \* what processFiles has sent to the parser
  clicks,    \* bound used up
  ghost      \* what the properties refer to

vars == <<app, place, form, zone, pending, loops, rechecks, batches, clicks, ghost>>

EmptyApplication ==
  [business_profile |-> [legal_name |-> Null, license_number |-> Null,
                         incorporation_date |-> Null],
   addresses |-> <<>>, directors |-> <<>>, ubos |-> <<>>, business_contacts |-> <<>>,
   ownership_structure |-> [is_subsidiary |-> FALSE],
   business_activity |-> [primary_activity |-> Null],
   transfer_behavior |-> [expected_monthly_volume_usd |-> Null,
                          primary_transfer_purpose |-> Null],
   documents |-> <<>>, upload_mode |-> "BULK"]

-----------------------------------------------------------------------------
(* What each step shows of an application: rows of a list, or the fields   *)
(* of one object.                                                          *)
StepIdentity(a) == a.business_profile
StepAddresses(a) == a.addresses
StepContacts(a) == a.business_contacts
StepActivity(a) == a.business_activity
StepTransfers(a) == a.transfer_behavior
StepOwnership(a) == a.ownership_structure
StepDirectors(a) == a.directors
StepUBOs(a) == a.ubos

Steps == {"identity", "addresses", "contacts", "activity", "transfers", "ownership",
          "directors", "ubos"}
Given(step, a) ==
  CASE step = "identity"  -> StepIdentity(a)  [] step = "addresses" -> StepAddresses(a)
    [] step = "contacts"  -> StepContacts(a)  [] step = "activity"  -> StepActivity(a)
    [] step = "transfers" -> StepTransfers(a) [] step = "ownership" -> StepOwnership(a)
    [] step = "directors" -> StepDirectors(a) [] step = "ubos"      -> StepUBOs(a)

NoForm == Null
FormOf(step) == Given(step, app)

(* Fault: rows are keyed by their place.                                   *)
KeptByPlace(old, row, i) == IF i \in DOMAIN old THEN old[i] ELSE row

(* Rows are keyed by their id: a row that stays mounted keeps what its     *)
(* inputs show, under the title of the director it is now given.           *)
Kept(old, row, i) ==
  LET same == {j \in DOMAIN old : old[j].id = row.id}
  IN  IF same = {} THEN row ELSE old[CHOOSE j \in same : TRUE]

(* The open step when the application becomes a: inputs that are mounted   *)
(* keep their values, but for those of the identity step, which has none   *)
(* of its own; rows come and go with the application's.                    *)
Rerendered(a) ==
  form' = IF place \notin Steps \/ a = app THEN form
          ELSE CASE place = "directors" ->
                      [i \in DOMAIN a.directors |-> Kept(form, a.directors[i], i)]
                 [] place \in {"activity", "transfers", "ownership"} -> form
                 [] OTHER -> Given(place, a)

-----------------------------------------------------------------------------
Init ==
  /\ app = EmptyApplication
  /\ place = "bulk" /\ form = NoForm /\ zone = 0
  /\ pending = <<>>
  /\ loops = {} /\ rechecks = {} /\ batches = {}
  /\ clicks = 0
  /\ ghost = [added |-> {}, discarded |-> {}, swept |-> {}, early |-> {}, stale |-> FALSE]

Click == clicks < MaxClicks /\ clicks' = clicks + 1

PendingFiles == {pending[i].file : i \in DOMAIN pending} \ {Null}
IsDone(x) == x.verification # Null /\ ~ x.verifying

-----------------------------------------------------------------------------
(* verifyDocument, which only reads the file: the verdict of a type.       *)
verifyDocument(f, expectedType) ==
  LET irrelevant == /\ expectedType # "OTHER" /\ Traits[f].named # "OTHER"
                    /\ Traits[f].named # expectedType
  IN  IF Traits[f].format = "unsupported" \/ "ILLEGIBLE" \in Traits[f].flags THEN "FAIL"
      ELSE IF Traits[f].flags # {} \/ irrelevant THEN "WARN" ELSE "PASS"

(* classifyFilename is what Traits names; an unknown name is "OTHER".      *)
classifyFilename(f) == Traits[f].named

PendingFile(id, file, detectedType, verification, verifying) ==
  [id |-> id, file |-> file, detectedType |-> detectedType,
   verification |-> verification, verifying |-> verifying]

Entry(f) == PendingFile(<<f, clicks>>, f, classifyFilename(f), Null, TRUE)

(* Fault: a drop replaces what is pending.                                 *)
addFilesReplaces(drop) ==
  /\ place = "bulk" /\ Click
  /\ \A i \in DOMAIN drop : drop[i] \notin ghost.added
  /\ LET entries == [i \in DOMAIN drop |-> Entry(drop[i])] IN
       pending' = entries /\ loops' = loops \cup {[zone |-> zone, todo |-> entries]}
  /\ ghost' = [ghost EXCEPT !.added = @ \cup ToSet(drop)]
  /\ UNCHANGED <<app, place, form, zone, rechecks, batches>>

addFiles(drop) ==
  /\ place = "bulk" /\ Click
  /\ \A i \in DOMAIN drop : drop[i] \notin ghost.added
  /\ LET entries == [i \in DOMAIN drop |-> Entry(drop[i])] IN
       /\ pending' = pending \o entries
       /\ loops' = loops \cup {[zone |-> zone, todo |-> entries]}
  /\ ghost' = [ghost EXCEPT !.added = @ \cup ToSet(drop)]
  /\ UNCHANGED <<app, place, form, zone, rechecks, batches>>

(* setPending with a result: onto the entry of that id, if it is there.    *)
SetVerdict(id, z, verdict) ==
  pending' = IF z # zone THEN pending
             ELSE [i \in DOMAIN pending |->
                     IF pending[i].id = id
                     THEN PendingFile(id, pending[i].file, pending[i].detectedType,
                                      verdict, FALSE)
                     ELSE pending[i]]

(* Fault: the loop waits for an entry that has been removed.               *)
VerifyPresent(l) ==
  LET x == Head(l.todo) IN
  /\ \E i \in DOMAIN pending : pending[i].id = x.id
  /\ SetVerdict(x.id, l.zone, verifyDocument(x.file, x.detectedType))
  /\ loops' = (loops \ {l}) \cup
              (IF Len(l.todo) = 1 THEN {} ELSE {[zone |-> l.zone, todo |-> Tail(l.todo)]})
  /\ UNCHANGED <<app, place, form, zone, rechecks, batches, clicks, ghost>>

(* The loop verifies its entries in order, each as the type it had when it *)
(* was added, whether or not the entry is still there.                     *)
VerifyNext(l) ==
  LET x == Head(l.todo) IN
  /\ SetVerdict(x.id, l.zone, verifyDocument(x.file, x.detectedType))
  /\ loops' = (loops \ {l}) \cup
              (IF Len(l.todo) = 1 THEN {} ELSE {[zone |-> l.zone, todo |-> Tail(l.todo)]})
  /\ UNCHANGED <<app, place, form, zone, rechecks, batches, clicks, ghost>>

(* A sample has no file and is not verified again.                         *)
updateType(i, docType) ==
  LET x == pending[i] IN
  /\ place = "bulk" /\ Click /\ docType # x.detectedType
  /\ pending' = [pending EXCEPT ![i] =
                   PendingFile(x.id, x.file, docType, x.verification, x.file # Null)]
  /\ rechecks' = IF x.file = Null THEN rechecks
                 ELSE rechecks \cup {[id |-> x.id, file |-> x.file, type |-> docType,
                                      zone |-> zone, at |-> clicks]}
  /\ ghost' = IF x.verifying THEN [ghost EXCEPT !.early = @ \cup {x.id}] ELSE ghost
  /\ UNCHANGED <<app, place, form, zone, loops, batches>>

RecheckDone(r) ==
  /\ SetVerdict(r.id, r.zone, verifyDocument(r.file, r.type))
  /\ rechecks' = rechecks \ {r}
  /\ UNCHANGED <<app, place, form, zone, loops, batches, clicks, ghost>>

removeEntry(i) ==
  /\ place = "bulk" /\ Click
  /\ pending' = RemoveAt(pending, i)
  /\ ghost' = [ghost EXCEPT !.discarded = @ \cup {pending[i].file}]
  /\ UNCHANGED <<app, place, form, zone, loops, rechecks, batches>>

Clear ==
  /\ place = "bulk" /\ pending # <<>> /\ Click
  /\ pending' = <<>>
  /\ ghost' = [ghost EXCEPT !.discarded = @ \cup PendingFiles]
  /\ UNCHANGED <<app, place, form, zone, loops, rechecks, batches>>

SampleVerdict(t) == IF t = "BANK_STATEMENT" THEN "WARN" ELSE "PASS"

loadAllSamples ==
  /\ place = "bulk" /\ Click
  /\ pending' = pending \o
       [i \in DOMAIN Samples |->
          PendingFile(<<Samples[i], clicks>>, Null, Samples[i], SampleVerdict(Samples[i]),
                      FALSE)]
  /\ UNCHANGED <<app, place, form, zone, loops, rechecks, batches, ghost>>

-----------------------------------------------------------------------------
(* Processing.                                                             *)
SampleDocument(t) == [file |-> Null, doc_type |-> t, verification |-> SampleVerdict(t),
                      status |-> "EXTRACTED"]

(* Whatever the parser made of a file, its document counts as extracted;   *)
(* only when the request fails does a warning show in the status.          *)
pendingToDocument(x, answered) ==
  [file |-> x.file, doc_type |-> x.detectedType, verification |-> x.verification,
   status |-> IF ~ answered /\ x.verification = "WARN" THEN "NEEDS_ATTENTION"
              ELSE "EXTRACTED"]

Stored(updates, base) == Spread(base, updates)

(* The update is laid over the application of the render that was clicked, *)
(* and the zone is emptied.                                                *)
File(b, real, docs) ==
  /\ app' = Stored(Spread(Spread(b.prefill, real),
                          [documents |-> b.app.documents \o b.samples \o docs]), b.app)
  /\ pending' = IF b.zone = zone THEN <<>> ELSE pending
  /\ ghost' = [added |-> ghost.added, discarded |-> ghost.discarded,
               swept |-> ghost.swept \cup
                           IF b.zone = zone
                           THEN PendingFiles \ {x.file : x \in ToSet(b.entries)} ELSE {},
               early |-> ghost.early, stale |-> ghost.stale \/ app # b.app]

(* The elements of s that are in S, in the order they have in s.           *)
Filter(s, S) ==
  LET kept[k \in 0..Len(s)] ==
        IF k = 0 THEN <<>>
        ELSE IF s[k] \in S THEN Append(kept[k - 1], s[k]) ELSE kept[k - 1]
  IN  kept[Len(s)]

Batch ==
  LET typed   == Filter(pending, {x \in ToSet(pending) :
                                    x.file = Null /\ x.detectedType \in SampleTypes})
      types   == [i \in DOMAIN typed |-> typed[i].detectedType]
  IN  [entries |-> Filter(pending, {x \in ToSet(pending) : x.file # Null}),
       samples |-> [i \in DOMAIN types |-> SampleDocument(types[i])],
       prefill |-> processSampleEntries(types, app),
       app |-> app, zone |-> zone]

Extracting == \E b \in batches : b.zone = zone

processFiles ==
  /\ place = "bulk" /\ pending # <<>> /\ ~ Extracting /\ Click
  /\ \A i \in DOMAIN pending : ~ pending[i].verifying /\ pending[i].verification # "FAIL"
  /\ IF Batch.entries = <<>> THEN File(Batch, NoUpdate, <<>>) /\ UNCHANGED batches
     ELSE batches' = batches \cup {Batch} /\ UNCHANGED <<app, pending, ghost>>
  /\ UNCHANGED <<place, form, zone, loops, rechecks>>

(* What the parser may answer: each file is read as the type it was sent   *)
(* as, or not at all.                                                      *)
Answers(b) ==
  {[i \in DOMAIN b.entries |->
      [docType |-> b.entries[i].detectedType,
       data |-> IF i \in read THEN Data[b.entries[i].file][b.entries[i].detectedType]
                ELSE Null]] : read \in SUBSET DOMAIN b.entries}

ExtractionDone(b) ==
  /\ batches' = batches \ {b}
  /\ \/ \E results \in Answers(b) :
          File(b, mapExtractionToApplication(results, Spread(b.app, b.prefill)),
               [i \in DOMAIN b.entries |-> pendingToDocument(b.entries[i], TRUE)])
     \/ File(b, NoUpdate,
             [i \in DOMAIN b.entries |-> pendingToDocument(b.entries[i], FALSE)])
  /\ Rerendered(app')
  /\ UNCHANGED <<place, zone, loops, rechecks, clicks>>

-----------------------------------------------------------------------------
(* The rest of the wizard, as far as it writes the same application.       *)
Unmounted ==
  /\ zone' = IF place = "bulk" THEN zone + 1 ELSE zone
  /\ pending' = <<>>
  /\ ghost' = [ghost EXCEPT !.discarded = @ \cup PendingFiles]

setMode(m) ==
  /\ place \notin Steps /\ place # m /\ Click
  /\ place' = m
  /\ app' = Stored([upload_mode |-> IF m = "bulk" THEN "BULK" ELSE "INDIVIDUAL"], app)
  /\ Unmounted
  /\ UNCHANGED <<form, loops, rechecks, batches>>

handleUseSample(t) ==
  /\ place = "individual" /\ t \in ToSet(Samples) /\ Click
  /\ app' = Stored(Spread(applyPrefill(t, app),
                          [documents |-> Append(app.documents, SampleDocument(t))]), app)
  /\ UNCHANGED <<place, form, zone, pending, loops, rechecks, batches, ghost>>

(* Another step of the wizard, and back; ApplicationWizard has the steps   *)
(* as they are saved.  What was typed into a form is gone with it.         *)
OpenStep(step) ==
  /\ place # step /\ Click
  /\ place' = step /\ form' = FormOf(step)
  /\ IF place \in Steps THEN UNCHANGED <<zone, pending, ghost>> ELSE Unmounted
  /\ UNCHANGED <<app, loops, rechecks, batches>>

OpenDocuments ==
  /\ place \in Steps /\ Click
  /\ place' = IF app.upload_mode = "BULK" THEN "bulk" ELSE "individual"
  /\ form' = NoForm
  /\ UNCHANGED <<app, zone, pending, loops, rechecks, batches, ghost>>

(* The inputs of the other steps have no handler: what is typed into one,  *)
(* here for the passport number of a director, stays there.                *)
TypeInForm(i) ==
  /\ place = "directors" /\ Click
  /\ form[i].passport_number # "typed"
  /\ form' = [form EXCEPT ![i].passport_number = "typed"]
  /\ UNCHANGED <<app, place, zone, pending, loops, rechecks, batches, ghost>>

updateProfile ==
  /\ place = "identity" /\ Click
  /\ app' = Stored([business_profile |-> [app.business_profile EXCEPT !.legal_name = "typed"]],
                   app)
  /\ Rerendered(app')
  /\ UNCHANGED <<place, zone, pending, loops, rechecks, batches, ghost>>

-----------------------------------------------------------------------------
User ==
  \/ \E d \in Drops : addFiles(d)
  \/ \E i \in DOMAIN pending : removeEntry(i) \/ \E t \in DocTypes : updateType(i, t)
  \/ Clear \/ loadAllSamples \/ processFiles
  \/ \E m \in {"bulk", "individual"} : setMode(m)
  \/ \E t \in SampleTypes : handleUseSample(t)
  \/ \E step \in FormsOpened : OpenStep(step)
  \/ OpenDocuments \/ updateProfile
  \/ \E i \in DOMAIN app.directors : TypeInForm(i)

System ==
  \/ \E l \in loops : VerifyNext(l)
  \/ \E r \in rechecks : RecheckDone(r)
  \/ \E b \in batches : ExtractionDone(b)

Next == User \/ System

(* File reads and requests settle; nobody has to click.                    *)
Spec == Init /\ [][Next]_vars /\ WF_vars(System)

-----------------------------------------------------------------------------
Verdicts == {"PASS", "WARN", "FAIL"}

TypeOK ==
  /\ DOMAIN app = DOMAIN EmptyApplication
  /\ \A i \in DOMAIN app.documents : app.documents[i].verification \in Verdicts
  /\ place \in {"bulk", "individual"} \cup Steps
  /\ (place \notin Steps) => (form = NoForm)
  /\ (place # "bulk") => (pending = <<>>)
  /\ \A i \in DOMAIN pending : pending[i].verifying \/ pending[i].verification \in Verdicts
  /\ clicks \in 0..MaxClicks
  /\ ghost.stale \in BOOLEAN

(* No file that fails verification becomes a document, whatever was        *)
(* retyped, removed or added while it was verified: processFiles looks at  *)
(* all entries, and an entry has a verdict before it stops verifying.      *)
NoFailedFiled ==
  \A i \in DOMAIN app.documents :
    LET d == app.documents[i] IN
    d.file # Null => verifyDocument(d.file, d.doc_type) # "FAIL"

(* An entry that is done shows the verdict of the type it is shown with,   *)
(* unless it was retyped before an earlier verification had ended.         *)
VerdictIsOfType ==
  \A i \in DOMAIN pending :
    LET x == pending[i] IN
    (x.file # Null /\ IsDone(x) /\ x.id \notin ghost.early)
    => x.verification = verifyDocument(x.file, x.detectedType)

(* A file that was added is pending, in a batch or filed, or it was        *)
(* discarded with the user's hand on it; setPending([]) at the end of a    *)
(* batch takes only files with it that were added while it ran, and an     *)
(* answer laid over an older application takes documents back.             *)
EveryFileAccounted ==
  ghost.stale \/
  \A f \in ghost.added :
    \/ f \in PendingFiles \cup ghost.discarded \cup ghost.swept
    \/ \E b \in batches : \E i \in DOMAIN b.entries : b.entries[i].file = f
    \/ \E i \in DOMAIN app.documents : app.documents[i].file = f

(* Every file is where it should be, with the verdict of its type.         *)
FilesSound == TypeOK /\ NoFailedFiled /\ VerdictIsOfType /\ EveryFileAccounted

(* A batch reads into the application what its files would, processed one  *)
(* by one in the same order.                                               *)
OneByOne(results, base) ==
  LET read[k \in 0..Len(results)] ==
        IF k = 0 THEN base
        ELSE Spread(read[k - 1], mapExtractionToApplication(<<results[k]>>, read[k - 1]))
  IN  read[Len(results)]

BatchIsSequential ==
  \A b \in batches : \A results \in Answers(b) :
    LET base == Spread(b.app, b.prefill) IN
    Spread(base, mapExtractionToApplication(results, base)) = OneByOne(results, base)

(* Documents are only ever added, unless a batch ends after the            *)
(* application it was started on has changed.                              *)
DocumentsOnlyGrow ==
  [][ghost'.stale \/ IsPrefix(app.documents, app'.documents)]_vars

(* People and addresses that are in the application stay in it: documents  *)
(* complete a director or fill an empty list, and replace none.            *)
Names(a) == <<[i \in DOMAIN a.directors |-> a.directors[i].full_name], a.ubos, a.addresses>>
ListsKept ==
  [][ghost'.stale \/ \A k \in 1..3 : Names(app)[k] \in {<<>>, Names(app')[k]}]_vars

(* A batch adds to the application and takes nothing back.                 *)
NothingTakenBack == DocumentsOnlyGrow /\ ListsKept

(* The card of a director has its title from the application and its       *)
(* inputs from the time it was mounted: both are of one person, whatever   *)
(* batches read into the application while the step is open, late ones     *)
(* too.                                                                    *)
RowsKeepTheirPerson ==
  place = "directors" =>
    /\ DOMAIN form = DOMAIN app.directors
    /\ \A i \in DOMAIN form : form[i].full_name = app.directors[i].full_name

(* Every verification and every batch ends: "Verifying" and "Extracting"   *)
(* do not stay.                                                            *)
Settles == (loops # {} \/ rechecks # {} \/ batches # {})
           ~> (loops = {} /\ rechecks = {} /\ batches = {})
=============================================================================

-------------------------- MODULE ApplicationWizard --------------------------
(***************************************************************************)
(* The onboarding application across browser tabs.  One application lives  *)
(* in localStorage; the wizard and the operations page each keep a copy of *)
(* it, loaded when they mount, and save the whole copy on every change.    *)
(* Submitting creates an account holder, its documents and a requirement   *)
(* at the backend, one request after the other, from the copy of the       *)
(* moment of the click.  DocumentIntake has what happens inside the        *)
(* documents step.                                                         *)
(***************************************************************************)
EXTENDS Naturals, Sequences, FiniteSets

CONSTANTS
  Tabs,
  Null,
  Seeds,       \* what localStorage may hold at the start
  Steps,       \* steps of the wizard in use; "review" is the last
  MaxDocs,     \* bound: documents of the application
  MaxNotes,    \* bound: notes of operations
  MaxClicks    \* bound: what the users do

ASSUME WizardAssumption ==
  /\ "review" \in Steps /\ "documents" \in Steps
  /\ MaxDocs \in Nat /\ MaxNotes \in Nat /\ MaxClicks \in Nat

VARIABLES
  store,     \* the application in localStorage, or Null
  tabs,      \* tab -> page, its copy, its connection
  subs,      \* submissions under way
  holders,   \* account holders at the backend
  clicks,    \* bound used up
  ghost      \* what the properties refer to

vars == <<store, tabs, subs, holders, clicks, ghost>>

Statuses == {"DRAFT", "SUBMITTED", "APPROVED"}
Pages == {"gate", "start", "wizard", "status", "ops"}
Application == [status : Statuses, current_step : Steps, complete : BOOLEAN,
                accuracy : BOOLEAN, authority : BOOLEAN, documents : 0..MaxDocs,
                notes : 0..MaxNotes, api_result : Nat]

ASSUME SeedsAssumption ==
  Seeds \subseteq {app \in Application : app.api_result = 0} \cup {Null}

createNewApplication ==
  [status |-> "DRAFT", current_step |-> "documents", complete |-> FALSE,
   accuracy |-> FALSE, authority |-> FALSE, documents |-> 0, notes |-> 0, api_result |-> 0]

(* A tab before anything is mounted; its key, if it has one, is stored for *)
(* the session.                                                            *)
Fresh(page, key) ==
  [page |-> page, app |-> Null, submitting |-> FALSE, mounts |-> 0, key |-> key,
   tenant |-> IF key THEN "pending" ELSE "none",
   loading |-> FALSE, rendered |-> FALSE]

Init ==
  /\ store \in Seeds
  /\ tabs \in [Tabs -> {Fresh("gate", FALSE), Fresh("start", TRUE)}]
  /\ subs = {} /\ holders = <<>> /\ clicks = 0
  /\ ghost = [stale |-> FALSE, again |-> FALSE]

Click == clicks < MaxClicks /\ clicks' = clicks + 1

-----------------------------------------------------------------------------
(* The hook.  A page that mounts loads its copy.                           *)
InWizard(t) == tabs[t].page = "wizard" /\ tabs[t].app # Null
InOps(t) == tabs[t].page = "ops" /\ tabs[t].app # Null

(* Writing the record r, made from the copy base: what base lacked is lost. *)
saveApplication(base, r) ==
  /\ store' = r
  /\ ghost' = [ghost EXCEPT !.stale = @ \/ base # store]

updateApplication(t, r) ==
  /\ saveApplication(tabs[t].app, r)
  /\ tabs' = [tabs EXCEPT ![t].app = r]

(* Leaving a page drops its copy and its state, not its requests.          *)
Unmounted(t, page) ==
  [tabs[t] EXCEPT !.page = page, !.app = Null, !.submitting = FALSE,
                  !.loading = FALSE, !.rendered = FALSE, !.mounts = @ + 1]

(* The layout mounts, loads its copy and makes the step of the URL the     *)
(* current one, which saves the copy it has just loaded.                   *)
OpenWizard(t, r, step) ==
  LET synced == [r EXCEPT !.current_step = step] IN
  /\ tabs' = [tabs EXCEPT ![t] = [Unmounted(t, "wizard") EXCEPT !.app = synced]]
  /\ IF synced = store THEN UNCHANGED <<store, ghost>>
     ELSE saveApplication(store, synced)

-----------------------------------------------------------------------------
(* The gate.  connectWithApiKey activates the key, which starts resolving  *)
(* the tenant, and stores it when that succeeds.                           *)
connectWithApiKey(t) ==
  /\ tabs[t].page = "gate" /\ tabs[t].tenant # "pending" /\ Click
  /\ tabs' = [tabs EXCEPT ![t].tenant = "pending"]
  /\ UNCHANGED <<store, subs, holders, ghost>>

(* verifySession answers; the promise is kept, rejected or not.            *)
verifySession(t) ==
  /\ tabs[t].tenant = "pending"
  /\ \E answer \in {"ok", "rejected"} :
       tabs' = [tabs EXCEPT ![t].tenant = answer,
                            ![t].key = @ \/ answer = "ok",
                            ![t].page = IF @ = "gate" /\ answer = "ok" THEN "start" ELSE @]
  /\ UNCHANGED <<store, subs, holders, clicks, ghost>>

Declared(app) == app.complete /\ app.accuracy /\ app.authority

NewHolder(s) == [declared |-> Declared(s.app), wanted |-> s.app.documents,
                 documents |-> 0, kyc |-> FALSE]

(* What the page of tab t loads again; the wizard's step is the URL's, not *)
(* the stored one.                                                         *)
Reloaded(t) ==
  CASE store # Null /\ InWizard(t) ->
         [store EXCEPT !.current_step = tabs[t].app.current_step]
    [] store # Null /\ InOps(t) -> store
    [] OTHER -> Null

(* A reload keeps the URL and the stored key, and ends what was running;   *)
(* the request for an account holder may have gone out.                    *)
Reload(t) ==
  /\ tabs[t].page # "gate" /\ Click
  /\ LET page == IF store = Null THEN "start" ELSE tabs[t].page IN
     tabs' = [tabs EXCEPT ![t] =
                [Fresh(page, TRUE) EXCEPT
                   !.app = Reloaded(t),
                   !.rendered = page = "status",
                   !.mounts = tabs[t].mounts + 1]]
  /\ IF Reloaded(t) \in {store, Null} THEN UNCHANGED <<store, ghost>>
     ELSE saveApplication(store, Reloaded(t))
  /\ subs' = {s \in subs : s.tab # t}
  /\ \/ UNCHANGED holders
     \/ \E s \in subs \ subs' : s.phase = "holder" /\ holders' = Append(holders, NewHolder(s))

-----------------------------------------------------------------------------
(* Pages.                                                                  *)
handleCreateApplication(t) ==
  /\ tabs[t].page = "start" /\ store = Null /\ Click
  /\ store' = createNewApplication
  /\ tabs' = [tabs EXCEPT ![t] = [Unmounted(t, "wizard") EXCEPT !.app = createNewApplication]]
  /\ UNCHANGED <<subs, holders, ghost>>

handleResumeApplication(t) ==
  /\ tabs[t].page = "start" /\ store # Null /\ store.status = "DRAFT" /\ Click
  /\ OpenWizard(t, store, store.current_step)
  /\ UNCHANGED <<subs, holders>>

(* Back in the browser's history, from the page a submission leads to or   *)
(* the one Save & exit leads to, or "Continue Application".                *)
BackToWizard(t, step) ==
  /\ tabs[t].page \in {"status", "start"} /\ tabs[t].mounts > 0 /\ store # Null /\ Click
  /\ OpenWizard(t, store, step)
  /\ UNCHANGED <<subs, holders>>

(* The stepper, Continue and Back stay in the mounted layout: its copy,    *)
(* however old, is saved with the new step.                                *)
handleStepClick(t, step) ==
  /\ InWizard(t) /\ tabs[t].app.current_step # step /\ Click
  /\ saveApplication(tabs[t].app, [tabs[t].app EXCEPT !.current_step = step])
  /\ tabs' = [tabs EXCEPT ![t].app.current_step = step, ![t].submitting = FALSE,
                          ![t].mounts = @ + 1]
  /\ UNCHANGED <<subs, holders>>

handleSaveExit(t) ==
  /\ tabs[t].page \in {"wizard", "status", "ops"} /\ Click
  /\ tabs' = [tabs EXCEPT ![t] = Unmounted(t, "start")]
  /\ UNCHANGED <<store, subs, holders, ghost>>

(* The documents step adds a document, as DocumentIntake details.          *)
AttachDocument(t) ==
  /\ InWizard(t) /\ tabs[t].app.current_step = "documents" /\ Click
  /\ tabs[t].app.documents < MaxDocs
  /\ updateApplication(t, [tabs[t].app EXCEPT !.documents = @ + 1])
  /\ UNCHANGED <<subs, holders>>

Confirm(t) ==
  /\ InWizard(t) /\ tabs[t].app.current_step = "review" /\ Click
  /\ \/ updateApplication(t, [tabs[t].app EXCEPT !.accuracy = ~ @])
     \/ updateApplication(t, [tabs[t].app EXCEPT !.authority = ~ @])
  /\ UNCHANGED <<subs, holders>>

OpenOps(t) ==
  /\ tabs[t].page = "start" /\ store # Null /\ Click
  /\ tabs' = [tabs EXCEPT ![t] = [Unmounted(t, "ops") EXCEPT !.app = store]]
  /\ UNCHANGED <<store, subs, holders, ghost>>

(* Operations may set any status.                                          *)
handleStatusChange(t, status) ==
  /\ InOps(t) /\ tabs[t].app.status # status /\ Click
  /\ updateApplication(t, [tabs[t].app EXCEPT !.status = status])
  /\ UNCHANGED <<subs, holders>>

handleAddNote(t) ==
  /\ InOps(t) /\ tabs[t].app.notes < MaxNotes /\ Click
  /\ updateApplication(t, [tabs[t].app EXCEPT !.notes = @ + 1])
  /\ UNCHANGED <<subs, holders>>

-----------------------------------------------------------------------------
(* Submission.                                                             *)
Submission(t) == [n |-> clicks, tab |-> t, app |-> tabs[t].app, mount |-> tabs[t].mounts,
                  phase |-> "tenant", holder |-> 0]

(* Why a second account holder may come: an earlier submission left one    *)
(* behind, or is under way from another mount of the page.                 *)
Repeats(t) ==
  \/ \E s \in subs : s.tab # t \/ s.mount # tabs[t].mounts
  \/ holders # <<>> /\ ~ \E s \in subs : s.tab = t /\ s.mount = tabs[t].mounts

(* Fault: the button stays enabled while a submission runs.                *)
handleSubmitTwice(t) ==
  /\ InWizard(t) /\ tabs[t].app.current_step = "review" /\ Click
  /\ Declared(tabs[t].app)
  /\ subs' = subs \cup {Submission(t)}
  /\ tabs' = [tabs EXCEPT ![t].submitting = TRUE]
  /\ ghost' = [ghost EXCEPT !.again = @ \/ Repeats(t)]
  /\ UNCHANGED <<store, holders>>

(* Nothing in it looks at the application's status.                        *)
handleSubmit(t) ==
  /\ InWizard(t) /\ tabs[t].app.current_step = "review" /\ Click
  /\ ~ tabs[t].submitting /\ Declared(tabs[t].app)
  /\ subs' = subs \cup {Submission(t)}
  /\ tabs' = [tabs EXCEPT ![t].submitting = TRUE]
  /\ ghost' = [ghost EXCEPT !.again = @ \/ Repeats(t)]
  /\ UNCHANGED <<store, holders>>

Moved(s, phase) == subs' = (subs \ {s}) \cup {[s EXCEPT !.phase = phase]}

(* Fault: a rejected tenant is waited for.                                 *)
resolveTenantIdWaits(s) ==
  /\ s.phase = "tenant" /\ tabs[s.tab].tenant = "ok"
  /\ Moved(s, "holder")
  /\ UNCHANGED <<store, tabs, holders, clicks, ghost>>

resolveTenantId(s) ==
  /\ s.phase = "tenant"
  /\ \/ tabs[s.tab].tenant = "ok" /\ Moved(s, "holder")
     \/ tabs[s.tab].tenant = "rejected" /\ Moved(s, "failed")
  /\ UNCHANGED <<store, tabs, holders, clicks, ghost>>

(* The holder and its legal entity; the answer may be lost.                *)
CreateAccountHolder(s) ==
  /\ s.phase = "holder"
  /\ \/ /\ holders' = Append(holders, NewHolder(s))
        /\ \E phase \in {"documents", "failed"} :
             subs' = (subs \ {s}) \cup {[s EXCEPT !.phase = phase, !.holder = Len(holders) + 1]}
     \/ Moved(s, "failed") /\ UNCHANGED holders
  /\ UNCHANGED <<store, tabs, clicks, ghost>>

(* Fault: one document is enough.                                          *)
CreateOneDocument(s) ==
  /\ s.phase = "documents"
  /\ holders' = [holders EXCEPT ![s.holder].documents = IF s.app.documents = 0 THEN 0 ELSE 1]
  /\ Moved(s, "kyc")
  /\ UNCHANGED <<store, tabs, clicks, ghost>>

(* One request for each document, the requirement after the last; these    *)
(* answers may be lost as well.                                            *)
CreateDocument(s) ==
  /\ s.phase = "documents"
  /\ IF holders[s.holder].documents = s.app.documents
     THEN Moved(s, "kyc") /\ UNCHANGED holders
     ELSE \/ /\ holders' = [holders EXCEPT ![s.holder].documents = @ + 1]
             /\ UNCHANGED subs \/ Moved(s, "failed")
          \/ Moved(s, "failed") /\ UNCHANGED holders
  /\ UNCHANGED <<store, tabs, clicks, ghost>>

CreateKycRequirement(s) ==
  /\ s.phase = "kyc"
  /\ \/ /\ holders' = [holders EXCEPT ![s.holder].kyc = TRUE]
        /\ Moved(s, "ok") \/ Moved(s, "failed")
     \/ Moved(s, "failed") /\ UNCHANGED holders
  /\ UNCHANGED <<store, tabs, clicks, ghost>>

(* Fault: the documents are dropped once the backend has them.             *)
SubmittedWithoutDocuments(s) ==
  /\ s.phase = "ok"
  /\ saveApplication(s.app,
                     [s.app EXCEPT !.status = "SUBMITTED", !.api_result = s.holder,
                                   !.documents = 0])
  /\ tabs' = [tabs EXCEPT ![s.tab] = [Unmounted(s.tab, "status") EXCEPT !.rendered = TRUE]]
  /\ subs' = subs \ {s}
  /\ UNCHANGED <<holders, clicks>>

(* Success saves the copy of the click with the result, past the hook, and *)
(* leads to the status page from wherever the tab is by then; a failure    *)
(* leaves what was created where it is.                                    *)
Submitted(s) ==
  /\ s.phase = "ok"
  /\ saveApplication(s.app,
                     [s.app EXCEPT !.status = "SUBMITTED", !.api_result = s.holder])
  /\ tabs' = [tabs EXCEPT ![s.tab] = [Unmounted(s.tab, "status") EXCEPT !.rendered = TRUE]]
  /\ subs' = subs \ {s}
  /\ UNCHANGED <<holders, clicks>>

SubmissionFailed(s) ==
  /\ s.phase = "failed"
  /\ tabs' = [tabs EXCEPT ![s.tab].submitting = @ /\ tabs[s.tab].mounts # s.mount]
  /\ subs' = subs \ {s}
  /\ UNCHANGED <<store, holders, clicks, ghost>>

-----------------------------------------------------------------------------
(* The status page reads the application anew on every render, so that the *)
(* result its effect depends on is another object each time.               *)
StatusEffect(t) ==
  /\ tabs[t].page = "status" /\ tabs[t].rendered /\ store.api_result # 0
  /\ tabs' = [tabs EXCEPT ![t].loading = TRUE, ![t].rendered = FALSE]
  /\ UNCHANGED <<store, subs, holders, clicks, ghost>>

fetchSubmissionDetails(t) ==
  /\ tabs[t].page = "status" /\ tabs[t].loading
  /\ tabs' = [tabs EXCEPT ![t].loading = FALSE, ![t].rendered = TRUE]
  /\ UNCHANGED <<store, subs, holders, clicks, ghost>>

-----------------------------------------------------------------------------
User == \E t \in Tabs :
  \/ connectWithApiKey(t) \/ Reload(t)
  \/ handleCreateApplication(t) \/ handleResumeApplication(t) \/ OpenOps(t)
  \/ \E step \in Steps : BackToWizard(t, step) \/ handleStepClick(t, step)
  \/ handleSaveExit(t) \/ AttachDocument(t) \/ Confirm(t) \/ handleSubmit(t)
  \/ handleAddNote(t) \/ \E status \in Statuses : handleStatusChange(t, status)

System ==
  \/ \E t \in Tabs : verifySession(t) \/ StatusEffect(t) \/ fetchSubmissionDetails(t)
  \/ \E s \in subs : \/ resolveTenantId(s) \/ CreateAccountHolder(s) \/ CreateDocument(s)
                     \/ CreateKycRequirement(s) \/ Submitted(s) \/ SubmissionFailed(s)

Next == User \/ System

Progress(n) == \E s \in subs : s.n = n /\
  \/ resolveTenantId(s) \/ CreateAccountHolder(s) \/ CreateDocument(s)
  \/ CreateKycRequirement(s) \/ Submitted(s) \/ SubmissionFailed(s)

(* Requests are answered, continuations and effects run.                   *)
Spec == /\ Init /\ [][Next]_vars
        /\ \A n \in 0..MaxClicks : WF_vars(Progress(n))
        /\ \A t \in Tabs : /\ WF_vars(verifySession(t))
                           /\ WF_vars(StatusEffect(t))
                           /\ WF_vars(fetchSubmissionDetails(t))

-----------------------------------------------------------------------------
Tab == [page : Pages, app : Application \cup {Null}, submitting : BOOLEAN, mounts : Nat,
        key : BOOLEAN, tenant : {"none", "pending", "ok", "rejected"},
        loading : BOOLEAN, rendered : BOOLEAN]
Sub == [n : Nat, tab : Tabs, app : Application, mount : Nat, holder : Nat,
        phase : {"tenant", "holder", "documents", "kyc", "ok", "failed"}]
Holder == [declared : BOOLEAN, wanted : Nat, documents : Nat, kyc : BOOLEAN]

TypeOK ==
  /\ store \in Application \cup {Null}
  /\ tabs \in [Tabs -> Tab]
  /\ subs \subseteq Sub
  /\ holders \in Seq(Holder)
  /\ clicks \in 0..MaxClicks
  /\ ghost \in [stale : BOOLEAN, again : BOOLEAN]

(* An application that carries a result has all of it at the backend: the  *)
(* account holder, a document for each of the documents submitted and the  *)
(* requirement, whatever failed in other attempts.                         *)
ResultComplete ==
  (store # Null /\ store.api_result # 0) =>
    LET h == holders[store.api_result] IN h.kyc /\ h.documents = h.wanted

(* No account holder is created from an application that was not complete  *)
(* and declared at the click, however it changes while the submission runs *)
DeclaredBeforeCreated == \A i \in DOMAIN holders : holders[i].declared

(* What the backend holds is what was declared, and a result means all of it. *)
HoldersSound == TypeOK /\ ResultComplete /\ DeclaredBeforeCreated

(* Documents, notes and the result of a submission never disappear from    *)
(* the store, unless a copy that was behind is saved over it.              *)
OnlyOldCopiesLose ==
  [][(store # Null /\ ~ ghost'.stale) =>
       /\ store'.documents >= store.documents /\ store'.notes >= store.notes
       /\ store.api_result # 0 => store'.api_result # 0]_vars

(* An application gets one account holder, unless it is submitted again    *)
(* after an earlier attempt created one, or from another mount of the page *)
(* while one runs.                                                         *)
OneAccountHolder == Len(holders) > 1 => ghost.again

(* Every submission ends, with the application submitted or the button     *)
(* enabled again.                                                          *)
SubmissionEnds == (subs # {}) ~> (subs = {})
=============================================================================

----------------------- MODULE ApplicationWizardProofs -----------------------
(***************************************************************************)
(* What a submission leaves at the backend is what was declared, and a     *)
(* result in an application, however old the copy, stands for a complete   *)
(* account holder; one click makes one account holder, and only old copies *)
(* take anything out of the store: for any number of tabs and attempts.    *)
(***************************************************************************)
EXTENDS ApplicationWizard, SequenceTheorems, TLAPS

Creating == {"documents", "kyc", "ok"}

Complete(i) == /\ i \in 1..Len(holders)
               /\ holders[i].kyc /\ holders[i].documents = holders[i].wanted

Backed(app) == app # Null /\ app.api_result # 0 => Complete(app.api_result)

(* Every copy of the application, stored, on screen or on its way, carries *)
(* no result or that of a complete account holder.                         *)
CopiesBacked ==
  /\ Backed(store)
  /\ \A t \in Tabs : Backed(tabs[t].app)
  /\ \A s \in subs : Backed(s.app)

(* How far the account holder of a submission has come.                    *)
Reached(s) ==
  /\ Declared(s.app)
  /\ s.phase \in Creating => /\ s.holder \in 1..Len(holders)
                             /\ holders[s.holder].wanted = s.app.documents
  /\ s.phase = "documents" => ~ holders[s.holder].kyc
  /\ s.phase \in {"kyc", "ok"} => holders[s.holder].documents = s.app.documents
  /\ s.phase = "ok" => holders[s.holder].kyc

(* No two submissions work on one account holder.                          *)
Apart ==
  \A r, s \in subs : r.phase \in Creating /\ s.phase \in Creating /\ r # s
                     => r.holder # s.holder

WizardInv ==
  /\ TypeOK /\ CopiesBacked /\ Apart /\ DeclaredBeforeCreated
  /\ \A s \in subs : Reached(s)

USE WizardAssumption, SeedsAssumption

(* What is written into a copy keeps it an application, with its result.   *)
LEMMA AppEdits ==
  ASSUME NEW app \in Application
  PROVE  /\ \A step \in Steps : /\ [app EXCEPT !.current_step = step] \in Application
                               /\ [app EXCEPT !.current_step = step].api_result = app.api_result
         /\ \A st \in Statuses : /\ [app EXCEPT !.status = st] \in Application
                                 /\ [app EXCEPT !.status = st].api_result = app.api_result
         /\ \A b \in BOOLEAN : /\ [app EXCEPT !.accuracy = b] \in Application
                               /\ [app EXCEPT !.accuracy = b].api_result = app.api_result
                               /\ [app EXCEPT !.authority = b] \in Application
                               /\ [app EXCEPT !.authority = b].api_result = app.api_result
         /\ \A d \in 0..MaxDocs : /\ [app EXCEPT !.documents = d] \in Application
                                 /\ [app EXCEPT !.documents = d].api_result = app.api_result
         /\ \A n \in 0..MaxNotes : /\ [app EXCEPT !.notes = n] \in Application
                                  /\ [app EXCEPT !.notes = n].api_result = app.api_result
<1>1. \A step \in Steps : /\ [app EXCEPT !.current_step = step] \in Application
                         /\ [app EXCEPT !.current_step = step].api_result = app.api_result
  BY DEF Application
<1>2. \A st \in Statuses : /\ [app EXCEPT !.status = st] \in Application
                          /\ [app EXCEPT !.status = st].api_result = app.api_result
  BY DEF Application
<1>3. \A b \in BOOLEAN : /\ [app EXCEPT !.accuracy = b] \in Application
                        /\ [app EXCEPT !.accuracy = b].api_result = app.api_result
                        /\ [app EXCEPT !.authority = b] \in Application
                        /\ [app EXCEPT !.authority = b].api_result = app.api_result
  BY DEF Application
<1>4. \A d \in 0..MaxDocs : /\ [app EXCEPT !.documents = d] \in Application
                           /\ [app EXCEPT !.documents = d].api_result = app.api_result
  BY DEF Application
<1>5. \A n \in 0..MaxNotes : /\ [app EXCEPT !.notes = n] \in Application
                            /\ [app EXCEPT !.notes = n].api_result = app.api_result
  BY DEF Application
<1> QED BY <1>1, <1>2, <1>3, <1>4, <1>5

(* No account holder, no submission and no result at the start.            *)
LEMMA WizardStarts == Init => WizardInv
<1> SUFFICES ASSUME Init PROVE WizardInv
  OBVIOUS
<1>1. Fresh("gate", FALSE) \in Tab /\ Fresh("start", TRUE) \in Tab
  BY DEF Fresh, Tab, Pages
<1>2. Fresh("gate", FALSE).app = Null /\ Fresh("start", TRUE).app = Null
  BY DEF Fresh
<1>3. tabs \in [Tabs -> Tab] /\ \A t \in Tabs : tabs[t].app = Null
  BY <1>1, <1>2 DEF Init
<1>4. store \in Application \cup {Null} /\ (store # Null => store.api_result = 0)
  BY DEF Init
<1>5. TypeOK
  BY <1>3, <1>4 DEF Init, TypeOK
<1>6. CopiesBacked
  BY <1>3, <1>4 DEF Init, CopiesBacked, Backed
<1>7. Apart /\ DeclaredBeforeCreated /\ \A s \in subs : Reached(s)
  BY DEF Init, Apart, DeclaredBeforeCreated
<1> QED BY <1>5, <1>6, <1>7 DEF WizardInv

(* A step of a page: the backend is left alone, no submission begins, and  *)
(* what is written is a copy that was there.                               *)
LEMMA QuietStep ==
  ASSUME WizardInv, UNCHANGED holders, subs' \subseteq subs,
         store' \in Application \cup {Null}, Backed(store'),
         tabs' \in [Tabs -> Tab], \A t \in Tabs : Backed(tabs'[t].app),
         clicks' \in 0..MaxClicks, ghost' \in [stale : BOOLEAN, again : BOOLEAN]
  PROVE  WizardInv'
<1>1. TypeOK'
  BY DEF WizardInv, TypeOK
<1>2. CopiesBacked'
  BY DEF WizardInv, CopiesBacked, Backed, Complete
<1>3. Apart' /\ DeclaredBeforeCreated'
  BY DEF WizardInv, Apart, DeclaredBeforeCreated
<1>4. \A s \in subs' : Reached(s)'
  BY DEF WizardInv, Reached
<1> QED BY <1>1, <1>2, <1>3, <1>4 DEF WizardInv

(* A tab that changes its copy, or whose page is unmounted.                *)
LEMMA TabEdits ==
  ASSUME NEW tab \in Tab
  PROVE  /\ \A app \in Application \cup {Null} : [tab EXCEPT !.app = app] \in Tab
         /\ \A page \in Pages, app \in Application \cup {Null}, b \in BOOLEAN, m \in Nat :
              [tab EXCEPT !.page = page, !.app = app, !.submitting = FALSE,
                          !.loading = FALSE, !.rendered = b, !.mounts = m] \in Tab
<1>1. \A app \in Application \cup {Null} : [tab EXCEPT !.app = app] \in Tab
  BY DEF Tab
<1>2. \A page \in Pages, app \in Application \cup {Null}, b \in BOOLEAN, m \in Nat :
        [tab EXCEPT !.page = page, !.app = app, !.submitting = FALSE,
                    !.loading = FALSE, !.rendered = b, !.mounts = m] \in Tab
  BY DEF Tab
<1> QED BY <1>1, <1>2

(* The tab of another page, with a copy of its own or none.                *)
LEMMA UnmountedTab ==
  ASSUME TypeOK, NEW t \in Tabs, NEW page \in Pages, NEW app \in Application \cup {Null}
  PROVE  /\ Unmounted(t, page) \in Tab /\ Unmounted(t, page).app = Null
         /\ [Unmounted(t, page) EXCEPT !.app = app] \in Tab
         /\ [Unmounted(t, page) EXCEPT !.app = app].app = app
         /\ [Unmounted(t, page) EXCEPT !.rendered = TRUE] \in Tab
         /\ [Unmounted(t, page) EXCEPT !.rendered = TRUE].app = Null
<1>1. tabs[t] \in Tab /\ tabs[t].mounts \in Nat
  BY DEF TypeOK, Tab
<1>2. tabs[t].mounts + 1 \in Nat
  BY <1>1
<1>3. Unmounted(t, page) \in Tab
  BY <1>1, <1>2, TabEdits DEF Unmounted
<1>4. Unmounted(t, page).app = Null
  BY <1>1 DEF Unmounted, Tab
<1>5. [Unmounted(t, page) EXCEPT !.app = app] \in Tab
      /\ [Unmounted(t, page) EXCEPT !.app = app].app = app
  BY <1>3 DEF Tab
<1>6. [Unmounted(t, page) EXCEPT !.rendered = TRUE] \in Tab
      /\ [Unmounted(t, page) EXCEPT !.rendered = TRUE].app = Null
  BY <1>3, <1>4 DEF Tab
<1> QED BY <1>3, <1>4, <1>5, <1>6

(* The users' bound is kept.                                               *)
LEMMA ClickTyped == ASSUME TypeOK, Click PROVE clicks' \in 0..MaxClicks
BY DEF TypeOK, Click

(* Saving keeps the types of the store and of what the properties note.    *)
LEMMA SaveTyped ==
  ASSUME TypeOK, NEW base, NEW r \in Application, saveApplication(base, r)
  PROVE  store' = r /\ ghost' \in [stale : BOOLEAN, again : BOOLEAN]
BY DEF TypeOK, saveApplication

(* updateApplication with a record that keeps the result of the tab's copy.*)
LEMMA UpdateSound ==
  ASSUME WizardInv, NEW t \in Tabs, NEW r \in Application, Click,
         tabs[t].app # Null, r.api_result = tabs[t].app.api_result,
         updateApplication(t, r), UNCHANGED <<subs, holders>>
  PROVE  WizardInv'
<1>1. store' = r /\ ghost' \in [stale : BOOLEAN, again : BOOLEAN]
  BY SaveTyped DEF WizardInv, updateApplication
<1>2. tabs[t] \in Tab
  BY DEF WizardInv, TypeOK
<1>3. [tabs[t] EXCEPT !.app = r] \in Tab /\ [tabs[t] EXCEPT !.app = r].app = r
  BY <1>2, TabEdits DEF Tab
<1>4. tabs' = [tabs EXCEPT ![t] = [tabs[t] EXCEPT !.app = r]]
  BY DEF updateApplication
<1>5. Backed(r)
  BY DEF WizardInv, CopiesBacked, Backed
<1>6. tabs' \in [Tabs -> Tab] /\ \A u \in Tabs : Backed(tabs'[u].app)
  BY <1>3, <1>4, <1>5 DEF WizardInv, TypeOK, CopiesBacked
<1>7. clicks' \in 0..MaxClicks
  BY ClickTyped DEF WizardInv
<1> QED BY <1>1, <1>5, <1>6, <1>7, QuietStep

(* Mounting the layout, which saves the step of the URL.                   *)
LEMMA OpenSound ==
  ASSUME WizardInv, NEW t \in Tabs, NEW step \in Steps, Click, store # Null,
         OpenWizard(t, store, step), UNCHANGED <<subs, holders>>
  PROVE  WizardInv'
<1> DEFINE synced == [store EXCEPT !.current_step = step]
<1>1. store \in Application
  BY DEF WizardInv, TypeOK
<1>2. synced \in Application /\ synced.api_result = store.api_result
  BY <1>1, AppEdits
<1>3. Backed(synced)
  BY <1>2 DEF WizardInv, CopiesBacked, Backed
<1>4. tabs' = [tabs EXCEPT ![t] = [Unmounted(t, "wizard") EXCEPT !.app = synced]]
  BY DEF OpenWizard
<1>5. (UNCHANGED <<store, ghost>>) \/ saveApplication(store, synced)
  BY DEF OpenWizard
<1> HIDE DEF synced
<1>6. /\ [Unmounted(t, "wizard") EXCEPT !.app = synced] \in Tab
      /\ [Unmounted(t, "wizard") EXCEPT !.app = synced].app = synced
  BY <1>2, UnmountedTab DEF WizardInv, Pages
<1>7. tabs' \in [Tabs -> Tab] /\ \A u \in Tabs : Backed(tabs'[u].app)
  BY <1>3, <1>4, <1>6 DEF WizardInv, TypeOK, CopiesBacked
<1>8. /\ store' \in Application \cup {Null} /\ Backed(store')
      /\ ghost' \in [stale : BOOLEAN, again : BOOLEAN]
  <2>1. CASE UNCHANGED <<store, ghost>>
    BY <2>1 DEF WizardInv, TypeOK, CopiesBacked
  <2>2. CASE saveApplication(store, synced)
    BY <1>2, <1>3, <2>2, SaveTyped DEF WizardInv
  <2> QED BY <1>5, <2>1, <2>2
<1>9. clicks' \in 0..MaxClicks
  BY ClickTyped DEF WizardInv
<1> QED BY <1>7, <1>8, <1>9, QuietStep

(* The handlers that write a copy, or mount or leave a page.               *)
LEMMA PageSound ==
  ASSUME WizardInv, NEW t \in Tabs,
         \/ connectWithApiKey(t) \/ handleCreateApplication(t) \/ handleResumeApplication(t)
         \/ OpenOps(t) \/ handleSaveExit(t) \/ AttachDocument(t) \/ Confirm(t)
         \/ handleAddNote(t) \/ \E status \in Statuses : handleStatusChange(t, status)
         \/ \E step \in Steps : BackToWizard(t, step) \/ handleStepClick(t, step)
  PROVE  WizardInv'
<1>1. TypeOK /\ CopiesBacked /\ tabs[t] \in Tab
  BY DEF WizardInv, TypeOK
<1>2. tabs[t].app # Null => tabs[t].app \in Application
  BY <1>1 DEF Tab
<1>3. clicks' \in 0..MaxClicks
  BY <1>1, ClickTyped DEF connectWithApiKey, handleCreateApplication, handleResumeApplication,
     OpenOps, handleSaveExit, AttachDocument, Confirm, handleAddNote, handleStatusChange,
     BackToWizard, handleStepClick
<1>4. CASE connectWithApiKey(t)
  <2>1. [tabs[t] EXCEPT !.tenant = "pending"] \in Tab
        /\ [tabs[t] EXCEPT !.tenant = "pending"].app = tabs[t].app
    BY <1>1 DEF Tab
  <2>2. tabs' = [tabs EXCEPT ![t] = [tabs[t] EXCEPT !.tenant = "pending"]]
    BY <1>4 DEF connectWithApiKey
  <2>3. tabs' \in [Tabs -> Tab] /\ \A u \in Tabs : Backed(tabs'[u].app)
    BY <1>1, <2>1, <2>2 DEF TypeOK, CopiesBacked
  <2>4. UNCHANGED <<store, subs, holders, ghost>>
    BY <1>4 DEF connectWithApiKey
  <2> QED BY <1>1, <1>3, <2>3, <2>4, QuietStep DEF TypeOK, CopiesBacked
<1>5. CASE handleCreateApplication(t)
  <2>1. createNewApplication \in Application /\ createNewApplication.api_result = 0
    BY DEF createNewApplication, Application, Statuses
  <2>2. [Unmounted(t, "wizard") EXCEPT !.app = createNewApplication] \in Tab
        /\ [Unmounted(t, "wizard") EXCEPT !.app = createNewApplication].app = createNewApplication
    BY <1>1, <2>1, UnmountedTab DEF Pages
  <2>3. Backed(createNewApplication)
    BY <2>1 DEF Backed
  <2>4. tabs' \in [Tabs -> Tab] /\ \A u \in Tabs : Backed(tabs'[u].app)
    BY <1>1, <1>5, <2>2, <2>3 DEF handleCreateApplication, TypeOK, CopiesBacked
  <2>5. store' = createNewApplication /\ UNCHANGED <<subs, holders, ghost>>
    BY <1>5 DEF handleCreateApplication
  <2> QED BY <1>1, <1>3, <2>1, <2>3, <2>4, <2>5, QuietStep DEF TypeOK
<1>6. CASE handleResumeApplication(t)
  <2>1. store.current_step \in Steps
    BY <1>1, <1>6 DEF handleResumeApplication, TypeOK, Application
  <2> QED BY <1>6, <2>1, OpenSound DEF handleResumeApplication
<1>7. ASSUME NEW step \in Steps, BackToWizard(t, step) PROVE WizardInv'
  BY <1>7, OpenSound DEF BackToWizard
<1>8. CASE OpenOps(t)
  <2>1. store \in Application \cup {Null} /\ Backed(store)
    BY <1>1 DEF TypeOK, CopiesBacked
  <2>2. /\ [Unmounted(t, "ops") EXCEPT !.app = store] \in Tab
        /\ [Unmounted(t, "ops") EXCEPT !.app = store].app = store
    BY <1>1, <2>1, UnmountedTab DEF Pages
  <2>3. tabs' \in [Tabs -> Tab] /\ \A u \in Tabs : Backed(tabs'[u].app)
    BY <1>1, <1>8, <2>1, <2>2 DEF OpenOps, TypeOK, CopiesBacked
  <2>4. UNCHANGED <<store, subs, holders, ghost>>
    BY <1>8 DEF OpenOps
  <2> QED BY <1>1, <1>3, <2>1, <2>3, <2>4, QuietStep DEF TypeOK
<1>9. CASE handleSaveExit(t)
  <2>1. Unmounted(t, "start") \in Tab /\ Unmounted(t, "start").app = Null
    BY <1>1, UnmountedTab DEF Pages
  <2>2. tabs' \in [Tabs -> Tab] /\ \A u \in Tabs : Backed(tabs'[u].app)
    BY <1>1, <1>9, <2>1 DEF handleSaveExit, TypeOK, CopiesBacked, Backed
  <2>3. UNCHANGED <<store, subs, holders, ghost>>
    BY <1>9 DEF handleSaveExit
  <2> QED BY <1>1, <1>3, <2>2, <2>3, QuietStep DEF TypeOK, CopiesBacked
<1>10. CASE AttachDocument(t)
  <2>1. tabs[t].app # Null /\ tabs[t].app \in Application /\ tabs[t].app.documents < MaxDocs
    BY <1>2, <1>10 DEF AttachDocument, InWizard
  <2>2. tabs[t].app.documents + 1 \in 0..MaxDocs
    BY <2>1 DEF Application
  <2>3. /\ [tabs[t].app EXCEPT !.documents = tabs[t].app.documents + 1] \in Application
        /\ [tabs[t].app EXCEPT !.documents = tabs[t].app.documents + 1].api_result
             = tabs[t].app.api_result
    BY <2>1, <2>2, AppEdits
  <2> QED BY <1>10, <2>1, <2>3, UpdateSound DEF AttachDocument
<1>11. CASE handleAddNote(t)
  <2>1. tabs[t].app # Null /\ tabs[t].app \in Application /\ tabs[t].app.notes < MaxNotes
    BY <1>2, <1>11 DEF handleAddNote, InOps
  <2>2. tabs[t].app.notes + 1 \in 0..MaxNotes
    BY <2>1 DEF Application
  <2>3. /\ [tabs[t].app EXCEPT !.notes = tabs[t].app.notes + 1] \in Application
        /\ [tabs[t].app EXCEPT !.notes = tabs[t].app.notes + 1].api_result
             = tabs[t].app.api_result
    BY <2>1, <2>2, AppEdits
  <2> QED BY <1>11, <2>1, <2>3, UpdateSound DEF handleAddNote
<1>12. CASE Confirm(t)
  <2>1. tabs[t].app # Null /\ tabs[t].app \in Application
    BY <1>2, <1>12 DEF Confirm, InWizard
  <2>2. /\ [tabs[t].app EXCEPT !.accuracy = ~ tabs[t].app.accuracy] \in Application
        /\ [tabs[t].app EXCEPT !.accuracy = ~ tabs[t].app.accuracy].api_result
             = tabs[t].app.api_result
        /\ [tabs[t].app EXCEPT !.authority = ~ tabs[t].app.authority] \in Application
        /\ [tabs[t].app EXCEPT !.authority = ~ tabs[t].app.authority].api_result
             = tabs[t].app.api_result
    BY <2>1, AppEdits
  <2> QED BY <1>12, <2>1, <2>2, UpdateSound DEF Confirm
<1>13. ASSUME NEW status \in Statuses, handleStatusChange(t, status) PROVE WizardInv'
  <2>1. tabs[t].app # Null /\ tabs[t].app \in Application
    BY <1>2, <1>13 DEF handleStatusChange, InOps
  <2>2. /\ [tabs[t].app EXCEPT !.status = status] \in Application
        /\ [tabs[t].app EXCEPT !.status = status].api_result = tabs[t].app.api_result
    BY <2>1, AppEdits
  <2> QED BY <1>13, <2>1, <2>2, UpdateSound DEF handleStatusChange
<1>14. ASSUME NEW step \in Steps, handleStepClick(t, step) PROVE WizardInv'
  <2> DEFINE r == [tabs[t].app EXCEPT !.current_step = step]
             tab == [tabs[t] EXCEPT !.app = r, !.submitting = FALSE,
                                    !.mounts = tabs[t].mounts + 1]
  <2>1. tabs[t].app # Null /\ tabs[t].app \in Application
    BY <1>2, <1>14 DEF handleStepClick, InWizard
  <2>2. r \in Application /\ r.api_result = tabs[t].app.api_result
    BY <2>1, AppEdits
  <2>3. Backed(r)
    BY <1>1, <2>1, <2>2 DEF CopiesBacked, Backed
  <2>4. tabs' = [tabs EXCEPT ![t] = tab]
    BY <1>14 DEF handleStepClick
  <2>5. store' = r /\ ghost' \in [stale : BOOLEAN, again : BOOLEAN]
    BY <1>1, <1>14, <2>2, SaveTyped DEF handleStepClick
  <2>6. tab \in Tab /\ tab.app = r
    <3>1. tabs[t].mounts + 1 \in Nat
      BY <1>1 DEF Tab
    <3> HIDE DEF r
    <3> QED BY <1>1, <2>2, <3>1 DEF Tab
  <2>7. UNCHANGED <<subs, holders>>
    BY <1>14 DEF handleStepClick
  <2> HIDE DEF r, tab
  <2>8. tabs' \in [Tabs -> Tab] /\ \A u \in Tabs : Backed(tabs'[u].app)
    BY <1>1, <2>3, <2>4, <2>6 DEF TypeOK, CopiesBacked
  <2> QED BY <1>3, <2>2, <2>3, <2>5, <2>7, <2>8, QuietStep
<1> QED
  BY <1>4, <1>5, <1>6, <1>7, <1>8, <1>9, <1>10, <1>11, <1>12, <1>13, <1>14

(* Answers and effects that reach a tab only.                              *)
LEMMA TabSound ==
  ASSUME WizardInv, NEW t \in Tabs,
         verifySession(t) \/ StatusEffect(t) \/ fetchSubmissionDetails(t)
  PROVE  WizardInv'
<1>1. TypeOK /\ CopiesBacked /\ tabs[t] \in Tab
  BY DEF WizardInv, TypeOK
<1>2. UNCHANGED <<store, subs, holders, clicks, ghost>>
  BY DEF verifySession, StatusEffect, fetchSubmissionDetails
<1>3. PICK tab \in Tab : tab.app = tabs[t].app /\ tabs' = [tabs EXCEPT ![t] = tab]
  <2>1. ASSUME NEW answer \in {"ok", "rejected"},
               tabs' = [tabs EXCEPT ![t].tenant = answer, ![t].key = @ \/ answer = "ok",
                                    ![t].page = IF @ = "gate" /\ answer = "ok"
                                                THEN "start" ELSE @]
        PROVE  \E tab \in Tab : tab.app = tabs[t].app /\ tabs' = [tabs EXCEPT ![t] = tab]
    <3> DEFINE page == IF tabs[t].page = "gate" /\ answer = "ok" THEN "start" ELSE tabs[t].page
               key  == tabs[t].key \/ answer = "ok"
               tab  == [tabs[t] EXCEPT !.tenant = answer, !.key = key, !.page = page]
    <3>1. page \in Pages /\ key \in BOOLEAN
      BY <1>1 DEF Tab, Pages
    <3>2. tabs' = [tabs EXCEPT ![t] = tab]
      BY <2>1
    <3> HIDE DEF page, key
    <3>3. tab \in Tab /\ tab.app = tabs[t].app
      BY <1>1, <3>1 DEF Tab
    <3> QED BY <3>2, <3>3
  <2>2. /\ [tabs[t] EXCEPT !.loading = TRUE, !.rendered = FALSE] \in Tab
        /\ [tabs[t] EXCEPT !.loading = TRUE, !.rendered = FALSE].app = tabs[t].app
        /\ [tabs[t] EXCEPT !.loading = FALSE, !.rendered = TRUE] \in Tab
        /\ [tabs[t] EXCEPT !.loading = FALSE, !.rendered = TRUE].app = tabs[t].app
    BY <1>1 DEF Tab
  <2>3. CASE verifySession(t)
    BY <2>1, <2>3 DEF verifySession
  <2>4. CASE StatusEffect(t)
    BY <2>2, <2>4 DEF StatusEffect
  <2>5. CASE fetchSubmissionDetails(t)
    BY <2>2, <2>5 DEF fetchSubmissionDetails
  <2> QED BY <2>3, <2>4, <2>5
<1>4. tabs' \in [Tabs -> Tab] /\ \A u \in Tabs : Backed(tabs'[u].app)
  BY <1>1, <1>3 DEF TypeOK, CopiesBacked
<1> QED BY <1>1, <1>2, <1>4, QuietStep DEF TypeOK, CopiesBacked

(* A new account holder disturbs no other and was declared.                *)
LEMMA Appended ==
  ASSUME WizardInv, NEW s \in subs, holders' = Append(holders, NewHolder(s))
  PROVE  /\ holders' \in Seq(Holder) /\ Len(holders') = Len(holders) + 1
         /\ holders'[Len(holders) + 1] = NewHolder(s)
         /\ \A i \in 1..Len(holders) : holders'[i] = holders[i]
         /\ DeclaredBeforeCreated'
         /\ \A i : Complete(i) => Complete(i)'
         /\ \A r \in subs : Reached(r)'
<1>1. s \in Sub /\ s.app \in Application /\ Declared(s.app)
  BY DEF WizardInv, TypeOK, Sub, Reached
<1>2. NewHolder(s) \in Holder /\ NewHolder(s).declared
  <2>1. s.app.documents \in Nat
    BY <1>1 DEF Application
  <2>2. Declared(s.app) \in BOOLEAN
    BY <1>1 DEF Declared
  <2> QED BY <1>1, <2>1, <2>2 DEF NewHolder, Holder
<1>3. holders \in Seq(Holder)
  BY DEF WizardInv, TypeOK
<1>4. /\ holders' \in Seq(Holder) /\ Len(holders') = Len(holders) + 1
      /\ holders'[Len(holders) + 1] = NewHolder(s)
      /\ \A i \in 1..Len(holders) : holders'[i] = holders[i]
  BY <1>2, <1>3, AppendProperties
<1>5. Len(holders) \in Nat /\ 1..Len(holders) \subseteq 1..Len(holders')
      /\ \A i \in 1..Len(holders') : i \in 1..Len(holders) \/ i = Len(holders) + 1
  BY <1>3, <1>4
<1>6. DeclaredBeforeCreated'
  <2>1. \A i \in 1..Len(holders) : holders[i].declared
    BY <1>3 DEF WizardInv, DeclaredBeforeCreated
  <2>2. \A i \in 1..Len(holders') : holders'[i].declared
    BY <1>2, <1>4, <1>5, <2>1
  <2>3. DOMAIN holders' = 1..Len(holders')
    BY <1>4
  <2> QED BY <2>2, <2>3 DEF DeclaredBeforeCreated
<1>7. \A i : Complete(i) => Complete(i)'
  BY <1>4, <1>5 DEF Complete
<1>8. \A r \in subs : Reached(r)'
  BY <1>4, <1>5 DEF WizardInv, Reached, Creating
<1> QED BY <1>4, <1>6, <1>7, <1>8

(* A submission that goes on, or a step that ends some.                    *)
LEMMA SubsStep ==
  ASSUME WizardInv, subs' \subseteq Sub, holders' \in Seq(Holder),
         store' \in Application \cup {Null}, tabs' \in [Tabs -> Tab],
         clicks' \in 0..MaxClicks, ghost' \in [stale : BOOLEAN, again : BOOLEAN],
         \A i : Complete(i) => Complete(i)',
         Backed(store)', \A t \in Tabs : Backed(tabs'[t].app),
         \A r \in subs' : (\E s \in subs : r.app = s.app) /\ Reached(r)',
         Apart', DeclaredBeforeCreated'
  PROVE  WizardInv'
<1>1. TypeOK'
  BY DEF TypeOK
<1>2. \A app : Backed(app) => (app # Null /\ app.api_result # 0 => Complete(app.api_result)')
  BY DEF Backed
<1>3. CopiesBacked'
  <2>1. \A t \in Tabs : Backed(tabs[t].app)'
    BY <1>2 DEF WizardInv, CopiesBacked, Backed
  <2>2. \A r \in subs' : Backed(r.app)'
    BY <1>2 DEF WizardInv, CopiesBacked, Backed
  <2> QED BY <2>1, <2>2 DEF CopiesBacked
<1> QED BY <1>1, <1>3 DEF WizardInv

(* A submission begins with a declared copy and no account holder.         *)
LEMMA SubmitSound ==
  ASSUME WizardInv, NEW t \in Tabs, handleSubmit(t)
  PROVE  WizardInv'
<1>1. TypeOK /\ tabs[t] \in Tab /\ tabs[t].app # Null /\ Declared(tabs[t].app)
  BY DEF handleSubmit, InWizard, WizardInv, TypeOK
<1>2. Submission(t) \in Sub /\ Submission(t).app = tabs[t].app /\ Submission(t).phase = "tenant"
  <2>1. clicks \in Nat
    BY <1>1 DEF TypeOK
  <2>2. tabs[t].app \in Application /\ tabs[t].mounts \in Nat
    BY <1>1 DEF Tab
  <2> QED BY <2>1, <2>2 DEF Submission, Sub
<1>3. subs' = subs \cup {Submission(t)} /\ UNCHANGED <<store, holders>>
  BY DEF handleSubmit
<1>4. subs' \subseteq Sub
  BY <1>1, <1>2, <1>3 DEF TypeOK
<1>5. /\ [tabs[t] EXCEPT !.submitting = TRUE] \in Tab
      /\ [tabs[t] EXCEPT !.submitting = TRUE].app = tabs[t].app
  BY <1>1 DEF Tab
<1>6. tabs' = [tabs EXCEPT ![t] = [tabs[t] EXCEPT !.submitting = TRUE]]
  BY DEF handleSubmit
<1>7. tabs' \in [Tabs -> Tab] /\ \A u \in Tabs : tabs'[u].app = tabs[u].app
  BY <1>1, <1>5, <1>6 DEF TypeOK
<1>8. ghost' \in [stale : BOOLEAN, again : BOOLEAN]
  <2>1. (ghost.again \/ Repeats(t)) \in BOOLEAN
    OBVIOUS
  <2> QED BY <1>1, <2>1 DEF handleSubmit, TypeOK
<1>9. clicks' \in 0..MaxClicks
  BY <1>1, ClickTyped DEF handleSubmit
<1>10. TypeOK'
  BY <1>1, <1>3, <1>4, <1>7, <1>8, <1>9 DEF TypeOK
<1>11. CopiesBacked'
  BY <1>1, <1>2, <1>3, <1>7 DEF WizardInv, CopiesBacked, Backed, Complete
<1>12. Apart'
  BY <1>2, <1>3 DEF WizardInv, Apart, Creating
<1>13. \A s \in subs' : Reached(s)'
  <2>1. Reached(Submission(t))
    BY <1>1, <1>2 DEF Reached, Creating
  <2> QED BY <1>3, <2>1 DEF WizardInv, Reached
<1>14. DeclaredBeforeCreated'
  BY <1>3 DEF WizardInv, DeclaredBeforeCreated
<1> QED BY <1>10, <1>11, <1>12, <1>13, <1>14 DEF WizardInv

(* What a reloaded page holds is the stored application, but for the step. *)
LEMMA ReloadedBacked ==
  ASSUME TypeOK, CopiesBacked, NEW t \in Tabs
  PROVE  Reloaded(t) \in Application \cup {Null} /\ Backed(Reloaded(t))
<1>1. CASE store # Null /\ InWizard(t)
  <2>1. store \in Application /\ tabs[t].app.current_step \in Steps
    BY <1>1 DEF TypeOK, Tab, Application, InWizard
  <2>2. Reloaded(t) = [store EXCEPT !.current_step = tabs[t].app.current_step]
    BY <1>1 DEF Reloaded, InOps, InWizard
  <2>3. Reloaded(t) \in Application /\ Reloaded(t).api_result = store.api_result
    BY <2>1, <2>2, AppEdits
  <2> QED BY <1>1, <2>3 DEF CopiesBacked, Backed
<1>2. CASE ~ (store # Null /\ InWizard(t))
  <2>1. Reloaded(t) \in {store, Null}
    BY <1>2 DEF Reloaded
  <2> QED BY <2>1 DEF TypeOK, CopiesBacked, Backed
<1> QED BY <1>1, <1>2

(* A reload, after which a request may still have made an account holder.  *)
LEMMA ReloadSound ==
  ASSUME WizardInv, NEW t \in Tabs, Reload(t)
  PROVE  WizardInv'
<1> DEFINE page == IF store = Null THEN "start" ELSE tabs[t].page
           app == Reloaded(t)
           tab == [Fresh(page, TRUE) EXCEPT !.app = app,
                     !.rendered = page = "status", !.mounts = tabs[t].mounts + 1]
<1>1. TypeOK /\ CopiesBacked /\ tabs[t] \in Tab
  BY DEF WizardInv, TypeOK
<1>2. tabs' = [tabs EXCEPT ![t] = tab] /\ subs' \subseteq subs
  BY DEF Reload
<1>3. (UNCHANGED <<store, ghost>>) \/ (app # Null /\ saveApplication(store, app))
  BY DEF Reload
<1>4. clicks' \in 0..MaxClicks
  BY <1>1, ClickTyped DEF Reload
<1>5. app \in Application \cup {Null} /\ Backed(app)
  BY <1>1, ReloadedBacked DEF WizardInv
<1> HIDE DEF app
<1>6. tab \in Tab /\ tab.app = app
  <2>1. page \in Pages /\ tabs[t].mounts + 1 \in Nat
    BY <1>1 DEF Tab, Pages
  <2>2. (page = "status") \in BOOLEAN
    OBVIOUS
  <2> HIDE DEF page
  <2>3. Fresh(page, TRUE) \in Tab
    BY <2>1 DEF Fresh, Tab
  <2> QED BY <1>5, <2>1, <2>2, <2>3 DEF Tab
<1> HIDE DEF tab, page
<1>7. tabs' \in [Tabs -> Tab] /\ \A u \in Tabs : Backed(tabs'[u].app)
  BY <1>1, <1>2, <1>5, <1>6 DEF TypeOK, CopiesBacked
<1>8. /\ store' \in Application \cup {Null} /\ Backed(store')
      /\ ghost' \in [stale : BOOLEAN, again : BOOLEAN]
  <2>1. CASE UNCHANGED <<store, ghost>>
    BY <1>1, <2>1 DEF TypeOK, CopiesBacked
  <2>2. CASE app # Null /\ saveApplication(store, app)
    BY <1>1, <1>5, <2>2, SaveTyped
  <2> QED BY <1>3, <2>1, <2>2
<1>9. CASE UNCHANGED holders
  BY <1>2, <1>4, <1>7, <1>8, <1>9, QuietStep
<1>10. ASSUME NEW s \in subs, holders' = Append(holders, NewHolder(s)) PROVE WizardInv'
  <2>1. /\ holders' \in Seq(Holder) /\ DeclaredBeforeCreated'
        /\ \A i : Complete(i) => Complete(i)'
        /\ \A r \in subs : Reached(r)'
    BY <1>10, Appended
  <2>2. Backed(store)'
    BY <1>8, <2>1 DEF Backed
  <2>3. Apart' /\ subs' \subseteq Sub
    BY <1>1, <1>2 DEF WizardInv, Apart, TypeOK
  <2>4. \A r \in subs' : (\E q \in subs : r.app = q.app) /\ Reached(r)'
    BY <1>2, <2>1
  <2> QED BY <1>4, <1>7, <1>8, <2>1, <2>2, <2>3, <2>4, SubsStep
<1> QED BY <1>9, <1>10 DEF Reload

(* A submission s goes on as q.                                            *)
LEMMA GoesOn ==
  ASSUME WizardInv, NEW s \in subs, NEW q \in Sub, q.app = s.app,
         subs' = (subs \ {s}) \cup {q}, holders' \in Seq(Holder),
         UNCHANGED <<store, tabs, clicks, ghost>>,
         \A i : Complete(i) => Complete(i)', DeclaredBeforeCreated',
         \A r \in subs \ {s} : Reached(r)', Reached(q)',
         q.phase \in Creating =>
           \A r \in subs \ {s} : r.phase \in Creating => r.holder # q.holder
  PROVE  WizardInv'
<1>1. TypeOK /\ CopiesBacked
  BY DEF WizardInv
<1>2. subs' \subseteq Sub
  BY <1>1 DEF TypeOK
<1>3. Backed(store)'
  BY <1>1 DEF CopiesBacked, Backed
<1>4. \A t \in Tabs : Backed(tabs'[t].app)
  BY <1>1 DEF CopiesBacked
<1>5. \A r \in subs' : (\E p \in subs : r.app = p.app) /\ Reached(r)'
  <2>1. ASSUME NEW r \in subs' PROVE (\E p \in subs : r.app = p.app) /\ Reached(r)'
    <3>1. CASE r \in subs \ {s}
      BY <3>1
    <3>2. CASE r = q
      BY <3>2
    <3> QED BY <3>1, <3>2
  <2> QED BY <2>1
<1>6. Apart'
  <2>1. Apart
    BY DEF WizardInv
  <2> SUFFICES ASSUME NEW p \in subs', NEW r \in subs', p.phase \in Creating,
                      r.phase \in Creating, p # r
               PROVE  p.holder # r.holder
    BY DEF Apart
  <2>2. CASE p \in subs \ {s} /\ r \in subs \ {s}
    BY <2>1, <2>2 DEF Apart
  <2>3. CASE p = q \/ r = q
    BY <2>3
  <2> QED BY <2>2, <2>3
<1> QED BY <1>1, <1>2, <1>3, <1>4, <1>5, <1>6, SubsStep DEF TypeOK

(* It goes on to the phase p with the backend as it is.                    *)
LEMMA PhaseStep ==
  ASSUME WizardInv, NEW s \in subs,
         NEW p \in {"holder", "kyc", "failed"}, Moved(s, p),
         UNCHANGED <<store, tabs, holders, clicks, ghost>>,
         p = "kyc" => /\ s.phase = "documents"
                      /\ holders[s.holder].documents = s.app.documents
  PROVE  WizardInv'
<1> DEFINE q == [s EXCEPT !.phase = p]
<1>1. s \in Sub
  BY DEF WizardInv, TypeOK
<1>2. q \in Sub /\ q.app = s.app /\ q.phase = p /\ q.holder = s.holder
  BY <1>1 DEF Sub
<1>3. subs' = (subs \ {s}) \cup {q}
  BY DEF Moved
<1> HIDE DEF q
<1>4. \A r \in subs : Reached(r)
  BY DEF WizardInv
<1>5. Reached(q)
  BY <1>2, <1>4 DEF Reached, Creating
<1>6. \A r \in subs : Reached(r)'
  BY <1>4 DEF Reached
<1>7. Reached(q)'
  BY <1>5 DEF Reached
<1>8. q.phase \in Creating =>
        \A r \in subs \ {s} : r.phase \in Creating => r.holder # q.holder
  BY <1>2 DEF WizardInv, Apart, Creating
<1>9. holders' \in Seq(Holder) /\ DeclaredBeforeCreated' /\ \A i : Complete(i) => Complete(i)'
  BY DEF WizardInv, TypeOK, DeclaredBeforeCreated, Complete
<1> QED BY <1>2, <1>3, <1>6, <1>7, <1>8, <1>9, GoesOn

(* It goes on as q after its account holder changed to h.                  *)
LEMMA HolderStep ==
  ASSUME WizardInv, NEW s \in subs, s.phase \in {"documents", "kyc"},
         NEW h \in Holder, holders' = [holders EXCEPT ![s.holder] = h],
         h.declared = holders[s.holder].declared, h.wanted = holders[s.holder].wanted,
         s.phase = "kyc" => h.documents = holders[s.holder].documents /\ h.kyc,
         s.phase = "documents" => ~ h.kyc,
         NEW q \in Sub, q.app = s.app, q.holder = s.holder,
         q.phase \in {"failed", IF s.phase = "kyc" THEN "ok" ELSE "documents"},
         subs' = (subs \ {s}) \cup {q},
         UNCHANGED <<store, tabs, clicks, ghost>>
  PROVE  WizardInv'
<1>1. /\ holders \in Seq(Holder) /\ s \in Sub /\ s.holder \in 1..Len(holders) /\ Reached(s)
      /\ s.phase \in Creating
  BY DEF WizardInv, TypeOK, Reached, Creating
<1>2. /\ holders' \in Seq(Holder) /\ Len(holders') = Len(holders)
      /\ DOMAIN holders' = DOMAIN holders /\ holders'[s.holder] = h
      /\ \A i \in 1..Len(holders) : i # s.holder => holders'[i] = holders[i]
  BY <1>1
<1>3. DeclaredBeforeCreated'
  BY <1>1, <1>2 DEF WizardInv, DeclaredBeforeCreated
<1>4. \A i : Complete(i) => Complete(i)'
  <2>1. ASSUME NEW i, Complete(i) PROVE Complete(i)'
    <3>1. CASE i = s.holder
      BY <1>1, <1>2, <2>1, <3>1 DEF Complete, Reached
    <3>2. CASE i # s.holder
      BY <1>2, <2>1, <3>2 DEF Complete
    <3> QED BY <3>1, <3>2
  <2> QED BY <2>1
<1>5. \A r \in subs \ {s} : r.phase \in Creating => r.holder # s.holder
  BY <1>1 DEF WizardInv, Apart
<1>6. \A r \in subs \ {s} : Reached(r)'
  BY <1>2, <1>5 DEF WizardInv, Reached, Creating
<1>7. Reached(q)'
  BY <1>1, <1>2 DEF Reached, Creating
<1> QED BY <1>2, <1>3, <1>4, <1>5, <1>6, <1>7, GoesOn

(* The first request of a submission; its answer may be lost.              *)
LEMMA CreateHolderSound ==
  ASSUME WizardInv, NEW s \in subs, CreateAccountHolder(s)
  PROVE  WizardInv'
<1>1. s \in Sub /\ holders \in Seq(Holder) /\ Len(holders) \in Nat
  BY DEF WizardInv, TypeOK
<1>2. s.phase = "holder" /\ UNCHANGED <<store, tabs, clicks, ghost>>
  BY DEF CreateAccountHolder
<1>3. ASSUME holders' = Append(holders, NewHolder(s)), NEW p \in {"documents", "failed"},
             subs' = (subs \ {s}) \cup {[s EXCEPT !.phase = p, !.holder = Len(holders) + 1]}
      PROVE  WizardInv'
  <2>0. PICK n \in Nat : n = Len(holders) + 1
    BY <1>1
  <2> DEFINE q == [s EXCEPT !.phase = p, !.holder = n]
  <2>1. q \in Sub /\ q.app = s.app /\ q.phase = p /\ q.holder = n
    BY <1>1 DEF Sub
  <2>2. subs' = (subs \ {s}) \cup {q}
    BY <1>3, <2>0
  <2> HIDE DEF q
  <2>3. /\ holders' \in Seq(Holder) /\ Len(holders') = Len(holders) + 1
        /\ holders'[n] = NewHolder(s)
        /\ DeclaredBeforeCreated' /\ \A i : Complete(i) => Complete(i)'
        /\ \A r \in subs : Reached(r)'
    BY <1>3, <2>0, Appended
  <2>4. \A r \in subs : r.phase \in Creating => r.holder \in 1..Len(holders)
    BY DEF WizardInv, Reached
  <2>5. NewHolder(s).wanted = s.app.documents /\ ~ NewHolder(s).kyc
    BY DEF NewHolder
  <2>6. Declared(q.app)
    BY <2>1 DEF WizardInv, Reached
  <2>7. q.holder \in 1..Len(holders')
    BY <1>1, <2>0, <2>1, <2>3
  <2>8. Reached(q)'
    BY <2>1, <2>3, <2>5, <2>6, <2>7 DEF Reached, Creating
  <2>9. \A r \in subs \ {s} : r.phase \in Creating => r.holder # q.holder
    BY <1>1, <2>0, <2>1, <2>4
  <2> QED BY <1>2, <2>1, <2>2, <2>3, <2>8, <2>9, GoesOn
<1>4. CASE Moved(s, "failed") /\ UNCHANGED holders
  BY <1>2, <1>4, PhaseStep
<1> QED BY <1>3, <1>4 DEF CreateAccountHolder

(* The requests for the documents, counted on the account holder.          *)
LEMMA CreateDocumentSound ==
  ASSUME WizardInv, NEW s \in subs, CreateDocument(s)
  PROVE  WizardInv'
<1>1. /\ s.phase = "documents" /\ UNCHANGED <<store, tabs, clicks, ghost>>
  BY DEF CreateDocument
<1>2. /\ s \in Sub /\ holders \in Seq(Holder) /\ s.holder \in 1..Len(holders)
      /\ ~ holders[s.holder].kyc
  BY <1>1 DEF WizardInv, TypeOK, Reached, Creating
<1>3. CASE holders[s.holder].documents = s.app.documents /\ Moved(s, "kyc") /\ UNCHANGED holders
  BY <1>1, <1>3, PhaseStep
<1>4. CASE Moved(s, "failed") /\ UNCHANGED holders
  BY <1>1, <1>4, PhaseStep
<1>5. CASE /\ holders' = [holders EXCEPT ![s.holder].documents = @ + 1]
           /\ UNCHANGED subs \/ Moved(s, "failed")
  <2> DEFINE h == [holders[s.holder] EXCEPT !.documents = holders[s.holder].documents + 1]
             q == [s EXCEPT !.phase = "failed"]
  <2>1. holders[s.holder] \in Holder
    BY <1>2
  <2>2. /\ h \in Holder /\ h.declared = holders[s.holder].declared
        /\ h.wanted = holders[s.holder].wanted /\ h.kyc = holders[s.holder].kyc
    BY <2>1 DEF Holder
  <2>3. holders' = [holders EXCEPT ![s.holder] = h]
    BY <1>5
  <2>4. q \in Sub /\ q.app = s.app /\ q.phase = "failed" /\ q.holder = s.holder
    BY <1>2 DEF Sub
  <2>5. subs' = (subs \ {s}) \cup {s} \/ subs' = (subs \ {s}) \cup {q}
    BY <1>5 DEF Moved
  <2> HIDE DEF h, q
  <2> QED BY <1>1, <1>2, <2>2, <2>3, <2>4, <2>5, HolderStep
<1> QED BY <1>3, <1>4, <1>5 DEF CreateDocument

(* The last request, after which the account holder is complete.           *)
LEMMA CreateKycSound ==
  ASSUME WizardInv, NEW s \in subs, CreateKycRequirement(s)
  PROVE  WizardInv'
<1>1. s.phase = "kyc" /\ UNCHANGED <<store, tabs, clicks, ghost>>
  BY DEF CreateKycRequirement
<1>2. s \in Sub /\ holders \in Seq(Holder) /\ s.holder \in 1..Len(holders)
  BY <1>1 DEF WizardInv, TypeOK, Reached, Creating
<1>3. CASE Moved(s, "failed") /\ UNCHANGED holders
  BY <1>1, <1>3, PhaseStep
<1>4. ASSUME holders' = [holders EXCEPT ![s.holder].kyc = TRUE],
             NEW p \in {"ok", "failed"}, Moved(s, p)
      PROVE  WizardInv'
  <2> DEFINE h == [holders[s.holder] EXCEPT !.kyc = TRUE]
             q == [s EXCEPT !.phase = p]
  <2>1. holders[s.holder] \in Holder
    BY <1>2
  <2>2. /\ h \in Holder /\ h.declared = holders[s.holder].declared /\ h.kyc
        /\ h.wanted = holders[s.holder].wanted
        /\ h.documents = holders[s.holder].documents
    BY <2>1 DEF Holder
  <2>3. q \in Sub /\ q.app = s.app /\ q.phase = p /\ q.holder = s.holder
    BY <1>2 DEF Sub
  <2>4. holders' = [holders EXCEPT ![s.holder] = h]
    BY <1>4
  <2>5. subs' = (subs \ {s}) \cup {q}
    BY <1>4 DEF Moved
  <2> HIDE DEF h, q
  <2> QED BY <1>1, <2>2, <2>3, <2>4, <2>5, HolderStep
<1> QED BY <1>3, <1>4 DEF CreateKycRequirement

(* The last step of a submission, which writes the copy of the click with  *)
(* the account holder it made, or gives the button back.                   *)
LEMMA EndSound ==
  ASSUME WizardInv, NEW s \in subs, Submitted(s) \/ SubmissionFailed(s)
  PROVE  WizardInv'
<1>1. TypeOK /\ CopiesBacked /\ s \in Sub /\ Reached(s) /\ s.tab \in Tabs
      /\ s.app \in Application /\ s.holder \in Nat
  BY DEF WizardInv, TypeOK, Sub
<1>2. subs' \subseteq subs /\ UNCHANGED <<holders, clicks>>
  BY DEF Submitted, SubmissionFailed
<1>3. CASE Submitted(s)
  <2> DEFINE r == [s.app EXCEPT !.status = "SUBMITTED", !.api_result = s.holder]
             tab == [Unmounted(s.tab, "status") EXCEPT !.rendered = TRUE]
  <2>1. r \in Application /\ r.api_result = s.holder
    BY <1>1 DEF Application, Statuses
  <2>2. Complete(s.holder)
    BY <1>1, <1>3 DEF Submitted, Reached, Complete, Creating
  <2>3. saveApplication(s.app, r) /\ tabs' = [tabs EXCEPT ![s.tab] = tab]
    BY <1>3 DEF Submitted
  <2>4. tab \in Tab /\ tab.app = Null
    BY <1>1, UnmountedTab DEF Pages
  <2> HIDE DEF r, tab
  <2>5. store' = r /\ ghost' \in [stale : BOOLEAN, again : BOOLEAN]
    BY <1>1, <2>1, <2>3, SaveTyped
  <2>6. Backed(r)
    BY <2>1, <2>2 DEF Backed
  <2>7. tabs' \in [Tabs -> Tab] /\ \A t \in Tabs : Backed(tabs'[t].app)
    BY <1>1, <2>3, <2>4 DEF TypeOK, CopiesBacked, Backed
  <2> QED BY <1>1, <1>2, <2>1, <2>5, <2>6, <2>7, QuietStep DEF TypeOK
<1>4. CASE SubmissionFailed(s)
  <2> DEFINE b == tabs[s.tab].submitting /\ tabs[s.tab].mounts # s.mount
             tab == [tabs[s.tab] EXCEPT !.submitting = b]
  <2>1. tabs' = [tabs EXCEPT ![s.tab] = tab] /\ UNCHANGED <<store, ghost>>
    BY <1>4 DEF SubmissionFailed
  <2>2. b \in BOOLEAN /\ tabs[s.tab] \in Tab
    BY <1>1 DEF TypeOK
  <2> HIDE DEF b
  <2>3. tab \in Tab /\ tab.app = tabs[s.tab].app
    BY <2>2 DEF Tab
  <2> HIDE DEF tab
  <2>4. tabs' \in [Tabs -> Tab] /\ \A t \in Tabs : Backed(tabs'[t].app)
    BY <1>1, <2>1, <2>3 DEF TypeOK, CopiesBacked
  <2> QED BY <1>1, <1>2, <2>1, <2>4, QuietStep DEF TypeOK, CopiesBacked
<1> QED BY <1>3, <1>4

(* Every action keeps the invariant.                                       *)
LEMMA WizardStep == WizardInv /\ [Next]_vars => WizardInv'
<1> SUFFICES ASSUME WizardInv, [Next]_vars PROVE WizardInv'
  OBVIOUS
<1>1. CASE UNCHANGED vars
  BY <1>1, QuietStep DEF vars, WizardInv, TypeOK, CopiesBacked
<1>2. ASSUME NEW t \in Tabs, Reload(t) PROVE WizardInv'
  BY <1>2, ReloadSound
<1>3. ASSUME NEW t \in Tabs, handleSubmit(t) PROVE WizardInv'
  BY <1>3, SubmitSound
<1>4. ASSUME NEW t \in Tabs,
             \/ connectWithApiKey(t) \/ handleCreateApplication(t) \/ handleResumeApplication(t)
             \/ OpenOps(t) \/ handleSaveExit(t) \/ AttachDocument(t) \/ Confirm(t)
             \/ handleAddNote(t) \/ \E status \in Statuses : handleStatusChange(t, status)
             \/ \E step \in Steps : BackToWizard(t, step) \/ handleStepClick(t, step)
      PROVE  WizardInv'
  BY <1>4, PageSound
<1>5. ASSUME NEW t \in Tabs, verifySession(t) \/ StatusEffect(t) \/ fetchSubmissionDetails(t)
      PROVE  WizardInv'
  BY <1>5, TabSound
<1>6. ASSUME NEW s \in subs, resolveTenantId(s) PROVE WizardInv'
  BY <1>6, PhaseStep DEF resolveTenantId
<1>7. ASSUME NEW s \in subs,
             \/ CreateAccountHolder(s) \/ CreateDocument(s) \/ CreateKycRequirement(s)
             \/ Submitted(s) \/ SubmissionFailed(s)
      PROVE  WizardInv'
  BY <1>7, CreateHolderSound, CreateDocumentSound, CreateKycSound, EndSound
<1>8. CASE User
  BY <1>2, <1>3, <1>4, <1>8 DEF User
<1>9. CASE System
  BY <1>5, <1>6, <1>7, <1>9 DEF System
<1> QED BY <1>1, <1>8, <1>9 DEF Next

(* Whatever tabs, reloads and failed requests do: an account holder was    *)
(* declared when its submission was clicked, and a stored result stands    *)
(* for an account holder with all its documents and its requirement.       *)
THEOREM HoldersAreSound == Spec => []HoldersSound
<1>1. WizardInv => HoldersSound
  BY DEF WizardInv, HoldersSound, CopiesBacked, Backed, Complete, ResultComplete
<1> QED BY <1>1, WizardStarts, WizardStep, PTL DEF Spec

(* The button of a submission's page stays disabled while the page is      *)
(* mounted, so that a mount has one submission.                            *)
Disabled ==
  /\ \A s \in subs : /\ s.mount <= tabs[s.tab].mounts
                     /\ s.mount = tabs[s.tab].mounts => tabs[s.tab].submitting
  /\ \A r, s \in subs : r.tab = s.tab /\ r.mount = s.mount => r = s

(* As long as nothing was submitted again there is one submission, and an  *)
(* account holder only after its request.                                  *)
Single ==
  ~ ghost.again =>
    /\ \A r, s \in subs : r = s
    /\ Len(holders) <= 1
    /\ \A s \in subs : s.phase \in {"tenant", "holder"} => holders = <<>>

(* A page counts its mounts; within one the button is left alone.          *)
Remounted ==
  \A u \in Tabs : \/ /\ tabs'[u].mounts = tabs[u].mounts
                     /\ tabs'[u].submitting = tabs[u].submitting
                  \/ tabs'[u].mounts > tabs[u].mounts

(* A step in which no submission begins or goes on.                        *)
LEMMA QuietOnce ==
  ASSUME TypeOK, TypeOK', Disabled, Single, Remounted, subs' \subseteq subs,
         UNCHANGED holders, ghost'.again = ghost.again
  PROVE  Disabled' /\ Single'
<1>1. \A s \in subs : s.tab \in Tabs /\ s.mount \in Nat
  BY DEF TypeOK, Sub
<1>2. \A u \in Tabs : tabs[u].mounts \in Nat /\ tabs'[u].mounts \in Nat
  BY DEF TypeOK, Tab
<1>3. Disabled'
  BY <1>1, <1>2 DEF Disabled, Remounted
<1>4. Single'
  BY DEF Single
<1> QED BY <1>3, <1>4

(* What unmounting a page does to its tab.                                 *)
LEMMA UnmountedCounts ==
  ASSUME TypeOK, NEW t \in Tabs, NEW page, NEW app, NEW b
  PROVE  /\ Unmounted(t, page).mounts > tabs[t].mounts
         /\ [Unmounted(t, page) EXCEPT !.app = app].mounts > tabs[t].mounts
         /\ [Unmounted(t, page) EXCEPT !.rendered = b].mounts > tabs[t].mounts
<1>1. tabs[t] \in Tab /\ tabs[t].mounts \in Nat
  BY DEF TypeOK, Tab
<1>2. /\ Unmounted(t, page).mounts = tabs[t].mounts + 1
      /\ [Unmounted(t, page) EXCEPT !.app = app].mounts = tabs[t].mounts + 1
      /\ [Unmounted(t, page) EXCEPT !.rendered = b].mounts = tabs[t].mounts + 1
  BY <1>1 DEF Unmounted, Tab
<1> QED BY <1>1, <1>2

(* A step that writes one tab.                                             *)
LEMMA OneTab ==
  ASSUME TypeOK, NEW t \in Tabs, NEW tab, tabs' = [tabs EXCEPT ![t] = tab],
         \/ tab.mounts = tabs[t].mounts /\ tab.submitting = tabs[t].submitting
         \/ tab.mounts > tabs[t].mounts
  PROVE  Remounted
<1>1. ASSUME NEW u \in Tabs
      PROVE  \/ tabs'[u].mounts = tabs[u].mounts /\ tabs'[u].submitting = tabs[u].submitting
             \/ tabs'[u].mounts > tabs[u].mounts
  <2>1. CASE u = t
    BY <2>1 DEF TypeOK
  <2>2. CASE u # t
    BY <2>2 DEF TypeOK
  <2> QED BY <2>1, <2>2
<1> QED BY <1>1 DEF Remounted

(* Saving notes an old copy and nothing else.                              *)
LEMMA SaveNotes ==
  ASSUME TypeOK, NEW base, NEW r, saveApplication(base, r)
  PROVE  ghost'.again = ghost.again
BY DEF TypeOK, saveApplication

(* The handlers of PageSound begin no submission.                          *)
LEMMA PageOnce ==
  ASSUME TypeOK, NEW t \in Tabs,
         \/ connectWithApiKey(t) \/ handleCreateApplication(t) \/ handleResumeApplication(t)
         \/ OpenOps(t) \/ handleSaveExit(t) \/ AttachDocument(t) \/ Confirm(t)
         \/ handleAddNote(t) \/ \E status \in Statuses : handleStatusChange(t, status)
         \/ \E step \in Steps : BackToWizard(t, step) \/ handleStepClick(t, step)
  PROVE  Remounted /\ UNCHANGED <<subs, holders>> /\ ghost'.again = ghost.again
<1>1. tabs[t] \in Tab /\ tabs[t].mounts \in Nat
  BY DEF TypeOK, Tab
<1>2. UNCHANGED <<subs, holders>>
  BY DEF connectWithApiKey, handleCreateApplication, handleResumeApplication,
     OpenOps, handleSaveExit, AttachDocument, Confirm, handleAddNote, handleStatusChange,
     BackToWizard, handleStepClick
<1>3. ghost'.again = ghost.again
  BY SaveNotes DEF connectWithApiKey, handleCreateApplication, handleResumeApplication,
     OpenOps, handleSaveExit, AttachDocument, Confirm, handleAddNote, handleStatusChange,
     BackToWizard, handleStepClick, OpenWizard, updateApplication
<1> SUFFICES Remounted
  BY <1>2, <1>3
<1>4. ASSUME NEW r, updateApplication(t, r) PROVE Remounted
  <2>1. /\ [tabs[t] EXCEPT !.app = r].mounts = tabs[t].mounts
        /\ [tabs[t] EXCEPT !.app = r].submitting = tabs[t].submitting
    BY <1>1 DEF Tab
  <2>2. tabs' = [tabs EXCEPT ![t] = [tabs[t] EXCEPT !.app = r]]
    BY <1>4 DEF updateApplication
  <2> QED BY <2>1, <2>2, OneTab
<1>5. ASSUME NEW page, NEW app,
             tabs' = [tabs EXCEPT ![t] = [Unmounted(t, page) EXCEPT !.app = app]]
      PROVE  Remounted
  BY <1>5, UnmountedCounts, OneTab
<1>6. CASE handleSaveExit(t)
  BY <1>6, UnmountedCounts, OneTab DEF handleSaveExit
<1>7. CASE connectWithApiKey(t)
  <2>1. /\ [tabs[t] EXCEPT !.tenant = "pending"].mounts = tabs[t].mounts
        /\ [tabs[t] EXCEPT !.tenant = "pending"].submitting = tabs[t].submitting
    BY <1>1 DEF Tab
  <2>2. tabs' = [tabs EXCEPT ![t] = [tabs[t] EXCEPT !.tenant = "pending"]]
    BY <1>7 DEF connectWithApiKey
  <2> QED BY <2>1, <2>2, OneTab
<1>8. ASSUME NEW step \in Steps, handleStepClick(t, step) PROVE Remounted
  <2> DEFINE tab == [tabs[t] EXCEPT !.app.current_step = step, !.submitting = FALSE,
                                    !.mounts = tabs[t].mounts + 1]
  <2>1. tab.mounts > tabs[t].mounts
    BY <1>1 DEF Tab
  <2>2. tabs' = [tabs EXCEPT ![t] = tab]
    BY <1>8 DEF handleStepClick
  <2> QED BY <2>1, <2>2, OneTab
<1>9. CASE AttachDocument(t) \/ Confirm(t) \/ handleAddNote(t)
  BY <1>4, <1>9 DEF AttachDocument, Confirm, handleAddNote
<1>10. ASSUME NEW status \in Statuses, handleStatusChange(t, status) PROVE Remounted
  BY <1>4, <1>10 DEF handleStatusChange
<1>11. CASE handleCreateApplication(t) \/ handleResumeApplication(t) \/ OpenOps(t)
  BY <1>5, <1>11 DEF handleCreateApplication, handleResumeApplication, OpenOps, OpenWizard
<1>12. ASSUME NEW step \in Steps, BackToWizard(t, step) PROVE Remounted
  BY <1>5, <1>12 DEF BackToWizard, OpenWizard
<1> QED BY <1>6, <1>7, <1>8, <1>9, <1>10, <1>11, <1>12

(* Answers and effects of TabSound neither.                                *)
LEMMA TabOnce ==
  ASSUME TypeOK, NEW t \in Tabs,
         verifySession(t) \/ StatusEffect(t) \/ fetchSubmissionDetails(t)
  PROVE  Remounted /\ UNCHANGED <<subs, holders, ghost>>
<1>1. tabs[t] \in Tab
  BY DEF TypeOK
<1>2. UNCHANGED <<subs, holders, ghost>>
  BY DEF verifySession, StatusEffect, fetchSubmissionDetails
<1> SUFFICES Remounted
  BY <1>2
<1>3. ASSUME NEW answer, verifySession(t),
             tabs' = [tabs EXCEPT ![t].tenant = answer, ![t].key = @ \/ answer = "ok",
                                  ![t].page = IF @ = "gate" /\ answer = "ok"
                                              THEN "start" ELSE @]
      PROVE  Remounted
  <2> DEFINE page == IF tabs[t].page = "gate" /\ answer = "ok" THEN "start" ELSE tabs[t].page
             key  == tabs[t].key \/ answer = "ok"
             tab  == [tabs[t] EXCEPT !.tenant = answer, !.key = key, !.page = page]
  <2>1. tabs' = [tabs EXCEPT ![t] = tab]
    BY <1>3
  <2> HIDE DEF page, key
  <2>2. tab.mounts = tabs[t].mounts /\ tab.submitting = tabs[t].submitting
    BY <1>1 DEF Tab
  <2> HIDE DEF tab
  <2> QED BY <2>1, <2>2, OneTab
<1>4. \A b, c : /\ [tabs[t] EXCEPT !.loading = b, !.rendered = c].mounts = tabs[t].mounts
                /\ [tabs[t] EXCEPT !.loading = b, !.rendered = c].submitting
                     = tabs[t].submitting
  BY <1>1 DEF Tab
<1>5. ASSUME NEW b, NEW c,
             tabs' = [tabs EXCEPT ![t] = [tabs[t] EXCEPT !.loading = b, !.rendered = c]]
      PROVE  Remounted
  BY <1>4, <1>5, OneTab
<1>6. CASE StatusEffect(t)
  BY <1>5, <1>6 DEF StatusEffect
<1>7. CASE fetchSubmissionDetails(t)
  BY <1>5, <1>7 DEF fetchSubmissionDetails
<1> QED BY <1>3, <1>6, <1>7 DEF verifySession

(* A submission begins on an enabled button: nothing runs from this mount, *)
(* and unless it is noted as a repetition, nothing ran before.             *)
LEMMA SubmitOnce ==
  ASSUME TypeOK, Disabled, Single, NEW t \in Tabs, handleSubmit(t)
  PROVE  Disabled' /\ Single'
<1> DEFINE s0 == Submission(t)
<1>1. /\ subs' = subs \cup {s0} /\ UNCHANGED holders /\ ~ tabs[t].submitting
      /\ tabs' = [tabs EXCEPT ![t] = [tabs[t] EXCEPT !.submitting = TRUE]]
  BY DEF handleSubmit
<1>2. ghost'.again = (ghost.again \/ Repeats(t))
  BY DEF handleSubmit, TypeOK
<1>3. s0.tab = t /\ s0.mount = tabs[t].mounts /\ s0.phase = "tenant"
  BY DEF Submission
<1>4. tabs[t] \in Tab /\ tabs[t].mounts \in Nat /\ \A s \in subs : s.tab \in Tabs
  BY DEF TypeOK, Tab, Sub
<1>5. /\ [tabs[t] EXCEPT !.submitting = TRUE].mounts = tabs[t].mounts
      /\ [tabs[t] EXCEPT !.submitting = TRUE].submitting
  BY <1>4 DEF Tab
<1>6. \A s \in subs : ~ (s.tab = t /\ s.mount = tabs[t].mounts)
  BY <1>1 DEF Disabled
<1> HIDE DEF s0
<1>7. \A u \in Tabs : /\ tabs'[u].mounts = tabs[u].mounts
                      /\ tabs[u].submitting => tabs'[u].submitting
  BY <1>1, <1>5 DEF TypeOK
<1>8. tabs'[t].submitting
  BY <1>1, <1>5 DEF TypeOK
<1>9. Disabled'
  <2>1. ASSUME NEW s \in subs'
        PROVE  /\ s.mount <= tabs'[s.tab].mounts
               /\ s.mount = tabs'[s.tab].mounts => tabs'[s.tab].submitting
    <3>1. CASE s \in subs
      BY <1>4, <1>7, <3>1 DEF Disabled
    <3>2. CASE s = s0
      BY <1>3, <1>4, <1>7, <1>8, <3>2
    <3> QED BY <1>1, <3>1, <3>2
  <2>2. \A r, s \in subs' : r.tab = s.tab /\ r.mount = s.mount => r = s
    BY <1>1, <1>3, <1>6 DEF Disabled
  <2> QED BY <2>1, <2>2 DEF Disabled
<1>10. Single'
  <2>1. CASE ghost.again \/ Repeats(t)
    BY <1>2, <2>1 DEF Single
  <2>2. CASE ~ ghost.again /\ ~ Repeats(t)
    <3>1. subs = {} /\ holders = <<>>
      BY <1>6, <2>2 DEF Repeats
    <3>2. Len(holders') <= 1
      BY <1>1, <3>1
    <3> QED BY <1>1, <3>1, <3>2 DEF Single
  <2> QED BY <2>1, <2>2
<1> QED BY <1>9, <1>10

(* A submission s goes on as q, with an account holder more only when it   *)
(* asked for the first.                                                    *)
LEMMA GoesOnOnce ==
  ASSUME TypeOK, Disabled, Single, NEW s \in subs, NEW q, q.tab = s.tab, q.mount = s.mount,
         subs' = (subs \ {s}) \cup {q}, UNCHANGED <<tabs, ghost>>,
         \/ Len(holders') = Len(holders) /\ (holders = <<>> => holders' = <<>>)
            /\ (q.phase \in {"tenant", "holder"} => s.phase \in {"tenant", "holder"})
         \/ /\ s.phase = "holder" /\ q.phase \notin {"tenant", "holder"}
            /\ Len(holders') = Len(holders) + 1
  PROVE  Disabled' /\ Single'
<1>1. Disabled'
  BY DEF Disabled
<1>2. Single'
  <2> SUFFICES ASSUME ~ ghost.again
               PROVE  /\ \A r, p \in subs' : r = p
                      /\ Len(holders') <= 1
                      /\ \A r \in subs' : r.phase \in {"tenant", "holder"} => holders' = <<>>
    BY DEF Single
  <2>1. subs' = {q}
    BY DEF Single
  <2>2. holders = <<>> => Len(holders) = 0
    OBVIOUS
  <2>3. Len(holders') <= 1
    BY <2>2 DEF Single
  <2>4. q.phase \in {"tenant", "holder"} => holders' = <<>>
    BY DEF Single
  <2> QED BY <2>1, <2>3, <2>4
<1> QED BY <1>1, <1>2

(* A reload ends the submissions of its tab; an account holder one of them *)
(* asked for may still come.                                               *)
LEMMA ReloadOnce ==
  ASSUME TypeOK, TypeOK', Disabled, Single, NEW t \in Tabs, Reload(t)
  PROVE  Disabled' /\ Single'
<1> DEFINE page == IF store = Null THEN "start" ELSE tabs[t].page
           app == Reloaded(t)
           b == page = "status"
           tab == [Fresh(page, TRUE) EXCEPT !.app = app, !.rendered = b,
                                            !.mounts = tabs[t].mounts + 1]
<1>1. tabs' = [tabs EXCEPT ![t] = tab] /\ subs' = {s \in subs : s.tab # t}
      /\ ghost'.again = ghost.again
  BY SaveNotes DEF Reload
<1> HIDE DEF page, app, b
<1>2. tab.mounts > tabs[t].mounts
  <2>1. tabs[t].mounts \in Nat
    BY DEF TypeOK, Tab
  <2>2. tab.mounts = tabs[t].mounts + 1
    BY DEF Fresh
  <2> QED BY <2>1, <2>2
<1> HIDE DEF tab
<1>3. Remounted
  BY <1>1, <1>2, OneTab
<1>4. CASE UNCHANGED holders
  BY <1>1, <1>3, <1>4, QuietOnce
<1>5. ASSUME NEW s \in subs \ subs', s.phase = "holder",
             holders' = Append(holders, NewHolder(s))
      PROVE  Disabled' /\ Single'
  <2>1. Disabled'
    <3>1. \A r \in subs : r.tab \in Tabs /\ r.mount \in Nat
      BY DEF TypeOK, Sub
    <3>2. \A u \in Tabs : tabs[u].mounts \in Nat /\ tabs'[u].mounts \in Nat
      BY DEF TypeOK, Tab
    <3> QED BY <1>1, <1>3, <3>1, <3>2 DEF Disabled, Remounted
  <2>2. Single'
    <3>1. ghost.again => Single'
      BY <1>1 DEF Single
    <3>2. ASSUME ~ ghost.again PROVE Single'
      <4>1. subs' = {} /\ holders = <<>>
        BY <1>1, <1>5, <3>2 DEF Single
      <4>2. holders' = <<NewHolder(s)>>
        BY <1>5, <4>1
      <4>3. Len(holders') = 1
        BY <4>2
      <4> QED BY <4>1, <4>3 DEF Single
    <3> QED BY <3>1, <3>2
  <2> QED BY <2>1, <2>2
<1> QED BY <1>4, <1>5 DEF Reload

(* A submission that ends leaves the page or gives its own button back.    *)
LEMMA EndOnce ==
  ASSUME TypeOK, TypeOK', Disabled, Single, NEW s \in subs, Submitted(s) \/ SubmissionFailed(s)
  PROVE  Disabled' /\ Single'
<1>1. /\ s \in Sub /\ s.tab \in Tabs /\ tabs[s.tab] \in Tab
      /\ \A r \in subs : r.tab \in Tabs
  BY DEF TypeOK, Sub
<1>2. subs' = subs \ {s} /\ UNCHANGED holders
  BY DEF Submitted, SubmissionFailed
<1>3. CASE Submitted(s)
  <2>1. ghost'.again = ghost.again
    BY <1>3, SaveNotes DEF Submitted
  <2>2. Remounted
    BY <1>1, <1>3, UnmountedCounts, OneTab DEF Submitted
  <2> QED BY <1>2, <2>1, <2>2, QuietOnce
<1>4. CASE SubmissionFailed(s)
  <2> DEFINE b == tabs[s.tab].submitting /\ tabs[s.tab].mounts # s.mount
             tab == [tabs[s.tab] EXCEPT !.submitting = b]
  <2>1. tabs' = [tabs EXCEPT ![s.tab] = tab] /\ UNCHANGED ghost
    BY <1>4 DEF SubmissionFailed
  <2>2. tab.mounts = tabs[s.tab].mounts /\ tab.submitting = b
    BY <1>1 DEF Tab
  <2>3. \A u \in Tabs : tabs'[u].mounts = tabs[u].mounts
    <3> HIDE DEF tab
    <3> QED BY <1>1, <2>1, <2>2 DEF TypeOK
  <2>4. \A u \in Tabs : u # s.tab => tabs'[u].submitting = tabs[u].submitting
    <3> HIDE DEF tab
    <3> QED BY <1>1, <2>1 DEF TypeOK
  <2>5. tabs'[s.tab].submitting = b
    <3> HIDE DEF tab
    <3> QED BY <1>1, <2>1, <2>2 DEF TypeOK
  <2>6. Disabled'
    <3>1. ASSUME NEW r \in subs'
          PROVE  /\ r.mount <= tabs'[r.tab].mounts
                 /\ r.mount = tabs'[r.tab].mounts => tabs'[r.tab].submitting
      <4>1. r \in subs /\ r # s /\ r.tab \in Tabs
        BY <1>1, <1>2
      <4>2. CASE r.tab = s.tab
        <5>1. r.mount # s.mount
          BY <4>1, <4>2 DEF Disabled
        <5> QED BY <2>3, <2>5, <4>1, <4>2, <5>1 DEF Disabled
      <4>3. CASE r.tab # s.tab
        BY <2>3, <2>4, <4>1, <4>3 DEF Disabled
      <4> QED BY <4>2, <4>3
    <3> QED BY <1>2, <3>1 DEF Disabled
  <2>7. Single'
    BY <1>2, <2>1 DEF Single
  <2> QED BY <2>6, <2>7
<1> QED BY <1>3, <1>4

(* One submission at a time, by every action.                              *)
LEMMA OnceStep ==
  WizardInv /\ Disabled /\ Single /\ [Next]_vars => Disabled' /\ Single'
<1> SUFFICES ASSUME WizardInv, Disabled, Single, [Next]_vars PROVE Disabled' /\ Single'
  OBVIOUS
<1>1. TypeOK /\ TypeOK'
  BY WizardStep DEF WizardInv
<1>2. holders \in Seq(Holder) /\ Len(holders) \in Nat
  BY <1>1 DEF TypeOK
<1>3. CASE UNCHANGED vars
  <2>1. Remounted
    BY <1>3 DEF vars, Remounted
  <2> QED BY <1>1, <1>3, <2>1, QuietOnce DEF vars
<1>4. ASSUME NEW t \in Tabs,
             \/ connectWithApiKey(t) \/ handleCreateApplication(t) \/ handleResumeApplication(t)
             \/ OpenOps(t) \/ handleSaveExit(t) \/ AttachDocument(t) \/ Confirm(t)
             \/ handleAddNote(t) \/ \E status \in Statuses : handleStatusChange(t, status)
             \/ \E step \in Steps : BackToWizard(t, step) \/ handleStepClick(t, step)
      PROVE  Disabled' /\ Single'
  BY <1>1, <1>4, PageOnce, QuietOnce
<1>5. ASSUME NEW t \in Tabs, verifySession(t) \/ StatusEffect(t) \/ fetchSubmissionDetails(t)
      PROVE  Disabled' /\ Single'
  BY <1>1, <1>5, TabOnce, QuietOnce
<1>6. ASSUME NEW t \in Tabs, handleSubmit(t) PROVE Disabled' /\ Single'
  BY <1>1, <1>6, SubmitOnce
<1>7. ASSUME NEW t \in Tabs, Reload(t) PROVE Disabled' /\ Single'
  BY <1>1, <1>7, ReloadOnce
<1>8. ASSUME NEW s \in subs,
             \/ resolveTenantId(s) \/ CreateAccountHolder(s) \/ CreateDocument(s)
             \/ CreateKycRequirement(s)
      PROVE  Disabled' /\ Single'
  <2>1. s \in Sub
    BY <1>1 DEF TypeOK
  <2>2. UNCHANGED <<tabs, ghost>>
    BY <1>8 DEF resolveTenantId, CreateAccountHolder, CreateDocument, CreateKycRequirement
  <2>3. \A p : /\ [s EXCEPT !.phase = p].tab = s.tab /\ [s EXCEPT !.phase = p].mount = s.mount
               /\ [s EXCEPT !.phase = p].phase = p
    BY <2>1 DEF Sub
  <2>4. \A i, f : /\ Len([holders EXCEPT ![i] = f]) = Len(holders)
                  /\ holders = <<>> => [holders EXCEPT ![i] = f] = <<>>
    BY <1>2
  <2>5. ASSUME NEW p, Moved(s, p), p = "holder" => s.phase = "tenant", p # "tenant",
               Len(holders') = Len(holders), holders = <<>> => holders' = <<>>
        PROVE  Disabled' /\ Single'
    <3> DEFINE q == [s EXCEPT !.phase = p]
    <3>1. subs' = (subs \ {s}) \cup {q}
      BY <2>5 DEF Moved
    <3>2. q.tab = s.tab /\ q.mount = s.mount /\ q.phase = p
      BY <2>3
    <3> HIDE DEF q
    <3> QED BY <1>1, <2>2, <2>5, <3>1, <3>2, GoesOnOnce
  <2>6. CASE resolveTenantId(s) \/ CreateKycRequirement(s)
    <3>1. Len(holders') = Len(holders) /\ (holders = <<>> => holders' = <<>>)
      BY <2>4, <2>6 DEF resolveTenantId, CreateKycRequirement
    <3>2. \/ s.phase = "tenant" /\ Moved(s, "holder")
          \/ Moved(s, "failed") \/ Moved(s, "ok")
      BY <2>6 DEF resolveTenantId, CreateKycRequirement
    <3> QED BY <2>5, <3>1, <3>2
  <2>7. CASE CreateDocument(s)
    <3>1. CASE Moved(s, "kyc") /\ UNCHANGED holders
      BY <2>5, <3>1
    <3>2. CASE Moved(s, "failed") /\ UNCHANGED holders
      BY <2>5, <3>2
    <3>3. CASE /\ holders' = [holders EXCEPT ![s.holder].documents = @ + 1]
               /\ UNCHANGED subs \/ Moved(s, "failed")
      <4>1. Len(holders') = Len(holders) /\ (holders = <<>> => holders' = <<>>)
        BY <2>4, <3>3
      <4>2. CASE subs' = (subs \ {s}) \cup {s}
        BY <1>1, <2>2, <4>1, <4>2, GoesOnOnce
      <4>3. CASE Moved(s, "failed")
        BY <2>5, <4>1, <4>3
      <4> QED BY <3>3, <4>2, <4>3
    <3> QED BY <2>7, <3>1, <3>2, <3>3 DEF CreateDocument
  <2>8. CASE CreateAccountHolder(s)
    <3>1. CASE Moved(s, "failed") /\ UNCHANGED holders
      BY <2>5, <3>1
    <3>2. ASSUME holders' = Append(holders, NewHolder(s)), NEW p \in {"documents", "failed"},
                 subs' = (subs \ {s}) \cup {[s EXCEPT !.phase = p, !.holder = Len(holders) + 1]}
          PROVE  Disabled' /\ Single'
      <4>0. PICK n : n = Len(holders) + 1
        OBVIOUS
      <4> DEFINE q == [s EXCEPT !.phase = p, !.holder = n]
      <4>1. q.tab = s.tab /\ q.mount = s.mount /\ q.phase = p
        BY <2>1 DEF Sub
      <4>2. subs' = (subs \ {s}) \cup {q}
        BY <3>2, <4>0
      <4>3. Len(holders') = Len(holders) + 1
        BY <3>2, Appended
      <4> HIDE DEF q
      <4>4. s.phase = "holder"
        BY <2>8 DEF CreateAccountHolder
      <4> QED BY <1>1, <2>2, <4>1, <4>2, <4>3, <4>4, GoesOnOnce
    <3> QED BY <2>8, <3>1, <3>2 DEF CreateAccountHolder
  <2> QED BY <1>8, <2>6, <2>7, <2>8
<1>9. ASSUME NEW s \in subs, Submitted(s) \/ SubmissionFailed(s) PROVE Disabled' /\ Single'
  BY <1>1, <1>9, EndOnce
<1>10. CASE User
  BY <1>4, <1>6, <1>7, <1>10 DEF User
<1>11. CASE System
  BY <1>5, <1>8, <1>9, <1>11 DEF System
<1> QED BY <1>3, <1>10, <1>11 DEF Next

(* Whatever the tabs do, a second account holder comes only from a         *)
(* submission made beside or after another: one click makes one.           *)
THEOREM OneHolderPerApplication == Spec => []OneAccountHolder
<1>1. Init => Disabled /\ Single
  BY DEF Init, Disabled, Single
<1>2. TypeOK /\ Single => OneAccountHolder
  BY DEF TypeOK, Single, OneAccountHolder
<1> QED BY <1>1, <1>2, WizardStarts, WizardStep, OnceStep, PTL DEF Spec, WizardInv

(* What is in the store stays in it.                                       *)
Kept ==
  /\ store'.documents >= store.documents /\ store'.notes >= store.notes
  /\ store.api_result # 0 => store'.api_result # 0

(* A record that adds to the copy it was made from.                        *)
Adds(base, r) ==
  /\ r.documents >= base.documents /\ r.notes >= base.notes
  /\ base.api_result # 0 => r.api_result # 0

(* Saving such a record loses nothing where the copy was the stored one.   *)
LEMMA SaveKeeps ==
  ASSUME TypeOK, NEW base, NEW r, saveApplication(base, r), Adds(base, r), ~ ghost'.stale
  PROVE  Kept
<1>1. base = store /\ store' = r
  BY DEF TypeOK, saveApplication
<1> QED BY <1>1 DEF Adds, Kept

(* The records the pages save add to their copy.                           *)
LEMMA EditsAdd ==
  ASSUME NEW app \in Application
  PROVE  /\ Adds(app, app)
         /\ \A x : /\ Adds(app, [app EXCEPT !.current_step = x])
                   /\ Adds(app, [app EXCEPT !.status = x])
                   /\ Adds(app, [app EXCEPT !.accuracy = x])
                   /\ Adds(app, [app EXCEPT !.authority = x])
         /\ Adds(app, [app EXCEPT !.documents = @ + 1])
         /\ Adds(app, [app EXCEPT !.notes = @ + 1])
         /\ \A x, n : n # 0 => Adds(app, [app EXCEPT !.status = x, !.api_result = n])
<1>1. app.documents \in Nat /\ app.notes \in Nat
  BY DEF Application
<1>2. \A x : /\ Adds(app, [app EXCEPT !.current_step = x])
             /\ Adds(app, [app EXCEPT !.status = x])
             /\ Adds(app, [app EXCEPT !.accuracy = x])
             /\ Adds(app, [app EXCEPT !.authority = x])
  BY <1>1 DEF Adds, Application
<1>3. Adds(app, app)
  BY <1>1 DEF Adds
<1>4. Adds(app, [app EXCEPT !.documents = @ + 1]) /\ Adds(app, [app EXCEPT !.notes = @ + 1])
  BY <1>1 DEF Adds, Application
<1>5. \A x, n : n # 0 => Adds(app, [app EXCEPT !.status = x, !.api_result = n])
  BY <1>1 DEF Adds, Application
<1> QED BY <1>2, <1>3, <1>4, <1>5

(* No action but a save from an old copy takes anything out of the store.  *)
LEMMA KeptStep ==
  ASSUME WizardInv, [Next]_vars, store # Null, ~ ghost'.stale
  PROVE  Kept
<1>1. /\ TypeOK /\ store \in Application
      /\ \A t \in Tabs : tabs[t].app # Null => tabs[t].app \in Application
  BY DEF WizardInv, TypeOK, Tab
<1>2. UNCHANGED store => Kept
  BY <1>1, EditsAdd DEF Adds, Kept
<1>3. ASSUME NEW t \in Tabs, NEW r, updateApplication(t, r), Adds(tabs[t].app, r) PROVE Kept
  BY <1>1, <1>3, SaveKeeps DEF updateApplication
<1>4. ASSUME NEW t \in Tabs, NEW step, OpenWizard(t, store, step) PROVE Kept
  <2>1. Adds(store, [store EXCEPT !.current_step = step])
    BY <1>1, EditsAdd
  <2>2. (UNCHANGED store) \/ saveApplication(store, [store EXCEPT !.current_step = step])
    BY <1>4 DEF OpenWizard
  <2> QED BY <1>1, <1>2, <2>1, <2>2, SaveKeeps
<1>5. ASSUME NEW t \in Tabs, NEW step, handleStepClick(t, step) PROVE Kept
  <2>1. tabs[t].app \in Application
    BY <1>1, <1>5 DEF handleStepClick, InWizard
  <2>2. Adds(tabs[t].app, [tabs[t].app EXCEPT !.current_step = step])
    BY <2>1, EditsAdd
  <2> QED BY <1>1, <1>5, <2>2, SaveKeeps DEF handleStepClick
<1>6. ASSUME NEW t \in Tabs, AttachDocument(t) \/ Confirm(t) PROVE Kept
  <2>1. tabs[t].app \in Application
    BY <1>1, <1>6 DEF AttachDocument, Confirm, InWizard
  <2>2. CASE AttachDocument(t)
    BY <1>3, <2>1, <2>2, EditsAdd DEF AttachDocument
  <2>3. CASE Confirm(t)
    BY <1>3, <2>1, <2>3, EditsAdd DEF Confirm
  <2> QED BY <1>6, <2>2, <2>3
<1>7. ASSUME NEW t \in Tabs,
             handleAddNote(t) \/ \E status \in Statuses : handleStatusChange(t, status)
      PROVE  Kept
  <2>1. tabs[t].app \in Application
    BY <1>1, <1>7 DEF handleAddNote, handleStatusChange, InOps
  <2>2. CASE handleAddNote(t)
    BY <1>3, <2>1, <2>2, EditsAdd DEF handleAddNote
  <2>3. ASSUME NEW status \in Statuses, handleStatusChange(t, status) PROVE Kept
    BY <1>3, <2>1, <2>3, EditsAdd DEF handleStatusChange
  <2> QED BY <1>7, <2>2, <2>3
<1>8. ASSUME NEW s \in subs, Submitted(s) PROVE Kept
  <2>1. s.app \in Application /\ Reached(s) /\ s.phase = "ok"
    BY <1>8 DEF WizardInv, TypeOK, Sub, Submitted
  <2>2. s.holder # 0
    BY <2>1 DEF Reached, Creating
  <2>3. Adds(s.app, [s.app EXCEPT !.status = "SUBMITTED", !.api_result = s.holder])
    BY <2>1, <2>2, EditsAdd
  <2> QED BY <1>1, <1>8, <2>3, SaveKeeps DEF Submitted
<1>9. ASSUME NEW t \in Tabs,
             \/ connectWithApiKey(t) \/ OpenOps(t) \/ handleSaveExit(t)
             \/ handleSubmit(t) \/ verifySession(t) \/ StatusEffect(t)
             \/ fetchSubmissionDetails(t)
      PROVE  Kept
  BY <1>2, <1>9 DEF connectWithApiKey, OpenOps, handleSaveExit, handleSubmit,
     verifySession, StatusEffect, fetchSubmissionDetails
<1>10. ASSUME NEW s \in subs,
              \/ resolveTenantId(s) \/ CreateAccountHolder(s) \/ CreateDocument(s)
              \/ CreateKycRequirement(s) \/ SubmissionFailed(s)
       PROVE  Kept
  BY <1>2, <1>10 DEF resolveTenantId, CreateAccountHolder, CreateDocument,
     CreateKycRequirement, SubmissionFailed
<1>11. ASSUME NEW t \in Tabs,
              \/ handleCreateApplication(t) \/ handleResumeApplication(t)
              \/ \E step \in Steps : BackToWizard(t, step)
       PROVE  Kept
  BY <1>4, <1>11 DEF handleCreateApplication, handleResumeApplication, BackToWizard
<1>12. ASSUME NEW t \in Tabs, Reload(t) PROVE Kept
  <2>1. \/ UNCHANGED store
        \/ Reloaded(t) \notin {store, Null} /\ saveApplication(store, Reloaded(t))
    BY <1>12 DEF Reload
  <2>2. ASSUME Reloaded(t) \notin {store, Null} PROVE Adds(store, Reloaded(t))
    <3>1. Reloaded(t) = [store EXCEPT !.current_step = tabs[t].app.current_step]
      BY <2>2 DEF Reloaded
    <3>2. \A x : Adds(store, [store EXCEPT !.current_step = x])
      BY <1>1, EditsAdd
    <3> QED BY <3>1, <3>2, Zenon
  <2> QED BY <1>1, <1>2, <2>1, <2>2, SaveKeeps
<1>13. CASE User
  BY <1>5, <1>6, <1>7, <1>9, <1>11, <1>13, <1>12 DEF User
<1>14. CASE System
  BY <1>8, <1>9, <1>10, <1>14 DEF System
<1>15. CASE UNCHANGED vars
  BY <1>2, <1>15 DEF vars
<1> QED BY <1>13, <1>14, <1>15 DEF Next

(* Documents, notes and results leave the store only when a copy that was  *)
(* behind is saved over them, for any number of tabs and submissions.      *)
THEOREM StoreOnlyGrows == Spec => OnlyOldCopiesLose
<1>1. WizardInv /\ [Next]_vars =>
        [(store # Null /\ ~ ghost'.stale) =>
           /\ store'.documents >= store.documents /\ store'.notes >= store.notes
           /\ store.api_result # 0 => store'.api_result # 0]_vars
  BY KeptStep DEF Kept
<1> QED BY <1>1, WizardStarts, WizardStep, PTL DEF Spec, OnlyOldCopiesLose
=============================================================================

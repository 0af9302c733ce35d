# A TLA+ model of AtomicFi

AtomicFi is a payments ledger with compliance built in: an Elixir/Phoenix
application over PostgreSQL that onboards account holders, counterparties and
payment accounts, screens them, asks a rule engine for controls (blocks and
caps), and posts transactions to a tree of ledger accounts. Around it are three
TypeScript applications: a canvas and an editor with an AI copilot for the rule
files, and an onboarding wizard that reads documents and creates account holders
through the REST API. The repository's README claims
that the screening gate, the ledger post, the limit check and the rolling
balances are "invariants that cannot be violated". This project states such
invariants, checks them with TLC on small instances and proves the central ones
with TLAPS for every value of the constants.

## 1. The system: inventory

| Component | Source | State | Operations | What is hard | What makes it correct |
|---|---|---|---|---|---|
| Ledger posting | `lib/atomic_fi/ledger_entry_context.ex`, trigger in `priv/repo/migrations/20260512000001_...exs`, CHECKs in `20260226000009_...exs` | `ledger_entries`, `ledger_accounts.balance`, `ledger_account_balances` (8 rolling totals and 8 recorded limits per account and day) | `create_entries`, single insert, PUT, DELETE; trigger on insert and status change | pairs that half succeed, CHECK on an ancestor, voids on a later day, sums over calendar periods, INTEGER overflow | stores reconcile; limits and blocks hold on every level; pairs are atomic |
| Ledger posting, concurrent | same | row locks of PostgreSQL | the statements of the trigger | reads before locks, lock order, `NOW()` fixed at the start | serialisable books, limits hold, no one waits for ever |
| Ledger accounts | `ledger_account_context.ex` | `is_blocked`, `max_*`, tree | `apply_controls`, `list_for_entity`, PUT, `ensure_linked_ledger_accounts` | stale structs, look-up then insert | fail-closed controls |
| Ledger tree | triggers in `20260513071002_...exs` | `ancestor_ids`, `descendant_ids` | insert, update | order of creation | the two id lists mirror each other |
| Transactions | `transaction_context.ex` | `transactions` | `create_transaction`, PUT, DELETE | five commits without an enclosing transaction, retries, crashes | at most one posting per external id, status tells the truth |
| Rule engine | `rule_engine.ex`, `zen_rule/client.ex`, `zen_rules/*` | none | `apply_rules`: payload, parallel evaluation, fold | one rule failing, stale payload | strictest control wins, fail closed |
| Onboarding | `onboarding_context.ex`, `onboarding_worker.ex`, `process_controls` of four contexts | `rescreen_job_id`, Oban jobs | `onboard`, `refresh`, `perform` | HTTP request against job, retries, crashes | only the engine opens an account; re-screening goes on |
| Screening | `compliance_screening_context.ex`, `screening_engine/default.ex`, `watchman/client.ex` | screenings and matches | record, override | stale when used | an open match stops money |
| Blocklist cache | `blocklist_context/blocklist_cache.ex` | ETS table | refresh, lookup | non-atomic refresh | readers see one snapshot |
| Sessions | `session_context/session_manager.ex` | Cachex, `sessions` | get-or-create, revoke | cache miss against revocation | revoked stays revoked |
| Risk classification | `risk_classification_context.ex` | one active row per holder | create | two creates at once | one active row |
| Legal entities, documents, KYC, snapshots, API keys, users, roles, tenants | the contexts of those names | rows | CRUD | – | not modelled |
| Rule editor: pages and files | `example-apps/atomic-fi-jdm-editor/src/pages`, `helpers`, `use-persist-actions.tsx`, `use-simulate-action.tsx` | the rule files at the server; graph, saved graph and revision on the page; requests in flight | navigate, load, edit; save by hand, by agent, rename, delete, simulate | an answer that arrives on another page, a rename of three requests, a save of a page that has not loaded | no cycle on disk, "saved" is true, a graph stays with its rule, a rename loses nothing |
| Rule editor: copilot cards | `src/copilot/cards`, `use-graph-actions.tsx` | card per tool call, registry of pending applies, the graph | add/update/remove node and edge, apply, reject, Apply all, close and reopen the panel | two ways to apply one card, a graph that moved after a card resolved its names | a call acts once and with consent, the graph stays sound, every decided call is answered |
| Workflow canvas | `atomic-fi-web/src` | name, nodes, edges, the inspector's text | load, sample, drop, save, new, connect, delete, inspectors | a late sample, two reads at once, a text committed on blur | edges have ends, no schema lost, saved files load |
| Onboarding flow: documents | `example-apps/onboarding-flow/src/features/documents`, `StepDocuments.tsx` and the other steps | pending files with verdicts, batches at the parser, the application | drop, verify, retype, remove, clear, process, sample | results written by index or id after the list changed, a batch over an older application | nothing failed is filed, no file vanishes, a batch reads as its files would one by one |
| Onboarding flow: application, submission, operations | `features/onboarding`, `connect`, `ops` | the application in localStorage, a copy per tab, submissions | gate, create, resume, step, declare, submit, status, notes, reload | two tabs over one record, four kinds of request without a transaction | a result means everything was created, one account holder, only declared applications are submitted |
| Front-end kit: SDK, UI components, lotus-embed, templates | `packages/*`, `components/ui`, `assets` | none | – | – | generated or presentational, not modelled |

How they interact. A REST call creates an entity in one database transaction and
then calls `OnboardingContext.onboard/2` *outside* it: screen, rule engine,
`apply_controls` on the entity's ledger accounts, enqueue the next
`OnboardingWorker` job, link it. Until the engine opens it every ledger account
is blocked. A REST call creates a transaction: insert the row, build the rule
payload from fresh reads, evaluate the rules, `create_entries` with the leaf's
controls as per-entry caps, write the outcome on the row. The trigger is the
only writer of balances; it reads the controls that onboarding writes. The rule
editor writes the files the engine polls; its copilot calls tools that change the
graph on the page (cards) or the files (the persistence tools). The onboarding
flow reads documents into an application kept in the browser and submits it as an
account holder, its documents and a KYC requirement.

## 2. The modules

| Module | Models | Extends / instantiates |
|---|---|---|
| `Sums` | SQL's `SUM` over days or entries, as a recursive function, and a sum over a finite set | |
| `LedgerPosting` | the trigger, `create_entries`, `apply_controls`, midnight; one step is one committed transaction | `Sums` |
| `LedgerMaintenance` | the REST endpoints on entries on top of it | `LedgerPosting` |
| `SerialBooks` | abstract: books that change by whole postings | |
| `LedgerConcurrency` | `create_entries` statement by statement with row locks, deadlocks, `NOW()`, controls changing | refines `SerialBooks` |
| `TransactionFlow` | `create_transaction` by concurrent requests, PUT, DELETE, screening results, exceptions, crashes | |
| `Onboarding` | the onboarding pipeline run by HTTP requests and Oban jobs | |
| `RuleEditor` | one tab of the rule editor over the rule files, request by request | |
| `CopilotCards` | the tool calls of the copilot, their cards, Apply all and the graph tools | |
| `Prefill` | what a document writes into an application: the mappers and the samples | |
| `DocumentIntake` | the documents step and the steps that show what was read | `Prefill` |
| `ApplicationWizard` | two tabs over one stored application, its submission, operations and status | |
| `WorkflowCanvas` | the visual editor of decision-graph files | |
| `MC*` | instances for TLC | |
| `LedgerProofs` | theorems about `LedgerPosting` and `LedgerMaintenance`, and about the sums of `Sums` | `LedgerMaintenance` |
| `LedgerConcurrencyProofs`, `TransactionFlowProofs`, `RuleEditorProofs`, `CopilotCardsProofs`, `DocumentIntakeProofs`, `ApplicationWizardProofs`, `WorkflowCanvasProofs` | theorems about the module of that name | that module |

**LedgerPosting.** `ledger.balance` is `ledger_accounts.balance`; `ledger.row[a][d]`
is the `ledger_account_balances` row of account `a` and day `d`, its eight totals
and its eight `last_*_limit` columns by *slot* (period and direction). A missing
row is the row of zeros, as every read of the trigger is a `COALESCE` or an
`ON CONFLICT`. `Verdict` is the trigger's decision, in its order: first blocked
account of the chain, balance out of range (raises), then account by account the
row the INSERT proposes and the row the conflict clause makes of it, each against
its CHECKs and its INTEGER columns; the first failure decides. That PostgreSQL
checks the *proposed* row before it turns the INSERT into an UPDATE matters: it
makes a cap of 0 stop every entry even on a day whose total is negative
(`ZeroCapFreezes`). `EffectiveCap` is `LEAST` with NULL ignored. `CreateEntries`
is the debit, the credit on the resulting books, the rollback, and the second
transaction that records both legs voided. An overflow raises and leaves nothing.

**LedgerMaintenance.** `UpdateLedgerEntry` takes delta and limits from the OLD row,
the chain from the NEW one and the day from the clock, as the trigger does. A
rejected reversal still persists the entry voided. `Replaced` has the fields a PUT
may change, direction and limits included. `DeleteLedgerEntry` leaves the balances. A
PUT on an account changes neither its block nor its caps, which only onboarding
writes, and so is no action here.

**LedgerConcurrency.** Variables `balance`, `daily`, `limit`, `control` are what is
committed; `mine[t]` and `setLimit[t]` are what transaction `t` wrote and has not
committed, `held[t]` the rows of `ledger_accounts` it locked. The UPDATE of line
211 visits the chain's rows in an order given by `Rank` and keeps each lock to the
end of the transaction, or of the subtransaction when a CHECK fires. The deadlock
detector aborts any transaction on a cycle of waits. One cap, on daily debits,
stands for the eight.

**TransactionFlow.** The steps of a request are its commits and reads. The
ledger is reduced to its three answers (posted, voided, error). Ecto writes only
what differs from the struct the request holds: `Finish` therefore leaves the
status alone when it equals the one that was sent, and raises on a deleted row.
`Raise` is an exception at any other step, the update of the status after the pair was
posted among them: the caller gets a 500 and what was committed stays. `Crash` is the
death of the node, with no answer. A PUT may set any status; `asserted` remembers which
ones callers wrote.
Two rules are told apart, `ctr_structuring` and `ofac_sdn_match`; any rule that
sets a cap of 0 behaves like them. The 24-hour window of the recent debits does
not move, and a PUT leaves the amount and the accounts as they are.

**Onboarding.** One entity, its ledger accounts, its jobs. `las[p]` and `mem[p]` are
the structs a run has loaded; `Apply`, `Clear` and `Link` write only fields that
differ from them. A job's `attempt` counts up to `MaxAttempts`; a crash leaves the
job executing for ever (`lost`), because Oban is configured without its Lifeline
plugin.

**RuleEditor.** `disk` is what the server has, `engine` what the ZEN agent last
polled, `route` and `ed` the page, `load`, `ops` and `sim` the requests that are
under way. A request takes effect (`PutAnswer`, `DeleteAnswer`, `LoadAnswer`: done,
or failed with or without effect where the answer may be lost) in one step and is
handled in another (`SaveSettled`, `RenamePutSettled`, ...), so that the user can
navigate, edit and start others in between. A graph is a version and, as a ghost,
the rule it was made for (`home`). Only some versions are cyclic. The ghost
`windows` names the races that have happened; `CleanMeansOnDisk` and
`GraphStaysHome` say which of them can break what the page shows, and hold in all
behaviours without these. At most one write of each kind is in flight: the Save button
is off while it saves and one call of a tool is executable at a time, but two deletions
from the list at once, and two `save_rule` cards fired by one Apply all, are left out.

**CopilotCards.** A call is `unsent`, `inProgress`, `executing` or `complete`. An
instance of its card is the pair of the call and the number of times the panel was
closed before, because closing unmounts the cards and opening mounts new ones with
a fresh "already applied" guard. The registry behind Apply all holds the pending
instances in order and fires them one after the other, waiting for each. The graph
tools resolve names when the card is rendered and act on the graph when it is
applied; a patch may leave the name out, and then leaves it alone. `Without` is the
filter that takes nodes out of the graph and instances out of the registry, written as
a recursive function so that it can be proved about (`WithoutKeeps`). The ghost keeps
what can excuse an unsound graph, each noted where it happens and not where the graph
becomes unsound: `gone`, nodes removed while the card of an undecided `add_edge` shows
them; `given`, names that `update_node` gave; `late`, calls that were fired when nobody
waited for their answer any more; and how often each call acted.

**Prefill, DocumentIntake.** An application is a function on its sections; an
extraction is a partial one, laid over it as the code's object spread does. Every
mapper is there, with its conditions on what is already filled. `DocumentIntake`
adds the time: the loop that verifies dropped files one by one, the recheck of a
retyped file, the batch at the parser (whose answer may lack files), removal and
clearing while these run, samples, and the wizard's other steps, whose inputs take
their value when they mount. React keeps the inputs of a card as long as its key, the
director's random id, stays at hand, and with them what was typed (`Kept`); the card's
title is always the application's. An entry's id is random in the code; here it is its file,
or the type of a sample, and the click that made it. The fold over the parser's answers
and the filters over the pending entries are recursive functions, so that they can be
proved about.

**ApplicationWizard.** `store` is localStorage, `tabs[t].app` the copy a page loaded
when it mounted and writes back whole. A submission is a record of its own with the
copy of the click and goes on when its page is unmounted; a reload ends it, wherever
it is. The step of a reloaded wizard is the URL's and is saved if the stored one
differs. Every request may take effect and lose its answer. `ghost.stale` notes that a copy was saved that was not the stored one,
`ghost.again` that a submission was started beside or after another.

**WorkflowCanvas.** The canvas is a function from ids to nodes and a set of edges; a file
has its own records: optional `type` and `content`, `sourceId` and `targetId`. `rulesFileToGraph` and
`workflowToRulesFile` map one to the other field by field, as `serialize.ts` does; a
content that is absent is `Undefined`, and the table editor lays what there is over
`EMPTY`. A
click outside the schema editor blurs it first, as a browser does, and so is guarded
by `~ text.focused`; keys, answers and drops are not.

Definitions named after a fault ("Fault: ...") are mutations: replacing the
operator they follow by them makes the property listed for them fail, which shows
that the property depends on the code.

## 3. What TLC checks

Runs that pass:

| Run | Instance | Properties | Distinct states |
|---|---|---|---|
| `posting` | root R over the leaves A and B, counterparty leaf X; 2 days in one week and two months; no ceiling or a weekly ceiling of 3, entry cap 2, amount 2, 2 pairs | `BalanceMatchesEntries`, `TotalsMatchEntries`, `DailyPostedWithinLimit`, `DoubleEntry`, `HardCeiling` | 118,017 |
| `maintenance` | R over A; 2 days; 2 entries, 3 edits; a cap of 0; MaxInt 3 | `BalanceMatchesRows`, `BlockedNeverMoves`, `ZeroCapFreezes` | 491,660 |
| `concurrency` | A to X and B to A, sharing R and A; 2 days, 2 control writes | `LimitHolds`, `ImplementsSerialBooks`, `EveryoneEnds` | 63,136 |
| `transactions` | 3 requests in the sub-CTR band: distinct, or 2 attempts at one external id, one of them sent as accepted, and a request without a creditor account; 2 edits, with PUTs of accepted and rejected, exceptions, crashes; symmetric | `StructuringCaught`, `PostedPassedGate`, `OutcomeMatchesPair`, `PostedOnce` | 4,609,933 |
| `onboarding` | 1 account, 1 HTTP client with 2 calls, 1 worker, 2 jobs, 3 failures or crashes | `JobsEnd`, `OpenedByTheEngine` | 749,201 |
| `rule_editor` | 2 rules, both on disk; 2 edits, the second of which makes a cycle; 4 clicks | `NoCycleOnDisk`, `CleanMeansOnDisk`, `GraphStaysHome`, `RenameKeepsRule` | 1,645,656 |
| `copilot` | six plans of 2 or 3 calls: two nodes of one name and an edge; an edge beside the removal of its end; a save, the removal of an edge and a deletion in one turn; an edge and its removal in the next; a node, a patch that renames and one that does not; a node and a call that does not parse; the panel closed once, one deletion on the canvas | `GraphSound`, `ActsOnce`, `NothingActsAlone`, `DecidedIsAnswered` | 978,044 |
| `document_intake` | a memorandum and a passport dropped together, and four other files, one of them illegible; 1 type to change to; 2 samples; the identity and the directors step; 5 clicks | `FilesSound`, `BatchIsSequential`, `RowsKeepTheirPerson`, `NothingTakenBack`, `Settles` | 922,841 |
| `wizard` | 2 tabs; no application or one that is complete; 2 steps, 2 documents, 1 note, 5 clicks | `HoldersSound`, `OneAccountHolder`, `OnlyOldCopiesLose`, `SubmissionEnds` | 245,322 |
| `canvas` | the sample as served, 5 files of which 3 fail to load, 1 new node, 2 rules of a table, 6 clicks | `GraphSound`, `SchemaKept`, `SavedFileReads` | 948,101 |

`GraphSound`, `FilesSound` and `HoldersSound` are conjunctions of a type invariant
and of named parts that each have a comment in their module.

Why the bounds are enough to be interesting. Two leaves under one root fill the
root's limit from two sides; two days with a month's end between them tell the
four periods apart; amounts of 2 against caps of 2 and 3 hit a limit exactly and
pass it (overflow is met in `maintenance`, where MaxInt is 3). Two pairs suffice for a pair that posts and one that is
rejected by what the first left. In `maintenance` three edits make void, un-void,
void again, on either day. In `concurrency` the two transfers wait for each other
in a cycle. Three requests are the least for structuring. Three failures exhaust a
job's attempts. In `rule_editor` four clicks are a rename (or save), a navigation
that crosses it, and two more requests on the page it leads to; with two rules every
rename or open has somewhere to go wrong. In `copilot` three calls are the least for
one tool to take turns beside another. In `document_intake` a batch, a retype and a
removal while it runs take three clicks, and a drop, a batch, the directors step, what is
typed into it and a second drop or batch five. In `wizard` five are enough for a
submission from each of two tabs, a reload between them and an edit in the other;
the seeds are what the end-to-end tests store, because the wizard never marks a step
complete. In `canvas` the late sample, a load and three edits fit. The runs say `CHECK_DEADLOCK FALSE` because the bounds end every
behaviour.

What is worth noting in what passes. *Structuring is caught under concurrency*:
every request commits its row before it counts the others', so of three
simultaneous debits at least one sees two. *Concurrent posts cannot both slip past
a limit*: the balance UPDATE locks the root before the totals are read.
*Only the engine opens an account*, whatever fails half way. *A card acts
once* although a click and Apply all can reach it together, unless the panel is
closed and opened while it is being applied. *A rename loses no file*, at whichever
of its three requests it fails. *A result in an application is complete*, even one
that an old copy brought back. *The rows of an open form stay with their person*: a
director whom a late batch completes keeps id and place, so that the inputs, which show
the old values, are at least those of the person in the card's title.

Runs that show a disagreement between the code and what is said about it:

| Run | Property | What happens |
|---|---|---|
| `owner_rescreen` | `Rescreened` | no clause of `load_entity!` for beneficial owners: three failures, discarded; `beneficial_owner_context.ex:150` |
| `void_blocked` | `VoidReverses` | the void of an entry on a blocked chain marks it voided and leaves its money where it is; `ledger_entry_context.ex:16` |

Further divergences met while modelling, visible in the models but without a run
of their own.

In the ledger: the rule payload can be read without a screening match, a job record
one, and the pair post, although README.md:55 says the gate "is in the same
transaction as the ledger post"; the trigger reads block and caps before
`apply_controls` commits and posts by what it read (README.md:15-17); two onboarding
runs load a blocked account, one opens it, and the other, which means to block it,
writes nothing because its struct already says blocked (`ledger_account_context.ex:463`,
"fail-closed"; `OpenedByTheEngine` is what holds: each opening is a result of the engine,
if not the last one); an exception in `post_entries` after `create_entries` committed
(`transaction_context.ex:234`) answers 500 although the money has moved, and the row stays
pending; the weekly total restarts on
1 January inside an ISO week (`ledger_account_balance.ex:16`); moving an entry to `reversed` changes no balance although
`ledger_entry_controller.ex:136` says so; a debit may take a balance below zero
although `:106` promises overdraft protection; an account with a NULL ceiling gets
the tightest ceiling of its chain on its own row although `ledger_account.ex:299`
calls NULL infinite; a void on a later day subtracts from that day's total, so that
more than the daily limit can stand posted; a transaction waiting for a lock over
midnight writes the row of the day before although `ledger_account_balance.ex:26`
calls past rows immutable (`LedgerConcurrency` has this case; `LedgerPosting`, where a
transaction is one step, cannot); a PUT may call a posted transaction rejected and take it out of the
structuring count (`transaction_context.ex:78`); a refresh leaves the previous job
scheduled although `account_holder_controller.ex:209` says it is cleared; and
`rescreen_job_id` may name a job that has ended.

In the front ends: `create_rule` says "Navigate to a blank editor" and keeps the graph
of the rule that was open (window `carried` of `RuleEditor`); a simulation runs the
file the engine last polled, not what was just saved (`EngineReload`); Apply all also
fires cards that register after it was pressed (`NothingActsAlone` says what is left
of consent: never a `delete_rule`); `update_node` may give a node the name of another
although `use-graph-actions.tsx:120` refuses this in `add_node`; the wizard's steps other than identity never save what is typed into
them although its README says "Review prefilled steps, adjust if needed"; no code of
the UI calls `completeStep`, so Submit is reached only with an application whose
`completed_steps` were stored from outside, as `full-form-submit.spec.ts:219` does; the
status page reads its application anew on every render and so fetches again after
every answer (`Status.tsx:237`, `StatusEffect`).

## 4. Fairness

`LedgerConcurrency` and `Onboarding` assume weak fairness of the
steps of a running process: the BEAM schedules every process, PostgreSQL goes on
with every statement that is not waiting and runs its deadlock detector after
`deadlock_timeout`, HTTP calls give up after Req's receive timeout. In
`LedgerConcurrency` a waiting `LockRow` is disabled, so nothing is assumed about
who gets a lock. `Onboarding` also assumes that the queue starts a due job.
Nothing is assumed of callers, crashes, control changes, midnight or edits.
`CopilotCards`, `DocumentIntake` and `ApplicationWizard` assume that requests are
answered (the browser gives up in the end, which counts as a failure), that resolved
promises continue and effects run: weak fairness of answers and continuations, none of
clicks. `LedgerPosting`, `LedgerMaintenance`, `TransactionFlow`, `RuleEditor` and
`WorkflowCanvas` claim safety only.

## 5. What is proved

Every theorem holds for all values of the constants: any tree of accounts, calendar,
set of amounts, limits and controls, any number of transactions, requests, tabs, calls,
rules, files and clicks. The bounds of the runs are constants too, and nothing is
assumed of them but that they are numbers. What is assumed of the other constants is
named in the module that declares them, and TLC evaluates it in the runs:

- `ConstantsAssumption`, `MaintenanceAssumption`: types; a chain begins with its account;
  NULL is not a number; there are finitely many leaves and no leaf is on another
  leaf's chain (the leaves are the accounts the code gives no children);
- `ConcurrencyAssumption`: types, amounts are positive, an account has one place in the
  order in which its row is locked;
- `FlowAssumption`: types, finitely many requests. Nothing is assumed of what callers set:
  the properties themselves leave out a status that a caller has claimed for a row;
- `EditorAssumption`, `NullIsNoLoad`: `Null` is not a rule, a graph or a load;
- `WizardAssumption`, `SeedsAssumption`: types; a stored application has no result yet;
- `IntakeAssumption`: types; a drop is not empty and names each of its files once, and a
  file is neither `Null` nor a document type, so that ids tell entries apart as the
  random ones of the code do;
- `CardsAssumption`: types; an `add_node` call that parses has a name, and the nodes of
  the graph the session begins with have different names;
- `FilesAssumption`: the sample and the user's files are garbage, or no graph, or a
  sound graph. The canvas checks no file it loads, so an unsound file makes an unsound
  canvas.

The ledger:

| Theorem | Says | Argument |
|---|---|---|
| `TypeCorrect`, `MaintenanceTypeCorrect` | `TypeOK` | inductive as it stands; `EffectiveCap` picks from a set of naturals that is not empty |
| `Reconciled`, `MaintenanceReconciled` | `BalanceMatchesRows` | inductive with `TypeOK`: `Moved` adds the same net to the balance and to today's row, and a sum changes by what one summand changes |
| `BalancesAreEntries` | `BalanceMatchesEntries` | inductive with `TypeOK`: a posted pair appends two summands, a voided one two zeros |
| `BooksBalance` | `DoubleEntry` | a leg moves its own leaf and no other (`LegMovesItsLeaf`, from the assumption on leaves), the sum over a finite set changes by what one element changes, and the two legs are opposite |
| `NeverPastTheLimit` | `DailyPostedWithinLimit` | not inductive: needs that every row is within its recorded limits (`RowsWithinLimits`) and that a day's total is the sum of that day's entries (`DailyIsEntries`) |
| `TotalsAreEntries` | `TotalsMatchEntries` | not inductive: the trigger computes a period's total from the earlier rows and today's delta, so the invariant `TotalsInv` also says what the other days of the period sum to (`PriorIsEntries`) and that no entry is ahead of the clock (`NotAhead`) |
| `CeilingsAreHard`, `MaintenanceCeilingsAreHard` | `HardCeiling` | the effective cap is at most the ceiling of every account of the chain, and `Verdict` is POSTED only if every row written is within it |
| `BlockedStaysPut`, `MaintenanceBlockedStaysPut` | `BlockedNeverMoves` | a `Verdict` of POSTED means no account of the chain is blocked, and no other account is written |
| `ZeroCapIsAFreeze` | `ZeroCapFreezes` | the row the INSERT proposes holds the delta alone and is checked before the conflict clause adds the day's total |
| `ConcurrencyTypeCorrect`, `RowsHaveOneWriter` | `TypeOK`, `OneWriter` | inductive together: a lock is taken only if nobody holds it, writes are to locked rows |
| `ConcurrentLimitHolds` | `LimitHolds` | not inductive: what a transaction has written and not committed must be within the limit too (`Capped`), which stays true because nobody else can change the row (`OneWriter`) |
| `ConcurrencyRefinesBooks` | `ImplementsSerialBooks` | step simulation: a commit adds what the transaction has written, which is its debit and its credit on both chains, because `InPhase` says what it has written at each step; every other step leaves the committed books alone |

`LedgerProofs` treats the endpoints by one idea, `KeepsBooks`: a step that leaves the ledger
alone or changes it by `Propagate` keeps the stores reconciled and blocked accounts where they are.

Transactions and front ends:

| Theorem | Says | Argument |
|---|---|---|
| `FlowTypeCorrect`, `OneIdMovesOnce`, `GateIsPassed` | `TypeOK`, `PostedOnce`, `PostedPassedGate` | `FlowInv`: the unique index on the external id (`KeysUnique`) and, by request, what has been decided at each step and what that says about the pair (`Passed`) |
| `OutcomeTellsThePair` | `OutcomeMatchesPair` | inductive with `FlowInv` and with what a row says before its outcome is written (`RowAsClaimed`): `FlowInv` says what a request has decided by the time it writes the status; an exception or a crash leaves the row as it is |
| `NoThreeInTheBand` | `StructuringCaught` | of any three requests that have counted and may post, the last to count has seen the others (`LastSeesAll`), since a row is committed before its request counts and is left out only when rejected, which means voided or a caller's word (`OutcomeInv`); a request that has seen two is frozen |
| `EditorTypeCorrect`, `NeverCyclic` | `TypeOK`, `NoCycleOnDisk` | not inductive: the check is made at the click and the file is written when the request arrives, so a graph on its way must be known to have passed it (`InFlightSound`); together `EditorInv` |
| `RenameLosesNothing` | `RenameKeepsRule` | `RenameSafe` extends it to the phases around the delete: the new file is there once its PUT was answered, and is not the old one |
| `GraphsStayHome` | `GraphStaysHome` | `HomeInv`: until one of the named races, every graph in a file, in an answer, in a save on its way and on a loaded page was made for its rule; with `LoadIsOpen`, a load in flight is one of the open page |
| `CleanIsOnDisk` | `CleanMeansOnDisk` | `CleanInv`: without the named races every save in flight is of the page as it is now (`SaveIsCurrent`), so the answer that marks the page clean is about what it shows (`PageIsCurrent`) |
| `CardsActOnce`, `CopilotNeverActsAlone` | `ActsOnce`, `NothingActsAlone` | `CardsInv`: what has been done to the graph (`DoneInv`), the cards that are mounted and what they may do (`CardInv`), and the registry, which holds no `delete_rule` and is worked off only while Apply all runs (`QueueInv`) |
| `CopilotGraphSound` | `GraphSound` | not inductive: besides `CardsInv` it needs that one call of a tool is executable at a time and a card waiting for Apply all was (`TurnInv`), and that what an undecided card shows is still true: its ends are nodes or were removed under it, its name is free (`SoundInv`); removal and the registry need the filter lemma `WithoutKeeps` |
| `FilesStaySound` | `FilesSound` | not inductive: an entry some verification is for still waits for it, as the type it is verified as, or was retyped early (`WaitInv`); an id is of one entry, and of one verification unless retyped early (`IdInv`); a verification names the file its entry has (`JobInv`); whether a file fails depends on the file and not on the type (`Fails`), so what waits at the parser has passed whatever it is called (`BatchInv`). Together with the shape of the state and `EveryFileAccounted` this is `Core` |
| `BatchesReadInSequence` | `BatchIsSequential` | from `Core`, for answers of any length: every mapper makes an update that keeps people, addresses and the keys of objects (`UpdateOK`, `MapperOK`), merging two such updates and laying the result over the application is laying them over it in turn (`UpdatesCompose`), and so along the fold (`ExtractionOK`) |
| `RowsKeepPersons` | `RowsKeepTheirPerson` | not inductive: ids tell the persons of rows apart, because every row has the name its id was made for (`Owner`, `DirectorOK`) in the application, in an update on its way and in the form (`RowsInv`); so inputs kept by id are of the same person wherever the row moves |
| `DocumentsTakeNothingBack` | `NothingTakenBack` | an action property: every write to an application that is the one it was made from lets it grow (`Grown`), by `UpdateOK` of the mappers and of the samples (`SampleOK`) |
| `HoldersAreSound` | `HoldersSound` | `WizardInv`: every copy of the application, in the store, in a tab or in a submission, carries no result or that of a complete account holder (`CopiesBacked`); how far each submission's account holder has come (`Reached`); no two submissions work on one (`Apart`), without which one could add a document to the other's |
| `OneHolderPerApplication` | `OneAccountHolder` | with `WizardInv`: the button stays disabled in the mount a submission was clicked in, so a mount has one (`Disabled`); unless something was submitted again there is one submission, and no account holder before its request (`Single`) |
| `StoreOnlyGrows` | `OnlyOldCopiesLose` | an action property: every record saved adds to the copy it was made from (`Adds`), which is the stored one unless the copy was old |
| `CanvasGraphSound`, `NoSchemaLost`, `SavedFilesRead` | `GraphSound`, `SchemaKept`, `SavedFileReads` | `CanvasInv`: the first two are inductive together once the schema editor has the focus only while it is mounted (`FocusIsMounted`), without which a commit could reach a node of another kind; the third from the types of the nodes: writing a node and reading it gives it back (`WrittenDrawn`) |

Facts about recursive functions are proved by least counterexample: the lengths for
which a fact fails are a set of naturals, `NatLeast` gives its least element, and the
predecessor of that is not in the set. `LedgerProofs` has those about `SumTo` (it exists,
is an integer, depends on its summands only, a change of one summand, appended summands)
and about `SumOver`; `CopilotCardsProofs` has those about `Without`, `DocumentIntakeProofs`
those about the fold of `mapExtractionToApplication`, the samples of a batch, `OneByOne`
and `Filter`. `NatLeast` is stated in each module that uses it.

Every inductive invariant was checked with TLC on the instance of the component's run
before it was proved.

Only model-checked:

- `EveryoneEnds`, `JobsEnd`, `DecidedIsAnswered`, `Settles`, `SubmissionEnds`: liveness is
  out of the prover's reach;
- `OpenedByTheEngine` of `Onboarding`, an action property: not proved.

## 6. What is not modelled, and the plan

Not modelled for good: CRUD contexts without a protocol, row-level security,
formatting of reasons, routing and rendering of the REST API; the generated SDK, the
presentational components, the embed and the template data of the front ends; positions,
colours and selection on the canvases; the rule files other than the two named; Watchman
and the ZEN engine beyond "answers or fails", the document parser beyond what it answers.

Hazards that are known and not covered by a property, with the module that would do it:

- `LedgerTree`: `ancestor_ids` and `descendant_ids` are kept by triggers
  (`20260513071002_...exs:185`) and depend on the order of inserts; two requests building
  the same part of the tree look up and then insert (`ledger_account_context.ex:369`). The
  models take the tree as given (`Chain`).
- `RuleFold`: `fold` and `effective_control` against a reference definition. The models
  take the fold as its result.
- `BlocklistCache`: the refresh writes `last_updated` first and the terms scope by scope
  (`blocklist_cache.ex:165`). No modelled component tells a half-refreshed list from a
  fresh one.
- `SessionCache`: a miss that read the session before a revocation puts it back
  (`session_manager.ex:208`).
- `RiskClassification`: two new classifications of one holder at once
  (`risk_classification_context.ex:88`).
- A crash between the controls and the next job (`account_holder_context.ex:159`) ends the
  chain of re-screening; nothing in the code or its documents claims otherwise.
- `reversed` entries: a status no code reacts to.

- Two onboarding runs of one entity (`ledger_account_context.ex:481`): section 3 describes
  the interleaving in which the later decision to block is not written. `Onboarding` has
  it; a property that says the last decision stands fails.
- A match recorded between a request's read of the screenings and its posting
  (`transaction_context.ex:205`) is not seen; `PostedPassedGate` is about what was read.

The proof that comes next: `OpenedByTheEngine`, which needs `Onboarding`'s `TypeOK` only.

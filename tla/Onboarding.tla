------------------------------ MODULE Onboarding ------------------------------
(***************************************************************************)
(* The onboarding pipeline of one entity (an account holder, counterparty  *)
(* or payment account) and its periodic re-screening: screen, ask the rule *)
(* engine, load the entity's ledger accounts, write the controls, enqueue  *)
(* the next OnboardingWorker job, link it to the entity.  HTTP calls       *)
(* (create, PUT, refresh) and jobs run it concurrently, each database      *)
(* access a step of its own, and none of them takes a lock.                *)
(***************************************************************************)
EXTENDS Integers

CONSTANTS
  Accounts,     \* the entity's ledger accounts: list_for_entity
  Callers,      \* HTTP requests: create_*, update_*, refresh
  Workers,      \* slots of the Oban queue :onboarding
  Controls,     \* controls the rule engine may emit for an account
  Reloadable,   \* load_entity! has a clause for the entity's type
  MaxAttempts,  \* max_attempts of OnboardingWorker
  MaxJobs,      \* bound: results with a next_screening_at
  MaxCalls,     \* bound: HTTP requests
  MaxFaults,    \* bound: failed external calls and crashes
  Null          \* NULL, and no cap

Procs == Callers \cup Workers
Jobs == 1..MaxJobs
Caps == Nat \cup {Null}
ControlSet == [is_blocked : BOOLEAN, max : Caps]
Results == UNION {[S -> Controls] : S \in SUBSET Accounts}
JobStates == {"none", "scheduled", "executing", "lost", "completed", "discarded"}
Steps == {"idle", "load", "clear", "evaluate", "list", "apply", "enqueue", "link"}

ASSUME OnboardingAssumption ==
  /\ Controls \subseteq ControlSet
  /\ Callers \cap Workers = {}
  /\ Reloadable \in BOOLEAN
  /\ MaxAttempts \in Nat \ {0}
  /\ MaxJobs \in Nat /\ MaxCalls \in Nat /\ MaxFaults \in Nat
  /\ Null \notin Nat

VARIABLES
  control,    \* is_blocked and the caps of each ledger account
  pointer,    \* the entity's rescreen_job_id
  jobs,       \* oban_jobs: state and attempt of each job
  at,         \* at[p]: what p does next
  job,        \* job[p]: the job a worker executes
  mem,        \* mem[p]: rescreen_job_id of the struct p holds
  result,     \* result[p]: controls and next of its engine result
  las,        \* las[p]: the ledger accounts as p loaded them
  new,        \* new[p]: the job id p enqueued
  granted,    \* results with a next_screening_at so far
  calls, faults

procVars == <<job, mem, result, las, new>>
vars == <<control, pointer, jobs, at, procVars, granted, calls, faults>>

(* What the tree holds before the first onboarding and what apply_controls *)
(* gives an account the engine is silent about.                            *)
BlockByDefault == [is_blocked |-> TRUE, max |-> Null]

NoResult == [controls |-> <<>>, next |-> FALSE]

Init ==
  /\ control = [a \in Accounts |-> BlockByDefault]
  /\ pointer = Null
  /\ jobs = [j \in Jobs |-> [state |-> "none", attempt |-> 0]]
  /\ at = [p \in Procs |-> "idle"]
  /\ job = [p \in Procs |-> Null]
  /\ mem = [p \in Procs |-> Null]
  /\ result = [p \in Procs |-> NoResult]
  /\ las = [p \in Procs |-> control]
  /\ new = [p \in Procs |-> Null]
  /\ granted = 0 /\ calls = 0 /\ faults = 0

Goto(p, s) == at' = [at EXCEPT ![p] = s]

-----------------------------------------------------------------------------
(* create_* and update_*: the row is written, its onboarding begins with   *)
(* the struct as the request loaded it.                                    *)
Update(p) ==
  /\ at[p] = "idle" /\ calls < MaxCalls
  /\ calls' = calls + 1
  /\ mem' = [mem EXCEPT ![p] = pointer]
  /\ Goto(p, "evaluate")
  /\ UNCHANGED <<control, pointer, jobs, job, result, las, new, granted, faults>>

(* POST .../:id/refresh.                                                   *)
Refresh(p) ==
  /\ at[p] = "idle" /\ calls < MaxCalls
  /\ calls' = calls + 1
  /\ mem' = [mem EXCEPT ![p] = pointer]
  /\ Goto(p, "clear")
  /\ UNCHANGED <<control, pointer, jobs, job, result, las, new, granted, faults>>

(* Oban starts a job that is due.                                          *)
StartJob(p, j) ==
  /\ at[p] = "idle" /\ jobs[j].state = "scheduled"
  /\ jobs' = [jobs EXCEPT ![j] = [state |-> "executing", attempt |-> @.attempt + 1]]
  /\ job' = [job EXCEPT ![p] = j]
  /\ Goto(p, "load")
  /\ UNCHANGED <<control, pointer, mem, result, las, new, granted, calls, faults>>

(* The run ends; a job that returned an error or raised is retried until   *)
(* its attempts are used up.                                               *)
End(p, ok) ==
  /\ jobs' = IF job[p] = Null THEN jobs
             ELSE [jobs EXCEPT ![job[p]].state =
                     IF ok THEN "completed"
                     ELSE IF jobs[job[p]].attempt < MaxAttempts THEN "scheduled"
                     ELSE "discarded"]
  /\ job' = [job EXCEPT ![p] = Null]
  /\ Goto(p, "idle")

(* load_for_rescreen.                                                      *)
Load(p) ==
  /\ at[p] = "load"
  /\ IF Reloadable
     THEN /\ mem' = [mem EXCEPT ![p] = pointer]
          /\ Goto(p, "clear")
          /\ UNCHANGED <<jobs, job>>
     ELSE End(p, FALSE) /\ UNCHANGED mem
  /\ UNCHANGED <<control, pointer, result, las, new, granted, calls, faults>>

(* clear_rescreen_job_id: Ecto writes the column only if it changes the    *)
(* struct.                                                                 *)
Clear(p) ==
  /\ at[p] = "clear"
  /\ pointer' = IF mem[p] # Null THEN Null ELSE pointer
  /\ mem' = [mem EXCEPT ![p] = Null]
  /\ Goto(p, "evaluate")
  /\ UNCHANGED <<control, jobs, job, result, las, new, granted, calls, faults>>

(* Fault: the worker swallows an error, Oban never learns of it.           *)
EvaluateSwallow(p) ==
  /\ at[p] = "evaluate"
  /\ \/ \E controls \in Results, next \in BOOLEAN :
          /\ next => granted < MaxJobs
          /\ granted' = IF next THEN granted + 1 ELSE granted
          /\ result' = [result EXCEPT ![p] = [controls |-> controls, next |-> next]]
          /\ Goto(p, "list")
          /\ UNCHANGED faults
     \/ /\ faults < MaxFaults
        /\ faults' = faults + 1
        /\ Goto(p, "idle")
        /\ UNCHANGED <<result, granted>>
  /\ UNCHANGED <<control, pointer, jobs, job, mem, las, new, calls>>

(* screen and engine_result: the screening and the rules answer, or one of *)
(* them fails and the run ends.                                            *)
Evaluate(p) ==
  /\ at[p] = "evaluate"
  /\ \/ \E controls \in Results, next \in BOOLEAN :
          /\ next => granted < MaxJobs
          /\ granted' = IF next THEN granted + 1 ELSE granted
          /\ result' = [result EXCEPT ![p] = [controls |-> controls, next |-> next]]
          /\ Goto(p, "list")
          /\ UNCHANGED <<jobs, job, faults>>
     \/ /\ faults < MaxFaults
        /\ faults' = faults + 1
        /\ End(p, FALSE)
        /\ UNCHANGED <<result, granted>>
  /\ UNCHANGED <<control, pointer, mem, las, new, calls>>

(* list_for_entity.                                                        *)
List(p) ==
  /\ at[p] = "list"
  /\ las' = [las EXCEPT ![p] = control]
  /\ Goto(p, "apply")
  /\ UNCHANGED <<control, pointer, jobs, job, mem, result, new, granted, calls, faults>>

(* control_to_la_attrs or block_by_default_attrs.                          *)
Wanted(p, a) ==
  IF a \in DOMAIN result[p].controls THEN result[p].controls[a] ELSE BlockByDefault

(* Fault: an account the engine is silent about is opened.                 *)
ApplyOpen(p) ==
  /\ at[p] = "apply"
  /\ control' = [a \in Accounts |->
                   IF a \in DOMAIN result[p].controls THEN result[p].controls[a]
                   ELSE [is_blocked |-> FALSE, max |-> Null]]
  /\ Goto(p, "enqueue")
  /\ UNCHANGED <<pointer, jobs, procVars, granted, calls, faults>>

(* apply_controls, one transaction: of every account the fields that       *)
(* differ from the loaded struct are written, whatever the row holds now.  *)
Apply(p) ==
  /\ at[p] = "apply"
  /\ control' = [a \in Accounts |->
       [is_blocked |-> IF Wanted(p, a).is_blocked # las[p][a].is_blocked
                       THEN Wanted(p, a).is_blocked ELSE control[a].is_blocked,
        max |-> IF Wanted(p, a).max # las[p][a].max
                THEN Wanted(p, a).max ELSE control[a].max]]
  /\ Goto(p, "enqueue")
  /\ UNCHANGED <<pointer, jobs, procVars, granted, calls, faults>>

(* enqueue_next.                                                           *)
Enqueue(p) ==
  /\ at[p] = "enqueue"
  /\ IF result[p].next
     THEN LET j == CHOOSE j \in Jobs : /\ jobs[j].state = "none"
                                       /\ \A i \in Jobs : jobs[i].state = "none" => j <= i
          IN  /\ jobs' = [jobs EXCEPT ![j].state = "scheduled"]
              /\ new' = [new EXCEPT ![p] = j]
     ELSE /\ new' = [new EXCEPT ![p] = Null]
          /\ UNCHANGED jobs
  /\ Goto(p, "link")
  /\ UNCHANGED <<control, pointer, job, mem, result, las, granted, calls, faults>>

(* process_controls' Repo.update of rescreen_job_id.                       *)
Link(p) ==
  /\ at[p] = "link"
  /\ pointer' = IF new[p] # mem[p] THEN new[p] ELSE pointer
  /\ End(p, TRUE)
  /\ UNCHANGED <<control, mem, result, las, new, granted, calls, faults>>

(* The node dies under the run.  Oban runs without its Lifeline plugin:    *)
(* the job row says executing for ever, here "lost".                       *)
Crash(p) ==
  /\ at[p] # "idle" /\ faults < MaxFaults
  /\ faults' = faults + 1
  /\ jobs' = IF job[p] = Null THEN jobs ELSE [jobs EXCEPT ![job[p]].state = "lost"]
  /\ job' = [job EXCEPT ![p] = Null]
  /\ Goto(p, "idle")
  /\ UNCHANGED <<control, pointer, mem, result, las, new, granted, calls>>

-----------------------------------------------------------------------------
Advance(p) ==
  \/ Load(p)
  \/ Clear(p)
  \/ Evaluate(p)
  \/ List(p)
  \/ Apply(p)
  \/ Enqueue(p)
  \/ Link(p)

Next ==
  \/ \E p \in Callers : Update(p) \/ Refresh(p)
  \/ \E p \in Workers, j \in Jobs : StartJob(p, j)
  \/ \E p \in Procs : Advance(p) \/ Crash(p)

(* A run goes on until it ends; the queue starts the jobs that are due.    *)
Fairness ==
  /\ \A p \in Procs : WF_vars(Advance(p))
  /\ \A j \in Jobs : WF_vars(\E p \in Workers : StartJob(p, j))

Spec == Init /\ [][Next]_vars /\ Fairness

-----------------------------------------------------------------------------
(***************************************************************************)
(* Properties                                                              *)
(***************************************************************************)
TypeOK ==
  /\ control \in [Accounts -> ControlSet]
  /\ pointer \in Jobs \cup {Null}
  /\ jobs \in [Jobs -> [state : JobStates, attempt : 0..MaxAttempts]]
  /\ at \in [Procs -> Steps]
  /\ job \in [Procs -> Jobs \cup {Null}]
  /\ mem \in [Procs -> Jobs \cup {Null}]
  /\ new \in [Procs -> Jobs \cup {Null}]
  /\ las \in [Procs -> [Accounts -> ControlSet]]
  /\ \A p \in Procs : result[p].controls \in Results /\ result[p].next \in BOOLEAN
  /\ granted \in 0..MaxJobs /\ calls \in 0..MaxCalls /\ faults \in 0..MaxFaults

(* p writes the controls in this step.                                     *)
Applies(p) == at[p] = "apply" /\ at'[p] = "enqueue"

(* An account is opened only by a run whose engine result says so: not by  *)
(* a failed screening, a silent engine or a crash half way.                *)
OpenedByTheEngine ==
  [][\A a \in Accounts : (control[a].is_blocked /\ ~ control'[a].is_blocked)
       => \E p \in Procs : /\ Applies(p)
                           /\ a \in DOMAIN result[p].controls
                           /\ ~ result[p].controls[a].is_blocked]_vars

(* A scheduled job is run to its end: completed, given up after its last   *)
(* attempt, or lost with its node.                                         *)
JobsEnd ==
  \A j \in Jobs :
    jobs[j].state = "scheduled" ~> jobs[j].state \in {"completed", "discarded", "lost"}

(* "so the BO is periodically re-screened on its own schedule": a          *)
(* scheduled job is carried out.                                           *)
Rescreened ==
  \A j \in Jobs : jobs[j].state = "scheduled" ~> jobs[j].state = "completed"
=============================================================================

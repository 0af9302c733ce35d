----------------------------- MODULE RuleEditor -----------------------------
(***************************************************************************)
(* The rule editor's page: one browser tab that opens, edits, saves,       *)
(* renames, deletes and simulates rule files over the REST API, by the     *)
(* user's hand or through the copilot's persistence tools.  Every request  *)
(* takes effect at the server and is answered in separate steps; the page  *)
(* stays usable between them.                                              *)
(*                                                                         *)
(* A graph is a version number and, as a ghost, the rule it was made for   *)
(* (home), which no code reads.  A rule's name stands for rule type and    *)
(* file name together.                                                     *)
(***************************************************************************)
EXTENDS Naturals

CONSTANTS
  Rules,       \* file names
  Null,
  MaxEdits,    \* bound: edits of the graph, and with them the versions of it
  MaxClicks,   \* bound: edits, navigations, writes and simulations together
  CyclicVers,  \* the versions whose graph has a cycle
  OnDisk       \* the sets of files there may be at the start

ASSUME EditorAssumption ==
  /\ Null \notin Rules /\ Null \notin [home : Rules \cup {Null}, ver : 0..MaxEdits]
  /\ MaxEdits \in Nat /\ MaxClicks \in Nat
  /\ CyclicVers \subseteq 1..MaxEdits
  /\ OnDisk \subseteq SUBSET Rules

VARIABLES
  disk,      \* file name -> graph the backend holds, or Null
  engine,    \* the same files as the rule engine last polled them
  route,     \* the open URL: a rule's, with or without ?new=1, or the list
  ed,        \* React state and refs of the mounted page
  load,      \* the getRule in flight, Null if none
  ops,       \* the write in flight of each kind, Null if none
  sim,       \* the evaluation in flight, Null if none
  windows,   \* ghost: the races that have happened
  spent      \* bounds used up

vars == <<disk, engine, route, ed, load, ops, sim, windows, spent>>

Kinds == {"manual", "save_rule", "rename_rule", "delete_rule"}
Saves == {"manual", "save_rule", "rename_rule"}
Graph == [home : Rules \cup {Null}, ver : 0..MaxEdits]
emptyGraph == [home |-> Null, ver |-> 0]
isCyclic(g) == g.ver \in CyclicVers
checkCyclic(g) == isCyclic(g)

Routes == [name : Rules, new : BOOLEAN] \cup [name : {Null}, new : {FALSE}]
ListPage == [name |-> Null, new |-> FALSE]
OnList == route.name = Null

Phases == {"put", "put_ok", "put_failed", "delete", "delete_ok", "delete_failed",
           "list", "list_ok", "list_failed"}
Op == [name : Rules, to : Rules, graph : Graph, revision : Nat,
       phase : Phases, mounted : BOOLEAN]
Load == [name : Rules, phase : {"sent", "ok", "failed"}, data : Graph \cup {Null}]
ASSUME NullIsNoLoad == Null \notin Load
Evaluation == [name : Rules, snapshot : Graph, ran : Graph \cup {Null}]
Sim == [eval : Evaluation, phase : {"sent", "ok"}]
Page == [graph : Graph, revision : Nat, savedRevision : Nat, lastPersisted : Graph,
         loading : BOOLEAN, loadError : BOOLEAN,
         lastSimulation : Evaluation \cup {Null}]

FreshPage == [graph |-> emptyGraph, revision |-> 0, savedRevision |-> 0,
              lastPersisted |-> emptyGraph, loading |-> FALSE, loadError |-> FALSE,
              lastSimulation |-> Null]

Dirty == ed.revision # ed.savedRevision
Ready == ~ OnList /\ ~ ed.loading /\ ~ ed.loadError
InFlight == {k \in Saves : ops[k] # Null /\ ops[k].mounted}

Note(w, happened) == IF happened THEN {w} ELSE {}
Click == /\ spent.clicks < MaxClicks
         /\ spent' = [spent EXCEPT !.clicks = @ + 1]
EditClick == /\ spent.clicks < MaxClicks /\ spent.edits < MaxEdits
             /\ spent' = [edits |-> spent.edits + 1, clicks |-> spent.clicks + 1]

Init ==
  /\ \E present \in OnDisk :
       disk = [r \in Rules |-> IF r \in present THEN [home |-> r, ver |-> 0] ELSE Null]
  /\ engine = disk
  /\ route = ListPage
  /\ ed = FreshPage
  /\ load = Null /\ sim = Null
  /\ ops = [k \in Kinds |-> Null]
  /\ windows = {}
  /\ spent = [edits |-> 0, clicks |-> 0]

-----------------------------------------------------------------------------
(* Navigation.  Both rule URLs share one route element, so going from one  *)
(* rule to another keeps the mounted page; the list unmounts it, and what  *)
(* is still in flight then no longer reaches its state.                    *)

(* Fault: the answer of the previous rule's load is not discarded.         *)
LoadEffectUncancelled(t) ==
  load' = IF t.name = Null \/ t.new THEN Null
          ELSE IF load # Null THEN load
          ELSE [name |-> t.name, phase |-> "sent", data |-> Null]

(* The load effect on [ruleType, name, isNew]: a new rule only ends the    *)
(* loading state; the cleanup discards the load it replaces.               *)
LoadEffect(t) ==
  load' = IF t.name = Null \/ t.new THEN Null
          ELSE [name |-> t.name, phase |-> "sent", data |-> Null]

PageAt(t) ==
  IF t.name = Null THEN FreshPage
  ELSE LET page == IF OnList THEN FreshPage ELSE ed
       IN  IF t.new THEN [page EXCEPT !.loading = FALSE]
           ELSE [page EXCEPT !.loading = TRUE, !.loadError = FALSE]

Detached(os, t) ==
  IF t.name # Null THEN os
  ELSE [k \in Kinds |-> IF os[k] = Null THEN Null ELSE [os[k] EXCEPT !.mounted = FALSE]]

Goto(t, opsNow) ==
  /\ route' = t
  /\ ed' = PageAt(t)
  /\ LoadEffect(t)
  /\ ops' = Detached(opsNow, t)
  /\ sim' = IF t.name = Null THEN Null ELSE sim

(* With unsaved changes the blocker asks; a refusal leaves everything as   *)
(* it is.                                                                  *)
Navigate(t) ==
  /\ Click /\ t # route
  /\ Goto(t, ops)
  /\ windows' = windows \cup Note("crossed", InFlight # {})
                        \cup Note("carried", ~ OnList /\ t.new)
  /\ UNCHANGED <<disk, engine>>

(* A row of the list, "New rule" on it, the back button, and the copilot's *)
(* tools, which work on an open rule only.                                 *)
RuleRow(n) == OnList /\ Navigate([name |-> n, new |-> FALSE])
handleNewRule(n) == OnList /\ Navigate([name |-> n, new |-> TRUE])
BackToRules == ~ OnList /\ Navigate(ListPage)
open_rule(n) == ~ OnList /\ Navigate([name |-> n, new |-> FALSE])
create_rule(n) == ~ OnList /\ Navigate([name |-> n, new |-> TRUE])

LoadAnswer ==
  /\ load # Null /\ load.phase = "sent"
  /\ \E ph \in {"ok", "failed"} :
       /\ ph = "ok" => disk[load.name] # Null
       /\ load' = [load EXCEPT !.phase = ph,
                               !.data = IF ph = "ok" THEN disk[load.name] ELSE Null]
  /\ UNCHANGED <<disk, engine, route, ed, ops, sim, windows, spent>>

LoadDone ==
  /\ load # Null /\ load.phase # "sent"
  /\ ed' = IF load.phase = "ok"
           THEN [ed EXCEPT !.graph = load.data, !.lastPersisted = load.data,
                           !.revision = 0, !.savedRevision = 0, !.loading = FALSE]
           ELSE [ed EXCEPT !.loadError = TRUE, !.loading = FALSE]
  /\ load' = Null
  /\ UNCHANGED <<disk, engine, route, ops, sim, windows, spent>>

-----------------------------------------------------------------------------
(* Edits.  An edit makes the next version of the graph, or goes back to an *)
(* earlier one; an empty graph belongs to the rule it is first edited in.  *)
EditedGraph(v) ==
  [home |-> IF ed.graph.home = Null THEN route.name ELSE ed.graph.home, ver |-> v]

EditNoted ==
  windows' = windows \cup Note("crossed", InFlight # {} \/ load # Null)

(* Fault: the comparison is the wrong way round.                           *)
HandleChangeInverted(g) ==
  ed' = [ed EXCEPT !.graph = g,
                   !.revision = IF g # ed.lastPersisted THEN @ ELSE @ + 1]

(* The canvas reports every change, and its own value after a replacement: *)
(* only what differs from the last persisted graph counts as an edit.      *)
HandleChange(g) ==
  ed' = [ed EXCEPT !.graph = g,
                   !.revision = IF g = ed.lastPersisted THEN @ ELSE @ + 1]

HumanEdit ==
  /\ Ready /\ EditClick
  /\ \E v \in 0..(spent.edits + 1) : HandleChange(EditedGraph(v))
  /\ EditNoted
  /\ UNCHANGED <<disk, engine, route, load, ops, sim>>

(* A graph tool of the copilot, applied: works on a page that is loading   *)
(* too, and always counts.                                                 *)
AgentEdit ==
  /\ ~ OnList /\ EditClick
  /\ ed' = [ed EXCEPT !.graph = EditedGraph(spent.edits + 1), !.revision = @ + 1]
  /\ EditNoted
  /\ UNCHANGED <<disk, engine, route, load, ops, sim>>

-----------------------------------------------------------------------------
(* Writes.  Each handler reads graph, revision and file name when it is    *)
(* clicked and holds on to them until the server has answered.             *)
(* Bound: one write of each kind is in flight at a time.  The Save button  *)
(* is off while it saves and one call of a tool is executable at a time,   *)
(* but nothing stops two deletions from the list, or Apply all from firing *)
(* two save_rule cards.                                                    *)
Start(k, to, phase) ==
  /\ Click /\ ops[k] = Null
  /\ ops' = [ops EXCEPT ![k] =
               [name |-> IF k = "delete_rule" THEN to ELSE route.name, to |-> to,
                graph |-> ed.graph, revision |-> ed.revision, phase |-> phase,
                mounted |-> ~ OnList]]
  /\ windows' = windows \cup
       Note("save_unloaded", k \in Saves /\ (load # Null \/ ed.loadError))
  /\ UNCHANGED <<disk, engine, route, ed, load, sim>>

(* The Save button: disabled while clean, unless the rule is new.          *)
SaveEnabled == Dirty \/ route.new

handleSave ==
  ~ OnList /\ SaveEnabled /\ ~ checkCyclic(ed.graph)
  /\ Start("manual", route.name, "put")

save_rule == ~ OnList /\ ~ isCyclic(ed.graph) /\ Start("save_rule", route.name, "put")

(* Fault: the cycle check is left to save_rule.                            *)
rename_unchecked(to) ==
  ~ OnList /\ to # route.name /\ Start("rename_rule", to, "put")

rename_rule(to) ==
  ~ OnList /\ to # route.name /\ ~ isCyclic(ed.graph) /\ Start("rename_rule", to, "put")

(* The copilot's tool, and the list's own confirmation.                    *)
delete_rule(n) == ~ OnList /\ Start("delete_rule", n, "delete")
handleDelete(n) == OnList /\ Start("delete_rule", n, "delete")

SetPhase(k, p) == ops' = [ops EXCEPT ![k].phase = p]

(* saveRule: the backend stores the bytes it is sent; an answer may be     *)
(* lost after they were stored.  A rename makes the graph the new name's.  *)
PutAnswer(k) ==
  LET op == ops[k] IN
  /\ op # Null /\ op.phase = "put"
  /\ \/ /\ disk' = [disk EXCEPT ![op.to] =
                      IF k = "rename_rule" THEN [op.graph EXCEPT !.home = op.to]
                      ELSE op.graph]
        /\ \E p \in {"put_ok", "put_failed"} :
             ops' = [ops EXCEPT ![k].phase = p]
     \/ SetPhase(k, "put_failed") /\ UNCHANGED disk
  /\ UNCHANGED <<engine, route, ed, load, sim, windows, spent>>

(* deleteRule: a missing file is an error.                                 *)
DeleteAnswer(k) ==
  LET op == ops[k] IN
  /\ op # Null /\ op.phase = "delete"
  /\ \/ /\ disk[op.name] # Null
        /\ disk' = [disk EXCEPT ![op.name] = Null]
        /\ \E p \in {"delete_ok", "delete_failed"} :
             ops' = [ops EXCEPT ![k].phase = p]
        /\ windows' = windows \cup Note("deleted_during_rename",
                                       k = "delete_rule" /\ ops["rename_rule"] # Null)
     \/ SetPhase(k, "delete_failed") /\ UNCHANGED <<disk, windows>>
  /\ UNCHANGED <<engine, route, ed, load, sim, spent>>

(* refreshExistingRules: the names are shown and told to the agent, no     *)
(* code decides by them; only whether the call failed matters.             *)
ListAnswer(k) ==
  /\ ops[k] # Null /\ ops[k].phase = "list"
  /\ \E p \in {"list_ok", "list_failed"} : SetPhase(k, p)
  /\ UNCHANGED <<disk, engine, route, ed, load, sim, windows, spent>>

(* The manual save marks the revision and graph it sent as saved.          *)
SaveSettled ==
  LET op == ops["manual"] IN
  /\ op # Null /\ op.phase \in {"put_ok", "put_failed"}
  /\ ed' = IF op.phase = "put_ok" /\ op.mounted
           THEN [ed EXCEPT !.savedRevision = op.revision, !.lastPersisted = op.graph]
           ELSE ed
  /\ ops' = [ops EXCEPT !["manual"] = Null]
  /\ UNCHANGED <<disk, engine, route, load, sim, windows, spent>>

(* onSaved of the copilot marks what is on screen now.                     *)
onSaved(op) ==
  IF op.mounted
  THEN [ed EXCEPT !.savedRevision = ed.revision, !.lastPersisted = ed.graph]
  ELSE ed

AgentSaveSettled ==
  LET op == ops["save_rule"] IN
  /\ op # Null /\ op.phase \in {"put_ok", "put_failed"}
  /\ ed' = IF op.phase = "put_ok" THEN onSaved(op) ELSE ed
  /\ ops' = [ops EXCEPT !["save_rule"] = Null]
  /\ UNCHANGED <<disk, engine, route, load, sim, windows, spent>>

(* Fault: the old file is deleted whether or not the new one was written.  *)
RenameDeletesAnyway ==
  /\ ops["rename_rule"] # Null /\ ops["rename_rule"].phase \in {"put_ok", "put_failed"}
  /\ SetPhase("rename_rule", "delete")
  /\ UNCHANGED <<disk, engine, route, ed, load, sim, windows, spent>>

(* rename_rule saves under the new name, and only then deletes the old.    *)
RenamePutSettled ==
  LET op == ops["rename_rule"] IN
  /\ op # Null
  /\ \/ /\ op.phase = "put_ok" /\ SetPhase("rename_rule", "delete")
     \/ /\ op.phase = "put_failed"
        /\ ops' = [ops EXCEPT !["rename_rule"] = Null]
  /\ UNCHANGED <<disk, engine, route, ed, load, sim, windows, spent>>

RenameDeleteSettled ==
  LET op == ops["rename_rule"] IN
  /\ op # Null
  /\ \/ /\ op.phase = "delete_ok"
        /\ ed' = onSaved(op) /\ SetPhase("rename_rule", "list")
     \/ /\ op.phase = "delete_failed"
        /\ ops' = [ops EXCEPT !["rename_rule"] = Null] /\ UNCHANGED ed
  /\ UNCHANGED <<disk, engine, route, load, sim, windows, spent>>

(* The page follows the rename, unless the list could not be refreshed or  *)
(* the user, asked about later changes, stays.                             *)
RenameListSettled ==
  LET op   == ops["rename_rule"]
      rest == [ops EXCEPT !["rename_rule"] = Null]
      t    == [name |-> op.to, new |-> FALSE]
  IN
  /\ op # Null
  /\ \/ /\ op.phase = "list_ok"
        /\ \/ route # t /\ Goto(t, rest)
           \/ /\ Dirty \/ route = t
              /\ ops' = rest /\ UNCHANGED <<route, ed, load, sim>>
     \/ /\ op.phase = "list_failed"
        /\ ops' = rest /\ UNCHANGED <<route, ed, load, sim>>
  /\ windows' = windows \cup Note("crossed", route' # route /\ InFlight # {"rename_rule"})
  /\ UNCHANGED <<disk, engine, spent>>

(* delete_rule leaves the page where it is, also on the file it deleted.   *)
DeleteSettled ==
  LET op == ops["delete_rule"] IN
  /\ op # Null
  /\ \/ op.phase = "delete_ok" /\ SetPhase("delete_rule", "list")
     \/ /\ op.phase \in {"delete_failed", "list_ok", "list_failed"}
        /\ ops' = [ops EXCEPT !["delete_rule"] = Null]
  /\ UNCHANGED <<disk, engine, route, ed, load, sim, windows, spent>>

-----------------------------------------------------------------------------
(* Simulation evaluates a saved file, at an engine that polls for changes. *)
EngineReload ==
  /\ engine # disk
  /\ engine' = disk
  /\ UNCHANGED <<disk, route, ed, load, ops, sim, windows, spent>>

Evaluate ==
  /\ sim = Null /\ Click
  /\ sim' = [phase |-> "sent",
             eval |-> [name |-> route.name, snapshot |-> ed.graph, ran |-> Null]]
  /\ UNCHANGED <<disk, engine, route, ed, load, ops, windows>>

(* The copilot's tool, and the canvas's own simulator panel.               *)
simulate_rule == ~ OnList /\ Evaluate
GraphSimulator == Ready /\ Evaluate

(* runSimulation makes a result of every answer: of a refusal, of a file   *)
(* the engine does not know and of a request that failed too.              *)
EngineAnswer ==
  /\ sim # Null /\ sim.phase = "sent"
  /\ \E ran \in {engine[sim.eval.name], Null} :
       sim' = [sim EXCEPT !.phase = "ok", !.eval.ran = ran]
  /\ UNCHANGED <<disk, engine, route, ed, load, ops, windows, spent>>

(* The result is kept whatever rule is open by now.                        *)
setLastSimulation ==
  /\ sim # Null /\ sim.phase = "ok"
  /\ ed' = [ed EXCEPT !.lastSimulation = sim.eval]
  /\ sim' = Null
  /\ UNCHANGED <<disk, engine, route, load, ops, windows, spent>>

-----------------------------------------------------------------------------
User ==
  \/ \E n \in Rules : RuleRow(n) \/ handleNewRule(n) \/ open_rule(n) \/ create_rule(n)
  \/ BackToRules
  \/ HumanEdit \/ AgentEdit
  \/ handleSave \/ save_rule \/ simulate_rule \/ GraphSimulator
  \/ \E n \in Rules : rename_rule(n) \/ delete_rule(n) \/ handleDelete(n)

System ==
  \/ LoadAnswer \/ LoadDone
  \/ \E k \in Saves : PutAnswer(k)
  \/ \E k \in {"rename_rule", "delete_rule"} : DeleteAnswer(k) \/ ListAnswer(k)
  \/ SaveSettled \/ AgentSaveSettled
  \/ RenamePutSettled \/ RenameDeleteSettled \/ RenameListSettled
  \/ DeleteSettled
  \/ EngineReload \/ EngineAnswer \/ setLastSimulation

Next == User \/ System

Spec == Init /\ [][Next]_vars

-----------------------------------------------------------------------------
TypeOK ==
  /\ disk \in [Rules -> Graph \cup {Null}]
  /\ engine \in [Rules -> Graph \cup {Null}]
  /\ route \in Routes
  /\ ed \in Page
  /\ load \in Load \cup {Null}
  /\ ops \in [Kinds -> Op \cup {Null}]
  /\ sim \in Sim \cup {Null}
  /\ windows \subseteq {"crossed", "save_unloaded", "carried", "deleted_during_rename"}
  /\ spent \in [edits : 0..MaxEdits, clicks : 0..MaxClicks]

(* No file ever holds a graph with a cycle: the Save button, save_rule and *)
(* rename_rule each check the graph they send, and nothing else writes.    *)
NoCycleOnDisk == \A r \in Rules : disk[r] # Null => ~ isCyclic(disk[r])

(* The page calls itself clean only when the open file, if it still        *)
(* exists, is what is on screen: savedRevision and the last persisted      *)
(* graph follow every load and every save.  Four races break it and no     *)
(* other: an edit or a navigation during a save, an edit during a load,    *)
(* and a save of a page whose own file is not loaded.                      *)
CleanMeansOnDisk ==
  (/\ windows \subseteq {"carried", "deleted_during_rename"}
   /\ Ready /\ ~ Dirty /\ ~ route.new)
  => disk[route.name] \in {Null, ed.graph}

(* A file holds a graph made for another rule only after one was carried   *)
(* over by create_rule or saved by a page that had not loaded its own.     *)
GraphStaysHome ==
  (windows \cap {"carried", "save_unloaded"} = {})
  => \A r \in Rules : disk[r] # Null => disk[r].home \in {r, Null}

(* rename_rule deletes the old file only when the renamed graph has been   *)
(* written under the new name, and none but delete_rule takes that away.   *)
RenameKeepsRule ==
  LET op == ops["rename_rule"] IN
     (/\ op # Null /\ op.phase \in {"delete", "delete_ok", "list"}
      /\ "deleted_during_rename" \notin windows)
     => disk[op.to] # Null
=============================================================================

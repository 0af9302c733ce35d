--------------------------- MODULE RuleEditorProofs ---------------------------
(***************************************************************************)
(* No rule file ever holds a graph with a cycle, for any number of rules,  *)
(* edits and clicks and whatever requests are lost, late or crossed.       *)
(***************************************************************************)
EXTENDS RuleEditor, TLAPS

(* A load that succeeded has a graph, and a graph on its way to the server *)
(* has passed its cycle check, however the page has changed since.         *)
InFlightSound ==
  /\ load # Null /\ load.phase = "ok" => load.data \in Graph
  /\ \A k \in Saves : ops[k] # Null /\ ops[k].phase = "put" => ~ isCyclic(ops[k].graph)

EditorInv == TypeOK /\ InFlightSound /\ NoCycleOnDisk

USE EditorAssumption

(* No cycle on disk and nothing in flight at the start.                    *)
LEMMA EditorStarts == Init => EditorInv
<1> SUFFICES ASSUME Init PROVE EditorInv
  OBVIOUS
<1>1. emptyGraph \in Graph /\ \A r \in Rules : [home |-> r, ver |-> 0] \in Graph
  BY DEF emptyGraph, Graph
<1>2. disk \in [Rules -> Graph \cup {Null}] /\ engine \in [Rules -> Graph \cup {Null}]
  BY <1>1 DEF Init
<1>3. route \in Routes
  BY DEF Init, ListPage, Routes
<1>4. ed \in Page
  BY <1>1 DEF Init, FreshPage, Page
<1>5. TypeOK
  BY <1>2, <1>3, <1>4 DEF Init, TypeOK
<1>6. InFlightSound
  BY DEF Init, InFlightSound, Saves, Kinds
<1>7. NoCycleOnDisk
  BY DEF Init, NoCycleOnDisk, isCyclic
<1> QED BY <1>5, <1>6, <1>7 DEF EditorInv

(* Navigation keeps types, and what is in flight goes on as it is.         *)
LEMMA GotoSound ==
  ASSUME TypeOK, NEW t \in Routes, NEW opsNow \in [Kinds -> Op \cup {Null}], Goto(t, opsNow),
         \A k \in Saves : opsNow[k] # Null /\ opsNow[k].phase = "put"
                          => ~ isCyclic(opsNow[k].graph)
  PROVE  /\ route' \in Routes /\ ed' \in Page /\ load' \in Load \cup {Null}
         /\ ops' \in [Kinds -> Op \cup {Null}] /\ sim' \in Sim \cup {Null}
         /\ load' # Null => load'.phase = "sent"
         /\ \A k \in Saves : ops'[k] # Null /\ ops'[k].phase = "put"
                             => ~ isCyclic(ops'[k].graph)
<1>1. route' \in Routes /\ sim' \in Sim \cup {Null}
  BY DEF Goto, TypeOK
<1>2. ed' \in Page
  <2>1. FreshPage \in Page
    BY DEF FreshPage, Page, emptyGraph, Graph
  <2> QED BY <2>1 DEF Goto, PageAt, TypeOK, Page
<1>3. load' \in Load \cup {Null} /\ (load' # Null => load'.phase = "sent")
  <2>1. t.name # Null => t.name \in Rules
    BY DEF Routes
  <2> QED BY <2>1 DEF Goto, LoadEffect, Load
<1>4. ops' \in [Kinds -> Op \cup {Null}]
  <2>1. \A op \in Op : [op EXCEPT !.mounted = FALSE] \in Op
    BY DEF Op
  <2> QED BY <2>1 DEF Goto, Detached
<1>5. ASSUME NEW k \in Saves, ops'[k] # Null, ops'[k].phase = "put"
      PROVE  ~ isCyclic(ops'[k].graph)
  <2>1. k \in Kinds
    BY DEF Saves, Kinds
  <2>2. CASE t.name # Null
    BY <1>5, <2>1, <2>2 DEF Goto, Detached
  <2>3. CASE t.name = Null
    <3>1. ops'[k] = IF opsNow[k] = Null THEN Null ELSE [opsNow[k] EXCEPT !.mounted = FALSE]
      BY <2>1, <2>3 DEF Goto, Detached
    <3>2. opsNow[k] \in Op
      BY <1>5, <2>1, <3>1
    <3>3. ops'[k].phase = opsNow[k].phase /\ ops'[k].graph = opsNow[k].graph
      BY <1>5, <3>1, <3>2 DEF Op
    <3> QED BY <1>5, <3>1, <3>3
  <2> QED BY <2>2, <2>3
<1> QED BY <1>1, <1>2, <1>3, <1>4, <1>5

(* Starting a write: what it holds is a rule's name and the page's graph.  *)
LEMMA StartSound ==
  ASSUME EditorInv, NEW k \in Kinds, NEW to \in Rules, NEW phase \in {"put", "delete"},
         Start(k, to, phase),
         k # "delete_rule" => ~ OnList,
         phase = "put" => ~ isCyclic(ed.graph)
  PROVE  EditorInv'
<1> DEFINE op == [name |-> IF k = "delete_rule" THEN to ELSE route.name, to |-> to,
                  graph |-> ed.graph, revision |-> ed.revision, phase |-> phase,
                  mounted |-> ~ OnList]
<1>1. op \in Op
  <2>1. ed.graph \in Graph /\ ed.revision \in Nat
    BY DEF EditorInv, TypeOK, Page
  <2>2. ~ OnList => route.name \in Rules
    BY DEF EditorInv, TypeOK, Routes, OnList
  <2> QED BY <2>1, <2>2 DEF Op, Phases
<1>2. ops' = [ops EXCEPT ![k] = op]
  BY DEF Start
<1>3. UNCHANGED <<disk, engine, route, ed, load, sim>>
  BY DEF Start
<1>4. spent' \in [edits : 0..MaxEdits, clicks : 0..MaxClicks]
  BY DEF Start, Click, EditorInv, TypeOK
<1>5. windows' \subseteq {"crossed", "save_unloaded", "carried", "deleted_during_rename"}
  BY DEF Start, Note, EditorInv, TypeOK
<1>6. op.phase = phase /\ op.graph = ed.graph
  OBVIOUS
<1> HIDE DEF op
<1>7. ops' \in [Kinds -> Op \cup {Null}]
  BY <1>1, <1>2 DEF EditorInv, TypeOK
<1>8. TypeOK'
  BY <1>3, <1>4, <1>5, <1>7 DEF EditorInv, TypeOK
<1>9. InFlightSound'
  <2>1. ASSUME NEW j \in Saves, ops'[j] # Null, ops'[j].phase = "put"
        PROVE  ~ isCyclic(ops'[j].graph)
    <3>1. j \in Kinds
      BY DEF Saves, Kinds
    <3>2. CASE j = k
      <4>1. ops'[j] = op
        BY <1>2, <3>1, <3>2 DEF EditorInv, TypeOK
      <4> QED BY <4>1, <1>6, <2>1
    <3>3. CASE j # k
      <4>1. ops'[j] = ops[j]
        BY <1>2, <3>1, <3>3 DEF EditorInv, TypeOK
      <4> QED BY <4>1, <2>1 DEF EditorInv, InFlightSound
    <3> QED BY <3>2, <3>3
  <2> QED BY <1>3, <2>1 DEF EditorInv, InFlightSound
<1>10. NoCycleOnDisk'
  BY <1>3 DEF EditorInv, NoCycleOnDisk
<1> QED BY <1>8, <1>9, <1>10 DEF EditorInv

(* A write that moves on, or ends, sends no other graph.                   *)
LEMMA SettledSound ==
  ASSUME TypeOK, InFlightSound, NEW k \in Kinds,
         \/ \E p \in Phases \ {"put"} : ops[k] # Null /\ ops' = [ops EXCEPT ![k].phase = p]
         \/ ops' = [ops EXCEPT ![k] = Null]
  PROVE  /\ ops' \in [Kinds -> Op \cup {Null}]
         /\ \A j \in Saves : ops'[j] # Null /\ ops'[j].phase = "put"
                             => ~ isCyclic(ops'[j].graph)
<1>1. CASE ops' = [ops EXCEPT ![k] = Null]
  BY <1>1 DEF TypeOK, InFlightSound, Saves, Kinds
<1>2. ASSUME NEW p \in Phases \ {"put"}, ops[k] # Null, ops' = [ops EXCEPT ![k].phase = p]
      PROVE  /\ ops' \in [Kinds -> Op \cup {Null}]
             /\ \A j \in Saves : ops'[j] # Null /\ ops'[j].phase = "put"
                                 => ~ isCyclic(ops'[j].graph)
  <2>1. ops[k] \in Op
    BY <1>2 DEF TypeOK
  <2>2. [ops[k] EXCEPT !.phase = p] \in Op /\ [ops[k] EXCEPT !.phase = p].phase = p
    BY <2>1 DEF Op
  <2>3. ops' = [ops EXCEPT ![k] = [ops[k] EXCEPT !.phase = p]]
    BY <1>2
  <2>4. ops' \in [Kinds -> Op \cup {Null}]
    BY <2>2, <2>3 DEF TypeOK
  <2>5. ASSUME NEW j \in Saves, ops'[j] # Null, ops'[j].phase = "put"
        PROVE  ~ isCyclic(ops'[j].graph)
    <3>1. j \in Kinds
      BY DEF Saves, Kinds
    <3>2. j # k
      BY <2>2, <2>3, <2>5, <3>1 DEF TypeOK
    <3>3. ops'[j] = ops[j]
      BY <2>3, <3>1, <3>2 DEF TypeOK
    <3> QED BY <2>5, <3>3 DEF InFlightSound
  <2> QED BY <2>4, <2>5
<1> QED BY <1>1, <1>2

(* Pages, edits and simulations.                                           *)
LEMMA NavigateSound ==
  ASSUME EditorInv, NEW t \in Routes, Navigate(t)
  PROVE  EditorInv'
<1>1. Goto(t, ops) /\ UNCHANGED <<disk, engine>>
  BY DEF Navigate
<1>2. spent' \in [edits : 0..MaxEdits, clicks : 0..MaxClicks]
  BY DEF Navigate, Click, EditorInv, TypeOK
<1>3. windows' \subseteq {"crossed", "save_unloaded", "carried", "deleted_during_rename"}
  BY DEF Navigate, Note, EditorInv, TypeOK
<1>4. /\ route' \in Routes /\ ed' \in Page /\ load' \in Load \cup {Null}
      /\ ops' \in [Kinds -> Op \cup {Null}] /\ sim' \in Sim \cup {Null}
      /\ load' # Null => load'.phase = "sent"
      /\ \A k \in Saves : ops'[k] # Null /\ ops'[k].phase = "put"
                          => ~ isCyclic(ops'[k].graph)
  BY <1>1, GotoSound DEF EditorInv, TypeOK, InFlightSound
<1>5. TypeOK'
  BY <1>1, <1>2, <1>3, <1>4 DEF EditorInv, TypeOK
<1>6. InFlightSound'
  BY <1>4 DEF InFlightSound
<1>7. NoCycleOnDisk'
  BY <1>1 DEF EditorInv, NoCycleOnDisk
<1> QED BY <1>5, <1>6, <1>7 DEF EditorInv

(* A load is answered or shown.                                            *)
LEMMA LoadSound ==
  ASSUME EditorInv, LoadAnswer \/ LoadDone
  PROVE  EditorInv'
<1>1. CASE LoadAnswer
  <2>1. load \in Load /\ load.name \in Rules
    BY <1>1 DEF LoadAnswer, EditorInv, TypeOK, Load
  <2>2. PICK ph \in {"ok", "failed"} :
          /\ ph = "ok" => disk[load.name] # Null
          /\ load' = [load EXCEPT !.phase = ph,
                                  !.data = IF ph = "ok" THEN disk[load.name] ELSE Null]
    BY <1>1 DEF LoadAnswer
  <2>3. disk[load.name] \in Graph \cup {Null}
    BY <2>1 DEF EditorInv, TypeOK
  <2>4. load' \in Load /\ (load'.phase = "ok" => load'.data \in Graph)
    BY <2>1, <2>2, <2>3 DEF Load
  <2>5. UNCHANGED <<disk, engine, route, ed, ops, sim, windows, spent>>
    BY <1>1 DEF LoadAnswer
  <2> QED BY <2>4, <2>5 DEF EditorInv, TypeOK, InFlightSound, NoCycleOnDisk
<1>2. CASE LoadDone
  <2>1. load \in Load /\ load.phase \in {"ok", "failed"}
    BY <1>2 DEF LoadDone, EditorInv, TypeOK, Load
  <2>2. load.phase = "ok" => load.data \in Graph
    BY <1>2 DEF LoadDone, EditorInv, InFlightSound
  <2>3. ed' \in Page
    BY <1>2, <2>1, <2>2 DEF LoadDone, EditorInv, TypeOK, Page
  <2>4. load' = Null /\ UNCHANGED <<disk, engine, route, ops, sim, windows, spent>>
    BY <1>2 DEF LoadDone
  <2> QED BY <2>3, <2>4 DEF EditorInv, TypeOK, InFlightSound, NoCycleOnDisk
<1> QED BY <1>1, <1>2

(* A change of the graph on screen.                                        *)
LEMMA EditSound ==
  ASSUME EditorInv, HumanEdit \/ AgentEdit
  PROVE  EditorInv'
<1>1. /\ spent.edits < MaxEdits
      /\ spent' \in [edits : 0..MaxEdits, clicks : 0..MaxClicks]
  BY DEF HumanEdit, AgentEdit, EditClick, EditorInv, TypeOK
<1>2. \A v \in 0..(spent.edits + 1) : EditedGraph(v) \in Graph
  <2>1. ed.graph.home \in Rules \cup {Null} /\ route.name \in Rules \cup {Null}
    BY DEF EditorInv, TypeOK, Page, Graph, Routes
  <2>2. 0..(spent.edits + 1) \subseteq 0..MaxEdits
    BY <1>1 DEF EditorInv, TypeOK
  <2> QED BY <2>1, <2>2 DEF EditedGraph, Graph
<1>3. ed' \in Page
  <2>1. spent.edits + 1 \in 0..(spent.edits + 1)
    BY DEF EditorInv, TypeOK
  <2>2. ed \in Page /\ ed.revision \in Nat
    BY DEF EditorInv, TypeOK, Page
  <2>3. ed.revision + 1 \in Nat
    BY <2>2
  <2>4. \A g \in Graph, n \in Nat : [ed EXCEPT !.graph = g, !.revision = n] \in Page
    BY <2>2 DEF Page
  <2>5. CASE HumanEdit
    <3>1. PICK v \in 0..(spent.edits + 1) : HandleChange(EditedGraph(v))
      BY <2>5 DEF HumanEdit
    <3>2. PICK n \in Nat : ed' = [ed EXCEPT !.graph = EditedGraph(v), !.revision = n]
      BY <2>2, <2>3, <3>1 DEF HandleChange
    <3> QED BY <1>2, <2>4, <3>2
  <2>6. CASE AgentEdit
    <3>1. ed' = [ed EXCEPT !.graph = EditedGraph(spent.edits + 1), !.revision = ed.revision + 1]
      BY <2>6 DEF AgentEdit
    <3> QED BY <1>2, <2>1, <2>3, <2>4, <3>1
  <2> QED BY <2>5, <2>6
<1>4. windows' \subseteq {"crossed", "save_unloaded", "carried", "deleted_during_rename"}
  BY DEF HumanEdit, AgentEdit, EditNoted, Note, EditorInv, TypeOK
<1>5. UNCHANGED <<disk, engine, route, load, ops, sim>>
  BY DEF HumanEdit, AgentEdit
<1> QED BY <1>1, <1>3, <1>4, <1>5 DEF EditorInv, TypeOK, InFlightSound, NoCycleOnDisk

(* A simulation starts, is evaluated or shown.                             *)
LEMMA SimulationSound ==
  ASSUME EditorInv,
         simulate_rule \/ GraphSimulator \/ EngineReload \/ EngineAnswer \/ setLastSimulation
  PROVE  EditorInv'
<1>1. CASE simulate_rule \/ GraphSimulator
  <2>1. Evaluate /\ route.name \in Rules
    BY <1>1 DEF simulate_rule, GraphSimulator, Ready, OnList, EditorInv, TypeOK, Routes
  <2>2. sim' \in Sim
    <3>1. ed.graph \in Graph
      BY DEF EditorInv, TypeOK, Page
    <3> QED BY <2>1, <3>1 DEF Evaluate, Sim, Evaluation
  <2>3. spent' \in [edits : 0..MaxEdits, clicks : 0..MaxClicks]
    BY <2>1 DEF Evaluate, Click, EditorInv, TypeOK
  <2>4. UNCHANGED <<disk, engine, route, ed, load, ops, windows>>
    BY <2>1 DEF Evaluate
  <2> QED BY <2>2, <2>3, <2>4 DEF EditorInv, TypeOK, InFlightSound, NoCycleOnDisk
<1>2. CASE EngineReload
  BY <1>2 DEF EngineReload, EditorInv, TypeOK, InFlightSound, NoCycleOnDisk
<1>3. CASE EngineAnswer
  <2>1. sim \in Sim /\ sim.eval \in Evaluation /\ sim.eval.name \in Rules
    BY <1>3 DEF EngineAnswer, EditorInv, TypeOK, Sim, Evaluation
  <2>2. PICK ran \in {engine[sim.eval.name], Null} :
          sim' = [sim EXCEPT !.phase = "ok", !.eval.ran = ran]
    BY <1>3 DEF EngineAnswer
  <2>3. ran \in Graph \cup {Null}
    BY <2>1 DEF EditorInv, TypeOK
  <2>4. [sim.eval EXCEPT !.ran = ran] \in Evaluation
    BY <2>1, <2>3 DEF Evaluation
  <2>5. sim' = [sim EXCEPT !.phase = "ok", !.eval = [sim.eval EXCEPT !.ran = ran]]
    BY <2>1, <2>2 DEF Sim
  <2>6. sim' \in Sim
    BY <2>1, <2>4, <2>5 DEF Sim
  <2>7. UNCHANGED <<disk, engine, route, ed, load, ops, windows, spent>>
    BY <1>3 DEF EngineAnswer
  <2> QED BY <2>6, <2>7 DEF EditorInv, TypeOK, InFlightSound, NoCycleOnDisk
<1>4. CASE setLastSimulation
  <2>1. ed' \in Page
    BY <1>4 DEF setLastSimulation, EditorInv, TypeOK, Page, Sim
  <2>2. sim' = Null /\ UNCHANGED <<disk, engine, route, load, ops, windows, spent>>
    BY <1>4 DEF setLastSimulation
  <2> QED BY <2>1, <2>2 DEF EditorInv, TypeOK, InFlightSound, NoCycleOnDisk
<1> QED BY <1>1, <1>2, <1>3, <1>4

(* Writes.  Only PutAnswer changes a file into a graph, and the graph it   *)
(* writes is the one that was checked.                                     *)
LEMMA PutSound ==
  ASSUME EditorInv, NEW k \in Saves, PutAnswer(k)
  PROVE  EditorInv'
<1>1. k \in Kinds /\ ops[k] \in Op /\ ops[k] # Null /\ ops[k].phase = "put"
  BY DEF PutAnswer, EditorInv, TypeOK, Saves, Kinds
<1>2. UNCHANGED <<engine, route, ed, load, sim, windows, spent>>
  BY DEF PutAnswer
<1>3. \E p \in Phases \ {"put"} : ops[k] # Null /\ ops' = [ops EXCEPT ![k].phase = p]
  BY <1>1 DEF PutAnswer, SetPhase, Phases
<1>4. /\ ops' \in [Kinds -> Op \cup {Null}]
      /\ \A j \in Saves : ops'[j] # Null /\ ops'[j].phase = "put"
                          => ~ isCyclic(ops'[j].graph)
  BY <1>1, <1>3, SettledSound DEF EditorInv
<1>5. ops[k].graph \in Graph /\ ops[k].to \in Rules
  BY <1>1 DEF Op
<1>6. ~ isCyclic(ops[k].graph)
  BY <1>1 DEF EditorInv, InFlightSound
<1> DEFINE sent == IF k = "rename_rule" THEN [ops[k].graph EXCEPT !.home = ops[k].to]
                   ELSE ops[k].graph
<1>7. sent \in Graph /\ ~ isCyclic(sent)
  BY <1>5, <1>6 DEF Graph, isCyclic
<1>8. disk' = [disk EXCEPT ![ops[k].to] = sent] \/ disk' = disk
  BY DEF PutAnswer
<1> HIDE DEF sent
<1>9. disk' \in [Rules -> Graph \cup {Null}] /\ NoCycleOnDisk'
  BY <1>5, <1>7, <1>8 DEF EditorInv, TypeOK, NoCycleOnDisk
<1> QED BY <1>2, <1>4, <1>9 DEF EditorInv, TypeOK, InFlightSound

(* The server answers a delete, or lists the rules after a rename.         *)
LEMMA DeleteSound ==
  ASSUME EditorInv, NEW k \in {"rename_rule", "delete_rule"}, DeleteAnswer(k) \/ ListAnswer(k)
  PROVE  EditorInv'
<1>1. k \in Kinds /\ ops[k] \in Op /\ ops[k] # Null
  BY DEF DeleteAnswer, ListAnswer, EditorInv, TypeOK, Kinds
<1>2. \E p \in Phases \ {"put"} : ops[k] # Null /\ ops' = [ops EXCEPT ![k].phase = p]
  BY <1>1 DEF DeleteAnswer, ListAnswer, SetPhase, Phases
<1>3. /\ ops' \in [Kinds -> Op \cup {Null}]
      /\ \A j \in Saves : ops'[j] # Null /\ ops'[j].phase = "put"
                          => ~ isCyclic(ops'[j].graph)
  BY <1>1, <1>2, SettledSound DEF EditorInv
<1>4. ops[k].name \in Rules
  BY <1>1 DEF Op
<1>5. disk' = [disk EXCEPT ![ops[k].name] = Null] \/ disk' = disk
  BY DEF DeleteAnswer, ListAnswer
<1>6. disk' \in [Rules -> Graph \cup {Null}] /\ NoCycleOnDisk'
  BY <1>4, <1>5 DEF EditorInv, TypeOK, NoCycleOnDisk
<1>7. windows' \subseteq {"crossed", "save_unloaded", "carried", "deleted_during_rename"}
  BY DEF DeleteAnswer, ListAnswer, Note, EditorInv, TypeOK
<1>8. UNCHANGED <<engine, route, ed, load, sim, spent>>
  BY DEF DeleteAnswer, ListAnswer
<1> QED BY <1>3, <1>6, <1>7, <1>8 DEF EditorInv, TypeOK, InFlightSound

(* The answers that end a write reach the page, not the files.             *)
LEMMA AnswerSound ==
  ASSUME EditorInv,
         \/ SaveSettled \/ AgentSaveSettled \/ RenamePutSettled \/ RenameDeleteSettled
         \/ DeleteSettled
  PROVE  EditorInv'
<1>1. UNCHANGED <<disk, engine, route, load, sim, windows, spent>>
  BY DEF SaveSettled, AgentSaveSettled, RenamePutSettled, RenameDeleteSettled, DeleteSettled
<1>2. \A k \in Kinds : ops[k] # Null => ops[k] \in Op /\ ops[k].graph \in Graph
                                       /\ ops[k].revision \in Nat
  BY DEF EditorInv, TypeOK, Op
<1>3. ed \in Page /\ ed.graph \in Graph /\ ed.revision \in Nat
  BY DEF EditorInv, TypeOK, Page
<1>4. \A n \in Nat, g \in Graph :
        [ed EXCEPT !.savedRevision = n, !.lastPersisted = g] \in Page
  BY <1>3 DEF Page
<1>5. [ed EXCEPT !.savedRevision = ed.revision, !.lastPersisted = ed.graph] \in Page
  BY <1>3, <1>4
<1>6. ed' \in Page
  <2>1. CASE SaveSettled
    <3>1. "manual" \in Kinds /\ ops["manual"] # Null
      BY <2>1 DEF SaveSettled, Kinds
    <3>2. ops["manual"].revision \in Nat /\ ops["manual"].graph \in Graph
      BY <1>2, <3>1
    <3>3. ed' \in {ed, [ed EXCEPT !.savedRevision = ops["manual"].revision,
                                 !.lastPersisted = ops["manual"].graph]}
      BY <2>1 DEF SaveSettled
    <3>4. [ed EXCEPT !.savedRevision = ops["manual"].revision,
                     !.lastPersisted = ops["manual"].graph] \in Page
      BY <1>4, <3>2
    <3> QED BY <1>3, <3>3, <3>4
  <2>2. CASE AgentSaveSettled
    <3>1. ed' \in {ed, [ed EXCEPT !.savedRevision = ed.revision,
                                 !.lastPersisted = ed.graph]}
      BY <2>2 DEF AgentSaveSettled, onSaved
    <3> QED BY <1>3, <1>5, <3>1
  <2>3. CASE RenameDeleteSettled
    <3>1. ed' \in {ed, [ed EXCEPT !.savedRevision = ed.revision,
                                 !.lastPersisted = ed.graph]}
      BY <2>3 DEF RenameDeleteSettled, onSaved
    <3> QED BY <1>3, <1>5, <3>1
  <2>4. CASE RenamePutSettled \/ DeleteSettled
    BY <1>3, <2>4 DEF RenamePutSettled, DeleteSettled
  <2> QED BY <2>1, <2>2, <2>3, <2>4
<1>7. \E k \in Kinds :
        \/ \E p \in Phases \ {"put"} : ops[k] # Null /\ ops' = [ops EXCEPT ![k].phase = p]
        \/ ops' = [ops EXCEPT ![k] = Null]
  BY DEF SaveSettled, AgentSaveSettled, RenamePutSettled, RenameDeleteSettled,
         DeleteSettled, SetPhase, Kinds, Phases
<1>8. /\ ops' \in [Kinds -> Op \cup {Null}]
      /\ \A j \in Saves : ops'[j] # Null /\ ops'[j].phase = "put"
                          => ~ isCyclic(ops'[j].graph)
  BY <1>7, SettledSound DEF EditorInv
<1> QED BY <1>1, <1>6, <1>8 DEF EditorInv, TypeOK, InFlightSound, NoCycleOnDisk

(* rename_rule ends with the list of rules.                                *)
LEMMA RenameListSound ==
  ASSUME EditorInv, RenameListSettled
  PROVE  EditorInv'
<1> DEFINE rest == [ops EXCEPT !["rename_rule"] = Null]
           t    == [name |-> ops["rename_rule"].to, new |-> FALSE]
<1>1. "rename_rule" \in Kinds /\ ops["rename_rule"] \in Op
  BY DEF RenameListSettled, EditorInv, TypeOK, Kinds
<1>2. t \in Routes
  BY <1>1 DEF Op, Routes
<1>3. /\ rest \in [Kinds -> Op \cup {Null}]
      /\ \A j \in Saves : rest[j] # Null /\ rest[j].phase = "put"
                          => ~ isCyclic(rest[j].graph)
  BY <1>1 DEF EditorInv, TypeOK, InFlightSound, Saves, Kinds
<1>4. Goto(t, rest) \/ (ops' = rest /\ UNCHANGED <<route, ed, load, sim>>)
  BY DEF RenameListSettled
<1>5. windows' \subseteq {"crossed", "save_unloaded", "carried", "deleted_during_rename"}
  BY DEF RenameListSettled, Note, EditorInv, TypeOK
<1>6. UNCHANGED <<disk, engine, spent>>
  BY DEF RenameListSettled
<1> HIDE DEF rest, t
<1>7. CASE Goto(t, rest)
  <2>1. /\ route' \in Routes /\ ed' \in Page /\ load' \in Load \cup {Null}
        /\ ops' \in [Kinds -> Op \cup {Null}] /\ sim' \in Sim \cup {Null}
        /\ load' # Null => load'.phase = "sent"
        /\ \A k \in Saves : ops'[k] # Null /\ ops'[k].phase = "put"
                            => ~ isCyclic(ops'[k].graph)
    BY <1>2, <1>3, <1>7, GotoSound DEF EditorInv
  <2> QED BY <1>5, <1>6, <2>1 DEF EditorInv, TypeOK, InFlightSound, NoCycleOnDisk
<1>8. CASE ops' = rest /\ UNCHANGED <<route, ed, load, sim>>
  BY <1>3, <1>5, <1>6, <1>8 DEF EditorInv, TypeOK, InFlightSound, NoCycleOnDisk
<1> QED BY <1>4, <1>7, <1>8

(* Every action keeps the invariant.                                       *)
LEMMA EditorStep == EditorInv /\ [Next]_vars => EditorInv'
<1> SUFFICES ASSUME EditorInv, [Next]_vars PROVE EditorInv'
  OBVIOUS
<1>1. \A n \in Rules, b \in BOOLEAN : [name |-> n, new |-> b] \in Routes
  BY DEF Routes
<1>2. ListPage \in Routes
  BY DEF Routes, ListPage
<1>3. ASSUME NEW n \in Rules, RuleRow(n) \/ handleNewRule(n) \/ open_rule(n) \/ create_rule(n)
      PROVE  EditorInv'
  BY <1>1, <1>3, NavigateSound DEF RuleRow, handleNewRule, open_rule, create_rule
<1>4. CASE BackToRules
  BY <1>2, <1>4, NavigateSound DEF BackToRules
<1>5. CASE HumanEdit \/ AgentEdit
  BY <1>5, EditSound
<1>6. CASE handleSave \/ save_rule
  <2>1. route.name \in Rules
    BY <1>6 DEF handleSave, save_rule, EditorInv, TypeOK, OnList, Routes
  <2> QED BY <1>6, <2>1, StartSound DEF handleSave, save_rule, checkCyclic, Kinds
<1>7. ASSUME NEW n \in Rules, rename_rule(n) \/ delete_rule(n) \/ handleDelete(n)
      PROVE  EditorInv'
  BY <1>7, StartSound DEF rename_rule, delete_rule, handleDelete, Kinds
<1>8. CASE simulate_rule \/ GraphSimulator \/ EngineReload \/ EngineAnswer \/ setLastSimulation
  BY <1>8, SimulationSound
<1>9. CASE LoadAnswer \/ LoadDone
  BY <1>9, LoadSound
<1>10. ASSUME NEW k \in Saves, PutAnswer(k) PROVE EditorInv'
  BY <1>10, PutSound
<1>11. ASSUME NEW k \in {"rename_rule", "delete_rule"}, DeleteAnswer(k) \/ ListAnswer(k)
       PROVE  EditorInv'
  BY <1>11, DeleteSound
<1>12. CASE \/ SaveSettled \/ AgentSaveSettled \/ RenamePutSettled \/ RenameDeleteSettled
            \/ DeleteSettled
  BY <1>12, AnswerSound
<1>13. CASE RenameListSettled
  BY <1>13, RenameListSound
<1>14. CASE UNCHANGED vars
  BY <1>14 DEF vars, EditorInv, TypeOK, InFlightSound, NoCycleOnDisk
<1> QED
  BY <1>3, <1>4, <1>5, <1>6, <1>7, <1>8, <1>9, <1>10, <1>11, <1>12, <1>13, <1>14
  DEF Next, User, System

(* What the editor holds keeps its types, whatever is in flight.           *)
THEOREM EditorTypeCorrect == Spec => []TypeOK
<1>1. EditorInv => TypeOK
  BY DEF EditorInv
<1> QED BY <1>1, EditorStarts, EditorStep, PTL DEF Spec

(* The Save button, save_rule and rename_rule never leave a graph with a   *)
(* cycle in a file, for any rules, edits, lost answers and races.          *)
THEOREM NeverCyclic == Spec => []NoCycleOnDisk
<1>1. EditorInv => NoCycleOnDisk
  BY DEF EditorInv
<1> QED BY <1>1, EditorStarts, EditorStep, PTL DEF Spec

(* The old file of a rename is another than the new one, and from the      *)
(* moment the new one is known to be written it is there.                  *)
RenameSafe ==
  LET op == ops["rename_rule"] IN
     op # Null =>
       /\ op.name # op.to
       /\ (/\ op.phase \in {"put_ok", "delete", "delete_ok", "list"}
           /\ "deleted_during_rename" \notin windows)
          => disk[op.to] # Null

(* A step that leaves the rename where it is, but for its page, and takes  *)
(* no file away unnoticed.                                                 *)
LEMMA RenameUndisturbed ==
  ASSUME TypeOK, RenameSafe, ops'["rename_rule"] # Null,
         ops["rename_rule"] # Null,
         ops'["rename_rule"].name = ops["rename_rule"].name,
         ops'["rename_rule"].to = ops["rename_rule"].to,
         ops'["rename_rule"].phase = ops["rename_rule"].phase,
         windows \subseteq windows',
         \A r \in Rules : disk[r] # Null => disk'[r] # Null
  PROVE  RenameSafe'
<1>1. ops["rename_rule"].to \in Rules
  BY DEF TypeOK, Kinds, Op
<1> QED BY <1>1 DEF RenameSafe

(* Every action keeps a renamed rule on disk.                              *)
LEMMA RenameStep == EditorInv /\ RenameSafe /\ [Next]_vars => RenameSafe'
<1> SUFFICES ASSUME EditorInv, RenameSafe, [Next]_vars, ops'["rename_rule"] # Null
             PROVE  RenameSafe'
  BY DEF RenameSafe
<1> DEFINE op == ops["rename_rule"]
<1>0. TypeOK /\ "rename_rule" \in Kinds /\ "rename_rule" \in DOMAIN ops
      /\ (op # Null => op \in Op /\ op.to \in Rules /\ op.name \in Rules)
  BY DEF EditorInv, TypeOK, Kinds, Op
<1>1. CASE UNCHANGED <<disk, ops>> /\ windows \subseteq windows'
  BY <1>1 DEF RenameSafe
<1>2. ASSUME NEW t \in Routes, Navigate(t) PROVE RenameSafe'
  <2>1. windows \subseteq windows' /\ UNCHANGED disk /\ ops' = Detached(ops, t)
    BY <1>2 DEF Navigate, Goto
  <2>2. op # Null /\ ops'["rename_rule"] \in {op, [op EXCEPT !.mounted = FALSE]}
    BY <1>0, <2>1 DEF Detached
  <2>3. /\ ops'["rename_rule"].name = op.name /\ ops'["rename_rule"].to = op.to
        /\ ops'["rename_rule"].phase = op.phase
    BY <1>0, <2>2 DEF Op
  <2> QED BY <1>0, <2>1, <2>2, <2>3, RenameUndisturbed
<1>3. ASSUME NEW k \in Kinds, NEW to \in Rules, NEW phase \in {"put", "delete"},
             Start(k, to, phase), k = "rename_rule" => to # route.name /\ phase = "put"
      PROVE  RenameSafe'
  <2>1. windows \subseteq windows' /\ UNCHANGED disk
    BY <1>3 DEF Start
  <2>2. CASE k = "rename_rule"
    <3>1. /\ ops'["rename_rule"].name = route.name /\ ops'["rename_rule"].to = to
          /\ ops'["rename_rule"].phase = "put"
      BY <1>0, <1>3, <2>2 DEF Start
    <3> QED BY <1>3, <2>2, <3>1 DEF RenameSafe
  <2>3. CASE k # "rename_rule"
    <3>1. ops'["rename_rule"] = op
      BY <1>0, <1>3, <2>3 DEF Start
    <3> QED BY <2>1, <3>1 DEF RenameSafe
  <2> QED BY <2>2, <2>3
<1>4. ASSUME NEW k \in Saves, PutAnswer(k) PROVE RenameSafe'
  <2>1. k \in Kinds /\ ops[k] \in Op /\ ops[k].graph \in Graph /\ ops[k].to \in Rules
    BY <1>4 DEF PutAnswer, EditorInv, TypeOK, Saves, Kinds, Op
  <2>2. [ops[k].graph EXCEPT !.home = ops[k].to] \in Graph
    BY <2>1 DEF Graph
  <2>3. PICK g \in Graph : disk' = [disk EXCEPT ![ops[k].to] = g]
                            \/ (disk' = disk /\ ops' = [ops EXCEPT ![k].phase = "put_failed"])
    BY <1>4, <2>1, <2>2 DEF PutAnswer, SetPhase
  <2>4. g # Null /\ disk \in [Rules -> Graph \cup {Null}] /\ windows' = windows
    BY <1>4 DEF PutAnswer, EditorInv, TypeOK, Graph
  <2>5. \A r \in Rules : disk[r] # Null => disk'[r] # Null
    BY <2>1, <2>3, <2>4
  <2>6. PICK p \in {"put_ok", "put_failed"} : ops' = [ops EXCEPT ![k].phase = p]
    BY <1>4 DEF PutAnswer, SetPhase
  <2>7. CASE k # "rename_rule"
    <3>1. ops'["rename_rule"] = op
      BY <1>0, <2>6, <2>7
    <3> QED BY <1>0, <2>4, <2>5, <3>1, RenameUndisturbed
  <2>8. CASE k = "rename_rule"
    <3>1. ops'["rename_rule"] = [op EXCEPT !.phase = p]
      BY <1>0, <2>6, <2>8
    <3>2. op # Null
      BY <1>4, <2>8 DEF PutAnswer
    <3>3. /\ ops'["rename_rule"].name = op.name /\ ops'["rename_rule"].to = op.to
          /\ ops'["rename_rule"].phase = p
      BY <1>0, <3>1, <3>2 DEF Op
    <3>4. p = "put_ok" => disk'[op.to] # Null
      <4>1. p = "put_ok" => disk' = [disk EXCEPT ![op.to] = g]
        <5> SUFFICES ASSUME p = "put_ok", ops' = [ops EXCEPT ![k].phase = "put_failed"]
                     PROVE  FALSE
          BY <2>3, <2>8
        <5>1. ops'["rename_rule"].phase = "put_failed"
          BY <1>0, <2>8, <3>2 DEF Op
        <5> QED BY <3>3, <5>1
      <4> QED BY <1>0, <2>4, <3>2, <4>1
    <3> QED BY <3>2, <3>3, <3>4 DEF RenameSafe
  <2> QED BY <2>7, <2>8
<1>5. ASSUME NEW k \in {"rename_rule", "delete_rule"}, DeleteAnswer(k) PROVE RenameSafe'
  <2>1. k \in Kinds /\ ops[k] \in Op /\ ops[k].name \in Rules /\ ops[k] # Null
    BY <1>5 DEF DeleteAnswer, EditorInv, TypeOK, Kinds, Op
  <2>2. PICK p \in {"delete_ok", "delete_failed"} : ops' = [ops EXCEPT ![k].phase = p]
    BY <1>5 DEF DeleteAnswer, SetPhase
  <2>3. windows \subseteq windows'
    BY <1>5 DEF DeleteAnswer
  <2>4. CASE k = "delete_rule"
    <3>1. ops'["rename_rule"] = op
      BY <1>0, <2>2, <2>4
    <3>2. UNCHANGED disk \/ "deleted_during_rename" \in windows'
      BY <1>5, <2>4, <3>1 DEF DeleteAnswer, Note
    <3> QED BY <2>3, <3>1, <3>2 DEF RenameSafe
  <2>5. CASE k = "rename_rule"
    <3>1. ops'["rename_rule"] = [op EXCEPT !.phase = p]
      BY <1>0, <2>2, <2>5
    <3>2. /\ ops'["rename_rule"].name = op.name /\ ops'["rename_rule"].to = op.to
          /\ op # Null /\ op.phase = "delete"
      BY <1>0, <1>5, <2>1, <2>5, <3>1 DEF DeleteAnswer, Op
    <3>3. disk' \in {disk, [disk EXCEPT ![op.name] = Null]} /\ op.name # op.to
      BY <1>5, <2>5, <3>2 DEF DeleteAnswer, RenameSafe
    <3>4. disk'[op.to] = disk[op.to]
      BY <1>0, <3>2, <3>3 DEF EditorInv, TypeOK
    <3> QED BY <2>3, <3>2, <3>3, <3>4 DEF RenameSafe
  <2> QED BY <2>4, <2>5
<1>6. ASSUME NEW k \in {"rename_rule", "delete_rule"}, ListAnswer(k) \/ DeleteSettled
             \/ SaveSettled \/ AgentSaveSettled \/ RenamePutSettled \/ RenameDeleteSettled
      PROVE  RenameSafe'
  <2>1. UNCHANGED <<disk, windows>>
    BY <1>6 DEF ListAnswer, SaveSettled, AgentSaveSettled, RenamePutSettled,
                RenameDeleteSettled, DeleteSettled
  <2>2. CASE ops'["rename_rule"] = op
    BY <2>1, <2>2 DEF RenameSafe
  <2>3. CASE ops'["rename_rule"] # op
    <3>1. PICK p \in {"list_ok", "list_failed", "delete", "list"} :
            /\ op # Null /\ ops'["rename_rule"] = [op EXCEPT !.phase = p]
            /\ p = "delete" => op.phase = "put_ok"
            /\ p = "list" => op.phase = "delete_ok"
      BY <1>0, <1>6, <2>3 DEF ListAnswer, SaveSettled, AgentSaveSettled, RenamePutSettled,
                RenameDeleteSettled, DeleteSettled, SetPhase, EditorInv, TypeOK
    <3>2. /\ ops'["rename_rule"].name = op.name /\ ops'["rename_rule"].to = op.to
          /\ ops'["rename_rule"].phase = p
      BY <1>0, <3>1 DEF Op
    <3> QED BY <2>1, <3>1, <3>2 DEF RenameSafe
  <2> QED BY <2>2, <2>3
<1>7. ASSUME RenameListSettled PROVE RenameSafe'
  <2>1. ops' = [ops EXCEPT !["rename_rule"] = Null]
        \/ \E t : ops' = Detached([ops EXCEPT !["rename_rule"] = Null], t)
    BY <1>7 DEF RenameListSettled, Goto
  <2>2. ops'["rename_rule"] = Null
    BY <1>0, <2>1 DEF Detached
  <2> QED BY <2>2
<1>8. ASSUME NEW n \in Rules, RuleRow(n) \/ handleNewRule(n) \/ open_rule(n) \/ create_rule(n)
      PROVE  RenameSafe'
  <2>1. PICK t \in Routes : Navigate(t)
    BY <1>8 DEF RuleRow, handleNewRule, open_rule, create_rule, Routes
  <2> QED BY <1>2, <2>1
<1>9. CASE \E n \in Rules : RuleRow(n) \/ handleNewRule(n) \/ open_rule(n) \/ create_rule(n)
  BY <1>8, <1>9
<1>10. CASE BackToRules
  BY <1>2, <1>10 DEF BackToRules, ListPage, Routes
<1>11. CASE \/ HumanEdit \/ AgentEdit \/ simulate_rule \/ GraphSimulator \/ LoadAnswer
            \/ LoadDone \/ EngineReload \/ EngineAnswer \/ setLastSimulation
            \/ UNCHANGED vars
  <2>1. UNCHANGED <<disk, ops>> /\ windows \subseteq windows'
    BY <1>11 DEF HumanEdit, AgentEdit, EditNoted, simulate_rule, GraphSimulator, Evaluate,
                 LoadAnswer, LoadDone, EngineReload, EngineAnswer, setLastSimulation, vars
  <2> QED BY <1>1, <2>1
<1>12. CASE handleSave \/ save_rule
  <2>1. route.name \in Rules
    BY <1>12 DEF handleSave, save_rule, EditorInv, TypeOK, OnList, Routes
  <2> QED BY <1>3, <1>12, <2>1 DEF handleSave, save_rule, Kinds
<1>13. ASSUME NEW n \in Rules, rename_rule(n) \/ delete_rule(n) \/ handleDelete(n)
       PROVE  RenameSafe'
  BY <1>3, <1>13 DEF rename_rule, delete_rule, handleDelete, Kinds
<1>14. CASE \/ SaveSettled \/ AgentSaveSettled \/ RenamePutSettled \/ RenameDeleteSettled
            \/ DeleteSettled
  BY <1>6, <1>14
<1>15. ASSUME NEW k \in {"rename_rule", "delete_rule"}, DeleteAnswer(k) \/ ListAnswer(k)
       PROVE  RenameSafe'
  BY <1>5, <1>6, <1>15
<1> QED
  BY <1>4, <1>7, <1>9, <1>10, <1>11, <1>12, <1>13, <1>14, <1>15 DEF Next, User, System

(* rename_rule never deletes the old file before the new one is there, and *)
(* the new one stays unless delete_rule takes it away meanwhile.           *)
THEOREM RenameLosesNothing == Spec => []RenameKeepsRule
<1>1. Init => RenameSafe
  BY DEF Init, RenameSafe, Kinds
<1>2. RenameSafe => RenameKeepsRule
  BY DEF RenameSafe, RenameKeepsRule
<1> QED BY <1>1, <1>2, EditorStarts, EditorStep, RenameStep, PTL DEF Spec
(* What is being loaded is the open rule, which is not a new one; the page *)
(* shows its loading state exactly meanwhile.                              *)
LoadIsOpen ==
  /\ ed.loading <=> load # Null
  /\ load # Null => load.name = route.name /\ ~ route.new

(* Until a graph was carried over or saved unloaded: the graph of every    *)
(* file, of a load that succeeded, of a save on its way and of a page that *)
(* has loaded was made for the rule it stands for.                         *)
Home(g, r) == g.home \in {r, Null}
Homely ==
  /\ \A r \in Rules : disk[r] # Null => Home(disk[r], r)
  /\ load # Null /\ load.phase = "ok" => Home(load.data, load.name)
  /\ \A k \in {"manual", "save_rule"} :
       ops[k] # Null /\ ops[k].phase = "put" => Home(ops[k].graph, ops[k].to)
  /\ ~ OnList /\ load = Null /\ ~ ed.loadError => Home(ed.graph, route.name)
HomeInv == (windows \cap {"carried", "save_unloaded"} = {}) => Homely

(* Without an edit or a navigation during a save, an edit during a load or *)
(* a save of a page not loaded, every save in flight is one of the page as *)
(* it is now.                                                              *)
SaveIsCurrent(k) ==
  /\ ops[k].mounted /\ ~ OnList /\ load = Null /\ ~ ed.loadError
  /\ ops[k].name = route.name /\ ops[k].graph = ed.graph /\ ops[k].revision = ed.revision
  /\ ops[k].to = route.name <=> k # "rename_rule"
  /\ ops[k].phase = "delete_ok" \/ (k # "rename_rule" /\ ops[k].phase = "put_ok")
     => disk[route.name] \in {Null, ed.graph}

(* A loaded page counts its edits up, is at its last persisted graph when  *)
(* it is clean, and then agrees with the file.                             *)
PageIsCurrent ==
  /\ ed.savedRevision <= ed.revision
  /\ ~ Dirty => ed.graph = ed.lastPersisted
  /\ load # Null /\ load.phase = "ok" => disk[load.name] \in {Null, load.data}
  /\ Ready /\ ~ Dirty /\ ~ route.new => disk[route.name] \in {Null, ed.graph}

CleanInv ==
  (windows \subseteq {"carried", "deleted_during_rename"})
  => PageIsCurrent /\ \A k \in Saves : ops[k] # Null => SaveIsCurrent(k)
(* The page and the load after a navigation.                               *)
LEMMA GotoEffect ==
  ASSUME TypeOK, NEW t \in Routes, NEW opsNow, Goto(t, opsNow)
  PROVE  /\ route' = t /\ ops' = Detached(opsNow, t)
         /\ t.name = Null => t.new = FALSE
         /\ load' # Null <=> t.name # Null /\ ~ t.new
         /\ load' # Null => load'.name = t.name /\ load'.phase = "sent"
         /\ ed'.loading <=> load' # Null
         /\ (t.name = Null \/ OnList) =>
              /\ ed'.graph = emptyGraph /\ ed'.lastPersisted = emptyGraph
              /\ ed'.revision = 0 /\ ed'.savedRevision = 0
         /\ ~ (t.name = Null \/ OnList) =>
              /\ ed'.graph = ed.graph /\ ed'.lastPersisted = ed.lastPersisted
              /\ ed'.revision = ed.revision /\ ed'.savedRevision = ed.savedRevision
<1>1. route' = t /\ ops' = Detached(opsNow, t)
  BY DEF Goto
<1>2. (t.name = Null => t.new = FALSE) /\ (t.name # Null => t.name \in Rules) /\ t.new \in BOOLEAN
  BY DEF Routes
<1>3. /\ load' # Null <=> t.name # Null /\ ~ t.new
      /\ load' # Null => load'.name = t.name /\ load'.phase = "sent"
  <2>1. CASE t.name = Null \/ t.new
    BY <2>1 DEF Goto, LoadEffect
  <2>2. CASE ~ (t.name = Null \/ t.new)
    <3>1. load' = [name |-> t.name, phase |-> "sent", data |-> Null]
      BY <2>2 DEF Goto, LoadEffect
    <3>2. load' \in Load
      BY <1>2, <2>2, <3>1 DEF Load
    <3> QED BY <2>2, <3>1, <3>2, NullIsNoLoad
  <2> QED BY <2>1, <2>2
<1>4. FreshPage \in Page /\ ed \in Page
  BY DEF FreshPage, Page, emptyGraph, Graph, TypeOK
<1>5. CASE t.name = Null
  <2>1. ed' = FreshPage
    BY <1>5 DEF Goto, PageAt
  <2> QED BY <1>1, <1>2, <1>3, <1>5, <2>1 DEF FreshPage
<1>6. ASSUME t.name # Null, NEW page \in Page,
             ed' = IF t.new THEN [page EXCEPT !.loading = FALSE]
                   ELSE [page EXCEPT !.loading = TRUE, !.loadError = FALSE]
      PROVE  /\ ed'.loading <=> load' # Null
             /\ ed'.graph = page.graph /\ ed'.lastPersisted = page.lastPersisted
             /\ ed'.revision = page.revision /\ ed'.savedRevision = page.savedRevision
  BY <1>2, <1>3, <1>6 DEF Page
<1>7. CASE t.name # Null /\ OnList
  <2>1. ed' = IF t.new THEN [FreshPage EXCEPT !.loading = FALSE]
              ELSE [FreshPage EXCEPT !.loading = TRUE, !.loadError = FALSE]
    BY <1>7 DEF Goto, PageAt
  <2>2. /\ FreshPage.graph = emptyGraph /\ FreshPage.lastPersisted = emptyGraph
        /\ FreshPage.revision = 0 /\ FreshPage.savedRevision = 0
    BY DEF FreshPage
  <2> QED BY <1>1, <1>2, <1>3, <1>4, <1>6, <1>7, <2>1, <2>2
<1>8. CASE t.name # Null /\ ~ OnList
  <2>1. ed' = IF t.new THEN [ed EXCEPT !.loading = FALSE]
              ELSE [ed EXCEPT !.loading = TRUE, !.loadError = FALSE]
    BY <1>8 DEF Goto, PageAt
  <2> QED BY <1>1, <1>2, <1>3, <1>4, <1>6, <1>8, <2>1
<1> QED BY <1>5, <1>7, <1>8

(* A write that goes on as it was, but for its phase and its page.         *)
SameWrite(k) ==
  /\ ops[k] # Null
  /\ ops'[k].name = ops[k].name /\ ops'[k].to = ops[k].to
  /\ ops'[k].graph = ops[k].graph /\ ops'[k].revision = ops[k].revision

(* Leaving the page changes nothing else of a write.                       *)
LEMMA DetachedKeeps ==
  ASSUME TypeOK, NEW t, NEW k \in Kinds, NEW opsNow,
         opsNow = ops \/ opsNow = [ops EXCEPT !["rename_rule"] = Null],
         ops' = Detached(opsNow, t), ops'[k] # Null
  PROVE  /\ SameWrite(k) /\ ops'[k].phase = ops[k].phase
         /\ k = "rename_rule" => opsNow = ops
<1>1. opsNow[k] # Null
  BY DEF Detached
<1>2. ops \in [Kinds -> Op \cup {Null}]
  BY DEF TypeOK
<1>3. opsNow[k] = ops[k] /\ (k = "rename_rule" => opsNow = ops) /\ ops[k] \in Op
  BY <1>1, <1>2
<1>4. ops'[k] \in {ops[k], [ops[k] EXCEPT !.mounted = FALSE]}
  BY <1>1, <1>3 DEF Detached
<1> QED BY <1>1, <1>3, <1>4 DEF SameWrite, Op

(* A write that moves to another phase.                                    *)
LEMMA PhaseSet ==
  ASSUME TypeOK, NEW k \in Kinds, NEW p, ops[k] # Null, ops' = [ops EXCEPT ![k].phase = p]
  PROVE  /\ SameWrite(k) /\ ops'[k].phase = p /\ ops'[k].mounted = ops[k].mounted
         /\ \A j \in Kinds : j # k => ops'[j] = ops[j]
<1>1. ops \in [Kinds -> Op \cup {Null}] /\ ops[k] \in Op
  BY DEF TypeOK
<1>2. ops' = [ops EXCEPT ![k] = [ops[k] EXCEPT !.phase = p]]
  OBVIOUS
<1>3. ops'[k] = [ops[k] EXCEPT !.phase = p] /\ \A j \in Kinds : j # k => ops'[j] = ops[j]
  BY <1>1, <1>2
<1> QED BY <1>1, <1>3 DEF SameWrite, Op

(* A write that ends.                                                      *)
LEMMA WriteEnds ==
  ASSUME TypeOK, NEW k \in Kinds, ops' = [ops EXCEPT ![k] = Null]
  PROVE  ops'[k] = Null /\ \A j \in Kinds : j # k => ops'[j] = ops[j]
BY DEF TypeOK

(* Marking the page saved changes neither its graph nor what it shows.     *)
LEMMA MarkedSaved ==
  ASSUME TypeOK, NEW rev, NEW g,
         ed' = [ed EXCEPT !.savedRevision = rev, !.lastPersisted = g]
  PROVE  /\ ed'.graph = ed.graph /\ ed'.revision = ed.revision
         /\ ed'.loading = ed.loading /\ ed'.loadError = ed.loadError
         /\ ed'.savedRevision = rev /\ ed'.lastPersisted = g
BY DEF TypeOK, Page

(* How the steps that end a write change the page.                         *)
LEMMA SettledPage ==
  ASSUME TypeOK,
         \/ SaveSettled \/ AgentSaveSettled \/ RenamePutSettled
         \/ RenameDeleteSettled \/ DeleteSettled
  PROVE  /\ ed'.graph = ed.graph /\ ed'.revision = ed.revision
         /\ ed'.loading = ed.loading /\ ed'.loadError = ed.loadError
         /\ \/ ed' = ed
            \/ \E k \in Saves :
                 /\ ops[k] # Null
                 /\ ops[k].phase = "delete_ok" \/ (k # "rename_rule" /\ ops[k].phase = "put_ok")
                 /\ ed'.savedRevision = IF k = "manual" THEN ops[k].revision ELSE ed.revision
                 /\ ed'.lastPersisted = IF k = "manual" THEN ops[k].graph ELSE ed.graph
<1> DEFINE Kept == /\ ed'.graph = ed.graph /\ ed'.revision = ed.revision
                   /\ ed'.loading = ed.loading /\ ed'.loadError = ed.loadError
           Marked(k) == /\ ops[k] # Null
                        /\ ops[k].phase = "delete_ok"
                           \/ (k # "rename_rule" /\ ops[k].phase = "put_ok")
                        /\ ed'.savedRevision = IF k = "manual" THEN ops[k].revision
                                               ELSE ed.revision
                        /\ ed'.lastPersisted = IF k = "manual" THEN ops[k].graph ELSE ed.graph
<1>1. CASE SaveSettled
  <2>1. CASE ed' = ed
    BY <2>1
  <2>2. CASE ed' # ed
    <3>1. /\ ops["manual"] # Null /\ ops["manual"].phase = "put_ok"
          /\ ed' = [ed EXCEPT !.savedRevision = ops["manual"].revision,
                              !.lastPersisted = ops["manual"].graph]
      BY <1>1, <2>2 DEF SaveSettled
    <3>2. Kept /\ Marked("manual")
      BY <3>1, MarkedSaved
    <3> QED BY <3>2 DEF Saves
  <2> QED BY <2>1, <2>2
<1>2. CASE AgentSaveSettled
  <2>1. CASE ed' = ed
    BY <2>1
  <2>2. CASE ed' # ed
    <3>1. /\ ops["save_rule"] # Null /\ ops["save_rule"].phase = "put_ok"
          /\ ed' = [ed EXCEPT !.savedRevision = ed.revision, !.lastPersisted = ed.graph]
      BY <1>2, <2>2 DEF AgentSaveSettled, onSaved
    <3>2. Kept /\ Marked("save_rule")
      BY <3>1, MarkedSaved
    <3> QED BY <3>2 DEF Saves
  <2> QED BY <2>1, <2>2
<1>3. CASE RenameDeleteSettled
  <2>1. CASE ed' = ed
    BY <2>1
  <2>2. CASE ed' # ed
    <3>1. /\ ops["rename_rule"] # Null /\ ops["rename_rule"].phase = "delete_ok"
          /\ ed' = [ed EXCEPT !.savedRevision = ed.revision, !.lastPersisted = ed.graph]
      BY <1>3, <2>2 DEF RenameDeleteSettled, onSaved
    <3>2. Kept /\ Marked("rename_rule")
      BY <3>1, MarkedSaved
    <3> QED BY <3>2 DEF Saves
  <2> QED BY <2>1, <2>2
<1>4. CASE RenamePutSettled \/ DeleteSettled
  BY <1>4 DEF RenamePutSettled, DeleteSettled
<1> QED BY <1>1, <1>2, <1>3, <1>4

(* Nothing forgets a race.                                                 *)
LEMMA RacesAreKept == ASSUME [Next]_vars PROVE windows \subseteq windows'
BY DEF Next, User, System, vars, RuleRow, handleNewRule, open_rule, create_rule, BackToRules,
       Navigate, HumanEdit, AgentEdit, EditNoted, handleSave, save_rule, rename_rule,
       delete_rule, handleDelete, Start, simulate_rule, GraphSimulator, Evaluate, LoadAnswer,
       LoadDone, PutAnswer, DeleteAnswer, ListAnswer, SaveSettled, AgentSaveSettled,
       RenamePutSettled, RenameDeleteSettled, RenameListSettled, DeleteSettled, EngineReload,
       EngineAnswer, setLastSimulation
(* A step that concerns neither a file nor a write, or is a simulation's.  *)
Aside ==
  /\ UNCHANGED <<disk, route, load, ops, windows>>
  /\ ed'.graph = ed.graph /\ ed'.lastPersisted = ed.lastPersisted
  /\ ed'.revision = ed.revision /\ ed'.savedRevision = ed.savedRevision
  /\ ed'.loading = ed.loading /\ ed'.loadError = ed.loadError

(* A write the handlers start: a save from an open page, of its graph, to  *)
(* the open file or, for a rename, another.                                *)
Starts(k, to) ==
  /\ k # "delete_rule" => ~ OnList /\ (to = route.name <=> k # "rename_rule")
  /\ Start(k, to, IF k = "delete_rule" THEN "delete" ELSE "put")

Settles == \/ SaveSettled \/ AgentSaveSettled \/ RenamePutSettled
           \/ RenameDeleteSettled \/ DeleteSettled

(* The kinds of steps the page's races depend on.                          *)
LEMMA EditorCases ==
  ASSUME EditorInv, [Next]_vars
  PROVE  \/ \E t \in Routes : Navigate(t)
         \/ LoadAnswer \/ LoadDone
         \/ HumanEdit \/ AgentEdit
         \/ \E k \in Kinds, to \in Rules : Starts(k, to)
         \/ \E k \in Saves : PutAnswer(k)
         \/ \E k \in {"rename_rule", "delete_rule"} : DeleteAnswer(k) \/ ListAnswer(k)
         \/ Settles \/ RenameListSettled \/ Aside
<1>1. ASSUME NEW n \in Rules, RuleRow(n) \/ handleNewRule(n) \/ open_rule(n) \/ create_rule(n)
      PROVE  \E t \in Routes : Navigate(t)
  BY <1>1 DEF RuleRow, handleNewRule, open_rule, create_rule, Routes
<1>2. CASE BackToRules
  BY <1>2 DEF BackToRules, ListPage, Routes
<1>3. CASE handleSave \/ save_rule
  <2>1. route.name \in Rules
    BY <1>3 DEF handleSave, save_rule, EditorInv, TypeOK, OnList, Routes
  <2>2. \E k \in {"manual", "save_rule"} : ~ OnList /\ Start(k, route.name, "put")
    BY <1>3 DEF handleSave, save_rule
  <2>3. \E k \in Kinds : Starts(k, route.name)
    BY <2>2 DEF Starts, Kinds
  <2> QED BY <2>1, <2>3
<1>4. ASSUME NEW n \in Rules, rename_rule(n) \/ delete_rule(n) \/ handleDelete(n)
      PROVE  \E k \in Kinds, to \in Rules : Starts(k, to)
  <2>1. Starts("rename_rule", n) \/ Starts("delete_rule", n)
    BY <1>4 DEF rename_rule, delete_rule, handleDelete, Starts
  <2> QED BY <2>1 DEF Kinds
<1>5. CASE simulate_rule \/ GraphSimulator \/ EngineReload \/ EngineAnswer \/ UNCHANGED vars
  BY <1>5 DEF simulate_rule, GraphSimulator, Evaluate, EngineReload, EngineAnswer, vars, Aside
<1>6. CASE setLastSimulation
  <2>1. ed \in Page /\ ed' = [ed EXCEPT !.lastSimulation = sim.eval]
        /\ UNCHANGED <<disk, route, load, ops, windows>>
    BY <1>6 DEF setLastSimulation, EditorInv, TypeOK
  <2> QED BY <2>1 DEF Page, Aside
<1>7. CASE HumanEdit \/ AgentEdit \/ LoadAnswer \/ LoadDone \/ Settles \/ RenameListSettled
  BY <1>7
<1> QED
  BY <1>1, <1>2, <1>3, <1>4, <1>5, <1>6, <1>7 DEF Next, User, System, Settles

(* The loading state and the open URL go together.                         *)
LEMMA LoadIsOpenStep == ASSUME EditorInv, LoadIsOpen, [Next]_vars PROVE LoadIsOpen'
<1>0. TypeOK /\ ed \in Page
  BY DEF EditorInv, TypeOK
<1>1. ASSUME NEW t \in Routes, NEW opsNow, Goto(t, opsNow) PROVE LoadIsOpen'
  BY <1>0, <1>1, GotoEffect DEF LoadIsOpen
<1>2. CASE LoadAnswer
  <2>1. load \in Load /\ load # Null /\ UNCHANGED <<ed, route>>
    BY <1>0, <1>2 DEF LoadAnswer, TypeOK
  <2>2. PICK ph \in {"ok", "failed"} :
          load' = [load EXCEPT !.phase = ph,
                               !.data = IF ph = "ok" THEN disk[load.name] ELSE Null]
    BY <1>2 DEF LoadAnswer
  <2>3. disk[load.name] \in Graph \cup {Null}
    BY <2>1, <1>0 DEF TypeOK, Load
  <2>4. load' \in Load /\ load'.name = load.name
    BY <2>1, <2>2, <2>3 DEF Load
  <2> QED BY <2>1, <2>4, NullIsNoLoad DEF LoadIsOpen
<1>3. CASE LoadDone
  <2>1. ed'.loading = FALSE /\ load' = Null
    BY <1>0, <1>3 DEF LoadDone, Page
  <2> QED BY <2>1 DEF LoadIsOpen
<1>4. CASE HumanEdit \/ AgentEdit
  <2>1. UNCHANGED <<load, route>>
    BY <1>4 DEF HumanEdit, AgentEdit
  <2>2. ed'.loading = ed.loading
    BY <1>0, <1>4 DEF HumanEdit, AgentEdit, HandleChange, Page
  <2> QED BY <2>1, <2>2 DEF LoadIsOpen
<1>5. ASSUME UNCHANGED <<load, route, ed>> PROVE LoadIsOpen'
  BY <1>5 DEF LoadIsOpen
<1>6. CASE \E k \in Kinds, to \in Rules : Starts(k, to)
  BY <1>5, <1>6 DEF Starts, Start
<1>7. CASE \E k \in Saves : PutAnswer(k)
  BY <1>5, <1>7 DEF PutAnswer
<1>8. CASE \E k \in {"rename_rule", "delete_rule"} : DeleteAnswer(k) \/ ListAnswer(k)
  BY <1>5, <1>8 DEF DeleteAnswer, ListAnswer
<1>9. CASE Settles
  <2>1. ed'.loading = ed.loading
    BY <1>0, <1>9, SettledPage DEF Settles
  <2>2. UNCHANGED <<load, route>>
    BY <1>9 DEF Settles, SaveSettled, AgentSaveSettled, RenamePutSettled,
                RenameDeleteSettled, DeleteSettled
  <2> QED BY <2>1, <2>2 DEF LoadIsOpen
<1>10. CASE RenameListSettled
  <2>1. ops["rename_rule"] \in Op
    BY <1>0, <1>10 DEF RenameListSettled, TypeOK, Kinds
  <2>2. [name |-> ops["rename_rule"].to, new |-> FALSE] \in Routes
    BY <2>1 DEF Op, Routes
  <2>3. \/ UNCHANGED <<load, route, ed>>
        \/ \E t \in Routes : \E opsNow : Goto(t, opsNow)
    BY <1>10, <2>2 DEF RenameListSettled
  <2> QED BY <1>1, <1>5, <2>3
<1>11. CASE Aside
  BY <1>11 DEF Aside, LoadIsOpen
<1>12. CASE \E t \in Routes : Navigate(t)
  BY <1>1, <1>12 DEF Navigate
<1> QED
  BY <1>2, <1>3, <1>4, <1>6, <1>7, <1>8, <1>9, <1>10, <1>11, <1>12, EditorCases

(* Every step keeps graphs at home until one is carried over or saved      *)
(* unloaded.                                                               *)
LEMMA HomeStep ==
  ASSUME EditorInv, LoadIsOpen, HomeInv, [Next]_vars PROVE HomeInv'
<1> SUFFICES ASSUME windows' \cap {"carried", "save_unloaded"} = {} PROVE Homely'
  BY DEF HomeInv
<1>0. /\ TypeOK /\ ed \in Page /\ disk \in [Rules -> Graph \cup {Null}]
      /\ ops \in [Kinds -> Op \cup {Null}] /\ {"manual", "save_rule"} \subseteq Kinds
      /\ windows \subseteq windows'
  BY RacesAreKept DEF EditorInv, TypeOK, Kinds
<1>1. Homely
  BY <1>0 DEF HomeInv
<1>2. ASSUME NEW t \in Routes, NEW opsNow, Goto(t, opsNow),
             opsNow = ops \/ opsNow = [ops EXCEPT !["rename_rule"] = Null],
             disk' = disk, t.new => OnList
      PROVE  Homely'
  <2>1. /\ route' = t /\ ops' = Detached(opsNow, t)
        /\ load' # Null <=> t.name # Null /\ ~ t.new
        /\ load' # Null => load'.phase = "sent"
        /\ OnList => ed'.graph = emptyGraph
    BY <1>0, <1>2, GotoEffect
  <2>2. ASSUME NEW k \in {"manual", "save_rule"}, ops'[k] # Null, ops'[k].phase = "put"
        PROVE  Home(ops'[k].graph, ops'[k].to)
    <3>1. SameWrite(k) /\ ops[k].phase = "put"
      BY <1>0, <1>2, <2>1, <2>2, DetachedKeeps
    <3> QED BY <1>1, <3>1 DEF Homely, SameWrite
  <2>3. ASSUME ~ OnList', load' = Null PROVE Home(ed'.graph, route'.name)
    <3>1. t.new
      BY <2>1, <2>3 DEF OnList
    <3> QED BY <1>2, <2>1, <3>1 DEF Home, emptyGraph
  <2> QED BY <1>1, <1>2, <2>1, <2>2, <2>3 DEF Homely
<1>3. ASSUME NEW t \in Routes, Navigate(t) PROVE Homely'
  <2>1. Goto(t, ops) /\ disk' = disk
    BY <1>3 DEF Navigate
  <2>2. t.new => OnList
    BY <1>3 DEF Navigate, Note
  <2> QED BY <1>2, <2>1, <2>2
<1>4. CASE RenameListSettled
  <2>1. ops["rename_rule"] \in Op
    BY <1>0, <1>4 DEF RenameListSettled, Kinds
  <2> DEFINE t == [name |-> ops["rename_rule"].to, new |-> FALSE]
             rest == [ops EXCEPT !["rename_rule"] = Null]
  <2>2. t \in Routes /\ t.new = FALSE
    BY <2>1 DEF Op, Routes
  <2>3. disk' = disk /\ (Goto(t, rest) \/ (ops' = rest /\ UNCHANGED <<route, ed, load>>))
    BY <1>4 DEF RenameListSettled
  <2>4. rest["manual"] = ops["manual"] /\ rest["save_rule"] = ops["save_rule"]
    BY <1>0
  <2> HIDE DEF t
  <2>5. CASE Goto(t, rest)
    BY <1>2, <2>2, <2>3, <2>5
  <2> HIDE DEF rest
  <2>6. CASE ops' = rest /\ UNCHANGED <<route, ed, load>>
    BY <1>1, <2>3, <2>4, <2>6 DEF Homely, OnList
  <2> QED BY <2>3, <2>5, <2>6
<1>5. CASE LoadAnswer
  <2>1. load \in Load /\ load # Null /\ UNCHANGED <<disk, ed, route, ops>> /\ load.name \in Rules
    BY <1>0, <1>5 DEF LoadAnswer, TypeOK, Load
  <2>2. PICK ph \in {"ok", "failed"} :
          /\ ph = "ok" => disk[load.name] # Null
          /\ load' = [load EXCEPT !.phase = ph,
                                  !.data = IF ph = "ok" THEN disk[load.name] ELSE Null]
    BY <1>5 DEF LoadAnswer
  <2>3. load'.name = load.name /\ load'.phase = ph /\ (ph = "ok" => load'.data = disk[load.name])
    BY <2>1, <2>2 DEF Load
  <2>4. load' \in Load
    BY <1>0, <2>1, <2>2 DEF Load
  <2>5. load'.phase = "ok" => Home(load'.data, load'.name)
    BY <1>1, <2>1, <2>2, <2>3 DEF Homely
  <2> QED BY <1>1, <2>1, <2>4, <2>5, NullIsNoLoad DEF Homely
<1>6. CASE LoadDone
  <2>1. load' = Null /\ UNCHANGED <<disk, route, ops>> /\ load # Null
    BY <1>6 DEF LoadDone
  <2>2. CASE load.phase = "ok"
    <3>1. ed'.graph = load.data
      BY <1>0, <1>6, <2>2 DEF LoadDone, Page
    <3>2. Home(load.data, load.name) /\ load.name = route.name
      BY <1>1, <2>1, <2>2 DEF Homely, LoadIsOpen
    <3> QED BY <1>1, <2>1, <3>1, <3>2 DEF Homely
  <2>3. CASE load.phase # "ok"
    <3>1. ed'.loadError = TRUE
      BY <1>0, <1>6, <2>3 DEF LoadDone, Page
    <3> QED BY <1>1, <2>1, <3>1 DEF Homely
  <2> QED BY <2>2, <2>3
<1>7. CASE HumanEdit \/ AgentEdit
  <2>1. UNCHANGED <<disk, route, load, ops>> /\ ~ OnList
    BY <1>7 DEF HumanEdit, AgentEdit, Ready
  <2>2. PICK v : ed'.graph = EditedGraph(v) /\ ed'.loadError = ed.loadError
    BY <1>0, <1>7 DEF HumanEdit, AgentEdit, HandleChange, Page
  <2>3. Home(ed.graph, route.name) => Home(EditedGraph(v), route.name)
    BY DEF Home, EditedGraph
  <2> QED BY <1>1, <2>1, <2>2, <2>3 DEF Homely, OnList
<1>8. ASSUME NEW k \in Kinds, NEW to \in Rules, Starts(k, to) PROVE Homely'
  <2> DEFINE op == [name |-> IF k = "delete_rule" THEN to ELSE route.name, to |-> to,
                    graph |-> ed.graph, revision |-> ed.revision,
                    phase |-> IF k = "delete_rule" THEN "delete" ELSE "put",
                    mounted |-> ~ OnList]
  <2>1. /\ UNCHANGED <<disk, route, ed, load>> /\ ops' = [ops EXCEPT ![k] = op]
        /\ k \in Saves => load = Null /\ ~ ed.loadError
    BY <1>8 DEF Starts, Start, Note
  <2>2. op.graph = ed.graph /\ op.to = to
    OBVIOUS
  <2> HIDE DEF op
  <2>3. ASSUME NEW j \in {"manual", "save_rule"}, ops'[j] # Null, ops'[j].phase = "put"
        PROVE  Home(ops'[j].graph, ops'[j].to)
    <3>1. CASE j # k
      <4>1. ops'[j] = ops[j]
        BY <1>0, <2>1, <3>1
      <4> QED BY <1>1, <2>3, <4>1 DEF Homely
    <3>2. CASE j = k
      <4>1. ops'[j] = op /\ to = route.name /\ ~ OnList /\ load = Null /\ ~ ed.loadError
        BY <1>0, <1>8, <2>1, <3>2 DEF Starts, Saves
      <4>2. Home(ed.graph, route.name)
        BY <1>1, <4>1 DEF Homely
      <4> QED BY <2>2, <4>1, <4>2
    <3> QED BY <3>1, <3>2
  <2> QED BY <1>1, <2>1, <2>3 DEF Homely, OnList
<1>9. ASSUME NEW k \in Saves, PutAnswer(k) PROVE Homely'
  <2>1. k \in Kinds /\ ops[k] # Null /\ ops[k].phase = "put" /\ UNCHANGED <<route, ed, load>>
    BY <1>9 DEF PutAnswer, Saves, Kinds
  <2>2. ops[k].graph \in Graph /\ ops[k].to \in Rules
    BY <1>0, <2>1 DEF Op
  <2>3. PICK p \in {"put_ok", "put_failed"} : ops' = [ops EXCEPT ![k].phase = p]
    BY <1>9 DEF PutAnswer, SetPhase
  <2>4. /\ ops'[k].phase = p
        /\ \A j \in Kinds : j # k => ops'[j] = ops[j]
    BY <1>0, <2>1, <2>3, PhaseSet
  <2>5. PICK g : /\ disk' = disk \/ disk' = [disk EXCEPT ![ops[k].to] = g]
                 /\ Home(g, ops[k].to)
    <3>1. CASE k = "rename_rule"
      <4>1. Home([ops[k].graph EXCEPT !.home = ops[k].to], ops[k].to)
        BY <2>2 DEF Home, Graph
      <4> QED BY <1>9, <3>1, <4>1 DEF PutAnswer
    <3>2. CASE k # "rename_rule"
      <4>1. Home(ops[k].graph, ops[k].to)
        BY <1>1, <2>1, <3>2 DEF Homely, Saves
      <4> QED BY <1>9, <3>2, <4>1 DEF PutAnswer
    <3> QED BY <3>1, <3>2
  <2>6. \A r \in Rules : disk'[r] # Null => Home(disk'[r], r)
    BY <1>0, <1>1, <2>2, <2>5 DEF Homely
  <2>7. \A j \in {"manual", "save_rule"} :
          ops'[j] # Null /\ ops'[j].phase = "put" => Home(ops'[j].graph, ops'[j].to)
    BY <1>0, <1>1, <2>4 DEF Homely
  <2> QED BY <1>1, <2>1, <2>6, <2>7 DEF Homely, OnList
<1>10. ASSUME NEW k \in {"rename_rule", "delete_rule"}, DeleteAnswer(k) \/ ListAnswer(k)
       PROVE  Homely'
  <2>1. k \in Kinds /\ ops[k] # Null /\ UNCHANGED <<route, ed, load>>
    BY <1>10 DEF DeleteAnswer, ListAnswer, Kinds
  <2>2. \E p : ops' = [ops EXCEPT ![k].phase = p]
    BY <1>10 DEF DeleteAnswer, ListAnswer, SetPhase
  <2>3. \A j \in {"manual", "save_rule"} : ops'[j] = ops[j]
    BY <1>0, <2>1, <2>2, PhaseSet
  <2>4. \A r \in Rules : disk'[r] \in {disk[r], Null}
    BY <1>0, <1>10, <2>1 DEF DeleteAnswer, ListAnswer
  <2> QED BY <1>1, <2>1, <2>3, <2>4 DEF Homely, OnList
<1>11. CASE Settles
  <2>1. ed'.graph = ed.graph /\ ed'.loadError = ed.loadError
    BY <1>0, <1>11, SettledPage DEF Settles
  <2>2. UNCHANGED <<disk, load, route>>
    BY <1>11 DEF Settles, SaveSettled, AgentSaveSettled, RenamePutSettled,
                RenameDeleteSettled, DeleteSettled
  <2>3. PICK k \in Kinds : \/ \E p \in Phases \ {"put"} :
                                ops[k] # Null /\ ops' = [ops EXCEPT ![k].phase = p]
                           \/ ops' = [ops EXCEPT ![k] = Null]
    BY <1>11 DEF Settles, SaveSettled, AgentSaveSettled, RenamePutSettled,
                 RenameDeleteSettled, DeleteSettled, SetPhase, Kinds, Phases
  <2>4. \A j \in {"manual", "save_rule"} :
          ops'[j] # Null /\ ops'[j].phase = "put" => ops'[j] = ops[j]
    <3>1. CASE ops' = [ops EXCEPT ![k] = Null]
      BY <1>0, <3>1, WriteEnds
    <3>2. ASSUME NEW p \in Phases \ {"put"}, ops[k] # Null, ops' = [ops EXCEPT ![k].phase = p]
          PROVE  \A j \in {"manual", "save_rule"} :
                   ops'[j] # Null /\ ops'[j].phase = "put" => ops'[j] = ops[j]
      BY <1>0, <3>2, PhaseSet
    <3> QED BY <2>3, <3>1, <3>2
  <2> QED BY <1>1, <2>1, <2>2, <2>4 DEF Homely, OnList
<1>12. CASE Aside
  BY <1>1, <1>12 DEF Aside, Homely, OnList
<1> QED
  BY <1>3, <1>4, <1>5, <1>6, <1>7, <1>8, <1>9, <1>10, <1>11, <1>12, EditorCases

(* Unless create_rule carries a graph over or a page saves before it has   *)
(* loaded, no file ever holds a graph made for another rule.               *)
THEOREM GraphsStayHome == Spec => []GraphStaysHome
<1>1. Init => LoadIsOpen /\ HomeInv
  <2> SUFFICES ASSUME Init PROVE LoadIsOpen /\ Homely
    BY DEF HomeInv
  <2>1. LoadIsOpen
    BY DEF Init, LoadIsOpen, FreshPage
  <2>2. \A r \in Rules : disk[r] # Null => Home(disk[r], r)
    BY DEF Init, Home
  <2> QED BY <2>1, <2>2 DEF Init, Homely, OnList, ListPage, Kinds
<1>2. HomeInv => GraphStaysHome
  BY DEF HomeInv, Homely, Home, GraphStaysHome
<1>3. EditorInv /\ LoadIsOpen /\ HomeInv /\ [Next]_vars => LoadIsOpen' /\ HomeInv'
  BY LoadIsOpenStep, HomeStep
<1> QED BY <1>1, <1>2, <1>3, EditorStarts, EditorStep, PTL DEF Spec
(* A clean page stays at its file unless one of the named races happens.   *)
LEMMA CleanStep ==
  ASSUME EditorInv, LoadIsOpen, CleanInv, [Next]_vars PROVE CleanInv'
<1> SUFFICES ASSUME windows' \subseteq {"carried", "deleted_during_rename"}
             PROVE  PageIsCurrent' /\ \A k \in Saves : ops'[k] # Null => SaveIsCurrent(k)'
  BY DEF CleanInv
<1>0. /\ TypeOK /\ ed \in Page /\ disk \in [Rules -> Graph \cup {Null}]
      /\ ops \in [Kinds -> Op \cup {Null}] /\ Saves \subseteq Kinds
      /\ windows \subseteq windows'
      /\ ed.revision \in Nat /\ ed.savedRevision \in Nat
  BY RacesAreKept DEF EditorInv, TypeOK, Kinds, Saves, Page
<1>1. PageIsCurrent /\ \A k \in Saves : ops[k] # Null => SaveIsCurrent(k)
  BY <1>0 DEF CleanInv
<1>a. ~ OnList => route.name \in Rules
  BY <1>0 DEF TypeOK, Routes, OnList
(* A navigation with no save in flight.                                    *)
<1>2. ASSUME NEW t \in Routes, NEW opsNow, Goto(t, opsNow), disk' = disk,
             \A k \in Saves : opsNow[k] = Null
      PROVE  PageIsCurrent' /\ \A k \in Saves : ops'[k] # Null => SaveIsCurrent(k)'
  <2>1. /\ route' = t /\ ops' = Detached(opsNow, t)
        /\ load' # Null <=> t.name # Null /\ ~ t.new
        /\ load' # Null => load'.phase = "sent"
        /\ ed'.loading <=> load' # Null
        /\ (t.name = Null \/ OnList) =>
             /\ ed'.graph = emptyGraph /\ ed'.lastPersisted = emptyGraph
             /\ ed'.revision = 0 /\ ed'.savedRevision = 0
        /\ ~ (t.name = Null \/ OnList) =>
             /\ ed'.graph = ed.graph /\ ed'.lastPersisted = ed.lastPersisted
             /\ ed'.revision = ed.revision /\ ed'.savedRevision = ed.savedRevision
    BY <1>0, <1>2, GotoEffect
  <2>2. \A k \in Saves : ops'[k] = Null
    BY <1>0, <1>2, <2>1 DEF Detached
  <2>3. /\ ed'.savedRevision <= ed'.revision
        /\ ed'.revision = ed'.savedRevision => ed'.graph = ed'.lastPersisted
    BY <1>0, <1>1, <2>1 DEF PageIsCurrent, Dirty
  <2>4. Ready' => route'.new
    BY <2>1 DEF Ready, OnList
  <2>5. PageIsCurrent'
    BY <2>1, <2>3, <2>4 DEF PageIsCurrent, Dirty
  <2> QED BY <2>2, <2>5
<1>3. ASSUME NEW t \in Routes, Navigate(t)
      PROVE  PageIsCurrent' /\ \A k \in Saves : ops'[k] # Null => SaveIsCurrent(k)'
  <2>1. Goto(t, ops) /\ disk' = disk /\ InFlight = {}
    BY <1>3 DEF Navigate, Note
  <2>2. \A k \in Saves : ops[k] = Null
    BY <1>1, <2>1 DEF InFlight, SaveIsCurrent
  <2> QED BY <1>2, <2>1, <2>2
(* A step that leaves the page's own state as it is.                       *)
<1>4. ASSUME UNCHANGED <<route, ed, load>>,
             \A r \in Rules : disk'[r] = disk[r] \/ disk'[r] = Null
                              \/ (r = route.name /\ disk'[r] = ed.graph),
             load # Null => \A r \in Rules : disk'[r] = disk[r] \/ disk'[r] = Null,
             \A k \in Saves : ops'[k] # Null =>
               ops'[k] = ops[k] \/ (SaveIsCurrent(k)' /\ ops'[k] # Null)
      PROVE  PageIsCurrent' /\ \A k \in Saves : ops'[k] # Null => SaveIsCurrent(k)'
  <2>1. ~ OnList /\ disk[route.name] \in {Null, ed.graph}
          => disk'[route.name] \in {Null, ed.graph}
    BY <1>4, <1>a
  <2>2. load # Null => load.name \in Rules
    BY <1>0 DEF TypeOK, Load
  <2>3. PageIsCurrent'
    <3>1. load' # Null /\ load'.phase = "ok" => disk'[load'.name] \in {Null, load'.data}
      BY <1>1, <1>4, <2>2 DEF PageIsCurrent
    <3>2. Ready' /\ ~ Dirty' /\ ~ route'.new => disk'[route'.name] \in {Null, ed'.graph}
      BY <1>1, <1>4, <2>1 DEF PageIsCurrent, Ready, Dirty, OnList
    <3>3. ed'.savedRevision <= ed'.revision /\ (~ Dirty' => ed'.graph = ed'.lastPersisted)
      BY <1>1, <1>4 DEF PageIsCurrent, Dirty
    <3> QED BY <3>1, <3>2, <3>3 DEF PageIsCurrent
  <2>4. ASSUME NEW k \in Saves, ops'[k] # Null PROVE SaveIsCurrent(k)'
    <3>1. CASE ops'[k] = ops[k]
      <4>1. SaveIsCurrent(k)
        BY <1>1, <2>4, <3>1
      <4> QED BY <1>4, <2>1, <3>1, <4>1 DEF SaveIsCurrent, OnList
    <3> QED BY <1>4, <2>4, <3>1
  <2> QED BY <2>3, <2>4
<1>5. CASE RenameListSettled
  <2>1. ops["rename_rule"] \in Op /\ "rename_rule" \in Kinds
    BY <1>0, <1>5 DEF RenameListSettled, Kinds
  <2> DEFINE t == [name |-> ops["rename_rule"].to, new |-> FALSE]
             rest == [ops EXCEPT !["rename_rule"] = Null]
  <2>2. t \in Routes
    BY <2>1 DEF Op, Routes
  <2>3. /\ disk' = disk
        /\ \/ Goto(t, rest) /\ route # t
           \/ ops' = rest /\ UNCHANGED <<route, ed, load>>
    BY <1>5 DEF RenameListSettled
  <2>4. rest["rename_rule"] = Null /\ \A k \in Kinds \ {"rename_rule"} : rest[k] = ops[k]
    BY <1>0, <2>1
  <2> HIDE DEF t, rest
  <2>5. CASE Goto(t, rest) /\ route # t
    <3>1. route' # route
      BY <2>5 DEF Goto
    <3>2. InFlight = {"rename_rule"}
      BY <1>5, <3>1 DEF RenameListSettled, Note
    <3>3. \A k \in Saves : rest[k] = Null
      BY <1>0, <1>1, <2>4, <3>2 DEF InFlight, SaveIsCurrent
    <3> QED BY <1>2, <2>2, <2>3, <2>5, <3>3
  <2>6. CASE ops' = rest /\ UNCHANGED <<route, ed, load>>
    <3>1. \A k \in Saves : ops'[k] # Null => ops'[k] = ops[k]
      BY <1>0, <2>4, <2>6
    <3> QED BY <1>4, <2>3, <2>6, <3>1
  <2> QED BY <2>3, <2>5, <2>6
<1>6. CASE LoadAnswer
  <2>1. load \in Load /\ load # Null /\ UNCHANGED <<disk, ed, route, ops>>
    BY <1>0, <1>6 DEF LoadAnswer, TypeOK
  <2>2. PICK ph \in {"ok", "failed"} :
          load' = [load EXCEPT !.phase = ph,
                               !.data = IF ph = "ok" THEN disk[load.name] ELSE Null]
    BY <1>6 DEF LoadAnswer
  <2>3. load'.name = load.name /\ (load'.phase = "ok" => load'.data = disk[load.name])
    BY <2>1, <2>2 DEF Load
  <2>4. \A k \in Saves : ops'[k] = Null
    BY <1>1, <2>1 DEF SaveIsCurrent
  <2>5. ~ Ready'
    BY <2>1 DEF LoadIsOpen, Ready
  <2>6. PageIsCurrent'
    BY <1>1, <2>1, <2>3, <2>5 DEF PageIsCurrent, Dirty
  <2> QED BY <2>4, <2>6
<1>7. CASE LoadDone
  <2>1. load' = Null /\ UNCHANGED <<disk, route, ops>> /\ load # Null
    BY <1>7 DEF LoadDone
  <2>2. \A k \in Saves : ops'[k] = Null
    BY <1>1, <2>1 DEF SaveIsCurrent
  <2>3. CASE load.phase = "ok"
    <3>1. /\ ed'.graph = load.data /\ ed'.lastPersisted = load.data
          /\ ed'.revision = 0 /\ ed'.savedRevision = 0
      BY <1>0, <1>7, <2>3 DEF LoadDone, Page
    <3>2. disk[route.name] \in {Null, load.data}
      BY <1>1, <2>1, <2>3 DEF PageIsCurrent, LoadIsOpen
    <3> QED BY <2>1, <2>2, <3>1, <3>2 DEF PageIsCurrent
  <2>4. CASE load.phase # "ok"
    <3>1. /\ ed'.loadError = TRUE
          /\ ed'.graph = ed.graph /\ ed'.lastPersisted = ed.lastPersisted
          /\ ed'.revision = ed.revision /\ ed'.savedRevision = ed.savedRevision
      BY <1>0, <1>7, <2>4 DEF LoadDone, Page
    <3> QED BY <1>1, <2>1, <2>2, <3>1 DEF PageIsCurrent, Dirty, Ready
  <2> QED BY <2>3, <2>4
<1>8. CASE HumanEdit \/ AgentEdit
  <2>1. /\ UNCHANGED <<disk, route, load, ops>> /\ ~ OnList
        /\ InFlight = {} /\ load = Null
    BY <1>8 DEF HumanEdit, AgentEdit, Ready, EditNoted, Note
  <2>2. \A k \in Saves : ops'[k] = Null
    BY <1>1, <2>1 DEF InFlight, SaveIsCurrent
  <2>3. PICK v : /\ ed'.graph = EditedGraph(v)
                 /\ \/ ed'.revision = ed.revision + 1
                    \/ ed'.graph = ed.lastPersisted /\ ed'.revision = ed.revision
                 /\ ed'.savedRevision = ed.savedRevision /\ ed'.loading = ed.loading
                 /\ ed'.lastPersisted = ed.lastPersisted /\ ed'.loadError = ed.loadError
    BY <1>0, <1>8 DEF HumanEdit, AgentEdit, HandleChange, Page
  <2>4. CASE ed'.revision = ed.revision + 1
    <3>1. ed'.savedRevision <= ed'.revision /\ Dirty'
      BY <1>0, <1>1, <2>3, <2>4 DEF PageIsCurrent, Dirty
    <3> QED BY <2>1, <2>2, <3>1 DEF PageIsCurrent
  <2>5. CASE ed'.graph = ed.lastPersisted /\ ed'.revision = ed.revision
    <3>1. ed'.savedRevision <= ed'.revision /\ ed'.graph = ed'.lastPersisted
      BY <1>1, <2>3, <2>5 DEF PageIsCurrent
    <3>2. Ready' /\ ~ Dirty' /\ ~ route'.new => disk'[route'.name] \in {Null, ed'.graph}
      BY <1>1, <2>1, <2>3, <2>5 DEF PageIsCurrent, Ready, Dirty, OnList
    <3> QED BY <2>1, <2>2, <3>1, <3>2 DEF PageIsCurrent
  <2> QED BY <2>3, <2>4, <2>5
<1>9. ASSUME NEW k \in Kinds, NEW to \in Rules, Starts(k, to)
      PROVE  PageIsCurrent' /\ \A j \in Saves : ops'[j] # Null => SaveIsCurrent(j)'
  <2> DEFINE op == [name |-> IF k = "delete_rule" THEN to ELSE route.name, to |-> to,
                    graph |-> ed.graph, revision |-> ed.revision,
                    phase |-> IF k = "delete_rule" THEN "delete" ELSE "put",
                    mounted |-> ~ OnList]
  <2>1. /\ UNCHANGED <<disk, route, ed, load>> /\ ops' = [ops EXCEPT ![k] = op]
        /\ k \in Saves => load = Null /\ ~ ed.loadError
    BY <1>9 DEF Starts, Start, Note
  <2>2. k \in Saves => ~ OnList /\ (to = route.name <=> k # "rename_rule")
    BY <1>9 DEF Starts, Saves
  <2>3. /\ op.graph = ed.graph /\ op.to = to /\ op.revision = ed.revision
        /\ k \in Saves => op.name = route.name /\ op.phase = "put" /\ op.mounted
    BY <2>2 DEF Saves
  <2> HIDE DEF op
  <2>4. ops'[k] = op /\ \A j \in Kinds : j # k => ops'[j] = ops[j]
    BY <1>0, <2>1
  <2>5. k \in Saves => SaveIsCurrent(k)'
    BY <2>1, <2>2, <2>3, <2>4 DEF SaveIsCurrent, OnList
  <2>6. \A j \in Saves : ops'[j] # Null =>
          ops'[j] = ops[j] \/ (SaveIsCurrent(j)' /\ ops'[j] # Null)
    BY <1>0, <2>4, <2>5
  <2> QED BY <1>4, <2>1, <2>6
<1>10. ASSUME NEW k \in Saves, PutAnswer(k)
       PROVE  PageIsCurrent' /\ \A j \in Saves : ops'[j] # Null => SaveIsCurrent(j)'
  <2>1. /\ k \in Kinds /\ ops[k] # Null /\ UNCHANGED <<route, ed, load>> /\ SaveIsCurrent(k)
    BY <1>0, <1>1, <1>10 DEF PutAnswer
  <2>2. load = Null /\ ~ OnList /\ ops[k].to \in Rules
    BY <1>0, <2>1 DEF SaveIsCurrent, Op
  <2>3. PICK p \in {"put_ok", "put_failed"} : ops' = [ops EXCEPT ![k].phase = p]
    BY <1>10 DEF PutAnswer, SetPhase
  <2>4. /\ SameWrite(k) /\ ops'[k].phase = p /\ ops'[k].mounted = ops[k].mounted
        /\ \A j \in Kinds : j # k => ops'[j] = ops[j]
    BY <1>0, <2>1, <2>3, PhaseSet
  <2>5. \/ disk' = disk /\ p = "put_failed"
        \/ \E g : disk' = [disk EXCEPT ![ops[k].to] = g] /\ (k # "rename_rule" => g = ed.graph)
    <3>1. \/ disk' = disk /\ ops' = [ops EXCEPT ![k].phase = "put_failed"]
          \/ \E g : /\ disk' = [disk EXCEPT ![ops[k].to] = g]
                    /\ k # "rename_rule" => g = ops[k].graph
      BY <1>10 DEF PutAnswer, SetPhase
    <3>2. ops' = [ops EXCEPT ![k].phase = "put_failed"] => p = "put_failed"
      BY <1>0, <2>1, <2>4, PhaseSet
    <3>3. ops[k].graph = ed.graph
      BY <2>1 DEF SaveIsCurrent
    <3> QED BY <3>1, <3>2, <3>3
  <2>6. ops[k].to = route.name <=> k # "rename_rule"
    BY <2>1 DEF SaveIsCurrent
  <2>7. /\ \A r \in Rules : disk'[r] = disk[r] \/ r # route.name
                            \/ (r = route.name /\ disk'[r] = ed.graph)
        /\ p = "put_ok" /\ k # "rename_rule" => disk'[route.name] = ed.graph
    BY <1>0, <1>a, <2>2, <2>5, <2>6
  <2>8. SaveIsCurrent(k)'
    BY <1>0, <2>1, <2>4, <2>7 DEF SaveIsCurrent, SameWrite, OnList
  <2>9. disk[route.name] \in {Null, ed.graph} => disk'[route.name] \in {Null, ed.graph}
    BY <1>a, <2>2, <2>7
  <2>10. ASSUME NEW j \in Saves, ops'[j] # Null PROVE SaveIsCurrent(j)'
    <3>1. CASE j # k
      <4>1. ops'[j] = ops[j] /\ SaveIsCurrent(j)
        BY <1>0, <1>1, <2>4, <2>10, <3>1
      <4> QED BY <2>1, <2>9, <4>1 DEF SaveIsCurrent, OnList
    <3> QED BY <2>8, <3>1
  <2>11. PageIsCurrent'
    BY <1>1, <2>1, <2>2, <2>9 DEF PageIsCurrent, Ready, Dirty, OnList
  <2> QED BY <2>10, <2>11
<1>11. ASSUME NEW k \in {"rename_rule", "delete_rule"}, DeleteAnswer(k) \/ ListAnswer(k)
       PROVE  PageIsCurrent' /\ \A j \in Saves : ops'[j] # Null => SaveIsCurrent(j)'
  <2>1. k \in Kinds /\ ops[k] # Null /\ UNCHANGED <<route, ed, load>> /\ ops[k].name \in Rules
    BY <1>0, <1>11 DEF DeleteAnswer, ListAnswer, Kinds, Op
  <2>2. PICK p \in {"delete_ok", "delete_failed", "list_ok", "list_failed"} :
          ops' = [ops EXCEPT ![k].phase = p]
    BY <1>11 DEF DeleteAnswer, ListAnswer, SetPhase
  <2>3. /\ SameWrite(k) /\ ops'[k].phase = p /\ ops'[k].mounted = ops[k].mounted
        /\ \A j \in Kinds : j # k => ops'[j] = ops[j]
    BY <1>0, <2>1, <2>2, PhaseSet
  <2>4. \A r \in Rules : disk'[r] = disk[r] \/ disk'[r] = Null
    BY <1>0, <1>11, <2>1 DEF DeleteAnswer, ListAnswer
  <2>5. p = "delete_ok" => disk'[ops[k].name] = Null
    <3>1. ListAnswer(k) => p \in {"list_ok", "list_failed"}
      <4>1. ListAnswer(k) => \E q \in {"list_ok", "list_failed"} : ops' = [ops EXCEPT ![k].phase = q]
        BY DEF ListAnswer, SetPhase
      <4> QED BY <1>0, <2>1, <2>3, <4>1, PhaseSet
    <3>2. DeleteAnswer(k) => \/ disk' = [disk EXCEPT ![ops[k].name] = Null]
                             \/ ops' = [ops EXCEPT ![k].phase = "delete_failed"]
      BY DEF DeleteAnswer, SetPhase
    <3>3. ops' = [ops EXCEPT ![k].phase = "delete_failed"] => p = "delete_failed"
      BY <1>0, <2>1, <2>3, PhaseSet
    <3> QED BY <1>0, <1>11, <2>1, <3>1, <3>2, <3>3
  <2>6. k \in Saves => SaveIsCurrent(k)'
    <3> SUFFICES ASSUME k \in Saves PROVE SaveIsCurrent(k)'
      OBVIOUS
    <3>1. SaveIsCurrent(k) /\ k = "rename_rule"
      BY <1>1, <2>1 DEF Saves
    <3>2. ops[k].name = route.name
      BY <3>1 DEF SaveIsCurrent
    <3> QED BY <2>1, <2>2, <2>3, <2>5, <3>1, <3>2 DEF SaveIsCurrent, SameWrite, OnList
  <2>7. \A j \in Saves : ops'[j] # Null =>
          ops'[j] = ops[j] \/ (SaveIsCurrent(j)' /\ ops'[j] # Null)
    BY <1>0, <2>3, <2>6
  <2> QED BY <1>4, <2>1, <2>4, <2>7
<1>12. CASE Settles
  <2>1. /\ ed'.graph = ed.graph /\ ed'.revision = ed.revision
        /\ ed'.loading = ed.loading /\ ed'.loadError = ed.loadError
    BY <1>0, <1>12, SettledPage DEF Settles
  <2>2. UNCHANGED <<disk, load, route>>
    BY <1>12 DEF Settles, SaveSettled, AgentSaveSettled, RenamePutSettled,
                RenameDeleteSettled, DeleteSettled
  <2>3. PICK k \in Kinds : \/ \E p \in {"delete", "list"} :
                                ops[k] # Null /\ ops' = [ops EXCEPT ![k].phase = p]
                           \/ ops' = [ops EXCEPT ![k] = Null]
    BY <1>12 DEF Settles, SaveSettled, AgentSaveSettled, RenamePutSettled,
                 RenameDeleteSettled, DeleteSettled, SetPhase, Kinds
  <2>4. ASSUME NEW j \in Saves, ops'[j] # Null
        PROVE  /\ SameWrite(j) /\ ops'[j].mounted = ops[j].mounted
               /\ ops'[j].phase \in {ops[j].phase, "delete", "list"}
    <3>1. CASE ops' = [ops EXCEPT ![k] = Null]
      BY <1>0, <2>4, <3>1, WriteEnds DEF SameWrite
    <3>2. ASSUME NEW p \in {"delete", "list"}, ops[k] # Null,
                 ops' = [ops EXCEPT ![k].phase = p]
          PROVE  /\ SameWrite(j) /\ ops'[j].mounted = ops[j].mounted
                 /\ ops'[j].phase \in {ops[j].phase, "delete", "list"}
      <4>1. /\ SameWrite(k) /\ ops'[k].phase = p /\ ops'[k].mounted = ops[k].mounted
            /\ \A i \in Kinds : i # k => ops'[i] = ops[i]
        BY <1>0, <3>2, PhaseSet
      <4> QED BY <1>0, <2>4, <4>1 DEF SameWrite
    <3> QED BY <2>3, <3>1, <3>2
  <2>5. ASSUME NEW j \in Saves, ops'[j] # Null PROVE SaveIsCurrent(j)'
    <3>1. SaveIsCurrent(j)
      BY <1>1, <2>4, <2>5 DEF SameWrite
    <3> QED BY <2>1, <2>2, <2>4, <2>5, <3>1 DEF SaveIsCurrent, SameWrite, OnList
  <2>6. CASE ed' = ed
    BY <1>1, <2>2, <2>5, <2>6 DEF PageIsCurrent, Ready, Dirty, OnList
  <2>7. CASE ed' # ed
    <3>1. PICK j \in Saves :
            /\ ops[j] # Null
            /\ ops[j].phase = "delete_ok" \/ (j # "rename_rule" /\ ops[j].phase = "put_ok")
            /\ ed'.savedRevision = IF j = "manual" THEN ops[j].revision ELSE ed.revision
            /\ ed'.lastPersisted = IF j = "manual" THEN ops[j].graph ELSE ed.graph
      BY <1>0, <1>12, <2>7, SettledPage DEF Settles
    <3>2. /\ ops[j].revision = ed.revision /\ ops[j].graph = ed.graph /\ load = Null
          /\ disk[route.name] \in {Null, ed.graph}
      BY <1>1, <3>1 DEF SaveIsCurrent
    <3>3. ed'.savedRevision = ed.revision /\ ed'.lastPersisted = ed.graph
      BY <3>1, <3>2
    <3>4. PageIsCurrent'
      BY <1>0, <2>1, <2>2, <3>2, <3>3 DEF PageIsCurrent
    <3> QED BY <2>5, <3>4
  <2> QED BY <2>6, <2>7
<1>13. CASE Aside
  BY <1>1, <1>13 DEF Aside, PageIsCurrent, SaveIsCurrent, Ready, Dirty, OnList
<1> QED
  BY <1>3, <1>5, <1>6, <1>7, <1>8, <1>9, <1>10, <1>11, <1>12, <1>13, EditorCases

(* The editor calls a rule clean only when its file, if it still exists,   *)
(* is what is on screen, unless one of the four races has happened: for    *)
(* any rules, edits, lost answers and order of answers.                    *)
THEOREM CleanIsOnDisk == Spec => []CleanMeansOnDisk
<1>1. Init => LoadIsOpen /\ CleanInv
  <2> SUFFICES ASSUME Init
               PROVE  LoadIsOpen /\ PageIsCurrent /\ \A k \in Saves : ops[k] = Null
    BY DEF CleanInv
  <2>1. LoadIsOpen
    BY DEF Init, LoadIsOpen, FreshPage
  <2>2. \A k \in Saves : ops[k] = Null
    BY DEF Init, Saves, Kinds
  <2>3. PageIsCurrent
    BY DEF Init, PageIsCurrent, FreshPage, Ready, OnList, ListPage, Dirty
  <2> QED BY <2>1, <2>2, <2>3
<1>2. CleanInv => CleanMeansOnDisk
  BY DEF CleanInv, PageIsCurrent, CleanMeansOnDisk
<1>3. EditorInv /\ LoadIsOpen /\ CleanInv /\ [Next]_vars => LoadIsOpen' /\ CleanInv'
  BY LoadIsOpenStep, CleanStep
<1> QED BY <1>1, <1>2, <1>3, EditorStarts, EditorStep, PTL DEF Spec
=============================================================================

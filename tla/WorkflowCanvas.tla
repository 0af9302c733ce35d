--------------------------- MODULE WorkflowCanvas ---------------------------
(***************************************************************************)
(* The visual editor of decision-graph files (atomic-fi-web).  The page    *)
(* holds a name, nodes and edges; a sample is fetched on first paint,      *)
(* files are read without waiting for each other, and one node at a time   *)
(* is open in the inspector, whose schema editor has a text of its own     *)
(* that reaches the node only on blur.                                     *)
(* A click outside the schema editor blurs it first, so a click is guarded *)
(* by ~focused; keys, answers and a drop are not.                          *)
(***************************************************************************)
EXTENDS Naturals, FiniteSets

CONSTANTS
  NodeIds,     \* ids of nodes: the ones files use and the ones nextId makes
  FreshIds,    \* those nextId makes
  Columns,     \* ids of table columns, the default ones "in_1", "out_1" among them
  RuleIds,     \* ids of table rules
  Schemas,     \* the JSON schemas a user types
  Files,       \* names of files on the user's disk
  OnDisk,      \* file -> what JSON.parse makes of it, or Garbage
  Sample,      \* what the server has at SAMPLE_PATH, or Garbage
  Garbage,
  Null,
  MaxClicks    \* bound: what the user does

ASSUME CanvasAssumption ==
  /\ FreshIds \subseteq NodeIds
  /\ {"in_1", "out_1"} \subseteq Columns
  /\ Schemas \cap {"", "broken"} = {} /\ Null \notin NodeIds
  /\ MaxClicks \in Nat

VARIABLES
  name,      \* the name in the toolbar
  nodes,     \* id -> node on the canvas
  edges,     \* <<source, target>> of the edges on the canvas
  editing,   \* editingNodeId, or Null
  error,     \* is the banner up?
  text,      \* the schema editor: what it shows, is it focused, the node its
             \* text belongs to
  sample,    \* is the sample still being fetched?
  reading,   \* files being read
  clicks     \* bound used up

vars == <<name, nodes, edges, editing, error, text, sample, reading, clicks>>
-----------------------------------------------------------------------------
(* Nodes and their content.                                                *)

NodeKinds == {"inputNode", "outputNode", "decisionTableNode", "functionNode"}
SAMPLE_NAME == "de_minimis"
FileNames == Files \cup {SAMPLE_NAME, "untitled-workflow", ""}

Undefined == [is |-> "undefined"]
Schema(v) == [is |-> "schema", value |-> v]
Expression(e) == [is |-> "function", expression |-> e]
Table(hit, ins, outs, rules) ==
  [is |-> "table", hitPolicy |-> hit, inputs |-> ins, outputs |-> outs, rules |-> rules]

defaultContent(kind) ==
  CASE kind = "decisionTableNode" ->
         Table("first", {"in_1"}, {"out_1"}, [r \in {} |-> {}])
    [] kind = "functionNode" -> Expression("")
    [] OTHER -> Undefined

(* A file's value is a graph, an object that is none, or no object.  A     *)
(* node of a file may have no type and no content.                         *)
Graph(ns, es) == [is |-> "graph", nodes |-> ns, edges |-> es]
parseWorkflow(value) == [ok |-> value.is # "scalar", value |-> value]

(* Mapping over the nodes of an object that has none throws.               *)
Throws(value) == value.is = "object"

(* A node as the canvas has it, whose data holds name and content.         *)
Drawn(n) ==
  [kind |-> IF "type" \in DOMAIN n THEN n.type ELSE "none",
   named |-> n.name,
   content |-> IF "content" \in DOMAIN n THEN n.content ELSE Undefined]

rulesFileToGraph(file) ==
  [nodes |-> [i \in DOMAIN file.nodes |-> Drawn(file.nodes[i])],
   edges |-> {<<e.sourceId, e.targetId>> : e \in file.edges}]

(* A node as it is written: one without a type, which React Flow draws, as *)
(* a function, and content only where there is some.                       *)
Written(n) ==
  [k \in {"type", "name"} \cup (IF n.content = Undefined THEN {} ELSE {"content"}) |->
     CASE k = "type"    -> IF n.kind = "none" THEN "functionNode" ELSE n.kind
       [] k = "name"    -> n.named
       [] k = "content" -> n.content]

(* Fault: the ends of an edge are written the other way round.             *)
workflowToRulesFileSwapped(ns, es) ==
  Graph([i \in DOMAIN ns |-> Written(ns[i])],
        {[sourceId |-> e[2], targetId |-> e[1]] : e \in es})

workflowToRulesFile(ns, es) ==
  Graph([i \in DOMAIN ns |-> Written(ns[i])],
        {[sourceId |-> e[1], targetId |-> e[2]] : e \in es})
-----------------------------------------------------------------------------
(* The inspector.                                                          *)

editingNode == IF editing \in DOMAIN nodes THEN editing ELSE Null

(* The schema editor is what the inspector renders for the node ed.        *)
Mounted(ns, ed) == ed \in DOMAIN ns /\ ns[ed].kind \in {"inputNode", "outputNode"}

Shown(content) == IF content = Undefined THEN "" ELSE content.value
Closed == [shows |-> "", focused |-> FALSE, of |-> Null]

(* Fault: the effect that follows data.content is missing.                 *)
RedrawNever(ns, ed, rebuilt) ==
  text' = IF ~Mounted(ns, ed) THEN Closed
          ELSE IF Mounted(nodes, editing) THEN text
          ELSE [shows |-> Shown(ns[ed].content), of |-> ed, focused |-> FALSE]

(* The next render, with nodes ns and ed open; rebuilt says whether the    *)
(* nodes come from newly parsed JSON.  An editor that stays mounted keeps  *)
(* its text unless data.content became another value: the content of       *)
(* another node is one, except that undefined is the same everywhere.      *)
Redraw(ns, ed, rebuilt) ==
  text' = IF ~Mounted(ns, ed) THEN Closed
          ELSE IF /\ Mounted(nodes, editing)
                  /\ \/ nodes[editing].content = Undefined /\ ns[ed].content = Undefined
                     \/ ed = editing /\ ~rebuilt /\ ns[ed].content = nodes[ed].content
               THEN text
               ELSE [shows |-> Shown(ns[ed].content), of |-> ed,
                     focused |-> text.focused /\ Mounted(nodes, editing)]

Show(ns, ed, rebuilt) == nodes' = ns /\ editing' = ed /\ Redraw(ns, ed, rebuilt)

-----------------------------------------------------------------------------
Init ==
  /\ name = SAMPLE_NAME
  /\ nodes = [i \in {} |-> Undefined]
  /\ edges = {} /\ editing = Null /\ error = FALSE /\ text = Closed
  /\ sample = TRUE /\ reading = {} /\ clicks = 0

Click == clicks < MaxClicks /\ clicks' = clicks + 1
ClickOutside == Click /\ ~text.focused

(* Fault: the edges are forgotten.                                         *)
SampleNodesOnly ==
  /\ sample
  /\ Sample # Garbage /\ parseWorkflow(Sample).ok /\ ~Throws(Sample)
  /\ Show(rulesFileToGraph(Sample).nodes, editing, TRUE)
  /\ sample' = FALSE
  /\ UNCHANGED <<name, edges, error, reading, clicks>>

(* The answer to the fetch of the first paint.  It replaces whatever is on *)
(* the canvas by then; the name and the open node stay.                    *)
SampleArrives ==
  /\ sample
  /\ Sample # Garbage /\ parseWorkflow(Sample).ok /\ ~Throws(Sample)
  /\ Show(rulesFileToGraph(Sample).nodes, editing, TRUE)
  /\ edges' = rulesFileToGraph(Sample).edges
  /\ sample' = FALSE
  /\ UNCHANGED <<name, error, reading, clicks>>

(* No answer, no JSON, no object or no graph: each is swallowed.           *)
SampleFails ==
  /\ sample
  /\ sample' = FALSE
  /\ UNCHANGED <<name, nodes, edges, editing, error, text, reading, clicks>>

(* Load: the read starts, and waits for no other.                          *)
handleLoad(f) ==
  /\ ClickOutside
  /\ error' = FALSE
  /\ reading' = reading \cup {f}
  /\ UNCHANGED <<name, nodes, edges, editing, text, sample>>

(* The rest of handleLoad, when the file has been read: garbage, something *)
(* that is no object and an object that is no graph all end in the banner, *)
(* before anything else is set.                                            *)
FileRead(f) ==
  /\ f \in reading /\ reading' = reading \ {f}
  /\ IF OnDisk[f] # Garbage /\ parseWorkflow(OnDisk[f]).ok /\ ~Throws(OnDisk[f])
     THEN /\ name' = f
          /\ edges' = rulesFileToGraph(OnDisk[f]).edges
          /\ Show(rulesFileToGraph(OnDisk[f]).nodes, Null, TRUE)
          /\ UNCHANGED error
     ELSE error' = TRUE /\ UNCHANGED <<name, nodes, edges, editing, text>>
  /\ UNCHANGED <<sample, clicks>>

handleReset ==
  /\ ClickOutside
  /\ name' = "untitled-workflow" /\ edges' = {} /\ error' = FALSE
  /\ Show([i \in {} |-> Undefined], Null, TRUE)
  /\ UNCHANGED <<sample, reading>>

setName(n) ==
  /\ ClickOutside
  /\ name' = n
  /\ UNCHANGED <<nodes, edges, editing, error, text, sample, reading>>

(* What a click on Save downloads; it changes nothing on the page.         *)
handleSave ==
  [filename |-> IF name = "" THEN "untitled-workflow" ELSE name,
   file |-> workflowToRulesFile(nodes, edges)]
-----------------------------------------------------------------------------
(* The canvas.                                                             *)

onDrop(kind) ==
  /\ Click
  /\ \E i \in FreshIds \ DOMAIN nodes :
       Show([j \in DOMAIN nodes \cup {i} |->
               IF j = i THEN [kind |-> kind, named |-> "default",
                              content |-> defaultContent(kind)]
               ELSE nodes[j]], editing, FALSE)
  /\ UNCHANGED <<name, edges, error, sample, reading>>

(* React Flow offers a source handle on every node but an output and a     *)
(* target handle on every node but an input; addEdge adds no edge twice.   *)
onConnect(s, t) ==
  /\ ClickOutside
  /\ {s, t} \subseteq DOMAIN nodes
  /\ nodes[s].kind # "outputNode" /\ nodes[t].kind # "inputNode"
  /\ edges' = edges \cup {<<s, t>>}
  /\ UNCHANGED <<name, nodes, editing, error, text, sample, reading>>

(* The delete key: React Flow reports the removal of the selected node to  *)
(* handleNodesChange, that of its edges to handleEdgesChange.              *)
handleNodesChange(i) ==
  /\ ClickOutside
  /\ i \in DOMAIN nodes
  /\ Show([j \in DOMAIN nodes \ {i} |-> nodes[j]], editing, FALSE)
  /\ edges' = {e \in edges : e[1] # i /\ e[2] # i}
  /\ UNCHANGED <<name, error, sample, reading>>

handleEdgesChange(e) ==
  /\ ClickOutside
  /\ e \in edges
  /\ edges' = edges \ {e}
  /\ UNCHANGED <<name, nodes, editing, error, text, sample, reading>>

(* The pencil, drawn on nodes of the four kinds only.                      *)
openNode(i) ==
  /\ ClickOutside
  /\ i \in DOMAIN nodes /\ nodes[i].kind \in NodeKinds
  /\ Show(nodes, i, FALSE)
  /\ UNCHANGED <<name, edges, error, sample, reading>>

(* Escape, which unmounts the editor before it is blurred, or the cross.   *)
onClose ==
  /\ Click
  /\ editing # Null
  /\ Show(nodes, Null, FALSE)
  /\ UNCHANGED <<name, edges, error, sample, reading>>
-----------------------------------------------------------------------------
(* What the inspector changes in the node it shows.                        *)

patchNode(i, data) ==
  /\ Show([nodes EXCEPT ![i] = data], editing, FALSE)
  /\ UNCHANGED <<name, edges, error, sample, reading>>

EditName ==
  /\ ClickOutside
  /\ editingNode # Null
  /\ patchNode(editing, [nodes[editing] EXCEPT !.named = "typed"])

FunctionEditor(e) ==
  /\ ClickOutside
  /\ editingNode # Null /\ nodes[editing].kind = "functionNode"
  /\ patchNode(editing, [nodes[editing] EXCEPT !.content = Expression(e)])

(* A key typed into the schema editor.                                     *)
setText(t) ==
  /\ Click
  /\ Mounted(nodes, editing)
  /\ text' = [text EXCEPT !.shows = t, !.focused = TRUE]
  /\ UNCHANGED <<name, nodes, edges, editing, error, sample, reading>>

(* The blur: an empty text takes the schema away, JSON replaces it, and    *)
(* anything else stays in the editor under an error.                       *)
commit ==
  /\ text.focused
  /\ LET data == [nodes[editing] EXCEPT
                    !.content = IF text.shows = "" THEN Undefined ELSE Schema(text.shows)]
     IN IF text.shows = "broken"
        THEN UNCHANGED <<nodes, editing>> /\ text' = [text EXCEPT !.focused = FALSE]
        ELSE /\ nodes' = [nodes EXCEPT ![editing] = data]
             /\ text' = [shows |-> text.shows, focused |-> FALSE,
                         of |-> IF /\ data.content = Undefined
                                   /\ nodes[editing].content = Undefined
                                THEN text.of ELSE editing]
             /\ UNCHANGED editing
  /\ UNCHANGED <<name, edges, error, sample, reading, clicks>>
-----------------------------------------------------------------------------
(* The decision table editor.                                              *)

patch(table) ==
  /\ ClickOutside
  /\ editingNode # Null /\ nodes[editing].kind = "decisionTableNode"
  /\ patchNode(editing, [nodes[editing] EXCEPT !.content = table])

EMPTY == Table("first", {}, {}, [r \in {} |-> {}])
content == IF nodes[editing].content = Undefined THEN EMPTY ELSE nodes[editing].content
TableOpen == editingNode # Null /\ nodes[editing].kind = "decisionTableNode"
AllColumns == content.inputs \cup content.outputs

setHitPolicy(hit) == TableOpen /\ patch([content EXCEPT !.hitPolicy = hit])

addColumn(kind) ==
  /\ TableOpen
  /\ \E c \in Columns \ AllColumns :
       \/ kind = "inputs" /\ patch([content EXCEPT !.inputs = @ \cup {c}])
       \/ kind = "outputs" /\ patch([content EXCEPT !.outputs = @ \cup {c}])

(* The rules without the cells of a column.                                *)
WithoutCells(rules, c) == [r \in DOMAIN rules |-> rules[r] \ {c}]

removeColumn(kind, c) ==
  /\ TableOpen
  /\ \/ /\ kind = "inputs" /\ c \in content.inputs
        /\ patch(Table(content.hitPolicy, content.inputs \ {c}, content.outputs,
                       WithoutCells(content.rules, c)))
     \/ /\ kind = "outputs" /\ c \in content.outputs
        /\ patch(Table(content.hitPolicy, content.inputs, content.outputs \ {c},
                       WithoutCells(content.rules, c)))

addRule ==
  /\ TableOpen
  /\ \E r \in RuleIds \ DOMAIN content.rules :
       patch([content EXCEPT !.rules =
                [q \in DOMAIN content.rules \cup {r} |->
                   IF q = r THEN {} ELSE content.rules[q]]])

(* A cell of a column is typed; only columns have cells.                   *)
updateRule(r, c) ==
  /\ TableOpen
  /\ r \in DOMAIN content.rules /\ c \in AllColumns
  /\ patch([content EXCEPT !.rules =
              [content.rules EXCEPT ![r] = content.rules[r] \cup {c}]])

removeRule(r) ==
  /\ TableOpen
  /\ r \in DOMAIN content.rules
  /\ patch([content EXCEPT !.rules =
              [q \in DOMAIN content.rules \ {r} |-> content.rules[q]]])
-----------------------------------------------------------------------------
Next ==
  \/ SampleArrives \/ SampleFails
  \/ \E f \in Files : handleLoad(f) \/ FileRead(f)
  \/ handleReset
  \/ setName("")
  \/ \E kind \in NodeKinds : onDrop(kind)
  \/ \E s, t \in DOMAIN nodes : onConnect(s, t)
  \/ \E i \in DOMAIN nodes : handleNodesChange(i) \/ openNode(i)
  \/ \E e \in edges : handleEdgesChange(e)
  \/ onClose
  \/ EditName
  \/ FunctionEditor("typed")
  \/ \E t \in Schemas \cup {"", "broken"} : setText(t)
  \/ commit
  \/ setHitPolicy("collect")
  \/ \E kind \in {"inputs", "outputs"} :
       addColumn(kind) \/ \E c \in Columns : removeColumn(kind, c)
  \/ addRule
  \/ \E r \in RuleIds : removeRule(r) \/ \E c \in Columns : updateRule(r, c)

Spec == Init /\ [][Next]_vars
-----------------------------------------------------------------------------
(* Properties.                                                             *)

ContentOf(kind, c) ==
  CASE kind = "decisionTableNode" ->
         /\ c = Table(c.hitPolicy, c.inputs, c.outputs, c.rules)
         /\ c.hitPolicy \in {"first", "collect"}
         /\ c.inputs \cup c.outputs \subseteq Columns
         /\ DOMAIN c.rules \subseteq RuleIds
    [] kind \in {"inputNode", "outputNode"} -> c = Schema(c.value) /\ c.value \in Schemas
    [] OTHER -> c.is = "function"

NodeOK(n) ==
  /\ n = [kind |-> n.kind, named |-> n.named, content |-> n.content]
  /\ n.kind \in NodeKinds \cup {"none"} /\ n.named \in {"default", "typed"}
  /\ n.content = Undefined \/ ContentOf(n.kind, n.content)

NodesOK(ns) == DOMAIN ns \subseteq NodeIds /\ \A i \in DOMAIN ns : NodeOK(ns[i])

(* Every edge has its two nodes.                                           *)
Joined(ns, es) == \A e \in es : {e[1], e[2]} \subseteq DOMAIN ns

(* Every cell of a table's rules has its column.                           *)
CellsIn(n) ==
  n.kind = "decisionTableNode" /\ n.content # Undefined =>
    \A r \in DOMAIN n.content.rules :
      n.content.rules[r] \subseteq n.content.inputs \cup n.content.outputs

(* What the user's files and the sample hold: garbage, no graph, or a      *)
(* graph that is sound.                                                    *)
FileOK(v) ==
  \/ v = Garbage
  \/ v.is \in {"scalar", "object"}
  \/ /\ v.is = "graph" /\ DOMAIN v.nodes \subseteq NodeIds
     /\ \A i \in DOMAIN v.nodes : NodeOK(Drawn(v.nodes[i])) /\ CellsIn(Drawn(v.nodes[i]))
     /\ \A e \in v.edges : {e.sourceId, e.targetId} \subseteq DOMAIN v.nodes

ASSUME FilesAssumption == FileOK(Sample) /\ \A f \in Files : FileOK(OnDisk[f])

(* Every variable has its type, and every node has content its kind of     *)
(* editor can show.                                                        *)
TypeOK ==
  /\ name \in FileNames
  /\ NodesOK(nodes)
  /\ edges \subseteq NodeIds \X NodeIds
  /\ editing \in NodeIds \cup {Null}
  /\ error \in BOOLEAN /\ sample \in BOOLEAN /\ reading \subseteq Files
  /\ text \in [shows : Schemas \cup {"", "broken"}, focused : BOOLEAN,
               of : NodeIds \cup {Null}]
  /\ clicks \in 0..MaxClicks

(* Nodes and edges are two states of the page, set one after the other by  *)
(* loads, the sample, resets and deletions: no edge is ever left without   *)
(* its nodes.                                                              *)
EdgesConnect == Joined(nodes, edges)

(* A rule of a decision table has cells for columns of the table only: a   *)
(* removed column takes its cells along, in every rule.                    *)
CellsHaveColumns == \A i \in DOMAIN nodes : CellsIn(nodes[i])

(* The graph on the canvas is sound at every moment a file is saved.       *)
GraphSound == TypeOK /\ EdgesConnect /\ CellsHaveColumns

(* The schema editor can show a text that was typed for another node, but  *)
(* only where the node it is shown for has no schema to lose.              *)
DraftReplacesNoSchema ==
  Mounted(nodes, editing) /\ text.of # editing => nodes[editing].content = Undefined

(* Once the schema editor has lost the focus, a text that is JSON is what  *)
(* the node has, so a click on Save or on another node loses nothing.      *)
BlurredIsCommitted ==
  Mounted(nodes, editing) /\ ~text.focused /\ text.shows # "broken" =>
    text.shows = Shown(nodes[editing].content)

(* No schema is lost between the text being typed and the node.            *)
SchemaKept == DraftReplacesNoSchema /\ BlurredIsCommitted

(* Whatever was loaded, dropped, deleted and edited, Save writes a sound   *)
(* file, as the editor counts on when it loads one, and loading it gives   *)
(* the canvas back, but that nodes which came without a type have one.     *)
SavedFileReads ==
  LET file == handleSave.file
      back == rulesFileToGraph(file)
  IN  /\ parseWorkflow(file).ok /\ ~Throws(file) /\ FileOK(file)
      /\ back.edges = edges
      /\ back.nodes = [i \in DOMAIN nodes |->
                         IF nodes[i].kind = "none"
                         THEN [nodes[i] EXCEPT !.kind = "functionNode"] ELSE nodes[i]]
=============================================================================

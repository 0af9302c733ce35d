------------------------ MODULE WorkflowCanvasProofs ------------------------
(***************************************************************************)
(* The canvas breaks no graph that it did not read broken, loses no schema *)
(* and saves what it can load, for any nodes, files, columns and clicks.   *)
(***************************************************************************)
EXTENDS WorkflowCanvas, TLAPS

(* Only an editor that is on the page has the focus.                       *)
FocusIsMounted == text.focused => Mounted(nodes, editing)

CanvasInv == GraphSound /\ SchemaKept /\ FocusIsMounted

TextSet == [shows : Schemas \cup {"", "broken"}, focused : BOOLEAN, of : NodeIds \cup {Null}]

CellsOK(ns) == \A i \in DOMAIN ns : CellsIn(ns[i])

(* A schema is not undefined, and shows as its text.                       *)
LEMMA SchemaShown ==
  ASSUME NEW v
  PROVE  Schema(v) # Undefined /\ Shown(Schema(v)) = v /\ Shown(Undefined) = ""
<1>1. Schema(v).is = "schema" /\ Undefined.is = "undefined" /\ Schema(v).value = v
  BY DEF Schema, Undefined
<1>2. Schema(v) # Undefined
  BY <1>1
<1> QED BY <1>1, <1>2 DEF Shown

(* What the schema editor shows of a node is JSON or nothing.              *)
LEMMA ShownType ==
  ASSUME NEW ns, NodesOK(ns), NEW ed, Mounted(ns, ed)
  PROVE  Shown(ns[ed].content) \in Schemas \cup {""}
<1>1. /\ ns[ed].kind \in {"inputNode", "outputNode"}
      /\ ns[ed].content = Undefined \/ ContentOf(ns[ed].kind, ns[ed].content)
  BY DEF Mounted, NodesOK, NodeOK
<1> DEFINE c == ns[ed].content
<1> HIDE DEF c
<1>2. c = Undefined \/ (c = Schema(c.value) /\ c.value \in Schemas)
  BY <1>1 DEF ContentOf, c
<1>3. CASE c = Undefined
  BY <1>3, SchemaShown DEF c
<1>4. CASE c = Schema(c.value) /\ c.value \in Schemas
  <2>1. Shown(Schema(c.value)) = c.value
    BY SchemaShown
  <2> QED BY <1>4, <2>1 DEF c
<1> QED BY <1>2, <1>3, <1>4

(* Whatever is rendered next, no draft is taken for another node's schema  *)
(* and a text that was left is the node's.                                 *)
LEMMA ShowKeeps ==
  ASSUME CanvasInv, NEW ns, NodesOK(ns), NEW ed \in NodeIds \cup {Null}, NEW rebuilt,
         Show(ns, ed, rebuilt)
  PROVE  text' \in TextSet /\ SchemaKept' /\ FocusIsMounted'
<1>0. /\ nodes' = ns /\ editing' = ed /\ Redraw(ns, ed, rebuilt)
      /\ text \in TextSet
      /\ Mounted(nodes, editing) /\ text.of # editing => nodes[editing].content = Undefined
      /\ Mounted(nodes, editing) /\ ~ text.focused /\ text.shows # "broken" =>
           text.shows = Shown(nodes[editing].content)
  BY DEF CanvasInv, GraphSound, TypeOK, SchemaKept, DraftReplacesNoSchema,
         BlurredIsCommitted, Show, TextSet
<1> SUFFICES
      /\ text' \in TextSet
      /\ Mounted(ns, ed) /\ text'.of # ed => ns[ed].content = Undefined
      /\ Mounted(ns, ed) /\ ~ text'.focused /\ text'.shows # "broken" =>
           text'.shows = Shown(ns[ed].content)
      /\ text'.focused => Mounted(ns, ed)
  BY <1>0 DEF SchemaKept, DraftReplacesNoSchema, BlurredIsCommitted, FocusIsMounted
<1> DEFINE keep == /\ Mounted(nodes, editing)
                   /\ \/ nodes[editing].content = Undefined /\ ns[ed].content = Undefined
                      \/ ed = editing /\ ~rebuilt /\ ns[ed].content = nodes[ed].content
<1>1. CASE ~ Mounted(ns, ed)
  <2>1. text' = Closed
    BY <1>0, <1>1 DEF Redraw
  <2>2. text' = [shows |-> "", focused |-> FALSE, of |-> Null]
    BY <2>1 DEF Closed
  <2> QED BY <1>1, <2>2 DEF TextSet
<1>2. CASE Mounted(ns, ed) /\ keep
  <2>1. text' = text
    BY <1>0, <1>2 DEF Redraw
  <2> QED BY <1>0, <1>2, <2>1
<1>3. CASE Mounted(ns, ed) /\ ~ keep
  <2>1. text' = [shows |-> Shown(ns[ed].content), of |-> ed,
                 focused |-> text.focused /\ Mounted(nodes, editing)]
    BY <1>0, <1>3 DEF Redraw
  <2>2. Shown(ns[ed].content) \in Schemas \cup {""}
    BY <1>3, ShownType
  <2>3. (text.focused /\ Mounted(nodes, editing)) \in BOOLEAN
    BY DEF Mounted
  <2> QED BY <1>3, <2>1, <2>2, <2>3 DEF TextSet
<1> QED BY <1>1, <1>2, <1>3

(* A step that renders sound nodes and edges keeps the invariant.          *)
LEMMA RenderKeeps ==
  ASSUME CanvasInv, NEW ns, NodesOK(ns), CellsOK(ns),
         NEW es \in SUBSET (NodeIds \X NodeIds), Joined(ns, es),
         NEW ed \in NodeIds \cup {Null}, NEW rebuilt, Show(ns, ed, rebuilt), edges' = es,
         name' \in FileNames, error' \in BOOLEAN, sample' \in BOOLEAN,
         reading' \subseteq Files, clicks' \in 0..MaxClicks
  PROVE  CanvasInv'
<1>1. nodes' = ns /\ editing' = ed
  BY DEF Show
<1>2. text' \in TextSet /\ SchemaKept' /\ FocusIsMounted'
  BY ShowKeeps
<1>3. NodesOK(nodes)' /\ Joined(nodes, edges)' /\ (\A i \in DOMAIN nodes : CellsIn(nodes[i]))'
  BY <1>1 DEF CellsOK
<1>4. TypeOK'
  BY <1>1, <1>2, <1>3 DEF TypeOK, TextSet
<1>5. EdgesConnect' /\ CellsHaveColumns'
  BY <1>3 DEF EdgesConnect, CellsHaveColumns
<1> QED BY <1>2, <1>4, <1>5 DEF CanvasInv, GraphSound

(* The parts of the invariant the steps below refer to.                    *)
LEMMA InvParts ==
  ASSUME CanvasInv
  PROVE  /\ NodesOK(nodes) /\ CellsOK(nodes) /\ Joined(nodes, edges)
         /\ edges \in SUBSET (NodeIds \X NodeIds) /\ editing \in NodeIds \cup {Null}
         /\ name \in FileNames /\ error \in BOOLEAN /\ sample \in BOOLEAN
         /\ reading \subseteq Files /\ clicks \in 0..MaxClicks
BY DEF CanvasInv, GraphSound, TypeOK, EdgesConnect, CellsHaveColumns, CellsOK

(* A click is counted.                                                     *)
LEMMA ClickCounts ==
  ASSUME CanvasInv, Click
  PROVE  clicks' \in 0..MaxClicks
<1>1. clicks \in 0..MaxClicks /\ MaxClicks \in Nat
  BY InvParts, CanvasAssumption
<1> QED BY <1>1 DEF Click

(* A file that loads has a sound graph.                                    *)
LEMMA LoadedSound ==
  ASSUME NEW v, FileOK(v), v # Garbage, parseWorkflow(v).ok, ~ Throws(v)
  PROVE  /\ NodesOK(rulesFileToGraph(v).nodes) /\ CellsOK(rulesFileToGraph(v).nodes)
         /\ rulesFileToGraph(v).edges \in SUBSET (NodeIds \X NodeIds)
         /\ Joined(rulesFileToGraph(v).nodes, rulesFileToGraph(v).edges)
<1>1. v.is # "scalar" /\ v.is # "object"
  BY DEF parseWorkflow, Throws
<1>2. /\ DOMAIN v.nodes \subseteq NodeIds
      /\ \A i \in DOMAIN v.nodes : NodeOK(Drawn(v.nodes[i])) /\ CellsIn(Drawn(v.nodes[i]))
      /\ \A e \in v.edges : {e.sourceId, e.targetId} \subseteq DOMAIN v.nodes
  BY <1>1 DEF FileOK
<1>3. PICK ns, es : ns = rulesFileToGraph(v).nodes /\ es = rulesFileToGraph(v).edges
  OBVIOUS
<1>4. /\ ns = [i \in DOMAIN v.nodes |-> Drawn(v.nodes[i])]
      /\ es = {<<e.sourceId, e.targetId>> : e \in v.edges}
  BY <1>3 DEF rulesFileToGraph
<1>5. DOMAIN ns = DOMAIN v.nodes /\ \A i \in DOMAIN ns : ns[i] = Drawn(v.nodes[i])
  BY <1>4
<1>6. NodesOK(ns) /\ CellsOK(ns)
  BY <1>2, <1>5 DEF NodesOK, CellsOK
<1>7. ASSUME NEW d \in es
      PROVE  d \in NodeIds \X NodeIds /\ {d[1], d[2]} \subseteq DOMAIN ns
  <2>1. PICK e \in v.edges : d = <<e.sourceId, e.targetId>>
    BY <1>4
  <2>2. e.sourceId \in DOMAIN ns /\ e.targetId \in DOMAIN ns
    BY <1>2, <1>5
  <2>3. d[1] = e.sourceId /\ d[2] = e.targetId
    BY <2>1
  <2> QED BY <1>2, <1>5, <2>1, <2>2, <2>3
<1>8. Joined(ns, es) /\ es \in SUBSET (NodeIds \X NodeIds)
  BY <1>7 DEF Joined
<1> QED BY <1>3, <1>6, <1>8
-----------------------------------------------------------------------------
(***************************************************************************)
(* One lemma per group of actions.                                         *)
(***************************************************************************)

(* The page opens empty.                                                   *)
LEMMA CanvasStarts == Init => CanvasInv
<1> SUFFICES ASSUME Init PROVE CanvasInv
  OBVIOUS
<1>1. DOMAIN nodes = {} /\ edges = {} /\ editing = Null
      /\ text = [shows |-> "", focused |-> FALSE, of |-> Null]
  BY DEF Init, Closed
<1>2. ~ Mounted(nodes, editing)
  BY <1>1 DEF Mounted
<1>3. TypeOK
  <2>1. NodesOK(nodes)
    BY <1>1 DEF NodesOK
  <2>2. text \in [shows : Schemas \cup {"", "broken"}, focused : BOOLEAN,
                 of : NodeIds \cup {Null}]
    BY <1>1
  <2>3. MaxClicks \in Nat
    BY CanvasAssumption
  <2>4. name \in FileNames /\ error \in BOOLEAN /\ sample \in BOOLEAN /\ reading \subseteq Files
    BY DEF Init, FileNames
  <2>5. clicks \in 0..MaxClicks
    BY <2>3 DEF Init
  <2>6. edges \subseteq NodeIds \X NodeIds /\ editing \in NodeIds \cup {Null}
    BY <1>1
  <2> QED BY <2>1, <2>2, <2>4, <2>5, <2>6 DEF TypeOK
<1>4. EdgesConnect /\ CellsHaveColumns
  BY <1>1 DEF EdgesConnect, Joined, CellsHaveColumns
<1> QED BY <1>1, <1>2, <1>3, <1>4
        DEF CanvasInv, GraphSound, SchemaKept, DraftReplacesNoSchema, BlurredIsCommitted,
            FocusIsMounted

(* The sample and files, late and in any order.                            *)
LEMMA LoadsKeep ==
  ASSUME CanvasInv, SampleArrives \/ \E f \in Files : FileRead(f)
  PROVE  CanvasInv'
<1>1. ASSUME SampleArrives PROVE CanvasInv'
  <2>1. PICK ns : ns = rulesFileToGraph(Sample).nodes
    OBVIOUS
  <2>2. PICK es : es = rulesFileToGraph(Sample).edges
    OBVIOUS
  <2>3. PICK ed : ed = editing
    OBVIOUS
  <2>4. Show(ns, ed, TRUE) /\ edges' = es /\ sample' = FALSE
        /\ UNCHANGED <<name, error, reading, clicks>>
    BY <1>1, <2>1, <2>2, <2>3 DEF SampleArrives
  <2>5. /\ NodesOK(ns) /\ CellsOK(ns) /\ es \in SUBSET (NodeIds \X NodeIds)
        /\ Joined(ns, es)
    BY <1>1, <2>1, <2>2, FilesAssumption, LoadedSound DEF SampleArrives
  <2>6. /\ ed \in NodeIds \cup {Null} /\ name' \in FileNames /\ error' \in BOOLEAN
        /\ sample' \in BOOLEAN /\ reading' \subseteq Files /\ clicks' \in 0..MaxClicks
    BY <2>3, <2>4, InvParts
  <2> HIDE <2>1, <2>2, <2>3
  <2> QED BY <2>4, <2>5, <2>6, RenderKeeps
<1>2. ASSUME NEW f \in Files, FileRead(f) PROVE CanvasInv'
  <2> DEFINE loads == OnDisk[f] # Garbage /\ parseWorkflow(OnDisk[f]).ok /\ ~ Throws(OnDisk[f])
  <2>0. /\ reading' = reading \ {f} /\ UNCHANGED <<sample, clicks>>
    BY <1>2 DEF FileRead
  <2>1. CASE loads
    <3>1. PICK ns : ns = rulesFileToGraph(OnDisk[f]).nodes
      OBVIOUS
    <3>2. PICK es : es = rulesFileToGraph(OnDisk[f]).edges
      OBVIOUS
    <3>3. Show(ns, Null, TRUE) /\ edges' = es /\ name' = f /\ error' = error
      BY <1>2, <2>1, <3>1, <3>2 DEF FileRead
    <3>4. FileOK(OnDisk[f])
      BY FilesAssumption
    <3>5. /\ NodesOK(ns) /\ CellsOK(ns) /\ es \in SUBSET (NodeIds \X NodeIds)
          /\ Joined(ns, es)
      BY <2>1, <3>1, <3>2, <3>4, LoadedSound
    <3>6. /\ Null \in NodeIds \cup {Null} /\ name' \in FileNames /\ error' \in BOOLEAN
          /\ sample' \in BOOLEAN /\ reading' \subseteq Files /\ clicks' \in 0..MaxClicks
      BY <2>0, <3>3, InvParts DEF FileNames
    <3> HIDE <3>1, <3>2
    <3> QED BY <3>3, <3>5, <3>6, RenderKeeps
  <2>2. CASE ~ loads
    <3>1. error' = TRUE /\ UNCHANGED <<name, nodes, edges, editing, text>>
      BY <1>2, <2>2 DEF FileRead
    <3> QED BY <2>0, <3>1 DEF CanvasInv, GraphSound, TypeOK, EdgesConnect, CellsHaveColumns,
                 SchemaKept, DraftReplacesNoSchema, BlurredIsCommitted, FocusIsMounted, Mounted
  <2> QED BY <2>1, <2>2
<1> QED BY <1>1, <1>2

(* Steps that leave the nodes and the editor alone, a key typed into the   *)
(* schema editor included.                                                 *)
LEMMA QuietStepsKeep ==
  ASSUME CanvasInv, nodes' = nodes, editing' = editing, text' \in TextSet,
         \/ text' = text
         \/ Mounted(nodes, editing) /\ text'.focused /\ text'.of = text.of,
         edges' \in SUBSET (NodeIds \X NodeIds), Joined(nodes, edges'),
         name' \in FileNames, error' \in BOOLEAN, sample' \in BOOLEAN,
         reading' \subseteq Files, clicks' \in 0..MaxClicks
  PROVE  CanvasInv'
<1>1. NodesOK(nodes)' /\ Joined(nodes, edges)' /\ (\A i \in DOMAIN nodes : CellsIn(nodes[i]))'
  BY InvParts DEF CellsOK
<1>2. TypeOK'
  BY <1>1, InvParts DEF TypeOK, TextSet
<1>3. EdgesConnect' /\ CellsHaveColumns'
  BY <1>1 DEF EdgesConnect, CellsHaveColumns
<1>4. Mounted(nodes, editing)' = Mounted(nodes, editing)
  BY DEF Mounted
<1>5. SchemaKept' /\ FocusIsMounted'
  BY <1>4 DEF CanvasInv, SchemaKept, DraftReplacesNoSchema, BlurredIsCommitted, FocusIsMounted
<1> QED BY <1>2, <1>3, <1>5 DEF CanvasInv, GraphSound

(* The toolbar and the edges.                                              *)
LEMMA ToolbarKeeps ==
  ASSUME CanvasInv,
         \/ SampleFails \/ (\E f \in Files : handleLoad(f)) \/ setName("")
         \/ (\E s, t \in DOMAIN nodes : onConnect(s, t))
         \/ (\E e \in edges : handleEdgesChange(e))
         \/ (\E t \in Schemas \cup {"", "broken"} : setText(t))
  PROVE  CanvasInv'
<1>0. /\ NodesOK(nodes) /\ Joined(nodes, edges) /\ text \in TextSet
      /\ edges \in SUBSET (NodeIds \X NodeIds) /\ name \in FileNames /\ error \in BOOLEAN
      /\ sample \in BOOLEAN /\ reading \subseteq Files /\ clicks \in 0..MaxClicks
  BY InvParts DEF CanvasInv, GraphSound, TypeOK, TextSet
<1>1. CASE SampleFails
  BY <1>0, <1>1, QuietStepsKeep DEF SampleFails
<1>2. ASSUME NEW f \in Files, handleLoad(f) PROVE CanvasInv'
  <2>1. clicks' \in 0..MaxClicks
    BY <1>2, ClickCounts DEF handleLoad, ClickOutside
  <2> QED BY <1>0, <1>2, <2>1, QuietStepsKeep DEF handleLoad
<1>3. CASE setName("")
  <2>1. clicks' \in 0..MaxClicks
    BY <1>3, ClickCounts DEF setName, ClickOutside
  <2>2. name' \in FileNames
    BY <1>3 DEF setName, FileNames
  <2> QED BY <1>0, <1>3, <2>1, <2>2, QuietStepsKeep DEF setName
<1>4. ASSUME NEW s \in DOMAIN nodes, NEW t \in DOMAIN nodes, onConnect(s, t) PROVE CanvasInv'
  <2>1. clicks' \in 0..MaxClicks
    BY <1>4, ClickCounts DEF onConnect, ClickOutside
  <2>2. edges' = edges \cup {<<s, t>>} /\ s \in NodeIds /\ t \in NodeIds
    BY <1>0, <1>4 DEF onConnect, NodesOK
  <2>3. edges' \in SUBSET (NodeIds \X NodeIds) /\ Joined(nodes, edges')
    <3>1. <<s, t>>[1] = s /\ <<s, t>>[2] = t /\ <<s, t>> \in NodeIds \X NodeIds
      BY <2>2
    <3>2. \A e \in edges' : e \in edges \/ e = <<s, t>>
      BY <2>2
    <3>3. ASSUME NEW e \in edges' PROVE e \in NodeIds \X NodeIds /\ {e[1], e[2]} \subseteq DOMAIN nodes
      <4>1. CASE e \in edges
        BY <1>0, <4>1 DEF Joined
      <4>2. CASE e = <<s, t>>
        BY <3>1, <4>2
      <4> QED BY <3>2, <4>1, <4>2
    <3> QED BY <3>3 DEF Joined
  <2> QED BY <1>0, <1>4, <2>1, <2>3, QuietStepsKeep DEF onConnect
<1>5. ASSUME NEW e \in edges, handleEdgesChange(e) PROVE CanvasInv'
  <2>1. clicks' \in 0..MaxClicks
    BY <1>5, ClickCounts DEF handleEdgesChange, ClickOutside
  <2>2. edges' \in SUBSET (NodeIds \X NodeIds) /\ Joined(nodes, edges')
    BY <1>0, <1>5 DEF handleEdgesChange, Joined
  <2> QED BY <1>0, <1>5, <2>1, <2>2, QuietStepsKeep DEF handleEdgesChange
<1>6. ASSUME NEW t \in Schemas \cup {"", "broken"}, setText(t) PROVE CanvasInv'
  <2>1. clicks' \in 0..MaxClicks
    BY <1>6, ClickCounts DEF setText
  <2>2. /\ text' \in TextSet /\ text'.focused /\ text'.of = text.of
        /\ Mounted(nodes, editing)
    BY <1>0, <1>6 DEF setText, TextSet
  <2> QED BY <1>0, <1>6, <2>1, <2>2, QuietStepsKeep DEF setText
<1> QED BY <1>1, <1>2, <1>3, <1>4, <1>5, <1>6

(* New, a drop, a deletion, the pencil and the cross.                      *)
LEMMA CanvasStepsKeep ==
  ASSUME CanvasInv,
         \/ handleReset \/ onClose \/ (\E kind \in NodeKinds : onDrop(kind))
         \/ (\E i \in DOMAIN nodes : handleNodesChange(i) \/ openNode(i))
  PROVE  CanvasInv'
<1>0. /\ NodesOK(nodes) /\ CellsOK(nodes) /\ Joined(nodes, edges)
      /\ edges \in SUBSET (NodeIds \X NodeIds) /\ editing \in NodeIds \cup {Null}
      /\ name \in FileNames /\ error \in BOOLEAN /\ sample \in BOOLEAN
      /\ reading \subseteq Files /\ clicks \in 0..MaxClicks
  BY InvParts
<1>1. PICK es : es = edges
  OBVIOUS
<1>2. PICK ns0 : ns0 = nodes
  OBVIOUS
<1>3. PICK ed0 : ed0 = editing
  OBVIOUS
<1>4. /\ NodesOK(ns0) /\ CellsOK(ns0) /\ Joined(ns0, es)
      /\ es \in SUBSET (NodeIds \X NodeIds) /\ ed0 \in NodeIds \cup {Null}
  BY <1>0, <1>1, <1>2, <1>3
<1>5. CASE handleReset
  <2>1. clicks' \in 0..MaxClicks
    BY <1>5, ClickCounts DEF handleReset, ClickOutside
  <2>2. PICK ns : ns = [i \in {} |-> Undefined]
    OBVIOUS
  <2>3. NodesOK(ns) /\ CellsOK(ns) /\ Joined(ns, {})
    BY <2>2 DEF NodesOK, CellsOK, Joined
  <2>4. Show(ns, Null, TRUE) /\ edges' = {} /\ name' \in FileNames /\ error' = FALSE
        /\ sample' = sample /\ reading' = reading
    BY <1>5, <2>2 DEF handleReset, FileNames
  <2> HIDE <2>2
  <2> QED BY <1>0, <2>1, <2>3, <2>4, RenderKeeps
<1>6. CASE onClose
  <2>1. clicks' \in 0..MaxClicks
    BY <1>6, ClickCounts DEF onClose
  <2>2. Show(ns0, Null, FALSE) /\ edges' = es /\ name' = name /\ error' = error
        /\ sample' = sample /\ reading' = reading
    BY <1>1, <1>2, <1>6 DEF onClose
  <2> HIDE <1>1, <1>2, <1>3
  <2> QED BY <1>0, <1>4, <2>1, <2>2, RenderKeeps
<1>7. ASSUME NEW i \in DOMAIN nodes, openNode(i) PROVE CanvasInv'
  <2>1. clicks' \in 0..MaxClicks
    BY <1>7, ClickCounts DEF openNode, ClickOutside
  <2>2. Show(ns0, i, FALSE) /\ edges' = es /\ name' = name /\ error' = error
        /\ sample' = sample /\ reading' = reading
    BY <1>1, <1>2, <1>7 DEF openNode
  <2>3. i \in NodeIds \cup {Null}
    BY <1>0 DEF NodesOK
  <2> HIDE <1>1, <1>2, <1>3
  <2> QED BY <1>0, <1>4, <2>1, <2>2, <2>3, RenderKeeps
<1>8. ASSUME NEW i \in DOMAIN nodes, handleNodesChange(i) PROVE CanvasInv'
  <2>1. clicks' \in 0..MaxClicks
    BY <1>8, ClickCounts DEF handleNodesChange, ClickOutside
  <2>2. PICK ns : ns = [j \in DOMAIN ns0 \ {i} |-> ns0[j]]
    OBVIOUS
  <2>3. PICK fs : fs = {e \in es : e[1] # i /\ e[2] # i}
    OBVIOUS
  <2>4. Show(ns, ed0, FALSE) /\ edges' = fs /\ name' = name /\ error' = error
        /\ sample' = sample /\ reading' = reading
    BY <1>1, <1>2, <1>3, <1>8, <2>2, <2>3 DEF handleNodesChange
  <2>5. DOMAIN ns = DOMAIN ns0 \ {i} /\ \A j \in DOMAIN ns : ns[j] = ns0[j]
    BY <2>2
  <2>6. NodesOK(ns) /\ CellsOK(ns)
    BY <1>4, <2>5 DEF NodesOK, CellsOK
  <2>7. fs \in SUBSET (NodeIds \X NodeIds) /\ Joined(ns, fs)
    BY <1>4, <2>3, <2>5 DEF Joined
  <2> HIDE <1>1, <1>2, <1>3, <2>2, <2>3
  <2> QED BY <1>0, <1>4, <2>1, <2>4, <2>6, <2>7, RenderKeeps
<1>9. ASSUME NEW kind \in NodeKinds, onDrop(kind) PROVE CanvasInv'
  <2>1. clicks' \in 0..MaxClicks
    BY <1>9, ClickCounts DEF onDrop
  <2> DEFINE n == [kind |-> kind, named |-> "default", content |-> defaultContent(kind)]
             With(i) == [j \in DOMAIN nodes \cup {i} |-> IF j = i THEN n ELSE nodes[j]]
  <2>2. PICK i \in FreshIds \ DOMAIN nodes : Show(With(i), editing, FALSE)
    BY <1>9 DEF onDrop
  <2>3. PICK ns : ns = With(i)
    OBVIOUS
  <2>4. n.kind = kind /\ n.named = "default" /\ n.content = defaultContent(kind)
    OBVIOUS
  <2>5. /\ DOMAIN ns = DOMAIN nodes \cup {i} /\ ns[i] = n
        /\ \A j \in DOMAIN nodes : ns[j] = nodes[j]
    BY <2>3
  <2>6. Show(ns, ed0, FALSE) /\ edges' = es /\ name' = name /\ error' = error
        /\ sample' = sample /\ reading' = reading
    BY <1>1, <1>3, <1>9, <2>2, <2>3 DEF onDrop
  <2>7. NodeOK(n) /\ CellsIn(n)
    <3> DEFINE t == Table("first", {"in_1"}, {"out_1"}, [r \in {} |-> {}])
    <3>1. CASE kind = "decisionTableNode"
      <4>1. n.content = t
        BY <2>4, <3>1 DEF defaultContent
      <4>2. /\ t = Table(t.hitPolicy, t.inputs, t.outputs, t.rules)
            /\ t.hitPolicy = "first" /\ t.inputs = {"in_1"} /\ t.outputs = {"out_1"}
            /\ DOMAIN t.rules = {}
        BY DEF Table
      <4> HIDE DEF t
      <4>3. ContentOf(kind, n.content)
        BY <3>1, <4>1, <4>2, CanvasAssumption DEF ContentOf
      <4>4. CellsIn(n)
        BY <4>1, <4>2 DEF CellsIn
      <4> QED BY <2>4, <4>3, <4>4 DEF NodeOK
    <3>2. CASE kind = "functionNode"
      <4>1. n.content.is = "function"
        BY <2>4, <3>2 DEF defaultContent, Expression
      <4>2. ContentOf(kind, n.content)
        BY <3>2, <4>1 DEF ContentOf
      <4> QED BY <2>4, <3>2, <4>2 DEF NodeOK, CellsIn
    <3>3. CASE kind \in {"inputNode", "outputNode"}
      <4>1. n.content = Undefined
        BY <2>4, <3>3 DEF defaultContent
      <4> QED BY <2>4, <3>3, <4>1 DEF NodeOK, CellsIn
    <3> QED BY <3>1, <3>2, <3>3 DEF NodeKinds
  <2> HIDE DEF n, With
  <2>8. NodesOK(ns) /\ CellsOK(ns)
    <3>1. i \in NodeIds
      BY CanvasAssumption
    <3> QED BY <1>0, <2>5, <2>7, <3>1 DEF NodesOK, CellsOK
  <2>9. Joined(ns, es)
    BY <1>0, <1>1, <2>5 DEF Joined
  <2> HIDE <1>1, <1>2, <1>3, <2>3
  <2> QED BY <1>0, <1>4, <2>1, <2>6, <2>8, <2>9, RenderKeeps
<1> QED BY <1>5, <1>6, <1>7, <1>8, <1>9
(* A node the inspector shows is replaced by a sound one.                  *)
LEMMA PatchKeeps ==
  ASSUME CanvasInv, editing \in DOMAIN nodes, NEW n, NodeOK(n), CellsIn(n),
         patchNode(editing, n), clicks' \in 0..MaxClicks
  PROVE  CanvasInv'
<1>0. /\ NodesOK(nodes) /\ CellsOK(nodes) /\ Joined(nodes, edges)
      /\ edges \in SUBSET (NodeIds \X NodeIds) /\ editing \in NodeIds \cup {Null}
      /\ name \in FileNames /\ error \in BOOLEAN /\ sample \in BOOLEAN
      /\ reading \subseteq Files
  BY InvParts
<1>1. PICK es : es = edges
  OBVIOUS
<1>2. PICK ed : ed = editing
  OBVIOUS
<1>3. PICK ns : ns = [nodes EXCEPT ![editing] = n]
  OBVIOUS
<1>4. Show(ns, ed, FALSE) /\ edges' = es /\ name' = name /\ error' = error
      /\ sample' = sample /\ reading' = reading
  BY <1>1, <1>2, <1>3 DEF patchNode
<1>5. DOMAIN ns = DOMAIN nodes /\ \A j \in DOMAIN nodes : ns[j] = n \/ ns[j] = nodes[j]
  BY <1>3
<1>6. NodesOK(ns) /\ CellsOK(ns) /\ Joined(ns, es)
  BY <1>0, <1>1, <1>5 DEF NodesOK, CellsOK, Joined
<1>7. es \in SUBSET (NodeIds \X NodeIds) /\ ed \in NodeIds \cup {Null}
  BY <1>0, <1>1, <1>2
<1> HIDE <1>1, <1>2, <1>3
<1> QED BY <1>0, <1>4, <1>6, <1>7, RenderKeeps

(* The node that is open is on the canvas and sound.                       *)
LEMMA OpenNode ==
  ASSUME CanvasInv, editingNode # Null
  PROVE  editing \in DOMAIN nodes /\ NodeOK(nodes[editing]) /\ CellsIn(nodes[editing])
<1>1. editing \in DOMAIN nodes
  BY DEF editingNode
<1> QED BY <1>1, InvParts DEF NodesOK, CellsOK

(* The name and the expression of a function.                              *)
LEMMA EditsKeep ==
  ASSUME CanvasInv, EditName \/ FunctionEditor("typed")
  PROVE  CanvasInv'
<1>0. /\ editing \in DOMAIN nodes /\ NodeOK(nodes[editing]) /\ CellsIn(nodes[editing])
      /\ clicks' \in 0..MaxClicks
  BY OpenNode, ClickCounts DEF EditName, FunctionEditor, ClickOutside
<1>1. PICK o : o = nodes[editing]
  OBVIOUS
<1>2. /\ o = [kind |-> o.kind, named |-> o.named, content |-> o.content]
      /\ o.kind \in NodeKinds \cup {"none"} /\ o.named \in {"default", "typed"}
      /\ o.content = Undefined \/ ContentOf(o.kind, o.content)
      /\ CellsIn(o)
  BY <1>0, <1>1 DEF NodeOK
<1>3. CASE EditName
  <2>1. PICK n : n = [o EXCEPT !.named = "typed"]
    OBVIOUS
  <2>2. n.kind = o.kind /\ n.named = "typed" /\ n.content = o.content
        /\ n = [kind |-> n.kind, named |-> n.named, content |-> n.content]
    BY <1>2, <2>1
  <2>3. NodeOK(n) /\ CellsIn(n)
    BY <1>2, <2>2 DEF NodeOK, CellsIn
  <2>4. patchNode(editing, n)
    BY <1>1, <1>3, <2>1 DEF EditName
  <2> HIDE <2>1
  <2> QED BY <1>0, <2>3, <2>4, PatchKeeps
<1>4. CASE FunctionEditor("typed")
  <2>1. PICK n : n = [o EXCEPT !.content = Expression("typed")]
    OBVIOUS
  <2>2. o.kind = "functionNode"
    BY <1>1, <1>4 DEF FunctionEditor
  <2>3. n.kind = o.kind /\ n.named = o.named /\ n.content = Expression("typed")
        /\ n = [kind |-> n.kind, named |-> n.named, content |-> n.content]
    BY <1>2, <2>1
  <2>4. ContentOf("functionNode", n.content)
    BY <2>3 DEF ContentOf, Expression
  <2>5. NodeOK(n) /\ CellsIn(n)
    BY <1>2, <2>2, <2>3, <2>4 DEF NodeOK, CellsIn
  <2>6. patchNode(editing, n)
    BY <1>1, <1>4, <2>1 DEF FunctionEditor
  <2> HIDE <2>1
  <2> QED BY <1>0, <2>5, <2>6, PatchKeeps
<1> QED BY <1>3, <1>4

(* The blur of the schema editor.                                          *)
LEMMA CommitKeeps ==
  ASSUME CanvasInv, commit
  PROVE  CanvasInv'
<1>0. /\ NodesOK(nodes) /\ CellsOK(nodes) /\ Joined(nodes, edges)
      /\ edges \in SUBSET (NodeIds \X NodeIds) /\ editing \in NodeIds \cup {Null}
      /\ name \in FileNames /\ error \in BOOLEAN /\ sample \in BOOLEAN
      /\ reading \subseteq Files /\ clicks \in 0..MaxClicks
  BY InvParts
<1>1. /\ text \in TextSet /\ Mounted(nodes, editing)
      /\ UNCHANGED <<name, edges, error, sample, reading, clicks>>
  BY DEF commit, CanvasInv, FocusIsMounted, GraphSound, TypeOK, TextSet
<1>2. editing \in DOMAIN nodes /\ nodes[editing].kind \in {"inputNode", "outputNode"}
  BY <1>1 DEF Mounted
<1>3. CASE text.shows = "broken"
  <2>1. nodes' = nodes /\ editing' = editing /\ text' = [text EXCEPT !.focused = FALSE]
    BY <1>3 DEF commit
  <2>2. text' \in TextSet /\ ~ text'.focused /\ text'.shows = "broken" /\ text'.of = text.of
    BY <1>1, <1>3, <2>1 DEF TextSet
  <2>3. TypeOK' /\ EdgesConnect' /\ CellsHaveColumns'
    BY <1>0, <1>1, <2>1, <2>2 DEF TypeOK, TextSet, EdgesConnect, CellsHaveColumns, CellsOK
  <2>4. SchemaKept' /\ FocusIsMounted'
    <3>1. Mounted(nodes, editing)' = Mounted(nodes, editing)
      BY <2>1 DEF Mounted
    <3> QED BY <2>1, <2>2, <3>1 DEF CanvasInv, SchemaKept, DraftReplacesNoSchema,
                                     BlurredIsCommitted, FocusIsMounted
  <2> QED BY <2>3, <2>4 DEF CanvasInv, GraphSound
<1>4. CASE text.shows # "broken"
  <2> DEFINE k == IF text.shows = "" THEN Undefined ELSE Schema(text.shows)
             n == [nodes[editing] EXCEPT !.content = k]
  <2>1. /\ nodes' = [nodes EXCEPT ![editing] = n] /\ editing' = editing
        /\ text' = [shows |-> text.shows, focused |-> FALSE,
                    of |-> IF n.content = Undefined /\ nodes[editing].content = Undefined
                           THEN text.of ELSE editing]
    BY <1>4 DEF commit
  <2>2. /\ text.shows \in Schemas \cup {""} /\ text.of \in NodeIds \cup {Null}
    BY <1>1, <1>4 DEF TextSet
  <2>3. Shown(k) = text.shows /\ (k = Undefined \/ (k = Schema(k.value) /\ k.value \in Schemas))
    <3>1. CASE text.shows = ""
      BY <3>1, SchemaShown
    <3>2. CASE text.shows # ""
      <4>1. k = Schema(text.shows) /\ Schema(text.shows).value = text.shows
        BY <3>2 DEF Schema
      <4> QED BY <2>2, <3>2, <4>1, SchemaShown
    <3> QED BY <3>1, <3>2
  <2> HIDE DEF k
  <2>4. /\ n.content = k /\ n.kind = nodes[editing].kind /\ n.named = nodes[editing].named
        /\ n = [kind |-> n.kind, named |-> n.named, content |-> n.content]
    <3>1. nodes[editing] = [kind |-> nodes[editing].kind, named |-> nodes[editing].named,
                            content |-> nodes[editing].content]
      BY <1>0, <1>2 DEF NodesOK, NodeOK
    <3> QED BY <3>1
  <2> HIDE DEF n
  <2>5. NodeOK(n) /\ CellsIn(n)
    <3>1. n.content = Undefined \/ ContentOf(n.kind, n.content)
      BY <1>2, <2>3, <2>4 DEF ContentOf
    <3>2. n.kind \in NodeKinds \cup {"none"} /\ n.named \in {"default", "typed"}
      BY <1>0, <1>2, <2>4 DEF NodesOK, NodeOK
    <3> QED BY <1>2, <2>4, <3>1, <3>2 DEF NodeOK, CellsIn
  <2>6. /\ DOMAIN nodes' = DOMAIN nodes /\ nodes'[editing] = n
        /\ \A j \in DOMAIN nodes : nodes'[j] = n \/ nodes'[j] = nodes[j]
    BY <1>2, <2>1
  <2>7. NodesOK(nodes') /\ CellsOK(nodes') /\ Joined(nodes', edges')
    BY <1>0, <1>1, <2>5, <2>6 DEF NodesOK, CellsOK, Joined
  <2>8. text' \in TextSet /\ ~ text'.focused /\ text'.shows = text.shows
        /\ (text'.of # editing => n.content = Undefined)
    BY <1>0, <2>1, <2>2 DEF TextSet
  <2>9. TypeOK' /\ EdgesConnect' /\ CellsHaveColumns'
    BY <1>0, <1>1, <2>1, <2>7, <2>8 DEF TypeOK, TextSet, EdgesConnect, CellsHaveColumns, CellsOK
  <2>10. SchemaKept' /\ FocusIsMounted'
    BY <2>1, <2>3, <2>4, <2>6, <2>8 DEF SchemaKept, DraftReplacesNoSchema,
                                        BlurredIsCommitted, FocusIsMounted
  <2> QED BY <2>9, <2>10 DEF CanvasInv, GraphSound
<1> QED BY <1>3, <1>4
-----------------------------------------------------------------------------
(* The table editor.                                                       *)

(* A table as the editor keeps it, with cells for its columns only.        *)
TableOK(t) ==
  /\ t = Table(t.hitPolicy, t.inputs, t.outputs, t.rules)
  /\ t.hitPolicy \in {"first", "collect"}
  /\ t.inputs \subseteq Columns /\ t.outputs \subseteq Columns
  /\ DOMAIN t.rules \subseteq RuleIds
  /\ \A r \in DOMAIN t.rules : t.rules[r] \subseteq t.inputs \cup t.outputs

(* The open table is sound.                                                *)
LEMMA OpenTable ==
  ASSUME CanvasInv, TableOpen
  PROVE  TableOK(content)
<1>1. NodeOK(nodes[editing]) /\ CellsIn(nodes[editing]) /\ nodes[editing].kind = "decisionTableNode"
  BY OpenNode DEF TableOpen
<1>2. CASE nodes[editing].content = Undefined
  <2>1. content = EMPTY
    BY <1>2 DEF content
  <2>2. /\ EMPTY.hitPolicy = "first" /\ EMPTY.inputs = {} /\ EMPTY.outputs = {}
        /\ DOMAIN EMPTY.rules = {}
        /\ EMPTY = Table(EMPTY.hitPolicy, EMPTY.inputs, EMPTY.outputs, EMPTY.rules)
    BY DEF EMPTY, Table
  <2> QED BY <2>1, <2>2 DEF TableOK
<1>3. CASE nodes[editing].content # Undefined
  <2>1. ContentOf("decisionTableNode", nodes[editing].content)
    BY <1>1, <1>3 DEF NodeOK
  <2>2. content = nodes[editing].content
    BY <1>3 DEF content
  <2> QED BY <1>1, <1>3, <2>1, <2>2 DEF ContentOf, CellsIn, TableOK
<1> QED BY <1>2, <1>3

(* A sound table replaces the open one.                                    *)
LEMMA TablePatchKeeps ==
  ASSUME CanvasInv, NEW t, TableOK(t), patch(t)
  PROVE  CanvasInv'
<1>0. /\ editing \in DOMAIN nodes /\ NodeOK(nodes[editing]) /\ CellsIn(nodes[editing])
      /\ nodes[editing].kind = "decisionTableNode" /\ clicks' \in 0..MaxClicks
  BY OpenNode, ClickCounts DEF patch, ClickOutside
<1>1. PICK o : o = nodes[editing]
  OBVIOUS
<1>2. /\ o = [kind |-> o.kind, named |-> o.named, content |-> o.content]
      /\ o.kind = "decisionTableNode" /\ o.named \in {"default", "typed"}
  BY <1>0, <1>1 DEF NodeOK
<1>3. PICK n : n = [o EXCEPT !.content = t]
  OBVIOUS
<1>4. n.kind = "decisionTableNode" /\ n.named = o.named /\ n.content = t
      /\ n = [kind |-> n.kind, named |-> n.named, content |-> n.content]
  BY <1>2, <1>3
<1>5. ContentOf("decisionTableNode", t)
  BY DEF TableOK, ContentOf
<1>6. NodeOK(n) /\ CellsIn(n)
  BY <1>2, <1>4, <1>5 DEF NodeOK, CellsIn, TableOK, NodeKinds
<1>7. patchNode(editing, n)
  BY <1>1, <1>3 DEF patch
<1> HIDE <1>3
<1> QED BY <1>0, <1>6, <1>7, PatchKeeps
(* A table made of sound parts is sound.                                   *)
LEMMA TableBuilt ==
  ASSUME NEW h \in {"first", "collect"}, NEW ins \in SUBSET Columns,
         NEW outs \in SUBSET Columns, NEW rules, DOMAIN rules \subseteq RuleIds,
         \A r \in DOMAIN rules : rules[r] \subseteq ins \cup outs
  PROVE  TableOK(Table(h, ins, outs, rules))
<1> DEFINE t == Table(h, ins, outs, rules)
<1>1. t.hitPolicy = h /\ t.inputs = ins /\ t.outputs = outs /\ t.rules = rules
  BY DEF Table
<1>2. t = Table(t.hitPolicy, t.inputs, t.outputs, t.rules)
  BY <1>1
<1> HIDE DEF t
<1>3. TableOK(t)
  BY <1>1, <1>2 DEF TableOK
<1> QED BY <1>3 DEF t

(* Columns and rules come and go: a column takes its cells along, a rule   *)
(* begins empty, a cell is one of a column.                                *)
LEMMA TableStepsKeep ==
  ASSUME CanvasInv,
         \/ setHitPolicy("collect")
         \/ \E kind \in {"inputs", "outputs"} :
              addColumn(kind) \/ \E c \in Columns : removeColumn(kind, c)
         \/ addRule
         \/ \E r \in RuleIds : removeRule(r) \/ \E c \in Columns : updateRule(r, c)
  PROVE  CanvasInv'
<1>0. TableOpen
  BY DEF setHitPolicy, addColumn, removeColumn, addRule, removeRule, updateRule
<1>1. PICK o : o = content
  OBVIOUS
<1>2. TableOK(o)
  BY <1>0, <1>1, OpenTable
<1>3. /\ o.hitPolicy \in {"first", "collect"} /\ o.inputs \in SUBSET Columns
      /\ o.outputs \in SUBSET Columns /\ DOMAIN o.rules \subseteq RuleIds
      /\ \A r \in DOMAIN o.rules : o.rules[r] \subseteq o.inputs \cup o.outputs
      /\ o = [is |-> "table", hitPolicy |-> o.hitPolicy, inputs |-> o.inputs,
              outputs |-> o.outputs, rules |-> o.rules]
  BY <1>2 DEF TableOK, Table
<1>4. ASSUME setHitPolicy("collect") PROVE CanvasInv'
  <2>1. PICK t : t = [o EXCEPT !.hitPolicy = "collect"]
    OBVIOUS
  <2>2. t = Table("collect", o.inputs, o.outputs, o.rules)
    BY <1>3, <2>1 DEF Table
  <2>3. TableOK(t)
    BY <1>3, <2>2, TableBuilt
  <2>4. patch(t)
    BY <1>1, <1>4, <2>1 DEF setHitPolicy
  <2> QED BY <2>3, <2>4, TablePatchKeeps
<1>5. ASSUME NEW kind, addColumn(kind) PROVE CanvasInv'
  <2>1. PICK c \in Columns : \/ patch([o EXCEPT !.inputs = @ \cup {c}])
                             \/ patch([o EXCEPT !.outputs = @ \cup {c}])
    BY <1>1, <1>5 DEF addColumn
  <2>2. PICK t : t = [o EXCEPT !.inputs = @ \cup {c}]
    OBVIOUS
  <2>3. PICK u : u = [o EXCEPT !.outputs = @ \cup {c}]
    OBVIOUS
  <2>4. t = Table(o.hitPolicy, o.inputs \cup {c}, o.outputs, o.rules)
    BY <1>3, <2>2 DEF Table
  <2>5. u = Table(o.hitPolicy, o.inputs, o.outputs \cup {c}, o.rules)
    BY <1>3, <2>3 DEF Table
  <2>6. /\ o.inputs \cup {c} \in SUBSET Columns /\ o.outputs \cup {c} \in SUBSET Columns
        /\ \A r \in DOMAIN o.rules : o.rules[r] \subseteq (o.inputs \cup {c}) \cup o.outputs
        /\ \A r \in DOMAIN o.rules : o.rules[r] \subseteq o.inputs \cup (o.outputs \cup {c})
    BY <1>3
  <2>7. TableOK(t)
    BY <1>3, <2>4, <2>6, TableBuilt
  <2>8. TableOK(u)
    BY <1>3, <2>5, <2>6, TableBuilt
  <2>9. patch(t) \/ patch(u)
    BY <2>1, <2>2, <2>3
  <2> QED BY <2>7, <2>8, <2>9, TablePatchKeeps
<1>6. ASSUME NEW kind, NEW c \in Columns, removeColumn(kind, c) PROVE CanvasInv'
  <2>1. PICK w : w = WithoutCells(o.rules, c)
    OBVIOUS
  <2>2. DOMAIN w = DOMAIN o.rules /\ \A r \in DOMAIN w : w[r] = o.rules[r] \ {c}
    BY <2>1 DEF WithoutCells
  <2>3. PICK t : t = Table(o.hitPolicy, o.inputs \ {c}, o.outputs, w)
    OBVIOUS
  <2>4. PICK u : u = Table(o.hitPolicy, o.inputs, o.outputs \ {c}, w)
    OBVIOUS
  <2>5. /\ o.inputs \ {c} \in SUBSET Columns /\ o.outputs \ {c} \in SUBSET Columns
        /\ DOMAIN w \subseteq RuleIds
        /\ \A r \in DOMAIN w : w[r] \subseteq (o.inputs \ {c}) \cup o.outputs
        /\ \A r \in DOMAIN w : w[r] \subseteq o.inputs \cup (o.outputs \ {c})
    BY <1>3, <2>2
  <2>6. TableOK(t)
    BY <1>3, <2>3, <2>5, TableBuilt
  <2>7. TableOK(u)
    BY <1>3, <2>4, <2>5, TableBuilt
  <2>8. patch(t) \/ patch(u)
    BY <1>1, <1>6, <2>1, <2>3, <2>4 DEF removeColumn
  <2> QED BY <2>6, <2>7, <2>8, TablePatchKeeps
<1>7. ASSUME NEW w, DOMAIN w \subseteq RuleIds,
             \A r \in DOMAIN w : w[r] \subseteq o.inputs \cup o.outputs,
             patch([o EXCEPT !.rules = w])
      PROVE  CanvasInv'
  <2>1. PICK t : t = [o EXCEPT !.rules = w]
    OBVIOUS
  <2>2. t = Table(o.hitPolicy, o.inputs, o.outputs, w)
    BY <1>3, <2>1 DEF Table
  <2>3. TableOK(t)
    BY <1>3, <1>7, <2>2, TableBuilt
  <2>4. patch(t)
    BY <1>7, <2>1
  <2> QED BY <2>3, <2>4, TablePatchKeeps
<1>8. ASSUME addRule PROVE CanvasInv'
  <2>1. PICK r \in RuleIds \ DOMAIN o.rules :
          patch([o EXCEPT !.rules = [q \in DOMAIN o.rules \cup {r} |->
                                       IF q = r THEN {} ELSE o.rules[q]]])
    BY <1>1, <1>8 DEF addRule
  <2>2. PICK w : w = [q \in DOMAIN o.rules \cup {r} |-> IF q = r THEN {} ELSE o.rules[q]]
    OBVIOUS
  <2>3. /\ DOMAIN w = DOMAIN o.rules \cup {r} /\ w[r] = {}
        /\ \A q \in DOMAIN o.rules : w[q] = o.rules[q]
    BY <2>2
  <2>4. patch([o EXCEPT !.rules = w])
    BY <2>1, <2>2
  <2> HIDE <2>2
  <2>5. DOMAIN w \subseteq RuleIds /\ \A q \in DOMAIN w : w[q] \subseteq o.inputs \cup o.outputs
    BY <1>3, <2>3
  <2> QED BY <1>7, <2>4, <2>5
<1>9. ASSUME NEW r \in RuleIds, removeRule(r) PROVE CanvasInv'
  <2>1. PICK w : w = [q \in DOMAIN o.rules \ {r} |-> o.rules[q]]
    OBVIOUS
  <2>2. DOMAIN w = DOMAIN o.rules \ {r} /\ \A q \in DOMAIN w : w[q] = o.rules[q]
    BY <2>1
  <2>3. patch([o EXCEPT !.rules = w])
    BY <1>1, <1>9, <2>1 DEF removeRule
  <2> HIDE <2>1
  <2>4. DOMAIN w \subseteq RuleIds /\ \A q \in DOMAIN w : w[q] \subseteq o.inputs \cup o.outputs
    BY <1>3, <2>2
  <2> QED BY <1>7, <2>3, <2>4
<1>10. ASSUME NEW r \in RuleIds, NEW c \in Columns, updateRule(r, c) PROVE CanvasInv'
  <2>1. PICK w : w = [o.rules EXCEPT ![r] = o.rules[r] \cup {c}]
    OBVIOUS
  <2>2. r \in DOMAIN o.rules /\ c \in o.inputs \cup o.outputs
    BY <1>1, <1>10 DEF updateRule, AllColumns
  <2>3. /\ DOMAIN w = DOMAIN o.rules /\ w[r] = o.rules[r] \cup {c}
        /\ \A q \in DOMAIN o.rules : q # r => w[q] = o.rules[q]
    BY <2>1, <2>2
  <2>4. patch([o EXCEPT !.rules = w])
    BY <1>1, <1>10, <2>1 DEF updateRule
  <2> HIDE <2>1
  <2>5. DOMAIN w \subseteq RuleIds /\ \A q \in DOMAIN w : w[q] \subseteq o.inputs \cup o.outputs
    BY <1>3, <2>2, <2>3
  <2> QED BY <1>7, <2>4, <2>5
<1> QED BY <1>4, <1>5, <1>6, <1>8, <1>9, <1>10
-----------------------------------------------------------------------------
(* Every step keeps the invariant.                                         *)
LEMMA CanvasStep == CanvasInv /\ [Next]_vars => CanvasInv'
<1> SUFFICES ASSUME CanvasInv, [Next]_vars PROVE CanvasInv'
  OBVIOUS
<1>1. CASE SampleArrives \/ \E f \in Files : FileRead(f)
  BY <1>1, LoadsKeep
<1>2. CASE \/ SampleFails \/ (\E f \in Files : handleLoad(f)) \/ setName("")
           \/ (\E s, t \in DOMAIN nodes : onConnect(s, t))
           \/ (\E e \in edges : handleEdgesChange(e))
           \/ (\E t \in Schemas \cup {"", "broken"} : setText(t))
  BY <1>2, ToolbarKeeps
<1>3. CASE \/ handleReset \/ onClose \/ (\E kind \in NodeKinds : onDrop(kind))
           \/ (\E i \in DOMAIN nodes : handleNodesChange(i) \/ openNode(i))
  BY <1>3, CanvasStepsKeep
<1>4. CASE EditName \/ FunctionEditor("typed")
  BY <1>4, EditsKeep
<1>5. CASE commit
  BY <1>5, CommitKeeps
<1>6. CASE \/ setHitPolicy("collect")
           \/ \E kind \in {"inputs", "outputs"} :
                addColumn(kind) \/ \E c \in Columns : removeColumn(kind, c)
           \/ addRule
           \/ \E r \in RuleIds : removeRule(r) \/ \E c \in Columns : updateRule(r, c)
  BY <1>6, TableStepsKeep
<1>7. CASE UNCHANGED vars
  BY <1>7 DEF vars, CanvasInv, GraphSound, TypeOK, EdgesConnect, CellsHaveColumns, SchemaKept,
              DraftReplacesNoSchema, BlurredIsCommitted, FocusIsMounted, Mounted
<1> QED BY <1>1, <1>2, <1>3, <1>4, <1>5, <1>6, <1>7 DEF Next

(* The invariant holds throughout.                                         *)
LEMMA CanvasInvariant == Spec => []CanvasInv
BY CanvasStarts, CanvasStep, PTL DEF Spec

(* Whatever arrives late, is dropped, deleted or edited, the graph on the  *)
(* canvas has no edge without its nodes, no cell without its column and    *)
(* for every node a content its editor can show.                           *)
THEOREM CanvasGraphSound == Spec => []GraphSound
<1>1. CanvasInv => GraphSound
  BY DEF CanvasInv
<1> QED BY <1>1, CanvasInvariant, PTL

(* A schema that was typed is in its node once the editor is left, and a   *)
(* text typed for one node never replaces the schema of another.           *)
THEOREM NoSchemaLost == Spec => []SchemaKept
<1>1. CanvasInv => SchemaKept
  BY DEF CanvasInv
<1> QED BY <1>1, CanvasInvariant, PTL

(* A node that is written and read is the node it was, with a type.        *)
LEMMA WrittenDrawn ==
  ASSUME NEW n, NodeOK(n)
  PROVE  Drawn(Written(n)) =
           IF n.kind = "none" THEN [n EXCEPT !.kind = "functionNode"] ELSE n
<1> DEFINE kind == IF n.kind = "none" THEN "functionNode" ELSE n.kind
<1>0. n = [kind |-> n.kind, named |-> n.named, content |-> n.content]
  BY DEF NodeOK
<1>1. PICK w : w = Written(n)
  OBVIOUS
<1>2. /\ "type" \in DOMAIN w /\ w.type = kind
      /\ "name" \in DOMAIN w /\ w.name = n.named
      /\ n.content = Undefined => "content" \notin DOMAIN w
      /\ n.content # Undefined => "content" \in DOMAIN w /\ w.content = n.content
  BY <1>1 DEF Written
<1> HIDE DEF kind
<1>3. Drawn(w) = [kind |-> kind, named |-> n.named, content |-> n.content]
  <2>1. (IF "content" \in DOMAIN w THEN w.content ELSE Undefined) = n.content
    BY <1>2
  <2> QED BY <1>2, <2>1 DEF Drawn
<1>4. [kind |-> kind, named |-> n.named, content |-> n.content] =
        IF n.kind = "none" THEN [n EXCEPT !.kind = "functionNode"] ELSE n
  BY <1>0 DEF kind
<1> QED BY <1>1, <1>3, <1>4

(* Whatever is on the canvas, Save writes a sound file, and loading it     *)
(* gives the canvas back, but that every node has a type.                  *)
THEOREM SavedFilesRead == Spec => []SavedFileReads
<1>1. CanvasInv => SavedFileReads
  <2> SUFFICES ASSUME CanvasInv PROVE SavedFileReads
    OBVIOUS
  <2> DEFINE typed(n) == IF n.kind = "none" THEN [n EXCEPT !.kind = "functionNode"] ELSE n
  <2>1. PICK file : file = workflowToRulesFile(nodes, edges)
    OBVIOUS
  <2>2. handleSave.file = file
    BY <2>1 DEF handleSave
  <2>3. /\ file.is = "graph" /\ file.nodes = [i \in DOMAIN nodes |-> Written(nodes[i])]
        /\ file.edges = {[sourceId |-> e[1], targetId |-> e[2]] : e \in edges}
    BY <2>1 DEF workflowToRulesFile, Graph
  <2>4. /\ NodesOK(nodes) /\ CellsOK(nodes) /\ Joined(nodes, edges)
        /\ edges \in SUBSET (NodeIds \X NodeIds)
    BY InvParts
  <2>5. DOMAIN file.nodes = DOMAIN nodes
    BY <2>3
  <2>6. ASSUME NEW i \in DOMAIN nodes PROVE Drawn(file.nodes[i]) = typed(nodes[i])
    <3>1. file.nodes[i] = Written(nodes[i])
      BY <2>3
    <3>2. NodeOK(nodes[i])
      BY <2>4 DEF NodesOK
    <3> QED BY <3>1, <3>2, WrittenDrawn
  <2>7. ASSUME NEW i \in DOMAIN nodes
        PROVE  NodeOK(Drawn(file.nodes[i])) /\ CellsIn(Drawn(file.nodes[i]))
    <3>1. PICK n, m : n = nodes[i] /\ m = typed(n)
      OBVIOUS
    <3>2. NodeOK(n) /\ CellsIn(n)
      BY <2>4, <3>1 DEF NodesOK, CellsOK
    <3>3. n = [kind |-> n.kind, named |-> n.named, content |-> n.content]
      BY <3>2 DEF NodeOK
    <3>4. CASE n.kind = "none"
      <4>1. m = [n EXCEPT !.kind = "functionNode"]
        BY <3>1, <3>4
      <4>2. /\ m = [kind |-> m.kind, named |-> m.named, content |-> m.content]
            /\ m.kind = "functionNode" /\ m.named = n.named /\ m.content = n.content
        BY <3>3, <4>1
      <4>3. m.content = Undefined \/ ContentOf("functionNode", m.content)
        BY <3>2, <3>4, <4>2 DEF NodeOK, ContentOf
      <4>4. NodeOK(m) /\ CellsIn(m)
        BY <3>2, <4>2, <4>3 DEF NodeOK, CellsIn, NodeKinds
      <4> QED BY <2>6, <3>1, <4>4
    <3>5. CASE n.kind # "none"
      <4>1. m = n
        BY <3>1, <3>5
      <4> QED BY <2>6, <3>1, <3>2, <4>1
    <3> QED BY <3>4, <3>5
  <2>8. ASSUME NEW e \in file.edges PROVE {e.sourceId, e.targetId} \subseteq DOMAIN file.nodes
    <3>1. PICK d \in edges : e = [sourceId |-> d[1], targetId |-> d[2]]
      BY <2>3
    <3>2. e.sourceId = d[1] /\ e.targetId = d[2]
      BY <3>1
    <3> QED BY <2>4, <2>5, <3>2 DEF Joined
  <2>9. FileOK(file)
    <3>1. DOMAIN file.nodes \subseteq NodeIds
      BY <2>4, <2>5 DEF NodesOK
    <3> QED BY <2>3, <2>5, <2>7, <2>8, <3>1 DEF FileOK
  <2>10. rulesFileToGraph(file).nodes = [i \in DOMAIN nodes |-> typed(nodes[i])]
    <3>1. rulesFileToGraph(file).nodes = [i \in DOMAIN file.nodes |-> Drawn(file.nodes[i])]
      BY DEF rulesFileToGraph
    <3> HIDE DEF typed
    <3> QED BY <2>5, <2>6, <3>1
  <2>11. rulesFileToGraph(file).edges = edges
    <3>1. rulesFileToGraph(file).edges = {<<e.sourceId, e.targetId>> : e \in file.edges}
      BY DEF rulesFileToGraph
    <3>2. ASSUME NEW d \in edges
          PROVE  \E e \in file.edges : d = <<e.sourceId, e.targetId>>
      <4>1. d = <<d[1], d[2]>>
        BY <2>4
      <4>2. PICK e : e = [sourceId |-> d[1], targetId |-> d[2]]
        OBVIOUS
      <4>3. e \in file.edges /\ e.sourceId = d[1] /\ e.targetId = d[2]
        BY <2>3, <4>2
      <4> QED BY <4>1, <4>3
    <3>3. ASSUME NEW e \in file.edges PROVE <<e.sourceId, e.targetId>> \in edges
      <4>1. PICK d \in edges : e = [sourceId |-> d[1], targetId |-> d[2]]
        BY <2>3
      <4>2. e.sourceId = d[1] /\ e.targetId = d[2] /\ d = <<d[1], d[2]>>
        BY <2>4, <4>1
      <4> QED BY <4>2
    <3> QED BY <3>1, <3>2, <3>3
  <2>12. parseWorkflow(file).ok /\ ~ Throws(file)
    BY <2>3 DEF parseWorkflow, Throws
  <2> QED BY <2>2, <2>9, <2>10, <2>11, <2>12 DEF SavedFileReads
<1> QED BY <1>1, CanvasInvariant, PTL
=============================================================================

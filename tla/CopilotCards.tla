---------------------------- MODULE CopilotCards ----------------------------
(***************************************************************************)
(* The copilot's tool calls in the rule editor: every call shows a card    *)
(* that the user applies or rejects, or that Apply all fires; applying it  *)
(* changes the decision graph and answers the call.  CopilotKit (external) *)
(* makes one call of each tool executable at a time.  Closing the panel    *)
(* unmounts the cards, opening it mounts new instances of them.            *)
(***************************************************************************)
EXTENDS Naturals, Sequences, FiniteSets, SequencesExt

CONSTANTS
  Calls,        \* tool calls the agent may emit
  Tool,         \* call -> tool
  Args,         \* call -> arguments: name, target, source, dest
  Invalid,      \* calls whose arguments the schemas refuse
  Turn,         \* call -> the agent's turn that emits it
  Plans,        \* sets of calls the agent emits in one session
  FirstNodes,   \* nodes of the graph at the start, a sequence of [id, name]
  Null,
  MaxAsides     \* bound: closings of the panel and deletions on the canvas

GraphTools == {"add_node", "update_node", "remove_node", "add_edge", "remove_edge"}
Tools == GraphTools \cup {"save_rule", "delete_rule"}

FirstIds == {FirstNodes[i].id : i \in DOMAIN FirstNodes}
FirstNames == {FirstNodes[i].name : i \in DOMAIN FirstNodes}

(* An add_node that parses has a name (a patch may leave it out), and the  *)
(* graph at the start has no two nodes of one name.                        *)
ASSUME CardsAssumption ==
  /\ Tool \in [Calls -> Tools] /\ Invalid \subseteq Calls
  /\ \A c \in Calls \ Invalid : Tool[c] = "add_node" => Args[c].name # Null
  /\ FirstNodes \in Seq([id : FirstIds, name : FirstNames \ {Null}])
  /\ \A i, j \in DOMAIN FirstNodes : FirstNodes[i].name = FirstNodes[j].name => i = j
  /\ Turn \in [Calls -> Nat] /\ Plans \subseteq SUBSET Calls
  /\ MaxAsides \in Nat

VARIABLES
  plan,      \* the calls of this session
  status,    \* call -> ToolCallStatus
  panel,     \* whether the panel is open, and how often it was closed
  mounted,   \* calls whose card is mounted
  view,      \* call and card instance -> what its last render resolved
  typed,     \* delete_rule calls whose file name has been typed
  applied,   \* card instances whose appliedRef is set
  pending,   \* card instances registered for Apply all, in order
  footer,    \* Apply all: the flag, whether its loop runs, what it has to fire
  running,   \* calls whose onApply or onReject has begun and not answered
  graph,     \* nodes and edges
  deletes,   \* nodes the user has deleted on the canvas
  ghost      \* for the properties: effects[c], how often c acted; gone, nodes removed
             \* under an undecided add_edge; given, names update_node gave; late,
             \* calls fired when nobody waited for their answer

vars == <<plan, status, panel, mounted, view, typed, applied, pending, footer,
          running, graph, deletes, ghost>>

Card(c) == <<c, panel.closed>>
NodesOf(g) == {g.nodes[i] : i \in DOMAIN g.nodes}
Nodes == NodesOf(graph)
Ids == {n.id : n \in Nodes}

Init ==
  /\ plan \in Plans
  /\ status = [c \in Calls |-> "unsent"]
  /\ panel = [open |-> TRUE, closed |-> 0]
  /\ mounted = {} /\ typed = {} /\ applied = {} /\ running = {} /\ deletes = 0
  /\ view = [card \in Calls \X (0..MaxAsides) |-> Null]
  /\ pending = <<>>
  /\ footer = [auto |-> FALSE, busy |-> FALSE, firing |-> <<>>]
  /\ graph = [nodes |-> FirstNodes, edges |-> {}]
  /\ ghost = [effects |-> [c \in Calls |-> 0], gone |-> {}, given |-> {}, late |-> {}]

-----------------------------------------------------------------------------
(* What a card shows: the render callbacks look nodes up by id or else by  *)
(* name, the first that matches, in the graph of that moment.              *)
resolveNodeId(x) ==
  LET byId   == SelectInSeq(graph.nodes, LAMBDA n : n.id = x)
      byName == SelectInSeq(graph.nodes, LAMBDA n : n.name = x)
  IN  IF byId # 0 THEN graph.nodes[byId].id
      ELSE IF byName # 0 THEN graph.nodes[byName].id ELSE Null

NamedAlready(x) == \E n \in Nodes : n.name = x

(* The schema of a tool's arguments.                                       *)
Parses(c) == c \notin Invalid

(* Fault: a card does not look for a node of the same name.                *)
RenderedAnyName(c) ==
  IF ~ Parses(c) THEN Null
  ELSE CASE Tool[c] = "add_node" -> "add"
         [] Tool[c] \in {"update_node", "remove_node"} -> resolveNodeId(Args[c].target)
         [] Tool[c] = "add_edge" ->
              LET s == resolveNodeId(Args[c].source)
                  d == resolveNodeId(Args[c].dest)
              IN  IF Null \in {s, d} THEN Null ELSE <<s, d>>
         [] OTHER -> "act"

Rendered(c) ==
  IF ~ Parses(c) THEN Null
  ELSE CASE Tool[c] = "add_node" -> IF NamedAlready(Args[c].name) THEN Null ELSE "add"
         [] Tool[c] \in {"update_node", "remove_node"} -> resolveNodeId(Args[c].target)
         [] Tool[c] = "add_edge" ->
              LET s == resolveNodeId(Args[c].source)
                  d == resolveNodeId(Args[c].dest)
              IN  IF Null \in {s, d} THEN Null ELSE <<s, d>>
         [] OTHER -> "act"

(* React may render a mounted card again at any time.                      *)
Rerender(c) ==
  /\ c \in mounted /\ view' = [view EXCEPT ![Card(c)] = Rendered(c)]
  /\ view' # view
  /\ UNCHANGED <<plan, status, panel, mounted, typed, applied, pending, footer,
                 running, graph, deletes, ghost>>

-----------------------------------------------------------------------------
(* Array.filter: s without the elements of D, in order.  It is a recursive *)
(* function because CopilotCardsProofs reasons about it.                   *)
Without(s, D) ==
  LET f[i \in 0..Len(s)] == IF i = 0 THEN <<>>
                            ELSE IF s[i] \in D THEN f[i - 1] ELSE Append(f[i - 1], s[i])
  IN  f[Len(s)]

(* What onApply does to the graph.  A call that its card shows as invalid, *)
(* duplicate or not found is only acknowledged.                            *)
NewId(c) == <<c, ghost.effects[c]>>

add_node(g, c) ==
  [g EXCEPT !.nodes = Append(g.nodes, [id |-> NewId(c), name |-> Args[c].name])]

(* A patch without a name keeps the name.                                  *)
update_node(g, c, id) ==
  [g EXCEPT !.nodes = [i \in DOMAIN g.nodes |->
                         IF g.nodes[i].id = id /\ Args[c].name # Null
                         THEN [id |-> id, name |-> Args[c].name] ELSE g.nodes[i]]]

(* Fault: the edges of a removed node stay.                                *)
remove_node_only(g, id) ==
  [g EXCEPT !.nodes = Without(g.nodes, {n \in NodesOf(g) : n.id = id})]

remove_node(g, id) ==
  [nodes |-> Without(g.nodes, {n \in NodesOf(g) : n.id = id}),
   edges |-> {e \in g.edges : id \notin {e.source, e.dest}}]

add_edge(g, c, ends) ==
  [g EXCEPT !.edges = g.edges \cup {[id |-> NewId(c), source |-> ends[1], dest |-> ends[2]]}]

remove_edge(g, c) == [g EXCEPT !.edges = {e \in g.edges : e.id # Args[c].target}]

Effect(c, shown) ==
  IF shown = Null THEN graph
  ELSE CASE Tool[c] = "add_node"    -> add_node(graph, c)
         [] Tool[c] = "update_node" -> update_node(graph, c, shown)
         [] Tool[c] = "remove_node" -> remove_node(graph, shown)
         [] Tool[c] = "add_edge"    -> add_edge(graph, c, shown)
         [] Tool[c] = "remove_edge" -> remove_edge(graph, c)
         [] OTHER -> graph

(* The nodes that undecided add_edge cards show as ends: cards on the      *)
(* panel, and cards Apply all has still to fire.                           *)
Undecided ==
  ({Card(c) : c \in mounted} \cup {footer.firing[i] : i \in DOMAIN footer.firing}) \ applied

Awaited ==
  UNION {{view[x][1], view[x][2]} :
           x \in {y \in Undecided : Tool[y[1]] = "add_edge" /\ view[y] # Null}}

GhostAfter(c, shown, executing) ==
  IF shown = Null THEN ghost
  ELSE [ghost EXCEPT !.effects[c] = @ + 1,
                     !.gone = IF Tool[c] = "remove_node" THEN @ \cup ({shown} \cap Awaited)
                              ELSE @,
                     !.given = IF Tool[c] = "update_node" THEN @ \cup {Args[c].name} ELSE @,
                     !.late = IF executing THEN @ ELSE @ \cup {c}]

(* pendingApply of a card instance: once per instance.  Outside            *)
(* "executing" there is no respond to call, and the call stays unanswered. *)
Fire(card, shown, executing) ==
  LET c == card[1] IN
  /\ applied' = applied \cup {card}
  /\ graph' = Effect(c, shown)
  /\ running' = IF executing THEN running \cup {c} ELSE running
  /\ ghost' = GhostAfter(c, shown, executing)

Deregistered(card) == Without(pending, {card})

-----------------------------------------------------------------------------
(* CopilotKit, as the editor uses it: a turn's calls arrive once the calls *)
(* of the turns before it are answered; one call of a tool is executable,  *)
(* the others wait for it.                                                 *)
Emit(t) ==
  LET calls == {c \in plan : Turn[c] = t /\ status[c] = "unsent"} IN
  /\ calls # {}
  /\ \A d \in plan : Turn[d] < t => status[d] = "complete"
  /\ status' = [c \in Calls |-> IF c \in calls THEN "inProgress" ELSE status[c]]
  /\ mounted' = IF panel.open THEN mounted \cup calls ELSE mounted
  /\ view' = [card \in DOMAIN view |->
                IF panel.open /\ card[1] \in calls /\ card = Card(card[1])
                THEN Rendered(card[1]) ELSE view[card]]
  /\ UNCHANGED <<plan, panel, typed, applied, pending, footer, running, graph,
                 deletes, ghost>>

(* Fault: a card registers whatever its status.                            *)
RegistersAlways(c, st) == <<c, panel.closed>> \notin applied /\ Tool[c] # "delete_rule"

(* Fault: DestructiveCard registers as the other cards do.                 *)
RegistersDestructive(c, st) == st = "executing" /\ Card(c) \notin applied

(* The registration effect of a card; DestructiveCard has none.            *)
Registers(c, st) ==
  st = "executing" /\ Card(c) \notin applied /\ Tool[c] # "delete_rule"

(* A card that registers while Apply all is on is fired at once.           *)
registerPending(c, st) ==
  LET shown == Rendered(c) IN
  IF ~ Registers(c, st) THEN UNCHANGED <<applied, graph, running, ghost, pending>>
  ELSE IF footer.auto
       THEN Fire(Card(c), shown, st = "executing") /\ UNCHANGED pending
       ELSE /\ pending' = Append(pending, Card(c))
            /\ UNCHANGED <<applied, graph, running, ghost>>

Promote(c) ==
  /\ status[c] = "inProgress"
  /\ \A d \in Calls : Tool[d] = Tool[c] => status[d] # "executing"
  /\ status' = [status EXCEPT ![c] = "executing"]
  /\ IF c \in mounted
     THEN /\ view' = [view EXCEPT ![Card(c)] = Rendered(c)]
          /\ registerPending(c, "executing")
     ELSE UNCHANGED <<view, applied, graph, running, ghost, pending>>
  /\ UNCHANGED <<plan, panel, mounted, typed, footer, deletes>>

(* A panel that opens again mounts a card for every call there is.         *)
MountCard(c) ==
  /\ panel.open /\ status[c] # "unsent" /\ c \notin mounted
  /\ mounted' = mounted \cup {c}
  /\ view' = [view EXCEPT ![Card(c)] = Rendered(c)]
  /\ registerPending(c, status[c])
  /\ UNCHANGED <<plan, status, panel, typed, footer, deletes>>

TogglePanel ==
  /\ panel.open => panel.closed + deletes < MaxAsides
  /\ panel' = IF panel.open THEN [open |-> FALSE, closed |-> panel.closed + 1]
              ELSE [panel EXCEPT !.open = TRUE]
  /\ mounted' = {} /\ typed' = {}
  /\ pending' = <<>>
  /\ UNCHANGED <<plan, status, view, applied, footer, running, graph, deletes, ghost>>

(* respond has resolved: the call is complete and its card decided.        *)
Answer(c) ==
  /\ c \in running
  /\ running' = running \ {c}
  /\ status' = [status EXCEPT ![c] = "complete"]
  /\ pending' = Deregistered(Card(c))
  /\ UNCHANGED <<plan, panel, mounted, view, typed, applied, footer, graph, deletes, ghost>>

-----------------------------------------------------------------------------
(* The user.                                                               *)
Live(c) == c \in mounted /\ status[c] = "executing" /\ Card(c) \notin applied

ClickApply(c) ==
  /\ Live(c) /\ (Tool[c] = "delete_rule" /\ Parses(c) => c \in typed)
  /\ Fire(Card(c), view[Card(c)], TRUE)
  /\ pending' = Deregistered(Card(c))
  /\ UNCHANGED <<plan, status, panel, mounted, view, typed, footer, deletes>>

ClickReject(c) ==
  /\ Live(c)
  /\ applied' = applied \cup {Card(c)}
  /\ running' = running \cup {c}
  /\ pending' = Deregistered(Card(c))
  /\ UNCHANGED <<plan, status, panel, mounted, view, typed, footer, graph, deletes, ghost>>

TypeName(c) ==
  /\ Live(c) /\ Tool[c] = "delete_rule" /\ c \notin typed
  /\ typed' = typed \cup {c}
  /\ UNCHANGED <<plan, status, panel, mounted, view, applied, pending, footer, running,
                 graph, deletes, ghost>>

(* The canvas drops the edges of a deleted node too.                       *)
CanvasDelete(id) ==
  /\ panel.closed + deletes < MaxAsides
  /\ deletes' = deletes + 1
  /\ graph' = remove_node(graph, id)
  /\ ghost' = [ghost EXCEPT !.gone = @ \cup ({id} \cap Awaited)]
  /\ UNCHANGED <<plan, status, panel, mounted, view, typed, applied, pending, footer,
                 running>>

(* Apply all: offered for two or more; fires what is registered, one every *)
(* 80 ms, and whatever registers until the queue has stayed empty for a    *)
(* while or the time is up.                                                *)
ApplyAll ==
  /\ ~ footer.busy /\ Len(pending) >= 2
  /\ footer' = [auto |-> TRUE, busy |-> TRUE, firing |-> pending]
  /\ UNCHANGED <<plan, status, panel, mounted, view, typed, applied, pending, running,
                 graph, deletes, ghost>>

(* Fault: the guard against firing a card twice is missing.                *)
FireNextUnguarded ==
  /\ footer.firing # <<>>
  /\ footer' = [footer EXCEPT !.firing = Tail(@)]
  /\ LET card == Head(footer.firing) IN
       /\ Fire(card, view[card], status[card[1]] = "executing")
       /\ pending' = Deregistered(card)
  /\ UNCHANGED <<plan, status, panel, mounted, view, typed, deletes>>

FireNext ==
  /\ footer.firing # <<>>
  /\ footer' = [footer EXCEPT !.firing = Tail(@)]
  /\ LET card == Head(footer.firing) IN
     IF card \in applied THEN UNCHANGED <<applied, graph, running, ghost, pending>>
     ELSE /\ Fire(card, view[card], status[card[1]] = "executing")
          /\ pending' = Deregistered(card)
  /\ UNCHANGED <<plan, status, panel, mounted, view, typed, deletes>>

ApplyAllEnds ==
  /\ footer.busy /\ footer.firing = <<>>
  /\ footer' = [footer EXCEPT !.auto = FALSE, !.busy = FALSE]
  /\ UNCHANGED <<plan, status, panel, mounted, view, typed, applied, pending, running,
                 graph, deletes, ghost>>

-----------------------------------------------------------------------------
User == \/ \E c \in Calls : ClickApply(c) \/ ClickReject(c) \/ TypeName(c)
        \/ ApplyAll \/ TogglePanel
        \/ \E id \in Ids : CanvasDelete(id)

System == \/ \E c \in Calls : Promote(c) \/ MountCard(c) \/ Answer(c)
          \/ FireNext \/ ApplyAllEnds

Next == User \/ System \/ (\E c \in Calls : Rerender(c))
        \/ \E t \in {Turn[c] : c \in plan} : Emit(t)

Spec == /\ Init /\ [][Next]_vars
        /\ \A c \in Calls : WF_vars(Answer(c)) /\ WF_vars(Promote(c))
        /\ WF_vars(FireNext) /\ WF_vars(ApplyAllEnds)

-----------------------------------------------------------------------------
TypeOK ==
  /\ plan \in Plans
  /\ status \in [Calls -> {"unsent", "inProgress", "executing", "complete"}]
  /\ panel \in [open : BOOLEAN, closed : 0..MaxAsides]
  /\ mounted \subseteq plan /\ typed \subseteq plan /\ running \subseteq plan
  /\ applied \subseteq plan \X (0..MaxAsides)
  /\ pending \in Seq(plan \X (0..MaxAsides))
  /\ footer.auto = footer.busy /\ (footer.firing # <<>> => footer.busy)
  /\ \A i \in DOMAIN graph.nodes : graph.nodes[i].name # Null
  /\ deletes \in 0..MaxAsides

(* Every edge joins two nodes of the graph, however applies, rejections,   *)
(* Apply all and deletions on the canvas interleave; an end may be missing *)
(* only if it was removed while the card of an add_edge showed it.         *)
EdgesConnect ==
  \A e \in graph.edges : {e.source, e.dest} \subseteq Ids \cup ghost.gone

(* Names that a rename gave, that a call added twice (ActsOnce says when), *)
(* or that Apply all added for a call that was answered before.            *)
Excused ==
  ghost.given \cup {Args[c].name : c \in {d \in Calls : /\ Tool[d] = "add_node"
                                                        /\ \/ ghost.effects[d] > 1
                                                           \/ d \in ghost.late}}

(* No two nodes share a name ("same-name nodes create ambiguous edge       *)
(* targets"): add_node refuses one that exists when its card is rendered,  *)
(* and the calls of one tool take turns.  update_node does not look.       *)
NamesUnique ==
  \A i, j \in DOMAIN graph.nodes :
    graph.nodes[i].name = graph.nodes[j].name => i = j \/ graph.nodes[i].name \in Excused

(* The graph the agent works on stays sound under all of this.             *)
GraphSound == TypeOK /\ EdgesConnect /\ NamesUnique

(* A call acts on the graph at most once per instance of its card, by      *)
(* clicks, by Apply all and by both together: twice only when the panel    *)
(* was reopened while the first instance was still being applied.          *)
ActsOnce ==
  \A c \in Calls :
    ghost.effects[c] <= Cardinality({k \in 0..MaxAsides : <<c, k>> \in applied})

(* Nothing acts by itself: a step that lets a call act is the user's click *)
(* on its own card, with the file name typed if it deletes a rule, or one  *)
(* of Apply all, which never acts for a delete_rule.                       *)
NothingActsAlone ==
  [][\A c \in Calls : ghost'.effects[c] > ghost.effects[c] =>
       \/ ClickApply(c) /\ (Tool[c] = "delete_rule" => c \in typed)
       \/ footer.auto /\ Tool[c] # "delete_rule"]_vars

(* A call whose card was applied or rejected is answered in the end: no    *)
(* card is fired in a state in which there is nobody to answer.            *)
Unanswered == {card[1] : card \in applied} \ {c \in Calls : status[c] = "complete"}
DecidedIsAnswered == (Unanswered # {}) ~> (Unanswered = {})
=============================================================================

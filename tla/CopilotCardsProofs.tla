------------------------- MODULE CopilotCardsProofs -------------------------
(***************************************************************************)
(* The copilot's cards change the graph once, with the user's consent, and *)
(* leave it sound, for any number of calls, nodes, turns and closings of   *)
(* the panel.                                                              *)
(***************************************************************************)
EXTENDS CopilotCards, FiniteSetTheorems, SequenceTheorems, WellFoundedInduction, TLAPS

(* Every nonempty set of natural numbers has a least element.              *)
LEMMA NatLeast ==
  ASSUME NEW T \in SUBSET Nat, T # {}
  PROVE  \E m \in T : \A k \in T : m <= k
<1> DEFINE Less == OpToRel(<, Nat)
<1>1. IsWellFoundedOn(Less, Nat)
  BY NatLessThanWellFounded
<1>2. \A i, j \in Nat : <<i, j>> \in Less <=> i < j
  BY DEF OpToRel
<1> HIDE DEF Less
<1>3. PICK m \in T : \A k \in T : ~ (<<k, m>> \in Less)
  BY <1>1, WFMin
<1>4. ASSUME NEW k \in T PROVE m <= k
  <2>1. k \in Nat /\ m \in Nat
    OBVIOUS
  <2>2. ~ (k < m)
    BY <1>2, <1>3, <2>1
  <2> QED BY <2>1, <2>2
<1> QED BY <1>4

(* f[k] is what the filter keeps of the first k elements of s.             *)
IsKept(f, s, D, n) ==
  f = [i \in 0..n |-> IF i = 0 THEN <<>>
                      ELSE IF s[i] \in D THEN f[i - 1] ELSE Append(f[i - 1], s[i])]

(* The recursive definition in Without has a solution.                     *)
LEMMA KeptExists ==
  ASSUME NEW s, NEW D, NEW n \in Nat
  PROVE  \E f : IsKept(f, s, D, n)
<1> DEFINE T == {k \in Nat : ~ \E f : IsKept(f, s, D, k)}
<1> SUFFICES ASSUME T # {} PROVE FALSE
  OBVIOUS
<1>1. PICK m \in T : \A k \in T : m <= k
  <2>1. T \in SUBSET Nat
    OBVIOUS
  <2> HIDE DEF T
  <2> QED BY <2>1, NatLeast
<1>2. CASE m = 0
  <2>1. IsKept([k \in 0..0 |-> <<>>], s, D, 0)
    BY DEF IsKept
  <2> QED BY <1>2, <2>1
<1>3. CASE m # 0
  <2>1. m - 1 \in Nat /\ m - 1 \notin T
    BY <1>1, <1>3
  <2>2. PICK f : IsKept(f, s, D, m - 1)
    BY <2>1
  <2> DEFINE last == IF s[m] \in D THEN f[m - 1] ELSE Append(f[m - 1], s[m])
             r == [k \in 0..m |-> IF k = m THEN last ELSE f[k]]
  <2>3. IsKept(r, s, D, m)
    <3>1. ASSUME NEW k \in 0..m
          PROVE  r[k] = IF k = 0 THEN <<>>
                        ELSE IF s[k] \in D THEN r[k - 1] ELSE Append(r[k - 1], s[k])
      <4>1. CASE k = m
        BY <1>3, <4>1
      <4>2. CASE k # m
        <5>1. k \in 0..(m - 1) /\ r[k] = f[k] /\ (k # 0 => r[k - 1] = f[k - 1])
          BY <4>2, <1>3
        <5> HIDE DEF r
        <5> QED BY <2>2, <5>1 DEF IsKept
      <4> QED BY <4>1, <4>2
    <3> QED BY <3>1 DEF IsKept
  <2> QED BY <2>3
<1> QED BY <1>2, <1>3

(* w keeps, in order, what the first n elements of s have outside D.       *)
KeepsOf(w, s, D, n) ==
  /\ \A j \in 1..Len(w) : w[j] \notin D /\ \E i \in 1..n : w[j] = s[i]
  /\ \A i \in 1..n : s[i] \notin D => \E j \in 1..Len(w) : w[j] = s[i]
  /\ \A j, k \in 1..Len(w) : j < k =>
       \E i, l \in 1..n : i < l /\ w[j] = s[i] /\ w[k] = s[l]

(* One more element of s.                                                  *)
LEMMA KeepsOneMore ==
  ASSUME NEW S, NEW s \in Seq(S), NEW D, NEW n \in 1..Len(s), NEW w \in Seq(S),
         KeepsOf(w, s, D, n - 1), NEW v,
         v = IF s[n] \in D THEN w ELSE Append(w, s[n])
  PROVE  v \in Seq(S) /\ KeepsOf(v, s, D, n)
<1>0. 1..n = 1..(n - 1) \cup {n} /\ n \notin 1..(n - 1) /\ s[n] \in S /\ n \in Int
      /\ \A i \in 1..(n - 1) : i < n /\ i \in 1..n
  OBVIOUS
<1>1. CASE s[n] \in D
  <2>1. v = w
    BY <1>1
  <2> QED BY <1>0, <1>1, <2>1 DEF KeepsOf
<1>2. CASE s[n] \notin D
  <2>1. v = Append(w, s[n])
    BY <1>2
  <2>2. /\ v \in Seq(S) /\ Len(w) \in Nat /\ Len(v) = Len(w) + 1
        /\ \A i \in 1..Len(w) : v[i] = w[i]
        /\ v[Len(v)] = s[n]
    BY <1>0, <2>1, AppendProperties
  <2>3. /\ 1..Len(v) = 1..Len(w) \cup {Len(v)}
        /\ \A j, k \in 1..Len(v) : j < k => j \in 1..Len(w)
    BY <2>2
  <2>4. ASSUME NEW j \in 1..Len(v) PROVE v[j] \notin D /\ \E i \in 1..n : v[j] = s[i]
    <3>1. CASE j = Len(v)
      BY <1>0, <1>2, <2>2, <3>1
    <3>2. CASE j # Len(v)
      <4>1. j \in 1..Len(w) /\ v[j] = w[j]
        BY <2>2, <2>3, <3>2
      <4> QED BY <1>0, <4>1 DEF KeepsOf
    <3> QED BY <3>1, <3>2
  <2>5. ASSUME NEW i \in 1..n, s[i] \notin D PROVE \E j \in 1..Len(v) : v[j] = s[i]
    BY <1>0, <2>2, <2>3, <2>5 DEF KeepsOf
  <2>6. ASSUME NEW j \in 1..Len(v), NEW k \in 1..Len(v), j < k
        PROVE  \E i, l \in 1..n : i < l /\ v[j] = s[i] /\ v[k] = s[l]
    <3>1. j \in 1..Len(w) /\ v[j] = w[j]
      BY <2>2, <2>3, <2>6
    <3>2. CASE k = Len(v)
      <4>1. PICK i \in 1..(n - 1) : w[j] = s[i]
        BY <3>1 DEF KeepsOf
      <4>2. i < n /\ i \in 1..n /\ n \in 1..n
        BY <1>0
      <4> QED BY <2>2, <3>1, <3>2, <4>1, <4>2
    <3>3. CASE k # Len(v)
      <4>1. k \in 1..Len(w) /\ v[k] = w[k]
        BY <2>2, <2>3, <3>3
      <4>2. PICK i \in 1..(n - 1), l \in 1..(n - 1) : i < l /\ w[j] = s[i] /\ w[k] = s[l]
        BY <2>6, <3>1, <4>1 DEF KeepsOf
      <4> QED BY <1>0, <3>1, <4>1, <4>2
    <3> QED BY <3>2, <3>3
  <2> QED BY <2>2, <2>4, <2>5, <2>6 DEF KeepsOf
<1> QED BY <1>1, <1>2

(* What Array.filter returns.                                              *)
LEMMA WithoutKeeps ==
  ASSUME NEW S, NEW s \in Seq(S), NEW D
  PROVE  Without(s, D) \in Seq(S) /\ KeepsOf(Without(s, D), s, D, Len(s))
<1>1. PICK n \in Nat : n = Len(s)
  OBVIOUS
<1> DEFINE f == CHOOSE f : IsKept(f, s, D, n)
<1>2. IsKept(f, s, D, n)
  BY KeptExists
<1>3. Without(s, D) = f[n]
  BY <1>1 DEF Without, IsKept
<1> HIDE DEF f
<1> DEFINE T == {k \in 0..n : ~ (f[k] \in Seq(S) /\ KeepsOf(f[k], s, D, k))}
<1>4. T = {}
  <2> SUFFICES ASSUME T # {} PROVE FALSE
    OBVIOUS
  <2>1. PICK m \in T : \A k \in T : m <= k
    <3>1. T \in SUBSET Nat
      OBVIOUS
    <3> HIDE DEF T
    <3> QED BY <3>1, NatLeast
  <2>2. m # 0
    <3>1. f[0] = <<>>
      BY <1>2 DEF IsKept
    <3>2. <<>> \in Seq(S) /\ KeepsOf(<<>>, s, D, 0)
      BY DEF KeepsOf
    <3> QED BY <3>1, <3>2
  <2>3. m - 1 \in 0..n /\ m - 1 \notin T /\ m \in 1..Len(s)
    BY <1>1, <2>1, <2>2
  <2>4. f[m - 1] \in Seq(S) /\ KeepsOf(f[m - 1], s, D, m - 1)
    BY <2>3
  <2>5. f[m] = IF s[m] \in D THEN f[m - 1] ELSE Append(f[m - 1], s[m])
    BY <1>2, <2>2, <2>3 DEF IsKept
  <2>6. f[m] \in Seq(S) /\ KeepsOf(f[m], s, D, m)
    BY <2>3, <2>4, <2>5, KeepsOneMore
  <2> QED BY <2>6
<1>5. n \in 0..n
  OBVIOUS
<1>6. f[n] \in Seq(S) /\ KeepsOf(f[n], s, D, n)
  BY <1>4, <1>5
<1> QED BY <1>1, <1>3, <1>6

-----------------------------------------------------------------------------
(***************************************************************************)
(* What the five graph tools do to a graph.                                *)
(***************************************************************************)
NodeIds == FirstIds \cup (Calls \X Nat)
NodeNames == (FirstNames \cup {Args[c].name : c \in Calls}) \ {Null}
Node == [id : NodeIds, name : NodeNames]

GraphOK(g) == g = [nodes |-> g.nodes, edges |-> g.edges] /\ g.nodes \in Seq(Node)

IdsOf(g) == {n.id : n \in NodesOf(g)}
NamesOf(g) == {n.name : n \in NodesOf(g)}

(* Every edge of g joins two of its nodes, or nodes of S.                  *)
Connected(g, S) ==
  \A e \in g.edges : e.source \in IdsOf(g) \cup S /\ e.dest \in IdsOf(g) \cup S

(* No two nodes of g share a name outside E.                               *)
Distinct(g, E) ==
  \A i, j \in DOMAIN g.nodes :
    g.nodes[i].name = g.nodes[j].name => i = j \/ g.nodes[i].name \in E

(* h has the nodes of g but those of R, and no names but those of g and N. *)
Grows(g, h, R, N) ==
  /\ GraphOK(h) /\ IdsOf(g) \ R \subseteq IdsOf(h) /\ NamesOf(h) \subseteq NamesOf(g) \cup N

(* A new node keeps the edges connected, and the names distinct if no node *)
(* has its name yet.                                                       *)
LEMMA AddNodeEffect ==
  ASSUME NEW g, GraphOK(g), NEW c \in Calls, Args[c].name # Null, ghost.effects[c] \in Nat,
         NEW S, NEW E
  PROVE  /\ Grows(g, add_node(g, c), {}, {Args[c].name})
         /\ Connected(g, S) => Connected(add_node(g, c), S)
         /\ Distinct(g, E) /\ (Args[c].name \in E \/ Args[c].name \notin NamesOf(g))
              => Distinct(add_node(g, c), E)
<1> DEFINE n == [id |-> NewId(c), name |-> Args[c].name]
           h == add_node(g, c)
<1>1. n \in Node /\ n.name = Args[c].name
  BY DEF Node, NodeIds, NodeNames, NewId
<1>2. h.nodes = Append(g.nodes, n) /\ h.edges = g.edges
      /\ h = [nodes |-> h.nodes, edges |-> h.edges]
  <2>1. g = [nodes |-> g.nodes, edges |-> g.edges]
    BY DEF GraphOK
  <2> QED BY <2>1 DEF add_node
<1> HIDE DEF n, h
<1>3. g.nodes \in Seq(Node)
  BY DEF GraphOK
<1>4. /\ h.nodes \in Seq(Node) /\ Len(g.nodes) \in Nat /\ Len(h.nodes) = Len(g.nodes) + 1
      /\ \A i \in 1..Len(g.nodes) : h.nodes[i] = g.nodes[i]
      /\ h.nodes[Len(h.nodes)] = n
  BY <1>1, <1>2, <1>3, AppendProperties
<1>5. /\ DOMAIN g.nodes = 1..Len(g.nodes) /\ DOMAIN h.nodes = 1..Len(h.nodes)
      /\ 1..Len(h.nodes) = 1..Len(g.nodes) \cup {Len(h.nodes)}
  BY <1>3, <1>4
<1>6. NodesOf(h) = NodesOf(g) \cup {n}
  BY <1>4, <1>5 DEF NodesOf
<1>7. IdsOf(g) \subseteq IdsOf(h) /\ NamesOf(h) \subseteq NamesOf(g) \cup {Args[c].name}
  BY <1>1, <1>6 DEF IdsOf, NamesOf
<1>8. Grows(g, h, {}, {Args[c].name})
  BY <1>2, <1>4, <1>7 DEF GraphOK, Grows
<1>9. Connected(g, S) => Connected(h, S)
  BY <1>2, <1>7 DEF Connected
<1>10. ASSUME Distinct(g, E), Args[c].name \in E \/ Args[c].name \notin NamesOf(g)
       PROVE  Distinct(h, E)
  <2> SUFFICES ASSUME NEW i \in DOMAIN h.nodes, NEW j \in DOMAIN h.nodes,
                      h.nodes[i].name = h.nodes[j].name, h.nodes[i].name \notin E
               PROVE  i = j
    BY DEF Distinct
  <2>1. \A k \in 1..Len(g.nodes) : h.nodes[k].name \in NamesOf(g)
    BY <1>4, <1>5 DEF NodesOf, NamesOf
  <2>2. h.nodes[Len(h.nodes)].name = Args[c].name
    BY <1>1, <1>4
  <2>3. CASE i = Len(h.nodes) \/ j = Len(h.nodes)
    BY <1>5, <1>10, <2>1, <2>2, <2>3
  <2>4. CASE i # Len(h.nodes) /\ j # Len(h.nodes)
    <3>1. i \in DOMAIN g.nodes /\ j \in DOMAIN g.nodes
          /\ h.nodes[i] = g.nodes[i] /\ h.nodes[j] = g.nodes[j]
      BY <1>4, <1>5, <2>4
    <3> QED BY <1>10, <3>1 DEF Distinct
  <2> QED BY <2>3, <2>4
<1> QED BY <1>8, <1>9, <1>10 DEF h

(* A patch keeps the nodes; the only name it can bring is its own.         *)
LEMMA UpdateNodeEffect ==
  ASSUME NEW g, GraphOK(g), NEW c \in Calls, NEW id, NEW S, NEW E, Args[c].name \in E
  PROVE  /\ Grows(g, update_node(g, c, id), {}, {Args[c].name})
         /\ Connected(g, S) => Connected(update_node(g, c, id), S)
         /\ Distinct(g, E) => Distinct(update_node(g, c, id), E)
<1> DEFINE y == [i \in DOMAIN g.nodes |->
                   IF g.nodes[i].id = id /\ Args[c].name # Null
                   THEN [id |-> id, name |-> Args[c].name] ELSE g.nodes[i]]
           h == update_node(g, c, id)
<1>1. h.nodes = y /\ h.edges = g.edges /\ h = [nodes |-> h.nodes, edges |-> h.edges]
  <2>1. g = [nodes |-> g.nodes, edges |-> g.edges]
    BY DEF GraphOK
  <2> QED BY <2>1 DEF update_node
<1>2. DOMAIN y = DOMAIN g.nodes
  OBVIOUS
<1>3. ASSUME NEW i \in DOMAIN g.nodes
      PROVE  y[i] \in Node /\ y[i].id = g.nodes[i].id
             /\ (y[i].name = Args[c].name \/ y[i] = g.nodes[i])
  <2>1. g.nodes[i] \in Node
    BY DEF GraphOK
  <2> HIDE DEF h
  <2>2. CASE g.nodes[i].id = id /\ Args[c].name # Null
    <3>1. y[i] = [id |-> id, name |-> Args[c].name]
      BY <2>2
    <3>2. id \in NodeIds /\ Args[c].name \in NodeNames
      BY <2>1, <2>2 DEF Node, NodeNames
    <3> HIDE DEF y
    <3> QED BY <2>2, <3>1, <3>2 DEF Node
  <2>3. CASE ~ (g.nodes[i].id = id /\ Args[c].name # Null)
    <3>1. y[i] = g.nodes[i]
      BY <2>3
    <3> QED BY <2>1, <2>3, <3>1
  <2> QED BY <2>2, <2>3
<1>4. y \in Seq(Node)
  <2>1. DOMAIN g.nodes = 1..Len(g.nodes) /\ Len(g.nodes) \in Nat
    BY DEF GraphOK
  <2>2. y \in [1..Len(g.nodes) -> Node]
    BY <1>3, <2>1
  <2> HIDE DEF y
  <2> QED BY <2>1, <2>2
<1> HIDE DEF y, h
<1>5. IdsOf(g) \subseteq IdsOf(h)
  <2> SUFFICES ASSUME NEW i \in DOMAIN g.nodes PROVE g.nodes[i].id \in IdsOf(h)
    BY DEF IdsOf, NodesOf
  <2>1. h.nodes[i] \in NodesOf(h) /\ h.nodes[i].id = g.nodes[i].id
    BY <1>1, <1>2, <1>3 DEF NodesOf
  <2> QED BY <2>1 DEF IdsOf
<1>6. NamesOf(h) \subseteq NamesOf(g) \cup {Args[c].name}
  <2> SUFFICES ASSUME NEW i \in DOMAIN g.nodes
               PROVE  h.nodes[i].name \in NamesOf(g) \cup {Args[c].name}
    BY <1>1, <1>2 DEF NamesOf, NodesOf
  <2> QED BY <1>1, <1>3 DEF NamesOf, NodesOf
<1>7. Grows(g, h, {}, {Args[c].name})
  BY <1>1, <1>4, <1>5, <1>6 DEF GraphOK, Grows
<1>8. Connected(g, S) => Connected(h, S)
  BY <1>1, <1>5 DEF Connected
<1>9. Distinct(g, E) => Distinct(h, E)
  BY <1>1, <1>2, <1>3 DEF Distinct
<1> QED BY <1>7, <1>8, <1>9 DEF h

(* A removal takes the node's edges along and keeps the other nodes.       *)
LEMMA RemoveNodeEffect ==
  ASSUME NEW g, GraphOK(g), NEW id, NEW S, NEW E
  PROVE  /\ Grows(g, remove_node(g, id), {id}, {})
         /\ Connected(g, S) => Connected(remove_node(g, id), S)
         /\ Distinct(g, E) => Distinct(remove_node(g, id), E)
<1> DEFINE D == {n \in NodesOf(g) : n.id = id}
           h == remove_node(g, id)
<1>1. /\ h.nodes = Without(g.nodes, D)
      /\ h.edges = {e \in g.edges : id \notin {e.source, e.dest}}
      /\ h = [nodes |-> h.nodes, edges |-> h.edges]
  BY DEF remove_node
<1>2. g.nodes \in Seq(Node)
  BY DEF GraphOK
<1>3. \A i \in DOMAIN g.nodes : g.nodes[i] \in D <=> g.nodes[i].id = id
  BY DEF NodesOf
<1> HIDE DEF D, h
<1>4. h.nodes \in Seq(Node) /\ KeepsOf(h.nodes, g.nodes, D, Len(g.nodes))
  BY <1>1, <1>2, WithoutKeeps
<1>5. DOMAIN g.nodes = 1..Len(g.nodes) /\ DOMAIN h.nodes = 1..Len(h.nodes)
      /\ Len(h.nodes) \in Nat
  BY <1>2, <1>4
<1>6. ASSUME NEW x \in IdsOf(g), x # id PROVE x \in IdsOf(h)
  <2>1. PICK i \in 1..Len(g.nodes) : g.nodes[i].id = x
    BY <1>5 DEF IdsOf, NodesOf
  <2>2. g.nodes[i] \notin D
    BY <1>3, <1>5, <1>6, <2>1
  <2>3. PICK j \in 1..Len(h.nodes) : h.nodes[j] = g.nodes[i]
    BY <1>4, <2>2 DEF KeepsOf
  <2>4. h.nodes[j] \in NodesOf(h)
    BY <1>5 DEF NodesOf
  <2> QED BY <2>1, <2>3, <2>4 DEF IdsOf
<1>7. NamesOf(h) \subseteq NamesOf(g)
  <2> SUFFICES ASSUME NEW j \in 1..Len(h.nodes) PROVE h.nodes[j].name \in NamesOf(g)
    BY <1>5 DEF NamesOf, NodesOf
  <2>1. PICK i \in 1..Len(g.nodes) : h.nodes[j] = g.nodes[i]
    BY <1>4 DEF KeepsOf
  <2> QED BY <1>5, <2>1 DEF NamesOf, NodesOf
<1>8. Connected(g, S) => Connected(h, S)
  BY <1>1, <1>6 DEF Connected
<1>9. Distinct(g, E) => Distinct(h, E)
  <2> SUFFICES ASSUME Distinct(g, E), NEW j \in 1..Len(h.nodes), NEW k \in 1..Len(h.nodes),
                      j < k, h.nodes[j].name = h.nodes[k].name
               PROVE  h.nodes[j].name \in E
    BY <1>5 DEF Distinct
  <2>1. PICK i \in 1..Len(g.nodes), l \in 1..Len(g.nodes) :
          i < l /\ h.nodes[j] = g.nodes[i] /\ h.nodes[k] = g.nodes[l]
    BY <1>4 DEF KeepsOf
  <2> QED BY <1>5, <2>1 DEF Distinct
<1>10. Grows(g, h, {id}, {})
  BY <1>1, <1>4, <1>6, <1>7 DEF GraphOK, Grows
<1> QED BY <1>8, <1>9, <1>10 DEF h

(* Edges come and go; one that comes must join two nodes.                  *)
LEMMA EdgeEffect ==
  ASSUME NEW g, GraphOK(g), NEW c \in Calls, NEW ends, NEW S, NEW E
  PROVE  /\ Grows(g, add_edge(g, c, ends), {}, {}) /\ Grows(g, remove_edge(g, c), {}, {})
         /\ Connected(g, S) => Connected(remove_edge(g, c), S)
         /\ Connected(g, S) /\ {ends[1], ends[2]} \subseteq IdsOf(g) \cup S
              => Connected(add_edge(g, c, ends), S)
         /\ Distinct(g, E) => Distinct(add_edge(g, c, ends), E) /\ Distinct(remove_edge(g, c), E)
<1>0. g = [nodes |-> g.nodes, edges |-> g.edges]
  BY DEF GraphOK
<1> DEFINE new == [id |-> NewId(c), source |-> ends[1], dest |-> ends[2]]
           h == add_edge(g, c, ends)
           r == remove_edge(g, c)
<1>1. h.nodes = g.nodes /\ h.edges = g.edges \cup {new}
      /\ h = [nodes |-> h.nodes, edges |-> h.edges]
  BY <1>0 DEF add_edge
<1>2. r.nodes = g.nodes /\ r.edges \subseteq g.edges
      /\ r = [nodes |-> r.nodes, edges |-> r.edges]
  BY <1>0 DEF remove_edge
<1>3. new.source = ends[1] /\ new.dest = ends[2]
  OBVIOUS
<1> HIDE DEF new, h, r
<1>4. NodesOf(h) = NodesOf(g) /\ NodesOf(r) = NodesOf(g)
  BY <1>1, <1>2 DEF NodesOf
<1>5. IdsOf(h) = IdsOf(g) /\ IdsOf(r) = IdsOf(g) /\ NamesOf(h) = NamesOf(g)
      /\ NamesOf(r) = NamesOf(g)
  BY <1>4 DEF IdsOf, NamesOf
<1>6. Grows(g, h, {}, {}) /\ Grows(g, r, {}, {})
  BY <1>1, <1>2, <1>5 DEF GraphOK, Grows
<1>7. Connected(g, S) => Connected(r, S)
  BY <1>2, <1>5 DEF Connected
<1>8. Connected(g, S) /\ {ends[1], ends[2]} \subseteq IdsOf(g) \cup S => Connected(h, S)
  BY <1>1, <1>3, <1>5 DEF Connected
<1>9. Distinct(g, E) => Distinct(h, E) /\ Distinct(r, E)
  BY <1>1, <1>2 DEF Distinct
<1> QED BY <1>6, <1>7, <1>8, <1>9 DEF h, r

-----------------------------------------------------------------------------
(***************************************************************************)
(* The inductive invariant: what a card that fires changes; the cards, the *)
(* queue of Apply all and its footer; whose turn it is; and what is shown  *)
(* on the cards that are still to be decided.                              *)
(***************************************************************************)
Instances == 0..MaxAsides

GhostOK(h) ==
  /\ h = [effects |-> h.effects, gone |-> h.gone, given |-> h.given, late |-> h.late]
  /\ h.effects \in [Calls -> Nat]

(* The graph and what has been done to it.                                 *)
DoneInv ==
  /\ GraphOK(graph) /\ GhostOK(ghost)
  /\ applied \subseteq plan \X Instances /\ running \subseteq plan
  /\ ActsOnce

(* Cards that Apply all may fire.                                          *)
SafeCards == {card \in plan \X Instances : Tool[card[1]] # "delete_rule"}

(* The cards that are shown and those that wait.  Only a call that parses  *)
(* is shown as one that can act.                                           *)
CardInv ==
  /\ plan \in Plans
  /\ status \in [Calls -> {"unsent", "inProgress", "executing", "complete"}]
  /\ \A c \in Calls : status[c] # "unsent" => c \in plan
  /\ panel \in [open : BOOLEAN, closed : Instances]
  /\ mounted \subseteq plan /\ typed \subseteq plan
  /\ deletes \in Instances
  /\ DOMAIN view = Calls \X Instances
  /\ \A card \in Calls \X Instances : view[card] # Null => Parses(card[1])

(* Apply all fires nothing while it is off, and no delete_rule.            *)
QueueInv ==
  /\ pending \in Seq(SafeCards)
  /\ footer \in [auto : BOOLEAN, busy : BOOLEAN, firing : Seq(SafeCards)]
  /\ footer.auto = footer.busy /\ (footer.firing # <<>> => footer.busy)

CardsInv == DoneInv /\ CardInv /\ QueueInv

CardsIn(s) == {s[i] : i \in DOMAIN s}

(* One call of a tool is executable at a time.                             *)
OneEach(st) ==
  \A c, d \in Calls : st[c] = "executing" /\ st[d] = "executing" /\ Tool[c] = Tool[d] => c = d

(* Cards that wait to be fired were executable when they registered.       *)
Waits(cards, st) == \A x \in cards : st[x[1]] \in {"executing", "complete"}

TurnInv ==
  /\ OneEach(status)
  /\ CardsIn(pending) \subseteq {Card(c) : c \in mounted}
  /\ Waits(CardsIn(pending) \cup CardsIn(footer.firing), status)

(* The ends an undecided add_edge card shows are nodes, or are gone.       *)
EndsShown(x, v, g, h) ==
  Tool[x[1]] = "add_edge" /\ v[x] # Null
    => {v[x][1], v[x][2]} \subseteq IdsOf(g) \cup h.gone

ExcusedBy(h) ==
  h.given \cup {Args[c].name : c \in {d \in Calls : /\ Tool[d] = "add_node"
                                                    /\ \/ h.effects[d] > 1
                                                       \/ d \in h.late}}

(* The name of an executable add_node that its card offers is free, unless *)
(* it is excused or another instance of the card has added it.             *)
NameFree(x, v, st, g, h) ==
  Tool[x[1]] = "add_node" /\ v[x] # Null /\ st[x[1]] = "executing"
    => \/ Args[x[1]].name \notin NamesOf(g)
       \/ Args[x[1]].name \in ExcusedBy(h)
       \/ h.effects[x[1]] >= 1

SoundAt(cards, v, st, g, h) ==
  /\ Connected(g, h.gone) /\ Distinct(g, ExcusedBy(h))
  /\ \A x \in cards : EndsShown(x, v, g, h) /\ NameFree(x, v, st, g, h)

SoundInv == SoundAt(Undecided, view, status, graph, ghost)

WholeInv == CardsInv /\ TurnInv /\ SoundInv

(* What the invariant says about the definitions of CopilotCards.          *)
LEMMA WholeInvImplies == WholeInv => GraphSound /\ ActsOnce
<1> SUFFICES ASSUME WholeInv PROVE GraphSound
  BY DEF WholeInv, CardsInv, DoneInv
<1>1. EdgesConnect
  BY DEF WholeInv, SoundInv, SoundAt, EdgesConnect, Connected, IdsOf, Ids, Nodes
<1>2. NamesUnique
  BY DEF WholeInv, SoundInv, SoundAt, NamesUnique, Distinct, Excused, ExcusedBy
<1>3. \A i \in DOMAIN graph.nodes : graph.nodes[i].name # Null
  <2>1. graph.nodes \in Seq(Node)
    BY DEF WholeInv, CardsInv, DoneInv, GraphOK
  <2>2. \A i \in DOMAIN graph.nodes : graph.nodes[i] \in Node
    BY <2>1
  <2> QED BY <2>2 DEF Node, NodeNames
<1>4. pending \in Seq(plan \X (0..MaxAsides))
  <2>1. pending \in Seq(SafeCards) /\ SafeCards \subseteq plan \X (0..MaxAsides)
    BY DEF WholeInv, CardsInv, QueueInv, SafeCards, Instances
  <2> QED BY <2>1
<1>5. TypeOK
  BY <1>3, <1>4 DEF WholeInv, CardsInv, DoneInv, CardInv, QueueInv, Instances, TypeOK
<1> QED BY <1>1, <1>2, <1>5 DEF GraphSound

(* One more instance of c's card has been applied.                         *)
LEMMA OneMoreInstance ==
  ASSUME NEW A, NEW c, NEW k \in Instances, <<c, k>> \notin A
  PROVE  /\ Cardinality({i \in Instances : <<c, i>> \in A \cup {<<c, k>>}})
              = Cardinality({i \in Instances : <<c, i>> \in A}) + 1
         /\ Cardinality({i \in Instances : <<c, i>> \in A}) \in Nat
<1> DEFINE S == {i \in Instances : <<c, i>> \in A}
           R == {i \in Instances : <<c, i>> \in A \cup {<<c, k>>}}
<1>1. IsFiniteSet(Instances)
  BY CardsAssumption, FS_Interval DEF Instances
<1>2. S \subseteq Instances /\ R = S \cup {k} /\ k \notin S
  OBVIOUS
<1> HIDE DEF S, R
<1>3. IsFiniteSet(S)
  BY <1>1, <1>2, FS_Subset
<1>4. Cardinality(S \cup {k}) = Cardinality(S) + 1 /\ Cardinality(S) \in Nat
  BY <1>2, <1>3, FS_AddElement, FS_CardinalityType
<1> QED BY <1>2, <1>4 DEF S, R

Removed(c, shown) == IF Tool[c] = "remove_node" THEN {shown} ELSE {}
Added(c) == IF Tool[c] \in {"add_node", "update_node"} THEN {Args[c].name} ELSE {}

(* What an onApply does to the graph, for nodes S that are gone and names  *)
(* E that are excused.                                                     *)
LEMMA EffectSound ==
  ASSUME GraphOK(graph), GhostOK(ghost), NEW c \in Calls, Parses(c), NEW shown, shown # Null,
         NEW S, NEW E, Tool[c] = "update_node" => Args[c].name \in E
  PROVE  /\ Grows(graph, Effect(c, shown), Removed(c, shown), Added(c))
         /\ /\ Connected(graph, S)
            /\ Tool[c] = "add_edge" => {shown[1], shown[2]} \subseteq IdsOf(graph) \cup S
            => Connected(Effect(c, shown), S)
         /\ /\ Distinct(graph, E)
            /\ Tool[c] = "add_node" => Args[c].name \in E \/ Args[c].name \notin NamesOf(graph)
            => Distinct(Effect(c, shown), E)
<1>0. ghost.effects[c] \in Nat /\ Tool[c] \in Tools
  BY CardsAssumption DEF GhostOK
<1>2. CASE Tool[c] = "add_node"
  <2>1. Effect(c, shown) = add_node(graph, c) /\ Removed(c, shown) = {}
        /\ Added(c) = {Args[c].name}
    BY <1>2 DEF Effect, Removed, Added
  <2>2. Args[c].name # Null
    BY <1>2, CardsAssumption DEF Parses
  <2> QED BY <1>0, <1>2, <2>1, <2>2, AddNodeEffect
<1>3. CASE Tool[c] = "update_node"
  <2>1. Effect(c, shown) = update_node(graph, c, shown) /\ Removed(c, shown) = {}
        /\ Added(c) = {Args[c].name}
    BY <1>3 DEF Effect, Removed, Added
  <2> QED BY <1>3, <2>1, UpdateNodeEffect
<1>4. CASE Tool[c] = "remove_node"
  <2>1. Effect(c, shown) = remove_node(graph, shown) /\ Removed(c, shown) = {shown}
        /\ Added(c) = {}
    BY <1>4 DEF Effect, Removed, Added
  <2> QED BY <2>1, RemoveNodeEffect
<1>5. CASE Tool[c] = "add_edge"
  <2>1. Effect(c, shown) = add_edge(graph, c, shown) /\ Removed(c, shown) = {}
        /\ Added(c) = {}
    BY <1>5 DEF Effect, Removed, Added
  <2> QED BY <1>5, <2>1, EdgeEffect
<1>6. CASE Tool[c] = "remove_edge"
  <2>1. Effect(c, shown) = remove_edge(graph, c) /\ Removed(c, shown) = {} /\ Added(c) = {}
    BY <1>6 DEF Effect, Removed, Added
  <2> QED BY <2>1, EdgeEffect
<1>7. CASE Tool[c] \notin GraphTools
  <2>1. Effect(c, shown) = graph /\ Removed(c, shown) = {} /\ Added(c) = {}
    BY <1>7 DEF Effect, GraphTools, Removed, Added
  <2> QED BY <2>1 DEF Grows
<1> QED BY <1>0, <1>2, <1>3, <1>4, <1>5, <1>6, <1>7 DEF GraphTools

(* What a card that fires records.                                         *)
LEMMA GhostSteps ==
  ASSUME GhostOK(ghost), NEW c \in Calls, NEW shown, NEW executing \in BOOLEAN,
         ghost' = GhostAfter(c, shown, executing)
  PROVE  /\ GhostOK(ghost')
         /\ \A d \in Calls : d # c => ghost'.effects[d] = ghost.effects[d]
         /\ shown = Null => ghost' = ghost
         /\ shown # Null =>
              /\ ghost'.effects[c] = ghost.effects[c] + 1
              /\ ghost.gone \subseteq ghost'.gone /\ ghost.given \subseteq ghost'.given
              /\ ghost.late \subseteq ghost'.late
              /\ Removed(c, shown) \cap Awaited \subseteq ghost'.gone
              /\ Tool[c] = "update_node" => Args[c].name \in ghost'.given
              /\ ~ executing => c \in ghost'.late
<1>1. CASE shown = Null
  BY <1>1 DEF GhostAfter
<1>2. CASE shown # Null
  <2>1. ghost = [effects |-> ghost.effects, gone |-> ghost.gone, given |-> ghost.given,
                 late |-> ghost.late] /\ ghost.effects \in [Calls -> Nat]
    BY DEF GhostOK
  <2>2. /\ ghost'.effects = [ghost.effects EXCEPT ![c] = @ + 1]
        /\ ghost'.gone = IF Tool[c] = "remove_node" THEN ghost.gone \cup ({shown} \cap Awaited)
                         ELSE ghost.gone
        /\ ghost'.given = IF Tool[c] = "update_node" THEN ghost.given \cup {Args[c].name}
                          ELSE ghost.given
        /\ ghost'.late = IF executing THEN ghost.late ELSE ghost.late \cup {c}
        /\ ghost' = [effects |-> ghost'.effects, gone |-> ghost'.gone, given |-> ghost'.given,
                     late |-> ghost'.late]
    BY <1>2, <2>1 DEF GhostAfter
  <2>3. /\ ghost'.effects \in [Calls -> Nat] /\ ghost'.effects[c] = ghost.effects[c] + 1
        /\ \A d \in Calls : d # c => ghost'.effects[d] = ghost.effects[d]
    BY <2>1, <2>2
  <2> QED BY <1>2, <2>2, <2>3 DEF GhostOK, Removed
<1> QED BY <1>1, <1>2

(* A card that was not applied before fires.                               *)
LEMMA FireKeeps ==
  ASSUME DoneInv, plan \in Plans, NEW c \in plan, NEW k \in Instances,
         <<c, k>> \notin applied, NEW shown, shown # Null => Parses(c),
         NEW executing \in BOOLEAN, Fire(<<c, k>>, shown, executing), plan' = plan
  PROVE  DoneInv'
<1>0. c \in Calls /\ plan \subseteq Calls
  BY CardsAssumption
<1>1. /\ applied' = applied \cup {<<c, k>>}
      /\ graph' = Effect(c, shown)
      /\ running' \subseteq running \cup {c}
      /\ ghost' = GhostAfter(c, shown, executing)
  BY DEF Fire
<1>2. GhostOK(ghost) /\ ghost.effects \in [Calls -> Nat] /\ GraphOK(graph)
  BY DEF DoneInv, GhostOK
<1>3. /\ GhostOK(ghost') /\ ghost'.effects[c] \in {ghost.effects[c], ghost.effects[c] + 1}
      /\ \A d \in Calls : d # c => ghost'.effects[d] = ghost.effects[d]
  BY <1>0, <1>1, <1>2, GhostSteps
<1>4. GraphOK(graph')
  <2>1. CASE shown = Null
    BY <1>1, <1>2, <2>1 DEF Effect
  <2>2. CASE shown # Null
    <3>1. Args[c].name \in {Args[c].name}
      OBVIOUS
    <3> QED BY <1>0, <1>1, <1>2, <2>2, <3>1, EffectSound DEF Grows
  <2> QED BY <2>1, <2>2
<1>5. applied' \subseteq plan \X Instances /\ running' \subseteq plan
  BY <1>1 DEF DoneInv
<1>6. ActsOnce'
  <2> SUFFICES ASSUME NEW d \in Calls
               PROVE  ghost'.effects[d]
                        <= Cardinality({i \in Instances : <<d, i>> \in applied'})
    BY DEF ActsOnce, Instances
  <2>1. ghost.effects[d] <= Cardinality({i \in Instances : <<d, i>> \in applied})
    BY DEF DoneInv, ActsOnce, Instances
  <2>2. CASE d = c
    <3>1. /\ Cardinality({i \in Instances : <<d, i>> \in applied'})
               = Cardinality({i \in Instances : <<d, i>> \in applied}) + 1
          /\ Cardinality({i \in Instances : <<d, i>> \in applied}) \in Nat
      BY <1>1, <2>2, OneMoreInstance
    <3>2. ghost'.effects[d] \in {ghost.effects[d], ghost.effects[d] + 1}
          /\ ghost.effects[d] \in Nat
      BY <1>2, <1>3, <2>2
    <3> QED BY <2>1, <3>1, <3>2
  <2>3. CASE d # c
    <3>1. {i \in Instances : <<d, i>> \in applied'} = {i \in Instances : <<d, i>> \in applied}
      BY <1>1, <2>3
    <3>2. ghost'.effects[d] = ghost.effects[d]
      BY <1>3, <2>3
    <3> QED BY <2>1, <3>1, <3>2
  <2> QED BY <2>2, <2>3
<1> QED BY <1>3, <1>4, <1>5, <1>6 DEF DoneInv

-----------------------------------------------------------------------------
(***************************************************************************)
(* One lemma per action.                                                   *)
(***************************************************************************)

(* The session begins with the graph of the file and no card.              *)
LEMMA CardsStart == Init => CardsInv
<1> SUFFICES ASSUME Init PROVE CardsInv
  OBVIOUS
<1>1. GraphOK(graph)
  <2>1. graph.nodes = FirstNodes /\ graph.edges = {}
        /\ graph = [nodes |-> graph.nodes, edges |-> graph.edges]
    BY DEF Init
  <2>2. FirstNodes \in Seq([id : FirstIds, name : FirstNames \ {Null}])
    BY CardsAssumption
  <2>3. [id : FirstIds, name : FirstNames \ {Null}] \subseteq Node
    BY DEF Node, NodeIds, NodeNames
  <2>4. FirstNodes \in Seq(Node)
    <3> DEFINE First == [id : FirstIds, name : FirstNames \ {Null}]
    <3> HIDE DEF First
    <3>1. FirstNodes \in Seq(First) /\ First \subseteq Node
      BY <2>2, <2>3 DEF First
    <3> QED BY <3>1
  <2> QED BY <2>1, <2>4 DEF GraphOK
<1>2. GhostOK(ghost) /\ \A c \in Calls : ghost.effects[c] = 0
  BY DEF Init, GhostOK
<1>3. ActsOnce
  <2> SUFFICES ASSUME NEW c \in Calls
               PROVE  0 <= Cardinality({k \in 0..MaxAsides : <<c, k>> \in applied})
    BY <1>2 DEF ActsOnce
  <2> DEFINE S == {k \in 0..MaxAsides : <<c, k>> \in applied}
  <2>1. S = {}
    BY DEF Init
  <2> HIDE DEF S
  <2>2. Cardinality(S) = 0
    BY <2>1, FS_EmptySet
  <2>3. 0 <= Cardinality(S)
    BY <2>2
  <2> QED BY <2>3 DEF S
<1>5. DoneInv
  BY <1>1, <1>2, <1>3 DEF DoneInv, Init
<1>6. CardInv
  BY CardsAssumption DEF CardInv, Init, Instances
<1>7. QueueInv
  BY DEF QueueInv, Init
<1> QED BY <1>5, <1>6, <1>7 DEF CardsInv

(* What no card has touched stays as it was.                               *)
LEMMA DoneUnchanged ==
  ASSUME DoneInv, UNCHANGED <<plan, applied, graph, ghost>>, running' \subseteq running
  PROVE  DoneInv'
BY DEF DoneInv, ActsOnce

(* The queue and the footer, while the session's calls stay the same.      *)
LEMMA QueueKeeps ==
  ASSUME QueueInv, plan' = plan, footer' = footer, pending' \in Seq(SafeCards)
  PROVE  QueueInv'
BY DEF QueueInv, SafeCards

(* A card that leaves the queue leaves the others in it.                   *)
LEMMA DeregisteredSafe ==
  ASSUME QueueInv, NEW card
  PROVE  Deregistered(card) \in Seq(SafeCards)
<1>1. pending \in Seq(SafeCards)
  BY DEF QueueInv
<1> QED BY <1>1, WithoutKeeps DEF Deregistered

(* A card is shown as able to act only if its call parses.                 *)
LEMMA RenderedParses ==
  ASSUME NEW c, Rendered(c) # Null
  PROVE  Parses(c)
BY DEF Rendered

(* Showing cards anew.                                                     *)
LEMMA ViewKeeps ==
  ASSUME CardInv, NEW c \in Calls
  PROVE  LET v == [view EXCEPT ![Card(c)] = Rendered(c)] IN
         /\ DOMAIN v = Calls \X Instances
         /\ \A card \in Calls \X Instances : v[card] # Null => Parses(card[1])
<1> DEFINE v == [view EXCEPT ![Card(c)] = Rendered(c)]
<1>1. Card(c) = <<c, panel.closed>>
  BY DEF Card
<1>2. DOMAIN v = Calls \X Instances
  BY DEF CardInv
<1>3. ASSUME NEW card \in Calls \X Instances, v[card] # Null PROVE Parses(card[1])
  <2>1. CASE card = Card(c)
    <3>1. v[card] = Rendered(c)
      BY <2>1, <1>2
    <3>2. card[1] = c
      BY <1>1, <2>1
    <3> QED BY <1>3, <3>1, <3>2, RenderedParses
  <2>2. CASE card # Card(c)
    <3>1. v[card] = view[card]
      BY <2>2 DEF CardInv
    <3> QED BY <1>3, <3>1 DEF CardInv
  <2> QED BY <2>1, <2>2
<1> QED BY <1>2, <1>3

(* The registration of a card: nothing, the queue, or the card fires.      *)
LEMMA RegisterKeeps ==
  ASSUME CardsInv, NEW c \in plan, NEW st, registerPending(c, st),
         plan' = plan, footer' = footer
  PROVE  DoneInv' /\ QueueInv'
<1>0. DoneInv /\ QueueInv /\ CardInv /\ panel.closed \in Instances /\ plan \in Plans
  BY DEF CardsInv, CardInv
<1>1. CASE ~ Registers(c, st)
  <2>1. UNCHANGED <<applied, graph, running, ghost, pending>>
    BY <1>1 DEF registerPending
  <2>2. DoneInv'
    BY <1>0, <2>1, DoneUnchanged
  <2>3. QueueInv'
    BY <1>0, <2>1, QueueKeeps DEF QueueInv
  <2> QED BY <2>2, <2>3
<1>2. CASE Registers(c, st) /\ ~ footer.auto
  <2>1. pending' = Append(pending, Card(c)) /\ UNCHANGED <<applied, graph, running, ghost>>
    BY <1>2 DEF registerPending
  <2>2. DoneInv'
    BY <1>0, <2>1, DoneUnchanged
  <2>3. Card(c) \in SafeCards
    BY <1>0, <1>2 DEF Card, SafeCards, Registers
  <2>4. pending' \in Seq(SafeCards)
    BY <1>0, <2>1, <2>3 DEF QueueInv
  <2>5. QueueInv'
    BY <1>0, <2>1, <2>4, QueueKeeps
  <2> QED BY <2>2, <2>5
<1>3. CASE Registers(c, st) /\ footer.auto
  <2>1. PICK shown : shown = Rendered(c)
    OBVIOUS
  <2>2. PICK executing \in BOOLEAN : executing = (st = "executing")
    OBVIOUS
  <2>3. Fire(<<c, panel.closed>>, shown, executing) /\ pending' = pending
    BY <1>3, <2>1, <2>2 DEF registerPending, Card
  <2>4. shown # Null => Parses(c)
    BY <2>1, RenderedParses
  <2>5. <<c, panel.closed>> \notin applied
    BY <1>0, <1>3 DEF Registers, Card
  <2> HIDE <2>1, <2>2
  <2>7. DoneInv'
    BY <1>0, <2>3, <2>4, <2>5, FireKeeps
  <2>8. QueueInv'
    BY <1>0, <2>3, QueueKeeps DEF QueueInv
  <2> QED BY <2>7, <2>8
<1> QED BY <1>1, <1>2, <1>3

(* The user's click on a card that waits for it.                           *)
LEMMA ClickApplyKeeps ==
  ASSUME CardsInv, NEW c \in Calls, ClickApply(c)
  PROVE  CardsInv'
<1>0. /\ DoneInv /\ CardInv /\ QueueInv /\ panel.closed \in Instances /\ plan \in Plans
      /\ c \in plan /\ Card(c) \notin applied
  BY DEF CardsInv, CardInv, ClickApply, Live
<1>1. PICK shown : shown = view[Card(c)]
  OBVIOUS
<1>2. shown # Null => Parses(c)
  <2>1. Card(c) = <<c, panel.closed>> /\ Card(c) \in Calls \X Instances /\ Card(c)[1] = c
    BY <1>0 DEF Card
  <2> QED BY <1>0, <1>1, <2>1 DEF CardInv
<1>3. PICK executing \in BOOLEAN : executing = TRUE
  OBVIOUS
<1>4. Fire(<<c, panel.closed>>, shown, executing) /\ <<c, panel.closed>> \notin applied
      /\ pending' = Deregistered(Card(c)) /\ plan' = plan /\ footer' = footer
  BY <1>0, <1>1, <1>3 DEF ClickApply, Card
<1> HIDE <1>1, <1>3
<1>6. DoneInv'
  BY <1>0, <1>2, <1>4, FireKeeps
<1>7. QueueInv'
  BY <1>0, <1>4, DeregisteredSafe, QueueKeeps
<1>8. CardInv'
  BY <1>0 DEF ClickApply, CardInv, Parses
<1> QED BY <1>6, <1>7, <1>8 DEF CardsInv

(* A rejection decides the card and changes nothing.                       *)
LEMMA ClickRejectKeeps ==
  ASSUME CardsInv, NEW c \in Calls, ClickReject(c)
  PROVE  CardsInv'
<1>0. /\ DoneInv /\ CardInv /\ QueueInv /\ panel.closed \in Instances
      /\ c \in plan /\ Card(c) = <<c, panel.closed>> /\ Card(c) \notin applied
      /\ c \in Calls
  BY DEF CardsInv, CardInv, ClickReject, Live, Card
<1>1. /\ applied' = applied \cup {<<c, panel.closed>>} /\ running' = running \cup {c}
      /\ pending' = Deregistered(Card(c))
      /\ UNCHANGED <<plan, status, panel, mounted, view, typed, footer, graph, deletes, ghost>>
  BY <1>0 DEF ClickReject
<1>2. ActsOnce'
  <2> SUFFICES ASSUME NEW d \in Calls
               PROVE  ghost.effects[d]
                        <= Cardinality({i \in Instances : <<d, i>> \in applied'})
    BY <1>1 DEF ActsOnce, Instances
  <2>1. ghost.effects[d] <= Cardinality({i \in Instances : <<d, i>> \in applied})
        /\ ghost.effects[d] \in Nat
    BY <1>0 DEF DoneInv, ActsOnce, Instances, GhostOK
  <2>2. CASE d = c
    <3>1. /\ Cardinality({i \in Instances : <<d, i>> \in applied'})
               = Cardinality({i \in Instances : <<d, i>> \in applied}) + 1
          /\ Cardinality({i \in Instances : <<d, i>> \in applied}) \in Nat
      BY <1>0, <1>1, <2>2, OneMoreInstance
    <3> QED BY <2>1, <3>1
  <2>3. CASE d # c
    <3>1. {i \in Instances : <<d, i>> \in applied'} = {i \in Instances : <<d, i>> \in applied}
      BY <1>1, <2>3
    <3> QED BY <2>1, <3>1
  <2> QED BY <2>2, <2>3
<1>3. DoneInv'
  BY <1>0, <1>1, <1>2 DEF DoneInv
<1>4. QueueInv'
  BY <1>0, <1>1, DeregisteredSafe, QueueKeeps
<1>5. CardInv'
  BY <1>0, <1>1 DEF CardInv, Parses
<1> QED BY <1>3, <1>4, <1>5 DEF CardsInv

(* Apply all is pressed: what waits is what it will fire.                  *)
LEMMA ApplyAllKeeps ==
  ASSUME CardsInv, ApplyAll
  PROVE  CardsInv'
<1>0. DoneInv /\ CardInv /\ QueueInv /\ pending \in Seq(SafeCards)
  BY DEF CardsInv, QueueInv
<1>1. /\ footer' = [auto |-> TRUE, busy |-> TRUE, firing |-> pending]
      /\ UNCHANGED <<plan, status, panel, mounted, view, typed, applied, pending, running,
                     graph, deletes, ghost>>
  BY DEF ApplyAll
<1>2. DoneInv'
  BY <1>0, <1>1, DoneUnchanged
<1>3. QueueInv'
  BY <1>0, <1>1 DEF QueueInv, SafeCards
<1>4. CardInv'
  BY <1>0, <1>1 DEF CardInv, Parses
<1> QED BY <1>2, <1>3, <1>4 DEF CardsInv

(* Apply all fires the next card, unless it was decided in the meantime.   *)
LEMMA FireNextKeeps ==
  ASSUME CardsInv, FireNext
  PROVE  CardsInv'
<1>0. /\ DoneInv /\ CardInv /\ QueueInv /\ plan \in Plans
      /\ footer.firing \in Seq(SafeCards) /\ footer.firing # <<>>
      /\ footer.busy
      /\ footer \in [auto : BOOLEAN, busy : BOOLEAN, firing : Seq(SafeCards)]
  BY DEF CardsInv, CardInv, QueueInv, FireNext
<1>1. /\ footer' = [footer EXCEPT !.firing = Tail(@)]
      /\ UNCHANGED <<plan, status, panel, mounted, view, typed, deletes>>
  BY DEF FireNext
<1>2. Head(footer.firing) \in SafeCards /\ Tail(footer.firing) \in Seq(SafeCards)
  BY <1>0, HeadTailProperties
<1>3. PICK c \in plan, k \in Instances : Head(footer.firing) = <<c, k>> /\ Tool[c] # "delete_rule"
  BY <1>2 DEF SafeCards
<1>4. CardInv'
  BY <1>0, <1>1 DEF CardInv, Parses
<1>5. ASSUME pending' \in Seq(SafeCards) PROVE QueueInv'
  <2>1. footer' = [auto |-> footer.auto, busy |-> footer.busy, firing |-> Tail(footer.firing)]
    BY <1>0, <1>1
  <2> QED BY <1>0, <1>1, <1>2, <1>5, <2>1 DEF QueueInv, SafeCards
<1>6. CASE <<c, k>> \in applied
  <2>1. UNCHANGED <<applied, graph, running, ghost, pending>>
    BY <1>3, <1>6 DEF FireNext
  <2>2. DoneInv'
    BY <1>0, <1>1, <2>1, DoneUnchanged
  <2>3. QueueInv'
    BY <1>0, <1>5, <2>1 DEF QueueInv
  <2> QED BY <1>4, <2>2, <2>3 DEF CardsInv
<1>7. CASE <<c, k>> \notin applied
  <2>1. PICK shown : shown = view[<<c, k>>]
    OBVIOUS
  <2>2. PICK executing \in BOOLEAN : executing = (status[c] = "executing")
    OBVIOUS
  <2>3. <<c, k>>[1] = c /\ <<c, k>> \in Calls \X Instances
    BY <1>0, CardsAssumption
  <2>4. Fire(<<c, k>>, shown, executing) /\ pending' = Deregistered(<<c, k>>)
    BY <1>3, <1>7, <2>1, <2>2, <2>3 DEF FireNext
  <2>5. shown # Null => Parses(c)
    BY <1>0, <2>1, <2>3 DEF CardInv
  <2> HIDE <2>1, <2>2
  <2>7. DoneInv'
    BY <1>0, <1>1, <1>7, <2>4, <2>5, FireKeeps
  <2>8. pending' \in Seq(SafeCards)
    BY <1>0, <2>4, DeregisteredSafe
  <2> QED BY <1>4, <1>5, <2>7, <2>8 DEF CardsInv
<1> QED BY <1>6, <1>7

(* A call becomes executable, and its card, if there is one, registers.    *)
LEMMA PromoteKeeps ==
  ASSUME CardsInv, NEW c \in Calls, Promote(c)
  PROVE  CardsInv'
<1>0. /\ DoneInv /\ CardInv /\ QueueInv /\ c \in plan
      /\ UNCHANGED <<plan, panel, mounted, typed, footer, deletes>>
      /\ status' = [status EXCEPT ![c] = "executing"]
  BY DEF CardsInv, CardInv, Promote
<1>1. /\ status' \in [Calls -> {"unsent", "inProgress", "executing", "complete"}]
      /\ \A d \in Calls : status'[d] # "unsent" => d \in plan
  BY <1>0 DEF CardInv
<1>2. ASSUME DOMAIN view' = Calls \X Instances,
             \A card \in Calls \X Instances : view'[card] # Null => Parses(card[1])
      PROVE  CardInv'
  BY <1>0, <1>1, <1>2 DEF CardInv, Parses
<1>3. CASE c \in mounted
  <2>1. view' = [view EXCEPT ![Card(c)] = Rendered(c)] /\ registerPending(c, "executing")
    BY <1>3 DEF Promote
  <2>2. CardInv'
    BY <1>0, <1>2, <2>1, ViewKeeps
  <2>3. DoneInv' /\ QueueInv'
    BY <1>0, <2>1, RegisterKeeps
  <2> QED BY <2>2, <2>3 DEF CardsInv
<1>4. CASE c \notin mounted
  <2>1. UNCHANGED <<view, applied, graph, running, ghost, pending>>
    BY <1>4 DEF Promote
  <2>2. CardInv'
    BY <1>0, <1>2, <2>1 DEF CardInv
  <2>3. DoneInv'
    BY <1>0, <2>1, DoneUnchanged
  <2>4. QueueInv'
    BY <1>0, <2>1, QueueKeeps DEF QueueInv
  <2> QED BY <2>2, <2>3, <2>4 DEF CardsInv
<1> QED BY <1>3, <1>4

(* The panel is open again and shows the card of a call.                   *)
LEMMA MountCardKeeps ==
  ASSUME CardsInv, NEW c \in Calls, MountCard(c)
  PROVE  CardsInv'
<1>0. /\ DoneInv /\ CardInv /\ QueueInv /\ c \in plan
      /\ UNCHANGED <<plan, status, panel, typed, footer, deletes>>
      /\ mounted' = mounted \cup {c}
      /\ view' = [view EXCEPT ![Card(c)] = Rendered(c)]
      /\ registerPending(c, status[c])
  BY DEF CardsInv, CardInv, MountCard
<1>1. DOMAIN view' = Calls \X Instances
      /\ \A card \in Calls \X Instances : view'[card] # Null => Parses(card[1])
  BY <1>0, ViewKeeps
<1>2. CardInv'
  BY <1>0, <1>1 DEF CardInv, Parses
<1>3. PICK st : st = status[c]
  OBVIOUS
<1>4. registerPending(c, st)
  BY <1>0, <1>3
<1> HIDE <1>3
<1>5. DoneInv' /\ QueueInv'
  BY <1>0, <1>4, RegisterKeeps
<1> QED BY <1>2, <1>5 DEF CardsInv

(* A turn's calls arrive.                                                  *)
LEMMA EmitKeeps ==
  ASSUME CardsInv, NEW t, Emit(t)
  PROVE  CardsInv'
<1> DEFINE calls == {c \in plan : Turn[c] = t /\ status[c] = "unsent"}
<1>0. /\ DoneInv /\ CardInv /\ QueueInv
      /\ UNCHANGED <<plan, panel, typed, applied, pending, footer, running, graph,
                     deletes, ghost>>
      /\ status' = [c \in Calls |-> IF c \in calls THEN "inProgress" ELSE status[c]]
      /\ mounted' \subseteq mounted \cup calls
      /\ view' = [card \in DOMAIN view |->
                    IF panel.open /\ card[1] \in calls /\ card = Card(card[1])
                    THEN Rendered(card[1]) ELSE view[card]]
  BY DEF CardsInv, Emit
<1>1. calls \subseteq plan
  OBVIOUS
<1> HIDE DEF calls
<1>2. /\ status' \in [Calls -> {"unsent", "inProgress", "executing", "complete"}]
      /\ \A d \in Calls : status'[d] # "unsent" => d \in plan
  BY <1>0, <1>1 DEF CardInv
<1>3. DOMAIN view' = Calls \X Instances
      /\ \A card \in Calls \X Instances : view'[card] # Null => Parses(card[1])
  <2>1. DOMAIN view = Calls \X Instances
    BY <1>0 DEF CardInv
  <2>2. ASSUME NEW card \in Calls \X Instances, view'[card] # Null PROVE Parses(card[1])
    <3>1. view'[card] = Rendered(card[1]) \/ view'[card] = view[card]
      BY <1>0, <2>1
    <3>2. CASE view'[card] = Rendered(card[1])
      BY <2>2, <3>2, RenderedParses
    <3>3. CASE view'[card] = view[card]
      BY <1>0, <2>2, <3>3 DEF CardInv
    <3> QED BY <3>1, <3>2, <3>3
  <2> QED BY <1>0, <2>1, <2>2
<1>4. CardInv'
  BY <1>0, <1>1, <1>2, <1>3 DEF CardInv, Parses
<1>5. DoneInv'
  BY <1>0, DoneUnchanged
<1>6. QueueInv'
  BY <1>0, QueueKeeps DEF QueueInv
<1> QED BY <1>4, <1>5, <1>6 DEF CardsInv

(* The steps that only touch cards, the panel and the footer.              *)
LEMMA OtherStepsKeep ==
  ASSUME CardsInv,
         \/ \E c \in Calls : Rerender(c) \/ Answer(c) \/ TypeName(c)
         \/ TogglePanel \/ ApplyAllEnds \/ UNCHANGED vars
  PROVE  CardsInv'
<1>0. DoneInv /\ CardInv /\ QueueInv
  BY DEF CardsInv
<1>1. ASSUME NEW c \in Calls, Rerender(c) PROVE CardsInv'
  <2>1. DOMAIN view' = Calls \X Instances
        /\ \A card \in Calls \X Instances : view'[card] # Null => Parses(card[1])
    BY <1>0, <1>1, ViewKeeps DEF Rerender
  <2>2. CardInv'
    BY <1>0, <1>1, <2>1 DEF Rerender, CardInv, Parses
  <2>3. DoneInv'
    BY <1>0, <1>1, DoneUnchanged DEF Rerender
  <2>4. QueueInv'
    BY <1>0, <1>1, QueueKeeps DEF Rerender, QueueInv
  <2> QED BY <2>2, <2>3, <2>4 DEF CardsInv
<1>2. ASSUME NEW c \in Calls, Answer(c) PROVE CardsInv'
  <2>1. /\ UNCHANGED <<plan, panel, mounted, view, typed, applied, footer, graph, deletes, ghost>>
        /\ running' = running \ {c} /\ c \in running
        /\ status' = [status EXCEPT ![c] = "complete"]
        /\ pending' = Deregistered(Card(c))
    BY <1>2 DEF Answer
  <2>2. /\ status' \in [Calls -> {"unsent", "inProgress", "executing", "complete"}]
        /\ \A d \in Calls : status'[d] # "unsent" => d \in plan
    BY <1>0, <2>1 DEF CardInv, DoneInv
  <2>3. CardInv'
    BY <1>0, <2>1, <2>2 DEF CardInv, Parses
  <2>4. DoneInv'
    BY <1>0, <2>1, DoneUnchanged
  <2>5. QueueInv'
    BY <1>0, <2>1, DeregisteredSafe, QueueKeeps
  <2> QED BY <2>3, <2>4, <2>5 DEF CardsInv
<1>3. ASSUME NEW c \in Calls, TypeName(c) PROVE CardsInv'
  <2>1. CardInv'
    BY <1>0, <1>3 DEF TypeName, Live, CardInv, Parses
  <2>2. DoneInv'
    BY <1>0, <1>3, DoneUnchanged DEF TypeName
  <2>3. QueueInv'
    BY <1>0, <1>3, QueueKeeps DEF TypeName, QueueInv
  <2> QED BY <2>1, <2>2, <2>3 DEF CardsInv
<1>4. ASSUME TogglePanel PROVE CardsInv'
  <2>1. /\ UNCHANGED <<plan, status, view, applied, footer, running, graph, deletes, ghost>>
        /\ mounted' = {} /\ typed' = {} /\ pending' = <<>>
        /\ panel.open => panel.closed + deletes < MaxAsides
        /\ panel' = IF panel.open THEN [open |-> FALSE, closed |-> panel.closed + 1]
                    ELSE [panel EXCEPT !.open = TRUE]
    BY <1>4 DEF TogglePanel
  <2>2. panel' \in [open : BOOLEAN, closed : Instances]
    <3>0. panel \in [open : BOOLEAN, closed : Instances] /\ panel.closed \in Nat
          /\ deletes \in Nat /\ MaxAsides \in Nat
      BY <1>0, CardsAssumption DEF CardInv, Instances
    <3>1. CASE panel.open
      <4>1. panel.closed + 1 \in Instances
        BY <2>1, <3>0, <3>1 DEF Instances
      <4> QED BY <2>1, <3>1, <4>1
    <3>2. CASE ~ panel.open
      BY <2>1, <3>0, <3>2
    <3> QED BY <3>1, <3>2
  <2>3. CardInv'
    BY <1>0, <2>1, <2>2 DEF CardInv, Parses
  <2>4. DoneInv'
    BY <1>0, <2>1, DoneUnchanged
  <2>5. pending' \in Seq(SafeCards)
    BY <2>1
  <2>6. QueueInv'
    BY <1>0, <2>1, <2>5, QueueKeeps
  <2> QED BY <2>3, <2>4, <2>6 DEF CardsInv
<1>5. ASSUME ApplyAllEnds PROVE CardsInv'
  <2>1. /\ UNCHANGED <<plan, status, panel, mounted, view, typed, applied, pending, running,
                       graph, deletes, ghost>>
        /\ footer.firing = <<>>
        /\ footer' = [footer EXCEPT !.auto = FALSE, !.busy = FALSE]
    BY <1>5 DEF ApplyAllEnds
  <2>2. CardInv'
    BY <1>0, <2>1 DEF CardInv, Parses
  <2>3. DoneInv'
    BY <1>0, <2>1, DoneUnchanged
  <2>4. QueueInv'
    BY <1>0, <2>1 DEF QueueInv, SafeCards
  <2> QED BY <2>2, <2>3, <2>4 DEF CardsInv
<1>6. ASSUME UNCHANGED vars PROVE CardsInv'
  <2>1. CardInv'
    BY <1>0, <1>6 DEF vars, CardInv, Parses
  <2>2. DoneInv'
    BY <1>0, <1>6, DoneUnchanged DEF vars
  <2>3. QueueInv'
    BY <1>0, <1>6, QueueKeeps DEF vars, QueueInv
  <2> QED BY <2>1, <2>2, <2>3 DEF CardsInv
<1> QED BY <1>1, <1>2, <1>3, <1>4, <1>5, <1>6

(* The user deletes a node on the canvas.                                  *)
LEMMA CanvasDeleteKeeps ==
  ASSUME CardsInv, NEW id, CanvasDelete(id)
  PROVE  CardsInv'
<1>0. /\ DoneInv /\ CardInv /\ QueueInv /\ GraphOK(graph)
      /\ graph' = remove_node(graph, id) /\ deletes' = deletes + 1
      /\ panel.closed + deletes < MaxAsides
      /\ UNCHANGED <<plan, status, panel, mounted, view, typed, applied, pending, footer,
                     running>>
      /\ ghost' = [ghost EXCEPT !.gone = @ \cup ({id} \cap Awaited)]
  BY DEF CardsInv, DoneInv, CanvasDelete
<1>1. GraphOK(graph')
  BY <1>0, RemoveNodeEffect DEF Grows
<1>2. DoneInv'
  <2>1. GhostOK(ghost') /\ ghost'.effects = ghost.effects
    BY <1>0 DEF DoneInv, GhostOK
  <2> QED BY <1>0, <1>1, <2>1 DEF DoneInv, ActsOnce
<1>3. deletes' \in Instances
  BY <1>0, CardsAssumption DEF CardInv, Instances
<1>4. CardInv'
  BY <1>0, <1>3 DEF CardInv, Parses
<1>5. QueueInv'
  BY <1>0, QueueKeeps DEF QueueInv
<1> QED BY <1>2, <1>4, <1>5 DEF CardsInv

-----------------------------------------------------------------------------
(* Every step keeps the first part of the invariant.                       *)
LEMMA CardsStep == CardsInv /\ [Next]_vars => CardsInv'
<1> SUFFICES ASSUME CardsInv, [Next]_vars PROVE CardsInv'
  OBVIOUS
<1>1. CASE User
  <2>1. ASSUME NEW c \in Calls, ClickApply(c) PROVE CardsInv'
    BY <2>1, ClickApplyKeeps
  <2>2. ASSUME NEW c \in Calls, ClickReject(c) PROVE CardsInv'
    BY <2>2, ClickRejectKeeps
  <2>3. ASSUME NEW c \in Calls, TypeName(c) PROVE CardsInv'
    BY <2>3, OtherStepsKeep
  <2>4. CASE ApplyAll
    BY <2>4, ApplyAllKeeps
  <2>5. CASE TogglePanel
    BY <2>5, OtherStepsKeep
  <2>6. ASSUME NEW id \in Ids, CanvasDelete(id) PROVE CardsInv'
    BY <2>6, CanvasDeleteKeeps
  <2> QED BY <1>1, <2>1, <2>2, <2>3, <2>4, <2>5, <2>6 DEF User
<1>2. CASE System
  <2>1. ASSUME NEW c \in Calls, Promote(c) PROVE CardsInv'
    BY <2>1, PromoteKeeps
  <2>2. ASSUME NEW c \in Calls, MountCard(c) PROVE CardsInv'
    BY <2>2, MountCardKeeps
  <2>3. ASSUME NEW c \in Calls, Answer(c) PROVE CardsInv'
    BY <2>3, OtherStepsKeep
  <2>4. CASE FireNext
    BY <2>4, FireNextKeeps
  <2>5. CASE ApplyAllEnds
    BY <2>5, OtherStepsKeep
  <2> QED BY <1>2, <2>1, <2>2, <2>3, <2>4, <2>5 DEF System
<1>3. ASSUME NEW c \in Calls, Rerender(c) PROVE CardsInv'
  BY <1>3, OtherStepsKeep
<1>4. ASSUME NEW t \in {Turn[c] : c \in plan}, Emit(t) PROVE CardsInv'
  BY <1>4, EmitKeeps
<1>5. CASE UNCHANGED vars
  BY <1>5, OtherStepsKeep
<1> QED BY <1>1, <1>2, <1>3, <1>4, <1>5 DEF Next

-----------------------------------------------------------------------------
(***************************************************************************)
(* Whose turn it is.                                                       *)
(***************************************************************************)

(* The cards of a queue that grows, shrinks and is taken from.             *)
LEMMA QueueCards ==
  ASSUME NEW S, NEW s \in Seq(S)
  PROVE  /\ CardsIn(s) \subseteq S
         /\ \A x \in S : CardsIn(Append(s, x)) = CardsIn(s) \cup {x}
         /\ \A D : CardsIn(Without(s, D)) \subseteq CardsIn(s)
         /\ s # <<>> => Head(s) \in CardsIn(s) /\ CardsIn(Tail(s)) \subseteq CardsIn(s)
<1>1. ASSUME NEW x \in S PROVE CardsIn(Append(s, x)) = CardsIn(s) \cup {x}
  BY AppendProperties DEF CardsIn
<1>2. ASSUME NEW D PROVE CardsIn(Without(s, D)) \subseteq CardsIn(s)
  <2>1. Without(s, D) \in Seq(S) /\ KeepsOf(Without(s, D), s, D, Len(s))
    BY WithoutKeeps
  <2>2. ASSUME NEW j \in 1..Len(Without(s, D)) PROVE Without(s, D)[j] \in CardsIn(s)
    <3>1. PICK i \in 1..Len(s) : Without(s, D)[j] = s[i]
      BY <2>1 DEF KeepsOf
    <3> QED BY <3>1 DEF CardsIn
  <2>3. DOMAIN Without(s, D) = 1..Len(Without(s, D))
    BY <2>1
  <2> QED BY <2>2, <2>3 DEF CardsIn
<1>3. ASSUME s # <<>> PROVE Head(s) \in CardsIn(s) /\ CardsIn(Tail(s)) \subseteq CardsIn(s)
  <2>1. /\ Head(s) = s[1] /\ 1 \in DOMAIN s /\ Tail(s) \in Seq(S) /\ Len(Tail(s)) = Len(s) - 1
        /\ DOMAIN Tail(s) = 1..(Len(s) - 1)
        /\ \A i \in 1..(Len(s) - 1) : Tail(s)[i] = s[i + 1] /\ i + 1 \in DOMAIN s
    BY <1>3
  <2> QED BY <2>1 DEF CardsIn
<1>4. CardsIn(s) \subseteq S
  BY DEF CardsIn
<1> QED BY <1>1, <1>2, <1>3, <1>4

(* The registration of a card puts only that card into the queue, and only *)
(* if its call is executable.                                              *)
LEMMA RegisterTurn ==
  ASSUME CardsInv, NEW c \in plan, NEW st, registerPending(c, st)
  PROVE  /\ CardsIn(pending') \subseteq CardsIn(pending) \cup {Card(c)}
         /\ CardsIn(pending') \subseteq CardsIn(pending) \/ st = "executing"
<1>0. pending \in Seq(SafeCards) /\ panel.closed \in Instances
  BY DEF CardsInv, QueueInv, CardInv
<1>1. CASE pending' = pending
  BY <1>1
<1>2. CASE Registers(c, st) /\ pending' = Append(pending, Card(c))
  <2>1. Card(c) \in SafeCards
    BY <1>0, <1>2 DEF Card, SafeCards, Registers
  <2> QED BY <1>0, <1>2, <2>1, QueueCards DEF Registers
<1> QED BY <1>1, <1>2 DEF registerPending, Fire

(* Every step keeps turns and queues in order.                             *)
LEMMA TurnStep == CardsInv /\ TurnInv /\ [Next]_vars => TurnInv'
<1> SUFFICES ASSUME CardsInv, TurnInv, [Next]_vars PROVE TurnInv'
  OBVIOUS
<1>0. /\ pending \in Seq(SafeCards) /\ footer.firing \in Seq(SafeCards)
      /\ \A x \in SafeCards : x[1] \in Calls
      /\ plan \subseteq Calls /\ status \in [Calls -> {"unsent", "inProgress", "executing", "complete"}]
  BY CardsAssumption DEF CardsInv, CardInv, QueueInv, SafeCards
<1>1. CardsIn(pending) \subseteq SafeCards /\ CardsIn(footer.firing) \subseteq SafeCards
      /\ \A card : CardsIn(Deregistered(card)) \subseteq CardsIn(pending)
  BY <1>0, QueueCards DEF Deregistered
<1>2. ASSUME UNCHANGED <<status, panel, mounted>>,
             CardsIn(pending') \subseteq CardsIn(pending),
             CardsIn(footer'.firing) \subseteq CardsIn(footer.firing) \cup CardsIn(pending)
      PROVE  TurnInv'
  BY <1>2 DEF TurnInv, Card, Waits
<1>3. CASE User
  <2>1. ASSUME NEW c \in Calls, ClickApply(c) \/ ClickReject(c) PROVE TurnInv'
    <3>1. UNCHANGED <<status, panel, mounted, footer>> /\ pending' = Deregistered(Card(c))
      BY <2>1 DEF ClickApply, ClickReject
    <3> QED BY <1>1, <1>2, <3>1
  <2>2. ASSUME NEW c \in Calls, TypeName(c) PROVE TurnInv'
    BY <1>2, <2>2 DEF TypeName
  <2>3. CASE ApplyAll
    <3>1. UNCHANGED <<status, panel, mounted, pending>> /\ footer'.firing = pending
      BY <2>3 DEF ApplyAll
    <3> QED BY <1>2, <3>1
  <2>4. CASE TogglePanel
    <3>1. UNCHANGED <<status, footer>> /\ pending' = <<>>
      BY <2>4 DEF TogglePanel
    <3>2. CardsIn(pending') = {}
      BY <3>1 DEF CardsIn
    <3> QED BY <3>1, <3>2 DEF TurnInv, Waits
  <2>5. ASSUME NEW id \in Ids, CanvasDelete(id) PROVE TurnInv'
    BY <1>2, <2>5 DEF CanvasDelete
  <2> QED BY <1>3, <2>1, <2>2, <2>3, <2>4, <2>5 DEF User
<1>4. CASE System
  <2>1. ASSUME NEW c \in Calls, Promote(c) PROVE TurnInv'
    <3>1. /\ status[c] = "inProgress" /\ status' = [status EXCEPT ![c] = "executing"]
          /\ \A d \in Calls : Tool[d] = Tool[c] => status[d] # "executing"
          /\ UNCHANGED <<panel, mounted, footer>>
      BY <2>1 DEF Promote
    <3>2. c \in plan
      BY <3>1 DEF CardsInv, CardInv
    <3>3. CardsIn(pending') \subseteq CardsIn(pending) \cup {Card(c)}
          /\ (c \in mounted \/ pending' = pending)
      BY <2>1, <3>2, RegisterTurn DEF Promote
    <3>4. OneEach(status')
      BY <1>0, <3>1 DEF TurnInv, OneEach
    <3>5. CardsIn(pending') \subseteq {Card(d) : d \in mounted}
      BY <3>3 DEF TurnInv
    <3>6. Card(c)[1] = c
      BY DEF Card
    <3>7. Waits(CardsIn(pending') \cup CardsIn(footer.firing), status')
      BY <1>0, <1>1, <3>1, <3>3, <3>6 DEF TurnInv, Waits
    <3> QED BY <3>1, <3>4, <3>5, <3>7 DEF TurnInv, Card
  <2>2. ASSUME NEW c \in Calls, MountCard(c) PROVE TurnInv'
    <3>1. mounted' = mounted \cup {c} /\ UNCHANGED <<status, panel, footer>> /\ c \in plan
      BY <2>2 DEF MountCard, CardsInv, CardInv
    <3>2. /\ CardsIn(pending') \subseteq CardsIn(pending) \cup {Card(c)}
          /\ CardsIn(pending') \subseteq CardsIn(pending) \/ status[c] = "executing"
      BY <2>2, <3>1, RegisterTurn DEF MountCard
    <3>3. CardsIn(pending') \subseteq {Card(d) : d \in mounted'}
      BY <3>1, <3>2 DEF TurnInv
    <3>4. Card(c)[1] = c
      BY DEF Card
    <3>5. Waits(CardsIn(pending') \cup CardsIn(footer.firing), status)
      BY <3>2, <3>4 DEF TurnInv, Waits
    <3> QED BY <3>1, <3>3, <3>5 DEF TurnInv, Card
  <2>3. ASSUME NEW c \in Calls, Answer(c) PROVE TurnInv'
    <3>1. /\ status' = [status EXCEPT ![c] = "complete"] /\ pending' = Deregistered(Card(c))
          /\ UNCHANGED <<panel, mounted, footer>>
      BY <2>3 DEF Answer
    <3>2. OneEach(status')
      BY <1>0, <3>1 DEF TurnInv, OneEach
    <3>3. Waits(CardsIn(pending') \cup CardsIn(footer.firing), status')
      BY <1>0, <1>1, <3>1 DEF TurnInv, Waits
    <3>4. CardsIn(pending') \subseteq {Card(d) : d \in mounted}
      BY <1>1, <3>1 DEF TurnInv
    <3> QED BY <3>1, <3>2, <3>3, <3>4 DEF TurnInv, Card
  <2>4. CASE FireNext
    <3>1. /\ UNCHANGED <<status, panel, mounted>> /\ footer.firing # <<>>
          /\ footer'.firing = Tail(footer.firing)
          /\ pending' = pending \/ pending' = Deregistered(Head(footer.firing))
      <4>1. footer \in [auto : BOOLEAN, busy : BOOLEAN, firing : Seq(SafeCards)]
        BY DEF CardsInv, QueueInv
      <4> QED BY <2>4, <4>1 DEF FireNext
    <3>2. CardsIn(Tail(footer.firing)) \subseteq CardsIn(footer.firing)
      BY <1>0, <3>1, QueueCards
    <3> QED BY <1>1, <1>2, <3>1, <3>2
  <2>5. CASE ApplyAllEnds
    <3>1. UNCHANGED <<status, panel, mounted, pending>> /\ footer'.firing = footer.firing
      <4>1. footer \in [auto : BOOLEAN, busy : BOOLEAN, firing : Seq(SafeCards)]
        BY DEF CardsInv, QueueInv
      <4> QED BY <2>5, <4>1 DEF ApplyAllEnds
    <3> QED BY <1>2, <3>1
  <2> QED BY <1>4, <2>1, <2>2, <2>3, <2>4, <2>5 DEF System
<1>5. ASSUME NEW c \in Calls, Rerender(c) PROVE TurnInv'
  BY <1>2, <1>5 DEF Rerender
<1>6. ASSUME NEW t \in {Turn[c] : c \in plan}, Emit(t) PROVE TurnInv'
  <2> DEFINE calls == {c \in plan : Turn[c] = t /\ status[c] = "unsent"}
  <2>1. /\ status' = [c \in Calls |-> IF c \in calls THEN "inProgress" ELSE status[c]]
        /\ mounted \subseteq mounted' /\ UNCHANGED <<panel, footer, pending>>
    BY <1>6 DEF Emit
  <2>2. OneEach(status')
    BY <1>0, <2>1 DEF TurnInv, OneEach
  <2>3. Waits(CardsIn(pending) \cup CardsIn(footer.firing), status')
    BY <1>0, <1>1, <2>1 DEF TurnInv, Waits
  <2> QED BY <2>1, <2>2, <2>3 DEF TurnInv, Card
<1>7. CASE UNCHANGED vars
  BY <1>2, <1>7 DEF vars
<1> QED BY <1>3, <1>4, <1>5, <1>6, <1>7 DEF Next

-----------------------------------------------------------------------------
(***************************************************************************)
(* What the cards show.                                                    *)
(***************************************************************************)

(* A node that is looked up and found is a node of the graph.              *)
LEMMA ResolveIsNode ==
  ASSUME GraphOK(graph), NEW x, resolveNodeId(x) # Null
  PROVE  resolveNodeId(x) \in IdsOf(graph)
<1> DEFINE I == {i \in 1..Len(graph.nodes) : graph.nodes[i].id = x}
           J == {i \in 1..Len(graph.nodes) : graph.nodes[i].name = x}
           byId == IF I # {} THEN Min(I) ELSE 0
           byName == IF J # {} THEN Min(J) ELSE 0
<1>1. resolveNodeId(x) = IF byId # 0 THEN graph.nodes[byId].id
                         ELSE IF byName # 0 THEN graph.nodes[byName].id ELSE Null
  BY DEF resolveNodeId, SelectInSeq
<1>2. ASSUME NEW K \in SUBSET (1..Len(graph.nodes)), K # {} PROVE Min(K) \in 1..Len(graph.nodes)
  <2>1. \E m \in K : \A k \in K : m <= k
    BY <1>2, NatLeast
  <2> QED BY <2>1 DEF Min
<1>3. byId # 0 => byId \in 1..Len(graph.nodes)
  BY <1>2
<1>4. byName # 0 => byName \in 1..Len(graph.nodes)
  BY <1>2
<1>5. \A i \in 1..Len(graph.nodes) : graph.nodes[i].id \in IdsOf(graph)
  <2>1. DOMAIN graph.nodes = 1..Len(graph.nodes)
    BY DEF GraphOK
  <2> QED BY <2>1 DEF IdsOf, NodesOf
<1> HIDE DEF byId, byName
<1> QED BY <1>1, <1>3, <1>4, <1>5

(* What a card shows right after it is rendered.                           *)
LEMMA RenderedOK ==
  ASSUME GraphOK(graph), NEW c \in Calls, Rendered(c) # Null
  PROVE  /\ Tool[c] = "add_edge" => {Rendered(c)[1], Rendered(c)[2]} \subseteq IdsOf(graph)
         /\ Tool[c] = "add_node" => Args[c].name \notin NamesOf(graph)
<1>1. CASE Tool[c] = "add_edge"
  <2> DEFINE s == resolveNodeId(Args[c].source)
             d == resolveNodeId(Args[c].dest)
  <2>1. Rendered(c) = IF Null \in {s, d} THEN Null ELSE <<s, d>>
    BY <1>1 DEF Rendered
  <2>2. (s # Null => s \in IdsOf(graph)) /\ (d # Null => d \in IdsOf(graph))
    BY ResolveIsNode
  <2> HIDE DEF s, d
  <2> QED BY <1>1, <2>1, <2>2
<1>2. CASE Tool[c] = "add_node"
  BY <1>2 DEF Rendered, NamedAlready, Nodes, NamesOf
<1> QED BY <1>1, <1>2

(* A step that leaves the graph alone: a card is shown as before, or shows *)
(* the graph as it is.                                                     *)
LEMMA ShownStays ==
  ASSUME GraphOK(graph), SoundInv, UNCHANGED <<graph, ghost>>,
         Undecided' \subseteq Calls \X Instances,
         \A x \in Undecided' :
           \/ /\ x \in Undecided /\ view'[x] = view[x]
              /\ status'[x[1]] = "executing" => status[x[1]] = "executing"
           \/ view'[x] = Rendered(x[1])
  PROVE  SoundInv'
<1> SUFFICES ASSUME NEW x \in Undecided'
             PROVE  EndsShown(x, view', graph, ghost) /\ NameFree(x, view', status', graph, ghost)
  BY DEF SoundInv, SoundAt
<1>1. CASE /\ x \in Undecided /\ view'[x] = view[x]
           /\ status'[x[1]] = "executing" => status[x[1]] = "executing"
  <2>1. EndsShown(x, view, graph, ghost) /\ NameFree(x, view, status, graph, ghost)
    BY <1>1 DEF SoundInv, SoundAt
  <2> QED BY <1>1, <2>1 DEF EndsShown, NameFree
<1>2. CASE view'[x] = Rendered(x[1])
  <2>1. x[1] \in Calls
    OBVIOUS
  <2>2. Rendered(x[1]) # Null =>
          /\ Tool[x[1]] = "add_edge"
               => {Rendered(x[1])[1], Rendered(x[1])[2]} \subseteq IdsOf(graph)
          /\ Tool[x[1]] = "add_node" => Args[x[1]].name \notin NamesOf(graph)
    BY <2>1, RenderedOK
  <2> QED BY <1>2, <2>2 DEF EndsShown, NameFree
<1> QED BY <1>1, <1>2

(* What is excused stays excused.                                          *)
LEMMA ExcusedGrows ==
  ASSUME NEW h, NEW k, GhostOK(h), GhostOK(k), h.given \subseteq k.given, h.late \subseteq k.late,
         \A d \in Calls : h.effects[d] <= k.effects[d]
  PROVE  ExcusedBy(h) \subseteq ExcusedBy(k)
<1>1. \A d \in Calls : h.effects[d] \in Nat /\ k.effects[d] \in Nat
  BY DEF GhostOK
<1>2. \A d \in Calls : h.effects[d] > 1 => k.effects[d] > 1
  BY <1>1
<1> QED BY <1>2 DEF ExcusedBy

(* A card fires: the edge it adds joins nodes or nodes that are gone, the  *)
(* name it adds is free or excused, and the cards that are still to be     *)
(* decided show what is there.                                             *)
LEMMA FireSound ==
  ASSUME CardsInv, SoundInv, NEW c \in plan, NEW k \in Instances,
         NEW shown, shown # Null => Parses(c), NEW executing \in BOOLEAN,
         Fire(<<c, k>>, shown, executing), OneEach(status'),
         executing => status'[c] = "executing",
         \/ shown = Rendered(c)
         \/ <<c, k>> \in Undecided /\ shown = view[<<c, k>>] /\ status' = status,
         Undecided' \subseteq Undecided, Undecided \subseteq Calls \X Instances,
         \A x \in Undecided' :
           /\ view'[x] = view[x]
           /\ status'[x[1]] = "executing" => status[x[1]] = "executing"
  PROVE  SoundInv'
<1>0. c \in Calls /\ GraphOK(graph) /\ GhostOK(ghost)
  BY CardsAssumption DEF CardsInv, CardInv, DoneInv
<1>1. graph' = Effect(c, shown) /\ ghost' = GhostAfter(c, shown, executing)
  BY DEF Fire
<1>2. CASE shown = Null
  <2>1. UNCHANGED <<graph, ghost>>
    BY <1>1, <1>2 DEF Effect, GhostAfter
  <2> QED BY <1>0, <2>1, ShownStays
<1>3. CASE shown # Null
  <2> DEFINE E == ExcusedBy(ghost)
             F == ExcusedBy(ghost')
  <2>1. /\ GhostOK(ghost') /\ ghost'.effects[c] = ghost.effects[c] + 1
        /\ \A d \in Calls : d # c => ghost'.effects[d] = ghost.effects[d]
        /\ ghost.gone \subseteq ghost'.gone /\ ghost.given \subseteq ghost'.given
        /\ ghost.late \subseteq ghost'.late
        /\ Removed(c, shown) \cap Awaited \subseteq ghost'.gone
        /\ Tool[c] = "update_node" => Args[c].name \in ghost'.given
        /\ ~ executing => c \in ghost'.late
    BY <1>0, <1>1, <1>3, GhostSteps
  <2>2. \A d \in Calls : ghost.effects[d] \in Nat /\ ghost'.effects[d] \in Nat
                         /\ ghost.effects[d] <= ghost'.effects[d]
    BY <1>0, <2>1 DEF GhostOK
  <2>3. E \subseteq F
    BY <1>0, <2>1, <2>2, ExcusedGrows
  <2>4. Tool[c] = "update_node" => Args[c].name \in F
    BY <2>1 DEF ExcusedBy
  <2>5. Tool[c] = "add_edge" => {shown[1], shown[2]} \subseteq IdsOf(graph) \cup ghost.gone
    <3>1. CASE shown = Rendered(c)
      BY <1>0, <1>3, <3>1, RenderedOK
    <3>2. CASE <<c, k>> \in Undecided /\ shown = view[<<c, k>>]
      <4>1. EndsShown(<<c, k>>, view, graph, ghost) /\ <<c, k>>[1] = c
        BY <3>2 DEF SoundInv, SoundAt
      <4> QED BY <1>3, <3>2, <4>1 DEF EndsShown
    <3> QED BY <3>1, <3>2
  <2>6. Tool[c] = "add_node" => Args[c].name \in F \/ Args[c].name \notin NamesOf(graph)
    <3> SUFFICES ASSUME Tool[c] = "add_node", executing
                 PROVE  Args[c].name \in F \/ Args[c].name \notin NamesOf(graph)
      BY <1>0, <2>1 DEF ExcusedBy
    <3>1. CASE shown = Rendered(c)
      BY <1>0, <1>3, <3>1, RenderedOK
    <3>2. CASE <<c, k>> \in Undecided /\ shown = view[<<c, k>>] /\ status' = status
      <4>1. NameFree(<<c, k>>, view, status, graph, ghost) /\ <<c, k>>[1] = c
        BY <3>2 DEF SoundInv, SoundAt
      <4>2. Args[c].name \notin NamesOf(graph) \/ Args[c].name \in E \/ ghost.effects[c] >= 1
        BY <1>3, <3>2, <4>1 DEF NameFree
      <4>3. CASE ghost.effects[c] >= 1
        <5>1. ghost'.effects[c] > 1
          BY <1>0, <2>1, <2>2, <4>3
        <5> QED BY <1>0, <5>1 DEF ExcusedBy
      <4> QED BY <2>3, <4>2, <4>3
    <3> QED BY <3>1, <3>2
  <2>7. Connected(graph, ghost'.gone) /\ Distinct(graph, F)
    BY <2>1, <2>3 DEF SoundInv, SoundAt, Connected, Distinct
  <2>8. Tool[c] = "add_edge" => {shown[1], shown[2]} \subseteq IdsOf(graph) \cup ghost'.gone
    BY <2>1, <2>5
  <2> HIDE DEF E, F
  <2>9. /\ Grows(graph, graph', Removed(c, shown), Added(c))
        /\ Connected(graph', ghost'.gone) /\ Distinct(graph', F)
    BY <1>0, <1>1, <1>3, <2>4, <2>6, <2>7, <2>8, EffectSound
  <2>10. ASSUME NEW x \in Undecided'
         PROVE  /\ EndsShown(x, view', graph', ghost')
                /\ NameFree(x, view', status', graph', ghost')
    <3>0. /\ x \in Undecided /\ x[1] \in Calls /\ view'[x] = view[x]
          /\ status'[x[1]] = "executing" => status[x[1]] = "executing"
          /\ EndsShown(x, view, graph, ghost) /\ NameFree(x, view, status, graph, ghost)
      BY DEF SoundInv, SoundAt
    <3>1. EndsShown(x, view', graph', ghost')
      <4> SUFFICES ASSUME Tool[x[1]] = "add_edge", view[x] # Null, NEW e \in {view[x][1], view[x][2]}
                   PROVE  e \in IdsOf(graph') \cup ghost'.gone
        BY <3>0 DEF EndsShown
      <4>1. e \in Awaited
        BY <3>0 DEF Awaited
      <4>2. e \in IdsOf(graph) \cup ghost.gone
        BY <3>0 DEF EndsShown
      <4> QED BY <2>1, <2>9, <4>1, <4>2 DEF Grows
    <3>2. NameFree(x, view', status', graph', ghost')
      <4> SUFFICES ASSUME Tool[x[1]] = "add_node", view[x] # Null, status'[x[1]] = "executing",
                          Args[x[1]].name \in NamesOf(graph'), Args[x[1]].name \notin F
                   PROVE  ghost'.effects[x[1]] >= 1
        BY <3>0 DEF NameFree, F
      <4>1. CASE ghost.effects[x[1]] >= 1
        BY <2>2, <3>0, <4>1
      <4>2. CASE Args[x[1]].name \notin NamesOf(graph)
        <5>1. Args[x[1]].name \in Added(c)
          BY <2>9, <4>2 DEF Grows
        <5>2. Args[x[1]].name = Args[c].name /\ Tool[c] = "add_node"
          BY <2>4, <5>1 DEF Added
        <5>3. executing
          BY <1>0, <2>1, <5>2 DEF F, ExcusedBy
        <5>4. x[1] = c
          BY <1>0, <3>0, <5>2, <5>3 DEF OneEach
        <5> QED BY <1>0, <2>1, <2>2, <5>4
      <4> QED BY <2>3, <3>0, <4>1, <4>2 DEF NameFree, E
    <3> QED BY <3>1, <3>2
  <2> QED BY <2>9, <2>10 DEF SoundInv, SoundAt, F
<1> QED BY <1>2, <1>3

(* A deletion on the canvas.                                               *)
LEMMA CanvasDeleteSound ==
  ASSUME CardsInv, SoundInv, NEW id, CanvasDelete(id), Undecided' \subseteq Undecided
  PROVE  SoundInv'
<1>0. GraphOK(graph) /\ GhostOK(ghost)
  BY DEF CardsInv, DoneInv
<1>1. /\ graph' = remove_node(graph, id) /\ UNCHANGED <<view, status>>
      /\ ghost' = [ghost EXCEPT !.gone = @ \cup ({id} \cap Awaited)]
  BY DEF CanvasDelete
<1>2. /\ ghost'.gone = ghost.gone \cup ({id} \cap Awaited)
      /\ ghost'.effects = ghost.effects /\ ghost'.given = ghost.given /\ ghost'.late = ghost.late
  BY <1>0, <1>1 DEF GhostOK
<1>3. ExcusedBy(ghost') = ExcusedBy(ghost)
  BY <1>2 DEF ExcusedBy
<1>4. Connected(graph, ghost'.gone) /\ Distinct(graph, ExcusedBy(ghost))
  BY <1>2 DEF SoundInv, SoundAt, Connected
<1>5. /\ Grows(graph, graph', {id}, {})
      /\ Connected(graph', ghost'.gone) /\ Distinct(graph', ExcusedBy(ghost))
  BY <1>0, <1>1, <1>4, RemoveNodeEffect
<1>6. ASSUME NEW x \in Undecided'
      PROVE  EndsShown(x, view, graph', ghost') /\ NameFree(x, view, status, graph', ghost')
  <2>1. x \in Undecided /\ EndsShown(x, view, graph, ghost)
        /\ NameFree(x, view, status, graph, ghost)
    BY DEF SoundInv, SoundAt
  <2>2. Tool[x[1]] = "add_edge" /\ view[x] # Null => {view[x][1], view[x][2]} \subseteq Awaited
    BY <2>1 DEF Awaited
  <2>3. EndsShown(x, view, graph', ghost')
    BY <1>2, <1>5, <2>1, <2>2 DEF EndsShown, Grows
  <2>4. NameFree(x, view, status, graph', ghost')
    BY <1>2, <1>3, <1>5, <2>1 DEF NameFree, Grows
  <2> QED BY <2>3, <2>4
<1> QED BY <1>1, <1>3, <1>5, <1>6 DEF SoundInv, SoundAt

(* The registration of a card that has just been rendered.                 *)
LEMMA RegisterSound ==
  ASSUME CardsInv, SoundInv, NEW c \in plan, NEW st, registerPending(c, st),
         OneEach(status'), st = status'[c], UNCHANGED <<panel, footer>>,
         mounted \subseteq mounted', mounted' \subseteq mounted \cup {c},
         Card(c) \notin CardsIn(footer.firing) \/ status' = status,
         view' = [view EXCEPT ![Card(c)] = Rendered(c)],
         Undecided' \subseteq Calls \X Instances, Undecided \subseteq Calls \X Instances,
         \A d \in Calls : d # c => status'[d] = status[d],
         \A x \in Undecided : x[1] = c => x = Card(c) \/ status' = status
  PROVE  SoundInv'
<1>0. /\ GraphOK(graph) /\ panel.closed \in Instances /\ c \in Calls
      /\ DOMAIN view = Calls \X Instances /\ Card(c) = <<c, panel.closed>>
  BY CardsAssumption DEF CardsInv, CardInv, DoneInv, Card
<1>1. /\ Undecided = ({Card(d) : d \in mounted} \cup CardsIn(footer.firing)) \ applied
      /\ Undecided' = ({Card(d) : d \in mounted'} \cup CardsIn(footer.firing)) \ applied'
  BY DEF Undecided, CardsIn, Card
<1>2. ASSUME NEW x \in Undecided'
      PROVE  \/ x = Card(c) /\ view'[x] = Rendered(c) /\ x[1] = c
             \/ /\ x # Card(c) /\ view'[x] = view[x]
  <2>1. CASE x = Card(c)
    BY <1>0, <2>1
  <2>2. CASE x # Card(c)
    BY <1>0, <2>2
  <2> QED BY <2>1, <2>2
<1>3. ASSUME NEW x \in Undecided', x # Card(c), applied \subseteq applied'
      PROVE  x \in Undecided /\ (status'[x[1]] = "executing" => status[x[1]] = "executing")
  <2>1. x \in Undecided
    BY <1>1, <1>3
  <2>2. x[1] \in Calls
    BY <2>1
  <2> QED BY <1>3, <2>1, <2>2
<1>4. CASE UNCHANGED <<applied, graph, ghost>>
  BY <1>0, <1>2, <1>3, <1>4, ShownStays
<1>5. CASE Registers(c, st) /\ footer.auto
  <2>1. PICK shown : shown = Rendered(c)
    OBVIOUS
  <2>2. PICK executing \in BOOLEAN : executing = (st = "executing")
    OBVIOUS
  <2>3. Fire(<<c, panel.closed>>, shown, executing)
    BY <1>5, <2>1, <2>2 DEF registerPending, Card
  <2>4. shown # Null => Parses(c)
    BY <2>1, RenderedParses
  <2>5. applied' = applied \cup {Card(c)}
    BY <1>0, <2>3 DEF Fire
  <2>6. ASSUME NEW x \in Undecided'
        PROVE  /\ x \in Undecided /\ view'[x] = view[x]
               /\ status'[x[1]] = "executing" => status[x[1]] = "executing"
    <3>1. x # Card(c)
      BY <1>1, <2>5
    <3> QED BY <1>2, <1>3, <2>5, <3>1
  <2>7. executing => status'[c] = "executing"
    BY <2>2
  <2>8. shown = Rendered(c) \/ (<<c, panel.closed>> \in Undecided /\ shown = view[<<c, panel.closed>>] /\ status' = status)
    BY <2>1
  <2> HIDE <2>1, <2>2
  <2> QED BY <1>0, <2>3, <2>4, <2>6, <2>7, <2>8, FireSound
<1> QED BY <1>4, <1>5 DEF registerPending

(* Every step leaves the graph sound.                                      *)
LEMMA SoundStep == WholeInv /\ [Next]_vars => SoundInv'
<1> SUFFICES ASSUME WholeInv, [Next]_vars PROVE SoundInv'
  OBVIOUS
<1>0. CardsInv /\ TurnInv /\ SoundInv /\ CardsInv' /\ TurnInv' /\ GraphOK(graph)
  BY CardsStep, TurnStep DEF WholeInv, CardsInv, DoneInv
<1>1. /\ plan \in Plans /\ plan \subseteq Calls /\ mounted \subseteq plan
      /\ panel.closed \in Instances
      /\ footer \in [auto : BOOLEAN, busy : BOOLEAN, firing : Seq(SafeCards)]
      /\ pending \in Seq(SafeCards)
      /\ status \in [Calls -> {"unsent", "inProgress", "executing", "complete"}]
      /\ \A c \in Calls : status[c] # "unsent" => c \in plan
      /\ DOMAIN view = Calls \X Instances
  BY <1>0, CardsAssumption DEF CardsInv, CardInv, QueueInv
<1>2. CardsIn(footer.firing) \subseteq SafeCards /\ SafeCards \subseteq Calls \X Instances
  BY <1>1, QueueCards DEF SafeCards
<1>3. Undecided = ({Card(c) : c \in mounted} \cup CardsIn(footer.firing)) \ applied
  BY DEF Undecided, CardsIn
<1>4. Undecided' = ({<<c, panel'.closed>> : c \in mounted'} \cup CardsIn(footer'.firing)) \ applied'
  BY DEF Undecided, CardsIn, Card
<1>5. Undecided \subseteq Calls \X Instances
  BY <1>1, <1>2, <1>3 DEF Card
<1>6. Undecided' \subseteq Calls \X Instances
  <2>1. /\ plan' \in Plans /\ mounted' \subseteq plan' /\ panel'.closed \in Instances
        /\ footer' \in [auto : BOOLEAN, busy : BOOLEAN, firing : Seq(SafeCards')]
    BY <1>0 DEF CardsInv, CardInv, QueueInv
  <2>2. SafeCards' \subseteq Calls \X Instances
    BY <2>1, CardsAssumption DEF SafeCards
  <2>3. CardsIn(footer'.firing) \subseteq SafeCards'
    <3>1. footer'.firing \in Seq(SafeCards')
      BY <2>1
    <3> QED BY <3>1, QueueCards
  <2> QED BY <1>4, <2>1, <2>2, <2>3, CardsAssumption
<1>7. ASSUME UNCHANGED <<graph, ghost, view>>, Undecided' \subseteq Undecided,
             \A c \in Calls : status'[c] = "executing" => status[c] = "executing"
      PROVE  SoundInv'
  <2>1. \A x \in Undecided' : x[1] \in Calls
    BY <1>6
  <2> QED BY <1>0, <1>6, <1>7, <2>1, ShownStays
<1>8. ASSUME UNCHANGED <<panel, mounted, footer>>, applied \subseteq applied'
      PROVE  Undecided' \subseteq Undecided
  BY <1>3, <1>4, <1>8 DEF Card
<1>9. CASE User
  <2>1. ASSUME NEW c \in Calls, ClickApply(c) PROVE SoundInv'
    <3>1. PICK shown : shown = view[Card(c)]
      OBVIOUS
    <3>2. PICK executing \in BOOLEAN : executing = TRUE
      OBVIOUS
    <3>3. /\ Fire(<<c, panel.closed>>, shown, executing) /\ Live(c)
          /\ UNCHANGED <<plan, status, panel, mounted, view, footer>>
      BY <2>1, <3>1, <3>2 DEF ClickApply, Card
    <3>4. /\ c \in plan /\ Card(c) \in Undecided /\ status[c] = "executing"
          /\ Card(c) = <<c, panel.closed>>
      BY <1>1, <1>3, <3>3 DEF Live, Card
    <3>5. shown # Null => Parses(c)
      BY <1>0, <1>1, <3>1, <3>4 DEF CardsInv, CardInv
    <3>6. applied \subseteq applied'
      BY <3>3 DEF Fire
    <3>7. Undecided' \subseteq Undecided
      BY <1>8, <3>3, <3>6
    <3>8. <<c, panel.closed>> \in Undecided /\ shown = view[<<c, panel.closed>>]
      BY <3>1, <3>4
    <3>9. OneEach(status')
      BY <1>0 DEF TurnInv
    <3> HIDE <3>1, <3>2
    <3> QED BY <1>0, <1>1, <1>5, <3>3, <3>4, <3>5, <3>7, <3>8, <3>9, FireSound
  <2>2. ASSUME NEW c \in Calls, ClickReject(c) PROVE SoundInv'
    BY <1>7, <1>8, <2>2 DEF ClickReject
  <2>3. ASSUME NEW c \in Calls, TypeName(c) PROVE SoundInv'
    BY <1>7, <1>8, <2>3 DEF TypeName
  <2>4. CASE ApplyAll
    <3>1. footer'.firing = pending /\ UNCHANGED <<graph, ghost, view, status, panel, mounted, applied>>
      BY <2>4 DEF ApplyAll
    <3>2. Undecided' \subseteq Undecided
      BY <1>0, <1>3, <1>4, <3>1 DEF TurnInv, Card
    <3> QED BY <1>7, <3>1, <3>2
  <2>5. CASE TogglePanel
    <3>1. mounted' = {} /\ UNCHANGED <<graph, ghost, view, status, footer, applied>>
      BY <2>5 DEF TogglePanel
    <3>2. Undecided' \subseteq Undecided
      BY <1>3, <1>4, <3>1
    <3> QED BY <1>7, <3>1, <3>2
  <2>6. ASSUME NEW id \in Ids, CanvasDelete(id) PROVE SoundInv'
    <3>1. UNCHANGED <<panel, mounted, footer, applied>>
      BY <2>6 DEF CanvasDelete
    <3> QED BY <1>0, <1>8, <2>6, <3>1, CanvasDeleteSound
  <2> QED BY <1>9, <2>1, <2>2, <2>3, <2>4, <2>5, <2>6 DEF User
<1>10. CASE System
  <2>1. ASSUME NEW c \in Calls, Promote(c) PROVE SoundInv'
    <3>1. /\ status[c] = "inProgress" /\ status' = [status EXCEPT ![c] = "executing"]
          /\ UNCHANGED <<plan, panel, mounted, footer>>
      BY <2>1 DEF Promote
    <3>2. c \in plan /\ status'[c] = "executing"
          /\ \A d \in Calls : d # c => status'[d] = status[d]
      BY <1>1, <3>1
    <3>3. \A x \in CardsIn(footer.firing) : x[1] # c
      BY <1>0, <3>1 DEF TurnInv, Waits
    <3>4. ASSUME NEW x \in Undecided, x[1] = c PROVE x = Card(c) /\ c \in mounted
      <4>1. PICK d \in mounted : x = Card(d)
        BY <1>3, <3>3, <3>4
      <4> QED BY <3>4, <4>1 DEF Card
    <3>5. CASE c \in mounted
      <4>1. view' = [view EXCEPT ![Card(c)] = Rendered(c)] /\ registerPending(c, "executing")
        BY <2>1, <3>5 DEF Promote
      <4>2. Card(c) \notin CardsIn(footer.firing)
        BY <3>3 DEF Card
      <4>3. OneEach(status')
        BY <1>0 DEF TurnInv
      <4>4. PICK st : st = "executing"
        OBVIOUS
      <4>5. registerPending(c, st) /\ st = status'[c]
        BY <3>2, <4>1, <4>4
      <4> HIDE <4>4
      <4> QED BY <1>0, <1>5, <1>6, <3>1, <3>2, <3>4, <4>1, <4>2, <4>3, <4>5, RegisterSound
    <3>6. CASE c \notin mounted
      <4>1. UNCHANGED <<view, applied, graph, ghost>>
        BY <2>1, <3>6 DEF Promote
      <4>2. Undecided' \subseteq Undecided
        BY <1>8, <3>1, <4>1
      <4>3. ASSUME NEW x \in Undecided'
            PROVE  status'[x[1]] = "executing" => status[x[1]] = "executing"
        <5>1. x \in Undecided /\ x[1] \in Calls
          BY <1>6, <4>2
        <5> QED BY <3>2, <3>4, <3>6, <5>1
      <4> QED BY <1>0, <1>6, <4>1, <4>2, <4>3, ShownStays
    <3> QED BY <3>5, <3>6
  <2>2. ASSUME NEW c \in Calls, MountCard(c) PROVE SoundInv'
    <3>1. /\ mounted' = mounted \cup {c} /\ UNCHANGED <<plan, status, panel, footer>>
          /\ view' = [view EXCEPT ![Card(c)] = Rendered(c)]
          /\ registerPending(c, status[c]) /\ c \in plan
      BY <1>1, <2>2 DEF MountCard
    <3>2. OneEach(status')
      BY <1>0 DEF TurnInv
    <3>3. PICK st : st = status[c]
      OBVIOUS
    <3>4. registerPending(c, st) /\ st = status'[c]
      BY <3>1, <3>3
    <3>5. mounted \subseteq mounted' /\ mounted' \subseteq mounted \cup {c}
      BY <3>1
    <3> HIDE <3>3
    <3> QED BY <1>0, <1>5, <1>6, <3>1, <3>2, <3>4, <3>5, RegisterSound
  <2>3. ASSUME NEW c \in Calls, Answer(c) PROVE SoundInv'
    <3>1. /\ status' = [status EXCEPT ![c] = "complete"]
          /\ UNCHANGED <<panel, mounted, footer, applied, graph, ghost, view>>
      BY <2>3 DEF Answer
    <3>2. \A d \in Calls : status'[d] = "executing" => status[d] = "executing"
      BY <1>1, <3>1
    <3> QED BY <1>7, <1>8, <3>1, <3>2
  <2>4. CASE FireNext
    <3>1. /\ footer.firing # <<>> /\ footer'.firing = Tail(footer.firing)
          /\ UNCHANGED <<plan, status, panel, mounted, view>>
      BY <1>1, <2>4 DEF FireNext
    <3>2. Head(footer.firing) \in CardsIn(footer.firing)
          /\ CardsIn(footer'.firing) \subseteq CardsIn(footer.firing)
      BY <1>1, <3>1, QueueCards
    <3>3. PICK c \in plan, k \in Instances : Head(footer.firing) = <<c, k>>
      BY <1>2, <3>2 DEF SafeCards
    <3>4. ASSUME applied \subseteq applied' PROVE Undecided' \subseteq Undecided
      BY <1>3, <1>4, <3>1, <3>2, <3>4 DEF Card
    <3>5. CASE <<c, k>> \in applied
      <4>1. UNCHANGED <<applied, graph, ghost>>
        BY <2>4, <3>3, <3>5 DEF FireNext
      <4> QED BY <1>7, <3>1, <3>4, <4>1
    <3>6. CASE <<c, k>> \notin applied
      <4>1. PICK shown : shown = view[<<c, k>>]
        OBVIOUS
      <4>2. PICK executing \in BOOLEAN : executing = (status[c] = "executing")
        OBVIOUS
      <4>3. <<c, k>>[1] = c /\ <<c, k>> \in Calls \X Instances
        BY <1>1
      <4>4. Fire(<<c, k>>, shown, executing)
        BY <2>4, <3>3, <3>6, <4>1, <4>2, <4>3 DEF FireNext
      <4>5. shown # Null => Parses(c)
        BY <1>0, <4>1, <4>3 DEF CardsInv, CardInv
      <4>6. <<c, k>> \in Undecided /\ shown = view[<<c, k>>] /\ status' = status
        BY <1>3, <3>1, <3>2, <3>3, <3>6, <4>1
      <4>7. executing => status'[c] = "executing"
        BY <3>1, <4>2
      <4>8. applied \subseteq applied'
        BY <4>4 DEF Fire
      <4>9. Undecided' \subseteq Undecided /\ OneEach(status')
        BY <1>0, <3>4, <4>8 DEF TurnInv
      <4> HIDE <4>1, <4>2
      <4> QED BY <1>0, <1>5, <3>1, <4>4, <4>5, <4>6, <4>7, <4>9, FireSound
    <3> QED BY <3>5, <3>6
  <2>5. CASE ApplyAllEnds
    <3>1. /\ footer'.firing = footer.firing
          /\ UNCHANGED <<graph, ghost, view, status, panel, mounted, applied>>
      BY <1>1, <2>5 DEF ApplyAllEnds
    <3>2. Undecided' \subseteq Undecided
      BY <1>3, <1>4, <3>1 DEF Card
    <3> QED BY <1>7, <3>1, <3>2
  <2> QED BY <1>10, <2>1, <2>2, <2>3, <2>4, <2>5 DEF System
<1>11. ASSUME NEW c \in Calls, Rerender(c) PROVE SoundInv'
  <2>1. /\ view' = [view EXCEPT ![Card(c)] = Rendered(c)] /\ Card(c) = <<c, panel.closed>>
        /\ UNCHANGED <<graph, ghost, status, panel, mounted, footer, applied>>
    BY <1>11 DEF Rerender, Card
  <2>2. Undecided' \subseteq Undecided
    BY <1>8, <2>1
  <2>3. ASSUME NEW x \in Undecided' PROVE view'[x] = view[x] \/ view'[x] = Rendered(x[1])
    <3>1. x \in Calls \X Instances
      BY <1>6
    <3> QED BY <1>1, <2>1, <3>1
  <2> QED BY <1>0, <1>6, <2>1, <2>2, <2>3, ShownStays
<1>12. ASSUME NEW t \in {Turn[c] : c \in plan}, Emit(t) PROVE SoundInv'
  <2> DEFINE calls == {c \in plan : Turn[c] = t /\ status[c] = "unsent"}
  <2>1. /\ status' = [c \in Calls |-> IF c \in calls THEN "inProgress" ELSE status[c]]
        /\ mounted' = IF panel.open THEN mounted \cup calls ELSE mounted
        /\ view' = [card \in DOMAIN view |->
                      IF panel.open /\ card[1] \in calls /\ card = Card(card[1])
                      THEN Rendered(card[1]) ELSE view[card]]
        /\ UNCHANGED <<panel, footer, applied, graph, ghost>>
    BY <1>12 DEF Emit
  <2> HIDE DEF calls
  <2>2. \A c \in Calls : status'[c] = "executing" => status[c] = "executing"
    BY <2>1
  <2>3. ASSUME NEW x \in Undecided'
        PROVE  (x \in Undecided /\ view'[x] = view[x]) \/ view'[x] = Rendered(x[1])
    <3>1. x \in Calls \X Instances /\ x \in DOMAIN view
      BY <1>1, <1>6
    <3>2. CASE x \in Undecided
      BY <2>1, <3>1, <3>2
    <3>3. CASE x \notin Undecided
      <4>1. PICK c \in mounted' : x = Card(c)
        BY <1>3, <1>4, <2>1, <3>3 DEF Card
      <4>2. panel.open /\ c \in calls /\ x[1] = c
        BY <1>3, <1>4, <2>1, <3>3, <4>1 DEF Card
      <4> QED BY <2>1, <3>1, <4>1, <4>2
    <3> QED BY <3>2, <3>3
  <2>4. \A x \in Undecided' : x[1] \in Calls
    BY <1>6
  <2> QED BY <1>0, <1>6, <2>1, <2>2, <2>3, <2>4, ShownStays
<1>13. CASE UNCHANGED vars
  BY <1>7, <1>8, <1>13 DEF vars
<1> QED BY <1>9, <1>10, <1>11, <1>12, <1>13 DEF Next

(* At the start there are no edges, and no two nodes of one name.          *)
LEMMA WholeStart == Init => WholeInv
<1> SUFFICES ASSUME Init PROVE WholeInv
  OBVIOUS
<1>1. Undecided = {} /\ CardsIn(pending) = {} /\ CardsIn(footer.firing) = {}
  BY DEF Init, Undecided, CardsIn
<1>2. SoundInv
  BY <1>1, CardsAssumption DEF Init, SoundInv, SoundAt, Connected, Distinct
<1>3. TurnInv
  BY <1>1 DEF Init, TurnInv, OneEach, Waits
<1> QED BY <1>2, <1>3, CardsStart DEF WholeInv

(* The whole invariant holds throughout.                                   *)
LEMMA WholeInvariant == Spec => []WholeInv
<1>1. WholeInv /\ [Next]_vars => WholeInv'
  BY CardsStep, TurnStep, SoundStep DEF WholeInv
<1> QED BY <1>1, WholeStart, PTL DEF Spec

(* A step that fires the card of one call lets no other call act.          *)
LEMMA FireActs ==
  ASSUME CardsInv, NEW d \in Calls, NEW k, NEW shown, NEW executing \in BOOLEAN,
         Fire(<<d, k>>, shown, executing),
         NEW c \in Calls, ghost'.effects[c] > ghost.effects[c]
  PROVE  c = d /\ shown # Null
<1>1. GhostOK(ghost) /\ ghost' = GhostAfter(d, shown, executing)
  BY DEF CardsInv, DoneInv, Fire
<1>2. /\ \A e \in Calls : e # d => ghost'.effects[e] = ghost.effects[e]
      /\ shown = Null => ghost' = ghost
  BY <1>1, GhostSteps
<1>3. ghost.effects[c] \in Nat
  BY <1>1 DEF GhostOK
<1> QED BY <1>2, <1>3

(* The registration of a card lets a call act only under Apply all.        *)
LEMMA RegisterActs ==
  ASSUME CardsInv, NEW d \in plan, NEW st, registerPending(d, st),
         NEW c \in Calls, ghost'.effects[c] > ghost.effects[c]
  PROVE  footer.auto /\ Tool[c] # "delete_rule"
<1>1. GhostOK(ghost) /\ d \in Calls /\ ghost.effects[c] \in Nat
  BY CardsAssumption DEF CardsInv, DoneInv, CardInv, GhostOK
<1>2. Registers(d, st) /\ footer.auto
  BY <1>1 DEF registerPending
<1>3. PICK shown : shown = Rendered(d)
  OBVIOUS
<1>4. PICK executing \in BOOLEAN : executing = (st = "executing")
  OBVIOUS
<1>5. Fire(<<d, panel.closed>>, shown, executing)
  BY <1>2, <1>3, <1>4 DEF registerPending, Card
<1> HIDE <1>3, <1>4
<1>6. c = d
  BY <1>1, <1>5, FireActs
<1> QED BY <1>2, <1>6 DEF Registers

(* The steps in which a call acts.                                         *)
LEMMA ActsWhen ==
  ASSUME CardsInv, [Next]_vars, NEW c \in Calls, ghost'.effects[c] > ghost.effects[c]
  PROVE  \/ ClickApply(c) /\ (Tool[c] = "delete_rule" => c \in typed)
         \/ footer.auto /\ Tool[c] # "delete_rule"
<1>0. GhostOK(ghost) /\ ghost.effects[c] \in Nat /\ plan \subseteq Calls
  BY CardsAssumption DEF CardsInv, DoneInv, CardInv, GhostOK
<1>1. ghost'.effects # ghost.effects
  BY <1>0
<1>2. ASSUME NEW d \in Calls, ClickApply(d)
      PROVE  ClickApply(c) /\ (Tool[c] = "delete_rule" => c \in typed)
  <2>1. PICK shown : shown = view[Card(d)]
    OBVIOUS
  <2>2. PICK executing \in BOOLEAN : executing = TRUE
    OBVIOUS
  <2>3. Fire(<<d, panel.closed>>, shown, executing)
    BY <1>2, <2>1, <2>2 DEF ClickApply, Card
  <2>4. Card(d) \in Calls \X Instances /\ Card(d)[1] = d
    BY DEF Card, CardsInv, CardInv
  <2>5. shown # Null => Parses(d)
    BY <2>1, <2>4 DEF CardsInv, CardInv
  <2> HIDE <2>1, <2>2
  <2>6. c = d /\ shown # Null
    BY <2>3, FireActs
  <2> QED BY <1>2, <2>5, <2>6 DEF ClickApply
<1>3. ASSUME NEW d \in Calls, Promote(d) PROVE footer.auto /\ Tool[c] # "delete_rule"
  <2>1. d \in plan /\ (registerPending(d, "executing") \/ ghost' = ghost)
    BY <1>3 DEF Promote, CardsInv, CardInv
  <2> QED BY <1>1, <2>1, RegisterActs
<1>4. ASSUME NEW d \in Calls, MountCard(d) PROVE footer.auto /\ Tool[c] # "delete_rule"
  <2>1. d \in plan /\ registerPending(d, status[d])
    BY <1>4 DEF MountCard, CardsInv, CardInv
  <2> QED BY <2>1, RegisterActs
<1>5. ASSUME FireNext PROVE footer.auto /\ Tool[c] # "delete_rule"
  <2>0. footer.firing \in Seq(SafeCards) /\ footer.firing # <<>> /\ footer.auto
    BY <1>5 DEF FireNext, CardsInv, QueueInv
  <2>1. Head(footer.firing) \in SafeCards
    BY <2>0, HeadTailProperties
  <2>2. PICK d \in plan, k \in Instances : Head(footer.firing) = <<d, k>> /\ Tool[d] # "delete_rule"
    BY <2>1 DEF SafeCards
  <2>3. PICK shown : shown = view[<<d, k>>]
    OBVIOUS
  <2>4. PICK executing \in BOOLEAN : executing = (status[d] = "executing")
    OBVIOUS
  <2>5. Fire(<<d, k>>, shown, executing) /\ d \in Calls
    BY <1>0, <1>1, <1>5, <2>2, <2>3, <2>4 DEF FireNext
  <2> HIDE <2>3, <2>4
  <2>6. c = d
    BY <2>5, FireActs
  <2> QED BY <2>0, <2>2, <2>6
<1>6. ASSUME NEW id, CanvasDelete(id) PROVE FALSE
  <2>1. ghost'.effects = ghost.effects
    BY <1>0, <1>6 DEF CanvasDelete, GhostOK
  <2> QED BY <1>1, <2>1
<1>7. ASSUME \/ \E d \in Calls : ClickReject(d) \/ TypeName(d) \/ Answer(d) \/ Rerender(d)
             \/ ApplyAll \/ TogglePanel \/ ApplyAllEnds \/ (\E t : Emit(t)) \/ UNCHANGED vars
      PROVE  FALSE
  <2>1. ghost' = ghost
    BY <1>7 DEF ClickReject, TypeName, Answer, Rerender, ApplyAll, TogglePanel, ApplyAllEnds,
                Emit, vars
  <2> QED BY <1>1, <2>1
<1> QED BY <1>2, <1>3, <1>4, <1>5, <1>6, <1>7 DEF Next, User, System

-----------------------------------------------------------------------------
(* The graph the copilot works on stays sound: applying, rejecting, Apply  *)
(* all and deletions on the canvas, in any order, leave edges that join    *)
(* nodes and names that tell nodes apart.  The exceptions are a node that  *)
(* was removed while an undecided card showed it as an end, a name that a  *)
(* patch gave, and an add_node that acted twice or after its answer.       *)
THEOREM CopilotGraphSound == Spec => []GraphSound
BY WholeInvariant, WholeInvImplies, PTL

(* appliedRef lets every instance of a card act at most once, whoever      *)
(* fires it and how often.                                                 *)
THEOREM CardsActOnce == Spec => []ActsOnce
BY WholeInvariant, WholeInvImplies, PTL

(* No call acts by itself: the user clicks on its own card, having typed   *)
(* the file name if it deletes a rule, or Apply all is on, and it never    *)
(* acts for a delete_rule.                                                 *)
THEOREM CopilotNeverActsAlone == Spec => NothingActsAlone
<1> DEFINE A == \A c \in Calls : ghost'.effects[c] > ghost.effects[c] =>
                  \/ ClickApply(c) /\ (Tool[c] = "delete_rule" => c \in typed)
                  \/ footer.auto /\ Tool[c] # "delete_rule"
<1>1. WholeInv /\ [Next]_vars => [A]_vars
  BY ActsWhen DEF WholeInv
<1> QED BY <1>1, WholeInvariant, PTL DEF Spec, NothingActsAlone
=============================================================================

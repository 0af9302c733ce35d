-------------------------- MODULE MCWorkflowCanvas --------------------------
(***************************************************************************)
(* The sample as it is served, with its two nodes without a schema.  Of    *)
(* the files one is the sample saved with a schema, one has a table        *)
(* without content and a node without a type, and three fail: no JSON, no  *)
(* object, no graph.                                                       *)
(***************************************************************************)
EXTENDS WorkflowCanvas, TLC

Node(kind) == [type |-> kind, name |-> "default"]
With(kind, content_) == [type |-> kind, name |-> "default", content |-> content_]
Edge(s, t) == [sourceId |-> s, targetId |-> t]
Limits == With("decisionTableNode",
               Table("first", {"in_1"}, {"out_1"},
                     "r1" :> {"in_1", "out_1"} @@ "r2" :> {"in_1"}))
Flow(request) ==
  Graph("request" :> request @@ "limits" :> Limits @@ "response" :> Node("outputNode"),
        {Edge("request", "limits"), Edge("limits", "response")})

MCSample == Flow(Node("inputNode"))
MCOnDisk ==
  "saved" :> Flow(With("inputNode", Schema("s1")))
  @@ "plain" :> Graph("request" :> Node("decisionTableNode")
                        @@ "other" :> [name |-> "default"],
                      {Edge("request", "other")})
  @@ "garbage" :> Garbage @@ "scalar" :> [is |-> "scalar"] @@ "object" :> [is |-> "object"]
=============================================================================

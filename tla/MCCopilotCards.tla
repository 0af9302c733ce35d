--------------------------- MODULE MCCopilotCards ---------------------------
(***************************************************************************)
(* A graph with one node and sessions of two or three calls: two nodes of  *)
(* one name and an edge in one turn; an edge beside the removal of its     *)
(* end; a save, the removal of an edge and a deletion in one turn; an edge *)
(* and its removal in the next turn; a node, a patch that renames and one  *)
(* that does not; a node and a call that does not parse.                   *)
(***************************************************************************)
EXTENDS CopilotCards

CONSTANTS n1, n2, e1, r1, s1, d1, u1, u2, x1, bad

MCCalls == {n1, n2, e1, r1, s1, d1, u1, u2, x1, bad}
MCTool == [c \in MCCalls |->
             CASE c \in {n1, n2, bad} -> "add_node" [] c = e1 -> "add_edge"
               [] c = r1 -> "remove_node" [] c = s1 -> "save_rule"
               [] c = d1 -> "delete_rule" [] c \in {u1, u2} -> "update_node"
               [] c = x1 -> "remove_edge"]
First == <<"first", 0>>
MCFirstNodes == <<[id |-> First, name |-> "in"]>>
MCArgs == [c \in MCCalls |->
             [name   |-> CASE c = u1 -> "b" [] c = u2 -> Null [] OTHER -> "out",
              target |-> IF c = x1 THEN <<e1, 0>> ELSE "in",
              source |-> "in", dest |-> "out"]]
MCTurn == [c \in MCCalls |-> IF c \in {s1, d1, x1} THEN 2 ELSE 1]
MCPlans == {{n1, n2, e1}, {n2, e1, r1}, {s1, x1, d1}, {n2, e1, x1},
            {n2, u1, u2}, {n2, bad}}
=============================================================================

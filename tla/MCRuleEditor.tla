---------------------------- MODULE MCRuleEditor ----------------------------
(***************************************************************************)
(* Two file names, both on disk at the start; the second version of a      *)
(* graph has a cycle.                                                      *)
(***************************************************************************)
EXTENDS RuleEditor

CONSTANTS a, b
MCRules == {a, b}
MCOnDisk == {{a, b}}
=============================================================================

---------------------------- MODULE MCOnboarding ----------------------------
(***************************************************************************)
(* One ledger account, an HTTP request and a job running at the same time. *)
(***************************************************************************)
EXTENDS Onboarding

CONSTANTS la1, caller1, worker1

MCControls ==
  {[is_blocked |-> FALSE, max |-> 5], [is_blocked |-> TRUE, max |-> 0]}
MCOpen == {[is_blocked |-> FALSE, max |-> 5]}
=============================================================================

------------------------ MODULE MCApplicationWizard ------------------------
(***************************************************************************)
(* Two tabs.  localStorage is empty, or holds an application whose nine    *)
(* steps are complete, as the end-to-end tests store it (the wizard itself *)
(* never marks a step complete), with one or both declarations made.       *)
(***************************************************************************)
EXTENDS ApplicationWizard

CONSTANTS t1, t2

MCTabs == {t1, t2}
Seed(authority) == [createNewApplication EXCEPT !.complete = TRUE, !.accuracy = TRUE,
                      !.authority = authority, !.documents = 1, !.current_step = "review"]
MCSeeds == {Null, Seed(TRUE), Seed(FALSE)}
=============================================================================

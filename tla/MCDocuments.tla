---------------------------- MODULE MCDocuments ----------------------------
(* Few documents and requests for TLC: the updates, two of them with the      *)
(* other writers, or two requests for the list with a few writers.            *)
EXTENDS Documents, TLC

CONSTANTS c1, p1

WritersOrLists == {{c1} \cup Updaters,
                   Writers \ {p1},
                   {c1, p1} \cup Listers,
                   {c1} \cup Commenters \cup Listers}
Everyone == {Requests}

RequestSymmetry == Permutations(Updaters \ {p1}) \cup Permutations(Listers)
=============================================================================

------------------------ MODULE MCTaskNotifications ------------------------
(* Few requests, tasks and users for TLC. *)
EXTENDS TaskNotifications, TLC

CONSTANT Lengths

\* Every array of assignees of these lengths.
MCLists == UNION {[1 .. n -> Users] : n \in Lengths}
MCSenders == Creators \cup Updaters
TaskSymmetry == Permutations(Users) \cup Permutations(Updaters)
=============================================================================

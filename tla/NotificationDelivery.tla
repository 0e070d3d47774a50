------------------------ MODULE NotificationDelivery ------------------------
(***************************************************************************)
(* What the queue promises to the sender of a `task.assigned' job, without  *)
(* attempts, backoff, stalls and inserts under way: every entry of its list *)
(* is told at least once before it counts as done, it is given up           *)
(* otherwise, and no entry is told more than Copies times.  Either end is   *)
(* final.                                                                   *)
(*                                                                          *)
(* A notification may still arrive after the end: inserts of an earlier     *)
(* attempt go on when a later one has settled the job.                      *)
(***************************************************************************)
EXTENDS Integers

CONSTANTS Senders, Users, Copies

VARIABLES
    outcome, \* [Senders -> "unsent", "open", "done" or "given up"]
    named,   \* [Senders -> [Users -> entries of the list]]
    told     \* [Senders -> [Users -> number of notifications]]

Bags == [Users -> Nat]
Nobody == [u \in Users |-> 0]

Init ==
    /\ outcome = [j \in Senders |-> "unsent"]
    /\ named = [j \in Senders |-> Nobody]
    /\ told = [j \in Senders |-> Nobody]

\* Any list of users.
Send(j) ==
    /\ outcome[j] = "unsent"
    /\ outcome' = [outcome EXCEPT ![j] = "open"]
    /\ named'[j] \in Bags
    /\ \A k \in Senders \ {j} : named'[k] = named[k]
    /\ UNCHANGED told

Tell(j, u) ==
    /\ told[j][u] < named[j][u] * Copies
    /\ told' = [told EXCEPT ![j][u] = @ + 1]
    /\ UNCHANGED <<outcome, named>>

Settle(j, end) ==
    /\ outcome[j] = "open"
    /\ end = "done" => \A u \in Users : told[j][u] >= named[j][u]
    /\ outcome' = [outcome EXCEPT ![j] = end]
    /\ UNCHANGED <<named, told>>

Next == \E j \in Senders :
    \/ Send(j)
    \/ \E u \in Users : Tell(j, u)
    \/ \E end \in {"done", "given up"} : Settle(j, end)

Spec == Init /\ [][Next]_<<outcome, named, told>>
=============================================================================

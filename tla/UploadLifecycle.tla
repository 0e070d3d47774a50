-------------------------- MODULE UploadLifecycle --------------------------
(***************************************************************************)
(* What the upload code promises about an upload, without tables, temp      *)
(* directories or requests: the status a reader of the row sees and the     *)
(* chunks the server has begun to store.                                    *)
(*                                                                          *)
(* A READY upload has every chunk, and an upload that was closed never      *)
(* takes chunks again.  READY and FAILED are not final: a late completion   *)
(* or a late run of the cleanup job may still replace one by the other, or  *)
(* bring back a row that was removed.                                       *)
(***************************************************************************)
EXTENDS Integers

CONSTANTS Files, Total

VARIABLES
    state,    \* [Files -> status]
    received  \* [Files -> set of chunk indexes]

AllChunks(f) == 0 .. (Total[f] - 1)

States == {"new", "uploading", "ready", "failed", "removed"}

Init ==
    /\ state = [f \in Files |-> "new"]
    /\ received = [f \in Files |-> {}]

Open(f) ==
    /\ state[f] = "new"
    /\ state' = [state EXCEPT ![f] = "uploading"]
    /\ UNCHANGED received

Receive(f, i) ==
    /\ state[f] # "new"
    /\ received' = [received EXCEPT ![f] = @ \cup {i}]
    /\ UNCHANGED state

Finish(f) ==
    /\ state[f] # "new"
    /\ received[f] = AllChunks(f)
    /\ state' = [state EXCEPT ![f] = "ready"]
    /\ UNCHANGED received

Fail(f) ==
    /\ state[f] # "new"
    /\ state' = [state EXCEPT ![f] = "failed"]
    /\ UNCHANGED received

Remove(f) ==
    /\ state[f] # "new"
    /\ state' = [state EXCEPT ![f] = "removed"]
    /\ UNCHANGED received

Next == \E f \in Files :
    \/ Open(f) \/ Finish(f) \/ Fail(f) \/ Remove(f)
    \/ \E i \in AllChunks(f) : Receive(f, i)

Spec == Init /\ [][Next]_<<state, received>>
=============================================================================

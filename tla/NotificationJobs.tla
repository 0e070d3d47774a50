-------------------------- MODULE NotificationJobs --------------------------
(***************************************************************************)
(* `task.assigned' jobs on the BullMQ queue and what the worker makes of    *)
(* them: QueueService.addJob, UnifiedProcessor.process,                     *)
(* TaskQueueHandler.handleTaskAssigned and NotificationsService.create.     *)
(*                                                                          *)
(* A job is named by the request that sends it: a request sends one at      *)
(* most.  Its assignees are an array that may name a user more than once;   *)
(* the order does not matter here, so it is a bag, from users to the number *)
(* of entries.  The handler inserts one notification per entry, all at      *)
(* once, and Promise.all gives up at the first insert that fails while the  *)
(* others go on.                                                            *)
(***************************************************************************)
EXTENDS Integers, FiniteSets

CONSTANTS
    Senders,     \* requests that may send a job
    Users,       \* assignees
    Attempts,    \* attempts: 3
    MaxStalled,  \* BullMQ's maxStalledCount: 1
    MaxFaults    \* bound on failed calls and crashes

ASSUME JobsAssumption ==
    /\ Attempts \in Nat \ {0}
    /\ MaxStalled \in Nat
    /\ MaxFaults \in Nat
    /\ IsFiniteSet(Users)

VARIABLES
    jobs,     \* [Senders -> [state, assignees, failures, stalls]]
    pending,  \* [Senders -> [Users -> Nat]]: inserts of the current attempt
    late,     \* [Senders -> [Users -> Nat]]: inserts of attempts given up
    notes,    \* [Senders -> [Users -> Nat]]: rows of the notifications table
    faults    \* failed calls and crashes so far

jobVars == <<jobs, pending, late, notes, faults>>

JobStates == {"none", "waiting", "active", "delayed", "completed", "failed"}

\* Bags of users: how often each is named.
Bags == [Users -> Nat]
Nobody == [u \in Users |-> 0]

Job == [state : JobStates, assignees : Bags,
        failures : 0 .. Attempts, stalls : 0 .. MaxStalled + 1]

NoJob == [state |-> "none", assignees |-> Nobody, failures |-> 0, stalls |-> 0]

JobsInit ==
    /\ jobs = [j \in Senders |-> NoJob]
    /\ pending = [j \in Senders |-> Nobody]
    /\ late = [j \in Senders |-> Nobody]
    /\ notes = [j \in Senders |-> Nobody]
    /\ faults = 0

Fault == faults < MaxFaults /\ faults' = faults + 1

\* queue.add
AddJob(j, assignees) ==
    jobs' = [jobs EXCEPT ![j] = [NoJob EXCEPT !.state = "waiting",
                                              !.assignees = assignees]]

\* The worker takes one job at a time and starts every insert of it.
Take(j) ==
    /\ jobs[j].state = "waiting"
    /\ \A k \in Senders : jobs[k].state # "active"
    /\ jobs' = [jobs EXCEPT ![j].state = "active"]
    /\ pending' = [pending EXCEPT ![j] = jobs[j].assignees]
    /\ UNCHANGED <<late, notes, faults>>

\* notificationsService.create for one entry of the array.
Insert(j, u) ==
    /\ pending[j][u] > 0
    /\ pending' = [pending EXCEPT ![j][u] = @ - 1]
    /\ notes' = [notes EXCEPT ![j][u] = @ + 1]
    /\ UNCHANGED <<jobs, late, faults>>

\* Promise.all has every insert: the job is completed and removed.
Complete(j) ==
    /\ jobs[j].state = "active"
    /\ pending[j] = Nobody
    /\ jobs' = [jobs EXCEPT ![j].state = "completed"]
    /\ UNCHANGED <<pending, late, notes, faults>>

SwallowedFailure(failures) == "completed"
OneMoreAttempt(failures) == IF failures <= Attempts THEN "delayed" ELSE "failed"
\* The state of a job that has failed so often.
AfterFailure(failures) == IF failures < Attempts THEN "delayed" ELSE "failed"

\* One insert fails: the job fails, the other inserts go on unattended.
InsertFails(j, u) ==
    /\ Fault
    /\ pending[j][u] > 0
    /\ jobs' = [jobs EXCEPT ![j].failures = @ + 1,
                            ![j].state = AfterFailure(jobs[j].failures + 1)]
    /\ late' = [late EXCEPT ![j] = [v \in Users |->
                  @[v] + pending[j][v] - IF v = u THEN 1 ELSE 0]]
    /\ pending' = [pending EXCEPT ![j] = Nobody]
    /\ UNCHANGED notes

LateInsert(j, u) ==
    /\ late[j][u] > 0
    /\ late' = [late EXCEPT ![j][u] = @ - 1]
    /\ notes' = [notes EXCEPT ![j][u] = @ + 1]
    /\ UNCHANGED <<jobs, pending, faults>>

\* It fails too; nobody listens.
LateInsertFails(j, u) ==
    /\ Fault
    /\ late[j][u] > 0
    /\ late' = [late EXCEPT ![j][u] = @ - 1]
    /\ UNCHANGED <<jobs, pending, notes>>

RetryUnlessFailed(j) ==
    /\ jobs[j].state = "delayed"
    /\ jobs[j].failures = 0
    /\ jobs' = [jobs EXCEPT ![j].state = "waiting"]
    /\ UNCHANGED <<pending, late, notes, faults>>

RetrySettled(j) ==
    /\ jobs[j].state \in {"delayed", "completed"}
    /\ jobs' = [jobs EXCEPT ![j].state = "waiting"]
    /\ UNCHANGED <<pending, late, notes, faults>>

\* The exponential backoff is over.
Retry(j) ==
    /\ jobs[j].state = "delayed"
    /\ jobs' = [jobs EXCEPT ![j].state = "waiting"]
    /\ UNCHANGED <<pending, late, notes, faults>>

\* The worker dies: its job stalls and goes back to the queue, MaxStalled
\* times; its inserts under way are gone.
WorkerDies ==
    /\ jobs' = [j \in Senders |->
          IF jobs[j].state # "active" THEN jobs[j]
          ELSE [jobs[j] EXCEPT !.stalls = @ + 1,
                  !.state = IF jobs[j].stalls < MaxStalled THEN "waiting"
                            ELSE "failed"]]
    /\ pending' = [j \in Senders |-> Nobody]
    /\ late' = [j \in Senders |-> Nobody]
    /\ UNCHANGED notes

WorkerStep(j) ==
    \/ Take(j) \/ Complete(j) \/ Retry(j)
    \/ \E u \in Users : Insert(j, u) \/ LateInsert(j, u)

WorkerFault(j) == \E u \in Users : InsertFails(j, u) \/ LateInsertFails(j, u)

JobsTyped ==
    /\ jobs \in [Senders -> Job]
    /\ pending \in [Senders -> Bags]
    /\ late \in [Senders -> Bags]
    /\ notes \in [Senders -> Bags]
    /\ faults \in 0 .. MaxFaults

-----------------------------------------------------------------------------
(* The inductive invariant of the queue, from which what the sender is       *)
(* promised follows.                                                        *)

\* Attempts begun: those that failed, those that stalled, the last one.
Begun(j) == jobs[j].failures + jobs[j].stalls
            + IF jobs[j].state \in {"active", "completed"} THEN 1 ELSE 0

\* Inserts of the current attempt are under way for entries of the job, and
\* only while it is active.
InsertsNamed ==
    \A j \in Senders :
        /\ pending[j] # Nobody => jobs[j].state = "active"
        /\ \A u \in Users : pending[j][u] <= jobs[j].assignees[u]

\* The worker is at one job at a time.
OneActive ==
    \A j, k \in Senders :
        jobs[j].state = "active" /\ jobs[k].state = "active" => j = k

\* A job that can still run has an attempt left, in failures and in stalls.
WithinLimits ==
    \A j \in Senders :
        /\ jobs[j].state = "none" => jobs[j] = NoJob
        /\ jobs[j].state # "failed" =>
               jobs[j].failures < Attempts /\ jobs[j].stalls <= MaxStalled
        /\ jobs[j].failures + jobs[j].stalls <= Attempts + MaxStalled

\* Within an attempt every entry has been told whose insert is not pending.
ToldUnlessPending ==
    \A j \in Senders : jobs[j].state \in {"active", "completed"} =>
        \A u \in Users :
            notes[j][u] + pending[j][u] >= jobs[j].assignees[u]

\* Rows and inserts under way together: one per entry and attempt begun.
OnePerAttempt ==
    \A j \in Senders, u \in Users :
        notes[j][u] + late[j][u] + pending[j][u]
            <= jobs[j].assignees[u] * Begun(j)

JobsInv ==
    /\ JobsTyped
    /\ OneActive
    /\ InsertsNamed
    /\ WithinLimits
    /\ ToldUnlessPending
    /\ OnePerAttempt
=============================================================================

------------------------- MODULE TaskNotifications -------------------------
(***************************************************************************)
(* TasksService: the tasks table, the requests that create, update and      *)
(* delete tasks, and the `task.assigned' jobs they send.                    *)
(*                                                                          *)
(* A step is the code between two awaits.  The entity an update holds was   *)
(* read at its start; save() compares it with the row as it is then.        *)
(***************************************************************************)
EXTENDS NotificationJobs, Sequences

CONSTANTS
    Tasks,     \* ids
    Lists,     \* values of the assignees array in a dto, repeated users too
    Creators,  \* POST /tasks requests
    Updaters,  \* PATCH /tasks/:id requests
    Deleters,  \* DELETE /tasks/:id requests
    NoTask,    \* "no row"
    Same       \* a field the dto leaves out

Requests == Creators \cup Updaters \cup Deleters

Status == {"todo", "doing", "done"}
Task == [status : Status, assignees : Lists]

ASSUME TasksAssumption ==
    /\ Senders = Creators \cup Updaters
    /\ Creators \cap Updaters = {}
    /\ Deleters \cap Senders = {}
    /\ Tasks # {}
    /\ NoTask \notin Task
    /\ Lists \subseteq Seq(Users)
    /\ << >> \in Lists
    /\ Same \notin Status \cup Lists

\* TasksService.validTransitions
ValidNext(s) == CASE s = "todo"  -> {"doing"}
                  [] s = "doing" -> {"todo", "done"}
                  [] s = "done"  -> {"doing"}

VARIABLES
    table,   \* [Tasks -> Task or NoTask]
    used,    \* ids handed out
    at,      \* [Requests -> where the request is]
    id,      \* [Requests -> its task]
    entity,  \* [Requests -> the entity it holds]
    loaded,  \* [Requests -> the row save() compared it with]
    added,   \* [Requests -> [Users -> Nat]]: the entries it will notify
    joined,  \* history: [Tasks -> [Users -> how often the user became an
             \* assignee in the table]]
    crossed  \* history: updates that overlapped another update or a removal

taskVars == <<table, used, at, id, entity, loaded, added, joined, crossed>>
vars == <<jobVars, taskVars>>

Init ==
    /\ JobsInit
    /\ table = [t \in Tasks |-> NoTask]
    /\ used = {}
    /\ at = [r \in Requests |-> "idle"]
    /\ id = [r \in Requests |-> CHOOSE t \in Tasks : TRUE]
    /\ entity = [r \in Requests |-> NoTask]
    /\ loaded = [r \in Requests |-> NoTask]
    /\ added = [r \in Requests |-> Nobody]
    /\ joined = [t \in Tasks |-> [u \in Users |-> 0]]
    /\ crossed = {}

Goto(r, label) == at' = [at EXCEPT ![r] = label]

\* The users a list names, how often it names one, and the list as a bag.
UsersIn(list) == {list[i] : i \in DOMAIN list}
Times(list, u) == Cardinality({i \in DOMAIN list : list[i] = u})
BagOf(list) == [u \in Users |-> Times(list, u)]

AssigneesOf(task) == IF task = NoTask THEN {} ELSE UsersIn(task.assignees)

Write(t, new) ==
    /\ table' = [table EXCEPT ![t] = new]
    /\ joined' = [joined EXCEPT ![t] = [u \in Users |->
          @[u] + IF u \in AssigneesOf(new) \ AssigneesOf(table[t])
                 THEN 1 ELSE 0]]

\* A request is answered and its locals are gone.
End(r, label) ==
    /\ Goto(r, label)
    /\ entity' = [entity EXCEPT ![r] = NoTask]
    /\ loaded' = [loaded EXCEPT ![r] = NoTask]
    /\ added' = [added EXCEPT ![r] = Nobody]

-----------------------------------------------------------------------------
(* TasksService.create: insert, then send the job.                          *)

Create(r, t, list) ==
    /\ at[r] = "idle"
    /\ t \notin used
    /\ used' = used \cup {t}
    /\ id' = [id EXCEPT ![r] = t]
    /\ Write(t, [status |-> "todo", assignees |-> list])
    /\ added' = [added EXCEPT ![r] = BagOf(list)]
    /\ Goto(r, IF list = << >> THEN "created" ELSE "send")
    /\ UNCHANGED <<jobVars, entity, loaded, crossed>>

\* queueService.addJob; an update still has to save, a creation is over.
Send(r) ==
    /\ at[r] = "send"
    /\ AddJob(r, added[r])
    /\ added' = [added EXCEPT ![r] = Nobody]
    /\ Goto(r, IF r \in Creators THEN "created" ELSE "load")
    /\ UNCHANGED <<pending, late, notes, faults, table, used, id, entity,
                   loaded, joined, crossed>>

\* Redis refuses the job, or has it and the answer is lost: create leaves the
\* task behind, update saves nothing.
SendFails(r) ==
    /\ at[r] = "send"
    /\ Fault
    /\ UNCHANGED jobs \/ AddJob(r, added[r])
    /\ End(r, "error")
    /\ UNCHANGED <<pending, late, notes, table, used, id, joined, crossed>>

-----------------------------------------------------------------------------
(* TasksService.update                                                      *)

\* The history of overlaps: r begins on t while other requests are at it.
Cross(r, t) ==
    LET busy == {q \in Updaters \cup Deleters :
                   id[q] = t /\ at[q] \in {"send", "load", "save", "delete"}}
    IN  crossed' = IF busy = {} THEN crossed
                   ELSE crossed \cup ((busy \cup {r}) \cap Updaters)

AnyStatus(task, s) == TRUE
\* The dto may ask for the status: none, the present one, or a valid next one.
AllowedStatus(task, s) == s \in {Same, task.status} \cup ValidNext(task.status)

RemovedAssignees(task, list) ==
    [u \in Users |-> IF u \in UsersIn(list) THEN 0 ELSE Times(task.assignees, u)]
\* newAssignees: the entries for users who were not assignees before.
NewAssignees(task, list) ==
    [u \in Users |-> IF u \in UsersIn(task.assignees) THEN 0 ELSE Times(list, u)]

Changed(task, s, list) ==
    [status |-> IF s = Same THEN task.status ELSE s,
     assignees |-> IF list = Same THEN task.assignees ELSE list]

\* findOne, the status check and the new field values.
Update(r, t, s, list) ==
    LET new == IF list = Same THEN Nobody ELSE NewAssignees(table[t], list) IN
    /\ at[r] = "idle"
    /\ table[t] # NoTask
    /\ AllowedStatus(table[t], s)
    /\ id' = [id EXCEPT ![r] = t]
    /\ entity' = [entity EXCEPT ![r] = Changed(table[t], s, list)]
    /\ added' = [added EXCEPT ![r] = new]
    /\ Goto(r, IF new = Nobody THEN "load" ELSE "send")
    /\ Cross(r, t)
    /\ UNCHANGED <<jobVars, table, used, loaded, joined>>

UpdateRefused(r, t, s) ==
    /\ at[r] = "idle"
    /\ table[t] # NoTask => ~AllowedStatus(table[t], s)
    /\ Goto(r, "refused")
    /\ UNCHANGED <<jobVars, table, used, id, entity, loaded, added, joined,
                   crossed>>

\* save(): the SELECT ...
SaveLoad(r) ==
    /\ at[r] = "load"
    /\ loaded' = [loaded EXCEPT ![r] = table[id[r]]]
    /\ Goto(r, "save")
    /\ UNCHANGED <<jobVars, table, used, id, entity, added, joined, crossed>>

\* ... and the columns in which the entity differs from it, or the whole
\* entity when no row was found.
Merged(cur, base, e) ==
    IF base = NoTask THEN e
    ELSE IF cur = NoTask THEN NoTask
    ELSE [status |-> IF e.status # base.status THEN e.status ELSE cur.status,
          assignees |-> IF e.assignees # base.assignees THEN e.assignees
                        ELSE cur.assignees]

\* Two inserts of one id: the second throws.
Clash(r) == loaded[r] = NoTask /\ table[id[r]] # NoTask

SaveWrite(r) ==
    /\ at[r] = "save"
    /\ ~Clash(r)
    /\ Write(id[r], Merged(table[id[r]], loaded[r], entity[r]))
    /\ End(r, "updated")
    /\ UNCHANGED <<jobVars, used, id, crossed>>

SaveClash(r) ==
    /\ at[r] = "save"
    /\ Clash(r)
    /\ End(r, "error")
    /\ UNCHANGED <<jobVars, table, used, id, joined,
                   crossed>>

SaveFails(r) ==
    /\ at[r] = "save"
    /\ Fault
    /\ End(r, "error")
    /\ UNCHANGED <<jobs, pending, late, notes, table, used, id, joined,
                   crossed>>

-----------------------------------------------------------------------------
(* TasksService.remove: findOne, then DELETE by id.                         *)

RemoveStart(r, t) ==
    /\ at[r] = "idle"
    /\ table[t] # NoTask
    /\ id' = [id EXCEPT ![r] = t]
    /\ Goto(r, "delete")
    /\ Cross(r, t)
    /\ UNCHANGED <<jobVars, table, used, entity, loaded, added, joined>>

RemoveRow(r) ==
    /\ at[r] = "delete"
    /\ Write(id[r], NoTask)
    /\ Goto(r, "removed")
    /\ UNCHANGED <<jobVars, used, id, entity, loaded, added, crossed>>

-----------------------------------------------------------------------------
Ended == {"idle", "created", "updated", "refused", "error", "removed", "cut"}

\* API and worker are one process.
Crash ==
    /\ Fault
    /\ WorkerDies
    /\ at' = [r \in Requests |-> IF at[r] \in Ended THEN at[r] ELSE "cut"]
    /\ entity' = [r \in Requests |-> NoTask]
    /\ loaded' = [r \in Requests |-> NoTask]
    /\ added' = [r \in Requests |-> Nobody]
    /\ UNCHANGED <<table, used, id, joined,
                   crossed>>

RequestStep(r) == SaveLoad(r) \/ SaveWrite(r) \/ SaveClash(r) \/ Send(r)
                  \/ RemoveRow(r)

Next ==
    \/ \E r \in Creators, t \in Tasks, list \in Lists : Create(r, t, list)
    \/ \E r \in Updaters, t \in Tasks, s \in Status \cup {Same} :
         \/ UpdateRefused(r, t, s)
         \/ \E list \in Lists \cup {Same} : Update(r, t, s, list)
    \/ \E r \in Deleters, t \in Tasks : RemoveStart(r, t)
    \/ \E r \in Requests : RequestStep(r) \/ SendFails(r) \/ SaveFails(r)
    \/ \E j \in Senders :
         (WorkerStep(j) \/ WorkerFault(j)) /\ UNCHANGED taskVars
    \/ Crash

Spec == Init /\ [][Next]_vars

\* Calls that have been made return and the worker runs; nothing has to fail.
Fairness ==
    /\ \A r \in Requests : WF_vars(RequestStep(r))
    /\ \A j \in Senders : WF_vars(WorkerStep(j) /\ UNCHANGED taskVars)

FairSpec == Spec /\ Fairness

-----------------------------------------------------------------------------
(* Properties *)

\* The type of every variable.
TypeOK ==
    /\ JobsTyped
    /\ table \in [Tasks -> Task \cup {NoTask}]
    /\ used \subseteq Tasks
    /\ at \in [Requests -> Ended \cup {"send", "load", "save", "delete"}]
    /\ id \in [Requests -> Tasks]
    /\ entity \in [Requests -> Task \cup {NoTask}]
    /\ loaded \in [Requests -> Task \cup {NoTask}]
    /\ added \in [Requests -> Bags]
    /\ joined \in [Tasks -> [Users -> Nat]]
    /\ crossed \subseteq Updaters

\* A completed job has left a notification for every entry of its list, however
\* often it was retried: the handler reports success only when all inserts of
\* one attempt have succeeded.
CompletedMeansNotified ==
    \A j \in Senders : jobs[j].state = "completed" =>
        \A u \in Users : notes[j][u] >= jobs[j].assignees[u]

\* Retries and stalls duplicate notifications, but never beyond one per entry
\* of the list and attempt the queue allows, and nobody else is notified.
DuplicatesBounded ==
    \A j \in Senders, u \in Users :
        notes[j][u] <= jobs[j].assignees[u] * (Attempts + MaxStalled)

\* What is left of the queue when one looks only at its promise.
OutcomeOf(state) == CASE state = "none"      -> "unsent"
                      [] state = "completed" -> "done"
                      [] state = "failed"    -> "given up"
                      [] OTHER               -> "open"

Delivery == INSTANCE NotificationDelivery WITH
                Copies  <- Attempts + MaxStalled,
                outcome <- [j \in Senders |-> OutcomeOf(jobs[j].state)],
                named   <- [j \in Senders |-> jobs[j].assignees],
                told    <- notes

\* The queue, worker and handler with the requests that feed them deliver as
\* promised: through retries, stalls, late inserts and crashes a job is
\* settled once, as done only when everybody it names has been told.
ImplementsDelivery == Delivery!Spec

\* An update that overlaps no other update of its task and no removal moves the
\* status along a transition the service allows, and its job has exactly the
\* entries of the users whom it makes assignees, although both were decided on
\* an entity read before the job was sent and the row loaded again.
LoneUpdatesFit ==
    [][\A r \in Updaters \ crossed :
         LET old == table[id[r]]
             new == table'[id[r]]
         IN  (at[r] = "save" /\ at'[r] = "updated")
               => /\ new.status \in {old.status} \cup ValidNext(old.status)
                  /\ jobs[r].assignees = NewAssignees(old, new.assignees)]_vars

\* Requests that are changing or removing a task.
Busy(r) == r \in Updaters \cup Deleters
           /\ at[r] \in {"send", "load", "save", "delete"}

\* A request sends one job, and each kind of request goes its own way.
JobsFollowRequests ==
    /\ \A r \in Senders : at[r] \in {"idle", "send"} => jobs[r].state = "none"
    /\ \A r \in Requests :
         /\ at[r] = "send" => r \in Senders
         /\ at[r] \in {"load", "save"} => r \in Updaters
         /\ at[r] = "delete" => r \in Deleters
         /\ r \in Updaters /\ Busy(r) => entity[r] # NoTask

\* An id is used once, and who works on a task found it there.
IdsUsed ==
    /\ \A t \in Tasks : table[t] # NoTask => t \in used
    /\ \A r \in Updaters \cup Deleters : Busy(r) => id[r] \in used

\* Nobody else works on the task of a lone update ...
Alone ==
    \A r \in Updaters \ crossed, q \in Updaters \cup Deleters :
        Busy(r) /\ Busy(q) /\ id[q] = id[r] => q = r

\* ... so that what it decided on the row it read is still true of the row.
LoneIsCurrent ==
    \A r \in Updaters \ crossed : Busy(r) =>
        LET old == table[id[r]]
            new == entity[r]
            due == IF at[r] = "send" THEN added[r] ELSE jobs[r].assignees IN
        /\ old \in Task /\ new \in Task
        /\ new.status \in {old.status} \cup ValidNext(old.status)
        /\ due = NewAssignees(old, new.assignees)
        /\ at[r] = "save" => loaded[r] = old

\* The inductive invariant of requests, queue and worker together.
TasksInv ==
    /\ TypeOK
    /\ JobsInv
    /\ JobsFollowRequests
    /\ IdsUsed
    /\ Alone
    /\ LoneIsCurrent

\* The total of notifications of a user about a task.
Notified(t, u) ==
    \E j \in Senders : id[j] = t /\ notes[j][u] > 0

\* While nothing fails, every user who has become an assignee is notified in
\* the end, although concurrent updates overwrite each other's lists.
AssigneesAreNotified ==
    \A t \in Tasks, u \in Users :
        (joined[t][u] > 0) ~> (Notified(t, u) \/ faults > 0)

\* Every job ends, completed or out of attempts.
JobsEnd ==
    \A j \in Senders :
        (jobs[j].state # "none") ~> (jobs[j].state \in {"completed", "failed"})
=============================================================================

----------------------- MODULE TaskNotificationsProofs -----------------------
(***************************************************************************)
(* Proofs about TaskNotifications for any tasks, users and requests, any    *)
(* numbers of attempts, stalls and faults.  What every step of the queue,   *)
(* the worker and the handler preserves comes first: JobsInv is inductive,  *)
(* by one lemma per step of NotificationJobs.  TasksInv puts the requests   *)
(* around it: TypeStep, FollowStep, IdsStep, AloneStep and LoneStep take    *)
(* its other conjuncts through a step.                                      *)
(***************************************************************************)
EXTENDS TaskNotifications, FiniteSetTheorems, TLAPS

-----------------------------------------------------------------------------
(* Bags of users                                                            *)

\* Rows are counted per entry and attempt: what a product does when an attempt
\* is added, and that it grows with the attempts.
LEMMA Products ==
    \A a, b, c \in Nat : /\ a * b \in Nat
                         /\ a * (b + 1) = a * b + a
                         /\ b <= c => a * b <= a * c
<1> SUFFICES ASSUME NEW a \in Nat, NEW b \in Nat, NEW c \in Nat
             PROVE  /\ a * b \in Nat
                    /\ a * (b + 1) = a * b + a
                    /\ b <= c => a * b <= a * c
  OBVIOUS
<1>1. a * b \in Nat /\ a * (b + 1) = a * b + a
  OBVIOUS
<1>2. ASSUME b <= c PROVE a * b <= a * c
  <2>1. PICK d \in Nat : c = b + d
    <3>1. c - b \in Nat /\ c = b + (c - b)
      BY <1>2
    <3> QED
      BY <3>1
  <2>2. a * c = a * b + a * d /\ a * d \in Nat /\ a * b \in Nat
    BY <2>1
  <2> QED
    BY <2>2
<1> QED
  BY <1>1, <1>2

\* A list names a user a number of times, and no time if he is not on it.
LEMMA TimesCount ==
    ASSUME NEW list \in Seq(Users), NEW u
    PROVE  /\ Times(list, u) \in Nat
           /\ u \notin UsersIn(list) => Times(list, u) = 0
<1> DEFINE places == {i \in DOMAIN list : list[i] = u}
<1>1. DOMAIN list = 1 .. Len(list) /\ Len(list) \in Nat
  OBVIOUS
<1>2. IsFiniteSet(1 .. Len(list))
  BY <1>1, FS_Interval
<1>3. IsFiniteSet(places)
  BY <1>1, <1>2, FS_Subset
<1>4. Cardinality(places) \in Nat
  BY <1>3, FS_CardinalityType
<1>5. ASSUME u \notin UsersIn(list) PROVE Cardinality(places) = 0
  <2>1. places = {}
    BY <1>5 DEF UsersIn
  <2> QED
    BY <2>1, FS_EmptySet
<1> QED
  BY <1>4, <1>5 DEF Times

\* The entries of a list are a bag, and so are those for new assignees.
LEMMA BagTyped ==
    ASSUME NEW list \in Lists
    PROVE  /\ BagOf(list) \in Bags
           /\ \A task \in Task : NewAssignees(task, list) \in Bags
<1>1. list \in Seq(Users)
  BY TasksAssumption
<1>2. \A u \in Users : Times(list, u) \in Nat
  BY <1>1, TimesCount
<1> QED
  BY <1>2 DEF BagOf, NewAssignees, Bags

\* An update that leaves the list alone adds nobody.
LEMMA NobodyNew ==
    ASSUME NEW task \in Task
    PROVE  NewAssignees(task, task.assignees) = Nobody
<1>1. task.assignees \in Seq(Users)
  BY TasksAssumption DEF Task
<1>2. \A u \in Users : u \notin UsersIn(task.assignees)
                         => Times(task.assignees, u) = 0
  BY <1>1, TimesCount
<1> QED
  BY <1>2 DEF NewAssignees, Nobody

\* Nobody is a bag.
LEMMA NobodyTyped == Nobody \in Bags
  BY DEF Nobody, Bags

-----------------------------------------------------------------------------
(* The queue, the worker and the handler                                    *)

\* A job in another state is a job.
LEMMA StateTyped ==
    ASSUME NEW job \in Job, NEW s \in JobStates
    PROVE  [job EXCEPT !.state = s] \in Job
  BY DEF Job

\* So is one with one more failure.
LEMMA FailureTyped ==
    ASSUME NEW job \in Job, NEW s \in JobStates, NEW n \in 0 .. Attempts
    PROVE  [job EXCEPT !.failures = n, !.state = s] \in Job
  BY DEF Job

\* So is one with one more stall.
LEMMA StallTyped ==
    ASSUME NEW job \in Job, NEW s \in JobStates, NEW n \in 0 .. MaxStalled + 1
    PROVE  [job EXCEPT !.stalls = n, !.state = s] \in Job
  BY DEF Job

\* The empty queue satisfies the invariant.
LEMMA JobsInitInv == JobsInit => JobsInv
<1> SUFFICES ASSUME JobsInit PROVE JobsInv
  OBVIOUS
<1>1. NoJob \in Job
  BY JobsAssumption, NobodyTyped DEF NoJob, Job, JobStates
<1>2. JobsTyped
  BY <1>1, JobsAssumption, NobodyTyped DEF JobsInit, JobsTyped
<1>3. OneActive /\ InsertsNamed /\ WithinLimits /\ ToldUnlessPending
  BY JobsAssumption
  DEF JobsInit, NoJob, Nobody, OneActive, InsertsNamed, WithinLimits,
      ToldUnlessPending
<1>4. OnePerAttempt
  BY DEF JobsInit, NoJob, Nobody, OnePerAttempt, Begun
<1> QED
  BY <1>2, <1>3, <1>4 DEF JobsInv

\* The fields of a job have the types of a job's.
LEMMA JobFields ==
    ASSUME JobsTyped
    PROVE  \A j \in Senders :
             /\ jobs[j] \in Job
             /\ jobs[j].state \in JobStates
             /\ jobs[j].assignees \in Bags
             /\ \A u \in Users : jobs[j].assignees[u] \in Nat
             /\ jobs[j].failures \in Nat /\ jobs[j].failures <= Attempts
             /\ jobs[j].stalls \in Nat /\ jobs[j].stalls <= MaxStalled + 1
<1>1. \A j \in Senders : jobs[j] \in Job
  BY DEF JobsTyped
<1>2. \A j \in Senders : jobs[j].assignees \in Bags
  BY <1>1 DEF Job
<1> QED
  BY <1>1, <1>2, JobsAssumption DEF Job, Bags

\* What is counted is a number.
LEMMA CountsTyped ==
    ASSUME JobsTyped, NEW j \in Senders, NEW u \in Users
    PROVE  /\ notes[j][u] \in Nat /\ late[j][u] \in Nat
           /\ pending[j][u] \in Nat /\ Begun(j) \in Nat
           /\ jobs[j].assignees[u] * Begun(j) \in Nat
<1>1. jobs[j].assignees[u] \in Nat /\ Begun(j) \in Nat
  BY JobFields DEF Begun
<1> QED
  BY <1>1, Products DEF JobsTyped, Bags

\* An added job has had no attempt and nobody has been told.
LEMMA AddedInv ==
    ASSUME JobsInv, NEW j \in Senders, NEW users \in Bags,
           jobs[j].state = "none", AddJob(j, users),
           UNCHANGED <<pending, late, notes>>, faults' \in 0 .. MaxFaults
    PROVE  JobsInv'
<1> DEFINE new == [NoJob EXCEPT !.state = "waiting", !.assignees = users]
<1>1. JobsTyped
  BY DEF JobsInv
<1>2. /\ new \in Job /\ new.state = "waiting" /\ new.assignees = users
      /\ new.failures = 0 /\ new.stalls = 0
  <2>1. NoJob \in Job
    BY JobsAssumption, NobodyTyped DEF Job, NoJob, JobStates
  <2>2. new \in Job /\ new.assignees = users
    BY <2>1 DEF Job, JobStates
  <2>3. new.state = "waiting" /\ new.failures = 0 /\ new.stalls = 0
    BY DEF NoJob
  <2> QED
    BY <2>2, <2>3
<1>3. /\ jobs' \in [Senders -> Job]
      /\ jobs'[j] = new /\ \A k \in Senders \ {j} : jobs'[k] = jobs[k]
  BY <1>1, <1>2 DEF JobsTyped, AddJob
<1> HIDE DEF new
<1>4. jobs[j] = NoJob
  BY DEF JobsInv, WithinLimits
<1>5. JobsTyped'
  BY <1>1, <1>3 DEF JobsTyped
<1>6. /\ pending[j] = Nobody
      /\ \A u \in Users : pending[j][u] = 0 /\ late[j][u] = 0 /\ notes[j][u] = 0
  <2>1. pending[j] = Nobody
    BY <1>4 DEF JobsInv, InsertsNamed, NoJob
  <2>2. ASSUME NEW u \in Users
       PROVE  late[j][u] = 0 /\ notes[j][u] = 0
    <3>1. notes[j][u] + late[j][u] + pending[j][u]
            <= jobs[j].assignees[u] * Begun(j)
      BY DEF JobsInv, OnePerAttempt
    <3>2. jobs[j].assignees[u] = 0 /\ Begun(j) = 0
      BY <1>4 DEF NoJob, Nobody, Begun
    <3> QED
      BY <1>1, <3>1, <3>2, CountsTyped
  <2> QED
    BY <2>1, <2>2 DEF Nobody
<1>61. \A u \in Users : users[u] \in Nat
  BY DEF Bags
<1>62. InsertsNamed'
  BY <1>2, <1>3, <1>6, <1>61 DEF JobsInv, InsertsNamed
<1>7. WithinLimits'
  BY <1>2, <1>3, JobsAssumption DEF JobsInv, WithinLimits
<1>8. ToldUnlessPending'
  BY <1>2, <1>3 DEF JobsInv, ToldUnlessPending
<1>9. OnePerAttempt'
  <2> SUFFICES ASSUME NEW k \in Senders, NEW u \in Users
               PROVE  notes[k][u] + late[k][u] + pending[k][u]
                        <= jobs'[k].assignees[u] * Begun(k)'
    BY DEF OnePerAttempt
  <2>1. CASE k = j
    <3>1. Begun(j)' = 0
      BY <1>2, <1>3 DEF Begun
    <3>2. jobs'[j].assignees[u] * 0 = 0
      BY <1>2, <1>3, <1>61
    <3> QED
      BY <1>6, <2>1, <3>1, <3>2
  <2>2. CASE k # j
    BY <1>3, <2>2 DEF JobsInv, OnePerAttempt, Begun
  <2> QED
    BY <2>1, <2>2
<1>10. OneActive'
  BY <1>2, <1>3 DEF JobsInv, OneActive
<1> QED
  BY <1>5, <1>62, <1>7, <1>8, <1>9, <1>10 DEF JobsInv

\* Taking a job starts an attempt and one insert for every entry.
LEMMA TakeInv ==
    ASSUME JobsInv, NEW j \in Senders, Take(j)
    PROVE  JobsInv'
<1> DEFINE new == [jobs[j] EXCEPT !.state = "active"]
<1>1. JobsTyped
  BY DEF JobsInv
<1>2. new \in Job
  BY <1>1, JobFields, StateTyped DEF JobStates
<1>3. /\ jobs' \in [Senders -> Job]
      /\ jobs'[j] = new /\ \A k \in Senders \ {j} : jobs'[k] = jobs[k]
  BY <1>1, <1>2 DEF JobsTyped, Take
<1>4. /\ jobs[j].state = "waiting" /\ new.state = "active"
      /\ new.assignees = jobs[j].assignees
      /\ new.failures = jobs[j].failures /\ new.stalls = jobs[j].stalls
  BY <1>1, JobFields DEF Take, Job
<1>5. /\ pending' \in [Senders -> Bags]
      /\ pending'[j] = jobs[j].assignees
      /\ \A k \in Senders \ {j} : pending'[k] = pending[k]
      /\ UNCHANGED <<late, notes, faults>>
  BY <1>1, JobFields DEF JobsTyped, Take
<1>6. JobsTyped'
  BY <1>1, <1>3, <1>5 DEF JobsTyped
<1>7. InsertsNamed'
  <2>1. ASSUME NEW k \in Senders
       PROVE  /\ pending'[k] # Nobody => jobs'[k].state = "active"
              /\ \A u \in Users : pending'[k][u] <= jobs'[k].assignees[u]
    <3>1. CASE k = j
      <4>1. jobs'[j].state = "active" /\ pending'[j] = jobs'[j].assignees
        BY <1>3, <1>4, <1>5
      <4>2. \A u \in Users : jobs[j].assignees[u] \in Nat
        BY <1>1, JobFields
      <4>3. ASSUME NEW u \in Users PROVE pending'[j][u] <= jobs'[j].assignees[u]
        <5>1. jobs'[j].assignees = jobs[j].assignees
          BY <1>3, <1>4
        <5> QED
          BY <4>1, <4>2, <5>1
      <4> QED
        BY <3>1, <4>1, <4>3
    <3>2. CASE k # j
      BY <1>3, <1>5, <3>2 DEF JobsInv, InsertsNamed
    <3> QED
      BY <3>1, <3>2
  <2> QED
    BY <2>1 DEF InsertsNamed
<1>8. WithinLimits'
  BY <1>3, <1>4 DEF JobsInv, WithinLimits
<1>9. ToldUnlessPending'
  <2>1. ASSUME NEW k \in Senders, NEW u \in Users,
               jobs'[k].state \in {"active", "completed"}
       PROVE  notes'[k][u] + pending'[k][u] >= jobs'[k].assignees[u]
    <3>1. CASE k = j
      <4>1. pending'[j][u] = jobs'[j].assignees[u] /\ notes'[j][u] = notes[j][u]
        BY <1>3, <1>4, <1>5
      <4>2. jobs'[j].assignees[u] \in Nat /\ notes[j][u] \in Nat
        BY <1>1, <1>3, <1>4, JobFields, CountsTyped
      <4> QED
        BY <3>1, <4>1, <4>2
    <3>2. CASE k # j
      BY <1>3, <1>5, <2>1, <3>2 DEF JobsInv, ToldUnlessPending
    <3> QED
      BY <3>1, <3>2
  <2> QED
    BY <2>1 DEF ToldUnlessPending
<1>10. OnePerAttempt'
  <2> SUFFICES ASSUME NEW k \in Senders, NEW u \in Users
               PROVE  notes'[k][u] + late'[k][u] + pending'[k][u]
                        <= jobs'[k].assignees[u] * Begun(k)'
    BY DEF OnePerAttempt
  <2>1. /\ notes[k][u] \in Nat /\ late[k][u] \in Nat
        /\ jobs[k].assignees[u] \in Nat /\ Begun(k) \in Nat
    BY <1>1, CountsTyped, JobFields
  <2>2. notes[k][u] + late[k][u] + pending[k][u]
          <= jobs[k].assignees[u] * Begun(k)
    BY DEF JobsInv, OnePerAttempt
  <2>3. CASE k = j
    <3>1. Begun(j)' = Begun(j) + 1
      BY <1>1, <1>3, <1>4, JobFields DEF Begun
    <3>2. pending[j][u] = 0
      BY <1>4 DEF JobsInv, InsertsNamed, Nobody
    <3>3. jobs[k].assignees[u] * (Begun(k) + 1)
            = jobs[k].assignees[u] * Begun(k) + jobs[k].assignees[u]
      BY <2>1, Products
    <3>4. jobs[k].assignees[u] * Begun(k) \in Nat
      BY <2>1, Products
    <3>5. /\ notes'[k][u] = notes[k][u] /\ late'[k][u] = late[k][u]
          /\ pending'[k][u] = jobs[k].assignees[u]
          /\ jobs'[k].assignees[u] * Begun(k)'
               = jobs[k].assignees[u] * Begun(k) + jobs[k].assignees[u]
      BY <1>3, <1>4, <1>5, <2>3, <3>1, <3>3
    <3>6. notes[k][u] + late[k][u] <= jobs[k].assignees[u] * Begun(k)
      BY <2>1, <2>2, <2>3, <3>2
    <3> QED
      BY <2>1, <3>4, <3>5, <3>6
  <2>4. CASE k # j
    BY <1>3, <1>5, <2>2, <2>4 DEF Begun
  <2> QED
    BY <2>3, <2>4
<1>11. OneActive'
  BY <1>3, <1>4 DEF JobsInv, OneActive, Take
<1> QED
  BY <1>6, <1>7, <1>8, <1>9, <1>10, <1>11 DEF JobsInv

\* An insert of the current attempt becomes a row.
LEMMA InsertInv ==
    ASSUME JobsInv, NEW j \in Senders, NEW u \in Users, Insert(j, u)
    PROVE  JobsInv'
<1>1. JobsTyped /\ UNCHANGED <<jobs, late, faults>>
  BY DEF JobsInv, Insert
<1>2. ASSUME NEW k \in Senders, NEW v \in Users
     PROVE  /\ {pending'[k][v], notes'[k][v]} \subseteq Nat
            /\ pending'[k][v] <= pending[k][v]
            /\ notes'[k][v] + pending'[k][v] = notes[k][v] + pending[k][v]
            /\ (k # j => pending'[k] = pending[k])
  <2>1. notes[k][v] \in Nat /\ pending[k][v] \in Nat
    BY <1>1, CountsTyped
  <2>2. CASE k = j /\ v = u
    <3>1. pending'[k][v] = pending[k][v] - 1 /\ notes'[k][v] = notes[k][v] + 1
      BY <1>1, <2>2 DEF Insert, JobsTyped, Bags
    <3>2. pending[k][v] > 0
      BY <2>2 DEF Insert
    <3> QED
      BY <2>1, <2>2, <3>1, <3>2
  <2>3. CASE ~(k = j /\ v = u)
    <3>1. pending'[k][v] = pending[k][v] /\ notes'[k][v] = notes[k][v]
      BY <1>1, <2>3 DEF Insert, JobsTyped, Bags
    <3>2. k # j => pending'[k] = pending[k]
      BY <1>1 DEF Insert, JobsTyped
    <3> QED
      BY <2>1, <3>1, <3>2
  <2> QED
    BY <2>2, <2>3
<1>3. JobsTyped'
  <2>1. pending' \in [Senders -> Bags] /\ notes' \in [Senders -> Bags]
    BY <1>1, <1>2 DEF JobsTyped, Bags, Insert
  <2> QED
    BY <1>1, <2>1 DEF JobsTyped
<1>4. InsertsNamed'
  <2>1. pending[j] # Nobody
    BY DEF Insert, Nobody
  <2>2. ASSUME NEW k \in Senders, NEW v \in Users
       PROVE  pending'[k][v] <= jobs[k].assignees[v]
    <3>1. pending[k][v] <= jobs[k].assignees[v]
      BY DEF JobsInv, InsertsNamed
    <3> QED
      BY <1>1, <1>2, <3>1, CountsTyped, JobFields
  <2> QED
    BY <1>1, <1>2, <2>1, <2>2 DEF JobsInv, InsertsNamed
<1>5. WithinLimits'
  BY <1>1 DEF JobsInv, WithinLimits
<1>6. ToldUnlessPending'
  BY <1>1, <1>2 DEF JobsInv, ToldUnlessPending
<1>7. OnePerAttempt'
  <2> SUFFICES ASSUME NEW k \in Senders, NEW v \in Users
               PROVE  notes'[k][v] + late'[k][v] + pending'[k][v]
                        <= jobs'[k].assignees[v] * Begun(k)'
    BY DEF OnePerAttempt
  <2>1. notes[k][v] + late[k][v] + pending[k][v]
          <= jobs[k].assignees[v] * Begun(k)
    BY DEF JobsInv, OnePerAttempt
  <2>2. jobs'[k].assignees[v] * Begun(k)' = jobs[k].assignees[v] * Begun(k)
        /\ late' = late
    BY <1>1 DEF Begun
  <2>3. notes'[k][v] + late[k][v] + pending'[k][v]
          = notes[k][v] + late[k][v] + pending[k][v]
    BY <1>1, <1>2, CountsTyped
  <2> QED
    BY <2>1, <2>2, <2>3
<1>8. OneActive'
  BY <1>1 DEF JobsInv, OneActive
<1> QED
  BY <1>3, <1>4, <1>5, <1>6, <1>7, <1>8 DEF JobsInv

\* A job is completed when no insert of its attempt is left, and a delayed one
\* goes back to wait: a step of the state alone.
LEMMA StateStepInv ==
    ASSUME JobsInv, NEW j \in Senders, Complete(j) \/ Retry(j)
    PROVE  JobsInv'
<1> DEFINE s == IF Complete(j) THEN "completed" ELSE "waiting"
           new == [jobs[j] EXCEPT !.state = s]
<1>1. JobsTyped
  BY DEF JobsInv
<1>2. new \in Job
  BY <1>1, JobFields, StateTyped DEF JobStates
<1>3. /\ jobs' \in [Senders -> Job]
      /\ jobs'[j] = new /\ \A k \in Senders \ {j} : jobs'[k] = jobs[k]
      /\ UNCHANGED <<pending, late, notes, faults>>
  BY <1>1, <1>2 DEF JobsTyped, Complete, Retry
<1>4. /\ new.state = s
      /\ new.assignees = jobs[j].assignees
      /\ new.failures = jobs[j].failures /\ new.stalls = jobs[j].stalls
  BY <1>1, JobFields DEF Job
<1>5. \/ jobs[j].state = "active" /\ s = "completed" /\ pending[j] = Nobody
      \/ jobs[j].state = "delayed" /\ s = "waiting"
  BY DEF Complete, Retry
<1> HIDE DEF s, new
<1>6. JobsTyped'
  BY <1>1, <1>3 DEF JobsTyped
<1>7. InsertsNamed'
  BY <1>3, <1>4, <1>5 DEF JobsInv, InsertsNamed
<1>8. WithinLimits'
  BY <1>3, <1>4, <1>5 DEF JobsInv, WithinLimits
<1>9. ToldUnlessPending'
  BY <1>3, <1>4, <1>5 DEF JobsInv, ToldUnlessPending
<1>10. OnePerAttempt'
  <2>1. \A k \in Senders : Begun(k)' = Begun(k)
    BY <1>3, <1>4, <1>5 DEF Begun
  <2>2. \A k \in Senders : jobs'[k].assignees = jobs[k].assignees
    BY <1>3, <1>4
  <2> QED
    BY <1>3, <2>1, <2>2 DEF JobsInv, OnePerAttempt
<1>11. OneActive'
  BY <1>3, <1>4, <1>5 DEF JobsInv, OneActive
<1> QED
  BY <1>6, <1>7, <1>8, <1>9, <1>10, <1>11 DEF JobsInv

\* A failed insert ends the attempt; its other inserts become late ones.
LEMMA InsertFailsInv ==
    ASSUME JobsInv, NEW j \in Senders, NEW u \in Users, InsertFails(j, u)
    PROVE  JobsInv'
<1> DEFINE n == jobs[j].failures + 1
           new == [jobs[j] EXCEPT !.failures = n, !.state = AfterFailure(n)]
<1>1. JobsTyped
  BY DEF JobsInv
<1>2. /\ jobs[j].state = "active" /\ jobs[j].failures < Attempts
      /\ jobs[j].stalls <= MaxStalled
  BY DEF InsertFails, Nobody, JobsInv, InsertsNamed, WithinLimits
<1>3. n \in 0 .. Attempts /\ AfterFailure(n) \in JobStates
  BY <1>1, <1>2, JobsAssumption, JobFields DEF AfterFailure, JobStates
<1>4. new \in Job
  BY <1>1, <1>3, JobFields, FailureTyped
<1>5. /\ jobs' \in [Senders -> Job]
      /\ jobs'[j] = new /\ \A k \in Senders \ {j} : jobs'[k] = jobs[k]
  BY <1>1, <1>4 DEF JobsTyped, InsertFails
<1>6. /\ new.state = AfterFailure(n)
      /\ new.assignees = jobs[j].assignees
      /\ new.failures = n /\ new.stalls = jobs[j].stalls
  BY <1>1, JobFields DEF Job
<1>7. /\ pending' \in [Senders -> Bags] /\ pending'[j] = Nobody
      /\ \A k \in Senders \ {j} : pending'[k] = pending[k]
  BY <1>1, NobodyTyped DEF JobsTyped, InsertFails
<1>71. ASSUME NEW v \in Users
      PROVE  /\ late'[j][v] \in Nat
             /\ late'[j][v] <= late[j][v] + pending[j][v]
  <2>1. late'[j][v] = late[j][v] + pending[j][v] - IF v = u THEN 1 ELSE 0
    BY <1>1 DEF JobsTyped, InsertFails
  <2>2. v = u => pending[j][v] > 0
    BY DEF InsertFails
  <2> QED
    BY <1>1, <2>1, <2>2, CountsTyped
<1>72. \A k \in Senders \ {j} : late'[k] = late[k]
  BY <1>1 DEF JobsTyped, InsertFails
<1>73. late' \in [Senders -> Bags] /\ notes' = notes
  <2>1. late'[j] \in Bags
    <3>1. late'[j] = [v \in Users |-> late'[j][v]]
      BY <1>1 DEF JobsTyped, InsertFails
    <3> QED
      BY <1>71, <3>1 DEF Bags
  <2> QED
    BY <1>1, <1>72, <2>1 DEF JobsTyped, InsertFails
<1>8. AfterFailure(n) # "active"
  BY DEF AfterFailure
<1> HIDE DEF new
<1>9. JobsTyped'
  BY <1>1, <1>5, <1>7, <1>73, JobsAssumption DEF JobsTyped, InsertFails, Fault
<1>10. InsertsNamed'
  <2>1. ASSUME NEW k \in Senders
       PROVE  /\ pending'[k] # Nobody => jobs'[k].state = "active"
              /\ \A v \in Users : pending'[k][v] <= jobs'[k].assignees[v]
    <3>1. CASE k = j
      <4>1. \A v \in Users : jobs'[j].assignees[v] \in Nat
        BY <1>1, <1>5, <1>6, JobFields
      <4> QED
        BY <1>7, <3>1, <4>1 DEF Nobody
    <3>2. CASE k # j
      BY <1>5, <1>7, <3>2 DEF JobsInv, InsertsNamed
    <3> QED
      BY <3>1, <3>2
  <2> QED
    BY <2>1 DEF InsertsNamed
<1>11. WithinLimits'
  BY <1>1, <1>2, <1>5, <1>6, JobFields, JobsAssumption
  DEF JobsInv, WithinLimits, AfterFailure
<1>12. ToldUnlessPending'
  <2>1. jobs'[j].state \notin {"active", "completed"}
    BY <1>5, <1>6 DEF AfterFailure
  <2> QED
    BY <1>5, <1>7, <1>73, <2>1 DEF JobsInv, ToldUnlessPending
<1>13. OnePerAttempt'
  <2> SUFFICES ASSUME NEW k \in Senders, NEW v \in Users
               PROVE  notes'[k][v] + late'[k][v] + pending'[k][v]
                        <= jobs'[k].assignees[v] * Begun(k)'
    BY DEF OnePerAttempt
  <2>1. notes[k][v] + late[k][v] + pending[k][v]
          <= jobs[k].assignees[v] * Begun(k)
    BY DEF JobsInv, OnePerAttempt
  <2>2. CASE k = j
    <3>1. Begun(j)' = Begun(j)
      <4>1. AfterFailure(n) \in {"delayed", "failed"}
        BY DEF AfterFailure
      <4> HIDE DEF n
      <4>2. jobs'[j].state \notin {"active", "completed"}
        BY <1>5, <1>6, <4>1
      <4>3. Begun(j)' = n + jobs[j].stalls
        BY <1>1, <1>3, <1>5, <1>6, <4>2, JobFields DEF Begun
      <4> QED
        BY <1>1, <1>2, <4>3, JobFields DEF Begun, n
    <3>2. jobs'[j].assignees = jobs[j].assignees
      BY <1>5, <1>6
    <3>3. pending'[j][v] = 0 /\ notes'[j][v] = notes[j][v]
      BY <1>7, <1>73 DEF Nobody
    <3>4. notes'[j][v] + late'[j][v] + pending'[j][v]
            <= notes[j][v] + late[j][v] + pending[j][v]
      BY <1>1, <1>71, <3>3, CountsTyped
    <3>5. jobs'[j].assignees[v] * Begun(j)' = jobs[j].assignees[v] * Begun(j)
      BY <3>1, <3>2
    <3>6. jobs[j].assignees[v] * Begun(j) \in Nat
      BY <1>1, CountsTyped
    <3> HIDE DEF n
    <3> QED
      BY <1>1, <1>71, <2>1, <2>2, <3>3, <3>4, <3>5, <3>6, CountsTyped
  <2>3. CASE k # j
    BY <1>5, <1>7, <1>72, <1>73, <2>1, <2>3 DEF Begun
  <2> QED
    BY <2>2, <2>3
<1>14. OneActive'
  BY <1>5, <1>6, <1>8 DEF JobsInv, OneActive
<1> QED
  BY <1>9, <1>10, <1>11, <1>12, <1>13, <1>14 DEF JobsInv

\* A late insert becomes a row, or fails and is gone.
LEMMA LateStepInv ==
    ASSUME JobsInv, NEW j \in Senders, NEW u \in Users,
           LateInsert(j, u) \/ LateInsertFails(j, u)
    PROVE  JobsInv'
<1>1. JobsTyped /\ jobs' = jobs /\ pending' = pending
  BY DEF JobsInv, LateInsert, LateInsertFails
<1>2. JobsTyped'
  <2>1. faults' \in 0 .. MaxFaults
    BY <1>1, JobsAssumption
    DEF JobsTyped, LateInsert, LateInsertFails, Fault
  <2>2. late' \in [Senders -> Bags]
    <3>1. late[j][u] \in Nat /\ late[j][u] > 0 /\ late[j] \in Bags
      BY <1>1 DEF JobsTyped, LateInsert, LateInsertFails, Bags
    <3>2. [late[j] EXCEPT ![u] = late[j][u] - 1] \in Bags
      BY <3>1 DEF Bags
    <3>3. late' = [late EXCEPT ![j] = [late[j] EXCEPT ![u] = late[j][u] - 1]]
      BY <1>1 DEF JobsTyped, LateInsert, LateInsertFails
    <3> QED
      BY <1>1, <3>2, <3>3 DEF JobsTyped
  <2>3. notes' \in [Senders -> Bags]
    <3>1. CASE LateInsert(j, u)
      BY <1>1, <3>1 DEF JobsTyped, LateInsert, Bags
    <3>2. CASE LateInsertFails(j, u)
      BY <1>1, <3>2 DEF JobsTyped, LateInsertFails, Bags
    <3> QED
      BY <3>1, <3>2
  <2> QED
    BY <1>1, <2>1, <2>2, <2>3 DEF JobsTyped
<1>3. ASSUME NEW k \in Senders, NEW v \in Users
     PROVE  /\ {notes[k][v], late[k][v], notes'[k][v], late'[k][v]} \subseteq Nat
            /\ notes'[k][v] >= notes[k][v] /\ late'[k][v] <= late[k][v]
            /\ notes'[k][v] + late'[k][v] <= notes[k][v] + late[k][v]
  <2>1. notes[k][v] \in Nat /\ late[k][v] \in Nat
    BY <1>1 DEF JobsTyped, Bags
  <2>2. notes'[k][v] \in Nat /\ late'[k][v] \in Nat
    BY <1>2 DEF JobsTyped, Bags
  <2>3. CASE k = j /\ v = u
    BY <1>1, <2>1, <2>2, <2>3 DEF JobsTyped, Bags, LateInsert, LateInsertFails
  <2>4. CASE ~(k = j /\ v = u)
    <3>1. notes'[k][v] = notes[k][v] /\ late'[k][v] = late[k][v]
      BY <1>1, <2>4 DEF JobsTyped, Bags, LateInsert, LateInsertFails
    <3> QED
      BY <2>1, <3>1
  <2> QED
    BY <2>3, <2>4
<1>4. InsertsNamed'
  BY <1>1, <1>3 DEF JobsInv, InsertsNamed
<1>5. WithinLimits'
  BY <1>1 DEF JobsInv, WithinLimits
<1>6. ToldUnlessPending'
  <2>1. ASSUME NEW k \in Senders, NEW v \in Users,
               notes[k][v] + pending[k][v] >= jobs[k].assignees[v]
       PROVE  notes'[k][v] + pending[k][v] >= jobs[k].assignees[v]
    BY <1>1, <1>3, <2>1, CountsTyped, JobFields
  <2> QED
    BY <1>1, <2>1 DEF JobsInv, ToldUnlessPending
<1>7. OnePerAttempt'
  <2> SUFFICES ASSUME NEW k \in Senders, NEW v \in Users
               PROVE  notes'[k][v] + late'[k][v] + pending'[k][v]
                        <= jobs'[k].assignees[v] * Begun(k)'
    BY DEF OnePerAttempt
  <2>1. jobs'[k].assignees[v] * Begun(k)' = jobs[k].assignees[v] * Begun(k)
    BY <1>1 DEF Begun
  <2>2. notes[k][v] + late[k][v] + pending[k][v]
          <= jobs[k].assignees[v] * Begun(k)
    BY DEF JobsInv, OnePerAttempt
  <2>3. notes'[k][v] + late'[k][v] + pending[k][v]
          <= notes[k][v] + late[k][v] + pending[k][v]
    BY <1>1, <1>3, CountsTyped
  <2> QED
    BY <1>1, <1>3, <2>1, <2>2, <2>3, CountsTyped
<1>8. OneActive'
  BY <1>1 DEF JobsInv, OneActive
<1> QED
  BY <1>2, <1>4, <1>5, <1>6, <1>7, <1>8 DEF JobsInv

\* The job of a worker that dies stalls, and nothing is under way.
LEMMA WorkerDiesInv ==
    ASSUME JobsInv, WorkerDies, Fault
    PROVE  JobsInv'
<1> DEFINE next(k) == IF jobs[k].stalls < MaxStalled THEN "waiting" ELSE "failed"
           new(k) == [jobs[k] EXCEPT !.stalls = jobs[k].stalls + 1,
                                     !.state = next(k)]
<1>1. JobsTyped
  BY DEF JobsInv
<1>2. ASSUME NEW k \in Senders, jobs[k].state = "active"
     PROVE  /\ new(k) \in Job /\ jobs'[k] = new(k)
            /\ new(k).assignees = jobs[k].assignees
            /\ new(k).failures = jobs[k].failures
            /\ new(k).stalls = jobs[k].stalls + 1
            /\ new(k).state = next(k)
            /\ jobs[k].failures < Attempts /\ jobs[k].stalls <= MaxStalled
  <2>1. jobs[k].failures < Attempts /\ jobs[k].stalls <= MaxStalled
    BY <1>2 DEF JobsInv, WithinLimits
  <2>2. jobs[k].stalls + 1 \in 0 .. MaxStalled + 1 /\ next(k) \in JobStates
    BY <1>1, <2>1, JobsAssumption, JobFields DEF JobStates
  <2>3. new(k) \in Job
    BY <1>1, <2>2, JobFields, StallTyped
  <2>4. jobs'[k] = new(k)
    BY <1>2 DEF WorkerDies
  <2>5. jobs[k] \in Job
    BY <1>1, JobFields
  <2> QED
    BY <2>1, <2>3, <2>4, <2>5 DEF Job
<1> HIDE DEF new
<1>3. \A k \in Senders : jobs[k].state # "active" => jobs'[k] = jobs[k]
  BY DEF WorkerDies
<1>4. jobs' \in [Senders -> Job]
  <2>1. \A k \in Senders : jobs'[k] \in Job
    BY <1>1, <1>2, <1>3, JobFields
  <2> QED
    BY <2>1 DEF WorkerDies
<1>5. /\ pending' = [k \in Senders |-> Nobody]
      /\ late' = [k \in Senders |-> Nobody]
      /\ notes' = notes
  BY DEF WorkerDies
<1>6. JobsTyped'
  BY <1>1, <1>4, <1>5, JobsAssumption, NobodyTyped DEF JobsTyped, Fault
<1>61. \A k \in Senders : jobs'[k].assignees = jobs[k].assignees
  BY <1>2, <1>3
<1>7. InsertsNamed'
  <2>1. \A k \in Senders : pending'[k] = Nobody
    BY <1>5
  <2>2. \A k \in Senders, u \in Users : jobs'[k].assignees[u] \in Nat
    BY <1>1, <1>61, JobFields
  <2> QED
    BY <2>1, <2>2 DEF InsertsNamed, Nobody
<1>8. WithinLimits'
  <2> SUFFICES ASSUME NEW k \in Senders
      PROVE  /\ jobs'[k].state = "none" => jobs'[k] = NoJob
             /\ jobs'[k].state # "failed" =>
                   jobs'[k].failures < Attempts /\ jobs'[k].stalls <= MaxStalled
             /\ jobs'[k].failures + jobs'[k].stalls <= Attempts + MaxStalled
    BY DEF WithinLimits
  <2>1. CASE jobs[k].state = "active"
    BY <1>1, <1>2, <2>1, JobFields, JobsAssumption
  <2>2. CASE jobs[k].state # "active"
    BY <1>3, <2>2 DEF JobsInv, WithinLimits
  <2> QED
    BY <2>1, <2>2
<1>9. ToldUnlessPending'
  <2>1. ASSUME NEW k \in Senders, jobs'[k].state \in {"active", "completed"}
       PROVE  jobs[k].state = "completed"
    BY <1>2, <1>3, <2>1
  <2>2. ASSUME NEW k \in Senders, jobs[k].state = "completed", NEW u \in Users
       PROVE  notes'[k][u] + pending'[k][u] >= jobs'[k].assignees[u]
    <3>1. notes[k][u] + pending[k][u] >= jobs[k].assignees[u]
      BY <2>2 DEF JobsInv, ToldUnlessPending
    <3>2. pending[k] = Nobody
      BY <2>2 DEF JobsInv, InsertsNamed
    <3>3. pending[k][u] = 0 /\ pending'[k][u] = 0
      BY <1>5, <3>2 DEF Nobody
    <3> QED
      BY <1>5, <1>61, <3>1, <3>3
  <2> QED
    BY <2>1, <2>2 DEF ToldUnlessPending
<1>10. OnePerAttempt'
  <2> SUFFICES ASSUME NEW k \in Senders, NEW u \in Users
               PROVE  notes'[k][u] + late'[k][u] + pending'[k][u]
                        <= jobs'[k].assignees[u] * Begun(k)'
    BY DEF OnePerAttempt
  <2>1. notes[k][u] + late[k][u] + pending[k][u]
          <= jobs[k].assignees[u] * Begun(k)
    BY DEF JobsInv, OnePerAttempt
  <2>2. Begun(k)' = Begun(k)
    BY <1>1, <1>2, <1>3, JobFields DEF Begun
  <2>3. jobs'[k].assignees[u] * Begun(k)' = jobs[k].assignees[u] * Begun(k)
        /\ jobs[k].assignees[u] * Begun(k) \in Nat
    BY <1>1, <1>61, <2>2, CountsTyped
  <2>4. late'[k][u] = 0 /\ pending'[k][u] = 0
    BY <1>5 DEF Nobody
  <2> QED
    BY <1>1, <1>5, <2>1, <2>3, <2>4, CountsTyped
<1>11. OneActive'
  BY <1>2, <1>3 DEF JobsInv, OneActive
<1> QED
  BY <1>6, <1>7, <1>8, <1>9, <1>10, <1>11 DEF JobsInv

\* The worker neither sends a job nor changes whom it names.
LEMMA WorkerKeepsNames ==
    ASSUME JobsTyped, InsertsNamed,
           (\E j \in Senders : WorkerStep(j) \/ WorkerFault(j)) \/ WorkerDies
    PROVE  \A k \in Senders :
             /\ jobs'[k].assignees = jobs[k].assignees
             /\ jobs[k].state = "none" <=> jobs'[k].state = "none"
<1> USE JobFields DEF JobsTyped, Job
<1>1. ASSUME NEW j \in Senders, NEW s \in JobStates \ {"none"},
             jobs[j].state # "none",
             \/ jobs' = [jobs EXCEPT ![j].state = s]
             \/ jobs' = [jobs EXCEPT ![j].failures = @ + 1, ![j].state = s]
     PROVE  \A k \in Senders :
              /\ jobs'[k].assignees = jobs[k].assignees
              /\ jobs[k].state = "none" <=> jobs'[k].state = "none"
  <2>1. \A k \in Senders \ {j} : jobs'[k] = jobs[k]
    BY <1>1
  <2>2. jobs[j] \in Job
    OBVIOUS
  <2>3. \/ jobs'[j] = [jobs[j] EXCEPT !.state = s]
        \/ jobs'[j] = [jobs[j] EXCEPT !.failures = @ + 1, !.state = s]
    BY <1>1
  <2>4. jobs'[j].assignees = jobs[j].assignees /\ jobs'[j].state = s
    BY <2>2, <2>3
  <2> QED
    BY <1>1, <2>1, <2>4
<1>2. ASSUME NEW j \in Senders, WorkerStep(j)
     PROVE  \A k \in Senders :
              /\ jobs'[k].assignees = jobs[k].assignees
              /\ jobs[k].state = "none" <=> jobs'[k].state = "none"
  <2>1. CASE Take(j) \/ Complete(j) \/ Retry(j)
    BY <1>1, <2>1 DEF Take, Complete, Retry, JobStates
  <2>2. CASE \E u \in Users : Insert(j, u) \/ LateInsert(j, u)
    BY <2>2 DEF Insert, LateInsert
  <2> QED
    BY <1>2, <2>1, <2>2 DEF WorkerStep
<1>3. ASSUME NEW j \in Senders, WorkerFault(j)
     PROVE  \A k \in Senders :
              /\ jobs'[k].assignees = jobs[k].assignees
              /\ jobs[k].state = "none" <=> jobs'[k].state = "none"
  BY <1>1, <1>3 
  DEF WorkerFault, InsertFails, LateInsertFails, AfterFailure, JobStates,
      InsertsNamed, Nobody
<1>4. CASE WorkerDies
  BY <1>4 DEF WorkerDies
<1> QED
  BY <1>2, <1>3, <1>4

-----------------------------------------------------------------------------
(* The requests                                                             *)

\* Writing a row leaves the others alone.
LEMMA WriteTyped ==
    ASSUME TypeOK, NEW t \in Tasks, NEW new \in Task \cup {NoTask},
           Write(t, new)
    PROVE  /\ table' \in [Tasks -> Task \cup {NoTask}]
           /\ table'[t] = new /\ \A x \in Tasks \ {t} : table'[x] = table[x]
           /\ joined' \in [Tasks -> [Users -> Nat]]
<1>1. /\ table' \in [Tasks -> Task \cup {NoTask}]
      /\ table'[t] = new /\ \A x \in Tasks \ {t} : table'[x] = table[x]
  BY DEF TypeOK, Write
<1>2. \A u \in Users : joined[t][u] \in Nat
  BY DEF TypeOK
<1>3. joined' \in [Tasks -> [Users -> Nat]]
  BY <1>2 DEF TypeOK, Write
<1> QED
  BY <1>1, <1>3

\* A task of a dto's fields is a task.
LEMMA ChangedTyped ==
    ASSUME NEW task \in Task, NEW s \in Status \cup {Same},
           NEW list \in Lists \cup {Same}
    PROVE  Changed(task, s, list) \in Task
  BY TasksAssumption DEF Task, Changed

\* So is what save() writes.
LEMMA MergedTyped ==
    ASSUME NEW cur \in Task \cup {NoTask}, NEW base \in Task \cup {NoTask},
           NEW e \in Task
    PROVE  Merged(cur, base, e) \in Task \cup {NoTask}
  BY DEF Task, Merged

\* No task, no request, no job.
LEMMA TasksInit == Init => TasksInv
<1> SUFFICES ASSUME Init PROVE TasksInv
  OBVIOUS
<1>1. JobsInv
  BY JobsInitInv DEF Init
<1>2. TypeOK
  <2>1. (CHOOSE t \in Tasks : TRUE) \in Tasks
    BY TasksAssumption
  <2> QED
    BY <1>1, <2>1, NobodyTyped DEF Init, TypeOK, JobsInv, Ended
<1>3. JobsFollowRequests
  BY TasksAssumption DEF Init, JobsInit, JobsFollowRequests, NoJob, Busy, Requests
<1>4. IdsUsed /\ Alone /\ LoneIsCurrent
  BY DEF Init, IdsUsed, Alone, LoneIsCurrent, Busy, Requests
<1> QED
  BY <1>1, <1>2, <1>3, <1>4 DEF TasksInv

-----------------------------------------------------------------------------
\* Whatever the requests do, the queue keeps its promises.
LEMMA JobsStep == ASSUME TasksInv, Next PROVE JobsInv'
<1> USE DEF TasksInv
<1>1. ASSUME UNCHANGED jobVars
     PROVE  JobsInv'
  BY <1>1
  DEF jobVars, JobsInv, JobsTyped, OneActive, InsertsNamed, WithinLimits,
      ToldUnlessPending, OnePerAttempt, Begun
<1>2. ASSUME NEW r \in Requests, Send(r)
     PROVE  JobsInv'
  <2>1. r \in Senders /\ jobs[r].state = "none" /\ added[r] \in Bags
    BY <1>2 DEF Send, JobsFollowRequests, TypeOK
  <2>2. faults' \in 0 .. MaxFaults
    BY <1>2 DEF Send, JobsInv, JobsTyped
  <2> QED
    BY <1>2, <2>1, <2>2, AddedInv DEF Send
<1>3. ASSUME UNCHANGED <<jobs, pending, late, notes>>, Fault
     PROVE  JobsInv'
  BY <1>3, JobsAssumption
  DEF JobsInv, JobsTyped, OneActive, InsertsNamed, WithinLimits,
      ToldUnlessPending, OnePerAttempt, Begun, Fault
<1>4. ASSUME NEW r \in Requests, SendFails(r)
     PROVE  JobsInv'
  <2>1. r \in Senders /\ jobs[r].state = "none" /\ added[r] \in Bags
    BY <1>4 DEF SendFails, JobsFollowRequests, TypeOK
  <2>2. faults' \in 0 .. MaxFaults
    BY <1>4, JobsAssumption DEF SendFails, Fault, JobsInv, JobsTyped
  <2>3. CASE AddJob(r, added[r])
    BY <1>4, <2>1, <2>2, <2>3, AddedInv DEF SendFails
  <2>4. CASE UNCHANGED jobs
    BY <1>3, <1>4, <2>4 DEF SendFails
  <2> QED
    BY <1>4, <2>3, <2>4 DEF SendFails
<1>5. ASSUME NEW r \in Requests, SaveFails(r)
     PROVE  JobsInv'
  BY <1>3, <1>5 DEF SaveFails
<1>6. ASSUME NEW j \in Senders, WorkerStep(j) \/ WorkerFault(j)
     PROVE  JobsInv'
  BY <1>6, TakeInv, InsertInv, StateStepInv, InsertFailsInv, LateStepInv
  DEF WorkerStep, WorkerFault
<1>7. CASE Crash
  BY <1>7, WorkerDiesInv DEF Crash
<1>8. ASSUME NEW r \in Creators, NEW t \in Tasks, NEW list \in Lists,
             Create(r, t, list)
     PROVE  JobsInv'
  BY <1>1, <1>8 DEF Create
<1>9. ASSUME NEW r \in Updaters, NEW t \in Tasks, NEW s \in Status \cup {Same},
             \/ UpdateRefused(r, t, s)
             \/ \E list \in Lists \cup {Same} : Update(r, t, s, list)
     PROVE  JobsInv'
  BY <1>1, <1>9 DEF UpdateRefused, Update
<1>10. ASSUME NEW r \in Deleters, NEW t \in Tasks, RemoveStart(r, t)
      PROVE  JobsInv'
  BY <1>1, <1>10 DEF RemoveStart
<1>11. ASSUME NEW r \in Requests,
              SaveLoad(r) \/ SaveWrite(r) \/ SaveClash(r) \/ RemoveRow(r)
      PROVE  JobsInv'
  BY <1>1, <1>11 DEF SaveLoad, SaveWrite, SaveClash, RemoveRow
<1> QED
  BY <1>2, <1>4, <1>5, <1>6, <1>7, <1>8, <1>9, <1>10, <1>11
  DEF Next, RequestStep

\* Every action keeps every variable in its type.
LEMMA TypeStep == ASSUME TasksInv, Next PROVE TypeOK'
<1> USE DEF TypeOK, Ended
<1>1. JobsTyped' /\ TypeOK
  BY JobsStep DEF JobsInv, TasksInv
<1>2. Creators \subseteq Requests /\ Updaters \subseteq Requests
      /\ Deleters \subseteq Requests
  BY DEF Requests
<1>3. ASSUME NEW r \in Creators, NEW t \in Tasks, NEW list \in Lists,
             Create(r, t, list)
     PROVE  TypeOK'
  <2>1. [status |-> "todo", assignees |-> list] \in Task
    BY DEF Task, Status
  <2>2. table' \in [Tasks -> Task \cup {NoTask}]
        /\ joined' \in [Tasks -> [Users -> Nat]]
    BY <1>1, <1>3, <2>1, WriteTyped DEF Create
  <2>3. added' \in [Requests -> Bags]
    BY <1>1, <1>2, <1>3, BagTyped DEF Create
  <2> QED
    BY <1>1, <1>2, <1>3, <2>2, <2>3 DEF Create, Goto
<1>4. ASSUME NEW r \in Updaters, NEW t \in Tasks, NEW s \in Status \cup {Same},
             UpdateRefused(r, t, s)
     PROVE  TypeOK'
  BY <1>1, <1>2, <1>4 DEF UpdateRefused, Goto
<1>5. ASSUME NEW r \in Updaters, NEW t \in Tasks, NEW s \in Status \cup {Same},
             NEW list \in Lists \cup {Same}, Update(r, t, s, list)
     PROVE  TypeOK'
  <2>1. Changed(table[t], s, list) \in Task
    BY <1>1, <1>5, ChangedTyped DEF Update
  <2>2. added' \in [Requests -> Bags]
    BY <1>1, <1>2, <1>5, NobodyTyped, BagTyped DEF Update
  <2>3. crossed' \subseteq Updaters
    BY <1>1, <1>5 DEF Update, Cross
  <2> QED
    BY <1>1, <1>2, <1>5, <2>1, <2>2, <2>3 DEF Update, Goto
<1>6. ASSUME NEW r \in Deleters, NEW t \in Tasks, RemoveStart(r, t)
     PROVE  TypeOK'
  <2>1. crossed' \subseteq Updaters
    BY <1>1, <1>6 DEF RemoveStart, Cross
  <2> QED
    BY <1>1, <1>2, <1>6, <2>1 DEF RemoveStart, Goto
<1>7. ASSUME NEW r \in Requests, SaveLoad(r)
     PROVE  TypeOK'
  BY <1>1, <1>7 DEF SaveLoad, Goto
<1>8. ASSUME NEW r \in Requests, SaveWrite(r)
     PROVE  TypeOK'
  <2>1. r \in Updaters /\ entity[r] \in Task
    BY <1>1, <1>8 DEF SaveWrite, TasksInv, JobsFollowRequests, Busy
  <2>2. Merged(table[id[r]], loaded[r], entity[r]) \in Task \cup {NoTask}
    BY <1>1, <2>1, MergedTyped
  <2>3. table' \in [Tasks -> Task \cup {NoTask}]
        /\ joined' \in [Tasks -> [Users -> Nat]]
    BY <1>1, <1>8, <2>2, WriteTyped DEF SaveWrite
  <2> QED
    BY <1>1, <1>8, <2>3, NobodyTyped DEF SaveWrite, End, Goto
<1>9. ASSUME NEW r \in Requests, SaveClash(r) \/ SaveFails(r) \/ SendFails(r)
     PROVE  TypeOK'
  <2>1. /\ entity' \in [Requests -> Task \cup {NoTask}]
        /\ loaded' \in [Requests -> Task \cup {NoTask}]
        /\ added' \in [Requests -> Bags]
        /\ at' \in [Requests -> Ended \cup {"send", "load", "save", "delete"}]
    BY <1>1, <1>9, NobodyTyped DEF SaveClash, SaveFails, SendFails, End, Goto
  <2>2. UNCHANGED <<table, used, id, joined, crossed>>
    BY <1>9 DEF SaveClash, SaveFails, SendFails
  <2> QED
    BY <1>1, <2>1, <2>2
<1>10. ASSUME NEW r \in Requests, Send(r)
      PROVE  TypeOK'
  BY <1>1, <1>10, NobodyTyped DEF Send, Goto
<1>11. ASSUME NEW r \in Requests, RemoveRow(r)
      PROVE  TypeOK'
  <2>1. table' \in [Tasks -> Task \cup {NoTask}]
        /\ joined' \in [Tasks -> [Users -> Nat]]
    BY <1>1, <1>11, WriteTyped DEF RemoveRow
  <2> QED
    BY <1>1, <1>11, <2>1 DEF RemoveRow, Goto
<1>12. ASSUME UNCHANGED taskVars
      PROVE  TypeOK'
  BY <1>1, <1>12 DEF taskVars
<1>13. CASE Crash
  BY <1>1, <1>13, NobodyTyped DEF Crash
<1> QED
  BY <1>3, <1>4, <1>5, <1>6, <1>7, <1>8, <1>9, <1>10, <1>11, <1>12, <1>13
  DEF Next, RequestStep

\* Roles do not overlap.
LEMMA Roles ==
    /\ Creators \subseteq Requests /\ Updaters \subseteq Requests
    /\ Deleters \subseteq Requests /\ Senders \subseteq Requests
    /\ \A r \in Requests : r \in Senders <=> r \notin Deleters
    /\ \A r \in Requests : r \in Creators => r \notin Updaters /\ r \notin Deleters
    /\ \A r \in Requests : r \in Updaters => r \notin Deleters
  BY TasksAssumption DEF Requests

\* A request has no job before it sends one, and keeps to its own way.
LEMMA FollowStep == ASSUME TasksInv, Next PROVE JobsFollowRequests'
<1> USE Roles DEF TasksInv, JobsFollowRequests, Busy
<1>1. JobsTyped /\ InsertsNamed /\ TypeOK
  BY DEF JobsInv
<1>2. ASSUME NEW r \in Creators, NEW t \in Tasks, NEW list \in Lists,
             Create(r, t, list)
     PROVE  JobsFollowRequests'
  BY <1>1, <1>2 DEF Create, Goto, TypeOK, jobVars
<1>3. ASSUME NEW r \in Updaters, NEW t \in Tasks, NEW s \in Status \cup {Same},
             UpdateRefused(r, t, s)
     PROVE  JobsFollowRequests'
  BY <1>1, <1>3 DEF UpdateRefused, Goto, TypeOK, jobVars
<1>4. ASSUME NEW r \in Updaters, NEW t \in Tasks, NEW s \in Status \cup {Same},
             NEW list \in Lists \cup {Same}, Update(r, t, s, list)
     PROVE  JobsFollowRequests'
  <2>1. Changed(table[t], s, list) \in Task
    BY <1>1, <1>4, ChangedTyped DEF Update, TypeOK
  <2>2. entity'[r] # NoTask
    BY <1>1, <1>4, <2>1, TasksAssumption DEF Update, TypeOK
  <2> QED
    BY <1>1, <1>4, <2>2 DEF Update, Goto, TypeOK, jobVars
<1>5. ASSUME NEW r \in Deleters, NEW t \in Tasks, RemoveStart(r, t)
     PROVE  JobsFollowRequests'
  BY <1>1, <1>5 DEF RemoveStart, Goto, TypeOK, jobVars
<1>6. ASSUME NEW r \in Requests, SaveLoad(r)
     PROVE  JobsFollowRequests'
  BY <1>1, <1>6 DEF SaveLoad, Goto, TypeOK, jobVars
<1>7. ASSUME NEW r \in Requests, SaveWrite(r) \/ SaveClash(r) \/ SaveFails(r)
     PROVE  JobsFollowRequests'
  BY <1>1, <1>7 DEF SaveWrite, SaveClash, SaveFails, End, Goto, TypeOK, jobVars
<1>8. ASSUME NEW r \in Requests, Send(r) \/ SendFails(r)
     PROVE  JobsFollowRequests'
  <2>1. \A j \in Senders \ {r} : jobs'[j] = jobs[j]
    BY <1>1, <1>8 DEF Send, SendFails, AddJob, JobsTyped
  <2>2. CASE Send(r)
    <3>1. at[r] = "send" /\ (r \in Creators \/ r \in Updaters)
      BY <2>2, TasksAssumption DEF Send
    <3>2. /\ at'[r] \in {"created", "load"}
          /\ at'[r] = "load" => r \in Updaters
          /\ \A q \in Requests \ {r} : at'[q] = at[q]
      BY <1>1, <2>2, <3>1 DEF Send, Goto, TypeOK
    <3>3. entity' = entity
      BY <2>2 DEF Send
    <3> QED
      BY <2>1, <3>1, <3>2, <3>3
  <2>3. CASE SendFails(r)
    BY <1>1, <2>1, <2>3 DEF SendFails, End, Goto, TypeOK
  <2> QED
    BY <1>8, <2>2, <2>3
<1>9. ASSUME NEW r \in Requests, RemoveRow(r)
     PROVE  JobsFollowRequests'
  BY <1>1, <1>9 DEF RemoveRow, Goto, TypeOK, jobVars
<1>10. ASSUME NEW j \in Senders, WorkerStep(j) \/ WorkerFault(j),
              UNCHANGED taskVars
      PROVE  JobsFollowRequests'
  BY <1>1, <1>10, WorkerKeepsNames DEF taskVars
<1>11. CASE Crash
  BY <1>1, <1>11, WorkerKeepsNames DEF Crash, Ended, TypeOK
<1> QED
  BY <1>2, <1>3, <1>4, <1>5, <1>6, <1>7, <1>8, <1>9, <1>10, <1>11
  DEF Next, RequestStep

\* Rows have used ids, and a busy request works on a used id.
LEMMA IdsStep == ASSUME TasksInv, Next PROVE IdsUsed'
<1> USE Roles DEF TasksInv, IdsUsed, Busy
<1>1. TypeOK /\ JobsFollowRequests
  OBVIOUS
<1>2. ASSUME NEW r \in Creators, NEW t \in Tasks, NEW list \in Lists,
             Create(r, t, list)
     PROVE  IdsUsed'
  <2>1. \A x \in Tasks \ {t} : table'[x] = table[x]
    BY <1>1, <1>2 DEF Create, Write, TypeOK
  <2> QED
    BY <1>1, <1>2, <2>1 DEF Create, Goto, TypeOK
<1>3. ASSUME NEW r \in Updaters, NEW t \in Tasks, NEW s \in Status \cup {Same},
             UpdateRefused(r, t, s)
     PROVE  IdsUsed'
  BY <1>1, <1>3 DEF UpdateRefused, Goto, TypeOK
<1>4. ASSUME NEW r \in Updaters, NEW t \in Tasks, NEW s \in Status \cup {Same},
             NEW list \in Lists \cup {Same}, Update(r, t, s, list)
     PROVE  IdsUsed'
  BY <1>1, <1>4 DEF Update, Goto, TypeOK
<1>5. ASSUME NEW r \in Deleters, NEW t \in Tasks, RemoveStart(r, t)
     PROVE  IdsUsed'
  BY <1>1, <1>5 DEF RemoveStart, Goto, TypeOK
<1>6. ASSUME NEW r \in Requests, SaveLoad(r) \/ Send(r)
     PROVE  IdsUsed'
  BY <1>1, <1>6 DEF SaveLoad, Send, Goto, TypeOK, JobsFollowRequests
<1>7. ASSUME NEW r \in Requests, SaveClash(r) \/ SaveFails(r) \/ SendFails(r)
     PROVE  IdsUsed'
  BY <1>1, <1>7 DEF SaveClash, SaveFails, SendFails, End, Goto, TypeOK
<1>8. ASSUME NEW r \in Requests, SaveWrite(r)
     PROVE  IdsUsed'
  <2>1. id[r] \in used /\ id[r] \in Tasks
    BY <1>1, <1>8 DEF SaveWrite, JobsFollowRequests, TypeOK
  <2>2. \A x \in Tasks \ {id[r]} : table'[x] = table[x]
    BY <1>1, <1>8 DEF SaveWrite, Write, TypeOK
  <2> QED
    BY <1>1, <1>8, <2>1, <2>2 DEF SaveWrite, End, Goto, TypeOK
<1>9. ASSUME NEW r \in Requests, RemoveRow(r)
     PROVE  IdsUsed'
  <2>1. \A x \in Tasks : table'[x] \in {table[x], NoTask}
    BY <1>1, <1>9 DEF RemoveRow, Write, TypeOK
  <2> QED
    BY <1>1, <1>9, <2>1 DEF RemoveRow, Goto, TypeOK
<1>10. ASSUME UNCHANGED taskVars
      PROVE  IdsUsed'
  BY <1>10 DEF taskVars
<1>11. CASE Crash
  BY <1>1, <1>11 DEF Crash, Ended
<1> QED
  BY <1>2, <1>3, <1>4, <1>5, <1>6, <1>7, <1>8, <1>9, <1>10, <1>11
  DEF Next, RequestStep

\* Whoever begins on a task while others are at it makes all of them crossed.
LEMMA AloneStep == ASSUME TasksInv, Next PROVE Alone'
<1> USE Roles DEF TasksInv, Alone, Busy
<1>1. TypeOK /\ JobsFollowRequests
  OBVIOUS
<1>2. ASSUME NEW r \in Creators, NEW t \in Tasks, NEW list \in Lists,
             Create(r, t, list)
     PROVE  Alone'
  BY <1>1, <1>2 DEF Create, Goto, TypeOK
<1>3. ASSUME NEW r \in Updaters, NEW t \in Tasks, NEW s \in Status \cup {Same},
             UpdateRefused(r, t, s)
     PROVE  Alone'
  BY <1>1, <1>3 DEF UpdateRefused, Goto, TypeOK
<1>4. ASSUME NEW r \in Updaters \cup Deleters, NEW t \in Tasks,
             NEW label \in {"send", "load", "delete"}, at[r] = "idle",
             id' = [id EXCEPT ![r] = t], Goto(r, label), Cross(r, t)
     PROVE  Alone'
  <2> SUFFICES ASSUME NEW q \in Updaters \ crossed', Busy(q)',
                      NEW p \in Updaters \cup Deleters, Busy(p)',
                      id'[p] = id'[q]
               PROVE  p = q
    OBVIOUS
  <2>1. crossed \subseteq crossed'
    BY <1>4 DEF Cross
  <2>2. \A x \in (Updaters \cup Deleters) \ {r} :
            id'[x] = id[x] /\ at'[x] = at[x]
    BY <1>1, <1>4 DEF Goto, TypeOK
  <2>3. id'[r] = t
    BY <1>1, <1>4 DEF TypeOK
  <2>4. CASE q # r /\ p # r
    BY <2>1, <2>2, <2>4
  <2>5. \A x \in (Updaters \cup Deleters) \ {r} :
            Busy(x) /\ id[x] = t => {x, r} \cap Updaters \subseteq crossed'
    BY <1>4 DEF Cross
  <2>6. CASE q = r /\ p # r
    BY <2>2, <2>3, <2>5, <2>6
  <2>7. CASE q # r /\ p = r
    BY <2>2, <2>3, <2>5, <2>7
  <2> QED
    BY <2>4, <2>6, <2>7
<1>5. ASSUME NEW r \in Updaters, NEW t \in Tasks, NEW s \in Status \cup {Same},
             NEW list \in Lists \cup {Same}, Update(r, t, s, list)
     PROVE  Alone'
  BY <1>4, <1>5 DEF Update
<1>6. ASSUME NEW r \in Deleters, NEW t \in Tasks, RemoveStart(r, t)
     PROVE  Alone'
  BY <1>4, <1>6 DEF RemoveStart
<1>7. ASSUME NEW r \in Requests, SaveLoad(r) \/ Send(r)
     PROVE  Alone'
  BY <1>1, <1>7 DEF SaveLoad, Send, Goto, TypeOK, JobsFollowRequests
<1>8. ASSUME NEW r \in Requests,
             SaveWrite(r) \/ SaveClash(r) \/ SaveFails(r) \/ SendFails(r)
     PROVE  Alone'
  BY <1>1, <1>8 DEF SaveWrite, SaveClash, SaveFails, SendFails, End, Goto, TypeOK
<1>9. ASSUME NEW r \in Requests, RemoveRow(r)
     PROVE  Alone'
  BY <1>1, <1>9 DEF RemoveRow, Goto, TypeOK
<1>10. ASSUME UNCHANGED taskVars
      PROVE  Alone'
  BY <1>10 DEF taskVars
<1>11. CASE Crash
  BY <1>1, <1>11 DEF Crash, Ended
<1> QED
  BY <1>2, <1>3, <1>5, <1>6, <1>7, <1>8, <1>9, <1>10, <1>11
  DEF Next, RequestStep

\* A lone update carries the row it began with; the job it sends names those
\* whom its save() will add.
LEMMA LoneStep == ASSUME TasksInv, Next PROVE LoneIsCurrent'
<1> USE Roles DEF TasksInv, Busy
<1>1. TypeOK /\ JobsFollowRequests /\ JobsTyped /\ InsertsNamed
  BY DEF JobsInv
<1> DEFINE Current(q) ==
             LET old == table[id[q]]
                 new == entity[q]
                 due == IF at[q] = "send" THEN added[q] ELSE jobs[q].assignees
             IN  /\ old \in Task /\ new \in Task
                 /\ new.status \in {old.status} \cup ValidNext(old.status)
                 /\ due = NewAssignees(old, new.assignees)
                 /\ at[q] = "save" => loaded[q] = old
<1>2. ASSUME NEW q \in Updaters \ crossed, Busy(q)
     PROVE  Current(q)
  BY <1>2 DEF LoneIsCurrent
<1>3. ASSUME crossed \subseteq crossed',
             \A q \in Updaters \ crossed' : Busy(q)' => Current(q)'
     PROVE  LoneIsCurrent'
  BY <1>3 DEF LoneIsCurrent
\* A request that the step does not concern, on a row it does not write.
<1>4. ASSUME NEW q \in Updaters \ crossed, Busy(q),
             at'[q] = at[q], id'[q] = id[q], entity'[q] = entity[q],
             loaded'[q] = loaded[q], added'[q] = added[q],
             table'[id[q]] = table[id[q]],
             jobs'[q].assignees = jobs[q].assignees
     PROVE  Current(q)'
  BY <1>2, <1>4
<1> HIDE DEF Current
<1>5. ASSUME NEW r \in Creators, NEW t \in Tasks, NEW list \in Lists,
             Create(r, t, list)
     PROVE  LoneIsCurrent'
  <2>1. \A x \in Tasks \ {t} : table'[x] = table[x]
    BY <1>1, <1>5 DEF Create, Write, TypeOK
  <2>2. \A q \in Updaters : Busy(q) => id[q] # t /\ id[q] \in Tasks
    BY <1>1, <1>5 DEF Create, IdsUsed, TypeOK
  <2> QED
    BY <1>1, <1>3, <1>4, <1>5, <2>1, <2>2 DEF Create, Goto, TypeOK, jobVars
<1>6. ASSUME NEW r \in Updaters, NEW t \in Tasks, NEW s \in Status \cup {Same},
             UpdateRefused(r, t, s)
     PROVE  LoneIsCurrent'
  BY <1>1, <1>3, <1>4, <1>6 DEF UpdateRefused, Goto, TypeOK, jobVars
<1>7. ASSUME NEW r \in Updaters, NEW t \in Tasks, NEW s \in Status \cup {Same},
             NEW list \in Lists \cup {Same}, Update(r, t, s, list)
     PROVE  LoneIsCurrent'
  <2>1. crossed \subseteq crossed'
    BY <1>7 DEF Update, Cross
  <2>2. ASSUME NEW q \in Updaters \ crossed', Busy(q)', q # r
       PROVE  Current(q)'
    BY <1>1, <1>4, <1>7, <2>1, <2>2 DEF Update, Goto, TypeOK, jobVars
  <2>3. Current(r)'
    <3>1. /\ id'[r] = t /\ table'[t] = table[t] /\ table[t] \in Task
          /\ entity'[r] = Changed(table[t], s, list)
      BY <1>1, <1>7 DEF Update, TypeOK
    <3>2. Changed(table[t], s, list) \in Task
      BY <3>1, ChangedTyped
    <3>3. Changed(table[t], s, list).status
            \in {table[t].status} \cup ValidNext(table[t].status)
      BY <1>7 DEF Update, AllowedStatus, Changed
    <3>4. jobs' = jobs /\ jobs[r].assignees = Nobody
      BY <1>1, <1>7
      DEF Update, jobVars, JobsFollowRequests, JobsInv, WithinLimits, NoJob
    <3>5. added'[r] = NewAssignees(table[t], Changed(table[t], s, list).assignees)
          /\ at'[r] = IF added'[r] = Nobody THEN "load" ELSE "send"
      <4>1. CASE list = Same
        <5>1. Changed(table[t], s, list).assignees = table[t].assignees
          BY <4>1 DEF Changed
        <5>2. NewAssignees(table[t], table[t].assignees) = Nobody
          BY <3>1, NobodyNew
        <5> QED
          BY <1>1, <1>7, <4>1, <5>1, <5>2 DEF Update, Goto, TypeOK
      <4>2. CASE list # Same
        <5>1. Changed(table[t], s, list).assignees = list
          BY <4>2 DEF Changed
        <5> QED
          BY <1>1, <1>7, <4>2, <5>1 DEF Update, Goto, TypeOK
      <4> QED
        BY <4>1, <4>2
    <3> HIDE DEF NewAssignees
    <3> QED
      BY <3>1, <3>2, <3>3, <3>4, <3>5 DEF Current
  <2> QED
    BY <1>3, <2>1, <2>2, <2>3
<1>8. ASSUME NEW r \in Deleters, NEW t \in Tasks, RemoveStart(r, t)
     PROVE  LoneIsCurrent'
  <2>1. crossed \subseteq crossed'
    BY <1>8 DEF RemoveStart, Cross
  <2> QED
    BY <1>1, <1>3, <1>4, <1>8, <2>1 DEF RemoveStart, Goto, TypeOK, jobVars
<1>9. ASSUME NEW r \in Requests, SaveLoad(r)
     PROVE  LoneIsCurrent'
  <2>1. ASSUME NEW q \in Updaters \ crossed, Busy(q)', q # r
       PROVE  Current(q)'
    BY <1>1, <1>4, <1>9, <2>1 DEF SaveLoad, Goto, TypeOK, jobVars
  <2>2. ASSUME r \in Updaters \ crossed
       PROVE  Current(r)'
    <3>1. Current(r) /\ at[r] = "load"
      BY <1>2, <1>9, <2>2 DEF SaveLoad
    <3>2. at'[r] = "save" /\ loaded'[r] = table[id[r]]
      BY <1>1, <1>9 DEF SaveLoad, Goto, TypeOK
    <3> QED
      BY <1>9, <3>1, <3>2 DEF Current, SaveLoad, jobVars
  <2> QED
    BY <1>3, <1>9, <2>1, <2>2 DEF SaveLoad
<1>10. ASSUME NEW r \in Requests, SaveWrite(r) \/ RemoveRow(r)
      PROVE  LoneIsCurrent'
  <2>1. \A x \in Tasks \ {id[r]} : table'[x] = table[x]
    BY <1>1, <1>10 DEF SaveWrite, RemoveRow, Write, TypeOK
  <2>2. Busy(r) /\ (r \in Updaters \/ r \in Deleters)
    BY <1>1, <1>10 DEF SaveWrite, RemoveRow, JobsFollowRequests
  <2>3. /\ at'[r] \notin {"send", "load", "save", "delete"}
        /\ crossed' = crossed /\ id' = id /\ jobs' = jobs
        /\ \A q \in Requests \ {r} :
             /\ at'[q] = at[q] /\ entity'[q] = entity[q]
             /\ loaded'[q] = loaded[q] /\ added'[q] = added[q]
    BY <1>1, <1>10 DEF SaveWrite, RemoveRow, End, Goto, TypeOK, jobVars
  <2>4. ASSUME NEW q \in Updaters \ crossed, Busy(q)'
       PROVE  Current(q)'
    <3>1. q # r /\ Busy(q)
      BY <2>3, <2>4
    <3>2. id[q] # id[r] /\ id[q] \in Tasks
      BY <1>1, <2>2, <3>1 DEF Alone, TypeOK
    <3> QED
      BY <1>4, <2>1, <2>3, <3>1, <3>2
  <2> QED
    BY <1>3, <2>3, <2>4
<1>11. ASSUME NEW r \in Requests,
              SaveClash(r) \/ SaveFails(r) \/ SendFails(r)
      PROVE  LoneIsCurrent'
  <2>1. \A q \in Senders \ {r} : jobs'[q] = jobs[q]
    BY <1>1, <1>11
    DEF SaveClash, SaveFails, SendFails, AddJob, JobsTyped, jobVars
  <2>2. /\ at'[r] = "error" /\ crossed' = crossed /\ id' = id /\ table' = table
        /\ \A q \in Requests \ {r} :
             /\ at'[q] = at[q] /\ entity'[q] = entity[q]
             /\ loaded'[q] = loaded[q] /\ added'[q] = added[q]
    BY <1>1, <1>11 DEF SaveClash, SaveFails, SendFails, End, Goto, TypeOK
  <2> QED
    BY <1>3, <1>4, <2>1, <2>2, TasksAssumption
<1>12. ASSUME NEW r \in Requests, Send(r)
      PROVE  LoneIsCurrent'
  <2>1. r \in Senders /\ (r \in Updaters <=> r \notin Creators)
    BY <1>1, <1>12, TasksAssumption DEF Send, JobsFollowRequests
  <2>2. /\ \A q \in Senders \ {r} : jobs'[q] = jobs[q]
        /\ jobs'[r].assignees = added[r]
    BY <1>1, <1>12, <2>1 DEF Send, AddJob, JobsTyped, NoJob
  <2>3. ASSUME NEW q \in Updaters \ crossed, Busy(q)', q # r
       PROVE  Current(q)'
    BY <1>1, <1>4, <1>12, <2>2, <2>3, TasksAssumption DEF Send, Goto, TypeOK
  <2>4. ASSUME r \in Updaters \ crossed
       PROVE  Current(r)'
    <3>1. Current(r) /\ at[r] = "send"
      BY <1>2, <1>12, <2>4 DEF Send
    <3>2. at'[r] = "load"
      BY <1>1, <1>12, <2>1, <2>4 DEF Send, Goto, TypeOK
    <3> QED
      BY <1>12, <2>2, <3>1, <3>2 DEF Current, Send
  <2> QED
    BY <1>3, <1>12, <2>3, <2>4 DEF Send
<1>13. ASSUME NEW j \in Senders, WorkerStep(j) \/ WorkerFault(j),
              UNCHANGED taskVars
      PROVE  LoneIsCurrent'
  BY <1>1, <1>3, <1>4, <1>13, WorkerKeepsNames, TasksAssumption DEF taskVars
<1>14. CASE Crash
  BY <1>1, <1>3, <1>14 DEF Crash, Ended, TypeOK
<1> QED
  BY <1>5, <1>6, <1>7, <1>8, <1>9, <1>10, <1>11, <1>12, <1>13, <1>14
  DEF Next, RequestStep

-----------------------------------------------------------------------------
(* The refinement: what the sender sees of the queue.                       *)

Outcomes == [j \in Senders |-> OutcomeOf(jobs[j].state)]
Named == [j \in Senders |-> jobs[j].assignees]
Promise == <<Outcomes, Named, notes>>

\* The queue's view of a job's end, state by state.
LEMMA OutcomeOfStates ==
    /\ OutcomeOf("none") = "unsent"
    /\ OutcomeOf("completed") = "done" /\ OutcomeOf("failed") = "given up"
    /\ \A s \in {"waiting", "active", "delayed"} : OutcomeOf(s) = "open"
  BY DEF OutcomeOf

\* A step that keeps every job's outcome, names and rows is a stutter.
LEMMA PromiseKept ==
    ASSUME \A k \in Senders : /\ OutcomeOf(jobs'[k].state) = OutcomeOf(jobs[k].state)
                              /\ jobs'[k].assignees = jobs[k].assignees,
           notes' = notes
    PROVE  UNCHANGED Promise
  BY DEF Promise, Outcomes, Named

\* A step that takes one job from open to its end settles it.
LEMMA PromiseSettled ==
    ASSUME NEW j \in Senders, NEW end \in {"done", "given up"},
           OutcomeOf(jobs[j].state) = "open", OutcomeOf(jobs'[j].state) = end,
           end = "done" =>
               \A u \in Users : notes[j][u] >= jobs[j].assignees[u],
           \A k \in Senders \ {j} :
               OutcomeOf(jobs'[k].state) = OutcomeOf(jobs[k].state),
           \A k \in Senders : jobs'[k].assignees = jobs[k].assignees,
           notes' = notes
    PROVE  Delivery!Next
<1>1. Outcomes' = [Outcomes EXCEPT ![j] = end] /\ Named' = Named
  BY DEF Outcomes, Named
<1>2. Outcomes[j] = "open"
  BY DEF Outcomes
<1>3. Delivery!Settle(j, end)
  BY <1>1, <1>2 DEF Delivery!Settle, Outcomes, Named
<1> QED
  BY <1>3 DEF Delivery!Next

\* A row from an insert under way tells somebody a job names, while there is
\* one row less than entries and attempts allow.
LEMMA PromiseTold ==
    ASSUME JobsInv, NEW j \in Senders, NEW u \in Users, jobs' = jobs,
           notes' = [notes EXCEPT ![j][u] = @ + 1],
           pending[j][u] > 0 \/ late[j][u] > 0
    PROVE  Delivery!Next
<1> DEFINE a == jobs[j].assignees[u]
<1>1. JobsTyped
  BY DEF JobsInv
<1>2. /\ notes[j][u] \in Nat /\ late[j][u] \in Nat /\ pending[j][u] \in Nat
      /\ a \in Nat /\ Begun(j) \in Nat /\ a * Begun(j) \in Nat
  BY <1>1, CountsTyped, JobFields
<1>3. Begun(j) <= Attempts + MaxStalled /\ Attempts + MaxStalled \in Nat
  BY <1>1, JobsAssumption, JobFields DEF JobsInv, WithinLimits, Begun
<1>4. a * Begun(j) <= a * (Attempts + MaxStalled)
      /\ a * (Attempts + MaxStalled) \in Nat
  BY <1>2, <1>3, Products
<1>5. notes[j][u] + late[j][u] + pending[j][u] <= a * Begun(j)
  BY DEF JobsInv, OnePerAttempt
<1> HIDE DEF a
<1>6. notes[j][u] < a * (Attempts + MaxStalled)
  BY <1>2, <1>4, <1>5
<1>7. Delivery!Tell(j, u)
  BY <1>6 DEF Delivery!Tell, a
<1> QED
  BY <1>7 DEF Delivery!Next

\* An insert under way belongs to an active job ...
LEMMA ActiveWhenPending ==
    ASSUME JobsInv, NEW j \in Senders, NEW u \in Users, pending[j][u] > 0
    PROVE  jobs[j].state = "active"
<1>1. pending[j] # Nobody
  BY DEF Nobody
<1> QED
  BY <1>1 DEF JobsInv, InsertsNamed

\* ... and without any every entry of it has been told.
LEMMA ToldWhenComplete ==
    ASSUME JobsInv, NEW j \in Senders, Complete(j)
    PROVE  \A u \in Users : notes[j][u] >= jobs[j].assignees[u]
<1> SUFFICES ASSUME NEW u \in Users
             PROVE  notes[j][u] >= jobs[j].assignees[u]
  OBVIOUS
<1>1. notes[j][u] + pending[j][u] >= jobs[j].assignees[u]
  BY DEF Complete, JobsInv, ToldUnlessPending
<1>2. pending[j][u] = 0
  BY DEF Complete, Nobody
<1>3. notes[j][u] \in Nat
  BY CountsTyped DEF JobsInv
<1> QED
  BY <1>1, <1>2, <1>3

\* A job sent is a promise made.
LEMMA PromiseMade ==
    ASSUME JobsInv, NEW j \in Senders, NEW bag \in Bags,
           jobs[j].state = "none", AddJob(j, bag), notes' = notes
    PROVE  Delivery!Next
<1>1. /\ jobs'[j].state = "waiting" /\ jobs'[j].assignees = bag
      /\ \A k \in Senders \ {j} : jobs'[k] = jobs[k]
  BY DEF AddJob, NoJob, JobsInv, JobsTyped
<1>2. Outcomes' = [Outcomes EXCEPT ![j] = "open"]
  BY <1>1, OutcomeOfStates DEF Outcomes
<1>3. Outcomes[j] = "unsent"
  BY OutcomeOfStates DEF Outcomes
<1>4. /\ Named'[j] \in Delivery!Bags
      /\ \A k \in Senders \ {j} : Named'[k] = Named[k]
  BY <1>1 DEF Named, Bags, Delivery!Bags
<1>5. Delivery!Send(j)
  BY <1>2, <1>3, <1>4 DEF Delivery!Send, Outcomes, Named
<1> QED
  BY <1>5 DEF Delivery!Next

\* Every step of requests, queue and worker is a step of the promise or leaves
\* it as it is.
LEMMA DeliveryStep ==
    ASSUME TasksInv, Next
    PROVE  Delivery!Next \/ UNCHANGED Promise
<1> USE OutcomeOfStates DEF TasksInv
<1>1. JobsTyped /\ InsertsNamed /\ JobsInv /\ TypeOK
  BY DEF JobsInv
<1>2. ASSUME UNCHANGED <<jobs, notes>>
     PROVE  UNCHANGED Promise
  BY <1>2, PromiseKept
<1>3. ASSUME NEW r \in Requests, Send(r) \/ SendFails(r)
     PROVE  Delivery!Next \/ UNCHANGED Promise
  <2>1. r \in Senders /\ jobs[r].state = "none" /\ added[r] \in Bags
    BY <1>1, <1>3 DEF Send, SendFails, JobsFollowRequests, TypeOK
  <2> QED
    BY <1>1, <1>2, <1>3, <2>1, PromiseMade DEF Send, SendFails
<1>4. ASSUME NEW j \in Senders, Take(j) \/ Retry(j)
     PROVE  UNCHANGED Promise
  <2>1. jobs[j] \in Job /\ jobs[j].state \in {"waiting", "delayed"}
    BY <1>1, <1>4, JobFields DEF Take, Retry
  <2>2. PICK s \in {"active", "waiting"} : jobs' = [jobs EXCEPT ![j].state = s]
    BY <1>4 DEF Take, Retry
  <2>3. jobs'[j].state = s /\ jobs'[j].assignees = jobs[j].assignees
    BY <1>1, <2>1, <2>2 DEF JobsTyped, Job
  <2>4. \A k \in Senders \ {j} : jobs'[k] = jobs[k]
    BY <1>1, <2>2 DEF JobsTyped
  <2>5. notes' = notes
    BY <1>4 DEF Take, Retry
  <2> QED
    BY <2>1, <2>3, <2>4, <2>5, PromiseKept
<1>5. ASSUME NEW j \in Senders, Complete(j)
     PROVE  Delivery!Next
  <2>1. \A u \in Users : notes[j][u] >= jobs[j].assignees[u]
    BY <1>1, <1>5, ToldWhenComplete
  <2>2. /\ jobs[j].state = "active" /\ jobs'[j].state = "completed"
        /\ \A k \in Senders \ {j} : jobs'[k] = jobs[k]
        /\ jobs'[j].assignees = jobs[j].assignees
    BY <1>1, <1>5 DEF Complete, JobsTyped, Job
  <2> QED
    BY <1>5, <2>1, <2>2, PromiseSettled DEF Complete
<1>6. ASSUME NEW j \in Senders, NEW u \in Users, Insert(j, u) \/ LateInsert(j, u)
     PROVE  Delivery!Next
  BY <1>1, <1>6, PromiseTold DEF Insert, LateInsert
<1>7. ASSUME NEW j \in Senders, NEW u \in Users, InsertFails(j, u)
     PROVE  Delivery!Next \/ UNCHANGED Promise
  <2>1. jobs[j].state = "active"
    BY <1>1, <1>7, ActiveWhenPending DEF InsertFails
  <2>2. /\ jobs'[j].state \in {"delayed", "failed"}
        /\ \A k \in Senders \ {j} : jobs'[k] = jobs[k]
        /\ jobs'[j].assignees = jobs[j].assignees
    BY <1>1, <1>7 DEF InsertFails, AfterFailure, JobsTyped, Job
  <2> QED
    BY <1>7, <2>1, <2>2, PromiseSettled, PromiseKept DEF InsertFails
<1>8. ASSUME NEW j \in Senders, NEW u \in Users, LateInsertFails(j, u)
     PROVE  UNCHANGED Promise
  BY <1>2, <1>8 DEF LateInsertFails
<1>9. CASE Crash
  <2>1. WorkerDies /\ notes' = notes
    BY <1>9 DEF Crash, WorkerDies
  <2>2. \A k \in Senders : jobs'[k].assignees = jobs[k].assignees
    BY <1>1, <2>1, WorkerKeepsNames
  <2>3. \A k \in Senders : jobs[k].state # "active" => jobs'[k] = jobs[k]
    BY <2>1 DEF WorkerDies
  <2>4. CASE \E j \in Senders : jobs[j].state = "active"
    <3>1. PICK j \in Senders : jobs[j].state = "active"
      BY <2>4
    <3>2. \A k \in Senders \ {j} : jobs'[k] = jobs[k]
      BY <1>1, <2>3, <3>1 DEF JobsInv, OneActive
    <3>3. jobs'[j].state \in {"waiting", "failed"}
      BY <1>1, <2>1, <3>1 DEF WorkerDies, JobsTyped, Job
    <3> QED
      BY <2>1, <2>2, <3>1, <3>2, <3>3, PromiseSettled, PromiseKept
  <2>5. CASE \A j \in Senders : jobs[j].state # "active"
    BY <2>1, <2>2, <2>3, <2>5, PromiseKept
  <2> QED
    BY <2>4, <2>5
<1>10. ASSUME NEW r \in Creators, NEW t \in Tasks, NEW list \in Lists,
              Create(r, t, list)
      PROVE  UNCHANGED Promise
  BY <1>2, <1>10 DEF Create, jobVars
<1>11. ASSUME NEW r \in Updaters, NEW t \in Tasks, NEW s \in Status \cup {Same},
              \/ UpdateRefused(r, t, s)
              \/ \E list \in Lists \cup {Same} : Update(r, t, s, list)
      PROVE  UNCHANGED Promise
  BY <1>2, <1>11 DEF UpdateRefused, Update, jobVars
<1>12. ASSUME NEW r \in Deleters, NEW t \in Tasks, RemoveStart(r, t)
      PROVE  UNCHANGED Promise
  BY <1>2, <1>12 DEF RemoveStart, jobVars
<1>13. ASSUME NEW r \in Requests,
              \/ SaveLoad(r) \/ SaveWrite(r) \/ SaveClash(r) \/ SaveFails(r)
              \/ RemoveRow(r)
      PROVE  UNCHANGED Promise
  BY <1>2, <1>13
  DEF SaveLoad, SaveWrite, SaveClash, SaveFails, RemoveRow, jobVars
<1> QED
  BY <1>3, <1>4, <1>5, <1>6, <1>7, <1>8, <1>9, <1>10, <1>11, <1>12, <1>13
  DEF Next, RequestStep, WorkerStep, WorkerFault

-----------------------------------------------------------------------------
(* The theorems                                                             *)

\* Every reachable state of requests, queue and worker satisfies the inductive
\* invariant.
THEOREM TasksInductive == Spec => []TasksInv
<1>1. TasksInv /\ [Next]_vars => TasksInv'
  <2>1. ASSUME TasksInv, UNCHANGED vars PROVE TasksInv'
    BY <2>1
    DEF vars, jobVars, taskVars, TasksInv, TypeOK, JobsInv, JobsTyped,
        OneActive, InsertsNamed, WithinLimits, ToldUnlessPending,
        OnePerAttempt, Begun, JobsFollowRequests, IdsUsed, Alone,
        LoneIsCurrent, Busy
  <2> QED
    BY <2>1, TypeStep, JobsStep, FollowStep, IdsStep, AloneStep, LoneStep
    DEF TasksInv
<1> QED
  BY TasksInit, <1>1, PTL DEF Spec

\* Every variable of the tasks and of their jobs keeps its type.
THEOREM TasksTypeCorrect == Spec => []TypeOK
<1>1. TasksInv => TypeOK
  BY DEF TasksInv
<1> QED
  BY TasksInductive, <1>1, PTL

\* A job that counts as completed has left a notification for every entry of
\* its list, through retries, stalls, late inserts and crashes.
THEOREM CompletedNotified == Spec => []CompletedMeansNotified
<1>1. ASSUME TasksInv, NEW j \in Senders, jobs[j].state = "completed",
             NEW u \in Users
     PROVE  notes[j][u] >= jobs[j].assignees[u]
  <2>1. JobsTyped /\ pending[j] = Nobody
    BY <1>1 DEF TasksInv, JobsInv, InsertsNamed
  <2>2. notes[j][u] \in Nat /\ pending[j][u] = 0
    BY <2>1, CountsTyped DEF Nobody
  <2>3. notes[j][u] + pending[j][u] >= jobs[j].assignees[u]
    BY <1>1 DEF TasksInv, JobsInv, ToldUnlessPending
  <2> QED
    BY <2>2, <2>3
<1>2. TasksInv => CompletedMeansNotified
  BY <1>1 DEF CompletedMeansNotified
<1> QED
  BY TasksInductive, <1>2, PTL

\* No job leaves more notifications for a user than his entries in its list
\* times the attempts the queue makes.
THEOREM DuplicatesAreBounded == Spec => []DuplicatesBounded
<1>1. ASSUME TasksInv, NEW j \in Senders, NEW u \in Users
     PROVE  notes[j][u] <= jobs[j].assignees[u] * (Attempts + MaxStalled)
  <2> DEFINE a == jobs[j].assignees[u]
  <2>1. JobsTyped
    BY <1>1 DEF TasksInv, JobsInv
  <2>2. /\ notes[j][u] \in Nat /\ late[j][u] \in Nat /\ pending[j][u] \in Nat
        /\ a \in Nat /\ Begun(j) \in Nat /\ a * Begun(j) \in Nat
    BY <2>1, CountsTyped, JobFields
  <2>3. Begun(j) <= Attempts + MaxStalled /\ Attempts + MaxStalled \in Nat
    BY <1>1, <2>1, JobsAssumption, JobFields
    DEF TasksInv, JobsInv, WithinLimits, Begun
  <2>4. a * Begun(j) <= a * (Attempts + MaxStalled)
        /\ a * (Attempts + MaxStalled) \in Nat
    BY <2>2, <2>3, Products
  <2>5. notes[j][u] + late[j][u] + pending[j][u] <= a * Begun(j)
    BY <1>1 DEF TasksInv, JobsInv, OnePerAttempt
  <2> HIDE DEF a
  <2>6. notes[j][u] <= a * (Attempts + MaxStalled)
    BY <2>2, <2>4, <2>5
  <2> QED
    BY <2>6 DEF a
<1>2. TasksInv => DuplicatesBounded
  BY <1>1 DEF DuplicatesBounded
<1> QED
  BY TasksInductive, <1>2, PTL

\* Requests, queue, worker and handler together deliver as promised to the
\* sender of a job.
THEOREM DeliveryImplemented == Spec => ImplementsDelivery
<1>1. Init => Delivery!Init
  <2> SUFFICES ASSUME Init PROVE Delivery!Init
    OBVIOUS
  <2>1. \A j \in Senders :
            OutcomeOf(jobs[j].state) = "unsent" /\ jobs[j].assignees = Nobody
    BY OutcomeOfStates DEF Init, JobsInit, NoJob
  <2>2. notes = [j \in Senders |-> Nobody]
    BY DEF Init, JobsInit
  <2> QED
    BY <2>1, <2>2 DEF Delivery!Init, Delivery!Nobody, Nobody
<1>2. TasksInv /\ [Next]_vars => [Delivery!Next]_Promise
  <2>1. UNCHANGED vars => UNCHANGED Promise
    BY DEF vars, jobVars, Promise, Outcomes, Named
  <2> QED
    BY <2>1, DeliveryStep
<1> QED
  BY <1>1, <1>2, TasksInductive, PTL
  DEF Spec, ImplementsDelivery, Delivery!Spec, Promise, Outcomes, Named

\* A lone update writes what it decided on, and tells exactly the users it adds.
THEOREM LoneUpdatesAreFit == Spec => LoneUpdatesFit
<1>1. ASSUME TasksInv, Next, NEW r \in Updaters \ crossed,
             at[r] = "save", at'[r] = "updated"
     PROVE  LET old == table[id[r]]
                new == table'[id[r]]
            IN  /\ new.status \in {old.status} \cup ValidNext(old.status)
                /\ jobs[r].assignees = NewAssignees(old, new.assignees)
  <2>1. TypeOK /\ JobsFollowRequests /\ id[r] \in Tasks /\ r \in Requests
    BY <1>1, Roles DEF TasksInv, TypeOK
  <2>2. SaveWrite(r)
    <3> USE <1>1, <2>1, Roles DEF TypeOK, Goto, End
    <3>1. ASSUME NEW q \in Creators, NEW t \in Tasks,
                 NEW list \in Lists, Create(q, t, list)
         PROVE  FALSE
      BY <3>1 DEF Create
    <3>2. ASSUME NEW q \in Updaters, NEW t \in Tasks,
                 NEW s \in Status \cup {Same},
                 \/ UpdateRefused(q, t, s)
                 \/ \E list \in Lists \cup {Same} :
                        Update(q, t, s, list)
         PROVE  FALSE
      BY <3>2 DEF UpdateRefused, Update
    <3>3. ASSUME NEW q \in Deleters, NEW t \in Tasks, RemoveStart(q, t)
         PROVE  FALSE
      BY <3>3 DEF RemoveStart
    <3>4. ASSUME NEW q \in Requests,
                 \/ SaveLoad(q) \/ SaveClash(q) \/ Send(q) \/ RemoveRow(q)
                 \/ SendFails(q) \/ SaveFails(q)
         PROVE  FALSE
      BY <3>4 DEF SaveLoad, SaveClash, Send, RemoveRow, SendFails, SaveFails
    <3>5. ASSUME UNCHANGED taskVars
         PROVE  FALSE
      BY <3>5 DEF taskVars
    <3>6. CASE Crash
      BY <3>6 DEF Crash, Ended
    <3>7. ASSUME NEW q \in Requests, SaveWrite(q), q # r
         PROVE  FALSE
      BY <3>7 DEF SaveWrite
    <3> QED
      BY <3>1, <3>2, <3>3, <3>4, <3>5, <3>6, <3>7 DEF Next, RequestStep
  <2>3. /\ table[id[r]] \in Task /\ entity[r] \in Task
        /\ entity[r].status
             \in {table[id[r]].status} \cup ValidNext(table[id[r]].status)
        /\ jobs[r].assignees
             = NewAssignees(table[id[r]], entity[r].assignees)
        /\ loaded[r] = table[id[r]]
    BY <1>1 DEF TasksInv, LoneIsCurrent, Busy
  <2>4. Merged(table[id[r]], loaded[r], entity[r]) = entity[r]
    BY <2>3, TasksAssumption DEF Merged, Task
  <2>5. table'[id[r]] = entity[r]
    BY <2>1, <2>2, <2>4 DEF SaveWrite, Write, TypeOK
  <2> QED
    BY <2>3, <2>5
<1> DEFINE Fit ==
             \A r \in Updaters \ crossed :
                 LET old == table[id[r]]
                     new == table'[id[r]]
                 IN  (at[r] = "save" /\ at'[r] = "updated")
                       => /\ new.status \in {old.status} \cup ValidNext(old.status)
                          /\ jobs[r].assignees = NewAssignees(old, new.assignees)
<1>2. TasksInv /\ [Next]_vars => [Fit]_vars
  BY <1>1
<1> QED
  BY TasksInductive, <1>2, PTL DEF Spec, LoneUpdatesFit
=============================================================================

-------------------------------- MODULE Lists --------------------------------
(***************************************************************************)
(* The paged lists: list of FilesService, TasksService and                  *)
(* NotificationsService and listByDoc of CommentsService.  They are alike:  *)
(* filter, ORDER BY a time DESC, skip and take, and a count in a second     *)
(* statement.  A client walks one of them page by page while rows come,     *)
(* move and go.                                                             *)
(*                                                                          *)
(* Times of two rows differ, so the order is a sequence.  Documents are     *)
(* left out: their pages come from the list cache of module Documents, and  *)
(* two pages may show the table at two times.                               *)
(***************************************************************************)
EXTENDS SequencesExt

CONSTANTS
    Rows,      \* ids of rows
    PageSize,
    MaxChanges \* bound on changes while a client walks

ASSUME ListsAssumption ==
    PageSize \in Nat \ {0} /\ MaxChanges \in Nat /\ IsFiniteSet(Rows)

Kinds == {"files", "tasks", "notifications", "comments"}

VARIABLES
    kind,    \* the list walked
    list,    \* its rows, in its order
    walk,    \* where the client is: "items", "count" or "done"
    page,    \* the page it asks for
    seen,    \* rows it has got
    kept,    \* history: rows there from the start of the walk, not moved since
    shifts,  \* history: how often a row has left the list or moved back in it
    changes

listVars == <<kind, list, walk, page, seen, kept, shifts, changes>>

ListsInit ==
    /\ kind \in Kinds
    /\ list \in {s \in UNION {[1 .. n -> Rows] : n \in 0 .. Cardinality(Rows)} :
                   IsInjective(s)}
    /\ walk = "items" /\ page = 1
    /\ seen = {} /\ kept = Range(list) /\ shifts = 0 /\ changes = 0

Change == walk # "done" /\ changes < MaxChanges /\ changes' = changes + 1

-----------------------------------------------------------------------------
(* What happens to the rows                                                 *)

\* A row that was not in the list gets the place of its time.
Insert(r, i) ==
    /\ Change
    /\ r \notin Range(list)
    /\ list' = InsertAt(list, i, r)
    /\ UNCHANGED <<kind, walk, page, seen, kept, shifts>>

\* create of any of the services: the newest row comes first.
Enter(r) == Insert(r, 1)

\* A file or task enters the status asked for, or the save of a stale entity
\* writes a removed one back; its time may be an old one.
ComeBack(r) ==
    kind \in {"files", "tasks"} /\ \E i \in 1 .. Len(list) + 1 : Insert(r, i)

PlaceOf(r) == CHOOSE i \in DOMAIN list : list[i] = r
Without(r) == RemoveAt(list, PlaceOf(r))

Duplicated(r, i) == InsertAt(list, i, r)
\* The list with r at place i.
Moved(r, i) == InsertAt(Without(r), i, r)

\* A row moves; one that moves back lets those it passes move up.
Move(r, i) ==
    /\ Change
    /\ kind = "tasks"
    /\ r \in Range(list)
    /\ list' = Moved(r, i)
    /\ kept' = kept \ {r}
    /\ shifts' = IF i > PlaceOf(r) THEN shifts + 1 ELSE shifts
    /\ UNCHANGED <<kind, walk, page, seen>>

\* Tasks are ordered by updatedAt: an update moves the row to the front ...
Touch(r) == Move(r, 1)

\* ... but when another update was saved since its entity was read, the save
\* writes the old updatedAt back.  A save that changes nothing moves nothing.
TouchStale(r) == \E i \in DOMAIN list : Move(r, i)

Drop(r) ==
    /\ Change
    /\ r \in Range(list)
    /\ list' = Without(r)
    /\ kept' = kept \ {r}
    /\ shifts' = shifts + 1
    /\ UNCHANGED <<kind, walk, page, seen>>

\* remove of the services; notifications are never removed.
Delete(r) == kind # "notifications" /\ Drop(r)

\* NotificationsService.markAsRead takes a row out of the unread ones, for its
\* owner only; what it saves is `read' alone.
MarkAsRead(r) == kind = "notifications" /\ Drop(r)

\* An update takes a file or task out of the status or assignee asked for.
LeaveStatus(r) == kind \in {"files", "tasks"} /\ Drop(r)

-----------------------------------------------------------------------------
(* The walk                                                                 *)

SkipPage(n) == n * PageSize
\* skip: (page - 1) * pageSize
Skip(n) == (n - 1) * PageSize

\* skip and take
PageOf(s, n) == SubSeq(s, Skip(n) + 1, Min({Skip(n) + PageSize, Len(s)}))

\* A page that is not full tells TypeORM the total: it asks for no count.
TellsTotal(n) ==
    Len(list) < n * PageSize /\ (n = 1 \/ Skip(n) < Len(list))

\* getManyAndCount and findAndCount: the rows of the page ...
FetchItems ==
    /\ walk = "items"
    /\ seen' = seen \cup Range(PageOf(list, page))
    /\ walk' = IF TellsTotal(page) THEN "done" ELSE "count"
    /\ UNCHANGED <<kind, list, page, kept, shifts, changes>>

\* ... and the total, in a statement of its own.  The client goes on while
\* there are more rows than it has asked for.
FetchCount ==
    /\ walk = "count"
    /\ IF page * PageSize < Len(list)
       THEN walk' = "items" /\ page' = page + 1
       ELSE walk' = "done" /\ UNCHANGED page
    /\ UNCHANGED <<kind, list, seen, kept, shifts, changes>>

ListsNext ==
    \/ \E r \in Rows :
         \/ Enter(r) \/ ComeBack(r)
         \/ Touch(r) \/ TouchStale(r)
         \/ Delete(r) \/ MarkAsRead(r) \/ LeaveStatus(r)
    \/ FetchItems \/ FetchCount

ListsSpec == ListsInit /\ [][ListsNext]_listVars

-----------------------------------------------------------------------------
(* Properties *)

\* The type of every variable.
ListsTyped ==
    /\ kind \in Kinds
    /\ list \in Seq(Rows) /\ IsInjective(list)
    /\ walk \in {"items", "count", "done"}
    /\ page \in Nat \ {0}
    /\ seen \subseteq Rows /\ kept \subseteq Rows
    /\ shifts \in Nat /\ changes \in 0 .. MaxChanges

\* Of the rows that are there all the time and do not move, a client that
\* walks all pages misses at most one for each time a row left the list or
\* moved back in it, and none when rows only come and move to the front,
\* between its requests or between the two statements of one.
WalksMissFew ==
    walk = "done" => Cardinality(kept \ seen) <= shifts

-----------------------------------------------------------------------------
(* The inductive invariant behind WalksMissFew.                             *)

\* The rows a client has missed among the first k of the list, and how far
\* it has come.
Missed(k) == {r \in kept \ seen : \E i \in DOMAIN list : i <= k /\ list[i] = r}
Passed == IF walk = "items" THEN Skip(page) ELSE page * PageSize

\* A row slips past the client only when one that left or moved back made room
\* for it: at every request of a walk, the rows missed so far are no more than
\* there were such changes.
ListsWalked ==
    /\ ListsTyped
    /\ kept \subseteq Range(list)
    /\ walk # "done" => Cardinality(Missed(Passed)) <= shifts
    /\ WalksMissFew
=============================================================================

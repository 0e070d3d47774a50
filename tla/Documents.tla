------------------------------ MODULE Documents ------------------------------
(***************************************************************************)
(* DocumentsService and CommentsService of one tenant: the documents table  *)
(* with its version column, and the list cache whose keys carry a list      *)
(* version that every write replaces by Date.now().                         *)
(*                                                                          *)
(* A list is known by how recent it is: the number of committed writes it   *)
(* shows.  Pages, sort orders and texts are left out; a document's columns  *)
(* but the version are known by the request that last changed one of them.  *)
(***************************************************************************)
EXTENDS Integers, FiniteSets

CONSTANTS
    Docs,        \* document ids
    Creators,    \* POST /docs requests
    Updaters,    \* PUT /docs/:id requests
    Removers,    \* DELETE /docs/:id requests
    Commenters,  \* POST and DELETE of a comment
    Listers,     \* GET /docs requests
    Casts,       \* sets of requests that take part in a behaviour
    NoDoc,       \* "no row"
    None,        \* "no value in the cache"
    MaxTies,     \* bound on milliseconds with two calls of Date.now()
    MaxFaults    \* bound on crashes

Writers == Creators \cup Updaters \cup Removers \cup Commenters
Requests == Writers \cup Listers

Doc == [ver : Nat \ {0}, text : Requests]

ASSUME DocumentsAssumption ==
    /\ Creators \cap (Updaters \cup Removers \cup Commenters \cup Listers) = {}
    /\ Updaters \cap (Removers \cup Commenters \cup Listers) = {}
    /\ Removers \cap (Commenters \cup Listers) = {}
    /\ Commenters \cap Listers = {}
    /\ Casts \subseteq SUBSET Requests
    /\ NoDoc \notin Doc
    /\ None \notin Nat
    /\ MaxTies \in Nat
    /\ MaxFaults \in Nat

VARIABLES
    table,   \* [Docs -> Doc or NoDoc]
    used,    \* ids handed out
    rev,     \* committed writes so far
    now,     \* the last value of Date.now()
    version, \* doc:list:version, or None
    cache,   \* [list version -> rev of the list cached under it]
    at,      \* [Requests -> where the request is]
    doc,     \* [Requests -> its document]
    entity,  \* [Requests -> the document it holds]
    basis,   \* [Updaters -> dto.version, the version its client has seen]
    loaded,  \* [Requests -> the row save() compared it with]
    stamp,   \* [Listers -> list version in hand]
    result,  \* [Listers -> rev of the list in hand]
    commit,  \* history: [Writers -> rev of its write]
    acked,   \* history: the latest rev whose writer has been answered
    floor,   \* history: [Listers -> acked when it started]
    spent,   \* history: [Docs -> versions an answered update replaced]
    ties,    \* history: milliseconds that two calls of Date.now() returned
    crossed, \* history: updates that overlapped another update or a removal
    faults

docVars   == <<table, used, rev>>
cacheVars == <<now, ties, version, cache>>
held      == <<doc, entity, basis, loaded>>
locals    == <<at, held, stamp, result>>
history   == <<commit, acked, floor, spent, crossed>>
vars      == <<docVars, cacheVars, locals, history, faults>>

Init ==
    /\ table = [d \in Docs |-> NoDoc]
    /\ used = {} /\ rev = 0
    /\ now = 1 /\ ties = {} /\ version = None /\ cache = [v \in {} |-> 0]
    /\ \E cast \in Casts :
         at = [r \in Requests |-> IF r \in cast THEN "idle" ELSE "absent"]
    /\ doc = [r \in Requests |-> None]
    /\ entity = [r \in Requests |-> NoDoc]
    /\ basis = [r \in Updaters |-> 0]
    /\ loaded = [r \in Requests |-> NoDoc]
    /\ stamp = [r \in Listers |-> None]
    /\ result = [r \in Listers |-> None]
    /\ commit = [r \in Writers |-> 0]
    /\ acked = 0
    /\ floor = [r \in Listers |-> 0]
    /\ spent = [d \in Docs |-> {}]
    /\ crossed = {}
    /\ faults = 0

Goto(r, label) == at' = [at EXCEPT ![r] = label]

\* A request that ends drops what it held.
Forget(r) ==
    /\ doc' = [doc EXCEPT ![r] = None]
    /\ entity' = [entity EXCEPT ![r] = NoDoc]
    /\ loaded' = [loaded EXCEPT ![r] = NoDoc]
    /\ UNCHANGED basis

\* Date.now(): the millisecond of the last call or a later one.
Date(n) ==
    /\ n \in {now, now + 1}
    /\ now' = n
    /\ ties' = IF n = now THEN ties \cup {n} ELSE ties
    /\ Cardinality(ties') <= MaxTies

\* A write reaches the database; its request goes on to bumpListVersion.
Commit(r) ==
    /\ rev' = rev + 1
    /\ commit' = [commit EXCEPT ![r] = rev + 1]
    /\ Goto(r, "bump")

-----------------------------------------------------------------------------
(* Writers *)

\* DocumentsService.create
Create(r, d) ==
    /\ at[r] = "idle"
    /\ d \notin used
    /\ used' = used \cup {d}
    /\ doc' = [doc EXCEPT ![r] = d]
    /\ table' = [table EXCEPT ![d] = [ver |-> 1, text |-> r]]
    /\ Commit(r)
    /\ UNCHANGED <<cacheVars, entity, basis, loaded, stamp, result, acked,
                   floor, spent, crossed, faults>>

\* The history of overlaps: r begins on d while other requests are at it.
Cross(r, d) ==
    LET busy == {q \in Updaters \cup Removers :
                   doc[q] = d /\ at[q] \in {"load", "save", "delete", "bump"}}
    IN  crossed' = IF busy = {} THEN crossed
                   ELSE crossed \cup ((busy \cup {r}) \cap Updaters)

VersionUnchecked(d, v) == table[d] # NoDoc
\* The row is there and the client has seen its version.
VersionMatches(d, v) == table[d] # NoDoc /\ table[d].ver = v

\* DocumentsService.update: findOne, the version check and the fields of the
\* dto, which may all be left out or be what they are already.
UpdateStart(r, d, v, changes) ==
    /\ at[r] = "idle"
    /\ VersionMatches(d, v)
    /\ doc' = [doc EXCEPT ![r] = d]
    /\ entity' = [entity EXCEPT ![r] =
          [ver |-> table[d].ver,
           text |-> IF changes THEN r ELSE table[d].text]]
    /\ basis' = [basis EXCEPT ![r] = v]
    /\ Goto(r, "load")
    /\ Cross(r, d)
    /\ UNCHANGED <<docVars, cacheVars, loaded, stamp, result, commit, acked,
                   floor, spent, faults>>

\* 404 and 409.
UpdateRefused(r, d, v) ==
    /\ at[r] = "idle"
    /\ ~VersionMatches(d, v)
    /\ Goto(r, "refused")
    /\ UNCHANGED <<docVars, cacheVars, held, stamp, result,
                   history, faults>>

\* save(): the SELECT ...
SaveLoad(r) ==
    /\ at[r] = "load"
    /\ loaded' = [loaded EXCEPT ![r] = table[doc[r]]]
    /\ Goto(r, "save")
    /\ UNCHANGED <<docVars, cacheVars, doc, entity, basis, stamp, result,
                   history, faults>>

\* The UPDATE sets the columns that differ from the loaded row; version is
\* incremented unless it is one of them.
Incremented(cur, base, e) == cur.ver
NextVersion(cur, base, e) == IF e.ver # base.ver THEN e.ver ELSE cur.ver + 1

\* An UPDATE of a row that is gone does nothing; the INSERT of an entity whose
\* row was not found starts again at version 1.
Saved(cur, base, e) ==
    IF base = NoDoc THEN [e EXCEPT !.ver = 1]
    ELSE IF cur = NoDoc THEN NoDoc
    ELSE [ver |-> NextVersion(cur, base, e),
          text |-> IF e.text # base.text THEN e.text ELSE cur.text]

Clash(r) == loaded[r] = NoDoc /\ table[doc[r]] # NoDoc

SaveWrite(r) ==
    /\ at[r] = "save"
    /\ ~Clash(r)
    /\ entity[r] # loaded[r]
    /\ table' = [table EXCEPT ![doc[r]] = Saved(@, loaded[r], entity[r])]
    /\ loaded' = [loaded EXCEPT ![r] = NoDoc]
    /\ Commit(r)
    /\ UNCHANGED <<used, cacheVars, doc, entity, basis, stamp, result, acked,
                   floor, spent, crossed, faults>>

\* No column differs: there is no UPDATE, and the version stays.
SaveNothing(r) ==
    /\ at[r] = "save"
    /\ entity[r] = loaded[r]
    /\ loaded' = [loaded EXCEPT ![r] = NoDoc]
    /\ Goto(r, "bump")
    /\ UNCHANGED <<docVars, cacheVars, doc, entity, basis, stamp, result,
                   history, faults>>

SaveClash(r) ==
    /\ at[r] = "save"
    /\ Clash(r)
    /\ Forget(r)
    /\ Goto(r, "error")
    /\ UNCHANGED <<docVars, cacheVars, stamp, result, history, faults>>

\* DocumentsService.remove: findOne, DELETE.
RemoveStart(r, d) ==
    /\ at[r] = "idle"
    /\ table[d] # NoDoc
    /\ doc' = [doc EXCEPT ![r] = d]
    /\ Goto(r, "delete")
    /\ Cross(r, d)
    /\ UNCHANGED <<docVars, cacheVars, entity, basis, loaded, stamp, result,
                   commit, acked, floor, spent, faults>>

RemoveRow(r) ==
    /\ at[r] = "delete"
    /\ table' = [table EXCEPT ![doc[r]] = NoDoc]
    /\ Commit(r)
    /\ UNCHANGED <<used, cacheVars, held, stamp, result, acked,
                   floor, spent, crossed, faults>>

\* CommentsService.create after its rate limit, and remove: a comment of a
\* document that is there ...
CommentStart(r, d) ==
    /\ at[r] = "idle"
    /\ table[d] # NoDoc
    /\ doc' = [doc EXCEPT ![r] = d]
    /\ Goto(r, "comment")
    /\ UNCHANGED <<docVars, cacheVars, entity, basis, loaded, stamp, result,
                   history, faults>>

CommentSave(r) ==
    /\ at[r] = "comment"
    /\ table[doc[r]] # NoDoc
    /\ Commit(r)
    /\ UNCHANGED <<table, used, cacheVars, held, stamp, result,
                   acked, floor, spent, crossed, faults>>

\* ... which a removal takes along: the foreign key refuses a new comment ...
CommentOrphan(r) ==
    /\ at[r] = "comment"
    /\ table[doc[r]] = NoDoc
    /\ Forget(r)
    /\ Goto(r, "error")
    /\ UNCHANGED <<docVars, cacheVars, stamp, result, history, faults>>

\* ... and the DELETE of an old one finds no row, and bumps all the same.
CommentGone(r) ==
    /\ at[r] = "comment"
    /\ table[doc[r]] = NoDoc
    /\ Goto(r, "bump")
    /\ UNCHANGED <<docVars, cacheVars, held, stamp, result, history, faults>>

BumpOnce(n) == version' = IF version = None THEN n ELSE version
\* cache.set(doc:list:version, Date.now())
SetVersion(n) == version' = n

\* bumpListVersion, and the answer to the client; commit[r] is 0 when there was
\* nothing to write.
Bump(r, n) ==
    /\ at[r] = "bump"
    /\ Date(n)
    /\ SetVersion(n)
    /\ acked' = IF commit[r] > acked THEN commit[r] ELSE acked
    /\ spent' = IF r \in Updaters /\ commit[r] > 0
                THEN [spent EXCEPT ![doc[r]] = @ \cup {basis[r]}]
                ELSE spent
    /\ Forget(r)
    /\ commit' = [commit EXCEPT ![r] = 0]
    /\ Goto(r, "answered")
    /\ UNCHANGED <<docVars, cache, stamp, result, floor, crossed, faults>>

-----------------------------------------------------------------------------
(* DocumentsService.list *)

\* getListVersion finds a version ...
ListStart(r) ==
    /\ at[r] = "idle"
    /\ floor' = [floor EXCEPT ![r] = acked]
    /\ IF version # None
       THEN stamp' = [stamp EXCEPT ![r] = version] /\ Goto(r, "lookup")
       ELSE UNCHANGED stamp /\ Goto(r, "stamp")
    /\ UNCHANGED <<docVars, cacheVars, held, result, commit,
                   acked, spent, crossed, faults>>

\* ... or sets one and returns another reading of the clock.
ListSetVersion(r, n) ==
    /\ at[r] = "stamp"
    /\ Date(n)
    /\ version' = n
    /\ Goto(r, "restamp")
    /\ UNCHANGED <<docVars, cache, held, stamp, result, history, faults>>

ListOwnVersion(r, n) ==
    /\ at[r] = "restamp"
    /\ Date(n)
    /\ stamp' = [stamp EXCEPT ![r] = n]
    /\ Goto(r, "lookup")
    /\ UNCHANGED <<docVars, version, cache, held, result,
                   history, faults>>

ListLookup(r) ==
    /\ at[r] = "lookup"
    /\ IF stamp[r] \in DOMAIN cache
       THEN /\ result' = [result EXCEPT ![r] = cache[stamp[r]]]
            /\ Goto(r, "listed")
       ELSE UNCHANGED result /\ Goto(r, "query")
    /\ UNCHANGED <<docVars, cacheVars, held, stamp, history,
                   faults>>

ListQuery(r) ==
    /\ at[r] = "query"
    /\ result' = [result EXCEPT ![r] = rev]
    /\ Goto(r, "fill")
    /\ UNCHANGED <<docVars, cacheVars, held, stamp, history,
                   faults>>

ListFill(r) ==
    /\ at[r] = "fill"
    /\ cache' = [v \in DOMAIN cache \cup {stamp[r]} |->
                   IF v = stamp[r] THEN result[r] ELSE cache[v]]
    /\ Goto(r, "listed")
    /\ UNCHANGED <<docVars, now, ties, version, held, stamp, result, history,
                   faults>>

-----------------------------------------------------------------------------
\* A cached list outlives its time to live, or is evicted ...
Evict(v) ==
    /\ v \in DOMAIN cache
    /\ cache' = [w \in DOMAIN cache \ {v} |-> cache[w]]
    /\ UNCHANGED <<docVars, now, ties, version, locals, history, faults>>

\* ... and so does the list version.
EvictVersion ==
    /\ version # None
    /\ version' = None
    /\ UNCHANGED <<docVars, now, ties, cache, locals, history, faults>>

Ended == {"idle", "absent", "refused", "error", "answered", "listed", "cut"}

Fault == faults < MaxFaults /\ faults' = faults + 1

\* A call of the database or of Redis fails: a write that is done already is
\* answered with an error and not followed by a bump.
CallFails(r) ==
    /\ Fault
    /\ at[r] \notin Ended
    /\ Forget(r)
    /\ stamp' = [q \in Listers |-> IF q = r THEN None ELSE stamp[q]]
    /\ commit' = [w \in Writers |-> IF w = r THEN 0 ELSE commit[w]]
    /\ Goto(r, "error")
    /\ UNCHANGED <<docVars, cacheVars, result, acked, floor, spent, crossed>>

\* The process dies with its requests; database and cache stay.
Crash ==
    /\ Fault
    /\ at' = [r \in Requests |-> IF at[r] \in Ended THEN at[r] ELSE "cut"]
    /\ doc' = [r \in Requests |-> None]
    /\ entity' = [r \in Requests |-> NoDoc]
    /\ loaded' = [r \in Requests |-> NoDoc]
    /\ stamp' = [r \in Listers |-> IF at[r] = "listed" THEN stamp[r] ELSE None]
    /\ commit' = [r \in Writers |-> 0]
    /\ UNCHANGED <<docVars, cacheVars, basis, result, acked, floor, spent,
                   crossed>>

Next ==
    \/ \E r \in Creators, d \in Docs : Create(r, d)
    \/ \E r \in Updaters :
         \/ \E d \in Docs, v \in 1 .. Cardinality(Updaters) + 1 :
              \/ UpdateRefused(r, d, v)
              \/ \E changes \in BOOLEAN : UpdateStart(r, d, v, changes)
         \/ SaveLoad(r) \/ SaveWrite(r) \/ SaveNothing(r) \/ SaveClash(r)
    \/ \E r \in Removers : RemoveRow(r) \/ \E d \in Docs : RemoveStart(r, d)
    \/ \E r \in Commenters :
         \/ CommentSave(r) \/ CommentOrphan(r) \/ CommentGone(r)
         \/ \E d \in Docs : CommentStart(r, d)
    \/ \E r \in Writers, n \in now .. now + 1 : Bump(r, n)
    \/ \E r \in Listers :
         \/ ListStart(r) \/ ListLookup(r) \/ ListQuery(r) \/ ListFill(r)
         \/ \E n \in now .. now + 1 :
              ListSetVersion(r, n) \/ ListOwnVersion(r, n)
    \/ \E v \in DOMAIN cache : Evict(v)
    \/ EvictVersion
    \/ \E r \in Requests : CallFails(r)
    \/ Crash

Spec == Init /\ [][Next]_vars

-----------------------------------------------------------------------------
(* Properties *)

Labels == Ended \cup {"load", "save", "delete", "comment", "bump", "stamp",
                      "restamp", "lookup", "query", "fill"}

\* The type of every variable.
TypeOK ==
    /\ table \in [Docs -> Doc \cup {NoDoc}]
    /\ used \subseteq Docs
    /\ rev \in Nat /\ now \in Nat \ {0} /\ acked \in 0 .. rev
    /\ ties \subseteq Nat
    /\ version \in (1 .. now) \cup {None}
    /\ DOMAIN cache \subseteq 1 .. now
    /\ \A v \in DOMAIN cache : cache[v] \in 0 .. rev
    /\ at \in [Requests -> Labels]
    /\ doc \in [Requests -> Docs \cup {None}]
    /\ entity \in [Requests -> Doc \cup {NoDoc}]
    /\ basis \in [Updaters -> Nat]
    /\ loaded \in [Requests -> Doc \cup {NoDoc}]
    /\ stamp \in [Listers -> Nat \cup {None}]
    /\ result \in [Listers -> Nat \cup {None}]
    /\ commit \in [Writers -> 0 .. rev]
    /\ floor \in [Listers -> Nat]
    /\ spent \in [Docs -> SUBSET Nat]
    /\ crossed \subseteq Updaters
    /\ faults \in 0 .. MaxFaults

\* A list shows every write that was answered before the list was asked for,
\* unless two calls of Date.now() gave its list version within a millisecond: a
\* stale list can stay in the cache, but not under a list version given once
\* (docs: lists are invalidated when a document is updated or removed).
FreshLists ==
    \A r \in Listers :
        at[r] = "listed" => result[r] >= floor[r] \/ stamp[r] \in ties

\* An update that changes something replaces the very version of the document
\* its client has seen (docs: optimistic lock, a conflict answers 409).
NoLostUpdate ==
    [][\A r \in Updaters :
         (at[r] = "save" /\ at'[r] = "bump" /\ commit'[r] > 0
            /\ table[doc[r]] # NoDoc)
           => table[doc[r]].ver = basis[r]]_vars

\* The same for an update that overlaps no other update of its document and no
\* removal, whatever crashes, comments and lists come in between.
LoneUpdatesFit ==
    [][\A r \in Updaters \ crossed :
         (at[r] = "save" /\ at'[r] = "bump")
           => table[doc[r]] # NoDoc /\ table[doc[r]].ver = basis[r]]_vars

\* As long as no update has overlapped another or a removal, a version that an
\* answered update replaced lets no other client in any more (docs: the version
\* is checked, a conflict answers 409).
SpentVersionRefused ==
    [][\A r \in Updaters :
         (crossed = {} /\ at[r] = "idle" /\ at'[r] = "load")
           => basis'[r] \notin spent[doc'[r]]]_vars

-----------------------------------------------------------------------------
(* The inductive invariants, from which the properties above follow.        *)

\* Each kind of request goes its own way, with values of its own.
RequestsFit ==
    \A r \in Requests :
        /\ at[r] \in {"load", "save"} =>
             /\ r \in Updaters /\ doc[r] \in used
             /\ entity[r] \in Doc /\ entity[r].ver = basis[r]
        /\ at[r] = "delete" => r \in Removers /\ doc[r] \in used
        /\ at[r] = "comment" => r \in Commenters /\ doc[r] \in used
        /\ at[r] = "bump" => r \in Writers /\ doc[r] \in used
        /\ at[r] \in {"stamp", "restamp"} => r \in Listers
        /\ at[r] \in {"lookup", "query", "fill"} =>
             r \in Listers /\ stamp[r] \in 1 .. now
        /\ at[r] = "fill" => result[r] \in 0 .. rev
        /\ r \in Writers /\ at[r] # "bump" => commit[r] = 0

\* Only a document that was created has a row or a history.
RowsUsed ==
    \A d \in Docs : table[d] # NoDoc \/ spent[d] # {} => d \in used

Active(r) == at[r] \in {"load", "save", "delete", "bump"}

\* An update that is not crossed has its document to itself ...
UpdatesApart ==
    \A r \in Updaters \ crossed, q \in Updaters \cup Removers :
        Active(r) /\ Active(q) /\ q # r => doc[q] # doc[r]

\* ... and finds there the version its client has seen, until it replaces it or
\* leaves it as it is.
LoneIsCurrent ==
    \A r \in Updaters \ crossed :
        /\ at[r] \in {"load", "save"} =>
             table[doc[r]] # NoDoc /\ table[doc[r]].ver = basis[r]
        /\ at[r] = "save" => loaded[r] # NoDoc /\ loaded[r].ver = basis[r]
        /\ at[r] = "bump" =>
             /\ table[doc[r]] # NoDoc
             /\ IF commit[r] > 0 THEN table[doc[r]].ver > basis[r]
                ELSE table[doc[r]].ver = basis[r]

\* Without overlaps versions grow past those that were replaced.
SpentOlder ==
    crossed = {} =>
        \A d \in Docs : table[d] # NoDoc =>
            \A v \in spent[d] : v < table[d].ver

\* Rows, versions and the entities in the hands of requests fit together.
DocumentsInv ==
    /\ TypeOK
    /\ RequestsFit
    /\ RowsUsed
    /\ UpdatesApart
    /\ LoneIsCurrent
    /\ SpentOlder

\* While a list version that was given once is current nothing is answered:
\* what is cached under it, or about to be, shows all that was answered before,
\* and so it does for the requests that have taken this version in hand.
ListsInv ==
    /\ \A r \in Listers : floor[r] <= acked
    /\ version \notin ties =>
         /\ version \in DOMAIN cache => cache[version] >= acked
         /\ \A q \in Listers : at[q] = "fill" /\ stamp[q] = version =>
               result[q] >= acked
    /\ \A r \in Listers :
         at[r] \in {"lookup", "query", "fill"} /\ stamp[r] \notin ties =>
           /\ stamp[r] \in DOMAIN cache => cache[stamp[r]] >= floor[r]
           /\ \A q \in Listers : at[q] = "fill" /\ stamp[q] = stamp[r] =>
                 result[q] >= floor[r]
    /\ FreshLists
=============================================================================

--------------------------- MODULE DocumentsProofs ---------------------------
(***************************************************************************)
(* Proofs about Documents for any number of documents, requests, failures,  *)
(* evictions and crashes.                                                   *)
(*                                                                          *)
(* DocumentsInv (Documents) is inductive, one lemma per conjunct; the types *)
(* and the two action properties about versions follow from it.  ListsInv   *)
(* is inductive with it and says why no list misses an answered write whose *)
(* list version was given by one call of Date.now() alone.                  *)
(***************************************************************************)
EXTENDS Documents, TLAPS

\* Two requests of different kinds are different.
Kinds ==
    /\ Creators \cap (Updaters \cup Removers \cup Commenters \cup Listers) = {}
    /\ Updaters \cap (Removers \cup Commenters \cup Listers) = {}
    /\ Removers \cap (Commenters \cup Listers) = {}
    /\ Commenters \cap Listers = {}
    /\ NoDoc \notin Doc
    /\ None \notin Nat

\* The constants say so.
LEMMA KindsApart == Kinds
  BY DocumentsAssumption DEF Kinds

\* A document that is written has a version and a writer.
LEMMA SavedTyped ==
    ASSUME NEW cur \in Doc \cup {NoDoc}, NEW base \in Doc \cup {NoDoc},
           NEW e \in Doc
    PROVE  Saved(cur, base, e) \in Doc \cup {NoDoc}
<1>1. CASE base = NoDoc
  <2>1. [e EXCEPT !.ver = 1] \in Doc
    BY DEF Doc
  <2> QED
    BY <1>1, <2>1 DEF Saved
<1>2. CASE base # NoDoc /\ cur = NoDoc
  BY <1>2 DEF Saved
<1>3. CASE base # NoDoc /\ cur # NoDoc
  <2>1. cur \in Doc /\ e.ver \in Nat \ {0} /\ cur.ver \in Nat \ {0}
    BY <1>3 DEF Doc
  <2>2. NextVersion(cur, base, e) \in Nat \ {0}
    BY <2>1 DEF NextVersion
  <2>3. [ver |-> NextVersion(cur, base, e),
         text |-> IF e.text # base.text THEN e.text ELSE cur.text] \in Doc
    BY <2>1, <2>2 DEF Doc
  <2> QED
    BY <1>3, <2>3 DEF Saved
<1> QED
  BY <1>1, <1>2, <1>3

\* A fault is counted.
LEMMA FaultTyped ==
    ASSUME faults \in 0 .. MaxFaults, Fault
    PROVE  faults' \in 0 .. MaxFaults
<1>1. MaxFaults \in Nat
  BY DocumentsAssumption
<1> QED
  BY <1>1 DEF Fault

\* Every action keeps every variable in its type.
LEMMA TypeStep == ASSUME DocumentsInv, Next PROVE TypeOK'
<1> USE DEF TypeOK, docVars, cacheVars, held, locals, history, Requests, Writers,
           Labels, Ended, RequestsFit
<1>1. TypeOK /\ RequestsFit /\ RowsUsed
  BY DEF DocumentsInv
<1>2. ASSUME NEW r \in Creators, NEW d \in Docs, Create(r, d)
     PROVE  TypeOK'
  <2>1. [ver |-> 1, text |-> r] \in Doc
    BY DEF Doc
  <2> QED
    BY <1>1, <1>2, <2>1 DEF Create, Commit, Goto
<1>3. ASSUME NEW r \in Updaters, NEW d \in Docs,
             NEW v \in 1 .. Cardinality(Updaters) + 1, NEW changes \in BOOLEAN,
             UpdateStart(r, d, v, changes)
     PROVE  TypeOK'
  <2>1. table[d] \in Doc
        /\ [ver |-> table[d].ver,
            text |-> IF changes THEN r ELSE table[d].text] \in Doc
    BY <1>1, <1>3 DEF UpdateStart, VersionMatches, Doc
  <2>2. v \in Nat
    BY <1>3, <2>1 DEF UpdateStart, VersionMatches, Doc
  <2>3. crossed' \subseteq Updaters
    BY <1>1, <1>3 DEF UpdateStart, Cross
  <2> QED
    BY <1>1, <1>3, <2>1, <2>2, <2>3 DEF UpdateStart, Goto
<1>4. ASSUME NEW r \in Updaters, NEW d \in Docs,
             NEW v \in 1 .. Cardinality(Updaters) + 1, UpdateRefused(r, d, v)
     PROVE  TypeOK'
  BY <1>1, <1>4 DEF UpdateRefused, Goto
<1>5. ASSUME NEW r \in Updaters, SaveLoad(r)
     PROVE  TypeOK'
  <2>1. r \in Requests /\ at[r] = "load"
    BY <1>5 DEF SaveLoad
  <2>2. doc[r] \in Docs
    BY <1>1, <2>1
  <2> QED
    BY <1>1, <1>5, <2>1, <2>2 DEF SaveLoad, Goto
<1>6. ASSUME NEW r \in Updaters, SaveWrite(r)
     PROVE  TypeOK'
  <2>1. r \in Requests /\ at[r] = "save"
    BY <1>6 DEF SaveWrite
  <2>2. doc[r] \in Docs /\ entity[r] \in Doc
    BY <1>1, <2>1
  <2>3. Saved(table[doc[r]], loaded[r], entity[r]) \in Doc \cup {NoDoc}
    BY <1>1, <2>1, <2>2, SavedTyped
  <2>4. table' = [table EXCEPT ![doc[r]] =
                    Saved(table[doc[r]], loaded[r], entity[r])]
    BY <1>6 DEF SaveWrite
  <2>5. table' \in [Docs -> Doc \cup {NoDoc}]
    BY <1>1, <2>2, <2>3, <2>4
  <2> QED
    BY <1>1, <1>6, <2>1, <2>5 DEF SaveWrite, Commit, Goto
<1>7a. ASSUME NEW r \in Updaters, SaveNothing(r)
      PROVE  TypeOK'
  BY <1>1, <1>7a DEF SaveNothing, Goto
<1>7. ASSUME NEW r \in Updaters, SaveClash(r)
     PROVE  TypeOK'
  BY <1>1, <1>7 DEF SaveClash, Forget, Goto
<1>8. ASSUME NEW r \in Removers, RemoveRow(r)
     PROVE  TypeOK'
  BY <1>1, <1>8 DEF RemoveRow, Commit, Goto
<1>9. ASSUME NEW r \in Removers, NEW d \in Docs, RemoveStart(r, d)
     PROVE  TypeOK'
  <2>1. crossed' \subseteq Updaters
    BY <1>1, <1>9 DEF RemoveStart, Cross
  <2> QED
    BY <1>1, <1>9, <2>1 DEF RemoveStart, Goto
<1>10. ASSUME NEW r \in Commenters, CommentSave(r)
     PROVE  TypeOK'
  BY <1>1, <1>10 DEF CommentSave, Commit, Goto
<1>11. ASSUME NEW r \in Commenters, CommentOrphan(r)
     PROVE  TypeOK'
  BY <1>1, <1>11 DEF CommentOrphan, Forget, Goto
<1>12. ASSUME NEW r \in Commenters, CommentGone(r)
     PROVE  TypeOK'
  BY <1>1, <1>12 DEF CommentGone, Goto
<1>13. ASSUME NEW r \in Commenters, NEW d \in Docs, CommentStart(r, d)
     PROVE  TypeOK'
  BY <1>1, <1>13 DEF CommentStart, Goto
<1>14. ASSUME NEW r \in Writers, NEW n \in now .. now + 1, Bump(r, n)
     PROVE  TypeOK'
  <2>1. r \in Requests /\ at[r] = "bump"
    BY <1>14 DEF Bump
  <2>2. doc[r] \in Docs
    BY <1>1, <2>1
  <2>3. now' \in Nat /\ now' >= now /\ now' >= 1 /\ version' = now'
    BY <1>1, <1>14 DEF Bump, Date, SetVersion
  <2>4. acked' \in 0 .. rev
    BY <1>1, <1>14 DEF Bump
  <2>5. spent' \in [Docs -> SUBSET Nat]
    BY <1>1, <1>14, <2>2 DEF Bump
  <2>6. commit' \in [Writers -> 0 .. rev]
    BY <1>1, <1>14 DEF Bump
  <2>7. ties' \subseteq Nat /\ at' \in [Requests -> Labels]
    BY <1>1, <1>14, <2>1, <2>3 DEF Bump, Date, Goto
  <2>8. /\ doc' \in [Requests -> Docs \cup {None}]
        /\ entity' \in [Requests -> Doc \cup {NoDoc}]
        /\ loaded' \in [Requests -> Doc \cup {NoDoc}] /\ basis' = basis
    BY <1>1, <1>14, <2>1 DEF Bump, Forget
  <2>9. /\ DOMAIN cache' \subseteq 1 .. now'
        /\ \A v \in DOMAIN cache' : cache'[v] \in 0 .. rev'
    BY <1>1, <1>14, <2>3 DEF Bump
  <2>10. UNCHANGED <<table, used, rev, stamp, result, floor, crossed, faults>>
    BY <1>14 DEF Bump
  <2> QED
    BY <1>1, <2>3, <2>4, <2>5, <2>6, <2>7, <2>8, <2>9, <2>10
<1>15. ASSUME NEW r \in Listers, ListStart(r)
     PROVE  TypeOK'
  BY <1>1, <1>15 DEF ListStart, Goto
<1>16. ASSUME NEW r \in Listers, ListLookup(r)
     PROVE  TypeOK'
  BY <1>1, <1>16 DEF ListLookup, Goto
<1>17. ASSUME NEW r \in Listers, ListQuery(r)
     PROVE  TypeOK'
  BY <1>1, <1>17 DEF ListQuery, Goto
<1>18. ASSUME NEW r \in Listers, ListFill(r)
     PROVE  TypeOK'
  <2>1. r \in Requests /\ at[r] = "fill"
    BY <1>18 DEF ListFill
  <2>2. stamp[r] \in 1 .. now /\ result[r] \in 0 .. rev
    BY <1>1, <2>1
  <2>3. DOMAIN cache' \subseteq 1 .. now
    BY <1>1, <1>18, <2>2 DEF ListFill
  <2>4. \A v \in DOMAIN cache' : cache'[v] \in 0 .. rev
    BY <1>1, <1>18, <2>2 DEF ListFill
  <2> QED
    BY <1>1, <1>18, <2>1, <2>3, <2>4 DEF ListFill, Goto
<1>19. ASSUME NEW r \in Listers, NEW n \in now .. now + 1,
             ListSetVersion(r, n)
     PROVE  TypeOK'
  BY <1>1, <1>19 DEF ListSetVersion, Date, Goto
<1>20. ASSUME NEW r \in Listers, NEW n \in now .. now + 1,
             ListOwnVersion(r, n)
     PROVE  TypeOK'
  BY <1>1, <1>20 DEF ListOwnVersion, Date, Goto
<1>21. ASSUME NEW v \in DOMAIN cache, Evict(v)
     PROVE  TypeOK'
  BY <1>1, <1>21 DEF Evict
<1>22. ASSUME EvictVersion
     PROVE  TypeOK'
  BY <1>1, <1>22 DEF EvictVersion
<1>23. ASSUME NEW r \in Requests, CallFails(r)
     PROVE  TypeOK'
  <2>1. faults' \in 0 .. MaxFaults
    BY <1>1, <1>23, FaultTyped DEF CallFails
  <2>2. /\ stamp' \in [Listers -> Nat \cup {None}]
        /\ commit' \in [Writers -> 0 .. rev]
    BY <1>1, <1>23 DEF CallFails
  <2> QED
    BY <1>1, <1>23, <2>1, <2>2 DEF CallFails, Forget, Goto
<1>24. ASSUME Crash
     PROVE  TypeOK'
  <2>1. faults' \in 0 .. MaxFaults
    BY <1>1, <1>24, FaultTyped DEF Crash
  <2>2. commit' \in [Writers -> 0 .. rev]
    BY <1>1, <1>24 DEF Crash
  <2> QED
    BY <1>1, <1>24, <2>1, <2>2 DEF Crash
<1> QED
  BY <1>2, <1>3, <1>4, <1>5, <1>6, <1>7, <1>7a, <1>8, <1>9,
     <1>10, <1>11, <1>12, <1>13, <1>14, <1>15, <1>16, <1>17, <1>18,
     <1>19, <1>20, <1>21, <1>22, <1>23, <1>24
  DEF Next, Writers, Requests

\* Each kind of request keeps to its way and to its values.
LEMMA FitStep == ASSUME DocumentsInv, Next PROVE RequestsFit'
<1> USE DEF TypeOK, docVars, cacheVars, held, locals, history, Requests, Writers,
           RequestsFit, Ended
<1>1. TypeOK /\ RequestsFit /\ RowsUsed /\ Kinds
  BY KindsApart DEF DocumentsInv
<1>2. ASSUME NEW r \in Creators, NEW d \in Docs, Create(r, d)
     PROVE  RequestsFit'
  BY <1>1, <1>2 DEF Kinds, Create, Commit, Goto
<1>3. ASSUME NEW r \in Updaters, NEW d \in Docs,
             NEW v \in 1 .. Cardinality(Updaters) + 1, NEW changes \in BOOLEAN,
             UpdateStart(r, d, v, changes)
     PROVE  RequestsFit'
  <2>1. table[d] \in Doc
        /\ [ver |-> table[d].ver,
            text |-> IF changes THEN r ELSE table[d].text] \in Doc
    BY <1>1, <1>3 DEF UpdateStart, VersionMatches, Doc
  <2>2. d \in used /\ table[d].ver = v
    BY <1>1, <1>3 DEF UpdateStart, VersionMatches, RowsUsed
  <2> QED
    BY <1>1, <1>3, <2>1, <2>2 DEF UpdateStart, Goto
<1>4. ASSUME NEW r \in Updaters, NEW d \in Docs,
             NEW v \in 1 .. Cardinality(Updaters) + 1, UpdateRefused(r, d, v)
     PROVE  RequestsFit'
  BY <1>1, <1>4 DEF Kinds, UpdateRefused, Goto
<1>5. ASSUME NEW r \in Updaters, SaveLoad(r)
     PROVE  RequestsFit'
  BY <1>1, <1>5 DEF Kinds, SaveLoad, Goto
<1>6. ASSUME NEW r \in Updaters, SaveWrite(r)
     PROVE  RequestsFit'
  BY <1>1, <1>6 DEF Kinds, SaveWrite, Commit, Goto
<1>7a. ASSUME NEW r \in Updaters, SaveNothing(r)
      PROVE  RequestsFit'
  BY <1>1, <1>7a DEF Kinds, SaveNothing, Goto
<1>7. ASSUME NEW r \in Updaters, SaveClash(r)
     PROVE  RequestsFit'
  BY <1>1, <1>7 DEF Kinds, SaveClash, Forget, Goto
<1>8. ASSUME NEW r \in Removers, RemoveRow(r)
     PROVE  RequestsFit'
  BY <1>1, <1>8 DEF Kinds, RemoveRow, Commit, Goto
<1>9. ASSUME NEW r \in Removers, NEW d \in Docs, RemoveStart(r, d)
     PROVE  RequestsFit'
  <2>1. d \in used
    BY <1>1, <1>9 DEF RemoveStart, RowsUsed
  <2> QED
    BY <1>1, <1>9, <2>1 DEF RemoveStart, Goto
<1>10. ASSUME NEW r \in Commenters, CommentSave(r)
     PROVE  RequestsFit'
  BY <1>1, <1>10 DEF Kinds, CommentSave, Commit, Goto
<1>11. ASSUME NEW r \in Commenters, CommentOrphan(r)
     PROVE  RequestsFit'
  BY <1>1, <1>11 DEF Kinds, CommentOrphan, Forget, Goto
<1>12. ASSUME NEW r \in Commenters, CommentGone(r)
     PROVE  RequestsFit'
  BY <1>1, <1>12 DEF Kinds, CommentGone, Goto
<1>13. ASSUME NEW r \in Commenters, NEW d \in Docs, CommentStart(r, d)
     PROVE  RequestsFit'
  <2>1. d \in used
    BY <1>1, <1>13 DEF CommentStart, RowsUsed
  <2> QED
    BY <1>1, <1>13, <2>1 DEF CommentStart, Goto
<1>14. ASSUME NEW r \in Writers, NEW n \in now .. now + 1, Bump(r, n)
     PROVE  RequestsFit'
  BY <1>1, <1>14 DEF Kinds, Bump, Date, SetVersion, Forget, Goto
<1>15. ASSUME NEW r \in Listers, ListStart(r)
     PROVE  RequestsFit'
  BY <1>1, <1>15 DEF Kinds, ListStart, Goto
<1>16. ASSUME NEW r \in Listers, ListLookup(r)
     PROVE  RequestsFit'
  BY <1>1, <1>16 DEF Kinds, ListLookup, Goto
<1>17. ASSUME NEW r \in Listers, ListQuery(r)
     PROVE  RequestsFit'
  BY <1>1, <1>17 DEF Kinds, ListQuery, Goto
<1>18. ASSUME NEW r \in Listers, ListFill(r)
     PROVE  RequestsFit'
  BY <1>1, <1>18 DEF Kinds, ListFill, Goto
<1>19. ASSUME NEW r \in Listers, NEW n \in now .. now + 1,
             ListSetVersion(r, n)
     PROVE  RequestsFit'
  BY <1>1, <1>19 DEF Kinds, ListSetVersion, Date, Goto
<1>20. ASSUME NEW r \in Listers, NEW n \in now .. now + 1,
             ListOwnVersion(r, n)
     PROVE  RequestsFit'
  BY <1>1, <1>20 DEF Kinds, ListOwnVersion, Date, Goto
<1>21. ASSUME NEW v \in DOMAIN cache, Evict(v)
     PROVE  RequestsFit'
  BY <1>1, <1>21 DEF Kinds, Evict
<1>22. ASSUME EvictVersion
     PROVE  RequestsFit'
  BY <1>1, <1>22 DEF Kinds, EvictVersion
<1>23. ASSUME NEW r \in Requests, CallFails(r)
     PROVE  RequestsFit'
  BY <1>1, <1>23 DEF Kinds, CallFails, Fault, Forget, Goto
<1>24. ASSUME Crash
     PROVE  RequestsFit'
  BY <1>1, <1>24 DEF Kinds, Crash, Fault
<1> QED
  BY <1>2, <1>3, <1>4, <1>5, <1>6, <1>7, <1>7a, <1>8, <1>9,
     <1>10, <1>11, <1>12, <1>13, <1>14, <1>15, <1>16, <1>17, <1>18,
     <1>19, <1>20, <1>21, <1>22, <1>23, <1>24
  DEF Next, Writers, Requests

\* Rows and spent versions are those of documents that were created.
LEMMA UsedStep == ASSUME DocumentsInv, Next PROVE RowsUsed'
<1> USE DEF TypeOK, docVars, cacheVars, held, locals, history, Requests, Writers,
           RequestsFit, RowsUsed
<1>1. TypeOK /\ RequestsFit /\ RowsUsed /\ Kinds
  BY KindsApart DEF DocumentsInv
<1>2. ASSUME NEW r \in Creators, NEW d \in Docs, Create(r, d)
     PROVE  RowsUsed'
  BY <1>1, <1>2 DEF Create, Commit, Goto
<1>3. ASSUME NEW r \in Updaters, NEW d \in Docs,
             NEW v \in 1 .. Cardinality(Updaters) + 1, NEW changes \in BOOLEAN,
             UpdateStart(r, d, v, changes)
     PROVE  RowsUsed'
  BY <1>1, <1>3 DEF UpdateStart, Goto, Cross
<1>4. ASSUME NEW r \in Updaters, NEW d \in Docs,
             NEW v \in 1 .. Cardinality(Updaters) + 1, UpdateRefused(r, d, v)
     PROVE  RowsUsed'
  BY <1>1, <1>4 DEF UpdateRefused, Goto
<1>5. ASSUME NEW r \in Updaters, SaveLoad(r)
     PROVE  RowsUsed'
  BY <1>1, <1>5 DEF SaveLoad, Goto
<1>6. ASSUME NEW r \in Updaters, SaveWrite(r)
     PROVE  RowsUsed'
  BY <1>1, <1>6 DEF SaveWrite, Commit, Goto
<1>7a. ASSUME NEW r \in Updaters, SaveNothing(r)
      PROVE  RowsUsed'
  BY <1>1, <1>7a DEF SaveNothing, Goto
<1>7. ASSUME NEW r \in Updaters, SaveClash(r)
     PROVE  RowsUsed'
  BY <1>1, <1>7 DEF SaveClash, Forget, Goto
<1>8. ASSUME NEW r \in Removers, RemoveRow(r)
     PROVE  RowsUsed'
  BY <1>1, <1>8 DEF RemoveRow, Commit, Goto
<1>9. ASSUME NEW r \in Removers, NEW d \in Docs, RemoveStart(r, d)
     PROVE  RowsUsed'
  BY <1>1, <1>9 DEF RemoveStart, Goto, Cross
<1>10. ASSUME NEW r \in Commenters, CommentSave(r)
     PROVE  RowsUsed'
  BY <1>1, <1>10 DEF CommentSave, Commit, Goto
<1>11. ASSUME NEW r \in Commenters, CommentOrphan(r)
     PROVE  RowsUsed'
  BY <1>1, <1>11 DEF CommentOrphan, Forget, Goto
<1>12. ASSUME NEW r \in Commenters, CommentGone(r)
     PROVE  RowsUsed'
  BY <1>1, <1>12 DEF CommentGone, Goto
<1>13. ASSUME NEW r \in Commenters, NEW d \in Docs, CommentStart(r, d)
     PROVE  RowsUsed'
  BY <1>1, <1>13 DEF CommentStart, Goto
<1>14. ASSUME NEW r \in Writers, NEW n \in now .. now + 1, Bump(r, n)
     PROVE  RowsUsed'
  <2>1. /\ r \in Requests /\ doc[r] \in used /\ table' = table
        /\ used' = used
        /\ spent' = spent \/ spent' = [spent EXCEPT ![doc[r]] = @ \cup {basis[r]}]
    BY <1>1, <1>14 DEF Bump
  <2> QED
    BY <1>1, <2>1
<1>15. ASSUME NEW r \in Listers, ListStart(r)
     PROVE  RowsUsed'
  BY <1>1, <1>15 DEF ListStart, Goto
<1>16. ASSUME NEW r \in Listers, ListLookup(r)
     PROVE  RowsUsed'
  BY <1>1, <1>16 DEF ListLookup, Goto
<1>17. ASSUME NEW r \in Listers, ListQuery(r)
     PROVE  RowsUsed'
  BY <1>1, <1>17 DEF ListQuery, Goto
<1>18. ASSUME NEW r \in Listers, ListFill(r)
     PROVE  RowsUsed'
  BY <1>1, <1>18 DEF ListFill, Goto
<1>19. ASSUME NEW r \in Listers, NEW n \in now .. now + 1,
             ListSetVersion(r, n)
     PROVE  RowsUsed'
  BY <1>1, <1>19 DEF ListSetVersion, Date, Goto
<1>20. ASSUME NEW r \in Listers, NEW n \in now .. now + 1,
             ListOwnVersion(r, n)
     PROVE  RowsUsed'
  BY <1>1, <1>20 DEF ListOwnVersion, Date, Goto
<1>21. ASSUME NEW v \in DOMAIN cache, Evict(v)
     PROVE  RowsUsed'
  BY <1>1, <1>21 DEF Evict
<1>22. ASSUME EvictVersion
     PROVE  RowsUsed'
  BY <1>1, <1>22 DEF EvictVersion
<1>23. ASSUME NEW r \in Requests, CallFails(r)
     PROVE  RowsUsed'
  BY <1>1, <1>23 DEF CallFails, Fault, Forget, Goto
<1>24. ASSUME Crash
     PROVE  RowsUsed'
  BY <1>1, <1>24 DEF Crash, Fault
<1> QED
  BY <1>2, <1>3, <1>4, <1>5, <1>6, <1>7, <1>7a, <1>8, <1>9,
     <1>10, <1>11, <1>12, <1>13, <1>14, <1>15, <1>16, <1>17, <1>18,
     <1>19, <1>20, <1>21, <1>22, <1>23, <1>24
  DEF Next, Writers, Requests

-----------------------------------------------------------------------------
(* Rows and updates *)

\* Three actions write rows; ids are not given back, overlaps not forgotten.
RowsMove ==
    /\ used \subseteq used' /\ crossed \subseteq crossed'
    /\ \/ table' = table
       \/ \E r \in Creators, d \in Docs : Create(r, d)
       \/ \E r \in Updaters : SaveWrite(r)
       \/ \E r \in Removers : RemoveRow(r)
    /\ \/ spent' = spent
       \/ \E r \in Updaters, n \in now .. now + 1 : Bump(r, n)

\* No action does anything else to them.
LEMMA RowsMoved == ASSUME DocumentsInv, Next PROVE RowsMove
<1> USE DEF RowsMove, docVars, cacheVars, held, locals, history
<1>1. TypeOK /\ RequestsFit /\ RowsUsed /\ Kinds
  BY KindsApart DEF DocumentsInv
<1>2. ASSUME NEW r \in Creators, NEW d \in Docs, Create(r, d)
     PROVE  RowsMove
  BY <1>2 DEF Create
<1>3. ASSUME NEW r \in Updaters, NEW d \in Docs,
             NEW v \in 1 .. Cardinality(Updaters) + 1, NEW changes \in BOOLEAN,
             UpdateStart(r, d, v, changes)
     PROVE  RowsMove
  BY <1>3 DEF UpdateStart, Cross
<1>4. ASSUME NEW r \in Updaters, NEW d \in Docs,
             NEW v \in 1 .. Cardinality(Updaters) + 1, UpdateRefused(r, d, v)
     PROVE  RowsMove
  BY <1>1, <1>4 DEF UpdateRefused, Goto
<1>5. ASSUME NEW r \in Updaters, SaveLoad(r)
     PROVE  RowsMove
  BY <1>1, <1>5 DEF SaveLoad, Goto
<1>6. ASSUME NEW r \in Updaters, SaveWrite(r)
     PROVE  RowsMove
  BY <1>6 DEF SaveWrite
<1>7a. ASSUME NEW r \in Updaters, SaveNothing(r)
      PROVE  RowsMove
  BY <1>7a DEF SaveNothing
<1>7. ASSUME NEW r \in Updaters, SaveClash(r)
     PROVE  RowsMove
  BY <1>1, <1>7 DEF SaveClash, Forget, Goto
<1>8. ASSUME NEW r \in Removers, RemoveRow(r)
     PROVE  RowsMove
  BY <1>8 DEF RemoveRow
<1>9. ASSUME NEW r \in Removers, NEW d \in Docs, RemoveStart(r, d)
     PROVE  RowsMove
  BY <1>9 DEF RemoveStart, Cross
<1>10. ASSUME NEW r \in Commenters, CommentSave(r)
     PROVE  RowsMove
  BY <1>1, <1>10 DEF CommentSave, Commit, Goto
<1>11. ASSUME NEW r \in Commenters, CommentOrphan(r)
     PROVE  RowsMove
  BY <1>1, <1>11 DEF CommentOrphan, Forget, Goto
<1>12. ASSUME NEW r \in Commenters, CommentGone(r)
     PROVE  RowsMove
  BY <1>1, <1>12 DEF CommentGone, Goto
<1>13. ASSUME NEW r \in Commenters, NEW d \in Docs, CommentStart(r, d)
     PROVE  RowsMove
  BY <1>1, <1>13 DEF CommentStart, Goto
<1>14. ASSUME NEW r \in Writers, NEW n \in now .. now + 1, Bump(r, n)
     PROVE  RowsMove
  BY <1>14 DEF Bump
<1>15. ASSUME NEW r \in Listers, ListStart(r)
     PROVE  RowsMove
  BY <1>1, <1>15 DEF ListStart, Goto
<1>16. ASSUME NEW r \in Listers, ListLookup(r)
     PROVE  RowsMove
  BY <1>1, <1>16 DEF ListLookup, Goto
<1>17. ASSUME NEW r \in Listers, ListQuery(r)
     PROVE  RowsMove
  BY <1>1, <1>17 DEF ListQuery, Goto
<1>18. ASSUME NEW r \in Listers, ListFill(r)
     PROVE  RowsMove
  BY <1>1, <1>18 DEF ListFill, Goto
<1>19. ASSUME NEW r \in Listers, NEW n \in now .. now + 1,
             ListSetVersion(r, n)
     PROVE  RowsMove
  BY <1>1, <1>19 DEF ListSetVersion, Date, Goto
<1>20. ASSUME NEW r \in Listers, NEW n \in now .. now + 1,
             ListOwnVersion(r, n)
     PROVE  RowsMove
  BY <1>1, <1>20 DEF ListOwnVersion, Date, Goto
<1>21. ASSUME NEW v \in DOMAIN cache, Evict(v)
     PROVE  RowsMove
  BY <1>1, <1>21 DEF Evict
<1>22. ASSUME EvictVersion
     PROVE  RowsMove
  BY <1>1, <1>22 DEF EvictVersion
<1>23. ASSUME NEW r \in Requests, CallFails(r)
     PROVE  RowsMove
  BY <1>1, <1>23 DEF CallFails, Fault, Forget, Goto
<1>24. ASSUME Crash
     PROVE  RowsMove
  BY <1>1, <1>24 DEF Crash, Fault
<1> QED
  BY <1>2, <1>3, <1>4, <1>5, <1>6, <1>7, <1>7a, <1>8, <1>9,
     <1>10, <1>11, <1>12, <1>13, <1>14, <1>15, <1>16, <1>17, <1>18,
     <1>19, <1>20, <1>21, <1>22, <1>23, <1>24
  DEF Next, Writers, Requests

\* An update or a removal starts, ends, is kept, or takes its next step.
Keeps(q) ==
    /\ at'[q] = at[q] /\ doc'[q] = doc[q]
    /\ entity'[q] = entity[q] /\ loaded'[q] = loaded[q]
    /\ q \in Updaters => basis'[q] = basis[q] /\ commit'[q] = commit[q]
Ends(q) == at'[q] \notin {"load", "save", "delete", "bump"}
Starts(q, d) ==
    \/ q \in Removers /\ RemoveStart(q, d)
    \/ /\ q \in Updaters
       /\ \E v \in 1 .. Cardinality(Updaters) + 1, changes \in BOOLEAN :
             UpdateStart(q, d, v, changes)

\* What a step may do to one.
UpdatesMove ==
    \A q \in Updaters \cup Removers :
        \/ Keeps(q) \/ Ends(q) \/ \E d \in Docs : Starts(q, d)
        \/ q \in Updaters /\ (SaveLoad(q) \/ SaveWrite(q) \/ SaveNothing(q))
        \/ q \in Removers /\ RemoveRow(q)

\* No step does anything else to one.
LEMMA UpdatesMoved == ASSUME DocumentsInv, Next PROVE UpdatesMove
<1> USE DEF TypeOK, docVars, cacheVars, held, locals, history, Requests, Writers,
           RequestsFit, Kinds, Keeps, Ends, UpdatesMove
<1>1. TypeOK /\ RequestsFit /\ RowsUsed /\ Kinds
  BY KindsApart DEF DocumentsInv
<1>2. ASSUME NEW r \in Creators, NEW d \in Docs, Create(r, d)
     PROVE  UpdatesMove
  BY <1>1, <1>2 DEF Create, Commit, Goto
<1>3. ASSUME NEW r \in Updaters, NEW d \in Docs,
             NEW v \in 1 .. Cardinality(Updaters) + 1, NEW changes \in BOOLEAN,
             UpdateStart(r, d, v, changes)
     PROVE  UpdatesMove
  <2>1. ASSUME NEW q \in Updaters \cup Removers, q # r
        PROVE  Keeps(q)
    BY <1>1, <1>3, <2>1 DEF UpdateStart, Goto
  <2> QED
    BY <1>3, <2>1 DEF Starts
<1>4. ASSUME NEW r \in Updaters, NEW d \in Docs,
             NEW v \in 1 .. Cardinality(Updaters) + 1, UpdateRefused(r, d, v)
     PROVE  UpdatesMove
  BY <1>1, <1>4 DEF UpdateRefused, Goto
<1>5. ASSUME NEW r \in Updaters, SaveLoad(r)
     PROVE  UpdatesMove
  <2>1. ASSUME NEW q \in Updaters \cup Removers, q # r
        PROVE  Keeps(q)
    BY <1>1, <1>5, <2>1 DEF SaveLoad, Goto
  <2> QED
    BY <1>5, <2>1
<1>6. ASSUME NEW r \in Updaters, SaveWrite(r)
     PROVE  UpdatesMove
  <2>1. ASSUME NEW q \in Updaters \cup Removers, q # r
        PROVE  Keeps(q)
    BY <1>1, <1>6, <2>1 DEF SaveWrite, Commit, Goto
  <2> QED
    BY <1>6, <2>1
<1>7a. ASSUME NEW r \in Updaters, SaveNothing(r)
      PROVE  UpdatesMove
  <2>1. ASSUME NEW q \in Updaters \cup Removers, q # r
        PROVE  Keeps(q)
    BY <1>1, <1>7a, <2>1 DEF SaveNothing, Goto
  <2> QED
    BY <1>7a, <2>1
<1>7. ASSUME NEW r \in Updaters, SaveClash(r)
     PROVE  UpdatesMove
  BY <1>1, <1>7 DEF SaveClash, Forget, Goto
<1>8. ASSUME NEW r \in Removers, RemoveRow(r)
     PROVE  UpdatesMove
  <2>1. ASSUME NEW q \in Updaters \cup Removers, q # r
        PROVE  Keeps(q)
    BY <1>1, <1>8, <2>1 DEF RemoveRow, Commit, Goto
  <2> QED
    BY <1>8, <2>1
<1>9. ASSUME NEW r \in Removers, NEW d \in Docs, RemoveStart(r, d)
     PROVE  UpdatesMove
  <2>1. ASSUME NEW q \in Updaters \cup Removers, q # r
        PROVE  Keeps(q)
    BY <1>1, <1>9, <2>1 DEF RemoveStart, Goto
  <2> QED
    BY <1>9, <2>1 DEF Starts
<1>10. ASSUME NEW r \in Commenters, CommentSave(r)
     PROVE  UpdatesMove
  BY <1>1, <1>10 DEF CommentSave, Commit, Goto
<1>11. ASSUME NEW r \in Commenters, CommentOrphan(r)
     PROVE  UpdatesMove
  BY <1>1, <1>11 DEF CommentOrphan, Forget, Goto
<1>12. ASSUME NEW r \in Commenters, CommentGone(r)
     PROVE  UpdatesMove
  BY <1>1, <1>12 DEF CommentGone, Goto
<1>13. ASSUME NEW r \in Commenters, NEW d \in Docs, CommentStart(r, d)
     PROVE  UpdatesMove
  BY <1>1, <1>13 DEF CommentStart, Goto
<1>14. ASSUME NEW r \in Writers, NEW n \in now .. now + 1, Bump(r, n)
     PROVE  UpdatesMove
  BY <1>1, <1>14 DEF Bump, Date, SetVersion, Forget, Goto
<1>15. ASSUME NEW r \in Listers, ListStart(r)
     PROVE  UpdatesMove
  BY <1>1, <1>15 DEF ListStart, Goto
<1>16. ASSUME NEW r \in Listers, ListLookup(r)
     PROVE  UpdatesMove
  BY <1>1, <1>16 DEF ListLookup, Goto
<1>17. ASSUME NEW r \in Listers, ListQuery(r)
     PROVE  UpdatesMove
  BY <1>1, <1>17 DEF ListQuery, Goto
<1>18. ASSUME NEW r \in Listers, ListFill(r)
     PROVE  UpdatesMove
  BY <1>1, <1>18 DEF ListFill, Goto
<1>19. ASSUME NEW r \in Listers, NEW n \in now .. now + 1,
             ListSetVersion(r, n)
     PROVE  UpdatesMove
  BY <1>1, <1>19 DEF ListSetVersion, Date, Goto
<1>20. ASSUME NEW r \in Listers, NEW n \in now .. now + 1,
             ListOwnVersion(r, n)
     PROVE  UpdatesMove
  BY <1>1, <1>20 DEF ListOwnVersion, Date, Goto
<1>21. ASSUME NEW v \in DOMAIN cache, Evict(v)
     PROVE  UpdatesMove
  BY <1>1, <1>21 DEF Evict
<1>22. ASSUME EvictVersion
     PROVE  UpdatesMove
  BY <1>1, <1>22 DEF EvictVersion
<1>23. ASSUME NEW r \in Requests, CallFails(r)
     PROVE  UpdatesMove
  BY <1>1, <1>23 DEF CallFails, Fault, Forget, Goto
<1>24. ASSUME Crash
     PROVE  UpdatesMove
  BY <1>1, <1>24 DEF Crash, Ended
<1> QED
  BY <1>2, <1>3, <1>4, <1>5, <1>6, <1>7, <1>7a, <1>8, <1>9,
     <1>10, <1>11, <1>12, <1>13, <1>14, <1>15, <1>16, <1>17, <1>18,
     <1>19, <1>20, <1>21, <1>22, <1>23, <1>24
  DEF Next, Writers, Requests

\* Who starts on a document others are at work on crosses them.
LEMMA StartCrosses ==
    ASSUME DocumentsInv, NEW q \in Updaters \cup Removers, NEW d \in Docs,
           Starts(q, d)
    PROVE  /\ q \in Requests /\ at[q] = "idle" /\ at'[q] \in {"load", "delete"}
           /\ doc'[q] = d /\ table' = table /\ spent' = spent
           /\ \A o \in Requests \ {q} : at'[o] = at[o] /\ doc'[o] = doc[o]
           /\ \A o \in Updaters \cup Removers :
                 Active(o) /\ doc[o] = d =>
                     /\ o \in Updaters => o \in crossed'
                     /\ q \in Updaters => q \in crossed'
<1> DEFINE busy == {o \in Updaters \cup Removers :
                      doc[o] = d /\ at[o] \in {"load", "save", "delete", "bump"}}
<1>1. /\ at \in [Requests -> Labels] /\ doc \in [Requests -> Docs \cup {None}]
      /\ q \in Requests
  BY DEF DocumentsInv, TypeOK, Requests, Writers
<1>2. /\ at[q] = "idle" /\ doc' = [doc EXCEPT ![q] = d]
      /\ \E label \in {"load", "delete"} : at' = [at EXCEPT ![q] = label]
      /\ table' = table /\ spent' = spent
  BY DEF Starts, RemoveStart, UpdateStart, Goto, docVars
<1>3. crossed' = IF busy = {} THEN crossed
                 ELSE crossed \cup ((busy \cup {q}) \cap Updaters)
  BY DEF Starts, RemoveStart, UpdateStart, Cross
<1>4. \A o \in Updaters \cup Removers :
         Active(o) /\ doc[o] = d =>
             /\ o \in Updaters => o \in crossed'
             /\ q \in Updaters => q \in crossed'
  BY <1>3 DEF Active
<1> HIDE DEF busy
<1> QED
  BY <1>1, <1>2, <1>4

\* Who is at work was so before, on the same document, or starts.
LEMMA ActiveBefore ==
    ASSUME DocumentsInv, Next, NEW q \in Updaters \cup Removers, Active(q)'
    PROVE  \/ Active(q) /\ doc'[q] = doc[q]
           \/ \E d \in Docs : Starts(q, d)
<1>1. CASE Keeps(q)
  BY <1>1 DEF Keeps, Active
<1>2. CASE Ends(q)
  BY <1>2 DEF Ends, Active
<1>3. CASE SaveLoad(q)
  BY <1>3 DEF SaveLoad, Active
<1>4. CASE SaveWrite(q)
  BY <1>4 DEF SaveWrite, Active
<1>5. CASE RemoveRow(q)
  BY <1>5 DEF RemoveRow, held, Active
<1>6. CASE SaveNothing(q)
  BY <1>6 DEF SaveNothing, Active
<1> QED
  BY <1>1, <1>2, <1>3, <1>4, <1>5, <1>6, UpdatesMoved DEF UpdatesMove

\* An update nobody overlaps keeps its document to itself.
LEMMA ApartStep == ASSUME DocumentsInv, Next PROVE UpdatesApart'
<1> SUFFICES ASSUME NEW r \in Updaters, r \notin crossed',
                    NEW q \in Updaters \cup Removers,
                    Active(r)', Active(q)', q # r
             PROVE  doc'[q] # doc'[r]
  BY DEF UpdatesApart
<1>1. r \notin crossed
  BY RowsMoved DEF RowsMove
<1>2. r \in Requests /\ q \in Requests
  BY DEF Requests, Writers
<1>3. CASE Active(r) /\ doc'[r] = doc[r] /\ Active(q) /\ doc'[q] = doc[q]
  BY <1>1, <1>3 DEF DocumentsInv, UpdatesApart
<1>4. ASSUME NEW d \in Docs, Starts(r, d)
      PROVE  doc'[q] # doc'[r]
  <2>1. Active(q) /\ doc'[q] = doc[q] /\ doc'[r] = d
    BY <1>2, <1>4, StartCrosses DEF Active
  <2> QED
    BY <1>4, <2>1, StartCrosses
<1>5. ASSUME NEW d \in Docs, Starts(q, d)
      PROVE  doc'[q] # doc'[r]
  <2>1. Active(r) /\ doc'[r] = doc[r] /\ doc'[q] = d
    BY <1>2, <1>5, StartCrosses DEF Active
  <2> QED
    BY <1>5, <2>1, StartCrosses
<1> QED
  BY <1>3, <1>4, <1>5, ActiveBefore

\* What an update that nobody overlaps writes.
LEMMA LoneWrites ==
    ASSUME DocumentsInv, NEW r \in Updaters \ crossed, SaveWrite(r)
    PROVE  /\ doc[r] \in Docs /\ basis[r] \in Nat
           /\ table[doc[r]] # NoDoc /\ table[doc[r]].ver = basis[r]
           /\ table'[doc[r]] # NoDoc
           /\ table'[doc[r]].ver = basis[r] + 1
<1>1. r \in Requests /\ at[r] = "save"
  BY DEF Requests, Writers, SaveWrite
<1>2. /\ doc[r] \in Docs /\ basis[r] \in Nat
      /\ entity[r] \in Doc /\ entity[r].ver = basis[r]
      /\ table \in [Docs -> Doc \cup {NoDoc}]
  BY <1>1 DEF DocumentsInv, RequestsFit, TypeOK
<1>3. /\ table[doc[r]] # NoDoc /\ table[doc[r]].ver = basis[r]
      /\ loaded[r] # NoDoc /\ loaded[r].ver = basis[r]
  BY <1>1 DEF DocumentsInv, LoneIsCurrent
<1> DEFINE text == IF entity[r].text # loaded[r].text THEN entity[r].text
                   ELSE table[doc[r]].text
           row == [ver |-> basis[r] + 1, text |-> text]
<1>4. Saved(table[doc[r]], loaded[r], entity[r]) = row
  BY <1>2, <1>3 DEF Saved, NextVersion
<1>5. row \in Doc /\ row.ver = basis[r] + 1
  <2>1. entity[r].text \in Requests /\ table[doc[r]].text \in Requests
    BY <1>2, <1>3 DEF Doc
  <2> QED
    BY <1>2, <2>1 DEF Doc
<1> HIDE DEF row
<1>6. table' = [table EXCEPT ![doc[r]] = row]
  BY <1>4 DEF SaveWrite
<1>7. NoDoc \notin Doc
  BY DocumentsAssumption
<1> QED
  BY <1>2, <1>3, <1>5, <1>6, <1>7

\* Nobody else touches the row of an update that is not overlapped.
LEMMA LoneUntouched ==
    ASSUME DocumentsInv, Next, NEW r \in Updaters \ crossed, Active(r), Keeps(r)
    PROVE  table'[doc[r]] = table[doc[r]]
<1>1. /\ r \in Requests /\ doc[r] \in Docs /\ doc[r] \in used
      /\ table \in [Docs -> Doc \cup {NoDoc}]
      /\ at \in [Requests -> Labels]
  <2>1. r \in Requests
    BY DEF Requests, Writers
  <2> QED
    BY <2>1, KindsApart DEF DocumentsInv, RequestsFit, TypeOK, Active, Kinds
<1>2. ASSUME NEW c \in Creators, NEW d \in Docs, Create(c, d)
      PROVE  table'[doc[r]] = table[doc[r]]
  BY <1>1, <1>2 DEF Create
<1>3. ASSUME NEW q \in Updaters, SaveWrite(q)
      PROVE  table'[doc[r]] = table[doc[r]]
  <2>1. at[q] = "save" /\ at' = [at EXCEPT ![q] = "bump"] /\ q \in Requests
    BY <1>3 DEF SaveWrite, Commit, Goto, Requests, Writers
  <2>2. q # r
    BY <1>1, <2>1 DEF Keeps
  <2>3. doc[q] # doc[r]
    BY <2>1, <2>2 DEF DocumentsInv, UpdatesApart, Active
  <2> QED
    BY <1>1, <1>3, <2>3 DEF SaveWrite
<1>4. ASSUME NEW q \in Removers, RemoveRow(q)
      PROVE  table'[doc[r]] = table[doc[r]]
  <2>1. at[q] = "delete" /\ at' = [at EXCEPT ![q] = "bump"] /\ q \in Requests
    BY <1>4 DEF RemoveRow, Commit, Goto, Requests, Writers
  <2>2. q # r
    BY <1>1, <2>1 DEF Keeps
  <2>3. doc[q] # doc[r]
    BY <2>1, <2>2 DEF DocumentsInv, UpdatesApart, Active
  <2> QED
    BY <1>1, <1>4, <2>3 DEF RemoveRow
<1> QED
  BY <1>2, <1>3, <1>4, RowsMoved DEF RowsMove

\* Until an update that nobody overlaps has replaced the version its client has
\* seen, that is the version of the row.
LEMMA LoneStep == ASSUME DocumentsInv, Next PROVE LoneIsCurrent'
<1> SUFFICES ASSUME NEW r \in Updaters, r \notin crossed'
             PROVE  /\ at'[r] \in {"load", "save"} =>
                         /\ table'[doc'[r]] # NoDoc
                         /\ table'[doc'[r]].ver = basis'[r]
                    /\ at'[r] = "save" =>
                         loaded'[r] # NoDoc /\ loaded'[r].ver = basis'[r]
                    /\ at'[r] = "bump" =>
                         /\ table'[doc'[r]] # NoDoc
                         /\ IF commit'[r] > 0
                            THEN table'[doc'[r]].ver > basis'[r]
                            ELSE table'[doc'[r]].ver = basis'[r]
  BY DEF LoneIsCurrent
<1>1. /\ r \in Updaters \ crossed /\ r \in Requests
      /\ at \in [Requests -> Labels] /\ basis \in [Updaters -> Nat]
      /\ loaded \in [Requests -> Doc \cup {NoDoc}]
      /\ basis[r] \in Nat
  BY RowsMoved DEF RowsMove, DocumentsInv, TypeOK, Requests, Writers
<1>2. /\ at[r] \in {"load", "save"} =>
           table[doc[r]] # NoDoc /\ table[doc[r]].ver = basis[r]
      /\ at[r] = "save" => loaded[r] # NoDoc /\ loaded[r].ver = basis[r]
      /\ at[r] = "bump" =>
           /\ table[doc[r]] # NoDoc
           /\ IF commit[r] > 0 THEN table[doc[r]].ver > basis[r]
              ELSE table[doc[r]].ver = basis[r]
  BY <1>1 DEF DocumentsInv, LoneIsCurrent
<1>3. CASE Keeps(r)
  <2>1. CASE Active(r)
    <3>1. table'[doc[r]] = table[doc[r]]
      BY <1>1, <1>3, <2>1, LoneUntouched
    <3> QED
      BY <1>1, <1>2, <1>3, <3>1 DEF Keeps
  <2>2. CASE ~Active(r)
    BY <1>3, <2>2 DEF Keeps, Active
  <2> QED
    BY <2>1, <2>2
<1>4. CASE Ends(r)
  BY <1>4 DEF Ends
<1>5. CASE r \in Removers
  BY <1>5, KindsApart DEF Kinds
<1>6. ASSUME NEW d \in Docs, NEW v \in 1 .. Cardinality(Updaters) + 1,
             NEW changes \in BOOLEAN, UpdateStart(r, d, v, changes)
      PROVE  /\ at'[r] = "load" /\ table'[doc'[r]] # NoDoc
             /\ table'[doc'[r]].ver = basis'[r]
  <2>1. doc \in [Requests -> Docs \cup {None}]
    BY DEF DocumentsInv, TypeOK
  <2> QED
    BY <1>1, <1>6, <2>1 DEF UpdateStart, VersionMatches, Goto, docVars
<1>7. CASE SaveLoad(r)
  BY <1>1, <1>2, <1>7 DEF SaveLoad, Goto, docVars
<1>8. CASE SaveWrite(r)
  <2>1. at'[r] = "bump" /\ doc' = doc /\ basis' = basis
    BY <1>1, <1>8 DEF SaveWrite, Commit, Goto
  <2>2. commit'[r] = rev + 1 /\ rev \in Nat
    BY <1>1, <1>8 DEF SaveWrite, Commit, DocumentsInv, TypeOK, Writers
  <2> QED
    BY <1>1, <1>8, <2>1, <2>2, LoneWrites
<1>9. CASE SaveNothing(r)
  <2>1. /\ at[r] = "save" /\ at'[r] = "bump" /\ doc' = doc /\ basis' = basis
        /\ table' = table /\ commit' = commit
    BY <1>1, <1>9 DEF SaveNothing, Goto, docVars, history
  <2>2. commit[r] = 0
    BY <1>1, <2>1 DEF DocumentsInv, RequestsFit, Writers
  <2> QED
    BY <1>2, <2>1, <2>2
<1> QED
  BY <1>3, <1>4, <1>5, <1>6, <1>7, <1>8, <1>9, UpdatesMoved DEF UpdatesMove, Starts

\* Without overlaps a version that was replaced is older than the row.
LEMMA SpentStep == ASSUME DocumentsInv, Next PROVE SpentOlder'
<1> SUFFICES ASSUME crossed' = {}, NEW d \in Docs, table'[d] # NoDoc,
                    NEW v \in spent'[d]
             PROVE  v < table'[d].ver
  BY DEF SpentOlder
<1>1. crossed = {}
  BY RowsMoved DEF RowsMove
<1>2. /\ table \in [Docs -> Doc \cup {NoDoc}]
      /\ spent \in [Docs -> SUBSET Nat]
      /\ doc \in [Requests -> Docs \cup {None}]
      /\ table[d] # NoDoc => \A w \in spent[d] : w < table[d].ver
      /\ table[d] # NoDoc \/ spent[d] # {} => d \in used
  BY <1>1 DEF DocumentsInv, TypeOK, SpentOlder, RowsUsed
<1>3. ASSUME NEW r \in Creators, NEW e \in Docs, Create(r, e)
      PROVE  v < table'[d].ver
  <2>1. /\ e \notin used /\ table' = [table EXCEPT ![e] = [ver |-> 1, text |-> r]]
        /\ spent' = spent
    BY <1>3 DEF Create
  <2>2. d # e
    BY <1>2, <2>1
  <2> QED
    BY <1>2, <2>1, <2>2
<1>4. ASSUME NEW r \in Updaters, SaveWrite(r)
      PROVE  v < table'[d].ver
  <2>1. /\ doc[r] \in Docs /\ basis[r] \in Nat
        /\ table[doc[r]] # NoDoc /\ table[doc[r]].ver = basis[r]
        /\ table'[doc[r]].ver = basis[r] + 1
    BY <1>1, <1>4, LoneWrites
  <2>2. \A e \in Docs \ {doc[r]} : table'[e] = table[e]
    BY <1>2, <1>4, <2>1 DEF SaveWrite
  <2>3. spent' = spent
    BY <1>4 DEF SaveWrite
  <2>4. CASE d = doc[r]
    BY <1>2, <2>1, <2>3, <2>4
  <2>5. CASE d # doc[r]
    BY <1>2, <2>2, <2>3, <2>5
  <2> QED
    BY <2>4, <2>5
<1>5. ASSUME NEW r \in Removers, RemoveRow(r)
      PROVE  v < table'[d].ver
  <2>1. spent' = spent /\ table' = [table EXCEPT ![doc[r]] = NoDoc]
    BY <1>5 DEF RemoveRow, history
  <2> QED
    BY <1>2, <2>1
<1>6. ASSUME NEW r \in Updaters, NEW n \in now .. now + 1, Bump(r, n)
      PROVE  v < table'[d].ver
  <2>1. r \in Requests /\ at[r] = "bump"
    BY <1>6 DEF Requests, Writers, Bump
  <2>2. /\ doc[r] \in Docs /\ table' = table
        /\ spent' = IF commit[r] > 0
                    THEN [spent EXCEPT ![doc[r]] = @ \cup {basis[r]}]
                    ELSE spent
    BY <1>6, <2>1 DEF Bump, docVars, DocumentsInv, RequestsFit, TypeOK
  <2>3. basis[r] \in Nat /\ (commit[r] > 0 => table[doc[r]].ver > basis[r])
    BY <1>1, <2>1 DEF DocumentsInv, LoneIsCurrent, TypeOK
  <2>4. v \in spent[d] \/ (commit[r] > 0 /\ d = doc[r] /\ v = basis[r])
    BY <1>2, <2>2
  <2>5. table[d] \in Doc /\ table[d].ver \in Nat
    BY <1>2, <2>2 DEF Doc
  <2> QED
    BY <1>2, <2>2, <2>3, <2>4, <2>5
<1>7. CASE table' = table /\ spent' = spent
  BY <1>2, <1>7
<1> QED
  BY <1>3, <1>4, <1>5, <1>6, <1>7, RowsMoved DEF RowsMove

-----------------------------------------------------------------------------
(* Lists *)

\* Nothing happens to lists but that requests for them may fail.
ListsStay ==
    /\ acked' = acked /\ version' = version /\ cache' = cache
    /\ floor' = floor /\ result' = result /\ ties' = ties
    /\ \A r \in Listers : at'[r] \in {"lookup", "query", "fill", "listed"} =>
          at'[r] = at[r] /\ stamp'[r] = stamp[r]

\* What a step may do to lists.
ListsMove ==
    \/ ListsStay
    \/ \E r \in Writers, n \in now .. now + 1 : Bump(r, n)
    \/ \E r \in Listers :
         \/ ListStart(r) \/ ListLookup(r) \/ ListQuery(r) \/ ListFill(r)
         \/ \E n \in now .. now + 1 :
              ListSetVersion(r, n) \/ ListOwnVersion(r, n)
    \/ \E v \in DOMAIN cache : Evict(v)
    \/ EvictVersion

\* No action does anything else to them.
LEMMA ListsMoved == ASSUME DocumentsInv, Next PROVE ListsMove
<1> USE DEF TypeOK, docVars, cacheVars, held, locals, history, Requests, Writers, Kinds
<1>1. TypeOK /\ RequestsFit /\ RowsUsed /\ Kinds
  BY KindsApart DEF DocumentsInv
<1>2. ASSUME NEW r \in Creators, NEW d \in Docs, Create(r, d)
     PROVE  ListsMove
  <2>1. ListsStay
    BY <1>1, <1>2 DEF ListsStay, Create, Commit, Goto
  <2> QED
    BY <2>1 DEF ListsMove
<1>3. ASSUME NEW r \in Updaters, NEW d \in Docs,
             NEW v \in 1 .. Cardinality(Updaters) + 1, NEW changes \in BOOLEAN,
             UpdateStart(r, d, v, changes)
     PROVE  ListsMove
  <2>1. ListsStay
    BY <1>1, <1>3 DEF ListsStay, UpdateStart, Goto, Cross
  <2> QED
    BY <2>1 DEF ListsMove
<1>4. ASSUME NEW r \in Updaters, NEW d \in Docs,
             NEW v \in 1 .. Cardinality(Updaters) + 1, UpdateRefused(r, d, v)
     PROVE  ListsMove
  <2>1. ListsStay
    BY <1>1, <1>4 DEF ListsStay, UpdateRefused, Goto
  <2> QED
    BY <2>1 DEF ListsMove
<1>5. ASSUME NEW r \in Updaters, SaveLoad(r)
     PROVE  ListsMove
  <2>1. ListsStay
    BY <1>1, <1>5 DEF ListsStay, SaveLoad, Goto
  <2> QED
    BY <2>1 DEF ListsMove
<1>6. ASSUME NEW r \in Updaters, SaveWrite(r)
     PROVE  ListsMove
  <2>1. ListsStay
    BY <1>1, <1>6 DEF ListsStay, SaveWrite, Commit, Goto
  <2> QED
    BY <2>1 DEF ListsMove
<1>7a. ASSUME NEW r \in Updaters, SaveNothing(r)
      PROVE  ListsMove
  <2>1. ListsStay
    BY <1>1, <1>7a DEF ListsStay, SaveNothing, Goto
  <2> QED
    BY <2>1 DEF ListsMove
<1>7. ASSUME NEW r \in Updaters, SaveClash(r)
     PROVE  ListsMove
  <2>1. ListsStay
    BY <1>1, <1>7 DEF ListsStay, SaveClash, Forget, Goto
  <2> QED
    BY <2>1 DEF ListsMove
<1>8. ASSUME NEW r \in Removers, RemoveRow(r)
     PROVE  ListsMove
  <2>1. ListsStay
    BY <1>1, <1>8 DEF ListsStay, RemoveRow, Commit, Goto
  <2> QED
    BY <2>1 DEF ListsMove
<1>9. ASSUME NEW r \in Removers, NEW d \in Docs, RemoveStart(r, d)
     PROVE  ListsMove
  <2>1. ListsStay
    BY <1>1, <1>9 DEF ListsStay, RemoveStart, Goto, Cross
  <2> QED
    BY <2>1 DEF ListsMove
<1>10. ASSUME NEW r \in Commenters, CommentSave(r)
     PROVE  ListsMove
  <2>1. ListsStay
    BY <1>1, <1>10 DEF ListsStay, CommentSave, Commit, Goto
  <2> QED
    BY <2>1 DEF ListsMove
<1>11. ASSUME NEW r \in Commenters, CommentOrphan(r)
     PROVE  ListsMove
  <2>1. ListsStay
    BY <1>1, <1>11 DEF ListsStay, CommentOrphan, Forget, Goto
  <2> QED
    BY <2>1 DEF ListsMove
<1>12. ASSUME NEW r \in Commenters, CommentGone(r)
     PROVE  ListsMove
  <2>1. ListsStay
    BY <1>1, <1>12 DEF ListsStay, CommentGone, Goto
  <2> QED
    BY <2>1 DEF ListsMove
<1>13. ASSUME NEW r \in Commenters, NEW d \in Docs, CommentStart(r, d)
     PROVE  ListsMove
  <2>1. ListsStay
    BY <1>1, <1>13 DEF ListsStay, CommentStart, Goto
  <2> QED
    BY <2>1 DEF ListsMove
<1>14. ASSUME NEW r \in Writers, NEW n \in now .. now + 1, Bump(r, n)
     PROVE  ListsMove
  BY <1>14 DEF ListsMove
<1>15. ASSUME NEW r \in Listers, ListStart(r)
     PROVE  ListsMove
  BY <1>15 DEF ListsMove
<1>16. ASSUME NEW r \in Listers, ListLookup(r)
     PROVE  ListsMove
  BY <1>16 DEF ListsMove
<1>17. ASSUME NEW r \in Listers, ListQuery(r)
     PROVE  ListsMove
  BY <1>17 DEF ListsMove
<1>18. ASSUME NEW r \in Listers, ListFill(r)
     PROVE  ListsMove
  BY <1>18 DEF ListsMove
<1>19. ASSUME NEW r \in Listers, NEW n \in now .. now + 1,
             ListSetVersion(r, n)
     PROVE  ListsMove
  BY <1>19 DEF ListsMove
<1>20. ASSUME NEW r \in Listers, NEW n \in now .. now + 1,
             ListOwnVersion(r, n)
     PROVE  ListsMove
  BY <1>20 DEF ListsMove
<1>21. ASSUME NEW v \in DOMAIN cache, Evict(v)
     PROVE  ListsMove
  BY <1>21 DEF ListsMove
<1>22. ASSUME EvictVersion
     PROVE  ListsMove
  BY <1>22 DEF ListsMove
<1>23. ASSUME NEW r \in Requests, CallFails(r)
     PROVE  ListsMove
  <2>1. ListsStay
    BY <1>1, <1>23 DEF ListsStay, CallFails, Fault, Forget, Goto, Ended
  <2> QED
    BY <2>1 DEF ListsMove
<1>24. ASSUME Crash
     PROVE  ListsMove
  <2>1. ListsStay
    BY <1>1, <1>24 DEF ListsStay, Crash, Fault, Ended
  <2> QED
    BY <2>1 DEF ListsMove
<1> QED
  BY <1>2, <1>3, <1>4, <1>5, <1>6, <1>7, <1>7a, <1>8, <1>9,
     <1>10, <1>11, <1>12, <1>13, <1>14, <1>15, <1>16, <1>17, <1>18,
     <1>19, <1>20, <1>21, <1>22, <1>23, <1>24
  DEF Next, Writers, Requests

\* What the proofs below know of the variables.
LEMMA ListsKnown ==
    ASSUME DocumentsInv
    PROVE  /\ Listers \subseteq Requests /\ Listers \cap Writers = {}
           /\ at \in [Requests -> Labels]
           /\ stamp \in [Listers -> Nat \cup {None}]
           /\ result \in [Listers -> Nat \cup {None}]
           /\ floor \in [Listers -> Nat]
           /\ rev \in Nat /\ acked \in Nat /\ acked <= rev
           /\ now \in Nat /\ DOMAIN cache \subseteq 1 .. now
           /\ \A v \in DOMAIN cache : cache[v] \in Nat
           /\ \A r \in Listers : at[r] \in {"lookup", "query", "fill"} =>
                 stamp[r] \in 1 .. now
           /\ \A r \in Listers : at[r] = "fill" => result[r] \in Nat
           /\ None \notin Nat
  BY KindsApart DEF Kinds, DocumentsInv, TypeOK, RequestsFit, Requests, Writers

\* A new list version that is given once has nothing cached under it, and
\* nobody has it in hand.
LEMMA NewVersion ==
    ASSUME DocumentsInv, NEW n, Date(n)
    PROVE  /\ ties \subseteq ties'
           /\ n \notin ties' =>
                /\ n \notin DOMAIN cache
                /\ \A r \in Listers : at[r] \in {"lookup", "query", "fill"} =>
                      stamp[r] # n
  BY ListsKnown DEF Date

\* A write is answered under a new list version.
LEMMA BumpFresh ==
    ASSUME DocumentsInv, ListsInv,
           NEW r \in Writers, NEW n \in now .. now + 1, Bump(r, n)
    PROVE  ListsInv'
<1>1. /\ version' = n /\ cache' = cache /\ floor' = floor
      /\ stamp' = stamp /\ result' = result
      /\ acked' = IF commit[r] > acked THEN commit[r] ELSE acked
      /\ Date(n)
  BY DEF Bump, SetVersion
<1>2. \A l \in Listers : at'[l] = at[l]
  BY ListsKnown DEF Bump, Goto
<1>3. acked' >= acked /\ acked' \in Nat
  BY <1>1, ListsKnown DEF DocumentsInv, TypeOK
<1>4. \A l \in Listers : floor[l] <= acked'
  BY <1>3, ListsKnown DEF ListsInv
<1>5. /\ ties \subseteq ties'
      /\ n \notin ties' =>
           /\ n \notin DOMAIN cache
           /\ \A l \in Listers : at[l] \in {"lookup", "query", "fill"} =>
                 stamp[l] # n
  BY <1>1, NewVersion
<1> QED
  BY <1>1, <1>2, <1>4, <1>5 DEF ListsInv, FreshLists

\* A list is asked for under the current version.
LEMMA StartFresh ==
    ASSUME DocumentsInv, ListsInv, NEW r \in Listers, ListStart(r)
    PROVE  ListsInv'
<1>1. /\ ties' = ties /\ version' = version /\ cache' = cache /\ acked' = acked
      /\ result' = result /\ floor' = [floor EXCEPT ![r] = acked]
  BY DEF ListStart, cacheVars
<1>2. \A l \in Listers \ {r} :
         at'[l] = at[l] /\ stamp'[l] = stamp[l] /\ floor'[l] = floor[l]
  BY ListsKnown DEF ListStart, Goto
<1>3. /\ floor'[r] = acked
      /\ \/ at'[r] = "lookup" /\ stamp'[r] = version
         \/ at'[r] = "stamp"
  BY ListsKnown DEF ListStart, Goto
<1>4. \A l \in Listers : floor'[l] <= acked
  BY <1>2, <1>3, ListsKnown DEF ListsInv
<1> QED
  BY <1>1, <1>2, <1>3, <1>4 DEF ListsInv, FreshLists

\* A version is set for the lists to come.
LEMMA SetFresh ==
    ASSUME DocumentsInv, ListsInv,
           NEW r \in Listers, NEW n \in now .. now + 1, ListSetVersion(r, n)
    PROVE  ListsInv'
<1>1. /\ version' = n /\ cache' = cache /\ acked' = acked
      /\ result' = result /\ floor' = floor /\ stamp' = stamp /\ Date(n)
  BY DEF ListSetVersion, history
<1>2. /\ \A l \in Listers \ {r} : at'[l] = at[l]
      /\ at'[r] = "restamp"
  BY ListsKnown DEF ListSetVersion, Goto
<1>3. /\ ties \subseteq ties'
      /\ n \notin ties' =>
           /\ n \notin DOMAIN cache
           /\ \A l \in Listers : at[l] \in {"lookup", "query", "fill"} =>
                 stamp[l] # n
  BY <1>1, NewVersion
<1> QED
  BY <1>1, <1>2, <1>3 DEF ListsInv, FreshLists

\* The version a request makes for itself is nobody else's.
LEMMA OwnFresh ==
    ASSUME DocumentsInv, ListsInv,
           NEW r \in Listers, NEW n \in now .. now + 1, ListOwnVersion(r, n)
    PROVE  ListsInv'
<1>1. /\ version' = version /\ cache' = cache /\ acked' = acked
      /\ result' = result /\ floor' = floor /\ Date(n)
      /\ stamp' = [stamp EXCEPT ![r] = n]
  BY DEF ListOwnVersion, history
<1>2. /\ \A l \in Listers \ {r} : at'[l] = at[l] /\ stamp'[l] = stamp[l]
      /\ at'[r] = "lookup" /\ stamp'[r] = n
  BY <1>1, ListsKnown DEF ListOwnVersion, Goto
<1>3. /\ ties \subseteq ties'
      /\ n \notin ties' =>
           /\ n \notin DOMAIN cache
           /\ \A l \in Listers : at[l] \in {"lookup", "query", "fill"} =>
                 stamp[l] # n
  BY <1>1, NewVersion
<1> QED
  BY <1>1, <1>2, <1>3 DEF ListsInv, FreshLists

\* What is found in the cache is listed.
LEMMA LookupFresh ==
    ASSUME DocumentsInv, ListsInv, NEW r \in Listers, ListLookup(r)
    PROVE  ListsInv'
<1>1. /\ ties' = ties /\ version' = version /\ cache' = cache /\ acked' = acked
      /\ floor' = floor /\ stamp' = stamp
  BY DEF ListLookup, cacheVars, history
<1>2. /\ \A l \in Listers \ {r} : at'[l] = at[l] /\ result'[l] = result[l]
      /\ at[r] = "lookup"
      /\ \/ at'[r] = "query" /\ result'[r] = result[r]
         \/ /\ at'[r] = "listed" /\ stamp[r] \in DOMAIN cache
            /\ result'[r] = cache[stamp[r]]
  BY ListsKnown DEF ListLookup, Goto
<1> QED
  BY <1>1, <1>2 DEF ListsInv, FreshLists

\* The database shows all that was committed.
LEMMA QueryFresh ==
    ASSUME DocumentsInv, ListsInv, NEW r \in Listers, ListQuery(r)
    PROVE  ListsInv'
<1>1. /\ ties' = ties /\ version' = version /\ cache' = cache /\ acked' = acked
      /\ floor' = floor /\ stamp' = stamp
  BY DEF ListQuery, cacheVars, history
<1>2. /\ \A l \in Listers \ {r} : at'[l] = at[l] /\ result'[l] = result[l]
      /\ at[r] = "query" /\ at'[r] = "fill" /\ result'[r] = rev
  BY ListsKnown DEF ListQuery, Goto
<1>3. rev >= acked /\ \A l \in Listers : rev >= floor[l]
  BY ListsKnown DEF ListsInv
<1> QED
  BY <1>1, <1>2, <1>3 DEF ListsInv, FreshLists

\* What is put into the cache is fresh for all who have its version in hand.
LEMMA FillFresh ==
    ASSUME DocumentsInv, ListsInv, NEW r \in Listers, ListFill(r)
    PROVE  ListsInv'
<1>1. /\ version' = version /\ acked' = acked /\ floor' = floor
      /\ result' = result /\ stamp' = stamp /\ ties' = ties
      /\ DOMAIN cache' = DOMAIN cache \cup {stamp[r]}
      /\ \A v \in DOMAIN cache' :
            cache'[v] = IF v = stamp[r] THEN result[r] ELSE cache[v]
  BY DEF ListFill, history
<1>2. /\ \A l \in Listers \ {r} : at'[l] = at[l]
      /\ at[r] = "fill" /\ at'[r] = "listed"
  BY ListsKnown DEF ListFill, Goto
<1>3. /\ stamp[r] = version /\ version \notin ties => result[r] >= acked
      /\ \A l \in Listers :
            (at[l] \in {"lookup", "query", "fill"} /\ stamp[l] = stamp[r]
               /\ stamp[l] \notin ties)
              => result[r] >= floor[l]
  BY <1>2 DEF ListsInv
<1>4. version \notin ties /\ version \in DOMAIN cache' =>
         cache'[version] >= acked
  BY <1>1, <1>3 DEF ListsInv
<1>5. ASSUME NEW l \in Listers, at'[l] \in {"lookup", "query", "fill"},
             stamp[l] \notin ties
      PROVE  /\ stamp[l] \in DOMAIN cache' => cache'[stamp[l]] >= floor[l]
             /\ \A q \in Listers : at'[q] = "fill" /\ stamp[q] = stamp[l] =>
                   result[q] >= floor[l]
  <2>1. l # r /\ at[l] = at'[l]
    BY <1>2, <1>5
  <2>2. \A q \in Listers : at'[q] = "fill" => q # r
    BY <1>2
  <2> QED
    BY <1>1, <1>2, <1>3, <1>5, <2>1, <2>2 DEF ListsInv
<1>6. ASSUME NEW l \in Listers, at'[l] = "listed"
      PROVE  result[l] >= floor[l] \/ stamp[l] \in ties
  BY <1>2, <1>3, <1>6 DEF ListsInv, FreshLists
<1>7. \A q \in Listers :
         version \notin ties /\ at'[q] = "fill" /\ stamp[q] = version =>
            result[q] >= acked
  BY <1>2 DEF ListsInv
<1>8. \A l \in Listers : floor[l] <= acked
  BY DEF ListsInv
<1> QED
  BY <1>1, <1>4, <1>5, <1>6, <1>7, <1>8 DEF ListsInv, FreshLists

\* What is not cached any more shows nothing stale.
LEMMA EvictFresh ==
    ASSUME DocumentsInv, ListsInv,
           EvictVersion \/ \E v \in DOMAIN cache : Evict(v)
    PROVE  ListsInv'
<1>1. /\ at' = at /\ stamp' = stamp /\ result' = result
      /\ acked' = acked /\ floor' = floor /\ ties' = ties
  BY DEF EvictVersion, Evict, locals, history
<1>2. CASE EvictVersion
  <2>1. version' = None /\ cache' = cache
    BY <1>2 DEF EvictVersion
  <2>2. None \notin DOMAIN cache
    BY ListsKnown
  <2>3. \A q \in Listers : at[q] = "fill" => stamp[q] # None
    BY ListsKnown
  <2> QED
    BY <1>1, <2>1, <2>2, <2>3 DEF ListsInv, FreshLists
<1>3. ASSUME NEW v \in DOMAIN cache, Evict(v)
      PROVE  ListsInv'
  <2>1. /\ version' = version /\ DOMAIN cache' = DOMAIN cache \ {v}
        /\ \A w \in DOMAIN cache' : cache'[w] = cache[w]
    BY <1>3 DEF Evict
  <2> QED
    BY <1>1, <2>1 DEF ListsInv, FreshLists
<1> QED
  BY <1>2, <1>3

\* Lists stay fresh whatever happens.
LEMMA ListsStep ==
    ASSUME DocumentsInv, ListsInv, Next PROVE ListsInv'
<1>1. CASE ListsStay
  BY <1>1 DEF ListsStay, ListsInv, FreshLists
<1> QED
  BY <1>1, BumpFresh, StartFresh, SetFresh, OwnFresh, LookupFresh, QueryFresh,
     FillFresh, EvictFresh, ListsMoved DEF ListsMove

-----------------------------------------------------------------------------
(* Theorems *)

\* The initial states satisfy the invariants.
LEMMA DocumentsStart == ASSUME Init PROVE DocumentsInv /\ ListsInv
<1> USE DEF Init, Ended
<1>1. 0 \in 0 .. MaxFaults
  BY DocumentsAssumption
<1>2. \A r \in Requests : at[r] \in {"idle", "absent"}
  OBVIOUS
<1>3. TypeOK
  BY <1>1 DEF TypeOK, Labels
<1>4. RequestsFit /\ RowsUsed
  BY <1>2 DEF RequestsFit, RowsUsed
<1>5. UpdatesApart /\ LoneIsCurrent
  BY <1>2 DEF UpdatesApart, LoneIsCurrent, Active, Requests, Writers
<1>6. SpentOlder
  BY DEF SpentOlder
<1>7. ListsInv
  BY <1>2 DEF ListsInv, FreshLists, Requests
<1> QED
  BY <1>3, <1>4, <1>5, <1>6, <1>7 DEF DocumentsInv

\* The invariant is kept by every step.
LEMMA DocumentsStep == ASSUME DocumentsInv, [Next]_vars PROVE DocumentsInv'
<1>1. CASE Next
  BY <1>1, TypeStep, FitStep, UsedStep, ApartStep, LoneStep, SpentStep
  DEF DocumentsInv
<1>2. CASE UNCHANGED vars
  BY <1>2 DEF vars, docVars, cacheVars, held, locals, history, DocumentsInv,
     TypeOK, RequestsFit, RowsUsed, UpdatesApart, Active, LoneIsCurrent,
     SpentOlder
<1> QED
  BY <1>1, <1>2

\* Rows, requests and versions fit together for ever.
THEOREM DocumentsInductive == Spec => []DocumentsInv
<1>1. Init => DocumentsInv
  BY DocumentsStart
<1>2. DocumentsInv /\ [Next]_vars => DocumentsInv'
  BY DocumentsStep
<1> QED
  BY <1>1, <1>2, PTL DEF Spec

\* Every variable has its type.
THEOREM DocumentsTypeCorrect == Spec => []TypeOK
<1>1. DocumentsInv => TypeOK
  BY DEF DocumentsInv
<1> QED
  BY <1>1, DocumentsInductive, PTL

\* What is cached under the current list version shows every answered write,
\* unless two readings of the clock in one millisecond gave that version.
THEOREM CacheInductive == Spec => []ListsInv
<1>1. Init => ListsInv
  BY DocumentsStart
<1>2. DocumentsInv /\ ListsInv /\ [Next]_vars => ListsInv'
  <2> SUFFICES ASSUME DocumentsInv, ListsInv, [Next]_vars
               PROVE  ListsInv'
    OBVIOUS
  <2>1. CASE Next
    BY <2>1, ListsStep
  <2>2. CASE UNCHANGED vars
    BY <2>2 DEF vars, cacheVars, locals, history, ListsInv, FreshLists
  <2> QED
    BY <2>1, <2>2
<1> QED
  BY <1>1, <1>2, DocumentsInductive, PTL DEF Spec

\* So a list shows every write that was answered before it was asked for,
\* unless its list version is such a twin.
THEOREM ListsAreFresh == Spec => []FreshLists
<1>1. ListsInv => FreshLists
  BY DEF ListsInv
<1>2. Spec => []ListsInv
  BY CacheInductive
<1> QED
  BY <1>1, <1>2, PTL

\* An update that overlaps no other update and no removal of its document
\* replaces the very version its client has seen.
THEOREM LoneUpdatesReplace == Spec => LoneUpdatesFit
<1> DEFINE Fit ==
      \A r \in Updaters \ crossed :
         (at[r] = "save" /\ at'[r] = "bump")
           => table[doc[r]] # NoDoc /\ table[doc[r]].ver = basis[r]
<1>1. DocumentsInv /\ [Next]_vars => [Fit]_vars
  BY DEF DocumentsInv, LoneIsCurrent
<1> QED
  BY <1>1, DocumentsInductive, PTL DEF Spec, LoneUpdatesFit

\* Without overlaps a version that was replaced lets nobody in any more.
THEOREM SpentIsRefused == Spec => SpentVersionRefused
<1> DEFINE Refused ==
      \A r \in Updaters :
         (crossed = {} /\ at[r] = "idle" /\ at'[r] = "load")
           => basis'[r] \notin spent[doc'[r]]
<1>1. DocumentsInv /\ [Next]_vars => [Refused]_vars
  <2> SUFFICES ASSUME DocumentsInv, Next, NEW r \in Updaters, crossed = {},
                      at[r] = "idle", at'[r] = "load"
               PROVE  basis'[r] \notin spent[doc'[r]]
    OBVIOUS
  <2>1. /\ r \in Requests /\ at \in [Requests -> Labels]
        /\ basis \in [Updaters -> Nat] /\ spent \in [Docs -> SUBSET Nat]
        /\ doc \in [Requests -> Docs \cup {None}]
        /\ table \in [Docs -> Doc \cup {NoDoc}]
    BY DEF DocumentsInv, TypeOK, Requests, Writers
  <2>2. PICK d \in Docs, v \in 1 .. Cardinality(Updaters) + 1,
             changes \in BOOLEAN : UpdateStart(r, d, v, changes)
    BY <2>1, UpdatesMoved, KindsApart DEF UpdatesMove, Keeps, Ends, Starts,
       SaveLoad, SaveWrite, SaveNothing, Kinds
  <2>3. /\ basis'[r] = v /\ doc'[r] = d
        /\ table[d] # NoDoc /\ table[d].ver = v
    BY <2>1, <2>2 DEF UpdateStart, VersionMatches
  <2>4. table[d].ver \in Nat
    BY <2>1, <2>3 DEF Doc
  <2> QED
    BY <2>3, <2>4 DEF DocumentsInv, SpentOlder
<1> QED
  BY <1>1, DocumentsInductive, PTL DEF Spec, SpentVersionRefused
=============================================================================

------------------------- MODULE FileUploadsProofs -------------------------
(***************************************************************************)
(* Proofs about FileUploads for any number of uploads, chunks, requests,    *)
(* overlapping cleanup runs and failures.                                   *)
(*                                                                          *)
(* IInv (FileUploads) is inductive: TypeStep, LocalsStep, ChunksStep and    *)
(* SavesStep each take one of its conjuncts through a step.  With it        *)
(* TalliesInv is (TalliesStep), and with both WholeInv is while clients are       *)
(* orderly (CountedStep to ReadyStep, one lemma per conjunct).  The         *)
(* theorems at the end follow from the three.                               *)
(***************************************************************************)
EXTENDS FileUploads, FiniteSetTheorems, TLAPS

(* What the entity operators do to a row. *)

\* A failed entity is a row.
LEMMA StatusTyped ==
    ASSUME NEW e \in Row
    PROVE  /\ WithStatus(e, "failed") \in Row
           /\ WithStatus(e, "failed").status = "failed"
  BY DEF WithStatus, Row, Status

\* So is a finished one, and it is READY.
LEMMA FinishedTyped ==
    ASSUME NEW e \in Row
    PROVE  Finished(e) \in Row /\ Finished(e).status = "ready"
  BY DEF Finished, Row, Status

\* Counting a chunk keeps the status.
LEMMA OneMoreTyped ==
    ASSUME NEW e \in Row
    PROVE  OneMore(e) \in Row /\ OneMore(e).status = e.status
  BY DEF OneMore, Row, Status

\* The empty table and the empty disk satisfy the invariant.
LEMMA InitInv == Init => IInv
  BY ConstantsAssumption
  DEF Init, Empty, IInv, TypeOK, TablesTyped, DiskTyped, LocalsTyped, LocalsOK,
      ChunksInRange, SavesJustified, RowOrNone, Labels, Ended, WorkingLabels,
      EntityLabels, IsStatus, Savers, Procs

-----------------------------------------------------------------------------
(* Types *)

\* Every action keeps every variable in its type.
LEMMA TypeStep == ASSUME IInv, Next PROVE TypeOK'
<1> USE ConstantsAssumption DEF IInv, TypeOK, TablesTyped, DiskTyped,
        LocalsTyped,
      RowOrNone, Labels, Ended, Status, Savers, Procs, tables, disk, locals,
           Goto
<1>1. ASSUME NEW f \in Files, InitUpload(f)
     PROVE  TypeOK'
  BY <1>1 DEF InitUpload, Fresh, Row
<1>2. ASSUME NEW f \in Files, MakeTemp(f)
     PROVE  TypeOK'
  BY <1>2 DEF MakeTemp
<1>3. ASSUME NEW f \in Files, Age(f)
     PROVE  TypeOK'
  BY <1>3 DEF Age
<1>4. ASSUME NEW f \in Files, BgRemove(f)
     PROVE  TypeOK'
  BY <1>4 DEF BgRemove, RmTemp
<1>5. ASSUME NEW r \in Chunkers, NEW t \in Tenants, NEW f \in Files,
             NEW i \in IndexInputs, ChunkStart(r, t, f, i)
     PROVE  TypeOK'
  BY <1>5 DEF ChunkStart, Uploadable
<1>6. ASSUME NEW r \in Chunkers, NEW t \in Tenants, NEW f \in Files,
             NEW i \in IndexInputs, ChunkRefused(r, t, f, i)
     PROVE  TypeOK'
  BY <1>6 DEF ChunkRefused, Refuse
<1>7. ASSUME NEW r \in Chunkers, ChunkOpen(r)
     PROVE  TypeOK'
  BY <1>7 DEF ChunkOpen
<1>8. ASSUME NEW r \in Chunkers, ChunkNoDir(r)
     PROVE  TypeOK'
  BY <1>8 DEF ChunkNoDir, Refuse
<1>9. ASSUME NEW r \in Chunkers, ChunkWrite(r)
     PROVE  TypeOK'
  BY <1>9 DEF ChunkWrite
<1>10. ASSUME NEW r \in Chunkers, ChunkCount(r)
      PROVE  TypeOK'
  <2>1. ASSUME row[on[r]] # NoRow, on[r] \in Files
        PROVE  OneMore(row[on[r]]) \in RowOrNone
    BY <2>1, OneMoreTyped
  <2> QED BY <2>1, <1>10 DEF ChunkCount
<1>11. ASSUME NEW r \in Chunkers, ChunkFault(r)
      PROVE  TypeOK'
  BY <1>11 DEF ChunkFault, Fault
<1>11a. ASSUME NEW r \in Chunkers, ChunkReply(r)
      PROVE  TypeOK'
  BY <1>11a DEF ChunkReply
<1>11b. ASSUME NEW r \in Chunkers, ReplyFault(r)
      PROVE  TypeOK'
  BY <1>11b DEF ReplyFault, Fault
<1>12. ASSUME NEW r \in Completers, NEW t \in Tenants, NEW f \in Files,
              CompleteStart(r, t, f)
      PROVE  TypeOK'
  BY <1>12 DEF CompleteStart, Uploadable
<1>13. ASSUME NEW r \in Completers, NEW t \in Tenants, NEW f \in Files,
              CompleteRefused(r, t, f)
      PROVE  TypeOK'
  BY <1>13 DEF CompleteRefused, Refuse
<1>14. ASSUME NEW r \in Completers, MergeOpen(r)
      PROVE  TypeOK'
  BY <1>14 DEF MergeOpen
<1>15. ASSUME NEW r \in Completers, MergeRefused(r)
      PROVE  TypeOK'
  <2>1. WithStatus(ent[r], "failed") \in RowOrNone
    BY <1>15, StatusTyped DEF MergeRefused, LocalsOK, EntityLabels,
       WorkingLabels
  <2> QED BY <2>1, <1>15 DEF MergeRefused, MergeFails
<1>16. ASSUME NEW r \in Completers, MergeChunk(r)
      PROVE  TypeOK'
  <2>1. on[r] \in Files
    BY <1>16 DEF MergeChunk, LocalsOK, WorkingLabels
  <2>2. Min(todo[r]) \in Int
    BY <2>1, <1>16 DEF MergeChunk
  <2>3. off' \in [Completers -> SUBSET Int] /\ todo' \in [Completers -> SUBSET Int]
    BY <2>1, <2>2, <1>16 DEF MergeChunk
  <2>4. intact' \in [Files -> SUBSET Int]
    BY <2>1, <2>2, <1>16 DEF MergeChunk
  <2> QED BY <2>3, <2>4, <1>16 DEF MergeChunk
<1>17. ASSUME NEW r \in Completers, MergeLosesChunk(r)
      PROVE  TypeOK'
  <2>1. WithStatus(ent[r], "failed") \in RowOrNone
    BY <1>17, StatusTyped DEF MergeLosesChunk, LocalsOK, EntityLabels,
       WorkingLabels
  <2> QED BY <2>1, <1>17 DEF MergeLosesChunk, MergeFails
<1>18. ASSUME NEW r \in Completers, MergeEnd(r)
      PROVE  TypeOK'
  <2>1. Finished(ent[r]) \in RowOrNone
    BY <1>18, FinishedTyped DEF MergeEnd, SavesJustified, LocalsOK,
       EntityLabels, WorkingLabels
  <2> QED BY <2>1, <1>18 DEF MergeEnd, StartCleanup
<1>19. ASSUME NEW r \in Completers, MergeFault(r)
      PROVE  TypeOK'
  <2>1. WithStatus(ent[r], "failed") \in RowOrNone
    BY <1>19, StatusTyped DEF MergeFault, LocalsOK, EntityLabels, WorkingLabels
  <2> QED BY <2>1, <1>19 DEF MergeFault, MergeFails, Fault
<1>20. ASSUME NEW r \in Removers, NEW t \in Tenants, NEW f \in Files,
              RemoveStart(r, t, f)
      PROVE  TypeOK'
  BY <1>20 DEF RemoveStart
<1>21. ASSUME NEW r \in Removers, NEW t \in Tenants, NEW f \in Files,
              RemoveRefused(r, t, f)
      PROVE  TypeOK'
  BY <1>21 DEF RemoveRefused, Refuse
<1>22. ASSUME NEW r \in Removers, RemoveStored(r)
      PROVE  TypeOK'
  BY <1>22 DEF RemoveStored
<1>23. ASSUME NEW r \in Removers, RemoveTemp(r)
      PROVE  TypeOK'
  BY <1>23 DEF RemoveTemp, RmTempOf, RmTemp
<1>24. ASSUME NEW r \in Removers, RemoveRow(r)
      PROVE  TypeOK'
  BY <1>24 DEF RemoveRow
<1>25. ASSUME NEW s \in Sweepers, SweepStart(s)
      PROVE  TypeOK'
  BY <1>25 DEF SweepStart, Expired
<1>26. ASSUME NEW s \in Sweepers, NEW f \in Files, SweepNext(s, f)
      PROVE  TypeOK'
  BY <1>26 DEF SweepNext
<1>27. ASSUME NEW s \in Sweepers, SweepPurge(s)
      PROVE  TypeOK'
  <2>1. WithStatus(ent[s], "failed") \in RowOrNone
    BY <1>27, StatusTyped DEF SweepPurge, LocalsOK, EntityLabels, WorkingLabels
  <2> QED BY <2>1, <1>27 DEF SweepPurge, RmTempOf, RmTemp
<1>28. ASSUME NEW s \in Sweepers, SweepEnd(s)
      PROVE  TypeOK'
  BY <1>28 DEF SweepEnd
<1>29. ASSUME NEW p \in Savers, SaveLoad(p)
      PROVE  TypeOK'
  BY <1>29 DEF SaveLoad, LocalsOK, WorkingLabels
<1>30. ASSUME NEW p \in Savers, SaveWrite(p)
      PROVE  TypeOK'
  <2>1. ent[p] \in Row /\ ent[p].status \in Labels
    BY <1>30, StatusTyped DEF SaveWrite, SavesJustified, LocalsOK,
       EntityLabels, WorkingLabels
  <2>2. ASSUME NEW cur \in Row, NEW loaded \in Row
        PROVE  Updated(cur, loaded, ent[p]) \in Row
    BY <2>1 DEF Updated, Row
  <2>3. row' \in [Files -> RowOrNone]
    BY <2>1, <2>2, <1>30 DEF SaveWrite, SaveRow
  <2> QED BY <2>1, <2>3, <1>30 DEF SaveWrite, AfterSave
<1>31. ASSUME NEW p \in Savers, SaveClash(p)
      PROVE  TypeOK'
  <2>1. WithStatus(ent[p], "failed") \in RowOrNone /\ ent[p].status \in Labels
    BY <1>31, StatusTyped DEF SaveClash, SavesJustified, LocalsOK,
       EntityLabels, WorkingLabels
  <2>2. TablesTyped' /\ DiskTyped' /\ faults' \in Nat
    BY <1>31 DEF SaveClash
  <2>3. LocalsTyped'
    <3>1. CASE ent[p].status = "ready"
      <4>1. /\ ent' = [ent EXCEPT ![p] = WithStatus(@, "failed")]
            /\ base' = [base EXCEPT ![p] = NoRow]
            /\ pc' = [pc EXCEPT ![p] = "load"]
        BY <3>1, <1>31 DEF SaveClash, SaveThrows
      <4>2. UNCHANGED <<on, idx, todo, off, linked, list>>
        BY <3>1, <1>31 DEF SaveClash, SaveThrows
      <4> QED BY <2>1, <4>1, <4>2
    <3>2. CASE ent[p].status # "ready"
      BY <2>1, <3>2, <1>31 DEF SaveClash, SaveThrows, AfterSave
    <3> QED BY <3>1, <3>2
  <2> QED BY <2>2, <2>3
<1>32. ASSUME NEW p \in Savers, SaveFault(p)
      PROVE  TypeOK'
  <2>1. WithStatus(ent[p], "failed") \in RowOrNone /\ ent[p].status \in Labels
    BY <1>32, StatusTyped DEF SaveFault, SavesJustified, LocalsOK,
       EntityLabels, WorkingLabels
  <2>2. TablesTyped' /\ DiskTyped' /\ faults' \in Nat
    BY <1>32 DEF SaveFault, Fault
  <2>3. LocalsTyped'
    <3>1. CASE ent[p].status = "ready"
      BY <2>1, <3>1, <1>32 DEF SaveFault, SaveThrows
    <3>2. CASE ent[p].status # "ready"
      BY <2>1, <3>2, <1>32 DEF SaveFault, SaveThrows, AfterSave
    <3> QED BY <3>1, <3>2
  <2> QED BY <2>2, <2>3
<1>33. ASSUME Crash PROVE TypeOK'
  BY <1>33 DEF Crash, CutOff, Fault
<1>34. QED
  BY <1>1, <1>2, <1>3, <1>4, <1>5, <1>6, <1>7, <1>8, <1>9, <1>10, <1>11, <1>11a,
     <1>11b, <1>12,
     <1>13, <1>14, <1>15, <1>16, <1>17, <1>18, <1>19, <1>20, <1>21, <1>22,
     <1>23, <1>24, <1>25, <1>26, <1>27, <1>28, <1>29, <1>30, <1>31, <1>32,
     <1>33
  DEF Next, ChunkStep, MergeStep, RemoveStep, SweepStep, SaveStep

-----------------------------------------------------------------------------
(* Targets and entities of the processes at work *)

\* Every action leaves processes with a target and an entity they may use.
LEMMA LocalsStep == ASSUME IInv, Next PROVE LocalsOK'
<1> USE ConstantsAssumption DEF IInv, TypeOK, TablesTyped, DiskTyped,
        LocalsTyped,
      RowOrNone, LocalsOK, WorkingLabels, EntityLabels, Ended, Savers, Procs,
           tables, disk, locals, Goto
<1>1. ASSUME NEW f \in Files, InitUpload(f)
     PROVE  LocalsOK'
  BY <1>1 DEF InitUpload
<1>2. ASSUME NEW f \in Files, MakeTemp(f)
     PROVE  LocalsOK'
  BY <1>2 DEF MakeTemp
<1>3. ASSUME NEW f \in Files, Age(f)
     PROVE  LocalsOK'
  BY <1>3 DEF Age
<1>4. ASSUME NEW f \in Files, BgRemove(f)
     PROVE  LocalsOK'
  BY <1>4 DEF BgRemove, RmTemp
<1>5. ASSUME NEW r \in Chunkers, NEW t \in Tenants, NEW f \in Files,
             NEW i \in IndexInputs, ChunkStart(r, t, f, i)
     PROVE  LocalsOK'
  BY <1>5 DEF ChunkStart, Uploadable
<1>6. ASSUME NEW r \in Chunkers, NEW t \in Tenants, NEW f \in Files,
             NEW i \in IndexInputs, ChunkRefused(r, t, f, i)
     PROVE  LocalsOK'
  BY <1>6 DEF ChunkRefused, Refuse
<1>7. ASSUME NEW r \in Chunkers, ChunkOpen(r)
     PROVE  LocalsOK'
  BY <1>7 DEF ChunkOpen
<1>8. ASSUME NEW r \in Chunkers, ChunkNoDir(r)
     PROVE  LocalsOK'
  BY <1>8 DEF ChunkNoDir, Refuse
<1>9. ASSUME NEW r \in Chunkers, ChunkWrite(r)
     PROVE  LocalsOK'
  BY <1>9 DEF ChunkWrite
<1>10. ASSUME NEW r \in Chunkers, ChunkCount(r)
      PROVE  LocalsOK'
  BY <1>10 DEF ChunkCount
<1>11. ASSUME NEW r \in Chunkers, ChunkFault(r)
      PROVE  LocalsOK'
  BY <1>11 DEF ChunkFault, Fault
<1>11a. ASSUME NEW r \in Chunkers, ChunkReply(r)
      PROVE  LocalsOK'
  BY <1>11a DEF ChunkReply
<1>11b. ASSUME NEW r \in Chunkers, ReplyFault(r)
      PROVE  LocalsOK'
  BY <1>11b DEF ReplyFault, Fault
<1>12. ASSUME NEW r \in Completers, NEW t \in Tenants, NEW f \in Files,
              CompleteStart(r, t, f)
      PROVE  LocalsOK'
  BY <1>12 DEF CompleteStart, Uploadable
<1>13. ASSUME NEW r \in Completers, NEW t \in Tenants, NEW f \in Files,
              CompleteRefused(r, t, f)
      PROVE  LocalsOK'
  BY <1>13 DEF CompleteRefused, Refuse
<1>14. ASSUME NEW r \in Completers, MergeOpen(r)
      PROVE  LocalsOK'
  BY <1>14 DEF MergeOpen
<1>15. ASSUME NEW r \in Completers, MergeRefused(r)
      PROVE  LocalsOK'
  <2>1. WithStatus(ent[r], "failed") \in Row
    BY <1>15, StatusTyped DEF MergeRefused
  <2> QED BY <2>1, <1>15 DEF MergeRefused, MergeFails
<1>16. ASSUME NEW r \in Completers, MergeChunk(r)
      PROVE  LocalsOK'
  BY <1>16 DEF MergeChunk
<1>17. ASSUME NEW r \in Completers, MergeLosesChunk(r)
      PROVE  LocalsOK'
  <2>1. WithStatus(ent[r], "failed") \in Row
    BY <1>17, StatusTyped DEF MergeLosesChunk
  <2> QED BY <2>1, <1>17 DEF MergeLosesChunk, MergeFails
<1>18. ASSUME NEW r \in Completers, MergeEnd(r)
      PROVE  LocalsOK'
  <2>1. Finished(ent[r]) \in Row
    BY <1>18, FinishedTyped DEF MergeEnd
  <2> QED BY <2>1, <1>18 DEF MergeEnd, StartCleanup
<1>19. ASSUME NEW r \in Completers, MergeFault(r)
      PROVE  LocalsOK'
  <2>1. WithStatus(ent[r], "failed") \in Row
    BY <1>19, StatusTyped DEF MergeFault
  <2> QED BY <2>1, <1>19 DEF MergeFault, MergeFails, Fault
<1>20. ASSUME NEW r \in Removers, NEW t \in Tenants, NEW f \in Files,
              RemoveStart(r, t, f)
      PROVE  LocalsOK'
  BY <1>20 DEF RemoveStart
<1>21. ASSUME NEW r \in Removers, NEW t \in Tenants, NEW f \in Files,
              RemoveRefused(r, t, f)
      PROVE  LocalsOK'
  BY <1>21 DEF RemoveRefused, Refuse
<1>22. ASSUME NEW r \in Removers, RemoveStored(r)
      PROVE  LocalsOK'
  BY <1>22 DEF RemoveStored
<1>23. ASSUME NEW r \in Removers, RemoveTemp(r)
      PROVE  LocalsOK'
  BY <1>23 DEF RemoveTemp, RmTempOf, RmTemp
<1>24. ASSUME NEW r \in Removers, RemoveRow(r)
      PROVE  LocalsOK'
  BY <1>24 DEF RemoveRow
<1>25. ASSUME NEW s \in Sweepers, SweepStart(s)
      PROVE  LocalsOK'
  BY <1>25 DEF SweepStart, Expired
<1>26. ASSUME NEW s \in Sweepers, NEW f \in Files, SweepNext(s, f)
      PROVE  LocalsOK'
  BY <1>26 DEF SweepNext
<1>27. ASSUME NEW s \in Sweepers, SweepPurge(s)
      PROVE  LocalsOK'
  <2>1. WithStatus(ent[s], "failed") \in Row
    BY <1>27, StatusTyped DEF SweepPurge
  <2> QED BY <2>1, <1>27 DEF SweepPurge, RmTempOf, RmTemp
<1>28. ASSUME NEW s \in Sweepers, SweepEnd(s)
      PROVE  LocalsOK'
  BY <1>28 DEF SweepEnd
<1>29. ASSUME NEW p \in Savers, SaveLoad(p)
      PROVE  LocalsOK'
  BY <1>29 DEF SaveLoad
<1>30. ASSUME NEW p \in Savers, SaveWrite(p)
      PROVE  LocalsOK'
  <2>1. ent[p].status \in {"ready", "failed"}
    BY <1>30 DEF SaveWrite, SavesJustified
  <2>2. pc'[p] \notin WorkingLabels
    BY <2>1, <1>30 DEF SaveWrite, AfterSave
  <2>3. \A q \in Procs : q # p => pc'[q] = pc[q] /\ on'[q] = on[q] /\ ent'[q] = ent[q]
    BY <1>30 DEF SaveWrite, AfterSave
  <2>4. \A f \in Files : row'[f] # NoRow => f \in created'
    BY <1>30 DEF SaveWrite, SaveRow
  <2> QED BY <2>2, <2>3, <2>4, <1>30 DEF SaveWrite
<1>31. ASSUME NEW p \in Savers, SaveClash(p)
      PROVE  LocalsOK'
  <2>1. CASE ent[p].status = "ready"
    <3>1. WithStatus(ent[p], "failed") \in Row
      BY <1>31, StatusTyped DEF SaveClash
    <3> QED BY <2>1, <3>1, <1>31 DEF SaveClash, SaveThrows
  <2>2. CASE ent[p].status # "ready"
    <3>1. ent[p].status = "failed"
      BY <2>2, <1>31 DEF SaveClash, SavesJustified
    <3>2. pc'[p] \notin WorkingLabels
      BY <2>2, <3>1, <1>31 DEF SaveClash, SaveThrows, AfterSave
    <3>3. \A q \in Procs : q # p => pc'[q] = pc[q] /\ on'[q] = on[q] /\ ent'[q] = ent[q]
      BY <2>2, <1>31 DEF SaveClash, SaveThrows, AfterSave
    <3> QED BY <3>2, <3>3, <1>31 DEF SaveClash
  <2> QED BY <2>1, <2>2
<1>32. ASSUME NEW p \in Savers, SaveFault(p)
      PROVE  LocalsOK'
  <2>1. CASE ent[p].status = "ready"
    <3>1. WithStatus(ent[p], "failed") \in Row
      BY <1>32, StatusTyped DEF SaveFault
    <3> QED BY <2>1, <3>1, <1>32 DEF SaveFault, SaveThrows, Fault
  <2>2. CASE ent[p].status # "ready"
    <3>1. ent[p].status = "failed"
      BY <2>2, <1>32 DEF SaveFault, SavesJustified
    <3>2. pc'[p] \notin WorkingLabels
      BY <2>2, <3>1, <1>32 DEF SaveFault, SaveThrows, AfterSave
    <3>3. \A q \in Procs : q # p => pc'[q] = pc[q] /\ on'[q] = on[q] /\ ent'[q] = ent[q]
      BY <2>2, <1>32 DEF SaveFault, SaveThrows, AfterSave
    <3> QED BY <3>2, <3>3, <1>32 DEF SaveFault, Fault
  <2> QED BY <2>1, <2>2
<1>33. ASSUME Crash PROVE LocalsOK'
  BY <1>33 DEF Crash, CutOff, Fault
<1>34. QED
  BY <1>1, <1>2, <1>3, <1>4, <1>5, <1>6, <1>7, <1>8, <1>9, <1>10, <1>11, <1>11a,
     <1>11b, <1>12,
     <1>13, <1>14, <1>15, <1>16, <1>17, <1>18, <1>19, <1>20, <1>21, <1>22,
     <1>23, <1>24, <1>25, <1>26, <1>27, <1>28, <1>29, <1>30, <1>31, <1>32,
     <1>33
  DEF Next, ChunkStep, MergeStep, RemoveStep, SweepStep, SaveStep

-----------------------------------------------------------------------------
(* Chunk files and their indexes *)

\* A chunk file comes only from uploadChunk, which checked its index.
LEMMA ChunksStep == ASSUME IInv, Next PROVE ChunksInRange'
<1> USE ConstantsAssumption DEF IInv, TypeOK, TablesTyped, DiskTyped,
        LocalsTyped,
      ChunksInRange, Ended, Savers, Procs, tables, disk, locals, Goto
<1>1. ASSUME NEW f \in Files, InitUpload(f)
     PROVE  ChunksInRange'
  BY <1>1 DEF InitUpload
<1>2. ASSUME NEW f \in Files, MakeTemp(f)
     PROVE  ChunksInRange'
  BY <1>2 DEF MakeTemp
<1>3. ASSUME NEW f \in Files, Age(f)
     PROVE  ChunksInRange'
  BY <1>3 DEF Age
<1>4. ASSUME NEW f \in Files, BgRemove(f)
     PROVE  ChunksInRange'
  BY <1>4 DEF BgRemove, RmTemp
<1>5. ASSUME NEW r \in Chunkers, NEW t \in Tenants, NEW f \in Files,
             NEW i \in IndexInputs, ChunkStart(r, t, f, i)
     PROVE  ChunksInRange'
  <2>1. i \in Indexes(f)
    BY <1>5 DEF ChunkStart, ValidIndex, Indexes
  <2> QED BY <2>1, <1>5 DEF ChunkStart
<1>6. ASSUME NEW r \in Chunkers, NEW t \in Tenants, NEW f \in Files,
             NEW i \in IndexInputs, ChunkRefused(r, t, f, i)
     PROVE  ChunksInRange'
  BY <1>6 DEF ChunkRefused, Refuse
<1>7. ASSUME NEW r \in Chunkers, ChunkOpen(r)
     PROVE  ChunksInRange'
  <2>1. on[r] \in Files /\ idx[r] \in Indexes(on[r])
    BY <1>7 DEF ChunkOpen, LocalsOK, WorkingLabels
  <2> QED BY <2>1, <1>7 DEF ChunkOpen
<1>8. ASSUME NEW r \in Chunkers, ChunkNoDir(r)
     PROVE  ChunksInRange'
  BY <1>8 DEF ChunkNoDir, Refuse
<1>9. ASSUME NEW r \in Chunkers, ChunkWrite(r)
     PROVE  ChunksInRange'
  BY <1>9 DEF ChunkWrite
<1>10. ASSUME NEW r \in Chunkers, ChunkCount(r)
      PROVE  ChunksInRange'
  BY <1>10 DEF ChunkCount
<1>11. ASSUME NEW r \in Chunkers, ChunkFault(r)
      PROVE  ChunksInRange'
  BY <1>11 DEF ChunkFault, Fault
<1>11a. ASSUME NEW r \in Chunkers, ChunkReply(r)
      PROVE  ChunksInRange'
  BY <1>11a DEF ChunkReply
<1>11b. ASSUME NEW r \in Chunkers, ReplyFault(r)
      PROVE  ChunksInRange'
  BY <1>11b DEF ReplyFault, Fault
<1>12. ASSUME NEW r \in Completers, NEW t \in Tenants, NEW f \in Files,
              CompleteStart(r, t, f)
      PROVE  ChunksInRange'
  BY <1>12 DEF CompleteStart, Uploadable
<1>13. ASSUME NEW r \in Completers, NEW t \in Tenants, NEW f \in Files,
              CompleteRefused(r, t, f)
      PROVE  ChunksInRange'
  BY <1>13 DEF CompleteRefused, Refuse
<1>14. ASSUME NEW r \in Completers, MergeOpen(r)
      PROVE  ChunksInRange'
  BY <1>14 DEF MergeOpen
<1>15. ASSUME NEW r \in Completers, MergeRefused(r)
      PROVE  ChunksInRange'
  BY <1>15 DEF MergeRefused, MergeFails
<1>16. ASSUME NEW r \in Completers, MergeChunk(r)
      PROVE  ChunksInRange'
  BY <1>16 DEF MergeChunk
<1>17. ASSUME NEW r \in Completers, MergeLosesChunk(r)
      PROVE  ChunksInRange'
  BY <1>17 DEF MergeLosesChunk, MergeFails
<1>18. ASSUME NEW r \in Completers, MergeEnd(r)
      PROVE  ChunksInRange'
  BY <1>18 DEF MergeEnd, StartCleanup
<1>19. ASSUME NEW r \in Completers, MergeFault(r)
      PROVE  ChunksInRange'
  BY <1>19 DEF MergeFault, MergeFails, Fault
<1>20. ASSUME NEW r \in Removers, NEW t \in Tenants, NEW f \in Files,
              RemoveStart(r, t, f)
      PROVE  ChunksInRange'
  BY <1>20 DEF RemoveStart
<1>21. ASSUME NEW r \in Removers, NEW t \in Tenants, NEW f \in Files,
              RemoveRefused(r, t, f)
      PROVE  ChunksInRange'
  BY <1>21 DEF RemoveRefused, Refuse
<1>22. ASSUME NEW r \in Removers, RemoveStored(r)
      PROVE  ChunksInRange'
  BY <1>22 DEF RemoveStored
<1>23. ASSUME NEW r \in Removers, RemoveTemp(r)
      PROVE  ChunksInRange'
  BY <1>23 DEF RemoveTemp, RmTempOf, RmTemp
<1>24. ASSUME NEW r \in Removers, RemoveRow(r)
      PROVE  ChunksInRange'
  BY <1>24 DEF RemoveRow
<1>25. ASSUME NEW s \in Sweepers, SweepStart(s)
      PROVE  ChunksInRange'
  BY <1>25 DEF SweepStart, Expired
<1>26. ASSUME NEW s \in Sweepers, NEW f \in Files, SweepNext(s, f)
      PROVE  ChunksInRange'
  BY <1>26 DEF SweepNext
<1>27. ASSUME NEW s \in Sweepers, SweepPurge(s)
      PROVE  ChunksInRange'
  BY <1>27 DEF SweepPurge, RmTempOf, RmTemp
<1>28. ASSUME NEW s \in Sweepers, SweepEnd(s)
      PROVE  ChunksInRange'
  BY <1>28 DEF SweepEnd
<1>29. ASSUME NEW p \in Savers, SaveLoad(p)
      PROVE  ChunksInRange'
  BY <1>29 DEF SaveLoad
<1>30. ASSUME NEW p \in Savers, SaveWrite(p)
      PROVE  ChunksInRange'
  BY <1>30 DEF SaveWrite, SaveRow, AfterSave
<1>31. ASSUME NEW p \in Savers, SaveClash(p)
      PROVE  ChunksInRange'
  BY <1>31 DEF SaveClash, SaveThrows, AfterSave
<1>32. ASSUME NEW p \in Savers, SaveFault(p)
      PROVE  ChunksInRange'
  BY <1>32 DEF SaveFault, SaveThrows, AfterSave, Fault
<1>33. ASSUME Crash PROVE ChunksInRange'
  BY <1>33 DEF Crash, CutOff, Fault
<1>34. QED
  BY <1>1, <1>2, <1>3, <1>4, <1>5, <1>6, <1>7, <1>8, <1>9, <1>10, <1>11, <1>11a,
     <1>11b, <1>12,
     <1>13, <1>14, <1>15, <1>16, <1>17, <1>18, <1>19, <1>20, <1>21, <1>22,
     <1>23, <1>24, <1>25, <1>26, <1>27, <1>28, <1>29, <1>30, <1>31, <1>32,
     <1>33
  DEF Next, ChunkStep, MergeStep, RemoveStep, SweepStep, SaveStep

-----------------------------------------------------------------------------
(* What is saved as READY *)

\* As many chunk files as chunks, all in range: they are all there.
LEMMA FullDirectory ==
    ASSUME NEW f \in Files, present[f] \subseteq Indexes(f), CountMatches(f)
    PROVE  present[f] = Indexes(f)
<1>1. Total[f] \in Nat /\ Total[f] > 0
  BY ConstantsAssumption
<1>2. IsFiniteSet(0 .. (Total[f] - 1))
  BY <1>1, FS_Interval
<1>3. Cardinality(0 .. (Total[f] - 1)) = Total[f]
  BY <1>1, FS_Interval
<1> QED
  BY <1>2, <1>3, FS_Subset DEF CountMatches, Indexes

\* An entity becomes READY only behind the comparison of the two counts, and
\* received chunks are never forgotten while it waits to be saved.
LEMMA SavesStep == ASSUME IInv, Next PROVE SavesJustified'
<1> USE ConstantsAssumption DEF IInv, TypeOK, TablesTyped, DiskTyped,
        LocalsTyped,
      SavesJustified, AllReceived, IsStatus, Ended, Savers, Procs, tables,
           disk, locals, Goto
<1>1. ASSUME NEW f \in Files, InitUpload(f)
     PROVE  SavesJustified'
  BY <1>1 DEF InitUpload, Fresh
<1>2. ASSUME NEW f \in Files, MakeTemp(f)
     PROVE  SavesJustified'
  BY <1>2 DEF MakeTemp
<1>3. ASSUME NEW f \in Files, Age(f)
     PROVE  SavesJustified'
  BY <1>3 DEF Age
<1>4. ASSUME NEW f \in Files, BgRemove(f)
     PROVE  SavesJustified'
  BY <1>4 DEF BgRemove, RmTemp
<1>5. ASSUME NEW r \in Chunkers, NEW t \in Tenants, NEW f \in Files,
             NEW i \in IndexInputs, ChunkStart(r, t, f, i)
     PROVE  SavesJustified'
  BY <1>5 DEF ChunkStart, Uploadable
<1>6. ASSUME NEW r \in Chunkers, NEW t \in Tenants, NEW f \in Files,
             NEW i \in IndexInputs, ChunkRefused(r, t, f, i)
     PROVE  SavesJustified'
  BY <1>6 DEF ChunkRefused, Refuse
<1>7. ASSUME NEW r \in Chunkers, ChunkOpen(r)
     PROVE  SavesJustified'
  <2>1. on[r] \in Files /\ idx[r] \in Indexes(on[r])
    BY <1>7 DEF ChunkOpen, LocalsOK, WorkingLabels, ChunksInRange
  <2>2. \A f \in Files : AllReceived(f) => AllReceived(f)'
    BY <2>1, <1>7 DEF ChunkOpen
  <2>3. \A p \in Savers : pc'[p] = pc[p]
    BY <1>7 DEF ChunkOpen
  <2> HIDE DEF AllReceived
  <2> QED BY <2>2, <2>3, <1>7 DEF ChunkOpen, LocalsOK, WorkingLabels
<1>8. ASSUME NEW r \in Chunkers, ChunkNoDir(r)
     PROVE  SavesJustified'
  BY <1>8 DEF ChunkNoDir, Refuse
<1>9. ASSUME NEW r \in Chunkers, ChunkWrite(r)
     PROVE  SavesJustified'
  BY <1>9 DEF ChunkWrite
<1>10. ASSUME NEW r \in Chunkers, ChunkCount(r)
      PROVE  SavesJustified'
  <2>1. on[r] \in Files
    BY <1>10 DEF ChunkCount, LocalsOK, WorkingLabels
  <2>2. \A f \in Files : IsStatus(f, "ready")' => IsStatus(f, "ready")
    <3>1. row[on[r]] # NoRow => OneMore(row[on[r]]).status = row[on[r]].status
      BY <2>1, OneMoreTyped DEF RowOrNone
    <3> QED BY <2>1, <3>1, <1>10 DEF ChunkCount
  <2> HIDE DEF IsStatus
  <2> QED BY <2>2, <1>10 DEF ChunkCount
<1>11. ASSUME NEW r \in Chunkers, ChunkFault(r)
      PROVE  SavesJustified'
  BY <1>11 DEF ChunkFault, Fault
<1>11a. ASSUME NEW r \in Chunkers, ChunkReply(r)
      PROVE  SavesJustified'
  BY <1>11a DEF ChunkReply
<1>11b. ASSUME NEW r \in Chunkers, ReplyFault(r)
      PROVE  SavesJustified'
  BY <1>11b DEF ReplyFault, Fault
<1>12. ASSUME NEW r \in Completers, NEW t \in Tenants, NEW f \in Files,
              CompleteStart(r, t, f)
      PROVE  SavesJustified'
  BY <1>12 DEF CompleteStart, Uploadable
<1>13. ASSUME NEW r \in Completers, NEW t \in Tenants, NEW f \in Files,
              CompleteRefused(r, t, f)
      PROVE  SavesJustified'
  BY <1>13 DEF CompleteRefused, Refuse
<1>14. ASSUME NEW r \in Completers, MergeOpen(r)
      PROVE  SavesJustified'
  <2>1. on[r] \in Files
    BY <1>14 DEF MergeOpen, LocalsOK, WorkingLabels
  <2>2. present[on[r]] = Indexes(on[r])
    BY <2>1, <1>14, FullDirectory DEF MergeOpen, ChunksInRange
  <2>3. Indexes(on[r]) \subseteq received[on[r]] /\ received[on[r]] \subseteq Indexes(on[r])
    BY <2>1, <2>2, Zenon DEF ChunksInRange
  <2>4. AllReceived(on[r])
    BY <2>3, Zenon
  <2> QED BY <2>4, <1>14 DEF MergeOpen
<1>15. ASSUME NEW r \in Completers, MergeRefused(r)
      PROVE  SavesJustified'
  <2>1. WithStatus(ent[r], "failed").status = "failed"
    BY <1>15, StatusTyped DEF MergeRefused, LocalsOK, EntityLabels,
       WorkingLabels
  <2> QED BY <2>1, <1>15 DEF MergeRefused, MergeFails
<1>16. ASSUME NEW r \in Completers, MergeChunk(r)
      PROVE  SavesJustified'
  BY <1>16 DEF MergeChunk
<1>17. ASSUME NEW r \in Completers, MergeLosesChunk(r)
      PROVE  SavesJustified'
  <2>1. WithStatus(ent[r], "failed").status = "failed"
    BY <1>17, StatusTyped DEF MergeLosesChunk, LocalsOK, EntityLabels,
       WorkingLabels
  <2> QED BY <2>1, <1>17 DEF MergeLosesChunk, MergeFails
<1>18. ASSUME NEW r \in Completers, MergeEnd(r)
      PROVE  SavesJustified'
  <2>1. Finished(ent[r]).status = "ready"
    BY <1>18, FinishedTyped DEF MergeEnd, LocalsOK, EntityLabels, WorkingLabels
  <2> QED BY <2>1, <1>18 DEF MergeEnd, StartCleanup
<1>19. ASSUME NEW r \in Completers, MergeFault(r)
      PROVE  SavesJustified'
  <2>1. WithStatus(ent[r], "failed").status = "failed"
    BY <1>19, StatusTyped DEF MergeFault, LocalsOK, EntityLabels, WorkingLabels
  <2> QED BY <2>1, <1>19 DEF MergeFault, MergeFails, Fault
<1>20. ASSUME NEW r \in Removers, NEW t \in Tenants, NEW f \in Files,
              RemoveStart(r, t, f)
      PROVE  SavesJustified'
  BY <1>20 DEF RemoveStart
<1>21. ASSUME NEW r \in Removers, NEW t \in Tenants, NEW f \in Files,
              RemoveRefused(r, t, f)
      PROVE  SavesJustified'
  BY <1>21 DEF RemoveRefused, Refuse
<1>22. ASSUME NEW r \in Removers, RemoveStored(r)
      PROVE  SavesJustified'
  BY <1>22 DEF RemoveStored
<1>23. ASSUME NEW r \in Removers, RemoveTemp(r)
      PROVE  SavesJustified'
  BY <1>23 DEF RemoveTemp, RmTempOf, RmTemp
<1>24. ASSUME NEW r \in Removers, RemoveRow(r)
      PROVE  SavesJustified'
  BY <1>24 DEF RemoveRow
<1>25. ASSUME NEW s \in Sweepers, SweepStart(s)
      PROVE  SavesJustified'
  BY <1>25 DEF SweepStart, Expired
<1>26. ASSUME NEW s \in Sweepers, NEW f \in Files, SweepNext(s, f)
      PROVE  SavesJustified'
  BY <1>26 DEF SweepNext
<1>27. ASSUME NEW s \in Sweepers, SweepPurge(s)
      PROVE  SavesJustified'
  <2>1. WithStatus(ent[s], "failed").status = "failed"
    BY <1>27, StatusTyped DEF SweepPurge, LocalsOK, EntityLabels, WorkingLabels
  <2> QED BY <2>1, <1>27 DEF SweepPurge, RmTempOf, RmTemp
<1>28. ASSUME NEW s \in Sweepers, SweepEnd(s)
      PROVE  SavesJustified'
  BY <1>28 DEF SweepEnd
<1>29. ASSUME NEW p \in Savers, SaveLoad(p)
      PROVE  SavesJustified'
  BY <1>29 DEF SaveLoad
<1>30. ASSUME NEW p \in Savers, SaveWrite(p)
      PROVE  SavesJustified'
  <2>1. on[p] \in Files /\ ent[p] \in Row /\ (ent[p].status = "ready" => AllReceived(on[p]))
    BY <1>30 DEF SaveWrite, LocalsOK, WorkingLabels, EntityLabels
  <2>2. \A f \in Files : IsStatus(f, "ready")' => AllReceived(f)
    <3>1. ASSUME NEW cur, NEW loaded, Updated(cur, loaded, ent[p]).status = "ready"
          PROVE  cur.status = "ready" \/ ent[p].status = "ready"
      BY <3>1 DEF Updated
    <3> QED BY <2>1, <3>1, <1>30 DEF SaveWrite, SaveRow
  <2>3. \A q \in Procs : q # p => pc'[q] = pc[q] /\ on'[q] = on[q] /\ ent'[q] = ent[q]
    BY <1>30 DEF SaveWrite, AfterSave
  <2>4. pc'[p] \notin {"merge", "load", "save"}
    BY <1>30 DEF SaveWrite, AfterSave
  <2> QED BY <2>2, <2>3, <2>4, <1>30 DEF SaveWrite
<1>31. ASSUME NEW p \in Savers, SaveClash(p)
      PROVE  SavesJustified'
  <2>1. CASE ent[p].status = "ready"
    <3>1. WithStatus(ent[p], "failed").status = "failed"
      BY <1>31, StatusTyped DEF SaveClash, LocalsOK, EntityLabels, WorkingLabels
    <3> QED BY <2>1, <3>1, <1>31 DEF SaveClash, SaveThrows
  <2>2. CASE ent[p].status # "ready"
    <3>1. pc'[p] \notin {"merge", "load", "save"}
      BY <2>2, <1>31 DEF SaveClash, SaveThrows, AfterSave
    <3>2. \A q \in Procs : q # p => pc'[q] = pc[q] /\ on'[q] = on[q] /\ ent'[q] = ent[q]
      BY <2>2, <1>31 DEF SaveClash, SaveThrows, AfterSave
    <3> QED BY <3>1, <3>2, <1>31 DEF SaveClash
  <2> QED BY <2>1, <2>2
<1>32. ASSUME NEW p \in Savers, SaveFault(p)
      PROVE  SavesJustified'
  <2>1. CASE ent[p].status = "ready"
    <3>1. WithStatus(ent[p], "failed").status = "failed"
      BY <1>32, StatusTyped DEF SaveFault, LocalsOK, EntityLabels, WorkingLabels
    <3> QED BY <2>1, <3>1, <1>32 DEF SaveFault, SaveThrows, Fault
  <2>2. CASE ent[p].status # "ready"
    <3>1. pc'[p] \notin {"merge", "load", "save"}
      BY <2>2, <1>32 DEF SaveFault, SaveThrows, AfterSave
    <3>2. \A q \in Procs : q # p => pc'[q] = pc[q] /\ on'[q] = on[q] /\ ent'[q] = ent[q]
      BY <2>2, <1>32 DEF SaveFault, SaveThrows, AfterSave
    <3> QED BY <3>1, <3>2, <1>32 DEF SaveFault, Fault
  <2> QED BY <2>1, <2>2
<1>33. ASSUME Crash PROVE SavesJustified'
  BY <1>33 DEF Crash, CutOff, Fault
<1>34. QED
  BY <1>1, <1>2, <1>3, <1>4, <1>5, <1>6, <1>7, <1>8, <1>9, <1>10, <1>11, <1>11a,
     <1>11b, <1>12,
     <1>13, <1>14, <1>15, <1>16, <1>17, <1>18, <1>19, <1>20, <1>21, <1>22,
     <1>23, <1>24, <1>25, <1>26, <1>27, <1>28, <1>29, <1>30, <1>31, <1>32,
     <1>33
  DEF Next, ChunkStep, MergeStep, RemoveStep, SweepStep, SaveStep

-----------------------------------------------------------------------------
(* The abstract lifecycle *)

\* What a reader sees changes for one upload when its row does.
LEMMA LifecycleUpdate ==
    ASSUME NEW f \in Files, NEW st,
           \A g \in Files : g # f => row'[g] = row[g] /\ (g \in created' <=> g \in created),
           f \in created',
           \/ row'[f] = NoRow /\ st = "removed"
           \/ row'[f] # NoRow /\ st = row'[f].status
    PROVE  lifecycle' = [lifecycle EXCEPT ![f] = st]
<1>1. \A g \in Files : lifecycle'[g] = IF g = f THEN st ELSE lifecycle[g]
  BY DEF lifecycle
<1>2. lifecycle = [g \in Files |-> lifecycle[g]] /\ lifecycle' = [g \in Files |-> lifecycle'[g]]
  BY DEF lifecycle
<1> HIDE DEF lifecycle
<1> QED
  BY <1>1, <1>2

\* Every step of the code is a step of the abstract lifecycle or none.
LEMMA LifecycleStep ==
    ASSUME IInv, Next
    PROVE  Lifecycle!Next \/ UNCHANGED <<lifecycle, received>>
<1> USE ConstantsAssumption DEF IInv, TypeOK, TablesTyped, DiskTyped,
        LocalsTyped,
      RowOrNone, Ended, Savers, Procs, tables, disk, locals,
        Goto
<1> DEFINE Step == Lifecycle!Next \/ UNCHANGED <<lifecycle, received>>
<1>1. ASSUME NEW f \in Files, InitUpload(f)
     PROVE  Step
  <2>1. lifecycle[f] = "new" /\ lifecycle' = [lifecycle EXCEPT ![f] = "uploading"]
    <3>1. Fresh \in Row /\ Fresh.status = "uploading"
      BY DEF Fresh, Row, Status
    <3>2. row'[f] = Fresh /\ f \in created' /\ lifecycle[f] = "new"
      BY <1>1 DEF InitUpload, lifecycle
    <3>3. \A g \in Files : g # f => row'[g] = row[g] /\ (g \in created' <=> g \in created)
      BY <1>1 DEF InitUpload
    <3> QED BY <3>1, <3>2, <3>3, LifecycleUpdate
  <2>2. Lifecycle!Open(f)
    BY <2>1, <1>1 DEF InitUpload, Lifecycle!Open
  <2> QED BY <2>2 DEF Lifecycle!Next
<1>2. ASSUME NEW f \in Files, MakeTemp(f)
     PROVE  Step
  BY <1>2 DEF MakeTemp, lifecycle
<1>3. ASSUME NEW f \in Files, Age(f)
     PROVE  Step
  BY <1>3 DEF Age, lifecycle, lifecycle
<1>4. ASSUME NEW f \in Files, BgRemove(f)
     PROVE  Step
  BY <1>4 DEF BgRemove, RmTemp, lifecycle
<1>5. ASSUME NEW r \in Chunkers, NEW t \in Tenants, NEW f \in Files,
             NEW i \in IndexInputs, ChunkStart(r, t, f, i)
     PROVE  Step
  BY <1>5 DEF ChunkStart, Uploadable, lifecycle
<1>6. ASSUME NEW r \in Chunkers, NEW t \in Tenants, NEW f \in Files,
             NEW i \in IndexInputs, ChunkRefused(r, t, f, i)
     PROVE  Step
  BY <1>6 DEF ChunkRefused, Refuse, lifecycle
<1>7. ASSUME NEW r \in Chunkers, ChunkOpen(r)
     PROVE  Step
  <2>1. on[r] \in created /\ on[r] \in Files /\ idx[r] \in Lifecycle!AllChunks(on[r])
    BY <1>7 DEF ChunkOpen, LocalsOK, WorkingLabels, ChunksInRange, Indexes,
       Lifecycle!AllChunks
  <2>2. lifecycle' = lifecycle
    BY <1>7 DEF ChunkOpen, lifecycle
  <2>3. lifecycle[on[r]] # "new"
    BY <2>1 DEF lifecycle, Row, RowOrNone, Status
  <2>4. Lifecycle!Receive(on[r], idx[r])
    BY <2>1, <2>2, <2>3, <1>7 DEF ChunkOpen, Lifecycle!Receive
  <2> QED BY <2>1, <2>4 DEF Lifecycle!Next
<1>8. ASSUME NEW r \in Chunkers, ChunkNoDir(r)
     PROVE  Step
  BY <1>8 DEF ChunkNoDir, Refuse, lifecycle
<1>9. ASSUME NEW r \in Chunkers, ChunkWrite(r)
     PROVE  Step
  BY <1>9 DEF ChunkWrite, lifecycle
<1>10. ASSUME NEW r \in Chunkers, ChunkCount(r)
      PROVE  Step
  <2>1. on[r] \in Files
    BY <1>10 DEF ChunkCount, LocalsOK, WorkingLabels
  <2>2. row[on[r]] # NoRow => /\ OneMore(row[on[r]]).status = row[on[r]].status
                              /\ OneMore(row[on[r]]) # NoRow
    BY <2>1, OneMoreTyped DEF RowOrNone
  <2>3. lifecycle' = lifecycle
    BY <2>1, <2>2, <1>10 DEF ChunkCount, lifecycle
  <2> QED BY <2>3, <1>10 DEF ChunkCount
<1>11. ASSUME NEW r \in Chunkers, ChunkFault(r)
      PROVE  Step
  BY <1>11 DEF ChunkFault, Fault, lifecycle
<1>11a. ASSUME NEW r \in Chunkers, ChunkReply(r)
      PROVE  Step
  BY <1>11a DEF ChunkReply, lifecycle
<1>11b. ASSUME NEW r \in Chunkers, ReplyFault(r)
      PROVE  Step
  BY <1>11b DEF ReplyFault, Fault, lifecycle
<1>12. ASSUME NEW r \in Completers, NEW t \in Tenants, NEW f \in Files,
              CompleteStart(r, t, f)
      PROVE  Step
  BY <1>12 DEF CompleteStart, Uploadable, lifecycle
<1>13. ASSUME NEW r \in Completers, NEW t \in Tenants, NEW f \in Files,
              CompleteRefused(r, t, f)
      PROVE  Step
  BY <1>13 DEF CompleteRefused, Refuse, lifecycle
<1>14. ASSUME NEW r \in Completers, MergeOpen(r)
      PROVE  Step
  BY <1>14 DEF MergeOpen, lifecycle
<1>15. ASSUME NEW r \in Completers, MergeRefused(r)
      PROVE  Step
  BY <1>15 DEF MergeRefused, MergeFails, lifecycle
<1>16. ASSUME NEW r \in Completers, MergeChunk(r)
      PROVE  Step
  BY <1>16 DEF MergeChunk, lifecycle
<1>17. ASSUME NEW r \in Completers, MergeLosesChunk(r)
      PROVE  Step
  BY <1>17 DEF MergeLosesChunk, MergeFails, lifecycle
<1>18. ASSUME NEW r \in Completers, MergeEnd(r)
      PROVE  Step
  BY <1>18 DEF MergeEnd, StartCleanup, lifecycle
<1>19. ASSUME NEW r \in Completers, MergeFault(r)
      PROVE  Step
  BY <1>19 DEF MergeFault, MergeFails, Fault, lifecycle
<1>20. ASSUME NEW r \in Removers, NEW t \in Tenants, NEW f \in Files,
              RemoveStart(r, t, f)
      PROVE  Step
  BY <1>20 DEF RemoveStart, lifecycle
<1>21. ASSUME NEW r \in Removers, NEW t \in Tenants, NEW f \in Files,
              RemoveRefused(r, t, f)
      PROVE  Step
  BY <1>21 DEF RemoveRefused, Refuse, lifecycle
<1>22. ASSUME NEW r \in Removers, RemoveStored(r)
      PROVE  Step
  BY <1>22 DEF RemoveStored, lifecycle
<1>23. ASSUME NEW r \in Removers, RemoveTemp(r)
      PROVE  Step
  BY <1>23 DEF RemoveTemp, RmTempOf, RmTemp, lifecycle
<1>24. ASSUME NEW r \in Removers, RemoveRow(r)
      PROVE  Step
  <2>1. on[r] \in created /\ on[r] \in Files
    BY <1>24 DEF RemoveRow, LocalsOK, WorkingLabels
  <2>2. lifecycle[on[r]] # "new"
    BY <2>1 DEF lifecycle, Row, RowOrNone, Status
  <2>3. lifecycle' = [lifecycle EXCEPT ![on[r]] = "removed"]
    <3>1. row'[on[r]] = NoRow /\ created' = created
      BY <2>1, <1>24 DEF RemoveRow
    <3>2. \A g \in Files : g # on[r] => row'[g] = row[g]
      BY <1>24 DEF RemoveRow
    <3> QED BY <2>1, <3>1, <3>2, LifecycleUpdate
  <2>4. Lifecycle!Remove(on[r])
    BY <2>2, <2>3, <1>24 DEF RemoveRow, Lifecycle!Remove
  <2> QED BY <2>1, <2>4 DEF Lifecycle!Next
<1>25. ASSUME NEW s \in Sweepers, SweepStart(s)
      PROVE  Step
  BY <1>25 DEF SweepStart, Expired, lifecycle
<1>26. ASSUME NEW s \in Sweepers, NEW f \in Files, SweepNext(s, f)
      PROVE  Step
  BY <1>26 DEF SweepNext, lifecycle
<1>27. ASSUME NEW s \in Sweepers, SweepPurge(s)
      PROVE  Step
  BY <1>27 DEF SweepPurge, RmTempOf, RmTemp, lifecycle
<1>28. ASSUME NEW s \in Sweepers, SweepEnd(s)
      PROVE  Step
  BY <1>28 DEF SweepEnd, lifecycle
<1>29. ASSUME NEW p \in Savers, SaveLoad(p)
      PROVE  Step
  BY <1>29 DEF SaveLoad, lifecycle
<1>30. ASSUME NEW p \in Savers, SaveWrite(p)
      PROVE  Step
  <2> DEFINE f == on[p]
  <2>1. /\ f \in created /\ f \in Files /\ ent[p] \in Row
        /\ ent[p].status = "failed" \/ (ent[p].status = "ready" /\ AllReceived(f))
    BY <1>30 DEF SaveWrite, LocalsOK, WorkingLabels, EntityLabels,
       SavesJustified
  <2>2. lifecycle[f] # "new"
    BY <2>1 DEF lifecycle, Row, RowOrNone, Status
  <2>3. \/ lifecycle' = [lifecycle EXCEPT ![f] = ent[p].status]
        \/ lifecycle' = lifecycle
    <3>1. CASE base[p] = NoRow
      <4>1. row'[f] = ent[p] /\ ent[p] # NoRow /\ created' = created
        BY <2>1, <3>1, <1>30 DEF SaveWrite, SaveRow
      <4>2. \A g \in Files : g # f => row'[g] = row[g]
        BY <1>30 DEF SaveWrite, SaveRow
      <4> HIDE DEF f
      <4> QED BY <2>1, <4>1, <4>2, LifecycleUpdate
    <3>2. CASE base[p] # NoRow /\ row[f] = NoRow
      BY <2>1, <3>2, <1>30 DEF SaveWrite, SaveRow, lifecycle
    <3>3. CASE base[p] # NoRow /\ row[f] # NoRow
      <4>1. row' = [row EXCEPT ![f] = Updated(row[f], base[p], ent[p])]
        BY <2>1, <3>3, <1>30 DEF SaveWrite, SaveRow
      <4>2. /\ Updated(row[f], base[p], ent[p]) # NoRow
            /\ Updated(row[f], base[p], ent[p]).status \in {row[f].status, ent[p].status}
        <5>1. base[p] \in Row /\ row[f] \in Row
          BY <2>1, <3>3
        <5> QED BY <2>1, <5>1 DEF Updated, Row, Status
      <4>3. created' = created /\ f \in Files /\ f \in created
        BY <2>1, <1>30 DEF SaveWrite
      <4> DEFINE u == Updated(row[f], base[p], ent[p])
      <4>4. row'[f] = u /\ u # NoRow /\ \A g \in Files : g # f => row'[g] = row[g]
        BY <4>1, <4>2, <4>3
      <4>5. u.status = row[f].status \/ u.status = ent[p].status
        BY <4>2
      <4>6. lifecycle' = [lifecycle EXCEPT ![f] = u.status]
        <5> HIDE DEF u, f
        <5>1. row'[f] # NoRow /\ u.status = row'[f].status
          BY <4>4
        <5>2. \A g \in Files : g # f =>
                 row'[g] = row[g] /\ (g \in created' <=> g \in created)
          BY <4>3, <4>4
        <5> QED BY <4>3, <5>1, <5>2, LifecycleUpdate, Zenon
      <4>7. lifecycle[f] = row[f].status
        BY <3>3, <4>3 DEF lifecycle
      <4>8. lifecycle = [lifecycle EXCEPT ![f] = lifecycle[f]]
        BY DEF lifecycle
      <4> QED BY <4>5, <4>6, <4>7, <4>8
    <3> QED BY <3>1, <3>2, <3>3
  <2>4. ASSUME lifecycle' = [lifecycle EXCEPT ![f] = ent[p].status]
        PROVE  Lifecycle!Fail(f) \/ Lifecycle!Finish(f)
    BY <2>1, <2>2, <2>4, <1>30 DEF SaveWrite, Lifecycle!Fail, Lifecycle!Finish,
       Lifecycle!AllChunks, AllReceived, Indexes
  <2> QED BY <2>1, <2>3, <2>4, <1>30 DEF SaveWrite, Lifecycle!Next
<1>31. ASSUME NEW p \in Savers, SaveClash(p)
      PROVE  Step
  BY <1>31 DEF SaveClash, SaveThrows, AfterSave, lifecycle
<1>32. ASSUME NEW p \in Savers, SaveFault(p)
      PROVE  Step
  BY <1>32 DEF SaveFault, SaveThrows, AfterSave, Fault, lifecycle
<1>33. ASSUME Crash PROVE Step
  BY <1>33 DEF Crash, CutOff, Fault, lifecycle
<1>34. QED
  BY <1>1, <1>2, <1>3, <1>4, <1>5, <1>6, <1>7, <1>8, <1>9, <1>10, <1>11, <1>11a,
     <1>11b, <1>12,
     <1>13, <1>14, <1>15, <1>16, <1>17, <1>18, <1>19, <1>20, <1>21, <1>22,
     <1>23, <1>24, <1>25, <1>26, <1>27, <1>28, <1>29, <1>30, <1>31, <1>32,
     <1>33
  DEF Next, ChunkStep, MergeStep, RemoveStep, SweepStep, SaveStep

-----------------------------------------------------------------------------
(* The counter *)

\* A step keeps the invariant.
LEMMA InvStep == ASSUME IInv, Next PROVE IInv'
  BY TypeStep, LocalsStep, ChunksStep, SavesStep DEF IInv

\* No step reopens a closed upload.
LEMMA ClosedStep ==
    ASSUME IInv, Next, NEW f \in Files, Closed(f)
    PROVE  Closed(f)'
<1>1. lifecycle[f] \in {"ready", "failed", "removed"}
  BY DEF Closed, IsStatus, lifecycle, IInv, TypeOK, TablesTyped, RowOrNone,
         Row, Status
<1>2. lifecycle'[f] \in {"ready", "failed", "removed"}
  BY <1>1, LifecycleStep
  DEF Lifecycle!Next, Lifecycle!Open, Lifecycle!Finish, Lifecycle!Fail,
      Lifecycle!Remove, Lifecycle!Receive, lifecycle
<1> QED
  BY <1>2, InvStep DEF Closed, IsStatus, lifecycle, IInv, TypeOK, TablesTyped,
                       RowOrNone, Row, Status

\* A request keeps its chunk; one that has been counted stays so, only
\* ChunkCount counts one and ChunkWrite writes one; a save() keeps what it has loaded until it ends.
LEMMA RequestsStay ==
    ASSUME IInv, Next
    PROVE  /\ created \subseteq created'
           /\ \A q \in Chunkers : pc[q] # "idle" =>
                 pc'[q] # "idle" /\ on'[q] = on[q] /\ idx'[q] = idx[q]
           /\ \A q \in Chunkers : pc[q] \in TalliedLabels =>
                 pc'[q] \in TalliedLabels
           /\ \A q \in Chunkers : pc'[q] \in TalliedLabels =>
                 pc[q] \in TalliedLabels \/ ChunkCount(q)
           /\ \A q \in Chunkers : pc'[q] \in {"count", "reply", "acked"} =>
                 pc[q] \in {"count", "reply", "acked"} \/ ChunkWrite(q)
           /\ \A q \in Chunkers : pc'[q] = "unanswered" =>
                 pc[q] \in {"reply", "unanswered"}
           /\ \A q \in Savers : pc'[q] = "save" =>
                 \/ SaveLoad(q)
                 \/ pc[q] = "save" /\ base'[q] = base[q] /\ on'[q] = on[q]
<1> USE ConstantsAssumption DEF IInv, TypeOK, TablesTyped, DiskTyped,
        LocalsTyped, Ended, TalliedLabels, Savers, Procs, tables, disk, locals,
        Goto
<1> DEFINE Stay ==
           /\ created \subseteq created'
           /\ \A q \in Chunkers : pc[q] # "idle" =>
                 pc'[q] # "idle" /\ on'[q] = on[q] /\ idx'[q] = idx[q]
           /\ \A q \in Chunkers : pc[q] \in TalliedLabels =>
                 pc'[q] \in TalliedLabels
           /\ \A q \in Chunkers : pc'[q] \in TalliedLabels =>
                 pc[q] \in TalliedLabels \/ ChunkCount(q)
           /\ \A q \in Chunkers : pc'[q] \in {"count", "reply", "acked"} =>
                 pc[q] \in {"count", "reply", "acked"} \/ ChunkWrite(q)
           /\ \A q \in Chunkers : pc'[q] = "unanswered" =>
                 pc[q] \in {"reply", "unanswered"}
           /\ \A q \in Savers : pc'[q] = "save" =>
                 \/ SaveLoad(q)
                 \/ pc[q] = "save" /\ base'[q] = base[q] /\ on'[q] = on[q]
<1>1. ASSUME NEW f \in Files, InitUpload(f)
     PROVE  Stay
  BY <1>1 DEF InitUpload
<1>2. ASSUME NEW f \in Files, MakeTemp(f)
     PROVE  Stay
  BY <1>2 DEF MakeTemp
<1>3. ASSUME NEW f \in Files, Age(f)
     PROVE  Stay
  BY <1>3 DEF Age
<1>4. ASSUME NEW f \in Files, BgRemove(f)
     PROVE  Stay
  BY <1>4 DEF BgRemove, RmTemp
<1>5. ASSUME NEW r \in Chunkers, NEW t \in Tenants, NEW f \in Files,
             NEW i \in IndexInputs, ChunkStart(r, t, f, i)
     PROVE  Stay
  BY <1>5 DEF ChunkStart
<1>6. ASSUME NEW r \in Chunkers, NEW t \in Tenants, NEW f \in Files,
             NEW i \in IndexInputs, ChunkRefused(r, t, f, i)
     PROVE  Stay
  BY <1>6 DEF ChunkRefused, Refuse
<1>7. ASSUME NEW r \in Chunkers, ChunkOpen(r)
     PROVE  Stay
  BY <1>7 DEF ChunkOpen
<1>8. ASSUME NEW r \in Chunkers, ChunkNoDir(r)
     PROVE  Stay
  BY <1>8 DEF ChunkNoDir, Refuse
<1>9. ASSUME NEW r \in Chunkers, ChunkWrite(r)
     PROVE  Stay
  BY <1>9 DEF ChunkWrite
<1>10. ASSUME NEW r \in Chunkers, ChunkCount(r)
     PROVE  Stay
  BY <1>10 DEF ChunkCount
<1>11. ASSUME NEW r \in Chunkers, ChunkFault(r)
     PROVE  Stay
  BY <1>11 DEF ChunkFault, Fault
<1>11a. ASSUME NEW r \in Chunkers, ChunkReply(r)
     PROVE  Stay
  BY <1>11a DEF ChunkReply
<1>11b. ASSUME NEW r \in Chunkers, ReplyFault(r)
     PROVE  Stay
  BY <1>11b DEF ReplyFault, Fault
<1>12. ASSUME NEW r \in Completers, NEW t \in Tenants, NEW f \in Files,
             CompleteStart(r, t, f)
     PROVE  Stay
  BY <1>12 DEF CompleteStart, Uploadable
<1>13. ASSUME NEW r \in Completers, NEW t \in Tenants, NEW f \in Files,
             CompleteRefused(r, t, f)
     PROVE  Stay
  BY <1>13 DEF CompleteRefused, Refuse
<1>14. ASSUME NEW r \in Completers, MergeOpen(r)
     PROVE  Stay
  BY <1>14 DEF MergeOpen
<1>15. ASSUME NEW r \in Completers, MergeRefused(r)
     PROVE  Stay
  BY <1>15 DEF MergeRefused, MergeFails
<1>16. ASSUME NEW r \in Completers, MergeChunk(r)
     PROVE  Stay
  BY <1>16 DEF MergeChunk
<1>17. ASSUME NEW r \in Completers, MergeLosesChunk(r)
     PROVE  Stay
  BY <1>17 DEF MergeLosesChunk, MergeFails
<1>18. ASSUME NEW r \in Completers, MergeEnd(r)
     PROVE  Stay
  BY <1>18 DEF MergeEnd, StartCleanup
<1>19. ASSUME NEW r \in Completers, MergeFault(r)
     PROVE  Stay
  BY <1>19 DEF MergeFault, MergeFails, Fault
<1>20. ASSUME NEW r \in Removers, NEW t \in Tenants, NEW f \in Files,
             RemoveStart(r, t, f)
     PROVE  Stay
  BY <1>20 DEF RemoveStart
<1>21. ASSUME NEW r \in Removers, NEW t \in Tenants, NEW f \in Files,
             RemoveRefused(r, t, f)
     PROVE  Stay
  BY <1>21 DEF RemoveRefused, Refuse
<1>22. ASSUME NEW r \in Removers, RemoveStored(r)
     PROVE  Stay
  BY <1>22 DEF RemoveStored
<1>23. ASSUME NEW r \in Removers, RemoveTemp(r)
     PROVE  Stay
  BY <1>23 DEF RemoveTemp, RmTempOf, RmTemp
<1>24. ASSUME NEW r \in Removers, RemoveRow(r)
     PROVE  Stay
  BY <1>24 DEF RemoveRow
<1>25. ASSUME NEW s \in Sweepers, SweepStart(s)
     PROVE  Stay
  BY <1>25 DEF SweepStart, Expired
<1>26. ASSUME NEW s \in Sweepers, NEW f \in Files, SweepNext(s, f)
     PROVE  Stay
  BY <1>26 DEF SweepNext
<1>27. ASSUME NEW s \in Sweepers, SweepPurge(s)
     PROVE  Stay
  BY <1>27 DEF SweepPurge, RmTempOf, RmTemp
<1>28. ASSUME NEW s \in Sweepers, SweepEnd(s)
     PROVE  Stay
  BY <1>28 DEF SweepEnd
<1>29. ASSUME NEW p \in Savers, SaveLoad(p)
     PROVE  Stay
  BY <1>29 DEF SaveLoad
<1>30. ASSUME NEW p \in Savers, SaveWrite(p)
     PROVE  Stay
  <2>1. ent[p].status \in {"failed", "ready"}
    BY <1>30 DEF SaveWrite, SavesJustified
  <2> QED BY <2>1, <1>30 DEF SaveWrite, AfterSave
<1>31. ASSUME NEW p \in Savers, SaveClash(p)
     PROVE  Stay
  <2>1. ent[p].status \in {"failed", "ready"}
    BY <1>31 DEF SaveClash, SavesJustified
  <2> QED BY <2>1, <1>31 DEF SaveClash, SaveThrows, AfterSave
<1>32. ASSUME NEW p \in Savers, SaveFault(p)
     PROVE  Stay
  <2>1. ent[p].status \in {"failed", "ready"}
    BY <1>32 DEF SaveFault, SavesJustified
  <2> QED BY <2>1, <1>32 DEF SaveFault, SaveThrows, AfterSave
<1>33. ASSUME Crash
     PROVE  Stay
  BY <1>33 DEF Crash, CutOff, Fault
<1>34. QED
  BY <1>1, <1>2, <1>3, <1>4, <1>5, <1>6, <1>7, <1>8, <1>9, <1>10, <1>11, <1>11a,
     <1>11b, <1>12,
     <1>13, <1>14, <1>15, <1>16, <1>17, <1>18, <1>19, <1>20, <1>21, <1>22,
     <1>23, <1>24, <1>25, <1>26, <1>27, <1>28, <1>29, <1>30, <1>31, <1>32,
     <1>33
  DEF Next, ChunkStep, MergeStep, RemoveStep, SweepStep, SaveStep

\* The count of an open row is changed by ChunkCount alone: what a save()
\* writes into a row that stays open is not its count.
LEMMA CountsStay ==
    ASSUME IInv, TalliesInv, Next, NEW g \in Files, IsStatus(g, "uploading")'
    PROVE  \/ g \notin created /\ row'[g].count = 0
           \/ /\ IsStatus(g, "uploading")
              /\ \/ row'[g].count = row[g].count
                 \/ \E q \in Chunkers : /\ ChunkCount(q) /\ on[q] = g
                                        /\ row'[g].count = row[g].count + 1
<1> USE ConstantsAssumption DEF IInv, TypeOK, TablesTyped, DiskTyped,
        LocalsTyped, RowOrNone, IsStatus, Savers, Procs, tables, disk, locals,
        Goto
<1> DEFINE Stay ==
           \/ g \notin created /\ row'[g].count = 0
           \/ /\ IsStatus(g, "uploading")
              /\ \/ row'[g].count = row[g].count
                 \/ \E q \in Chunkers : /\ ChunkCount(q) /\ on[q] = g
                                        /\ row'[g].count = row[g].count + 1
<1>1. ASSUME NEW f \in Files, InitUpload(f)
     PROVE  Stay
  BY <1>1 DEF InitUpload, Fresh
<1>2. ASSUME NEW f \in Files, MakeTemp(f)
     PROVE  Stay
  BY <1>2 DEF MakeTemp
<1>3. ASSUME NEW f \in Files, Age(f)
     PROVE  Stay
  BY <1>3 DEF Age
<1>4. ASSUME NEW f \in Files, BgRemove(f)
     PROVE  Stay
  BY <1>4 DEF BgRemove, RmTemp
<1>5. ASSUME NEW r \in Chunkers, NEW t \in Tenants, NEW f \in Files,
             NEW i \in IndexInputs, ChunkStart(r, t, f, i)
     PROVE  Stay
  BY <1>5 DEF ChunkStart
<1>6. ASSUME NEW r \in Chunkers, NEW t \in Tenants, NEW f \in Files,
             NEW i \in IndexInputs, ChunkRefused(r, t, f, i)
     PROVE  Stay
  BY <1>6 DEF ChunkRefused, Refuse
<1>7. ASSUME NEW r \in Chunkers, ChunkOpen(r)
     PROVE  Stay
  BY <1>7 DEF ChunkOpen
<1>8. ASSUME NEW r \in Chunkers, ChunkNoDir(r)
     PROVE  Stay
  BY <1>8 DEF ChunkNoDir, Refuse
<1>9. ASSUME NEW r \in Chunkers, ChunkWrite(r)
     PROVE  Stay
  BY <1>9 DEF ChunkWrite
<1>10. ASSUME NEW r \in Chunkers, ChunkCount(r)
     PROVE  Stay
  <2>1. CASE on[r] = g /\ row[g] # NoRow
    <3>1. row'[g] = OneMore(row[g]) /\ row[g] \in Row
      BY <2>1, <1>10 DEF ChunkCount
    <3>2. OneMore(row[g]).status = row[g].status
      BY <3>1, OneMoreTyped
    <3>3. OneMore(row[g]).count = row[g].count + 1
      BY <3>1 DEF OneMore, Row
    <3> QED BY <2>1, <3>1, <3>2, <3>3, <1>10
  <2>2. CASE ~(on[r] = g /\ row[g] # NoRow)
    <3>1. row'[g] = row[g]
      BY <2>2, <1>10 DEF ChunkCount
    <3> QED BY <3>1
  <2> QED BY <2>1, <2>2
<1>11. ASSUME NEW r \in Chunkers, ChunkFault(r)
     PROVE  Stay
  BY <1>11 DEF ChunkFault, Fault
<1>11a. ASSUME NEW r \in Chunkers, ChunkReply(r)
     PROVE  Stay
  BY <1>11a DEF ChunkReply
<1>11b. ASSUME NEW r \in Chunkers, ReplyFault(r)
     PROVE  Stay
  BY <1>11b DEF ReplyFault, Fault
<1>12. ASSUME NEW r \in Completers, NEW t \in Tenants, NEW f \in Files,
             CompleteStart(r, t, f)
     PROVE  Stay
  BY <1>12 DEF CompleteStart, Uploadable
<1>13. ASSUME NEW r \in Completers, NEW t \in Tenants, NEW f \in Files,
             CompleteRefused(r, t, f)
     PROVE  Stay
  BY <1>13 DEF CompleteRefused, Refuse
<1>14. ASSUME NEW r \in Completers, MergeOpen(r)
     PROVE  Stay
  BY <1>14 DEF MergeOpen
<1>15. ASSUME NEW r \in Completers, MergeRefused(r)
     PROVE  Stay
  BY <1>15 DEF MergeRefused, MergeFails
<1>16. ASSUME NEW r \in Completers, MergeChunk(r)
     PROVE  Stay
  BY <1>16 DEF MergeChunk
<1>17. ASSUME NEW r \in Completers, MergeLosesChunk(r)
     PROVE  Stay
  BY <1>17 DEF MergeLosesChunk, MergeFails
<1>18. ASSUME NEW r \in Completers, MergeEnd(r)
     PROVE  Stay
  BY <1>18 DEF MergeEnd, StartCleanup
<1>19. ASSUME NEW r \in Completers, MergeFault(r)
     PROVE  Stay
  BY <1>19 DEF MergeFault, MergeFails, Fault
<1>20. ASSUME NEW r \in Removers, NEW t \in Tenants, NEW f \in Files,
             RemoveStart(r, t, f)
     PROVE  Stay
  BY <1>20 DEF RemoveStart
<1>21. ASSUME NEW r \in Removers, NEW t \in Tenants, NEW f \in Files,
             RemoveRefused(r, t, f)
     PROVE  Stay
  BY <1>21 DEF RemoveRefused, Refuse
<1>22. ASSUME NEW r \in Removers, RemoveStored(r)
     PROVE  Stay
  BY <1>22 DEF RemoveStored
<1>23. ASSUME NEW r \in Removers, RemoveTemp(r)
     PROVE  Stay
  BY <1>23 DEF RemoveTemp, RmTempOf, RmTemp
<1>24. ASSUME NEW r \in Removers, RemoveRow(r)
     PROVE  Stay
  BY <1>24 DEF RemoveRow
<1>25. ASSUME NEW s \in Sweepers, SweepStart(s)
     PROVE  Stay
  BY <1>25 DEF SweepStart, Expired
<1>26. ASSUME NEW s \in Sweepers, NEW f \in Files, SweepNext(s, f)
     PROVE  Stay
  BY <1>26 DEF SweepNext
<1>27. ASSUME NEW s \in Sweepers, SweepPurge(s)
     PROVE  Stay
  BY <1>27 DEF SweepPurge, RmTempOf, RmTemp
<1>28. ASSUME NEW s \in Sweepers, SweepEnd(s)
     PROVE  Stay
  BY <1>28 DEF SweepEnd
<1>29. ASSUME NEW p \in Savers, SaveLoad(p)
     PROVE  Stay
  BY <1>29 DEF SaveLoad
<1>30. ASSUME NEW p \in Savers, SaveWrite(p)
     PROVE  Stay
  <2>1. CASE on[p] = g
    <3>1. /\ ent[p] \in Row /\ ent[p].status \in {"failed", "ready"}
          /\ g \in created /\ pc[p] = "save"
      BY <2>1, <1>30 DEF SaveWrite, LocalsOK, WorkingLabels, EntityLabels,
                       SavesJustified
    <3>2. row'[g] = IF base[p] = NoRow THEN ent[p]
                    ELSE IF row[g] = NoRow THEN NoRow
                    ELSE Updated(row[g], base[p], ent[p])
      BY <2>1, <1>30 DEF SaveWrite, SaveRow
    <3>3. base[p] # NoRow /\ row[g] # NoRow
      BY <3>1, <3>2
    <3>4. row'[g] = Updated(row[g], base[p], ent[p])
      BY <3>2, <3>3
    <3>5. /\ row'[g].status = IF ent[p].status # base[p].status
                              THEN ent[p].status ELSE row[g].status
          /\ row'[g].count = IF ent[p].count # base[p].count
                             THEN ent[p].count ELSE row[g].count
      BY <3>4 DEF Updated
    <3>6. ent[p].status = base[p].status /\ row[g].status = "uploading"
      BY <3>1, <3>5
    <3>7. base[p].status = "uploading"
      BY <2>1, <3>1, <3>3, <3>6 DEF TalliesInv
    <3> QED BY <3>1, <3>6, <3>7
  <2>2. CASE on[p] # g
    <3>1. row'[g] = row[g]
      BY <2>2, <1>30 DEF SaveWrite, SaveRow
    <3> QED BY <3>1
  <2> QED BY <2>1, <2>2
<1>31. ASSUME NEW p \in Savers, SaveClash(p)
     PROVE  Stay
  BY <1>31 DEF SaveClash, SaveThrows, AfterSave
<1>32. ASSUME NEW p \in Savers, SaveFault(p)
     PROVE  Stay
  BY <1>32 DEF SaveFault, SaveThrows, AfterSave, Fault
<1>33. ASSUME Crash
     PROVE  Stay
  BY <1>33 DEF Crash, CutOff, Fault
<1>34. QED
  BY <1>1, <1>2, <1>3, <1>4, <1>5, <1>6, <1>7, <1>8, <1>9, <1>10, <1>11, <1>11a,
     <1>11b, <1>12,
     <1>13, <1>14, <1>15, <1>16, <1>17, <1>18, <1>19, <1>20, <1>21, <1>22,
     <1>23, <1>24, <1>25, <1>26, <1>27, <1>28, <1>29, <1>30, <1>31, <1>32,
     <1>33
  DEF Next, ChunkStep, MergeStep, RemoveStep, SweepStep, SaveStep

\* One request more is counted: its upload counts it.
LEMMA TalliedStep ==
    ASSUME IInv, TalliesInv, Next, NEW f \in Files
    PROVE  /\ IsFiniteSet(Tallied(f)')
           /\ \A q \in Chunkers : ChunkCount(q) /\ on[q] = f =>
                 Cardinality(Tallied(f)') = Cardinality(Tallied(f)) + 1
           /\ (\A q \in Chunkers : ChunkCount(q) => on[q] # f) =>
                 Tallied(f)' = Tallied(f)
<1> USE ConstantsAssumption
<1>1. ASSUME NEW q \in Chunkers, ChunkCount(q), on[q] = f
      PROVE  Tallied(f)' = Tallied(f) \cup {q} /\ q \notin Tallied(f)
  <2>1. /\ pc \in [Procs -> Labels] /\ q \in Procs /\ on' = on
        /\ pc' = [pc EXCEPT ![q] = "reply"] /\ pc[q] = "count"
    BY <1>1 DEF ChunkCount, Goto, IInv, TypeOK, LocalsTyped, Procs
  <2>2. \A r \in Chunkers : r \in Procs
    BY DEF Procs
  <2> QED BY <1>1, <2>1, <2>2 DEF Tallied, TalliedLabels
<1>2. IsFiniteSet(Tallied(f))
  BY DEF TalliesInv
<1>3. ASSUME \A q \in Chunkers : ChunkCount(q) => on[q] # f
      PROVE  Tallied(f)' = Tallied(f)
  <2>1. \A q \in Chunkers : pc[q] \in TalliedLabels =>
                 pc'[q] \in TalliedLabels /\ on'[q] = on[q]
    BY RequestsStay DEF TalliedLabels
  <2>2. \A q \in Chunkers : pc'[q] \in TalliedLabels /\ pc[q] \notin TalliedLabels =>
                 ChunkCount(q)
    BY RequestsStay
  <2>3. \A q \in Chunkers : ChunkCount(q) => on'[q] = on[q]
    BY DEF ChunkCount
  <2> QED BY <1>3, <2>1, <2>2, <2>3 DEF Tallied
<1>4. CASE \E q \in Chunkers : ChunkCount(q) /\ on[q] = f
  <2>1. PICK q \in Chunkers : ChunkCount(q) /\ on[q] = f
    BY <1>4
  <2>2. IsFiniteSet(Tallied(f)')
    BY <1>1, <1>2, <2>1, FS_AddElement
  <2>3. ASSUME NEW r \in Chunkers, ChunkCount(r), on[r] = f
        PROVE  Cardinality(Tallied(f)') = Cardinality(Tallied(f)) + 1
    BY <1>1, <1>2, <2>3, FS_AddElement
  <2> QED BY <1>3, <2>2, <2>3
<1>5. CASE ~\E q \in Chunkers : ChunkCount(q) /\ on[q] = f
  BY <1>2, <1>3, <1>5
<1> QED BY <1>4, <1>5

\* The counter and the counted requests go up together.
LEMMA TalliesStep == ASSUME IInv, TalliesInv, Next PROVE TalliesInv'
<1>1. \A r \in Chunkers : pc'[r] \in TalliedLabels => on'[r] \in created'
  <2> SUFFICES ASSUME NEW r \in Chunkers, pc'[r] \in TalliedLabels
               PROVE  on'[r] \in created'
    OBVIOUS
  <2>1. CASE pc[r] \in TalliedLabels
    <3>1. pc[r] # "idle"
      BY <2>1 DEF TalliedLabels
    <3> QED BY <2>1, <3>1, RequestsStay DEF TalliesInv
  <2>2. CASE pc[r] \notin TalliedLabels
    <3>1. ChunkCount(r)
      BY <2>2, RequestsStay
    <3> QED BY <3>1, RequestsStay DEF ChunkCount, IInv, LocalsOK, Procs,
                                     WorkingLabels
  <2> QED BY <2>1, <2>2
<1>2. ASSUME NEW p \in Savers, pc'[p] = "save", base'[p] # NoRow,
             IsStatus(on[p], "uploading")', on'[p] = on[p]
      PROVE  base'[p].status = "uploading"
  <2>1. CASE SaveLoad(p)
    <3>1. base'[p] = row'[on'[p]]
      BY <2>1 DEF SaveLoad, IInv, TypeOK, LocalsTyped, tables
    <3> QED BY <1>2, <3>1 DEF IsStatus
  <2>2. CASE ~SaveLoad(p)
    <3>1. pc[p] = "save" /\ base'[p] = base[p]
      BY <1>2, <2>2, RequestsStay
    <3>2. on[p] \in created /\ on[p] \in Files
      BY <3>1 DEF IInv, TypeOK, TablesTyped, LocalsOK, Procs, Savers,
                  WorkingLabels
    <3>3. IsStatus(on[p], "uploading")
      BY <1>2, <3>2, ClosedStep DEF Closed
    <3> QED BY <1>2, <3>1, <3>3 DEF TalliesInv
  <2> QED BY <2>1, <2>2
<1>3. \A p \in Savers : pc'[p] = "save" => on'[p] = on[p]
  BY RequestsStay DEF SaveLoad
<1>4. \A f \in Files : IsFiniteSet(Tallied(f)')
  BY TalliedStep
<1>5. ASSUME NEW f \in Files, IsStatus(f, "uploading")'
      PROVE  row'[f].count = Cardinality(Tallied(f)')
  <2>1. CASE f \notin created /\ row'[f].count = 0
    <3>1. \A q \in Chunkers : ChunkCount(q) => on[q] # f
      BY <2>1 DEF ChunkCount, IInv, LocalsOK, Procs, WorkingLabels
    <3>2. Tallied(f) = {}
      BY <2>1 DEF Tallied, TalliesInv
    <3>3. Tallied(f)' = {}
      BY <3>1, <3>2, TalliedStep
    <3> QED BY <2>1, <3>3, FS_EmptySet
  <2>2. CASE IsStatus(f, "uploading")
    <3>1. row[f].count = Cardinality(Tallied(f)) /\ row[f].count \in Nat
      BY <2>2 DEF TalliesInv, CounterCountsChunks, Tallied, IsStatus, IInv, TypeOK,
                  TablesTyped, RowOrNone, Row
    <3>2. CASE \E q \in Chunkers : ChunkCount(q) /\ on[q] = f
      <4>1. PICK q \in Chunkers : ChunkCount(q) /\ on[q] = f
        BY <3>2
      <4>2. Cardinality(Tallied(f)') = Cardinality(Tallied(f)) + 1
        BY <4>1, TalliedStep
      <4>3. row'[f] = OneMore(row[f])
        BY <2>2, <4>1 DEF ChunkCount, IsStatus, IInv, TypeOK, TablesTyped
      <4>4. row[f] \in Row
        BY <2>2 DEF IsStatus, IInv, TypeOK, TablesTyped, RowOrNone
      <4>5. row'[f].count = row[f].count + 1
        BY <4>3, <4>4 DEF OneMore, Row
      <4> QED BY <3>1, <4>2, <4>5
    <3>3. CASE ~\E q \in Chunkers : ChunkCount(q) /\ on[q] = f
      <4>1. Tallied(f)' = Tallied(f)
        BY <3>3, TalliedStep
      <4>2. f \in created
        BY <2>2 DEF IInv, LocalsOK, IsStatus
      <4>3. row'[f].count = row[f].count
        BY <1>5, <3>3, <4>2, CountsStay
      <4> QED BY <3>1, <4>1, <4>3
    <3> QED BY <3>2, <3>3
  <2>3. (f \notin created /\ row'[f].count = 0) \/ IsStatus(f, "uploading")
    BY <1>5, CountsStay
  <2> QED BY <2>1, <2>2, <2>3
<1>6. CounterCountsChunks'
  BY <1>5 DEF CounterCountsChunks, Tallied
<1> QED
  <2>1. \A p \in Savers : pc'[p] = "save" /\ base'[p] # NoRow =>
          (IsStatus(on[p], "uploading")' => base'[p].status = "uploading")
    BY <1>2, <1>3
  <2> QED BY <1>1, <1>4, <1>6, <2>1 DEF TalliesInv

-----------------------------------------------------------------------------
(* The stored file, while clients are orderly *)

\* When no two requests were counted for one chunk and as many are counted as
\* there are chunks, every chunk is.
LEMMA AllCounted ==
    ASSUME IInv, TalliesInv, TalliesInRange,
           NEW f \in Files, IsStatus(f, "uploading"), Counted(f),
           \A r, q \in Tallied(f) : idx[r] = idx[q] => r = q
    PROVE  Covered(f)
<1> DEFINE A == Tallied(f)
           I == Indexes(f)
           g == [r \in A |-> idx[r]]
           S == {i \in I : \E r \in A : idx[r] = i}
<1>1. Total[f] \in Nat /\ Total[f] > 0
  BY ConstantsAssumption
<1>2. IsFiniteSet(I) /\ Cardinality(I) = Total[f]
  <2>1. IsFiniteSet(0 .. (Total[f] - 1))
    BY <1>1, FS_Interval
  <2>2. Cardinality(0 .. (Total[f] - 1)) = Total[f]
    BY <1>1, FS_Interval
  <2> QED BY <2>1, <2>2 DEF Indexes
<1>3. IsFiniteSet(S) /\ Cardinality(S) <= Cardinality(I)
      /\ (Cardinality(I) = Cardinality(S) => I = S)
  BY <1>2, FS_Subset
<1>4. IsFiniteSet(A) /\ Cardinality(A) \in Nat /\ Cardinality(S) \in Nat
  BY <1>3, FS_CardinalityType DEF TalliesInv
<1>5. Cardinality(A) >= Total[f]
  BY DEF TalliesInv, CounterCountsChunks, Tallied, Counted
<1>6. \A r \in A : idx[r] \in I
  BY DEF TalliesInRange, Tallied
<1>7. \A r, q \in A : idx[r] = idx[q] => r = q
  OBVIOUS
<1>8. g \in Injection(A, S)
  <2>1. g \in [A -> S]
    BY <1>6
  <2>2. \A r, q \in A : g[r] = g[q] => r = q
    BY <1>7
  <2> HIDE DEF g, A, S
  <2> QED BY <2>1, <2>2 DEF Injection, IsInjective
<1>9. Cardinality(A) <= Cardinality(S)
  <2> HIDE DEF g, A, S
  <2> QED BY <1>3, <1>8, FS_Injection
<1>10. I = S
  BY <1>1, <1>2, <1>3, <1>4, <1>5, <1>9
<1> QED
  BY <1>10 DEF Covered

\* Counted chunks stay counted.
LEMMA CoveredStays ==
    ASSUME IInv, Next, NEW f \in Files, Covered(f)
    PROVE  Covered(f)'
<1>1. \A q \in Tallied(f) : q \in Tallied(f)' /\ idx'[q] = idx[q]
  BY RequestsStay DEF Tallied, TalliedLabels
<1> QED
  BY <1>1 DEF Covered, Indexes

\* Chunk files change by writing one or by removing a directory.
LEMMA ChunkFilesMove ==
    ASSUME IInv, Next
    PROVE  \/ UNCHANGED <<present, whole>>
           \/ \E f \in Files : RmTemp(f)
           \/ \E r \in Chunkers : ChunkOpen(r) \/ ChunkWrite(r)
<1> USE DEF IInv, TypeOK, TablesTyped, Savers, Procs, disk
<1> DEFINE Stay == \/ UNCHANGED <<present, whole>>
                   \/ \E f \in Files : RmTemp(f)
                   \/ \E r \in Chunkers : ChunkOpen(r) \/ ChunkWrite(r)
<1>1. ASSUME NEW f \in Files, InitUpload(f)
     PROVE  Stay
  BY <1>1 DEF InitUpload
<1>2. ASSUME NEW f \in Files, MakeTemp(f)
     PROVE  Stay
  BY <1>2 DEF MakeTemp
<1>3. ASSUME NEW f \in Files, Age(f)
     PROVE  Stay
  BY <1>3 DEF Age
<1>4. ASSUME NEW f \in Files, BgRemove(f)
     PROVE  Stay
  BY <1>4 DEF BgRemove
<1>5. ASSUME NEW r \in Chunkers, NEW t \in Tenants, NEW f \in Files,
             NEW i \in IndexInputs, ChunkStart(r, t, f, i)
     PROVE  Stay
  BY <1>5 DEF ChunkStart
<1>6. ASSUME NEW r \in Chunkers, NEW t \in Tenants, NEW f \in Files,
             NEW i \in IndexInputs, ChunkRefused(r, t, f, i)
     PROVE  Stay
  BY <1>6 DEF ChunkRefused, Refuse
<1>7. ASSUME NEW r \in Chunkers, ChunkOpen(r)
     PROVE  Stay
  BY <1>7
<1>8. ASSUME NEW r \in Chunkers, ChunkNoDir(r)
     PROVE  Stay
  BY <1>8 DEF ChunkNoDir, Refuse
<1>9. ASSUME NEW r \in Chunkers, ChunkWrite(r)
     PROVE  Stay
  BY <1>9
<1>10. ASSUME NEW r \in Chunkers, ChunkCount(r)
     PROVE  Stay
  BY <1>10 DEF ChunkCount
<1>11. ASSUME NEW r \in Chunkers, ChunkFault(r)
     PROVE  Stay
  BY <1>11 DEF ChunkFault
<1>11a. ASSUME NEW r \in Chunkers, ChunkReply(r)
     PROVE  Stay
  BY <1>11a DEF ChunkReply
<1>11b. ASSUME NEW r \in Chunkers, ReplyFault(r)
     PROVE  Stay
  BY <1>11b DEF ReplyFault
<1>12. ASSUME NEW r \in Completers, NEW t \in Tenants, NEW f \in Files,
             CompleteStart(r, t, f)
     PROVE  Stay
  BY <1>12 DEF CompleteStart
<1>13. ASSUME NEW r \in Completers, NEW t \in Tenants, NEW f \in Files,
             CompleteRefused(r, t, f)
     PROVE  Stay
  BY <1>13 DEF CompleteRefused, Refuse
<1>14. ASSUME NEW r \in Completers, MergeOpen(r)
     PROVE  Stay
  BY <1>14 DEF MergeOpen
<1>15. ASSUME NEW r \in Completers, MergeRefused(r)
     PROVE  Stay
  BY <1>15 DEF MergeRefused
<1>16. ASSUME NEW r \in Completers, MergeChunk(r)
     PROVE  Stay
  BY <1>16 DEF MergeChunk
<1>17. ASSUME NEW r \in Completers, MergeLosesChunk(r)
     PROVE  Stay
  BY <1>17 DEF MergeLosesChunk
<1>18. ASSUME NEW r \in Completers, MergeEnd(r)
     PROVE  Stay
  BY <1>18 DEF MergeEnd
<1>19. ASSUME NEW r \in Completers, MergeFault(r)
     PROVE  Stay
  BY <1>19 DEF MergeFault
<1>20. ASSUME NEW r \in Removers, NEW t \in Tenants, NEW f \in Files,
             RemoveStart(r, t, f)
     PROVE  Stay
  BY <1>20 DEF RemoveStart
<1>21. ASSUME NEW r \in Removers, NEW t \in Tenants, NEW f \in Files,
             RemoveRefused(r, t, f)
     PROVE  Stay
  BY <1>21 DEF RemoveRefused, Refuse
<1>22. ASSUME NEW r \in Removers, RemoveStored(r)
     PROVE  Stay
  BY <1>22 DEF RemoveStored
<1>23. ASSUME NEW r \in Removers, RemoveTemp(r)
     PROVE  Stay
  BY <1>23 DEF RemoveTemp, RmTempOf, LocalsOK, WorkingLabels
<1>24. ASSUME NEW r \in Removers, RemoveRow(r)
     PROVE  Stay
  BY <1>24 DEF RemoveRow
<1>25. ASSUME NEW s \in Sweepers, SweepStart(s)
     PROVE  Stay
  BY <1>25 DEF SweepStart
<1>26. ASSUME NEW s \in Sweepers, NEW f \in Files, SweepNext(s, f)
     PROVE  Stay
  BY <1>26 DEF SweepNext
<1>27. ASSUME NEW s \in Sweepers, SweepPurge(s)
     PROVE  Stay
  BY <1>27 DEF SweepPurge, RmTempOf, LocalsOK, WorkingLabels
<1>28. ASSUME NEW s \in Sweepers, SweepEnd(s)
     PROVE  Stay
  BY <1>28 DEF SweepEnd
<1>29. ASSUME NEW p \in Savers, SaveLoad(p)
     PROVE  Stay
  BY <1>29 DEF SaveLoad
<1>30. ASSUME NEW p \in Savers, SaveWrite(p)
     PROVE  Stay
  BY <1>30 DEF SaveWrite
<1>31. ASSUME NEW p \in Savers, SaveClash(p)
     PROVE  Stay
  BY <1>31 DEF SaveClash
<1>32. ASSUME NEW p \in Savers, SaveFault(p)
     PROVE  Stay
  BY <1>32 DEF SaveFault
<1>33. ASSUME Crash
     PROVE  Stay
  BY <1>33 DEF Crash
<1>34. QED
  BY <1>1, <1>2, <1>3, <1>4, <1>5, <1>6, <1>7, <1>8, <1>9, <1>10, <1>11, <1>11a,
     <1>11b, <1>12,
     <1>13, <1>14, <1>15, <1>16, <1>17, <1>18, <1>19, <1>20, <1>21, <1>22,
     <1>23, <1>24, <1>25, <1>26, <1>27, <1>28, <1>29, <1>30, <1>31, <1>32,
     <1>33
  DEF Next, ChunkStep, MergeStep, RemoveStep, SweepStep, SaveStep

\* Counted requests are for the chunks they were checked for.
LEMMA RangeStep ==
    ASSUME IInv, WholeInv, Next
    PROVE  TalliesInRange'
<1> SUFFICES ASSUME NEW r \in Chunkers, pc'[r] \in TalliedLabels \cup {"count"}
             PROVE  idx'[r] \in Indexes(on'[r])
  BY DEF TalliesInRange, Indexes
<1>1. CASE pc[r] \in TalliedLabels \cup {"count"}
  <2>1. on'[r] = on[r] /\ idx'[r] = idx[r]
    BY <1>1, RequestsStay DEF TalliedLabels
  <2> QED BY <1>1, <2>1 DEF WholeInv, TalliesInRange
<1>2. CASE pc[r] \notin TalliedLabels \cup {"count"}
  <2>1. ChunkWrite(r) \/ ChunkCount(r)
    BY <1>2, RequestsStay DEF TalliedLabels
  <2>2. ChunkWrite(r)
    BY <1>2, <2>1 DEF ChunkCount
  <2> QED BY <2>2 DEF ChunkWrite, IInv, ChunksInRange
<1> QED BY <1>1, <1>2

\* A chunk that is written has been so, or is just being written.
LEMMA WrittenBefore ==
    ASSUME IInv, TalliesInv, Next, NEW r \in Chunkers, Written(r)'
    PROVE  \/ /\ Written(r) /\ on'[r] = on[r] /\ idx'[r] = idx[r]
              /\ on[r] \in Files
           \/ ChunkWrite(r)
<1>1. ASSUME pc[r] # "idle"
      PROVE  on'[r] = on[r] /\ idx'[r] = idx[r]
  BY <1>1, RequestsStay
<1>2. ASSUME pc[r] \in TalliedLabels \cup {"count"}
      PROVE  on[r] \in Files
  BY <1>2 DEF TalliesInv, IInv, LocalsOK, WorkingLabels, Procs, TypeOK,
              TablesTyped
<1>3. CASE pc'[r] \in {"count", "reply", "acked"}
  <2>1. pc[r] \in {"count", "reply", "acked"} \/ ChunkWrite(r)
    BY <1>3, RequestsStay
  <2> QED BY <1>1, <1>2, <2>1 DEF Written, TalliedLabels
<1>4. CASE pc'[r] = "unanswered"
  <2>1. pc[r] \in {"reply", "unanswered"}
    BY <1>4, RequestsStay
  <2>2. on'[r] = on[r] /\ idx'[r] = idx[r] /\ on[r] \in Files
    BY <1>1, <1>2, <2>1 DEF TalliedLabels
  <2>3. Lone(r)'
    BY <1>4 DEF Written
  <2>4. \A q \in Chunkers : pc[q] # "idle" =>
           pc'[q] # "idle" /\ on'[q] = on[q] /\ idx'[q] = idx[q]
    BY RequestsStay
  <2>5. Lone(r)
    BY <2>2, <2>3, <2>4 DEF Lone
  <2> QED BY <2>1, <2>2, <2>5 DEF Written
<1> QED BY <1>3, <1>4 DEF Written

\* A chunk file that has been written is not opened again.
LEMMA WrittenStep ==
    ASSUME IInv, TalliesInv, WholeInv, Orderly, Next
    PROVE  WrittenIsWhole'
<1> SUFFICES ASSUME NEW q \in Chunkers, Written(q)',
                    idx'[q] \in present'[on'[q]]
             PROVE  idx'[q] \in whole'[on'[q]]
  BY DEF WrittenIsWhole
<1>0. present \in [Files -> SUBSET Int] /\ whole \in [Files -> SUBSET Int]
  BY DEF IInv, TypeOK, DiskTyped
<1>1. CASE ChunkWrite(q)
  <2>1. on[q] \in Files /\ on' = on /\ idx' = idx /\ present' = present
    BY <1>1 DEF ChunkWrite, IInv, LocalsOK, WorkingLabels, Procs, TypeOK,
                TablesTyped
  <2>2. whole' = [whole EXCEPT
                     ![on[q]] = @ \cup ({idx[q]} \cap present[on[q]])]
    BY <1>1 DEF ChunkWrite
  <2> QED BY <1>0, <2>1, <2>2
<1>2. CASE /\ Written(q) /\ on'[q] = on[q] /\ idx'[q] = idx[q]
           /\ on[q] \in Files
  <2>1. idx[q] \in present[on[q]] => idx[q] \in whole[on[q]]
    BY <1>2 DEF WholeInv, WrittenIsWhole
  <2>2. CASE UNCHANGED <<present, whole>>
    BY <1>2, <2>1, <2>2
  <2>3. CASE \E f \in Files : RmTemp(f)
    BY <1>0, <1>2, <2>1, <2>3 DEF RmTemp
  <2>4. ASSUME NEW r \in Chunkers, ChunkWrite(r)
        PROVE  idx'[q] \in whole'[on'[q]]
    <3>1. on[r] \in Files /\ present' = present
      BY <2>4 DEF ChunkWrite, IInv, LocalsOK, WorkingLabels, Procs, TypeOK,
                  TablesTyped
    <3>2. whole' = [whole EXCEPT
                       ![on[r]] = @ \cup ({idx[r]} \cap present[on[r]])]
      BY <2>4 DEF ChunkWrite
    <3> QED BY <1>0, <1>2, <2>1, <3>1, <3>2
  <2>5. ASSUME NEW r \in Chunkers, ChunkOpen(r)
        PROVE  idx'[q] \in whole'[on'[q]]
    <3>1. /\ on[r] \in Files /\ pc[r] = "open" /\ on' = on /\ idx' = idx
          /\ pc'[r] = "write" /\ pc \in [Procs -> Labels] /\ r \in Procs
      BY <2>5 DEF ChunkOpen, Goto, IInv, LocalsOK, WorkingLabels, Procs,
                  TypeOK, TablesTyped, LocalsTyped
    <3>2. /\ present' = [present EXCEPT ![on[r]] = @ \cup {idx[r]}]
          /\ whole' = [whole EXCEPT ![on[r]] = @ \ {idx[r]}]
      BY <2>5 DEF ChunkOpen
    <3>3. q # r
      BY <1>2, <3>1 DEF Written
    <3>4. on[q] # on[r] \/ idx[q] # idx[r]
      <4>1. CASE pc[q] \in {"count", "reply", "acked"}
        BY <3>1, <3>3, <4>1 DEF Orderly
      <4>2. CASE pc[q] = "unanswered"
        <5>1. pc'[q] = "unanswered"
          BY <2>5, <3>3, <4>2 DEF ChunkOpen, Goto, IInv, TypeOK, LocalsTyped
        <5>2. Lone(q)'
          BY <5>1 DEF Written
        <5> QED BY <3>1, <3>3, <5>2 DEF Lone
      <4> QED BY <1>2, <4>1, <4>2 DEF Written
    <3> QED BY <1>0, <1>2, <2>1, <3>1, <3>2, <3>4
  <2> QED BY <2>2, <2>3, <2>4, <2>5, ChunkFilesMove
<1> QED BY <1>1, <1>2, WrittenBefore

\* Nobody saves READY into the row of another completion at work, and no row
\* of an upload that is merged becomes READY otherwise.
LEMMA NotReadyStays ==
    ASSUME IInv, TalliesInv, WholeInv, Orderly, Next,
           NEW c \in Completers, pc[c] \in {"scan", "merge"},
           pc'[c] \in {"scan", "merge"}, NEW g, g = on[c]
    PROVE  ~IsStatus(g, "ready")'
<1> USE ConstantsAssumption DEF IInv, TypeOK, TablesTyped, DiskTyped,
        LocalsTyped, Ended, Savers, Procs, tables, disk, locals, Goto, IsStatus,
        RowOrNone
<1> DEFINE Stay == ~IsStatus(g, "ready")'
<1>0. /\ g \in Files /\ g \in created
      /\ (row[g] # NoRow => row[g].status # "ready")
  BY DEF LocalsOK, WorkingLabels, WholeInv, CompletionsCovered
<1>1. ASSUME NEW f \in Files, InitUpload(f)
     PROVE  Stay
  BY <1>0, <1>1 DEF InitUpload
<1>2. ASSUME NEW f \in Files, MakeTemp(f)
     PROVE  Stay
  BY <1>0, <1>2 DEF MakeTemp
<1>3. ASSUME NEW f \in Files, Age(f)
     PROVE  Stay
  BY <1>0, <1>3 DEF Age
<1>4. ASSUME NEW f \in Files, BgRemove(f)
     PROVE  Stay
  BY <1>0, <1>4 DEF BgRemove, RmTemp
<1>5. ASSUME NEW r \in Chunkers, NEW t \in Tenants, NEW f \in Files,
             NEW i \in IndexInputs, ChunkStart(r, t, f, i)
     PROVE  Stay
  BY <1>0, <1>5 DEF ChunkStart
<1>6. ASSUME NEW r \in Chunkers, NEW t \in Tenants, NEW f \in Files,
             NEW i \in IndexInputs, ChunkRefused(r, t, f, i)
     PROVE  Stay
  BY <1>0, <1>6 DEF ChunkRefused, Refuse
<1>7. ASSUME NEW r \in Chunkers, ChunkOpen(r)
     PROVE  Stay
  BY <1>0, <1>7 DEF ChunkOpen
<1>8. ASSUME NEW r \in Chunkers, ChunkNoDir(r)
     PROVE  Stay
  BY <1>0, <1>8 DEF ChunkNoDir, Refuse
<1>9. ASSUME NEW r \in Chunkers, ChunkWrite(r)
     PROVE  Stay
  BY <1>0, <1>9 DEF ChunkWrite
<1>10. ASSUME NEW r \in Chunkers, ChunkCount(r)
     PROVE  Stay
  <2>1. CASE row[on[r]] = NoRow
    BY <1>0, <2>1, <1>10 DEF ChunkCount
  <2>2. CASE row[on[r]] # NoRow
    <3>1. on[r] \in Files /\ row[on[r]] \in Row
      BY <2>2, <1>10 DEF ChunkCount, LocalsOK, WorkingLabels
    <3>2. OneMore(row[on[r]]).status = row[on[r]].status
      BY <3>1, OneMoreTyped
    <3>3. row' = [row EXCEPT ![on[r]] = OneMore(row[on[r]])]
      BY <2>2, <1>10 DEF ChunkCount
    <3> QED BY <1>0, <2>2, <3>1, <3>2, <3>3
  <2> QED BY <2>1, <2>2
<1>11. ASSUME NEW r \in Chunkers, ChunkFault(r)
     PROVE  Stay
  BY <1>0, <1>11 DEF ChunkFault, Fault
<1>11a. ASSUME NEW r \in Chunkers, ChunkReply(r)
     PROVE  Stay
  BY <1>0, <1>11a DEF ChunkReply
<1>11b. ASSUME NEW r \in Chunkers, ReplyFault(r)
     PROVE  Stay
  BY <1>0, <1>11b DEF ReplyFault, Fault
<1>12. ASSUME NEW r \in Completers, NEW t \in Tenants, NEW f \in Files,
             CompleteStart(r, t, f)
     PROVE  Stay
  BY <1>0, <1>12 DEF CompleteStart, Uploadable
<1>13. ASSUME NEW r \in Completers, NEW t \in Tenants, NEW f \in Files,
             CompleteRefused(r, t, f)
     PROVE  Stay
  BY <1>0, <1>13 DEF CompleteRefused, Refuse
<1>14. ASSUME NEW r \in Completers, MergeOpen(r)
     PROVE  Stay
  BY <1>0, <1>14 DEF MergeOpen
<1>15. ASSUME NEW r \in Completers, MergeRefused(r)
     PROVE  Stay
  BY <1>0, <1>15 DEF MergeRefused, MergeFails
<1>16. ASSUME NEW r \in Completers, MergeChunk(r)
     PROVE  Stay
  BY <1>0, <1>16 DEF MergeChunk
<1>17. ASSUME NEW r \in Completers, MergeLosesChunk(r)
     PROVE  Stay
  BY <1>0, <1>17 DEF MergeLosesChunk, MergeFails
<1>18. ASSUME NEW r \in Completers, MergeEnd(r)
     PROVE  Stay
  BY <1>0, <1>18 DEF MergeEnd, StartCleanup
<1>19. ASSUME NEW r \in Completers, MergeFault(r)
     PROVE  Stay
  BY <1>0, <1>19 DEF MergeFault, MergeFails, Fault
<1>20. ASSUME NEW r \in Removers, NEW t \in Tenants, NEW f \in Files,
             RemoveStart(r, t, f)
     PROVE  Stay
  BY <1>0, <1>20 DEF RemoveStart
<1>21. ASSUME NEW r \in Removers, NEW t \in Tenants, NEW f \in Files,
             RemoveRefused(r, t, f)
     PROVE  Stay
  BY <1>0, <1>21 DEF RemoveRefused, Refuse
<1>22. ASSUME NEW r \in Removers, RemoveStored(r)
     PROVE  Stay
  BY <1>0, <1>22 DEF RemoveStored
<1>23. ASSUME NEW r \in Removers, RemoveTemp(r)
     PROVE  Stay
  BY <1>0, <1>23 DEF RemoveTemp, RmTempOf, RmTemp
<1>24. ASSUME NEW r \in Removers, RemoveRow(r)
     PROVE  Stay
  BY <1>0, <1>24 DEF RemoveRow
<1>25. ASSUME NEW s \in Sweepers, SweepStart(s)
     PROVE  Stay
  BY <1>0, <1>25 DEF SweepStart, Expired
<1>26. ASSUME NEW s \in Sweepers, NEW f \in Files, SweepNext(s, f)
     PROVE  Stay
  BY <1>0, <1>26 DEF SweepNext
<1>27. ASSUME NEW s \in Sweepers, SweepPurge(s)
     PROVE  Stay
  BY <1>0, <1>27 DEF SweepPurge, RmTempOf, RmTemp
<1>28. ASSUME NEW s \in Sweepers, SweepEnd(s)
     PROVE  Stay
  BY <1>0, <1>28 DEF SweepEnd
<1>29. ASSUME NEW p \in Savers, SaveLoad(p)
     PROVE  Stay
  BY <1>0, <1>29 DEF SaveLoad
<1>30. ASSUME NEW p \in Savers, SaveWrite(p)
     PROVE  Stay
  <2>1. CASE on[p] = g
    <3>1. /\ ent[p] \in Row /\ pc[p] = "save"
      BY <1>30 DEF SaveWrite, LocalsOK, WorkingLabels, EntityLabels
    <3>2. ent[p].status = "failed"
      <4>1. p \in Completers => p = c \/ pc[p] \notin Merging
        BY <2>1 DEF Orderly, Merging
      <4> QED BY <3>1, <4>1 DEF Merging, WholeInv, SavesWhole
    <3>3. row'[g] = IF base[p] = NoRow THEN ent[p]
                    ELSE IF row[g] = NoRow THEN NoRow
                    ELSE Updated(row[g], base[p], ent[p])
      BY <1>0, <2>1, <1>30 DEF SaveWrite, SaveRow
    <3>4. row'[g] # NoRow => row'[g].status \in {"failed", row[g].status}
      BY <3>2, <3>3 DEF Updated
    <3>5. row[g] = NoRow => row'[g] = NoRow \/ row'[g].status = "failed"
      BY <3>2, <3>3
    <3> QED BY <1>0, <3>4, <3>5
  <2>2. CASE on[p] # g
    <3>1. row'[g] = row[g]
      BY <1>0, <2>2, <1>30 DEF SaveWrite, SaveRow
    <3> QED BY <1>0, <3>1
  <2> QED BY <2>1, <2>2
<1>31. ASSUME NEW p \in Savers, SaveClash(p)
     PROVE  Stay
  BY <1>0, <1>31 DEF SaveClash, SaveThrows, AfterSave
<1>32. ASSUME NEW p \in Savers, SaveFault(p)
     PROVE  Stay
  BY <1>0, <1>32 DEF SaveFault, SaveThrows, AfterSave, Fault
<1>33. ASSUME Crash
     PROVE  Stay
  BY <1>0, <1>33 DEF Crash, CutOff, Fault
<1>34. QED
  BY <1>1, <1>2, <1>3, <1>4, <1>5, <1>6, <1>7, <1>8, <1>9, <1>10, <1>11, <1>11a,
     <1>11b, <1>12,
     <1>13, <1>14, <1>15, <1>16, <1>17, <1>18, <1>19, <1>20, <1>21, <1>22,
     <1>23, <1>24, <1>25, <1>26, <1>27, <1>28, <1>29, <1>30, <1>31, <1>32,
     <1>33
  DEF Next, ChunkStep, MergeStep, RemoveStep, SweepStep, SaveStep

\* The chunk files a completion of an orderly client reads are whole.
LEMMA MergedIsWhole ==
    ASSUME WholeInv, Orderly, NEW c \in Completers,
           pc[c] \in {"scan", "merge"}, NEW i \in Indexes(on[c]),
           i \in present[on[c]]
    PROVE  i \in whole[on[c]]
<1>1. CASE AllAcked(on[c])
  <2>1. PICK r \in Chunkers : on[r] = on[c] /\ pc[r] = "acked" /\ idx[r] = i
    BY <1>1 DEF AllAcked
  <2> QED BY <2>1 DEF WholeInv, WrittenIsWhole, Written
<1>2. CASE \A r \in Chunkers :
              on[r] = on[c] /\ pc[r] = "unanswered" => Lone(r)
  <2>1. PICK r \in Tallied(on[c]) : idx[r] = i
    BY DEF WholeInv, CompletionsCovered, Covered
  <2>2. r \in Chunkers /\ on[r] = on[c] /\ Written(r)
    BY <1>2, <2>1 DEF Tallied, TalliedLabels, Written
  <2> QED BY <2>1, <2>2 DEF WholeInv, WrittenIsWhole
<1> QED BY <1>1, <1>2 DEF Orderly

\* Completions stay covered, and read whole chunk files only.
LEMMA ChunkIsGood ==
    ASSUME IInv, TalliesInv, WholeInv, Orderly, NEW r \in Completers,
           MergeChunk(r)
    PROVE  /\ Min(todo[r]) \in Indexes(on[r])
           /\ Min(todo[r]) \in whole[on[r]] /\ off[r] = {}
           /\ off' = off
           /\ intact' = [intact EXCEPT ![on[r]] = @ \cup {Min(todo[r])}]
<1> DEFINE i == Min(todo[r])
<1>1. on[r] \in Files /\ pc[r] = "merge" /\ i \in present[on[r]]
  BY DEF MergeChunk, IInv, LocalsOK, WorkingLabels, Procs, TypeOK, TablesTyped
<1>2. i \in Indexes(on[r])
  BY <1>1 DEF IInv, ChunksInRange
<1>3. off[r] = {} /\ r \in linked
  BY <1>1 DEF WholeInv, CompletionsCovered, MergesSoFar
<1>5. i \in whole[on[r]]
  BY <1>1, <1>2, MergedIsWhole
<1>6. off \in [Completers -> SUBSET Int]
  BY DEF IInv, TypeOK, LocalsTyped
<1>7. off' = [off EXCEPT ![r] = {}]
  BY <1>3, <1>5 DEF MergeChunk
<1>8. intact' = [intact EXCEPT ![on[r]] = @ \cup {i}]
  BY <1>3, <1>5 DEF MergeChunk
<1> QED
  BY <1>2, <1>3, <1>5, <1>6, <1>7, <1>8

\* No merge reads a torn chunk file.
LEMMA OffsetsStep ==
    ASSUME IInv, TalliesInv, WholeInv, Orderly, Next
    PROVE  \A c \in Completers : off'[c] = {}
<1> USE ConstantsAssumption DEF IInv, TypeOK, TablesTyped, DiskTyped,
        LocalsTyped, Ended, Savers, Procs, tables, disk, locals, Goto
<1>0. \A c \in Completers : off[c] = {}
  BY DEF WholeInv, CompletionsCovered
<1>1. ASSUME NEW f \in Files, InitUpload(f)
     PROVE  \A c \in Completers : off'[c] = {}
  BY <1>0, <1>1 DEF InitUpload
<1>2. ASSUME NEW f \in Files, MakeTemp(f)
     PROVE  \A c \in Completers : off'[c] = {}
  BY <1>0, <1>2 DEF MakeTemp
<1>3. ASSUME NEW f \in Files, Age(f)
     PROVE  \A c \in Completers : off'[c] = {}
  BY <1>0, <1>3 DEF Age
<1>4. ASSUME NEW f \in Files, BgRemove(f)
     PROVE  \A c \in Completers : off'[c] = {}
  BY <1>0, <1>4 DEF BgRemove, RmTemp
<1>5. ASSUME NEW r \in Chunkers, NEW t \in Tenants, NEW f \in Files,
             NEW i \in IndexInputs, ChunkStart(r, t, f, i)
     PROVE  \A c \in Completers : off'[c] = {}
  BY <1>0, <1>5 DEF ChunkStart
<1>6. ASSUME NEW r \in Chunkers, NEW t \in Tenants, NEW f \in Files,
             NEW i \in IndexInputs, ChunkRefused(r, t, f, i)
     PROVE  \A c \in Completers : off'[c] = {}
  BY <1>0, <1>6 DEF ChunkRefused, Refuse
<1>7. ASSUME NEW r \in Chunkers, ChunkOpen(r)
     PROVE  \A c \in Completers : off'[c] = {}
  BY <1>0, <1>7 DEF ChunkOpen
<1>8. ASSUME NEW r \in Chunkers, ChunkNoDir(r)
     PROVE  \A c \in Completers : off'[c] = {}
  BY <1>0, <1>8 DEF ChunkNoDir, Refuse
<1>9. ASSUME NEW r \in Chunkers, ChunkWrite(r)
     PROVE  \A c \in Completers : off'[c] = {}
  BY <1>0, <1>9 DEF ChunkWrite
<1>10. ASSUME NEW r \in Chunkers, ChunkCount(r)
     PROVE  \A c \in Completers : off'[c] = {}
  BY <1>0, <1>10 DEF ChunkCount
<1>11. ASSUME NEW r \in Chunkers, ChunkFault(r)
     PROVE  \A c \in Completers : off'[c] = {}
  BY <1>0, <1>11 DEF ChunkFault, Fault
<1>11a. ASSUME NEW r \in Chunkers, ChunkReply(r)
     PROVE  \A c \in Completers : off'[c] = {}
  BY <1>0, <1>11a DEF ChunkReply
<1>11b. ASSUME NEW r \in Chunkers, ReplyFault(r)
     PROVE  \A c \in Completers : off'[c] = {}
  BY <1>0, <1>11b DEF ReplyFault, Fault
<1>12. ASSUME NEW r \in Completers, NEW t \in Tenants, NEW f \in Files,
             CompleteStart(r, t, f)
     PROVE  \A c \in Completers : off'[c] = {}
  BY <1>0, <1>12 DEF CompleteStart, Uploadable
<1>13. ASSUME NEW r \in Completers, NEW t \in Tenants, NEW f \in Files,
             CompleteRefused(r, t, f)
     PROVE  \A c \in Completers : off'[c] = {}
  BY <1>0, <1>13 DEF CompleteRefused, Refuse
<1>14. ASSUME NEW r \in Completers, MergeOpen(r)
     PROVE  \A c \in Completers : off'[c] = {}
  BY <1>0, <1>14 DEF MergeOpen
<1>15. ASSUME NEW r \in Completers, MergeRefused(r)
     PROVE  \A c \in Completers : off'[c] = {}
  BY <1>0, <1>15 DEF MergeRefused, MergeFails
<1>16. ASSUME NEW r \in Completers, MergeChunk(r)
     PROVE  \A c \in Completers : off'[c] = {}
  BY <1>0, <1>16, ChunkIsGood
<1>17. ASSUME NEW r \in Completers, MergeLosesChunk(r)
     PROVE  \A c \in Completers : off'[c] = {}
  BY <1>0, <1>17 DEF MergeLosesChunk, MergeFails
<1>18. ASSUME NEW r \in Completers, MergeEnd(r)
     PROVE  \A c \in Completers : off'[c] = {}
  BY <1>0, <1>18 DEF MergeEnd, StartCleanup
<1>19. ASSUME NEW r \in Completers, MergeFault(r)
     PROVE  \A c \in Completers : off'[c] = {}
  BY <1>0, <1>19 DEF MergeFault, MergeFails, Fault
<1>20. ASSUME NEW r \in Removers, NEW t \in Tenants, NEW f \in Files,
             RemoveStart(r, t, f)
     PROVE  \A c \in Completers : off'[c] = {}
  BY <1>0, <1>20 DEF RemoveStart
<1>21. ASSUME NEW r \in Removers, NEW t \in Tenants, NEW f \in Files,
             RemoveRefused(r, t, f)
     PROVE  \A c \in Completers : off'[c] = {}
  BY <1>0, <1>21 DEF RemoveRefused, Refuse
<1>22. ASSUME NEW r \in Removers, RemoveStored(r)
     PROVE  \A c \in Completers : off'[c] = {}
  BY <1>0, <1>22 DEF RemoveStored
<1>23. ASSUME NEW r \in Removers, RemoveTemp(r)
     PROVE  \A c \in Completers : off'[c] = {}
  BY <1>0, <1>23 DEF RemoveTemp, RmTempOf, RmTemp
<1>24. ASSUME NEW r \in Removers, RemoveRow(r)
     PROVE  \A c \in Completers : off'[c] = {}
  BY <1>0, <1>24 DEF RemoveRow
<1>25. ASSUME NEW s \in Sweepers, SweepStart(s)
     PROVE  \A c \in Completers : off'[c] = {}
  BY <1>0, <1>25 DEF SweepStart, Expired
<1>26. ASSUME NEW s \in Sweepers, NEW f \in Files, SweepNext(s, f)
     PROVE  \A c \in Completers : off'[c] = {}
  BY <1>0, <1>26 DEF SweepNext
<1>27. ASSUME NEW s \in Sweepers, SweepPurge(s)
     PROVE  \A c \in Completers : off'[c] = {}
  BY <1>0, <1>27 DEF SweepPurge, RmTempOf, RmTemp
<1>28. ASSUME NEW s \in Sweepers, SweepEnd(s)
     PROVE  \A c \in Completers : off'[c] = {}
  BY <1>0, <1>28 DEF SweepEnd
<1>29. ASSUME NEW p \in Savers, SaveLoad(p)
     PROVE  \A c \in Completers : off'[c] = {}
  BY <1>0, <1>29 DEF SaveLoad
<1>30. ASSUME NEW p \in Savers, SaveWrite(p)
     PROVE  \A c \in Completers : off'[c] = {}
  BY <1>0, <1>30 DEF SaveWrite, AfterSave
<1>31. ASSUME NEW p \in Savers, SaveClash(p)
     PROVE  \A c \in Completers : off'[c] = {}
  BY <1>0, <1>31 DEF SaveClash, SaveThrows, AfterSave
<1>32. ASSUME NEW p \in Savers, SaveFault(p)
     PROVE  \A c \in Completers : off'[c] = {}
  BY <1>0, <1>32 DEF SaveFault, SaveThrows, AfterSave, Fault
<1>33. ASSUME Crash
     PROVE  \A c \in Completers : off'[c] = {}
  BY <1>0, <1>33 DEF Crash, CutOff, Fault
<1>34. QED
  BY <1>1, <1>2, <1>3, <1>4, <1>5, <1>6, <1>7, <1>8, <1>9, <1>10, <1>11, <1>11a,
     <1>11b, <1>12,
     <1>13, <1>14, <1>15, <1>16, <1>17, <1>18, <1>19, <1>20, <1>21, <1>22,
     <1>23, <1>24, <1>25, <1>26, <1>27, <1>28, <1>29, <1>30, <1>31, <1>32,
     <1>33
  DEF Next, ChunkStep, MergeStep, RemoveStep, SweepStep, SaveStep

\* A completion at work has been so, or has just been let in.
LEMMA CompletionsEnter ==
    ASSUME IInv, TalliesInv, WholeInv, Orderly, Next,
           NEW c \in Completers, pc'[c] \in {"scan", "merge"}
    PROVE  \/ pc[c] \in {"scan", "merge"} /\ on'[c] = on[c]
           \/ \E t \in Tenants, f \in Files : CompleteStart(c, t, f)
<1> USE ConstantsAssumption DEF IInv, TypeOK, TablesTyped, DiskTyped,
        LocalsTyped, Ended, Savers, Procs, tables, disk, locals,
        Goto
<1> DEFINE Stay ==
           \/ pc[c] \in {"scan", "merge"} /\ on'[c] = on[c]
           \/ \E t \in Tenants, f \in Files : CompleteStart(c, t, f)
<1>1. ASSUME NEW f \in Files, InitUpload(f)
     PROVE  Stay
  BY <1>1 DEF InitUpload
<1>2. ASSUME NEW f \in Files, MakeTemp(f)
     PROVE  Stay
  BY <1>2 DEF MakeTemp
<1>3. ASSUME NEW f \in Files, Age(f)
     PROVE  Stay
  BY <1>3 DEF Age
<1>4. ASSUME NEW f \in Files, BgRemove(f)
     PROVE  Stay
  BY <1>4 DEF BgRemove, RmTemp
<1>5. ASSUME NEW r \in Chunkers, NEW t \in Tenants, NEW f \in Files,
             NEW i \in IndexInputs, ChunkStart(r, t, f, i)
     PROVE  Stay
  BY <1>5 DEF ChunkStart
<1>6. ASSUME NEW r \in Chunkers, NEW t \in Tenants, NEW f \in Files,
             NEW i \in IndexInputs, ChunkRefused(r, t, f, i)
     PROVE  Stay
  BY <1>6 DEF ChunkRefused, Refuse
<1>7. ASSUME NEW r \in Chunkers, ChunkOpen(r)
     PROVE  Stay
  BY <1>7 DEF ChunkOpen
<1>8. ASSUME NEW r \in Chunkers, ChunkNoDir(r)
     PROVE  Stay
  BY <1>8 DEF ChunkNoDir, Refuse
<1>9. ASSUME NEW r \in Chunkers, ChunkWrite(r)
     PROVE  Stay
  BY <1>9 DEF ChunkWrite
<1>10. ASSUME NEW r \in Chunkers, ChunkCount(r)
     PROVE  Stay
  BY <1>10 DEF ChunkCount
<1>11. ASSUME NEW r \in Chunkers, ChunkFault(r)
     PROVE  Stay
  BY <1>11 DEF ChunkFault, Fault
<1>11a. ASSUME NEW r \in Chunkers, ChunkReply(r)
     PROVE  Stay
  BY <1>11a DEF ChunkReply
<1>11b. ASSUME NEW r \in Chunkers, ReplyFault(r)
     PROVE  Stay
  BY <1>11b DEF ReplyFault, Fault
<1>12. ASSUME NEW r \in Completers, NEW t \in Tenants, NEW f \in Files,
             CompleteStart(r, t, f)
     PROVE  Stay
  BY <1>12 DEF CompleteStart, Uploadable
<1>13. ASSUME NEW r \in Completers, NEW t \in Tenants, NEW f \in Files,
             CompleteRefused(r, t, f)
     PROVE  Stay
  BY <1>13 DEF CompleteRefused, Refuse
<1>14. ASSUME NEW r \in Completers, MergeOpen(r)
     PROVE  Stay
  BY <1>14 DEF MergeOpen
<1>15. ASSUME NEW r \in Completers, MergeRefused(r)
     PROVE  Stay
  BY <1>15 DEF MergeRefused, MergeFails
<1>16. ASSUME NEW r \in Completers, MergeChunk(r)
     PROVE  Stay
  BY <1>16 DEF MergeChunk
<1>17. ASSUME NEW r \in Completers, MergeLosesChunk(r)
     PROVE  Stay
  BY <1>17 DEF MergeLosesChunk, MergeFails
<1>18. ASSUME NEW r \in Completers, MergeEnd(r)
     PROVE  Stay
  BY <1>18 DEF MergeEnd, StartCleanup
<1>19. ASSUME NEW r \in Completers, MergeFault(r)
     PROVE  Stay
  BY <1>19 DEF MergeFault, MergeFails, Fault
<1>20. ASSUME NEW r \in Removers, NEW t \in Tenants, NEW f \in Files,
             RemoveStart(r, t, f)
     PROVE  Stay
  BY <1>20 DEF RemoveStart
<1>21. ASSUME NEW r \in Removers, NEW t \in Tenants, NEW f \in Files,
             RemoveRefused(r, t, f)
     PROVE  Stay
  BY <1>21 DEF RemoveRefused, Refuse
<1>22. ASSUME NEW r \in Removers, RemoveStored(r)
     PROVE  Stay
  BY <1>22 DEF RemoveStored
<1>23. ASSUME NEW r \in Removers, RemoveTemp(r)
     PROVE  Stay
  BY <1>23 DEF RemoveTemp, RmTempOf, RmTemp
<1>24. ASSUME NEW r \in Removers, RemoveRow(r)
     PROVE  Stay
  BY <1>24 DEF RemoveRow
<1>25. ASSUME NEW s \in Sweepers, SweepStart(s)
     PROVE  Stay
  BY <1>25 DEF SweepStart, Expired
<1>26. ASSUME NEW s \in Sweepers, NEW f \in Files, SweepNext(s, f)
     PROVE  Stay
  BY <1>26 DEF SweepNext
<1>27. ASSUME NEW s \in Sweepers, SweepPurge(s)
     PROVE  Stay
  BY <1>27 DEF SweepPurge, RmTempOf, RmTemp
<1>28. ASSUME NEW s \in Sweepers, SweepEnd(s)
     PROVE  Stay
  BY <1>28 DEF SweepEnd
<1>29. ASSUME NEW p \in Savers, SaveLoad(p)
     PROVE  Stay
  BY <1>29 DEF SaveLoad
<1>30. ASSUME NEW p \in Savers, SaveWrite(p)
     PROVE  Stay
  <2>1. ent[p] \in Row /\ ent[p].status \in {"failed", "ready"}
    BY <1>30 DEF SaveWrite, SavesJustified, LocalsOK,
           WorkingLabels, EntityLabels
  <2> QED BY <2>1, <1>30 DEF SaveWrite, AfterSave
<1>31. ASSUME NEW p \in Savers, SaveClash(p)
     PROVE  Stay
  <2>1. ent[p] \in Row /\ ent[p].status \in {"failed", "ready"}
    BY <1>31 DEF SaveClash, SavesJustified, LocalsOK,
           WorkingLabels, EntityLabels
  <2> QED BY <2>1, <1>31 DEF SaveClash, SaveThrows, AfterSave
<1>32. ASSUME NEW p \in Savers, SaveFault(p)
     PROVE  Stay
  <2>1. ent[p] \in Row /\ ent[p].status \in {"failed", "ready"}
    BY <1>32 DEF SaveFault, SavesJustified, LocalsOK,
           WorkingLabels, EntityLabels
  <2> QED BY <2>1, <1>32 DEF SaveFault, SaveThrows, AfterSave, Fault
<1>33. ASSUME Crash
     PROVE  Stay
  BY <1>33 DEF Crash, CutOff, Fault
<1>34. QED
  BY <1>1, <1>2, <1>3, <1>4, <1>5, <1>6, <1>7, <1>8, <1>9, <1>10, <1>11, <1>11a,
     <1>11b, <1>12,
     <1>13, <1>14, <1>15, <1>16, <1>17, <1>18, <1>19, <1>20, <1>21, <1>22,
     <1>23, <1>24, <1>25, <1>26, <1>27, <1>28, <1>29, <1>30, <1>31, <1>32,
     <1>33
  DEF Next, ChunkStep, MergeStep, RemoveStep, SweepStep, SaveStep

\* A completion is let in when every chunk is counted.
LEMMA CompletionsStep ==
    ASSUME IInv, TalliesInv, WholeInv, Orderly, Orderly', Next
    PROVE  CompletionsCovered'
<1> SUFFICES ASSUME NEW c \in Completers, pc'[c] \in {"scan", "merge"}
             PROVE  Covered(on[c])' /\ ~IsStatus(on[c], "ready")'
  BY OffsetsStep DEF CompletionsCovered
<1>1. CASE pc[c] \in {"scan", "merge"} /\ on'[c] = on[c]
  <2>1. PICK f : f = on[c]
    OBVIOUS
  <2>2. f \in Files /\ Covered(f) /\ on'[c] = f
    BY <1>1, <2>1 DEF WholeInv, CompletionsCovered, IInv, LocalsOK,
       WorkingLabels, Procs, TypeOK, TablesTyped
  <2>3. Covered(f)'
    BY <2>2, CoveredStays
  <2>4. ~IsStatus(f, "ready")'
    BY <1>1, <2>1, <2>2, NotReadyStays DEF IsStatus
  <2> QED BY <2>2, <2>3, <2>4 DEF Covered, Tallied, Indexes, IsStatus
<1>2. CASE \E t \in Tenants, f \in Files : CompleteStart(c, t, f)
  <2>1. PICK t \in Tenants, f \in Files : CompleteStart(c, t, f)
    BY <1>2
  <2>2. /\ IsStatus(f, "uploading") /\ Counted(f) /\ on'[c] = f /\ row' = row
    BY <2>1 DEF CompleteStart, Uploadable, IsStatus, IInv, TypeOK, LocalsTyped,
                Procs, tables
  <2>3. /\ c \in Procs /\ pc \in [Procs -> Labels] /\ idx' = idx
        /\ pc' = [pc EXCEPT ![c] = "scan"] /\ on' = [on EXCEPT ![c] = f]
        /\ on \in [Procs -> Files \cup {NoFile}]
    BY <2>1 DEF CompleteStart, Goto, IInv, TypeOK, LocalsTyped, Procs
  <2>5. \A r \in Chunkers : r \in Procs /\ r # c
    BY ConstantsAssumption DEF Procs
  <2>6. \A r \in Chunkers : pc'[r] = pc[r] /\ on'[r] = on[r]
    BY <2>3, <2>5
  <2>7. Covered(f)'
    <3>1. CASE AllAcked(f)'
      BY <3>1 DEF AllAcked, Covered, Tallied, TalliedLabels, Indexes
    <3>2. CASE ~AllAcked(f)'
      <4>1. pc'[c] \in {"scan", "merge"}
        BY <2>3
      <4>2. AllAcked(on[c])' <=> AllAcked(f)'
        BY <2>2 DEF AllAcked, Indexes
      <4>3. \A r \in Chunkers :
               on'[r] = f /\ pc'[r] = "unanswered" => Lone(r)'
        BY <2>2, <3>2, <4>1, <4>2 DEF Orderly
      <4>4. ASSUME NEW r \in Tallied(f), NEW q \in Tallied(f),
                   idx[r] = idx[q]
            PROVE  r = q
        <5>1. CASE pc[r] = "unanswered" \/ pc[q] = "unanswered"
          <6>1. pc'[r] # "idle" /\ pc'[q] # "idle"
            BY <2>6 DEF Tallied, TalliedLabels
          <6> QED BY <2>3, <2>6, <4>3, <4>4, <5>1, <6>1 DEF Tallied, Lone
        <5>2. CASE pc[r] # "unanswered" /\ pc[q] # "unanswered"
          BY <4>4, <5>2 DEF Orderly, Tallied, TalliedLabels
        <5> QED BY <5>1, <5>2
      <4>5. Covered(f)
        BY <2>2, <4>4, AllCounted DEF WholeInv
      <4> QED BY <4>5, CoveredStays
    <3> QED BY <3>1, <3>2
  <2>4. ~IsStatus(f, "ready")'
    BY <2>2 DEF IsStatus
  <2> QED BY <2>2, <2>7, <2>4 DEF Covered, Tallied, Indexes, IsStatus
<1> QED
  BY <1>1, <1>2, CompletionsEnter

\* The stored file of an upload only grows while no merge opens it anew.
LEMMA StoredGrows ==
    ASSUME IInv, TalliesInv, WholeInv, Orderly, Next, NEW g \in Files,
           \A c \in Completers : MergeOpen(c) => on[c] # g
    PROVE  (g \in onDisk => g \in onDisk') /\ intact[g] \subseteq intact'[g]
<1> USE ConstantsAssumption DEF IInv, TypeOK, TablesTyped, DiskTyped,
        LocalsTyped, Ended, Savers, Procs, tables, disk, locals,
        Goto
<1> DEFINE Stay ==
        (g \in onDisk => g \in onDisk') /\ intact[g] \subseteq intact'[g]
<1>1. ASSUME NEW f \in Files, InitUpload(f)
     PROVE  Stay
  BY <1>1 DEF InitUpload
<1>2. ASSUME NEW f \in Files, MakeTemp(f)
     PROVE  Stay
  BY <1>2 DEF MakeTemp
<1>3. ASSUME NEW f \in Files, Age(f)
     PROVE  Stay
  BY <1>3 DEF Age
<1>4. ASSUME NEW f \in Files, BgRemove(f)
     PROVE  Stay
  BY <1>4 DEF BgRemove, RmTemp
<1>5. ASSUME NEW r \in Chunkers, NEW t \in Tenants, NEW f \in Files,
             NEW i \in IndexInputs, ChunkStart(r, t, f, i)
     PROVE  Stay
  BY <1>5 DEF ChunkStart
<1>6. ASSUME NEW r \in Chunkers, NEW t \in Tenants, NEW f \in Files,
             NEW i \in IndexInputs, ChunkRefused(r, t, f, i)
     PROVE  Stay
  BY <1>6 DEF ChunkRefused, Refuse
<1>7. ASSUME NEW r \in Chunkers, ChunkOpen(r)
     PROVE  Stay
  BY <1>7 DEF ChunkOpen
<1>8. ASSUME NEW r \in Chunkers, ChunkNoDir(r)
     PROVE  Stay
  BY <1>8 DEF ChunkNoDir, Refuse
<1>9. ASSUME NEW r \in Chunkers, ChunkWrite(r)
     PROVE  Stay
  BY <1>9 DEF ChunkWrite
<1>10. ASSUME NEW r \in Chunkers, ChunkCount(r)
     PROVE  Stay
  BY <1>10 DEF ChunkCount
<1>11. ASSUME NEW r \in Chunkers, ChunkFault(r)
     PROVE  Stay
  BY <1>11 DEF ChunkFault, Fault
<1>11a. ASSUME NEW r \in Chunkers, ChunkReply(r)
     PROVE  Stay
  BY <1>11a DEF ChunkReply
<1>11b. ASSUME NEW r \in Chunkers, ReplyFault(r)
     PROVE  Stay
  BY <1>11b DEF ReplyFault, Fault
<1>12. ASSUME NEW r \in Completers, NEW t \in Tenants, NEW f \in Files,
             CompleteStart(r, t, f)
     PROVE  Stay
  BY <1>12 DEF CompleteStart, Uploadable
<1>13. ASSUME NEW r \in Completers, NEW t \in Tenants, NEW f \in Files,
             CompleteRefused(r, t, f)
     PROVE  Stay
  BY <1>13 DEF CompleteRefused, Refuse
<1>14. ASSUME NEW r \in Completers, MergeOpen(r)
     PROVE  Stay
  BY <1>14 DEF MergeOpen
<1>15. ASSUME NEW r \in Completers, MergeRefused(r)
     PROVE  Stay
  BY <1>15 DEF MergeRefused, MergeFails
<1>16. ASSUME NEW r \in Completers, MergeChunk(r)
     PROVE  Stay
  BY <1>16, ChunkIsGood DEF MergeChunk
<1>17. ASSUME NEW r \in Completers, MergeLosesChunk(r)
     PROVE  Stay
  BY <1>17 DEF MergeLosesChunk, MergeFails
<1>18. ASSUME NEW r \in Completers, MergeEnd(r)
     PROVE  Stay
  BY <1>18 DEF MergeEnd, StartCleanup
<1>19. ASSUME NEW r \in Completers, MergeFault(r)
     PROVE  Stay
  BY <1>19 DEF MergeFault, MergeFails, Fault
<1>20. ASSUME NEW r \in Removers, NEW t \in Tenants, NEW f \in Files,
             RemoveStart(r, t, f)
     PROVE  Stay
  BY <1>20 DEF RemoveStart
<1>21. ASSUME NEW r \in Removers, NEW t \in Tenants, NEW f \in Files,
             RemoveRefused(r, t, f)
     PROVE  Stay
  BY <1>21 DEF RemoveRefused, Refuse
<1>22. ASSUME NEW r \in Removers, RemoveStored(r)
     PROVE  Stay
  <2>1. on[r] \in Files
    BY <1>22 DEF RemoveStored, LocalsOK, WorkingLabels
  <2> QED BY <2>1, <1>22 DEF Orderly
<1>23. ASSUME NEW r \in Removers, RemoveTemp(r)
     PROVE  Stay
  BY <1>23 DEF RemoveTemp, RmTempOf, RmTemp
<1>24. ASSUME NEW r \in Removers, RemoveRow(r)
     PROVE  Stay
  BY <1>24 DEF RemoveRow
<1>25. ASSUME NEW s \in Sweepers, SweepStart(s)
     PROVE  Stay
  BY <1>25 DEF SweepStart, Expired
<1>26. ASSUME NEW s \in Sweepers, NEW f \in Files, SweepNext(s, f)
     PROVE  Stay
  BY <1>26 DEF SweepNext
<1>27. ASSUME NEW s \in Sweepers, SweepPurge(s)
     PROVE  Stay
  BY <1>27 DEF SweepPurge, RmTempOf, RmTemp
<1>28. ASSUME NEW s \in Sweepers, SweepEnd(s)
     PROVE  Stay
  BY <1>28 DEF SweepEnd
<1>29. ASSUME NEW p \in Savers, SaveLoad(p)
     PROVE  Stay
  BY <1>29 DEF SaveLoad
<1>30. ASSUME NEW p \in Savers, SaveWrite(p)
     PROVE  Stay
  BY <1>30 DEF SaveWrite, SaveRow, AfterSave
<1>31. ASSUME NEW p \in Savers, SaveClash(p)
     PROVE  Stay
  BY <1>31 DEF SaveClash, SaveThrows, AfterSave
<1>32. ASSUME NEW p \in Savers, SaveFault(p)
     PROVE  Stay
  BY <1>32 DEF SaveFault, SaveThrows, AfterSave, Fault
<1>33. ASSUME Crash
     PROVE  Stay
  BY <1>33 DEF Crash, CutOff, Fault
<1>34. QED
  BY <1>1, <1>2, <1>3, <1>4, <1>5, <1>6, <1>7, <1>8, <1>9, <1>10, <1>11, <1>11a,
     <1>11b, <1>12,
     <1>13, <1>14, <1>15, <1>16, <1>17, <1>18, <1>19, <1>20, <1>21, <1>22,
     <1>23, <1>24, <1>25, <1>26, <1>27, <1>28, <1>29, <1>30, <1>31, <1>32,
     <1>33
  DEF Next, ChunkStep, MergeStep, RemoveStep, SweepStep, SaveStep

\* A merge that goes on keeps its stream and what it has to do.
LEMMA MergesEnter ==
    ASSUME IInv, TalliesInv, WholeInv, Orderly, Next,
           NEW c \in Completers, pc'[c] = "merge"
    PROVE  \/ MergeOpen(c) \/ MergeChunk(c)
           \/ /\ pc[c] = "merge" /\ on'[c] = on[c] /\ todo'[c] = todo[c]
              /\ c \in linked => c \in linked'
<1> USE ConstantsAssumption DEF IInv, TypeOK, TablesTyped, DiskTyped,
        LocalsTyped, Ended, Savers, Procs, tables, disk, locals,
        Goto
<1> DEFINE Stay ==
           \/ MergeOpen(c) \/ MergeChunk(c)
           \/ /\ pc[c] = "merge" /\ on'[c] = on[c] /\ todo'[c] = todo[c]
              /\ c \in linked => c \in linked'
<1>1. ASSUME NEW f \in Files, InitUpload(f)
     PROVE  Stay
  BY <1>1 DEF InitUpload
<1>2. ASSUME NEW f \in Files, MakeTemp(f)
     PROVE  Stay
  BY <1>2 DEF MakeTemp
<1>3. ASSUME NEW f \in Files, Age(f)
     PROVE  Stay
  BY <1>3 DEF Age
<1>4. ASSUME NEW f \in Files, BgRemove(f)
     PROVE  Stay
  BY <1>4 DEF BgRemove, RmTemp
<1>5. ASSUME NEW r \in Chunkers, NEW t \in Tenants, NEW f \in Files,
             NEW i \in IndexInputs, ChunkStart(r, t, f, i)
     PROVE  Stay
  BY <1>5 DEF ChunkStart
<1>6. ASSUME NEW r \in Chunkers, NEW t \in Tenants, NEW f \in Files,
             NEW i \in IndexInputs, ChunkRefused(r, t, f, i)
     PROVE  Stay
  BY <1>6 DEF ChunkRefused, Refuse
<1>7. ASSUME NEW r \in Chunkers, ChunkOpen(r)
     PROVE  Stay
  BY <1>7 DEF ChunkOpen
<1>8. ASSUME NEW r \in Chunkers, ChunkNoDir(r)
     PROVE  Stay
  BY <1>8 DEF ChunkNoDir, Refuse
<1>9. ASSUME NEW r \in Chunkers, ChunkWrite(r)
     PROVE  Stay
  BY <1>9 DEF ChunkWrite
<1>10. ASSUME NEW r \in Chunkers, ChunkCount(r)
     PROVE  Stay
  BY <1>10 DEF ChunkCount
<1>11. ASSUME NEW r \in Chunkers, ChunkFault(r)
     PROVE  Stay
  BY <1>11 DEF ChunkFault, Fault
<1>11a. ASSUME NEW r \in Chunkers, ChunkReply(r)
     PROVE  Stay
  BY <1>11a DEF ChunkReply
<1>11b. ASSUME NEW r \in Chunkers, ReplyFault(r)
     PROVE  Stay
  BY <1>11b DEF ReplyFault, Fault
<1>12. ASSUME NEW r \in Completers, NEW t \in Tenants, NEW f \in Files,
             CompleteStart(r, t, f)
     PROVE  Stay
  BY <1>12 DEF CompleteStart, Uploadable
<1>13. ASSUME NEW r \in Completers, NEW t \in Tenants, NEW f \in Files,
             CompleteRefused(r, t, f)
     PROVE  Stay
  BY <1>13 DEF CompleteRefused, Refuse
<1>14. ASSUME NEW r \in Completers, MergeOpen(r)
     PROVE  Stay
  BY <1>14 DEF MergeOpen
<1>15. ASSUME NEW r \in Completers, MergeRefused(r)
     PROVE  Stay
  BY <1>15 DEF MergeRefused, MergeFails
<1>16. ASSUME NEW r \in Completers, MergeChunk(r)
     PROVE  Stay
  BY <1>16 DEF MergeChunk
<1>17. ASSUME NEW r \in Completers, MergeLosesChunk(r)
     PROVE  Stay
  BY <1>17 DEF MergeLosesChunk, MergeFails
<1>18. ASSUME NEW r \in Completers, MergeEnd(r)
     PROVE  Stay
  BY <1>18 DEF MergeEnd, StartCleanup
<1>19. ASSUME NEW r \in Completers, MergeFault(r)
     PROVE  Stay
  BY <1>19 DEF MergeFault, MergeFails, Fault
<1>20. ASSUME NEW r \in Removers, NEW t \in Tenants, NEW f \in Files,
             RemoveStart(r, t, f)
     PROVE  Stay
  BY <1>20 DEF RemoveStart
<1>21. ASSUME NEW r \in Removers, NEW t \in Tenants, NEW f \in Files,
             RemoveRefused(r, t, f)
     PROVE  Stay
  BY <1>21 DEF RemoveRefused, Refuse
<1>22. ASSUME NEW r \in Removers, RemoveStored(r)
     PROVE  Stay
  <2>1. on[r] \in Files
    BY <1>22 DEF RemoveStored, LocalsOK, WorkingLabels
  <2> QED BY <2>1, <1>22 DEF Orderly
<1>23. ASSUME NEW r \in Removers, RemoveTemp(r)
     PROVE  Stay
  BY <1>23 DEF RemoveTemp, RmTempOf, RmTemp
<1>24. ASSUME NEW r \in Removers, RemoveRow(r)
     PROVE  Stay
  BY <1>24 DEF RemoveRow
<1>25. ASSUME NEW s \in Sweepers, SweepStart(s)
     PROVE  Stay
  BY <1>25 DEF SweepStart, Expired
<1>26. ASSUME NEW s \in Sweepers, NEW f \in Files, SweepNext(s, f)
     PROVE  Stay
  BY <1>26 DEF SweepNext
<1>27. ASSUME NEW s \in Sweepers, SweepPurge(s)
     PROVE  Stay
  BY <1>27 DEF SweepPurge, RmTempOf, RmTemp
<1>28. ASSUME NEW s \in Sweepers, SweepEnd(s)
     PROVE  Stay
  BY <1>28 DEF SweepEnd
<1>29. ASSUME NEW p \in Savers, SaveLoad(p)
     PROVE  Stay
  BY <1>29 DEF SaveLoad
<1>30. ASSUME NEW p \in Savers, SaveWrite(p)
     PROVE  Stay
  <2>1. ent[p] \in Row /\ ent[p].status \in {"failed", "ready"}
    BY <1>30 DEF SaveWrite, SavesJustified, LocalsOK,
           WorkingLabels, EntityLabels
  <2> QED BY <2>1, <1>30 DEF SaveWrite, AfterSave
<1>31. ASSUME NEW p \in Savers, SaveClash(p)
     PROVE  Stay
  <2>1. ent[p] \in Row /\ ent[p].status \in {"failed", "ready"}
    BY <1>31 DEF SaveClash, SavesJustified, LocalsOK,
           WorkingLabels, EntityLabels
  <2> QED BY <2>1, <1>31 DEF SaveClash, SaveThrows, AfterSave
<1>32. ASSUME NEW p \in Savers, SaveFault(p)
     PROVE  Stay
  <2>1. ent[p] \in Row /\ ent[p].status \in {"failed", "ready"}
    BY <1>32 DEF SaveFault, SavesJustified, LocalsOK,
           WorkingLabels, EntityLabels
  <2> QED BY <2>1, <1>32 DEF SaveFault, SaveThrows, AfterSave, Fault
<1>33. ASSUME Crash
     PROVE  Stay
  BY <1>33 DEF Crash, CutOff, Fault
<1>34. QED
  BY <1>1, <1>2, <1>3, <1>4, <1>5, <1>6, <1>7, <1>8, <1>9, <1>10, <1>11, <1>11a,
     <1>11b, <1>12,
     <1>13, <1>14, <1>15, <1>16, <1>17, <1>18, <1>19, <1>20, <1>21, <1>22,
     <1>23, <1>24, <1>25, <1>26, <1>27, <1>28, <1>29, <1>30, <1>31, <1>32,
     <1>33
  DEF Next, ChunkStep, MergeStep, RemoveStep, SweepStep, SaveStep

\* A merge copies the chunks one by one.
LEMMA MergesStep ==
    ASSUME IInv, TalliesInv, WholeInv, Orderly, Next
    PROVE  MergesSoFar'
<1> SUFFICES ASSUME NEW c \in Completers, pc'[c] = "merge"
             PROVE  /\ c \in linked' /\ on'[c] \in onDisk'
                    /\ todo'[c] \subseteq Indexes(on'[c])
                    /\ Indexes(on'[c]) \ todo'[c] \subseteq intact'[on'[c]]
  BY DEF MergesSoFar, Indexes
<1> DEFINE f == on[c]
<1>0. c \in Procs /\ todo \in [Completers -> SUBSET Int]
      /\ intact \in [Files -> SUBSET Int]
  BY DEF Procs, IInv, TypeOK, LocalsTyped, DiskTyped
<1>1. CASE MergeOpen(c)
  <2>1. f \in Files /\ on' = on
    BY <1>1 DEF MergeOpen, IInv, LocalsOK, WorkingLabels, Procs, TypeOK,
                TablesTyped
  <2>2. present[f] = Indexes(f)
    <3>1. present[f] \subseteq Indexes(f) /\ CountMatches(f)
      BY <1>1, <2>1 DEF MergeOpen, IInv, ChunksInRange
    <3> QED BY <2>1, <3>1, FullDirectory
  <2>3. c \in linked' /\ f \in onDisk' /\ todo'[c] = present[f]
    BY <1>0, <1>1 DEF MergeOpen
  <2> QED BY <2>1, <2>2, <2>3
<1>2. CASE MergeChunk(c)
  <2>1. /\ on' = on /\ linked' = linked /\ onDisk' = onDisk /\ pc[c] = "merge"
        /\ todo'[c] = todo[c] \ {Min(todo[c])}
    BY <1>0, <1>2 DEF MergeChunk
  <2>2. f \in Files
    BY <2>1 DEF IInv, LocalsOK, WorkingLabels, Procs, TypeOK, TablesTyped
  <2>3. intact'[f] = intact[f] \cup {Min(todo[c])}
    BY <1>0, <1>2, <2>2, ChunkIsGood
  <2>4. /\ c \in linked /\ f \in onDisk /\ todo[c] \subseteq Indexes(f)
        /\ Indexes(f) \ todo[c] \subseteq intact[f]
    BY <2>1 DEF WholeInv, MergesSoFar
  <2> HIDE DEF f
  <2>5. on'[c] = f
    BY <2>1 DEF f
  <2> QED BY <2>1, <2>3, <2>4, <2>5
<1>3. CASE /\ pc[c] = "merge" /\ on'[c] = on[c] /\ todo'[c] = todo[c]
           /\ c \in linked => c \in linked'
  <2>1. /\ c \in linked /\ f \in onDisk /\ todo[c] \subseteq Indexes(f)
        /\ Indexes(f) \ todo[c] \subseteq intact[f] /\ f \in Files
    BY <1>3 DEF WholeInv, MergesSoFar, IInv, LocalsOK, WorkingLabels, Procs,
                TypeOK, TablesTyped
  <2>2. \A d \in Completers : MergeOpen(d) => on[d] # f
    BY <1>3 DEF MergeOpen, Orderly, Merging
  <2>3. f \in onDisk' /\ intact[f] \subseteq intact'[f]
    BY <2>1, <2>2, StoredGrows
  <2> QED BY <1>3, <2>1, <2>3
<1> QED
  BY <1>1, <1>2, <1>3, MergesEnter

\* An entity is saved as READY at the end of a merge only.
LEMMA SavesEnter ==
    ASSUME IInv, TalliesInv, WholeInv, Orderly, Next,
           NEW q \in Savers, pc'[q] \in {"load", "save"}
    PROVE  \/ ent'[q].status = "failed"
           \/ q \in Completers /\ MergeEnd(q)
           \/ /\ pc[q] \in {"load", "save"}
              /\ on'[q] = on[q] /\ ent'[q] = ent[q]
<1> USE ConstantsAssumption DEF IInv, TypeOK, TablesTyped, DiskTyped,
        LocalsTyped, Ended, Savers, Procs, tables, disk, locals,
        Goto
<1> DEFINE Stay ==
           \/ ent'[q].status = "failed"
           \/ q \in Completers /\ MergeEnd(q)
           \/ /\ pc[q] \in {"load", "save"}
              /\ on'[q] = on[q] /\ ent'[q] = ent[q]
<1>1. ASSUME NEW f \in Files, InitUpload(f)
     PROVE  Stay
  BY <1>1 DEF InitUpload
<1>2. ASSUME NEW f \in Files, MakeTemp(f)
     PROVE  Stay
  BY <1>2 DEF MakeTemp
<1>3. ASSUME NEW f \in Files, Age(f)
     PROVE  Stay
  BY <1>3 DEF Age
<1>4. ASSUME NEW f \in Files, BgRemove(f)
     PROVE  Stay
  BY <1>4 DEF BgRemove, RmTemp
<1>5. ASSUME NEW r \in Chunkers, NEW t \in Tenants, NEW f \in Files,
             NEW i \in IndexInputs, ChunkStart(r, t, f, i)
     PROVE  Stay
  BY <1>5 DEF ChunkStart
<1>6. ASSUME NEW r \in Chunkers, NEW t \in Tenants, NEW f \in Files,
             NEW i \in IndexInputs, ChunkRefused(r, t, f, i)
     PROVE  Stay
  BY <1>6 DEF ChunkRefused, Refuse
<1>7. ASSUME NEW r \in Chunkers, ChunkOpen(r)
     PROVE  Stay
  BY <1>7 DEF ChunkOpen
<1>8. ASSUME NEW r \in Chunkers, ChunkNoDir(r)
     PROVE  Stay
  BY <1>8 DEF ChunkNoDir, Refuse
<1>9. ASSUME NEW r \in Chunkers, ChunkWrite(r)
     PROVE  Stay
  BY <1>9 DEF ChunkWrite
<1>10. ASSUME NEW r \in Chunkers, ChunkCount(r)
     PROVE  Stay
  BY <1>10 DEF ChunkCount
<1>11. ASSUME NEW r \in Chunkers, ChunkFault(r)
     PROVE  Stay
  BY <1>11 DEF ChunkFault, Fault
<1>11a. ASSUME NEW r \in Chunkers, ChunkReply(r)
     PROVE  Stay
  BY <1>11a DEF ChunkReply
<1>11b. ASSUME NEW r \in Chunkers, ReplyFault(r)
     PROVE  Stay
  BY <1>11b DEF ReplyFault, Fault
<1>12. ASSUME NEW r \in Completers, NEW t \in Tenants, NEW f \in Files,
             CompleteStart(r, t, f)
     PROVE  Stay
  BY <1>12 DEF CompleteStart, Uploadable
<1>13. ASSUME NEW r \in Completers, NEW t \in Tenants, NEW f \in Files,
             CompleteRefused(r, t, f)
     PROVE  Stay
  BY <1>13 DEF CompleteRefused, Refuse
<1>14. ASSUME NEW r \in Completers, MergeOpen(r)
     PROVE  Stay
  BY <1>14 DEF MergeOpen
<1>15. ASSUME NEW r \in Completers, MergeRefused(r)
     PROVE  Stay
  <2>1. ent[r] \in Row
    BY <1>15 DEF MergeRefused, LocalsOK, WorkingLabels, EntityLabels
  <2>2. WithStatus(ent[r], "failed").status = "failed"
    BY <2>1, StatusTyped
  <2> QED BY <2>2, <1>15 DEF MergeRefused, MergeFails
<1>16. ASSUME NEW r \in Completers, MergeChunk(r)
     PROVE  Stay
  BY <1>16 DEF MergeChunk
<1>17. ASSUME NEW r \in Completers, MergeLosesChunk(r)
     PROVE  Stay
  <2>1. ent[r] \in Row
    BY <1>17 DEF MergeLosesChunk, LocalsOK, WorkingLabels, EntityLabels
  <2>2. WithStatus(ent[r], "failed").status = "failed"
    BY <2>1, StatusTyped
  <2> QED BY <2>2, <1>17 DEF MergeLosesChunk, MergeFails
<1>18. ASSUME NEW r \in Completers, MergeEnd(r)
     PROVE  Stay
  BY <1>18 DEF MergeEnd, StartCleanup
<1>19. ASSUME NEW r \in Completers, MergeFault(r)
     PROVE  Stay
  <2>1. ent[r] \in Row
    BY <1>19 DEF MergeFault, LocalsOK, WorkingLabels, EntityLabels
  <2>2. WithStatus(ent[r], "failed").status = "failed"
    BY <2>1, StatusTyped
  <2> QED BY <2>2, <1>19 DEF MergeFault, MergeFails, Fault
<1>20. ASSUME NEW r \in Removers, NEW t \in Tenants, NEW f \in Files,
             RemoveStart(r, t, f)
     PROVE  Stay
  BY <1>20 DEF RemoveStart
<1>21. ASSUME NEW r \in Removers, NEW t \in Tenants, NEW f \in Files,
             RemoveRefused(r, t, f)
     PROVE  Stay
  BY <1>21 DEF RemoveRefused, Refuse
<1>22. ASSUME NEW r \in Removers, RemoveStored(r)
     PROVE  Stay
  BY <1>22 DEF RemoveStored
<1>23. ASSUME NEW r \in Removers, RemoveTemp(r)
     PROVE  Stay
  BY <1>23 DEF RemoveTemp, RmTempOf, RmTemp
<1>24. ASSUME NEW r \in Removers, RemoveRow(r)
     PROVE  Stay
  BY <1>24 DEF RemoveRow
<1>25. ASSUME NEW s \in Sweepers, SweepStart(s)
     PROVE  Stay
  BY <1>25 DEF SweepStart, Expired
<1>26. ASSUME NEW s \in Sweepers, NEW f \in Files, SweepNext(s, f)
     PROVE  Stay
  BY <1>26 DEF SweepNext
<1>27. ASSUME NEW s \in Sweepers, SweepPurge(s)
     PROVE  Stay
  <2>1. ent[s] \in Row
    BY <1>27 DEF SweepPurge, LocalsOK, WorkingLabels, EntityLabels
  <2>2. WithStatus(ent[s], "failed").status = "failed"
    BY <2>1, StatusTyped
  <2> QED BY <2>2, <1>27 DEF SweepPurge
<1>28. ASSUME NEW s \in Sweepers, SweepEnd(s)
     PROVE  Stay
  BY <1>28 DEF SweepEnd
<1>29. ASSUME NEW p \in Savers, SaveLoad(p)
     PROVE  Stay
  BY <1>29 DEF SaveLoad
<1>30. ASSUME NEW p \in Savers, SaveWrite(p)
     PROVE  Stay
  <2>1. ent[p] \in Row /\ ent[p].status \in {"failed", "ready"}
    BY <1>30 DEF SaveWrite, SavesJustified, LocalsOK,
           WorkingLabels, EntityLabels
  <2>2. WithStatus(ent[p], "failed").status = "failed"
    BY <2>1, StatusTyped
  <2> QED BY <2>1, <2>2, <1>30 DEF SaveWrite, AfterSave
<1>31. ASSUME NEW p \in Savers, SaveClash(p)
     PROVE  Stay
  <2>1. ent[p] \in Row /\ ent[p].status \in {"failed", "ready"}
    BY <1>31 DEF SaveClash, SavesJustified, LocalsOK,
           WorkingLabels, EntityLabels
  <2>2. WithStatus(ent[p], "failed").status = "failed"
    BY <2>1, StatusTyped
  <2> QED BY <2>1, <2>2, <1>31 DEF SaveClash, SaveThrows, AfterSave
<1>32. ASSUME NEW p \in Savers, SaveFault(p)
     PROVE  Stay
  <2>1. ent[p] \in Row /\ ent[p].status \in {"failed", "ready"}
    BY <1>32 DEF SaveFault, SavesJustified, LocalsOK,
           WorkingLabels, EntityLabels
  <2>2. WithStatus(ent[p], "failed").status = "failed"
    BY <2>1, StatusTyped
  <2> QED BY <2>1, <2>2, <1>32 DEF SaveFault, SaveThrows, AfterSave, Fault
<1>33. ASSUME Crash
     PROVE  Stay
  BY <1>33 DEF Crash, CutOff, Fault
<1>34. QED
  BY <1>1, <1>2, <1>3, <1>4, <1>5, <1>6, <1>7, <1>8, <1>9, <1>10, <1>11, <1>11a,
     <1>11b, <1>12,
     <1>13, <1>14, <1>15, <1>16, <1>17, <1>18, <1>19, <1>20, <1>21, <1>22,
     <1>23, <1>24, <1>25, <1>26, <1>27, <1>28, <1>29, <1>30, <1>31, <1>32,
     <1>33
  DEF Next, ChunkStep, MergeStep, RemoveStep, SweepStep, SaveStep

\* The file behind a save() as READY stays whole until it is done.
LEMMA SavesWholeStep ==
    ASSUME IInv, TalliesInv, WholeInv, Orderly, Next
    PROVE  SavesWhole'
<1> SUFFICES ASSUME NEW p \in Savers, pc'[p] \in {"load", "save"},
                    ent'[p].status # "failed"
             PROVE  p \in Completers /\ StoredWhole(on[p])'
  BY DEF SavesWhole
<1>1. CASE p \in Completers /\ MergeEnd(p)
  <2>1. pc[p] = "merge" /\ on' = on /\ onDisk' = onDisk /\ intact' = intact
        /\ todo[p] = {}
    BY <1>1 DEF MergeEnd
  <2>2. on[p] \in onDisk /\ Indexes(on[p]) \subseteq intact[on[p]]
    BY <1>1, <2>1 DEF WholeInv, MergesSoFar
  <2> QED BY <1>1, <2>1, <2>2 DEF StoredWhole, Indexes
<1>2. CASE /\ pc[p] \in {"load", "save"}
           /\ on'[p] = on[p] /\ ent'[p] = ent[p]
  <2>1. PICK f : f = on[p]
    OBVIOUS
  <2>2. p \in Completers /\ StoredWhole(f) /\ f \in Files
    BY <1>2, <2>1 DEF WholeInv, SavesWhole, IInv, LocalsOK, WorkingLabels,
       Procs, Savers, TypeOK, TablesTyped
  <2>3. \A d \in Completers : MergeOpen(d) => on[d] # f
    BY <1>2, <2>1, <2>2 DEF MergeOpen, Orderly, Merging
  <2>4. f \in onDisk' /\ intact[f] \subseteq intact'[f]
    BY <2>2, <2>3, StoredGrows DEF StoredWhole
  <2> QED BY <1>2, <2>1, <2>2, <2>4 DEF StoredWhole, Indexes
<1> QED
  BY <1>1, <1>2, SavesEnter

\* A row becomes READY by the save() of an entity that is.
LEMMA ReadyEnters ==
    ASSUME IInv, TalliesInv, WholeInv, Orderly, Next,
           NEW g \in Files, IsStatus(g, "ready")'
    PROVE  \/ IsStatus(g, "ready")
           \/ \E q \in Savers : SaveWrite(q) /\ on[q] = g
                                /\ ent[q].status # "failed"
<1> USE ConstantsAssumption DEF IInv, TypeOK, TablesTyped, DiskTyped,
        LocalsTyped, Ended, Savers, Procs, tables, disk, locals, Goto, IsStatus,
        RowOrNone
<1> DEFINE Stay ==
           \/ IsStatus(g, "ready")
           \/ \E q \in Savers : SaveWrite(q) /\ on[q] = g
                                /\ ent[q].status # "failed"
<1>1. ASSUME NEW f \in Files, InitUpload(f)
     PROVE  Stay
  BY <1>1 DEF InitUpload, Fresh
<1>2. ASSUME NEW f \in Files, MakeTemp(f)
     PROVE  Stay
  BY <1>2 DEF MakeTemp
<1>3. ASSUME NEW f \in Files, Age(f)
     PROVE  Stay
  BY <1>3 DEF Age
<1>4. ASSUME NEW f \in Files, BgRemove(f)
     PROVE  Stay
  BY <1>4 DEF BgRemove, RmTemp
<1>5. ASSUME NEW r \in Chunkers, NEW t \in Tenants, NEW f \in Files,
             NEW i \in IndexInputs, ChunkStart(r, t, f, i)
     PROVE  Stay
  BY <1>5 DEF ChunkStart
<1>6. ASSUME NEW r \in Chunkers, NEW t \in Tenants, NEW f \in Files,
             NEW i \in IndexInputs, ChunkRefused(r, t, f, i)
     PROVE  Stay
  BY <1>6 DEF ChunkRefused, Refuse
<1>7. ASSUME NEW r \in Chunkers, ChunkOpen(r)
     PROVE  Stay
  BY <1>7 DEF ChunkOpen
<1>8. ASSUME NEW r \in Chunkers, ChunkNoDir(r)
     PROVE  Stay
  BY <1>8 DEF ChunkNoDir, Refuse
<1>9. ASSUME NEW r \in Chunkers, ChunkWrite(r)
     PROVE  Stay
  BY <1>9 DEF ChunkWrite
<1>10. ASSUME NEW r \in Chunkers, ChunkCount(r)
     PROVE  Stay
  <2>1. CASE row[on[r]] = NoRow
    BY <2>1, <1>10 DEF ChunkCount
  <2>2. CASE row[on[r]] # NoRow
    <3>1. on[r] \in Files /\ row[on[r]] \in Row
      BY <2>2, <1>10 DEF ChunkCount, LocalsOK, WorkingLabels
    <3>2. OneMore(row[on[r]]).status = row[on[r]].status
      BY <3>1, OneMoreTyped
    <3>3. row' = [row EXCEPT ![on[r]] = OneMore(row[on[r]])]
      BY <2>2, <1>10 DEF ChunkCount
    <3>4. CASE g = on[r]
      BY <2>2, <3>1, <3>2, <3>3, <3>4
    <3>5. CASE g # on[r]
      BY <3>1, <3>3, <3>5
    <3> QED BY <3>4, <3>5
  <2> QED BY <2>1, <2>2
<1>11. ASSUME NEW r \in Chunkers, ChunkFault(r)
     PROVE  Stay
  BY <1>11 DEF ChunkFault, Fault
<1>11a. ASSUME NEW r \in Chunkers, ChunkReply(r)
     PROVE  Stay
  BY <1>11a DEF ChunkReply
<1>11b. ASSUME NEW r \in Chunkers, ReplyFault(r)
     PROVE  Stay
  BY <1>11b DEF ReplyFault, Fault
<1>12. ASSUME NEW r \in Completers, NEW t \in Tenants, NEW f \in Files,
             CompleteStart(r, t, f)
     PROVE  Stay
  BY <1>12 DEF CompleteStart, Uploadable
<1>13. ASSUME NEW r \in Completers, NEW t \in Tenants, NEW f \in Files,
             CompleteRefused(r, t, f)
     PROVE  Stay
  BY <1>13 DEF CompleteRefused, Refuse
<1>14. ASSUME NEW r \in Completers, MergeOpen(r)
     PROVE  Stay
  BY <1>14 DEF MergeOpen
<1>15. ASSUME NEW r \in Completers, MergeRefused(r)
     PROVE  Stay
  BY <1>15 DEF MergeRefused, MergeFails
<1>16. ASSUME NEW r \in Completers, MergeChunk(r)
     PROVE  Stay
  BY <1>16 DEF MergeChunk
<1>17. ASSUME NEW r \in Completers, MergeLosesChunk(r)
     PROVE  Stay
  BY <1>17 DEF MergeLosesChunk, MergeFails
<1>18. ASSUME NEW r \in Completers, MergeEnd(r)
     PROVE  Stay
  BY <1>18 DEF MergeEnd, StartCleanup
<1>19. ASSUME NEW r \in Completers, MergeFault(r)
     PROVE  Stay
  BY <1>19 DEF MergeFault, MergeFails, Fault
<1>20. ASSUME NEW r \in Removers, NEW t \in Tenants, NEW f \in Files,
             RemoveStart(r, t, f)
     PROVE  Stay
  BY <1>20 DEF RemoveStart
<1>21. ASSUME NEW r \in Removers, NEW t \in Tenants, NEW f \in Files,
             RemoveRefused(r, t, f)
     PROVE  Stay
  BY <1>21 DEF RemoveRefused, Refuse
<1>22. ASSUME NEW r \in Removers, RemoveStored(r)
     PROVE  Stay
  BY <1>22 DEF RemoveStored
<1>23. ASSUME NEW r \in Removers, RemoveTemp(r)
     PROVE  Stay
  BY <1>23 DEF RemoveTemp, RmTempOf, RmTemp
<1>24. ASSUME NEW r \in Removers, RemoveRow(r)
     PROVE  Stay
  BY <1>24 DEF RemoveRow
<1>25. ASSUME NEW s \in Sweepers, SweepStart(s)
     PROVE  Stay
  BY <1>25 DEF SweepStart, Expired
<1>26. ASSUME NEW s \in Sweepers, NEW f \in Files, SweepNext(s, f)
     PROVE  Stay
  BY <1>26 DEF SweepNext
<1>27. ASSUME NEW s \in Sweepers, SweepPurge(s)
     PROVE  Stay
  BY <1>27 DEF SweepPurge, RmTempOf, RmTemp
<1>28. ASSUME NEW s \in Sweepers, SweepEnd(s)
     PROVE  Stay
  BY <1>28 DEF SweepEnd
<1>29. ASSUME NEW p \in Savers, SaveLoad(p)
     PROVE  Stay
  BY <1>29 DEF SaveLoad
<1>30. ASSUME NEW p \in Savers, SaveWrite(p)
     PROVE  Stay
  <2>1. CASE on[p] = g
    <3>1. row'[g] = IF base[p] = NoRow THEN ent[p]
                    ELSE IF row[g] = NoRow THEN NoRow
                    ELSE Updated(row[g], base[p], ent[p])
      BY <2>1, <1>30 DEF SaveWrite, SaveRow
    <3>2. \/ row'[g] = NoRow
          \/ row'[g].status = ent[p].status
          \/ row[g] # NoRow /\ row'[g].status = row[g].status
      <4>1. CASE base[p] = NoRow
        BY <3>1, <4>1
      <4>2. CASE base[p] # NoRow /\ row[g] = NoRow
        BY <3>1, <4>2
      <4>3. CASE base[p] # NoRow /\ row[g] # NoRow
        <5>1. row'[g] = Updated(row[g], base[p], ent[p])
          BY <3>1, <4>3
        <5>2. row'[g].status = IF ent[p].status # base[p].status
                               THEN ent[p].status ELSE row[g].status
          BY <5>1 DEF Updated
        <5> QED BY <4>3, <5>2
      <4> QED BY <4>1, <4>2, <4>3
    <3>3. CASE ent[p].status = "failed"
      BY <3>2, <3>3
    <3>4. CASE ent[p].status # "failed"
      BY <2>1, <3>4, <1>30
    <3> QED BY <3>3, <3>4
  <2>2. CASE on[p] # g
    <3>1. row'[g] = row[g]
      BY <2>2, <1>30 DEF SaveWrite, SaveRow
    <3> QED BY <3>1
  <2> QED BY <2>1, <2>2
<1>31. ASSUME NEW p \in Savers, SaveClash(p)
     PROVE  Stay
  BY <1>31 DEF SaveClash, SaveThrows, AfterSave
<1>32. ASSUME NEW p \in Savers, SaveFault(p)
     PROVE  Stay
  BY <1>32 DEF SaveFault, SaveThrows, AfterSave, Fault
<1>33. ASSUME Crash
     PROVE  Stay
  BY <1>33 DEF Crash, CutOff, Fault
<1>34. QED
  BY <1>1, <1>2, <1>3, <1>4, <1>5, <1>6, <1>7, <1>8, <1>9, <1>10, <1>11, <1>11a,
     <1>11b, <1>12,
     <1>13, <1>14, <1>15, <1>16, <1>17, <1>18, <1>19, <1>20, <1>21, <1>22,
     <1>23, <1>24, <1>25, <1>26, <1>27, <1>28, <1>29, <1>30, <1>31, <1>32,
     <1>33
  DEF Next, ChunkStep, MergeStep, RemoveStep, SweepStep, SaveStep

\* The file of a READY upload is whole when the row becomes READY, and no
\* merge opens it again.
LEMMA ReadyStep ==
    ASSUME IInv, TalliesInv, WholeInv, Orderly, Next
    PROVE  ReadyFileIsWhole'
<1> SUFFICES ASSUME NEW f \in Files, IsStatus(f, "ready")'
             PROVE  f \in onDisk' /\ Indexes(f) \subseteq intact'[f]
  BY DEF ReadyFileIsWhole, Indexes
<1>1. CASE IsStatus(f, "ready")
  <2>1. f \in onDisk /\ Indexes(f) \subseteq intact[f]
    BY <1>1 DEF WholeInv, ReadyFileIsWhole
  <2>2. \A d \in Completers : MergeOpen(d) => on[d] # f
    BY <1>1 DEF MergeOpen, WholeInv, CompletionsCovered
  <2> QED BY <2>1, <2>2, StoredGrows
<1>2. CASE \E q \in Savers : SaveWrite(q) /\ on[q] = f
                             /\ ent[q].status # "failed"
  <2>1. PICK q \in Savers : /\ SaveWrite(q) /\ on[q] = f
                            /\ ent[q].status # "failed"
    BY <1>2
  <2>2. q \in Completers /\ StoredWhole(f) /\ pc[q] = "save"
    BY <2>1 DEF SaveWrite, WholeInv, SavesWhole
  <2>3. \A d \in Completers : MergeOpen(d) => on[d] # f
    BY <2>1, <2>2 DEF MergeOpen, Orderly, Merging
  <2> QED BY <2>2, <2>3, StoredGrows DEF StoredWhole
<1> QED
  BY <1>1, <1>2, ReadyEnters

-----------------------------------------------------------------------------
(* The theorems *)

\* A step that changes nothing keeps the invariant.
LEMMA StutterInv == ASSUME IInv, UNCHANGED vars PROVE IInv'
  BY DEF IInv, TypeOK, TablesTyped, DiskTyped, LocalsTyped, LocalsOK,
         ChunksInRange, SavesJustified, IsStatus, AllReceived, Indexes, vars,
         tables, disk, locals

\* Every reachable state satisfies the inductive invariant: processes at work
\* hold a target and an entity, chunk files are received and in range, and
\* what is about to be saved as READY has every chunk.
THEOREM Inductive == Spec => []IInv
<1>1. IInv /\ [Next]_vars => IInv'
  BY InvStep, StutterInv
<1> QED BY InitInv, <1>1, PTL DEF Spec

\* Every variable keeps its type.
THEOREM TypeCorrect == Spec => []TypeOK
<1>1. IInv => TypeOK
  BY DEF IInv
<1> QED BY <1>1, Inductive, PTL

\* completeUpload never leaves a READY row for an upload some chunk of which
\* was not uploaded, whatever duplicates, stale saves, removals, cleanup runs
\* and crashes happen.
THEOREM ReadyComplete == Spec => []ReadyHasEveryChunk
<1>1. IInv => ReadyHasEveryChunk
  BY DEF IInv, SavesJustified, ReadyHasEveryChunk, AllReceived
<1> QED BY <1>1, Inductive, PTL

\* Requests, cleanup runs and failures together implement the abstract
\* lifecycle of an upload.
THEOREM LifecycleImplemented == Spec => ImplementsLifecycle
<1>1. Init => Lifecycle!Init
  BY DEF Init, Empty, Lifecycle!Init, lifecycle
<1>2. IInv /\ [Next]_vars => [Lifecycle!Next]_<<lifecycle, received>>
  <2>1. UNCHANGED vars => UNCHANGED <<lifecycle, received>>
    BY DEF vars, tables, lifecycle
  <2> QED BY <2>1, LifecycleStep
<1> QED BY <1>1, <1>2, Inductive, PTL DEF Spec, ImplementsLifecycle,
           Lifecycle!Spec

\* A finished, failed or removed upload is never open for chunks again.
THEOREM StaysClosed == Spec => NeverReopened
<1>1. IInv /\ [Next]_vars => [\A f \in Files : Closed(f) => Closed(f)']_vars
  BY ClosedStep
<1> QED BY <1>1, Inductive, PTL DEF Spec, NeverReopened

\* The invariant about the counter holds initially and through stutters.
LEMMA TalliesInit == Init => TalliesInv
<1> SUFFICES ASSUME Init PROVE TalliesInv
  OBVIOUS
<1>1. /\ \A r \in Chunkers : pc[r] = "idle"
      /\ \A p \in Savers : pc[p] = "idle"
      /\ \A f \in Files : ~IsStatus(f, "uploading")
  BY DEF Init, Empty, Procs, Savers, IsStatus
<1>2. \A f \in Files : Tallied(f) = {}
  BY <1>1 DEF Tallied, TalliedLabels
<1> QED
  BY <1>1, <1>2, FS_EmptySet DEF TalliesInv, TalliedLabels,
                                 CounterCountsChunks

\* A step that changes nothing keeps the counter exact.
LEMMA TalliesStutter == ASSUME TalliesInv, UNCHANGED vars PROVE TalliesInv'
  BY DEF TalliesInv, CounterCountsChunks, Tallied, IsStatus, vars, tables, locals

\* Every save() that loaded a closed row finds it closed, and the counter of
\* an open row is the number of requests counted.
THEOREM TalliesInductive == Spec => []TalliesInv
<1>1. TalliesInv /\ IInv /\ [Next]_vars => TalliesInv'
  BY TalliesStep, TalliesStutter
<1> QED BY TalliesInit, <1>1, Inductive, PTL DEF Spec

\* While an upload is open its uploadedChunks column is the number of chunk
\* requests that were counted, those included whose answer was lost, for any
\* number of requests, stale saves,
\* cleanup runs and failures.
THEOREM CounterExact == Spec => []CounterCountsChunks
<1>1. TalliesInv => CounterCountsChunks
  BY DEF TalliesInv
<1> QED BY <1>1, TalliesInductive, PTL

\* Nothing is stored and nobody is at work.
LEMMA WholeInit == Init => WholeInv
<1> SUFFICES ASSUME Init PROVE WholeInv
  OBVIOUS
<1>1. /\ \A r \in Chunkers : pc[r] = "idle"
      /\ \A c \in Completers : pc[c] = "idle" /\ off[c] = {}
      /\ \A p \in Savers : pc[p] = "idle"
      /\ \A f \in Files : ~IsStatus(f, "ready")
  BY DEF Init, Empty, Procs, Savers, IsStatus
<1> QED
  BY <1>1 DEF WholeInv, TalliesInRange, TalliedLabels, WrittenIsWhole, Written,
              CompletionsCovered, MergesSoFar,
              SavesWhole, ReadyFileIsWhole

\* A step that changes nothing keeps the files whole.
LEMMA WholeStutter == ASSUME WholeInv, UNCHANGED vars PROVE WholeInv'
  BY DEF WholeInv, TalliesInRange, WrittenIsWhole, Written, Lone,
         CompletionsCovered, MergesSoFar,
         SavesWhole, StoredWhole, ReadyFileIsWhole, Covered, Tallied, Indexes,
         IsStatus, vars, tables, disk, locals

\* While clients are orderly -- a chunk is sent again only after the server has
\* failed to answer for it, an upload with a chunk sent again after a lost
\* answer is completed only when every chunk has been answered with success,
\* one completion of an upload is at work at a time, nobody removes it --
\* completeUpload leaves a READY row only beside a merged file with every chunk
\* in its place, whatever fails, crashes or is cleaned up.
THEOREM OrderlyFilesAreWhole == Spec /\ []Orderly => []ReadyFileIsWhole
<1>1. /\ WholeInv /\ Orderly /\ Orderly' /\ IInv /\ TalliesInv /\ [Next]_vars
      => WholeInv'
  <2>1. ASSUME WholeInv, Orderly, Orderly', IInv, TalliesInv, Next
        PROVE  WholeInv'
    BY <2>1, RangeStep, WrittenStep, CompletionsStep, MergesStep,
       SavesWholeStep, ReadyStep DEF WholeInv
  <2> QED BY <2>1, WholeStutter
<1>2. WholeInv => ReadyFileIsWhole
  BY DEF WholeInv
<1> QED
  BY WholeInit, <1>1, <1>2, Inductive, TalliesInductive, PTL DEF Spec
=============================================================================

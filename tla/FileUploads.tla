---------------------------- MODULE FileUploads ----------------------------
(***************************************************************************)
(* Chunked uploads: FilesService over LocalStorageAdapter and the `files'   *)
(* table, with the hourly cleanup job.                                      *)
(*                                                                          *)
(* Every HTTP request and every run of the cron job is a process.  A step   *)
(* of a process is the code between two awaits: one database statement or  *)
(* one file-system call with the computation around it.  Requests are       *)
(* handled once each; the cron job comes back every hour.                   *)
(***************************************************************************)
EXTENDS Integers, FiniteSets, FiniteSetsExt

CONSTANTS
    Files,       \* ids of the upload rows (fresh uuids, one upload each)
    Total,       \* [Files -> positive]: dto.totalChunks || 1
    Tenants,     \* tenants the requests come from
    Owner,       \* [Files -> Tenants]: the tenant that opened the upload
    IndexInputs, \* values of the chunkIndex query parameter
    Chunkers,    \* POST /files/:id/chunk requests
    Completers,  \* POST /files/:id/complete requests
    Removers,    \* DELETE /files requests
    Sweepers,    \* overlapping runs of the cleanup job
    MaxFaults,   \* bound on crashes and failed calls
    NoRow,       \* "no such row"
    NoFile       \* "no target file yet"

Procs == Chunkers \cup Completers \cup Removers \cup Sweepers
Savers == Completers \cup Sweepers   \* the processes that call repository.save

Status == {"uploading", "ready", "failed"}

\* The columns of a row that change after the insert; `upload' says whether
\* uploadId is set.
Row == [status : Status, upload : BOOLEAN, count : Nat]

\* A row with another status, and one chunk further.
WithStatus(e, s) == [e EXCEPT !.status = s]
OneMore(e) == [e EXCEPT !.count = @ + 1]

Fresh == [status |-> "uploading", upload |-> TRUE, count |-> 0]

ASSUME ConstantsAssumption ==
    /\ Total \in [Files -> Nat \ {0}]
    /\ Owner \in [Files -> Tenants]
    /\ IndexInputs \subseteq Int
    /\ MaxFaults \in Nat
    /\ NoRow \notin Row
    /\ NoFile \notin Files
    /\ Chunkers \cap (Completers \cup Removers \cup Sweepers) = {}
    /\ Completers \cap (Removers \cup Sweepers) = {}
    /\ Removers \cap Sweepers = {}

Indexes(f) == 0 .. (Total[f] - 1)

VARIABLES
    row,      \* [Files -> Row or NoRow]: the files table
    created,  \* ids handed out so far
    old,      \* uploads created more than 24 hours ago
    opening,  \* uploads whose init request waits for mkdir
    temp,     \* uploads whose temp directory exists
    present,  \* [Files -> set of index]: chunk files in the temp directory
    whole,    \* [Files -> set of index]: those with all their bytes
    onDisk,   \* uploads whose merged file exists
    intact,   \* [Files -> set of index]: pieces right in the merged file
    bg,       \* uploads whose temp directory is being removed un-awaited
    pc,       \* [Procs -> where the process is]
    on,       \* [Procs -> the file it works on]
    idx,      \* [Chunkers -> chunk index]
    ent,      \* [Procs -> the entity it holds, as read by findOne/find]
    base,     \* [Savers -> what save() loaded to diff against]
    todo,     \* [Completers -> chunk files still to copy]
    off,      \* [Completers -> pieces it wrote at a wrong offset]
    linked,   \* completers whose open stream is still the file at the path
    list,     \* [Sweepers -> [Files -> entity still to clean or NoRow]]
    received, \* history: [Files -> indexes some uploadChunk started to write]
    faults    \* crashes and failed calls so far

tables  == <<row, created, old>>
disk    == <<opening, temp, present, whole, onDisk, intact, bg>>
locals  == <<pc, on, idx, ent, base, todo, off, linked, list>>
vars    == <<tables, disk, locals, received, faults>>

-----------------------------------------------------------------------------
\* No upload, nothing on disk, no process that holds anything.
Empty ==
    /\ row = [f \in Files |-> NoRow]
    /\ created = {} /\ old = {} /\ opening = {}
    /\ temp = {} /\ onDisk = {} /\ bg = {}
    /\ present = [f \in Files |-> {}]
    /\ whole = [f \in Files |-> {}]
    /\ intact = [f \in Files |-> {}]
    /\ on = [p \in Procs |-> NoFile]
    /\ idx = [r \in Chunkers |-> 0]
    /\ ent = [p \in Procs |-> NoRow]
    /\ base = [p \in Savers |-> NoRow]
    /\ todo = [r \in Completers |-> {}]
    /\ off = [r \in Completers |-> {}]
    /\ linked = {}
    /\ list = [s \in Sweepers |-> [f \in Files |-> NoRow]]
    /\ received = [f \in Files |-> {}]

Init == Empty /\ pc = [p \in Procs |-> "idle"] /\ faults = 0

Goto(p, label) == pc' = [pc EXCEPT ![p] = label]

\* rm(tempDir, { recursive: true, force: true })
RmTemp(f) ==
    /\ temp' = temp \ {f}
    /\ present' = [present EXCEPT ![f] = {}]
    /\ whole' = [whole EXCEPT ![f] = {}]

\* if (file.uploadId) await cleanupTempFiles(file.uploadId)
RmTempOf(p) ==
    \/ ent[p].upload /\ RmTemp(on[p])
    \/ ~ent[p].upload /\ UNCHANGED <<temp, present, whole>>

\* The checks every handler makes first: the row exists, the caller's tenant
\* owns it, it is uploading, its uploadId is set.
Uploadable(t, f) ==
    /\ row[f] # NoRow
    /\ Owner[f] = t
    /\ row[f].status = "uploading"
    /\ row[f].upload

\* An early exception: the client is told, nothing else happens.
Refuse(r) ==
    /\ Goto(r, "refused")
    /\ UNCHANGED <<tables, disk, on, idx, ent, base, todo, off, linked, list,
                   received, faults>>

-----------------------------------------------------------------------------
(* POST /files/init: insert the row, then make the temp directory.  A       *)
(* request refused for its size or mime type changes nothing.               *)

InitUpload(f) ==
    /\ f \notin created
    /\ row' = [row EXCEPT ![f] = Fresh]
    /\ created' = created \cup {f}
    /\ opening' = opening \cup {f}
    /\ UNCHANGED <<old, temp, present, whole, onDisk, intact, bg, locals,
                   received, faults>>

MakeTemp(f) ==
    /\ f \in opening
    /\ temp' = temp \cup {f}
    /\ opening' = opening \ {f}
    /\ UNCHANGED <<tables, present, whole, onDisk, intact, bg, locals,
                   received, faults>>

\* A day passes over an upload; its init request does not take that long.
Age(f) ==
    /\ f \in created \ (old \cup opening)
    /\ old' = old \cup {f}
    /\ UNCHANGED <<row, created, disk, locals, received, faults>>

-----------------------------------------------------------------------------
(* POST /files/:id/chunk                                                    *)

IndexOffByOne(f, i) == 0 <= i /\ i <= Total[f]
ValidIndex(f, i) == 0 <= i /\ i < Total[f]

ChunkStart(r, t, f, i) ==
    /\ pc[r] = "idle"
    /\ Uploadable(t, f) /\ ValidIndex(f, i)
    /\ on' = [on EXCEPT ![r] = f]
    /\ idx' = [idx EXCEPT ![r] = i]
    /\ Goto(r, "open")
    /\ UNCHANGED <<tables, disk, ent, base, todo, off, linked, list,
                   received, faults>>

ChunkRefused(r, t, f, i) ==
    /\ pc[r] = "idle"
    /\ ~(Uploadable(t, f) /\ ValidIndex(f, i))
    /\ Refuse(r)

\* writeFile opens the chunk file with 'w' (create or truncate) ...
ChunkOpen(r) ==
    LET f == on[r] IN
    /\ pc[r] = "open"
    /\ f \in temp
    /\ present' = [present EXCEPT ![f] = @ \cup {idx[r]}]
    /\ whole' = [whole EXCEPT ![f] = @ \ {idx[r]}]
    /\ received' = [received EXCEPT ![f] = @ \cup {idx[r]}]
    /\ Goto(r, "write")
    /\ UNCHANGED <<tables, opening, temp, onDisk, intact, bg, on, idx, ent,
                   base, todo, off, linked, list, faults>>

\* ... and throws ENOENT when the temp directory is gone.
ChunkNoDir(r) ==
    /\ pc[r] = "open"
    /\ on[r] \notin temp
    /\ Refuse(r)

\* The bytes arrive; into an unlinked inode when the directory is gone.
ChunkWrite(r) ==
    LET f == on[r] IN
    /\ pc[r] = "write"
    /\ whole' = [whole EXCEPT ![f] = @ \cup ({idx[r]} \cap present[f])]
    /\ Goto(r, "count")
    /\ UNCHANGED <<tables, opening, temp, present, onDisk, intact, bg, on,
                   idx, ent, base, todo, off, linked, list, received, faults>>

CountFromDisk(r) ==
    LET f == on[r] IN
    /\ pc[r] = "count"
    /\ row' = IF row[f] = NoRow THEN row
              ELSE [row EXCEPT ![f].count = Cardinality(present[f])]
    /\ Goto(r, "reply")
    /\ UNCHANGED <<created, old, disk, on, idx, ent, base, todo, off, linked,
                   list, received, faults>>

CountDown(r) ==
    LET f == on[r] IN
    /\ pc[r] = "count"
    /\ row' = IF row[f] = NoRow THEN row
              ELSE [row EXCEPT ![f].count = @ - 1]
    /\ Goto(r, "reply")
    /\ UNCHANGED <<created, old, disk, on, idx, ent, base, todo, off, linked,
                   list, received, faults>>

\* UPDATE ... SET uploadedChunks = uploadedChunks + 1 WHERE id.
ChunkCount(r) ==
    LET f == on[r] IN
    /\ pc[r] = "count"
    /\ row' = IF row[f] = NoRow THEN row
              ELSE [row EXCEPT ![f] = OneMore(@)]
    /\ Goto(r, "reply")
    /\ UNCHANGED <<created, old, disk, on, idx, ent, base, todo, off, linked,
                   list, received, faults>>

\* The row is read once more and the client is told of a success.
ChunkReply(r) ==
    /\ pc[r] = "reply"
    /\ Goto(r, "acked")
    /\ UNCHANGED <<tables, disk, on, idx, ent, base, todo, off, linked, list,
                   received, faults>>

-----------------------------------------------------------------------------
(* repository.save(entity): SELECT the row by id, then write the columns in *)
(* which the entity differs from what was selected -- or INSERT the entity  *)
(* when nothing was.                                                        *)

\* The UPDATE: only columns that differ from the loaded row are set.
Updated(cur, loaded, e) ==
    [status |-> IF e.status # loaded.status THEN e.status ELSE cur.status,
     upload |-> IF e.upload # loaded.upload THEN e.upload ELSE cur.upload,
     count  |-> IF e.count # loaded.count THEN e.count ELSE cur.count]

SaveLoad(p) ==
    /\ pc[p] = "load"
    /\ base' = [base EXCEPT ![p] = row[on[p]]]
    /\ Goto(p, "save")
    /\ UNCHANGED <<tables, disk, on, idx, ent, todo, off, linked, list,
                   received, faults>>

\* An INSERT whose primary key is taken throws.
Clash(p) == base[p] = NoRow /\ row[on[p]] # NoRow

SaveRow(p) ==
    LET f == on[p] IN
    row' = [row EXCEPT ![f] =
              IF base[p] = NoRow THEN ent[p]
              ELSE IF @ = NoRow THEN NoRow
              ELSE Updated(@, base[p], ent[p])]

\* Where a process goes when its save has returned.  A finished request
\* drops the entity; the cron job goes on with its list.
AfterSave(p) ==
    /\ Goto(p, IF p \in Sweepers THEN "sweep" ELSE ent[p].status)
    /\ on' = [on EXCEPT ![p] = NoFile]
    /\ ent' = [ent EXCEPT ![p] = NoRow]
    /\ base' = [base EXCEPT ![p] = NoRow]

SaveWrite(p) ==
    /\ pc[p] = "save"
    /\ ~Clash(p)
    /\ SaveRow(p)
    /\ AfterSave(p)
    /\ UNCHANGED <<created, old, disk, idx, todo, off, linked, list,
                   received, faults>>

\* save() throws.  completeUpload catches the failure of the READY save and
\* saves the same entity again as FAILED; a second failure reaches the
\* client; the cron job logs it and goes on.
SaveThrows(p) ==
    \/ /\ ent[p].status = "ready"
       /\ ent' = [ent EXCEPT ![p] = WithStatus(@, "failed")]
       /\ base' = [base EXCEPT ![p] = NoRow]
       /\ Goto(p, "load")
       /\ UNCHANGED on
    \/ /\ ent[p].status # "ready"
       /\ AfterSave(p)

SaveClash(p) ==
    /\ pc[p] = "save"
    /\ Clash(p)
    /\ SaveThrows(p)
    /\ UNCHANGED <<tables, disk, idx, todo, off, linked, list, received,
                   faults>>

SaveStep(p) == SaveLoad(p) \/ SaveWrite(p) \/ SaveClash(p)

-----------------------------------------------------------------------------
(* POST /files/:id/complete                                                 *)

CountedOffByOne(f) == row[f].count + 1 >= Total[f]
\* The uploadedChunks column against totalChunks.
Counted(f) == row[f].count >= Total[f]

CompleteStart(r, t, f) ==
    /\ pc[r] = "idle"
    /\ Uploadable(t, f) /\ Counted(f)
    /\ on' = [on EXCEPT ![r] = f]
    /\ ent' = [ent EXCEPT ![r] = row[f]]
    /\ Goto(r, "scan")
    /\ UNCHANGED <<tables, disk, idx, base, todo, off, linked, list, received,
                   faults>>

CompleteRefused(r, t, f) ==
    /\ pc[r] = "idle"
    /\ ~(Uploadable(t, f) /\ Counted(f))
    /\ Refuse(r)

\* The catch block: the entity becomes FAILED and is saved.  An open stream
\* is left behind.
MergeFails(r) ==
    /\ ent' = [ent EXCEPT ![r] = WithStatus(@, "failed")]
    /\ todo' = [todo EXCEPT ![r] = {}]
    /\ off' = [off EXCEPT ![r] = {}]
    /\ linked' = linked \ {r}
    /\ Goto(r, "load")

CountUnchecked(f) == Cardinality(present[f]) <= Total[f]
\* The number of chunk files is the number of chunks.
CountMatches(f) == Cardinality(present[f]) = Total[f]

\* readdir, the check of the number of chunk files, and createWriteStream,
\* which truncates the merged file.
MergeOpen(r) ==
    LET f == on[r] IN
    /\ pc[r] = "scan"
    /\ f \in temp /\ CountMatches(f)
    /\ todo' = [todo EXCEPT ![r] = present[f]]
    /\ linked' = linked \cup {r}
    /\ onDisk' = onDisk \cup {f}
    /\ intact' = [intact EXCEPT ![f] = {}]
    /\ Goto(r, "merge")
    /\ UNCHANGED <<tables, opening, temp, present, whole, bg, on, idx, ent,
                   base, off, list, received, faults>>

MergeRefused(r) ==
    /\ pc[r] = "scan"
    /\ ~(on[r] \in temp /\ CountMatches(on[r]))
    /\ MergeFails(r)
    /\ UNCHANGED <<tables, disk, on, idx, base, list, received, faults>>

\* One chunk is read and written.  A chunk file that is not whole shifts what
\* this stream writes from there on; what it writes lands in the file at the
\* path only while that is the file it opened.
MergeChunk(r) ==
    LET f == on[r]
        i == Min(todo[r])
        good == i \in whole[f] /\ off[r] = {}
        wrong == IF good THEN {} ELSE off[r] \cup {i} IN
    /\ pc[r] = "merge"
    /\ todo[r] # {}
    /\ i \in present[f]
    /\ todo' = [todo EXCEPT ![r] = @ \ {i}]
    /\ off' = [off EXCEPT ![r] = wrong]
    /\ intact' = IF r \notin linked THEN intact
                 ELSE [intact EXCEPT ![f] = IF good THEN @ \cup {i}
                                            ELSE @ \ wrong]
    /\ UNCHANGED <<tables, opening, temp, present, whole, onDisk, bg, pc, on,
                   idx, ent, base, linked, list, received, faults>>

\* The chunk file vanished with its directory: readFile throws.
MergeLosesChunk(r) ==
    /\ pc[r] = "merge"
    /\ todo[r] # {}
    /\ Min(todo[r]) \notin present[on[r]]
    /\ MergeFails(r)
    /\ UNCHANGED <<tables, disk, on, idx, base, list, received, faults>>

CleanupForgotten(f) == bg
\* cleanupTempFiles: the rm it starts when the temp directory exists.
StartCleanup(f) == bg \cup ({f} \cap temp)

\* status READY, uploadId null.
Finished(e) == [e EXCEPT !.status = "ready", !.upload = FALSE]

\* The stream is closed, the un-awaited clean-up starts, the entity becomes
\* READY without uploadId.
MergeEnd(r) ==
    LET f == on[r] IN
    /\ pc[r] = "merge"
    /\ todo[r] = {}
    /\ bg' = StartCleanup(f)
    /\ linked' = linked \ {r}
    /\ off' = [off EXCEPT ![r] = {}]
    /\ ent' = [ent EXCEPT ![r] = Finished(@)]
    /\ Goto(r, "load")
    /\ UNCHANGED <<tables, opening, temp, present, whole, onDisk, intact, on,
                   idx, base, todo, list, received, faults>>

\* The un-awaited rm of a temp directory ends.
BgRemove(f) ==
    /\ f \in bg
    /\ bg' = bg \ {f}
    /\ RmTemp(f)
    /\ UNCHANGED <<tables, opening, onDisk, intact, locals, received, faults>>

-----------------------------------------------------------------------------
(* DELETE /files.  The route has no :id, so the id is undefined and TypeORM *)
(* drops the condition: getFile answers with some row of the table.         *)

RemoveStart(r, t, f) ==
    /\ pc[r] = "idle"
    /\ row[f] # NoRow /\ Owner[f] = t
    /\ on' = [on EXCEPT ![r] = f]
    /\ ent' = [ent EXCEPT ![r] = row[f]]
    /\ Goto(r, "unlink")
    /\ UNCHANGED <<tables, disk, idx, base, todo, off, linked, list, received,
                   faults>>

RemoveRefused(r, t, f) ==
    /\ pc[r] = "idle"
    /\ row[f] # NoRow /\ Owner[f] # t
    /\ Refuse(r)

RemoveStored(r) ==
    LET f == on[r] IN
    /\ pc[r] = "unlink"
    /\ onDisk' = onDisk \ {f}
    /\ intact' = [intact EXCEPT ![f] = {}]
    /\ linked' = {c \in linked : on[c] # f}
    /\ Goto(r, "clean")
    /\ UNCHANGED <<tables, opening, temp, present, whole, bg, on, idx, ent,
                   base, todo, off, list, received, faults>>

RemoveTemp(r) ==
    /\ pc[r] = "clean"
    /\ RmTempOf(r)
    /\ Goto(r, "delete")
    /\ UNCHANGED <<tables, opening, onDisk, intact, bg, on, idx, ent, base,
                   todo, off, linked, list, received, faults>>

RemoveRow(r) ==
    /\ pc[r] = "delete"
    /\ row' = [row EXCEPT ![on[r]] = NoRow]
    /\ ent' = [ent EXCEPT ![r] = NoRow]
    /\ Goto(r, "removed")
    /\ UNCHANGED <<created, old, disk, on, idx, base, todo, off, linked, list,
                   received, faults>>

-----------------------------------------------------------------------------
(* The hourly cleanup job.  Nothing keeps two runs apart.                   *)

Expired(f) == row[f] # NoRow /\ row[f].status = "uploading" /\ f \in old

\* A run that finds nothing changes nothing and is left out.
SweepStart(s) ==
    /\ pc[s] = "idle"
    /\ \E f \in Files : Expired(f)
    /\ list' = [list EXCEPT ![s] =
                  [f \in Files |-> IF Expired(f) THEN row[f] ELSE NoRow]]
    /\ Goto(s, "sweep")
    /\ UNCHANGED <<tables, disk, on, idx, ent, base, todo, off, linked,
                   received, faults>>

SweepNext(s, f) ==
    /\ pc[s] = "sweep"
    /\ list[s][f] # NoRow
    /\ on' = [on EXCEPT ![s] = f]
    /\ ent' = [ent EXCEPT ![s] = list[s][f]]
    /\ list' = [list EXCEPT ![s][f] = NoRow]
    /\ Goto(s, "purge")
    /\ UNCHANGED <<tables, disk, idx, base, todo, off, linked, received,
                   faults>>

PurgeKeepsStatus(s) ==
    /\ pc[s] = "purge"
    /\ RmTempOf(s)
    /\ Goto(s, "load")
    /\ UNCHANGED <<tables, opening, onDisk, intact, bg, on, idx, ent, base,
                   todo, off, linked, list, received, faults>>

SweepPurge(s) ==
    /\ pc[s] = "purge"
    /\ RmTempOf(s)
    /\ ent' = [ent EXCEPT ![s] = WithStatus(@, "failed")]
    /\ Goto(s, "load")
    /\ UNCHANGED <<tables, opening, onDisk, intact, bg, on, idx, base, todo,
                   off, linked, list, received, faults>>

SweepEnd(s) ==
    /\ pc[s] = "sweep"
    /\ \A f \in Files : list[s][f] = NoRow
    /\ Goto(s, "idle")
    /\ UNCHANGED <<tables, disk, on, idx, ent, base, todo, off, linked, list,
                   received, faults>>

-----------------------------------------------------------------------------
(* Failures, MaxFaults of them.                                             *)

Fault == faults < MaxFaults /\ faults' = faults + 1

\* writeFile fails half-way (a full disk) and the chunk file stays torn, or the
\* database refuses the increment.
ChunkFault(r) ==
    /\ Fault
    /\ pc[r] \in {"write", "count"}
    /\ Goto(r, "refused")
    /\ UNCHANGED <<tables, disk, on, idx, ent, base, todo, off, linked, list,
                   received>>

\* The read behind the increment fails: the client is told of an error about a
\* chunk that has been counted.
ReplyFault(r) ==
    /\ Fault
    /\ pc[r] = "reply"
    /\ Goto(r, "unanswered")
    /\ UNCHANGED <<tables, disk, on, idx, ent, base, todo, off, linked, list,
                   received>>

\* readdir, mkdir or readFile fails inside the try block.
MergeFault(r) ==
    /\ Fault
    /\ pc[r] \in {"scan", "merge"}
    /\ MergeFails(r)
    /\ UNCHANGED <<tables, disk, on, idx, base, list, received>>

\* The database refuses a save.
SaveFault(p) ==
    /\ Fault
    /\ pc[p] = "save"
    /\ SaveThrows(p)
    /\ UNCHANGED <<tables, disk, idx, todo, off, linked, list, received>>

Ended == {"idle", "refused", "acked", "unanswered", "ready", "failed",
          "removed", "cut"}

\* What a client hears of a request the crash cuts off: nothing.
CutOff(p) == IF pc[p] \in Ended THEN pc[p]
             ELSE IF pc[p] = "reply" THEN "unanswered" ELSE "cut"

\* The process dies and is started again: requests in flight are cut off,
\* the un-awaited removals are forgotten, rows and files stay.
Crash ==
    /\ Fault
    /\ opening' = {} /\ bg' = {} /\ linked' = {}
    /\ pc' = [p \in Procs |-> IF p \in Sweepers THEN "idle" ELSE CutOff(p)]
    /\ on' = [p \in Procs |-> IF p \in Sweepers THEN NoFile ELSE on[p]]
    /\ ent' = [p \in Procs |-> NoRow]
    /\ base' = [p \in Savers |-> NoRow]
    /\ todo' = [r \in Completers |-> {}]
    /\ off' = [r \in Completers |-> {}]
    /\ list' = [s \in Sweepers |-> [f \in Files |-> NoRow]]
    /\ UNCHANGED <<tables, temp, present, whole, onDisk, intact, idx, received>>

-----------------------------------------------------------------------------
\* What a request does once the server has taken it.
ChunkStep(r) == \/ ChunkOpen(r) \/ ChunkNoDir(r) \/ ChunkWrite(r)
                \/ ChunkCount(r) \/ ChunkReply(r)
MergeStep(r) == \/ MergeOpen(r) \/ MergeRefused(r)
                \/ MergeChunk(r) \/ MergeLosesChunk(r) \/ MergeEnd(r)
RemoveStep(r) == RemoveStored(r) \/ RemoveTemp(r) \/ RemoveRow(r)
SweepStep(s) == \/ SweepStart(s) \/ SweepPurge(s) \/ SweepEnd(s)
                \/ \E f \in Files : SweepNext(s, f)

Next ==
    \/ \E f \in Files : InitUpload(f) \/ MakeTemp(f) \/ Age(f) \/ BgRemove(f)
    \/ \E r \in Chunkers :
         \/ \E t \in Tenants, f \in Files, i \in IndexInputs :
              ChunkStart(r, t, f, i) \/ ChunkRefused(r, t, f, i)
         \/ ChunkStep(r)
         \/ ChunkFault(r) \/ ReplyFault(r)
    \/ \E r \in Completers :
         \/ \E t \in Tenants, f \in Files :
              CompleteStart(r, t, f) \/ CompleteRefused(r, t, f)
         \/ MergeStep(r)
         \/ MergeFault(r)
    \/ \E r \in Removers :
         \/ \E t \in Tenants, f \in Files :
              RemoveStart(r, t, f) \/ RemoveRefused(r, t, f)
         \/ RemoveStep(r)
    \/ \E s \in Sweepers : SweepStep(s)
    \/ \E p \in Savers : SaveStep(p) \/ SaveFault(p)
    \/ Crash

Spec == Init /\ [][Next]_vars

\* The cron job runs every hour, and the calls it makes, a save() and an
\* un-awaited removal return.  Nothing else has to happen: clients may stop at
\* any point, a request in flight may hang, and nothing has to fail.
Fairness ==
    /\ \A f \in Files : WF_vars(BgRemove(f))
    /\ \A s \in Sweepers : WF_vars(SweepStep(s))
    /\ \A p \in Savers : WF_vars(SaveStep(p))

FairSpec == Spec /\ Fairness

-----------------------------------------------------------------------------
(* Properties *)

RowOrNone == Row \cup {NoRow}

Labels == Ended \cup {"open", "write", "count", "reply", "scan", "merge", "load",
                      "save", "unlink", "clean", "delete", "sweep", "purge"}

TablesTyped ==
    /\ row \in [Files -> RowOrNone]
    /\ created \subseteq Files
    /\ old \subseteq created

DiskTyped ==
    /\ opening \subseteq created
    /\ temp \subseteq Files /\ onDisk \subseteq Files /\ bg \subseteq Files
    /\ present \in [Files -> SUBSET Int]
    /\ whole \in [Files -> SUBSET Int]
    /\ intact \in [Files -> SUBSET Int]
    /\ received \in [Files -> SUBSET Int]

LocalsTyped ==
    /\ pc \in [Procs -> Labels]
    /\ on \in [Procs -> Files \cup {NoFile}]
    /\ idx \in [Chunkers -> Int]
    /\ ent \in [Procs -> RowOrNone]
    /\ base \in [Savers -> RowOrNone]
    /\ todo \in [Completers -> SUBSET Int]
    /\ off \in [Completers -> SUBSET Int]
    /\ linked \subseteq Completers
    /\ list \in [Sweepers -> [Files -> RowOrNone]]

\* The type of every variable.
TypeOK == TablesTyped /\ DiskTyped /\ LocalsTyped /\ faults \in Nat

IsStatus(f, s) == row[f] # NoRow /\ row[f].status = s

\* A file is READY only when uploadChunk has been called for every one of its
\* indexes: completeUpload compares two counts (the column and the number of
\* chunk files) and never the indexes themselves, uploadChunk is what keeps
\* the indexes in range, and a stale save may bring the row back.
ReadyHasEveryChunk ==
    \A f \in Files : IsStatus(f, "ready") => Indexes(f) \subseteq received[f]

\* The requests for f whose chunk has been counted: the client is about to be
\* told so, has been, or never will be.
TalliedLabels == {"reply", "acked", "unanswered"}
Tallied(f) == {r \in Chunkers : on[r] = f /\ pc[r] \in TalliedLabels}

\* While an upload is open its uploadedChunks column is exactly the number of
\* chunk requests that got as far as the increment, those whose answer was
\* lost afterwards included: the increment is atomic, and no save() of an
\* entity read earlier ever puts an old count back into a row that still takes
\* chunks.
CounterCountsChunks ==
    \A f \in Files : IsStatus(f, "uploading") =>
        row[f].count = Cardinality(Tallied(f))

\* The stored file of a READY upload has every piece in its place
\* (docs: chunks are merged correctly, in order).
ReadyFileIsWhole ==
    \A f \in Files : IsStatus(f, "ready") =>
        f \in onDisk /\ Indexes(f) \subseteq intact[f]

\* Once an upload is finished, failed or removed it never takes chunks again,
\* however stale the entity is that a late completeUpload or a late run of
\* the cleanup job saves over it or inserts anew.
Closed(f) == f \in created /\ ~IsStatus(f, "uploading")
NeverReopened == [][\A f \in Files : Closed(f) => Closed(f)']_vars

-----------------------------------------------------------------------------
(* The inductive invariant behind ReadyHasEveryChunk and NeverReopened.     *)

AllReceived(f) == received[f] = Indexes(f)

WorkingLabels == {"open", "write", "count", "reply", "scan", "merge", "load",
                  "save", "unlink", "clean", "delete", "purge"}
EntityLabels == WorkingLabels \ {"open", "write", "count", "reply"}

\* A process at work has a target that exists or existed, and the entity it
\* read; only such a target is on a cleanup list.
LocalsOK ==
    /\ \A f \in Files : row[f] # NoRow => f \in created
    /\ \A p \in Procs : pc[p] \in WorkingLabels => on[p] \in created
    /\ \A p \in Procs : pc[p] \in EntityLabels => ent[p] \in Row
    /\ \A s \in Sweepers, f \in Files : list[s][f] # NoRow => f \in created

\* Chunk files have been received and are in range.
ChunksInRange ==
    /\ \A f \in Files : present[f] \subseteq received[f]
    /\ \A f \in Files : received[f] \subseteq Indexes(f)
    /\ \A r \in Chunkers : pc[r] \in {"open", "write"} =>
                              idx[r] \in Indexes(on[r])

\* An entity is saved as READY only when every chunk has been received, and
\* never as uploading.
SavesJustified ==
    /\ \A r \in Completers : pc[r] = "merge" => AllReceived(on[r])
    /\ \A p \in Savers : pc[p] \in {"load", "save"} =>
          \/ ent[p].status = "failed"
          \/ ent[p].status = "ready" /\ AllReceived(on[p])
    /\ \A f \in Files : IsStatus(f, "ready") => AllReceived(f)

IInv == TypeOK /\ LocalsOK /\ ChunksInRange /\ SavesJustified

-----------------------------------------------------------------------------
(* The inductive invariants behind CounterCountsChunks and                  *)
(* ReadyFileIsWhole.                                                        *)

\* With IInv: a save() that loaded a closed row finds no open one, so it puts
\* no old count into a row that takes chunks.
TalliesInv ==
    /\ \A r \in Chunkers : pc[r] \in TalliedLabels => on[r] \in created
    /\ \A p \in Savers : pc[p] = "save" /\ base[p] # NoRow =>
          (IsStatus(on[p], "uploading") => base[p].status = "uploading")
    /\ \A f \in Files : IsFiniteSet(Tallied(f))
    /\ CounterCountsChunks

Merging == {"scan", "merge", "load", "save"}

\* No other request has been taken for the chunk of r.
Lone(r) == \A q \in Chunkers \ {r} :
              pc[q] # "idle" /\ on[q] = on[r] => idx[q] # idx[r]

\* Every chunk of f has been answered with success.
AllAcked(f) == \A i \in Indexes(f) : \E r \in Chunkers :
                  on[r] = f /\ pc[r] = "acked" /\ idx[r] = i

\* What an orderly client does not do: send a chunk again before the server
\* has failed to answer for it; complete an upload with a chunk sent again
\* after a lost answer, unless every chunk has been answered with success in
\* the end; have two completions at work on one upload; remove an upload.
Orderly ==
    /\ \A r, q \in Chunkers :
          /\ r # q /\ on[r] = on[q] /\ idx[r] = idx[q]
          /\ pc[r] \in {"open", "write", "count", "reply", "acked"}
          => pc[q] \notin {"open", "write", "count", "reply", "acked"}
    /\ \A c \in Completers : pc[c] \in {"scan", "merge"} =>
          \/ AllAcked(on[c])
          \/ \A r \in Chunkers :
                on[r] = on[c] /\ pc[r] = "unanswered" => Lone(r)
    /\ \A c, d \in Completers :
          c # d /\ on[c] = on[d] /\ pc[c] \in Merging => pc[d] \notin Merging
    /\ \A r \in Removers : on[r] = NoFile

Covered(f) == \A i \in Indexes(f) : \E r \in Tallied(f) : idx[r] = i

StoredWhole(f) == f \in onDisk /\ Indexes(f) \subseteq intact[f]

\* A chunk file whose request was written is whole, and stays so after a lost
\* answer while it is not sent again.
Written(r) == \/ pc[r] \in {"count", "reply", "acked"}
              \/ pc[r] = "unanswered" /\ Lone(r)
WrittenIsWhole ==
    \A r \in Chunkers : Written(r) =>
        (idx[r] \in present[on[r]] => idx[r] \in whole[on[r]])

\* Counted requests are for chunks in range.
TalliesInRange ==
    \A r \in Chunkers : pc[r] \in TalliedLabels \cup {"count"} =>
        idx[r] \in Indexes(on[r])

\* A completion works on an upload whose chunks are all counted, and nobody
\* else finishes it.
CompletionsCovered ==
    /\ \A c \in Completers : pc[c] \in {"scan", "merge"} =>
          Covered(on[c]) /\ ~IsStatus(on[c], "ready")
    /\ \A c \in Completers : off[c] = {}

\* A merge has copied what is no longer to do.
MergesSoFar ==
    \A c \in Completers : pc[c] = "merge" =>
        /\ c \in linked /\ on[c] \in onDisk
        /\ todo[c] \subseteq Indexes(on[c])
        /\ Indexes(on[c]) \ todo[c] \subseteq intact[on[c]]

\* What is saved as READY is whole.
SavesWhole ==
    \A p \in Savers : pc[p] \in {"load", "save"} =>
        \/ ent[p].status = "failed"
        \/ p \in Completers /\ StoredWhole(on[p])

\* Inductive with IInv and TalliesInv while clients are orderly.
WholeInv ==
    /\ TalliesInRange /\ WrittenIsWhole /\ CompletionsCovered /\ MergesSoFar
    /\ SavesWhole /\ ReadyFileIsWhole

-----------------------------------------------------------------------------
(* The abstract lifecycle, and what the documentation promises.             *)

\* The lifecycle a reader of the table sees.
lifecycle == [f \in Files |-> IF f \notin created THEN "new"
                             ELSE IF row[f] = NoRow THEN "removed"
                             ELSE row[f].status]

Lifecycle == INSTANCE UploadLifecycle WITH state <- lifecycle

\* Rows, directories, stale entities and overlapping requests together never
\* show more than the abstract lifecycle allows.
ImplementsLifecycle == Lifecycle!Spec

\* An upload left open for a day is closed by the cleanup job, whatever
\* crashes, failed saves and overlapping runs come in between.
ExpiredUploadsEnd ==
    \A f \in Files : (Expired(f) ~> ~Expired(f))

\* The temp directory of a READY upload goes away unless something fails: the
\* clean-up is not awaited but is started before the row becomes READY, and a
\* crash loses it.
ReadyTempCleaned ==
    \A f \in Files : (IsStatus(f, "ready") ~> (f \notin temp \/ faults > 0))
=============================================================================

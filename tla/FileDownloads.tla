---------------------------- MODULE FileDownloads ----------------------------
(***************************************************************************)
(* Reading one stored file: FilesService.download and downloadRange as      *)
(* other modules may call them (the module exports the service), with the   *)
(* range arithmetic and the piping of FilesController; signed URLs; and the *)
(* route GET /files/:id, which stands behind JwtAuthGuard.                  *)
(*                                                                          *)
(* Completions and removals are those of FileUploads, cut down to what a    *)
(* reader can see: the status, the file and its length in bytes.            *)
(***************************************************************************)
EXTENDS Sessions

CONSTANTS
    File,        \* the id of the file
    Undefined,   \* the id of a route without :id
    Downloads,   \* calls that download the file
    Completers,  \* POST /files/:id/complete
    Removers,    \* DELETE /files
    Gets,        \* GET /files/:id
    Sizes,       \* sizes a client may declare, and lengths of what it sends
    Headers,     \* Range headers: [start, end], where end may be Open
    Open, Malformed, Whole,  \* no end, no match, no Range header
    NoUrl,
    UrlTTL,      \* seconds a signed URL is good for
    MaxUrls,     \* bound on signed URLs
    MaxFailures  \* bound on crashes and failures of the file system

NoPlan == [first |-> 0, last |-> -1, length |-> 0, sent |-> 0]

ASSUME DownloadsAssumption ==
    /\ File # Undefined
    /\ Sizes \subseteq Nat \ {0}
    /\ Headers \subseteq [start : Nat, end : Nat \cup {Open}]
                          \cup {Malformed, Whole}
    /\ {Malformed, Whole} \cap [start : Nat, end : Nat \cup {Open}] = {}
    /\ Malformed # Whole
    /\ Open \notin Nat
    /\ Completers \cap Removers = {}
    /\ UrlTTL \in Nat \ {0} /\ MaxUrls \in Nat /\ MaxFailures \in Nat

VARIABLES
    status,  \* of the row, or "none" when there is no row
    size,    \* the size declared at the start of the upload
    bytes,   \* length of the stored file
    linked,  \* the stored file has its name
    uploaded, \* length of the chunks the client has sent
    chunk,   \* the chunks on disk: "whole", or one is "writing" or "half" written
    work,    \* [Completers \cup Removers -> where the request is]
    cleaning, \* completions whose cleanup of the chunks runs, un-awaited
    disturbed, \* history: a merge has met a chunk that was not whole, or the
               \* file of another completion
    callAt,  \* [Downloads -> where the call is]
    header,  \* [Downloads -> its Range header]
    plan,    \* [Downloads -> bytes asked for, Content-Length, bytes sent]
    reply,     \* [Gets -> the answer]
    urls,    \* signed URLs: [file, expires, since]; since is history
    raced,   \* history: downloads under way when the file was unlinked
    died,    \* history: an error nobody handles has ended the process
    failures

fileVars == <<status, size, uploaded, chunk, bytes, linked, work, cleaning,
              disturbed>>
readVars == <<callAt, header, plan, raced, died>>
httpVars == <<reply, urls>>
downloadVars == <<fileVars, readVars, httpVars, failures, sessionVars>>

DownloadsInit ==
    /\ SessionsInit
    /\ status = "UPLOADING"
    /\ size \in Sizes /\ uploaded \in Sizes
    /\ chunk = "whole" /\ bytes = 0 /\ linked = FALSE
    /\ work = [w \in Completers \cup Removers |-> "idle"]
    /\ cleaning = {} /\ disturbed = FALSE
    /\ callAt = [g \in Downloads |-> "idle"]
    /\ header = [g \in Downloads |-> Whole]
    /\ plan = [g \in Downloads |-> NoPlan]
    /\ reply = [q \in Gets |-> "none"]
    /\ urls = {} /\ raced = {} /\ died = FALSE /\ failures = 0

WorkAt(w, from, to) == work[w] = from /\ work' = [work EXCEPT ![w] = to]
GoOn(g, from, to) == callAt[g] = from /\ callAt' = [callAt EXCEPT ![g] = to]

-----------------------------------------------------------------------------
(* What FileUploads does to the file                                        *)

\* uploadChunk: a chunk is sent again (or at last, when others sent twice have
\* filled the counter), and writeFile truncates it first.
ChunkStart ==
    /\ status = "UPLOADING" /\ chunk # "writing"
    /\ chunk' = "writing"
    /\ disturbed' = (disturbed \/ \E k \in Completers : work[k] = "merge")
    /\ UNCHANGED <<status, size, uploaded, bytes, linked, work, cleaning, readVars,
                   httpVars, failures, sessionVars>>

ChunkEnd ==
    /\ chunk = "writing"
    /\ chunk' = "whole"
    /\ UNCHANGED <<status, size, uploaded, bytes, linked, work, cleaning, disturbed,
                   readVars, httpVars, failures, sessionVars>>

\* completeUpload: the status is checked ...
Complete(k) ==
    /\ status = "UPLOADING"
    /\ WorkAt(k, "idle", "checked")
    /\ UNCHANGED <<status, size, uploaded, chunk, bytes, linked, cleaning,
                   disturbed, readVars, httpVars, failures, sessionVars>>

\* Completions that have opened the file.
Begun == {"merge", "save", "done"}

\* ... and createWriteStream truncates the file or creates it.
MergeOpen(k) ==
    /\ WorkAt(k, "checked", "merge")
    /\ bytes' = 0 /\ linked' = TRUE
    /\ disturbed' = \/ disturbed
                    \/ chunk # "whole"
                    \/ \E c \in Completers : work[c] \in Begun
    /\ UNCHANGED <<status, size, uploaded, chunk, cleaning, readVars, httpVars,
                   failures, sessionVars>>

\* Every chunk is written, as far as it is on disk; what they add up to is
\* compared with no size.  The chunks are removed, but nobody waits for that.
MergeEnd(k) ==
    /\ WorkAt(k, "merge", "save")
    /\ \E n \in 0 .. uploaded : (disturbed \/ n = uploaded) /\ bytes' = n
    /\ cleaning' = cleaning \cup {k}
    /\ UNCHANGED <<status, size, uploaded, chunk, linked, disturbed, readVars,
                   httpVars, failures, sessionVars>>

CleanupEnd(k) ==
    /\ k \in cleaning
    /\ cleaning' = cleaning \ {k}
    /\ UNCHANGED <<status, size, uploaded, chunk, bytes, linked, work, disturbed,
                   readVars, httpVars, failures, sessionVars>>

\* The row becomes READY; save inserts it again when it finds none.
SaveReady(k) ==
    /\ WorkAt(k, "save", "done")
    /\ status' \in IF status = "none" THEN {"none", "READY"} ELSE {"READY"}
    /\ UNCHANGED <<size, uploaded, chunk, bytes, linked, cleaning, disturbed,
                   readVars, httpVars, failures, sessionVars>>

Reading == {"check", "access", "open"}

\* remove: the stored file first ...
Unlink(x) ==
    /\ status # "none"
    /\ WorkAt(x, "idle", "delete")
    /\ linked' = FALSE
    /\ raced' = raced \cup {g \in Downloads : callAt[g] \in Reading}
    /\ UNCHANGED <<status, size, uploaded, chunk, bytes, cleaning, disturbed, callAt,
                   header, plan, died, httpVars, failures, sessionVars>>

\* ... and the row last.
DeleteRow(x) ==
    /\ WorkAt(x, "delete", "done")
    /\ status' = "none"
    /\ UNCHANGED <<size, uploaded, chunk, bytes, linked, cleaning, disturbed,
                   readVars, httpVars, failures, sessionVars>>

-----------------------------------------------------------------------------
(* FilesController.download and handleRangeRequest over FilesService        *)

EndAtSize(h, total) == IF h.end = Open THEN total ELSE h.end
\* An end left out is the last byte.
EndOf(h, total) == IF h.end = Open THEN total - 1 ELSE h.end

OrderUnchecked(start, end, total) == start >= total \/ end >= total
OutOfRange(start, end, total) == start >= total \/ end >= total \/ start > end

\* 400: no match, or an invalid range.
BadHeader(h) == CASE h = Whole     -> FALSE
                  [] h = Malformed -> TRUE
                  [] OTHER -> OutOfRange(h.start, EndOf(h, size), size)

\* The bytes to send and the Content-Length announced for them.
PlanFor(h, total) ==
    IF h = Whole
    THEN [NoPlan EXCEPT !.last = -1, !.length = total]
    ELSE [NoPlan EXCEPT !.first = h.start, !.last = EndOf(h, total),
                        !.length = EndOf(h, total) - h.start + 1]

\* getFile, and the Range header against the size of the row.
Download(g, h) ==
    /\ status # "none"
    /\ ~BadHeader(h)
    /\ GoOn(g, "idle", "check")
    /\ header' = [header EXCEPT ![g] = h]
    /\ plan' = [plan EXCEPT ![g] = PlanFor(h, size)]
    /\ UNCHANGED <<fileVars, raced, died, httpVars, failures, sessionVars>>

DownloadRefused(g, h) ==
    /\ status = "none" \/ BadHeader(h)
    /\ GoOn(g, "idle", IF status = "none" THEN "404" ELSE "400")
    /\ header' = [header EXCEPT ![g] = h]
    /\ UNCHANGED <<fileVars, plan, raced, died, httpVars, failures, sessionVars>>

AnyStatus == status # "none"
\* Only a READY file is downloaded.
Servable == status = "READY"

\* getFile again, in the service.
Check(g) ==
    /\ GoOn(g, "check", CASE Servable   -> "access"
                          [] status = "none" -> "404"
                          [] OTHER       -> "400")
    /\ UNCHANGED <<fileVars, header, plan, raced, died, httpVars, failures,
                   sessionVars>>

AccessUnchecked == TRUE
\* fs.access
Readable == linked

Access(g) ==
    /\ GoOn(g, "access", IF Readable THEN "open" ELSE "500")
    /\ UNCHANGED <<fileVars, header, plan, raced, died, httpVars, failures,
                   sessionVars>>

\* What the stream finds of the bytes asked for; without a range, all.
Found(p) ==
    Cardinality({i \in 0 .. (bytes - 1) :
                   p.last = -1 \/ (p.first <= i /\ i <= p.last)})

\* createReadStream opens the file and is piped to the response; an open file
\* outlives its name.
Stream(g) ==
    /\ linked
    /\ GoOn(g, "open", "sent")
    /\ plan' = [plan EXCEPT ![g].sent = Found(plan[g])]
    /\ UNCHANGED <<fileVars, header, raced, died, httpVars, failures,
                   sessionVars>>

\* The process ends with every request it has; a chunk may stay half-written.
CutOff ==
    /\ callAt' = [g \in Downloads |->
                    IF callAt[g] \in Reading THEN "cut" ELSE callAt[g]]
    /\ work' = [w \in DOMAIN work |->
                  IF work[w] \in {"idle", "done"} THEN work[w] ELSE "cut"]
    /\ chunk' = IF chunk = "writing" THEN "half" ELSE chunk
    /\ cleaning' = {}
    /\ UNCHANGED <<status, size, uploaded, bytes, linked, disturbed, header, plan,
                   raced, httpVars, sessionVars>>

Fails == failures < MaxFailures /\ failures' = failures + 1

\* The file is not there any more, or cannot be opened or read: nobody listens
\* to the stream's `error'.
StreamError(g) ==
    /\ callAt[g] = "open"
    /\ (~linked /\ UNCHANGED failures) \/ Fails
    /\ died' = TRUE
    /\ CutOff

\* The cleanup fails, or finds its directory not empty because a chunk is being
\* written: nobody awaits its promise.
CleanupError(k) ==
    /\ k \in cleaning
    /\ (chunk = "writing" /\ UNCHANGED failures) \/ Fails
    /\ died' = TRUE
    /\ CutOff

Restart ==
    /\ Fails
    /\ CutOff
    /\ UNCHANGED died

-----------------------------------------------------------------------------
(* Signed URLs and the route GET /files/:id                                 *)

\* FilesService.generateSignedUrl; POST /files calls it with the id its route
\* does not have, once getFile has found some row.
SignUrl(id) ==
    /\ status # "none"
    /\ Cardinality(urls) < MaxUrls
    /\ urls' = urls \cup {[file |-> id, expires |-> now + UrlTTL * Second,
                           since |-> now]}
    /\ UNCHANGED <<fileVars, readVars, reply, failures, sessionVars>>

TimeOnly(url) == now <= url.expires
\* verifySignature: not expired, and the HMAC of this id and this expiry.
SignatureValid(url) == ~(now > url.expires) /\ url.file = File

\* No guard of the route sets req.tenantId: getFile('', id) refuses the holder
\* of a valid signature, and nobody else is taken for authenticated.
Get(q, u, url) ==
    LET answer == IF ~Admits(u) THEN "401"
                  ELSE IF url = NoUrl \/ ~SignatureValid(url) THEN "400"
                  ELSE IF status = "none" THEN "404" ELSE "403"
    IN /\ reply[q] = "none"
       /\ reply' = [reply EXCEPT ![q] = answer]
       /\ UNCHANGED <<fileVars, readVars, urls, failures, sessionVars>>

\* Chunks, completions and removals ...
FileNext ==
    \/ ChunkStart \/ ChunkEnd
    \/ \E k \in Completers :
         \/ Complete(k) \/ MergeOpen(k) \/ MergeEnd(k)
         \/ CleanupEnd(k) \/ SaveReady(k)
    \/ \E x \in Removers : Unlink(x) \/ DeleteRow(x)

\* ... calls of the service ...
CallNext ==
    \/ \E g \in Downloads :
         \/ \E h \in Headers : Download(g, h) \/ DownloadRefused(g, h)
         \/ Check(g) \/ Access(g) \/ Stream(g) \/ StreamError(g)
    \/ \E k \in Completers : CleanupError(k)
    \/ Restart

\* ... and what comes by HTTP, with tokens and signatures.
HttpNext ==
    \/ \E id \in {File, Undefined} : SignUrl(id)
    \/ \E q \in Gets, u \in Users, url \in urls \cup {NoUrl} : Get(q, u, url)
    \/ SessionsNext /\ UNCHANGED <<fileVars, readVars, httpVars, failures>>

DownloadsNext == FileNext \/ CallNext \/ HttpNext

DownloadsSpec == DownloadsInit /\ [][DownloadsNext]_downloadVars

-----------------------------------------------------------------------------
(* Properties *)

Plan == [first : Int, last : Int, length : Nat, sent : Nat]

\* The type of every variable.
DownloadsTyped ==
    /\ SessionsTyped
    /\ status \in {"UPLOADING", "READY", "none"}
    /\ {size, uploaded} \subseteq Sizes
    /\ chunk \in {"whole", "writing", "half"}
    /\ bytes \in 0 .. uploaded /\ linked \in BOOLEAN
    /\ work \in [Completers \cup Removers ->
                   Begun \cup {"idle", "checked", "delete", "cut"}]
    /\ cleaning \subseteq Completers /\ disturbed \in BOOLEAN
    /\ callAt \in [Downloads -> Reading \cup {"idle", "sent", "cut", "400", "404",
                                           "500"}]
    /\ header \in [Downloads -> Headers \cup {Whole}]
    /\ plan \in [Downloads -> Plan]
    /\ reply \in [Gets -> {"none", "400", "401", "403", "404", "served"}]
    /\ urls \subseteq [file : {File, Undefined}, expires : Nat, since : Nat]
    /\ raced \subseteq Downloads /\ died \in BOOLEAN
    /\ failures \in 0 .. MaxFailures

\* Positions of the file a Range header speaks of, those beyond its end too.
Asked(h) ==
    {i \in 0 .. size + 1 : h.start <= i /\ IF h.end = Open THEN i < size
                                           ELSE i <= h.end}

\* A range is served exactly when it names bytes of the file and no others,
\* and Content-Length counts them (docs: downloads support Range).
RangesFit ==
    \A g \in Downloads :
        LET h == header[g]
            fits == CASE h = Whole     -> TRUE
                      [] h = Malformed -> FALSE
                      [] OTHER -> /\ Asked(h) # {}
                                  /\ Asked(h) \subseteq 0 .. (size - 1)
        IN  /\ plan[g] # NoPlan =>
                 fits /\ plan[g].length =
                           IF h = Whole THEN size ELSE Cardinality(Asked(h))
            /\ callAt[g] = "400" /\ plan[g] = NoPlan => ~fits

\* When the client has declared the size of what it sends, and no merge met a
\* half-written chunk or another completion, a download that ends carries as
\* many bytes as it announced, whatever is sent again before or after the merge,
\* completed again after a crash, and removed meanwhile.
BodiesAreWhole ==
    \A g \in Downloads :
        callAt[g] = "sent" /\ size = uploaded /\ ~disturbed
            => plan[g].sent = plan[g].length

\* When the file system fails nobody, only two races end the process: a removal
\* that overtakes a download between its check of the file and the opening of
\* it, and a chunk written into the directory that a completion cleans up.  A
\* file that was gone before the check does not.
OnlyRacesKill ==
    [][died' # died /\ failures' = failures =>
         \/ \E g \in raced : callAt[g] = "open"
         \/ (chunk = "writing" /\ cleaning # {})]_downloadVars

\* The route takes a signature for valid only for the file it was made for,
\* and at most UrlTTL seconds after it was made (docs: signed URLs expire).
SignaturesExpire ==
    [][\A q \in Gets :
         reply[q] = "none" /\ reply'[q] \in {"403", "404"}
           => \E url \in urls : url.file = File
                                /\ now - url.since <= UrlTTL * Second]_downloadVars

\* Whoever is logged in and holds a valid signature for a READY file is not
\* refused (docs: the route takes a tenant's request or a signature).
SignaturesDownload ==
    [][\A q \in Gets :
         reply[q] = "none" /\ reply'[q] = "403" => status # "READY"]_downloadVars

-----------------------------------------------------------------------------
(* The inductive invariants, from which the properties above follow.        *)

\* A call that was let in, and no other one, has the plan for its header and
\* the size of the file.
PlansServe ==
    \A g \in Downloads :
        /\ callAt[g] \in Reading \cup {"sent"} => plan[g] # NoPlan
        /\ callAt[g] = "idle" => plan[g] = NoPlan
        /\ callAt[g] = "400" /\ plan[g] = NoPlan => BadHeader(header[g])
        /\ plan[g] # NoPlan =>
             /\ ~BadHeader(header[g])
             /\ plan[g] = [PlanFor(header[g], size) EXCEPT !.sent = plan[g].sent]

\* A call about to open the file finds it, or a removal has overtaken it.
OpenOrRaced ==
    \A g \in Downloads : callAt[g] = "open" => linked \/ g \in raced

\* A signed URL is good for UrlTTL.
UrlsExpire == \A url \in urls : url.expires = url.since + UrlTTL * Second

\* What a call has read and planned, the file it opens and the signatures stay
\* right through completions, removals and failures.
DownloadsInv ==
    /\ DownloadsTyped
    /\ SessionsInv
    /\ PlansServe
    /\ OpenOrRaced
    /\ UrlsExpire

\* As long as no merge is disturbed, one completion at a time has opened the
\* file; when it is about to save the row, and ever after the row was seen READY,
\* the stored file has all that was uploaded.
ReadyIsWhole ==
    ~disturbed =>
        /\ \A k, c \in Completers : work[k] \in Begun /\ work[c] \in Begun => k = c
        /\ \A k \in Completers : work[k] = "save" => bytes = uploaded
        /\ (status = "READY" \/ \E g \in Downloads : callAt[g] \in {"access", "open"})
             => bytes = uploaded /\ \E k \in Completers : work[k] = "done"
=============================================================================

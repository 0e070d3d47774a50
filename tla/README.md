# My Notion: a verification project

TLA+ models of the NestJS server under `src/`: multi-tenant accounts, documents
with comments and cached lists, tasks with notifications sent over a queue, and
chunked file uploads. TLC checks every model on small instances; TLAPS proves
the safety properties of all of them for all values of the constants.

    tlc -config FileUploadsSafety.cfg MCFileUploads     # one run
    tlapm FileUploadsProofs.tla                         # one module's proofs

Paths below are relative to the repository root (`src/modules/...` is the
server's code, `docs/...` its documentation).

## 1. The system

One Node process serves HTTP and runs the BullMQ worker and the cron job. State
lives in PostgreSQL (TypeORM), in Redis (list cache, rate-limit counters, the
queue) and in a directory for files. Between two `await`s the process is not
interrupted; at every `await` any other request, job or timer may go on. That
is where nearly all of the interesting behaviour comes from: an entity is read,
the request awaits, and the entity is used or saved as if nothing had changed.

| component | state | operations | talks to |
|---|---|---|---|
| files (`files.service.ts`, `local-storage.adapter.ts`, `cleanup.job.ts`, `file.controller.ts`) | row per file (`status`, `uploadId`, `uploadedChunks`), temp directory with chunk files, merged file | initUpload, uploadChunk, completeUpload, remove, hourly cleanup; download, downloadRange, signed URLs, list | file system, cron |
| tasks (`tasks.service.ts`) | row per task with status and assignees | create, update, remove | queue |
| queue and worker (`queue.service.ts`, `unified.processor.ts`, `task-queue.handler.ts`) | jobs in Redis with attempts and backoff | addJob, process, retry, stall | notifications |
| notifications (`notifications.service.ts`) | row per notification | create, markAsRead, list | |
| documents (`documents.service.ts`) | row per document with `version`; list cache and list version in Redis | create, update, remove, list | Redis |
| comments (`comments.service.ts`) | row per comment; counter per user and document in Redis | create (rate limited), remove, list | Redis, documents (list version) |
| auth (`auth.service.ts`) | users, refresh tokens | register, login, refresh | tenants, memberships |
| tenants (`tenants.service.ts`, `tenants.controller.ts`), guards (`tenant.guard.ts`, `roles.guard.ts`) | tenants, memberships with roles | createForUser, upsertMember, listMembers | |
| infrastructure, health, diagnostics, filters, interceptors, middleware, migration script | none of their own | | |

What is hard in them, and what makes each correct:

* **files**: parallel and repeated chunks, two completions, a removal and a
  cleanup run all write one row and one directory, and `save()` of an old
  entity may come last. A READY file has every chunk; a closed upload takes no
  more chunks; the counter counts chunks, answered or not; an abandoned upload ends;
  temp directories go away.
* **tasks and notifications**: retries and stalls deliver a job again while
  inserts of its earlier attempt are still under way; an assignee array may name a
  user twice; concurrent updates compare with assignees read earlier. Assignees are told; duplicates are bounded; jobs
  end.
* **documents**: the optimistic lock is compared in memory; a list queried
  before a write is cached after it. No update is lost; no list misses an
  answered write.
* **downloads**: the row is read, the file is checked and the file is opened, with
  awaits in between, while completions and removals go on. Ranges name the bytes
  asked for; the announced length is sent unless a merge met a half-written chunk;
  only two races, or a failing file system, end the process.
* **lists**: pages are cut by offset and counted in a second statement while rows
  come, move forward and back, and go. A walk over all pages misses few rows.
* **comments**: INCR and PEXPIRE are two calls. No window lets more through
  than the limit; the counter goes back to zero.
* **accounts**: register looks up the email, hashes, inserts; upsertMember looks
  up, inserts. Emails and memberships stay unique; an account has its tenant;
  the right password logs in; only those who manage a tenant change its members.
* **sessions and signatures**: JWTs count seconds, the database and signatures
  count milliseconds, and a token may expire while a request awaits. A session
  ends; a good token is not refused; a signature expires.

`PROJECT.json` lists every component with what is left out of it, and every
hazard with the line where it bites.

## 2. Modules

| module | models |
|---|---|
| `UploadLifecycle` | abstract: what a reader of the `files` table is promised |
| `FileUploads` | `FilesService`, `LocalStorageAdapter`, `CleanupJob`; implements `UploadLifecycle` |
| `NotificationJobs` | the queue, the worker, the handler and the notifications table |
| `TaskNotifications` | `TasksService`; extends `NotificationJobs` with the requests that send the jobs; implements `NotificationDelivery` |
| `NotificationDelivery` | abstract: what the queue promises to the sender of a job |
| `Documents` | `DocumentsService` with its cache; the writes of `CommentsService` that bump the list version |
| `CommentRateLimit` | `CommentsService.enforceRateLimit` |
| `Accounts` | `AuthService.register/login`, `TenantsService`, the guards of `upsertMember` |
| `Sessions` | `AuthService.issueTokens/refresh`, `JwtAuthGuard`, over a clock |
| `FileDownloads` | `FilesService.download/downloadRange` with the range arithmetic and the pipe of the controller, signed URLs, `GET /files/:id`; extends `Sessions` |
| `Lists` | the paged lists of files, tasks, notifications and comments; `markAsRead` |
| `MCServices` | `CommentRateLimit`, `FileDownloads` and `Lists` side by side for TLC |
| `MC...` | the small sets and symmetries of the runs |
| `...Proofs` | the theorems about the module of that name (section 4); those about `NotificationJobs` are in `TaskNotificationsProofs` |

In every module a request is a member of a constant set and is served once; a
variable (`pc` or `at`) says where it is, and one action is the code between two
awaits. Local values that survive an await are variables (`ent`, `entity`,
`loaded`, `stamp`...). A request that ends drops them. Operators marked
*history* in a module are not in the code; properties read them.

**FileUploads.** `row` is the table (`NoRow` for no row), `temp`, `present` and
`whole` the temp directories, the chunk files in them and those with all their
bytes, `onDisk` and `intact` the merged file and its correct pieces, `bg` the
removals `completeUpload` starts without awaiting. `writeFile` is two steps
(`ChunkOpen` truncates, `ChunkWrite` brings the bytes), the increment and the read
for the answer are two more (`ChunkCount`, `ChunkReply`; a chunk counted and not
answered is `ReplyFault`, or a crash), the merge is one step
per chunk, and a completer that reads a torn chunk shifts all it writes after it
(`off`). A stream goes on writing to an unlinked file (`linked`). `DELETE
/files` has no `:id` in its route, so `getFile` runs with an undefined id and
finds some row: `RemoveStart` may pick any. `Sweepers` are runs of the hourly
job; nothing in the code keeps two of them apart.

**NotificationJobs / TaskNotifications.** `jobs` holds the state BullMQ keeps,
`pending` the inserts `Promise.all` awaits, `late` those of an attempt that was
given up, `notes` the rows. The DTOs allow an array of assignees to name a user
twice and nothing removes the repetition: the handler inserts a row per entry, so
these are bags (`BagOf`), from users to numbers. `update` sends its job before it saves, as the code
does; a call that fails may have left its job in the queue (`SendFails`). `joined`
(history) counts how often a user became an assignee in the table.

**Documents.** A list is known by `rev`, the number of writes it shows; the list
version is `now`, the value of `Date.now()`. `getListVersion` reads the clock
twice when there is no version (`ListSetVersion`, `ListOwnVersion`); `ties` (history)
are the milliseconds two such calls fell into. An update may change nothing: then
`save()` issues no UPDATE and the version stays (`SaveNothing`). Time to
live and eviction are `Evict` and `EvictVersion`, at any time. `crossed`
(history) collects the updates that overlapped another update or a removal.

**CommentRateLimit.** One key; keys do not interact. **Accounts.** A registration
writes into `tx` and `Commit` makes it visible; the unique index makes a second
insert wait for an open transaction with the same email (`EmailLocked`). `asker`
is the user an upsert is for and `crossed` (history) the upserts that overlapped
another.

**Sessions.** `now` counts milliseconds and `Sec` the seconds of a JWT. A refresh
token is its user and its expiry, which is all two of one user differ in. Tokens
are only issued by a registration, since no login succeeds. `by` (history) says
which refresh token an access token belongs to.

**FileDownloads.** Completions and removals are those of `FileUploads`, cut down to
what a reader sees: the status, whether the file has its name (`linked`), how long
it is (`bytes`). `chunk` says whether a chunk sent again is being written, or was left
half-written by a crash; a merge that meets it, or another completion, is `disturbed`
(history) and may leave any number of bytes (`MergeEnd`). `cleaning` holds the
cleanups that nobody awaits. A call reads the row twice (controller and service), then
`fs.access`, then the stream's open: `check`, `access`, `open`. `size` is what the
client declared, `uploaded` what it sent. A call of the file system may fail at any
time (`Fails`). `FilesModule` exports `FilesService`, so `CallNext` is any caller of the
service; over HTTP `Get` refuses everybody (see below). `Sizes` and `Headers` hold every
case of a range around the ends of a file.

**Lists.** The four lists are one algorithm with a filter and an order, so one
module with a `kind`, which says what may happen to a row: tasks are ordered by
`updatedAt` and move, to the front (`Touch`) or, when a stale entity writes an old
`updatedAt` back, anywhere (`TouchStale`); notifications are not removed but leave the
unread ones; files and tasks enter and leave the status asked for. The list of
documents is not among them: its pages come from the cache of `Documents`, and two pages
may show the table at two times, with a row missed although nothing has left.

### What is assumed of the libraries

Marked `external` in the map; modelled from how the code uses them.

* TypeORM `save(entity)`: SELECT by id; UPDATE of the columns that differ from
  what the SELECT found, which writes nothing when the row has gone since; INSERT
  when it found none, which throws when the key is taken by then. A `version`
  column is incremented by the UPDATE unless the entity sets it to another value,
  and is 1 on INSERT; there is no UPDATE when no column differs. `getManyAndCount` asks
  for no count when a page that is not full tells the total. An undefined value in a `where` is no condition.
* PostgreSQL: a statement is atomic, a transaction becomes visible at COMMIT, a
  unique index refuses the second row.
* BullMQ: a failed attempt is retried after its backoff until `attempts`; a job
  whose worker dies goes back to the queue once (`maxStalledCount` 1); one job at
  a time (concurrency 1).
* Redis: a command is atomic; INCR creates the key without a time to live.
* argon2: `verify(digest, password)` throws when the first is not a digest.
* The operating system: an open file stays writable when unlinked; `rm` with
  `force` succeeds on a directory that is not there.

## 3. Runs

All runs use `CHECK_DEADLOCK FALSE`: every request is served once, so the model
stops when all are through; the server does not.

| run | instance | question | time |
|---|---|---|---|
| `FileUploadsSafety` | 1 upload of 2 chunks, 2 chunk requests with indexes -1 to 2, 2 tenants, 2 completions, 1 removal, 1 cleanup run, 1 failure or crash | `TypeOK`, `ReadyHasEveryChunk`, `CounterCountsChunks`, `IInv`, `TalliesInv`, `NeverReopened`, `ImplementsLifecycle` | 2 min |
| `FileUploadsOrderly` | 2 chunks sent once each, 1 completion, 2 overlapping cleanup runs, 1 failure or crash; fair | `ReadyFileIsWhole`, `ExpiredUploadsEnd`, `ReadyTempCleaned` | 3 min |
| `FileUploadsTwoCompletes` | 2 chunks, 2 completions | `ReadyFileIsWhole` is violated | 1 s |
| `TaskNotificationsSafety` | 1 task, 2 users, a creation, an update, a removal, arrays of up to 2 assignees, 2 attempts, 3 failures | `TypeOK`, `CompletedMeansNotified`, `DuplicatesBounded`, `TasksInv`, `ImplementsDelivery` | 2 min |
| `TaskNotificationsFair` | 1 task, 1 user, a creation, 2 updates, a removal, arrays of up to 1 assignee, 2 attempts, 2 failures; fair | `AssigneesAreNotified`, `JobsEnd`, `LoneUpdatesFit` | 2 min |
| `Documents` | 1 document and its creation; 3 updates; or 2 updates, a removal and a comment; or 2 lists beside an update; or 2 lists beside a comment; 1 failed call or crash; 1 millisecond with two calls of `Date.now()` | `FreshLists`, `DocumentsInv`, `ListsInv`, `LoneUpdatesFit`, `SpentVersionRefused` | 3 min |
| `DocumentsOverlap` | 1 document, 2 updates | `NoLostUpdate` is violated | 1 s |
| `Services` | comments: 5, limit 2, 1 failure; lists: 5 rows, pages of 2, 3 changes; calls: 1 download, 2 completions, chunks sent again, 1 removal, 1 failure or crash, sizes 1 and 3, all headers up to position 3; http: 1 user, 1 refresh, 1 signed URL, 1 download request, 8 milliseconds of which 2 make a second | `WindowLimit`, `LimitInv`; `WalksMissFew`, `ListsWalked`; `RangesFit`, `BodiesAreWhole`, `OnlyRacesKill`, `DownloadsInv`; `SignaturesExpire`, `SessionsEnd`, `RefusedWhenOver` | 3 min |
| `CommentRateStuck` | the comments; fair | `CounterExpires` is violated | 1 s |
| `FileDownloadsSigned` | 1 download request, 1 signed URL, 1 completion | `SignaturesDownload` is violated | 1 s |
| `AccountsSafety` | 2 registrations, 2 emails, a login, a new tenant, 2 member requests, 1 failure | `TypeOK`, `OneUserPerEmail`, `OneMembershipEach`, `AccountsHaveTenants`, `AccountsInv`, `MembersChangeByManagers` | 1 min |
| `AccountsLogin` | 1 registration, 1 login, 2 passwords | `RightPasswordLogsIn` is violated | 1 s |

The invariants named `...Inv` and `ListsWalked` are the inductive ones of the proofs;
the first conjunct of each (of `IInv` for the uploads) is the type invariant of its
module, and `DownloadsInv` holds `SessionsInv`.

Two runs explore alternatives in one state space. In `Services` the initial state
chooses a `part` and a behaviour stays in it: the four parts share no state (but
that a `Get` looks whether the row is there and at its token), so all of them at once would show
nothing more. In `Documents` the initial state chooses a *cast*, the set of requests
that take part (`Casts`; the others are `absent`): lists and the full set of writers
together are too many.

### Why the bounds are enough

* Uploads, documents and rate-limit keys do not interact, so one of each shows
  what happens to it. Two chunks are the fewest with one missing, repeated or out
  of order; the two requests can be the two chunks, one chunk twice, or an index
  on either side of the range. Two completions, a removal and a cleanup run are
  the fewest that overlap in every pair; all four do so when the failure
  comes first, and all but one completion or the removal when it comes in between:
  `SafetyInit` begins where one of them has been refused, or the failure is used up. A
  behaviour of `Spec` comes there before its first upload, so the run explores part of its
  states; the proofs have no such bound. In `FileUploadsOrderly` a completion gets
  through its count only when the two requests brought the two chunks.
* With two attempts and three failures a job can fail, be retried while late inserts of
  its first attempt are under way, stall, and be given up; the code has three attempts,
  which adds one more retry of the same kind. Arrays of two entries name two users, or
  one twice. `Attempts`, `MaxStalled` and `Lists` are parameters.
* A lost update needs two updates, a version that is accepted again three. A list
  goes stale when one list request fills what another reads: two.
* Five rows on pages of two make three pages, and with three changes a row may come,
  move forward or back and leave between any two of the client's statements. Two
  completions are what overlaps or follows a crash. A file of three bytes has a
  first, an inner and a last byte, one of a single byte has them in one, and headers
  go one position beyond the end. The clock runs for four seconds, of which an access
  token lives one and a refresh token two, so each expires while a request that shows
  it awaits, and at the last millisecond of a second.
* Two tenants can own an upload's requests (`FileUploadsSafety`), so requests of a
  stranger are among those refused.
* The bounds are `MaxFaults` and `MaxFailures` (failures and crashes), `Attempts`,
  `MaxStalled`, `Limit`, `MaxChanges`, `MaxNow`, `MaxSessions`, `MaxUrls`, `MaxTies` (the
  milliseconds in which `Date.now()` is called twice) and the sizes of the request sets.
  A list whose version is such a millisecond may miss a write: two bumps in it leave the
  list version as it was, and a list cached between them is served after the second.
  `FreshLists` leaves out the lists with such a version and no others; TLC finds it
  violated without this exception.

### Fairness

* `FileUploads`: weak fairness of the cron job, of the `save()` calls that have been made
  and of the un-awaited removals, and of nothing else. Clients may stop at any point, a
  chunk request or completion may hang. A cleanup run that fails or is cut off is
  followed by another, as the job comes back every hour.
* `TaskNotifications`: of each step of a request that has been taken and of the worker,
  which polls.
* `CommentRateLimit`: of PEXPIRE, once it is called, and of the end of a window.

Failures are never fair. `ReadyTempCleaned` and `AssigneesAreNotified` excuse behaviours
with a failure, because the code does: a crash forgets the un-awaited removal, and a job
refused by Redis or out of attempts tells nobody.

### What the violations show

* `FileUploadsTwoCompletes`: two completions pass the status check and write the
  same path; the second truncates the file when the first has made the row READY
  (`local-storage.adapter.ts` against `docs/阶段4实现计划.md:613`).
* `DocumentsOverlap`: the version is compared in memory and the UPDATE carries no
  condition on it; both of two overlapping updates succeed (`documents.service.ts`
  against `docs/projectA.md:51`). `Documents` shows the other half: an update
  nobody overlaps always saves over the version its client has seen.
* `CommentRateStuck`: between INCR and PEXPIRE lies a crash or a failed call; the
  counter has no time to live then and the user is refused for good, against the
  comment at `comments.service.ts:111`.
* `AccountsLogin`: `argon2.verify(dto.password, user.passwordHash)` has its
  arguments the wrong way round; every login ends with an error, against
  `docs/阶段1和2实现检查报告.md:45`.
* `FileDownloadsSigned`: `GET /files/:id` has no guard that sets `req.tenantId`, so the
  holder of a valid signature is looked up with the tenant `''`, which no file has,
  and gets a 403; whoever brings no signature gets a 400
  (`file.controller.ts:99` against `docs/阶段4实现计划.md:603`).

Other behaviours of the models that the documents exclude or a reader would not
expect, and that no run is kept for:

* A chunk sent twice is counted twice by `uploadedChunks`; the number of chunk
  files is what stops such a completion (it turns the upload FAILED). A chunk whose
  answer is lost after the increment is counted, and again when it is sent again.
* A chunk sent again during a completion is merged half-written: the READY file is
  shorter than announced, or shifted.
* A completion that saves after a removal inserts the row again; the same holds for
  documents and tasks (`save()` of an entity whose row is gone).
* The temp directory of a FAILED upload is never removed: the cleanup job looks at
  `uploading` rows only.
* A user named twice in `assignees` is notified twice. A retried job notifies assignees
  again who have been notified; two overlapping
  updates that add one user send a job each; overlapping updates take a task from
  `todo` to `done` (`LoneUpdatesFit` says what updates that do not overlap do); a job is
  sent for an update whose save then fails.
* `GET /files`, `DELETE /files` and `POST /files` read an `:id` their routes do not
  have. The first of two handlers of `GET /files` answers it, so the list of files is
  reached by no request; a signed URL is made for the id `undefined`.
* A removal between a download's `fs.access` and the opening of its stream ends the
  process, and so does any other failure of the stream: nobody listens to its `error`
  (`StreamError`). A cleanup that is not awaited ends it too when it rejects, which it
  does when a chunk is written into the directory it removes (`CleanupError`).
  `OnlyRacesKill` says that while the file system fails nobody there are these two only.
* The declared size is compared with no bytes; when it is wrong, so is the
  Content-Length of every download.
* A member whose role is taken away while its upsert awaits still completes it.
* `save()` writes a stale `version` back when it differs from the row's, so the
  version of a document may go down and a replaced version be accepted again; a stale
  `updatedAt` goes back in the same way and moves a task down its list. A PUT that
  changes nothing leaves the version as it is, so the same version is accepted again.
* Two pages of the list of documents may come from the cache and from the table: a
  client may miss a document that was there all the time.
* A crash between the tenant and its membership leaves a tenant nobody can enter; a
  crash after the commit of a registration leaves an account without tokens.

## 4. Proofs

Eight modules hold the theorems; `tlapm M.tla` checks module `M`. A constant set is any
set the module's assumption admits: any number of uploads, documents, users, requests
and failures, finite or not where nothing else is said.

| module | theorem | statement |
|---|---|---|
| `FileUploadsProofs` | `Inductive` | `Spec => []IInv` |
| | `TypeCorrect` | `Spec => []TypeOK` |
| | `ReadyComplete` | `Spec => []ReadyHasEveryChunk` |
| | `StaysClosed` | `Spec => NeverReopened` |
| | `LifecycleImplemented` | `Spec => ImplementsLifecycle`, the refinement of `UploadLifecycle` |
| | `TalliesInductive` | `Spec => []TalliesInv` |
| | `CounterExact` | `Spec => []CounterCountsChunks` |
| | `OrderlyFilesAreWhole` | `Spec /\ []Orderly => []ReadyFileIsWhole` |
| `TaskNotificationsProofs` | `TasksInductive` | `Spec => []TasksInv` |
| | `TasksTypeCorrect` | `Spec => []TypeOK` |
| | `CompletedNotified` | `Spec => []CompletedMeansNotified` |
| | `DuplicatesAreBounded` | `Spec => []DuplicatesBounded` |
| | `DeliveryImplemented` | `Spec => ImplementsDelivery`, the refinement of `NotificationDelivery` |
| | `LoneUpdatesAreFit` | `Spec => LoneUpdatesFit` |
| `DocumentsProofs` | `DocumentsInductive` | `Spec => []DocumentsInv` |
| | `DocumentsTypeCorrect` | `Spec => []TypeOK` |
| | `LoneUpdatesReplace` | `Spec => LoneUpdatesFit` |
| | `SpentIsRefused` | `Spec => SpentVersionRefused` |
| | `CacheInductive` | `Spec => []ListsInv` |
| | `ListsAreFresh` | `Spec => []FreshLists` |
| `CommentRateLimitProofs` | `LimitInductive` | `Spec => []LimitInv` |
| | `LimitTypeCorrect` | `Spec => []TypeOK` |
| | `WindowLimited` | `Spec => []WindowLimit` |
| `AccountsProofs` | `AccountsInductive` | `Spec => []AccountsInv` |
| | `AccountsTypeCorrect` | `Spec => []TypeOK` |
| | `OneUserEach` | `Spec => []OneUserPerEmail` |
| | `OneRowEach` | `Spec => []OneMembershipEach` |
| | `TenantsAreOwned` | `Spec => []AccountsHaveTenants` |
| | `ManagersChangeMembers` | `Spec => MembersChangeByManagers` |
| `SessionsProofs` | `SessionsInductive` | `SessionsSpec => []SessionsInv` |
| | `SessionsAreOver` | `SessionsSpec => []SessionsEnd` |
| | `RefusalsAreDue` | `SessionsSpec => []RefusedWhenOver` |
| `FileDownloadsProofs` | `DownloadsInductive` | `DownloadsSpec => []DownloadsInv` |
| | `DownloadsTypeCorrect` | `DownloadsSpec => []DownloadsTyped` |
| | `SessionsImplemented` | `DownloadsSpec => SessionsSpec` |
| | `RangesAreServed` | `DownloadsSpec => []RangesFit` |
| | `BodiesAreComplete` | `DownloadsSpec => []BodiesAreWhole` |
| | `OnlyRacesEnd` | `DownloadsSpec => OnlyRacesKill` |
| | `SignedUrlsExpire` | `DownloadsSpec => SignaturesExpire` |
| `ListsProofs` | `ListsInductive` | `ListsSpec => []ListsWalked` |
| | `ListsTypeCorrect` | `ListsSpec => []ListsTyped` |
| | `WalksLoseFew` | `ListsSpec => []WalksMissFew` |

### From which assumptions

Each module names what it assumes of its constants; TLC evaluates the assumption on
every run.

* `ConstantsAssumption` (`FileUploads`): an upload has at least one chunk and an owner
  among the tenants, the kinds of processes are disjoint, `NoRow` and `NoFile` are
  neither a row nor a file, indexes are integers.
* `JobsAssumption` and `TasksAssumption`: at least one attempt, finitely many users,
  assignee arrays are sequences of users and the empty one is among them, senders are the creations and updates, disjoint from each
  other and from the removals, there is a task id, `NoTask` and `Same` are no values of
  the fields they stand beside.
* `DocumentsAssumption`: the kinds of requests are disjoint, `NoDoc` is no document and
  `None` no number, casts are sets of requests.
* `LimitAssumption`: limit and faults are natural numbers, a limit of 0 included.
* `AccountsAssumption`: registrations, new tenants, member requests and logins are
  disjoint, no password is a digest, `NoRow` is no row.
* `SessionsAssumption`: a second has at least one millisecond, and the times to live at
  least one second; `NoToken` is no token.
* `DownloadsAssumption`: sizes are positive (the DTO asks for that), a header is one of
  a range, `Malformed` or `Whole` and never two of them, completions are not
  removals, and `File` is not the id `undefined`.
* `ListsAssumption`: pages hold at least one row, and there are finitely many rows.

One theorem has a hypothesis of its own, because the property is false without it:
`OrderlyFilesAreWhole` is about behaviours in which `Orderly` holds always. `Orderly`
says that

* no chunk is sent again before its first request has failed to answer;
* while an upload with a chunk sent again after a lost answer is completed, every chunk
  of it has been answered with success (the lost one may have been counted, so the
  counter alone does not say that the chunks are there);
* one completion of an upload is at work at a time;
* nobody removes it.

Each is needed: without it a chunk is truncated under the merge, a second merge truncates
the file (the run `FileUploadsTwoCompletes`), or a removal unlinks it, and
`ReadyFileIsWhole` is violated. Failures, crashes, lost answers and overlapping cleanup
runs are not restricted, and a completion may be tried again after another has ended.

The exceptions of `FreshLists` (`ties`), `BodiesAreWhole` (`disturbed`), `OnlyRacesKill`
(a failing file system) and `WalksMissFew` (`shifts`) are in the properties themselves.

### The inductive invariants

None of the properties is inductive by itself; the comments of the modules say what
each conjunct of the strengthening is for. In short:

**FileUploads.** A completer about to save, or one that is still merging, is what makes
a row READY. `IInv` follows the evidence back through the code. `SavesJustified` says
that an entity in a `save()` is FAILED, or READY with every chunk received, and that a
completer in its merge has them all; `ChunksInRange` says that chunk files have been
received and lie in range, so that the *count* of chunk files `completeUpload`
compares stands for all of them (lemma `FullDirectory`: a subset of `0 .. n - 1` with
`n` elements is all of it); and `LocalsOK` that a process at work has a file that was
created and the entity it read. `TypeStep`, `LocalsStep`, `ChunksStep` and `SavesStep`
take each conjunct through every action.

`SavesJustified` also gives `NeverReopened`: a stale entity is never saved as
`uploading` and no UPDATE puts that status back, because a column is written only
with the entity's value. For the refinement `lifecycle` maps an id never handed out
to `new`, a missing row to `removed` and any other to its status; `LifecycleStep`
shows each step to be an abstract step or a stutter, using `LifecycleUpdate` for
the actions that write one row.

`TalliesInv` is about the counter. `save()` writes the columns that differ from what its
own SELECT found, so an old count could come back only into the row that SELECT found;
that row was closed or the save closes it, and it never opens again. Each other step
leaves an open row's count and the set of counted requests alone, or adds one to
both (`FS_AddElement`). A request is `Tallied` from its increment on, whether it is
answered or its answer is lost.

`WholeInv` says why a merged file is right: a chunk file whose request was written is
whole (nobody truncates it again, or two requests for one chunk would be alive); what a
completion finds covers every index (`CompletionsCovered`), either since all have been
answered or since the column equals `totalChunks` and as many requests with distinct
indexes were counted (`AllCounted`); the merge has copied what it need not copy any
more; and what is saved as READY is whole.

**TaskNotifications.** For a completed job the invariant looks at the attempt it was
completed in: `ToldUnlessPending` says that in an active job every entry has a row or an
insert under way. For the bound on duplicates, rows and inserts under way, late ones
included, are at most one per entry and attempt begun (`OnePerAttempt`), and failures and stalls
cannot exceed their limits together (`WithinLimits`). Both give the refinement: a job
is settled as done only when every entry it names is told. `LoneUpdatesFit` rests on `Alone`
(nobody else is at work on the task of an update that has not been crossed) and on
`LoneIsCurrent` (so that what it decided on the entity it read is true of the row).

**Documents.** The same two facts for documents, with versions in the place of statuses,
and `SpentOlder`: without overlaps a version only grows past those that were replaced.
`ListsInv` is the argument for the list cache: nothing is answered while a list version
given once stays current, so what is cached under the current one, or about to be, shows
all that was answered; a request that took an older version in hand was asked for before.
A version in `ties` was given more than once, and nothing is claimed of it.

**CommentRateLimit.** The counter is at least the number admitted in its window, more
while a request stands between INCR and PEXPIRE, for that one was counted (`Counted`);
there is at most one such request and its key is not armed (`Arming`).

**Accounts.** What a transaction has written is known from where its registration is
(`TxFits`), no row exists before its request inserted it (`NothingBefore`), the emails
of committed and open registrations are all different (`EmailsApart`, which is what the
unique index with its wait provides), and an upsert that no other has overlapped is
asked for by one who manages the tenant (`UpsertsFit`).

**Sessions, FileDownloads.** The seconds of a JWT and the milliseconds of the table agree
because a row expires at `exp * Second` (`RowsOfHanded`); two lemmas on whole seconds
(`SecondsEarlier`, `SecondsLater`) do the arithmetic. A download's plan is that of its
header and the declared size (`PlansServe`); what a header names is an interval of
positions, and `FoundCount` counts what the stream finds of it. An `open` finds the
file or has been raced (`OpenOrRaced`). `ReadyIsWhole` says that as long as no merge was
disturbed one completion at a time has opened the file, and what a READY row stands for
has all that was uploaded; a merge that begins after that would be disturbed.
`SessionsImplemented` is the refinement that carries the facts about sessions over.

**Lists.** At every request of a walk the rows missed so far are no more than the times a
row has left or moved back (`ListsWalked`). Every change is one of two on sequences: a row
is put in at some place, which pushes others towards the client (`InsertWalked`), or taken
out, which lets at most one row slip past the client's place (`DropWalked`); a move is
one after the other (`MoveWalked`), and to the front it lets none pass. What is common to
them is `ChangeWalked`; the page fetched is exactly what is passed with it (`PageRows`).

### What the proofs changed in the models

* `Get` decides in the order of the code, the guard before the token before the row. A
  first form of it had conditions that overlap, which TLC resolves silently by taking
  the first and the prover does not; they exclude each other now.
* `Lists` cuts a row out with `RemoveAt`. It used a filter of the whole sequence, which
  says the same of a list without repetitions but is recursive underneath.

### What is only model-checked

* Liveness: `ExpiredUploadsEnd`, `ReadyTempCleaned`, `AssigneesAreNotified`, `JobsEnd`.
  The provers here have no ENABLED, so no fairness.
* The runs that expect a violation: they show behaviours, which a theorem does not.

Every invariant, action property and refinement that a passing run checks is stated by
a theorem above.

## 5. Not modelled

Handlers that read one row (`findOne`, `getFileInfo`, `me`, `listMembers`), the `hot'
order of documents, the author check of a comment's removal and the validation of
sizes and mime types (a refused request changes nothing), the texts of documents and
comments, the characters of file names and storage paths, logging, error wording,
health checks and diagnostics, configuration, start-up and the migration script. The
signing of JWTs, HMAC and argon2 are libraries: what they accept is modelled, not how.
The throttler in front of all routes counts in a library and only refuses.

A chunk name is its index; that names padded to six digits sort wrongly from a million
chunks on is left to the hazards. A FAILED upload does not appear in `FileDownloads`:
to a reader it is a row that is not READY, as one that is uploading.

## 6. Plan

Done, in this order: `UploadLifecycle` and `FileUploads` with their proofs;
`NotificationJobs` and `TaskNotifications`; `Documents`; `CommentRateLimit`;
`Accounts`; then `Sessions`, `FileDownloads` and `Lists`, the refinement of
`NotificationDelivery`, and the properties of overlaps for tasks and memberships.

Then the proofs: every invariant, action property and refinement of the passing runs
is a theorem.

Next:

1. An abstract document register (create, replace the version seen, remove) that
   `Documents` implements while updates do not overlap, proved from `DocumentsInv`.
2. How long a list may be stale when a crash comes between a write and its bump: time
   to live in `Documents` as a bound and not as `Evict` alone, with the invariant that
   a list older than it is not served.
3. For two completions, which the code lets overlap, what remains of
   `OrderlyFilesAreWhole`: a READY row whose merge is the last one to have opened the
   file.
4. The completions of `FileDownloads` shown to be those of `FileUploads`, which so far
   is only said in a comment: the two keep the status and the file apart in other
   variables.

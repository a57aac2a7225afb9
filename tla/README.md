# A TLA+ model of sortsys

sortsys is a multi-tenant application for construction firms: an API in Rust
(`src/sortsys-api-v2/rust-api`), an API client and web applications in TypeScript
(`src/sortsys-api-v2/client`, `src/sortsys-webapp-v2`), an editor for GAEB bills of
quantities (`src/sortsys-gaeb`), a Go process that converts media
(`src/sortsys-v2-job_runner`), PostgreSQL (one master database, one database per
tenant) and an object store. Several API processes and several runners work on the
same databases, and several people on the same document. Nothing holds a lock across
an `await`: what keeps the parts together are guarded `UPDATE`s, leases that expire,
version and epoch numbers, and, in the browser, merges and the order of callbacks.
These modules model the parts where that is hard to get right.

## Inventory

| Component | State | Operations | What is hard | What makes it correct | Module |
|---|---|---|---|---|---|
| Job queue, `job_queue.rs`, table `__jobs` of the master database | per row: state, attempts, owner, lease, due time, error | enqueue, list_open, acquire, heartbeat, complete, fail, release_runner_jobs, delete_finished; cancel_file_jobs (`project_files.rs`) | leases expire under a worker, late reports, any runner may call anything | leases are exclusive, finished is final, attempts count | `LeasedWork`, `JobQueue` |
| Runner connections, `job_runners.rs`, `job_runner_media.rs`, the Go runner | per socket: runner id, `acquired_jobs`, position of the handler; `thumbnail_status` in the tenant's database | the five messages, closing a socket, the media hooks, complete_upload and delete of a file | two databases without a common transaction, reconnection under the same id, lost sockets, dead processes | status and job agree, work is returned and finished | `JobRunners` |
| Tenant logo, `settings_logo.rs`, `set_logo_status` | one JSON document, two objects per generation | createUpload, completeUpload, the hooks | everyone loads, changes and saves the whole document | the newest upload wins, ready means downloadable | `TenantLogo` |
| Delivery-note scans, `delivery_notes.rs` | a row of `__delivery_note_scans` with a lease, OCR jobs, documents | startScan, scan.list / status / complete (each spawns a task), the task | tasks per poll, a lease that is renewed without looking, deletion of documents | one task works, the scan ends and stays ended | `ScanProcessing` |
| Live XML sessions, `xml_live.rs`, `xml_live/cluster.rs`, `core/live.ts`, `core/sharedFields.ts` | a room per document: epoch, log, snapshot, peers with leases; per browser a replica and a draft; per socket two queues; per instance a LISTEN connection | join, append, initialize, compact, notify, recover, lease check, deletion of idle rooms; connect, edit, reapply a draft | notifications are lost, name rows that are folded, and race with states; crashes and stalls leave or take leases; sessions end under browsers that are away | no update is left behind, one initial text, what is typed is seen by all | `LiveDocument` |
| GAEB outline, `core/document.ts`, `GaebOutline.tsx`, `GaebEditor.tsx` | a document: sections, lists of positions, internal sections ("buckets") | add, reorder, indent, outdent, drop, remove | the outline mixes what GAEB separates; buckets are wrapped, split and emptied by sequences of moves | the document stays one GAEB allows, entries land where they were asked to | `OutlineTree`, `GaebHierarchy` |
| GAEB editing, `GaebEditor.tsx`, `core/merge.ts`, `core/mergeDocument.ts`, `core/recovery.ts`, `GaebFileModal.tsx`, `core/live.ts`, `xml_documents.rs` | versions of the row; per editor the model, its base, histories, a save, the versions the dialog knows; the recovery copy | open, restore, edit, undo, redo, keep a copy, save with merge and retries, take in a newer version, close | answers late or lost, versions of others between all steps, crashes, three different notions of "the current version" | nothing unseen is overwritten, unconfirmed work survives, editors converge | `DocumentEditing` |
| API client, `client/src/index.ts`, `client/src/rpc.ts` | bearer token, cache, requests to share, batches, a stream, logouts | query by strategy, stream, mutate with invalidation, login, logout | requests shared across mutations, sessions and invalidations; batches fail as a whole; a 401 may be late | reads see own writes, sessions share nothing, everyone is answered | `ApiClient` |
| Project files and folders, `project_files.rs` | file rows, folder tree | createUpload, completeUpload, move_folder, delete | uploads that come to nothing, cycles by concurrent moves | the tree stays a tree | partly in `JobRunners` |
| OnlyOffice and draw.io, `onlyoffice.rs`, `drawio.rs` | `office_version`, objects per version | editor callbacks, extraction of text | callbacks of external servers | no lost update | the shared load and save in `DocumentEditing`, otherwise not modelled |
| Backup scheduler, `backup_scheduler.rs`, `managed_db.rs` | due times and attempts per host | claim, run, record | external dump tools | one backup at a time | not modelled |
| Authentication, LLM chat, commercial documents, billing, tools, vacations, schedules | rows of the tenant's database | mostly one statement each | — | — | not modelled |
| GAEB calculation, takeoff, validation, rendering; drawing viewer | none beyond one document | parsers, decimals, geometry | — | — | not modelled |
| Web pages | forms and tables over the API client | — | — | — | not modelled |

Interactions: procedures enqueue jobs in the *master* database and write a status in
the *tenant's*; runners poll, acquire and report over a WebSocket; the handler of a
message first changes the job and then the media state (or, when a socket closes, the
other way round); the scan tasks wait for OCR jobs by polling the table. The editor
saves whole documents against a version number and learns of newer ones over the live
socket; the texts of a document travel as updates in its live room. Every call of a
page goes through the API client. `PROJECT.json` lists the hazards with their lines
and the properties that cover them.

## The modules

**`LeasedWork`** is what the queue promises: an item of work is submitted once, held
by at most one runner, may be returned, and ends at most once. It knows neither
leases nor attempts.

**`JobQueue`** is the table. Each operation of `job_queue.rs` is one guarded UPDATE
(fail: one transaction), so each is one action. Timestamps are only ever compared with
`NOW()`, so the row holds the outcome: `lease` is none, live or expired, and `due`
says whether `available_at` has passed; `LeaseExpires` and `BecomesDue` let time pass.
`attempts` saturates one above `max_attempts`, since nothing but the comparison with
it matters. `QueueStep` lets any runner call anything for any job at any time, so what
holds here holds for every client. The refinement mapping (`phaseOf`, `holderOf`)
counts a job with a lapsed lease as open: acquire may take it and its owner can no
longer report on it (a heartbeat can revive it, which is a `Take`).

**`JobRunners`** adds the processes. A connection is a sequential task that handles one
message at a time; `step` is its position between two awaits that change state, `held`
is `acquired_jobs`, `inbox` what the client has sent and the task has not yet read. A
runner polls, sends an acquire, works, sends heartbeats meanwhile (one outstanding at
a time, which may be served after the report), reports, and after an error on acquire or
a lost connection reconnects under its id — while the old task may still be reading
what is left in its socket, or be releasing: at the close it resets the statuses of the
jobs it lists one by one (`ResetAcquired`, with `reset` the ones done) and then releases
by runner id (`ReleaseAndClose`). `SetThumb` is `UPDATE ... WHERE id`,
without a guard, as in the code. The token check, message parsing and the conversion of
the media are left out.

**`TenantLogo`** reduces the connection to the position of its handler, and in return
keeps the load and the save of the logo document apart. `raced` is a history
variable: it becomes true when a save replaces a document other than the one it was
based on. The two objects of a generation (`source`, `image`) are there because
`complete` deletes the source.

**`ScanProcessing`** keeps the row (state and lease), the OCR jobs in the same job
table, and the tasks. A poll spawns a task whether or not one is at work; `Claim` is the
guarded UPDATE that keeps it out; none of the later UPDATEs looks at the lease
again. A task that fails marks the scan and cleans up, and the second follows whether or
not the first succeeded (`MarkLost`), as in `spawn_scan_processing`; only the death of
the API ends a task without it (`TaskDies`). `intruded` and `unmarked` are history
variables: a task has worked on the scan without its lease, and a task has gone on to
clean up a scan it could not mark as failed. Documents in the model have a visual
original (scans and photographs); for a spreadsheet nothing is downloaded.

**`OutlineTree`** is what the outline promises its user: an ordered tree in which
sections and positions mix, changed by moving, inserting or deleting one entry.

**`GaebHierarchy`** is how the editor keeps that promise in GAEB's terms. `doc[c]` has
the item list and the parts of a container; a part that is a sequence of positions is a
bucket. Every command of `core/document.ts` is an operator from a document to a document
or to the error it throws: `MoveEntry` with `MoveItem` and `MoveCategory`,
`AddItemInCategory`, `AddCategory`, `RemoveEntry`, each ending in `NormalizeHierarchy`
as in the code. The actions are the commands of the user interface, with the targets it
computes (`ReorderTargets` to `DropTargets`). `Outline` is the refinement mapping;
`Shown` is a list of parts with the buckets opened, `Cleared` one without an entry,
`TooDeep` the count of levels in which a bucket is one more. What both modules say about
trees is in `OutlineTree`: `Groups` are the containers that stand, `InsideOf` and `Level`
climb from an entry to the root, `Omit` drops elements of a sequence, `Placing` and
`Without` are the two changes there are. Only the default phases are modelled; in the
flat trade phases `moveEntry` merely reorders.

**`DocumentEditing`** follows one document through two editors. A version is a value per
field; an edit's value is its number in `edits`, so every value has one author and a
predecessor, and `Line` gives what lies under it. `ed[e]` holds the refs of
`GaebEditor` (`model`, `saved`, `observed`, the histories) and of the dialog (`latest`,
`snapshot`, `remote`); `save.step` is the position of the save between its awaits:
`validating` (the call of onSave is about to merge with `latest`), `sending`, `stored`
or `refused` (the server has decided, the answer is on its way), `failed`. `Send`,
`ServeSave`, `SaveAnswered`, `SaveRefused` are the loop of `GaebFileModal.tsx` and the
guarded UPDATE of `xml_documents.rs`; `TakeStored` is the rest of the editor's own loop.
`Restore` is the effect that reads IndexedDB, `KeepCopy` the debounced copy,
`Refresh`/`Loaded` the live connection, `TakeRemote` the effect on `remoteXml`. `raced`
is a history variable: a copy was merged with an XML that was no longer the one on
display.

**`ApiClient`** has one query, so a cache key is its scope: the token or anonymous. A
call is an execution of `queryDynamic` or of the stream's generator or reload; `step`
is its position between awaits, `req` the request it waits for (its own or one to
share), `since` the mutations that had resolved when it was made. The transport batches
what is queued in one turn (`mates`) and answers all of a batch or fails all of it. The
server's data is the set of mutations it has executed, so that what a query returns
tells which it has seen. `older` is a history variable: the requests made before a
session began.

**`LiveDocument`** treats the Yjs document as external: a replica is the set of
insertions seen, merging is union, and the text is the bag of their words. An
insertion carries the session in which it was made, because that is what goes wrong:
identifiers of an old session in a new room. A room is `epoch`, `log`, `snapshot`,
`checkpoint` (the sequence number up to which the log is folded), `initialized` and
`peers` (rows with a lease; a `Ghost` is the row of a connection that is gone). `inbox`
is the hub's channel of a connection, `up` what the browser has sent, `bus` the LISTEN
connection of an instance. A long update does not travel in its notification; listeners
read the log, or the whole state if the row is folded (`Announced`).

A socket begins to hear the events of the room (`Subscribe`) before it joins
(`Connect`), with awaits in between, and what it has heard by then is sent on after
`ready` and the first state. Events carry no epoch; only a notification is compared, with
the local entries of its instance (`local`, the epochs of the entries). `leave` removes
its entry some time after the row, so an entry nobody has joined any more may be there
(`Notify` and `Recover` drop it or do not, `JoinedAt` are the ones that are certainly
there). A listener that is lost tells everybody to read the state when it listens again
at its first attempt; after a failed attempt (`reconnect`) it does so only before its
next notification. `DropDraft` is a draft whose comparison with the text runs out of
time. `purged`, `stalled` and `overheard` (an update of an ended session is on its way to
a connection of another) are history variables, `dropped` is one of each browser.

`MC*.tla` give the constants their values for TLC. Operators marked *Mutant* stand next
to the operation they distort; each shows that a property notices the mistake.

## Runs

| Run | Instance | Shows |
|---|---|---|
| `queue` | 3 jobs (two of one file, 2 attempts; one with a single attempt), 2 runners; 64 thousand states | leases are exclusive, rows are owned consistently, finished jobs stay finished, attempts are not given back, the table implements `LeasedWork` |
| `runners` | 1 job with 2 attempts, 2 runners, 3 connections, 1 fault, under fairness; 495 thousand states | a worker's connection lists its job and, while nothing goes wrong, holds its lease; ready only after success; queued and processing have a job behind them; late reports change nothing; every job is finished in the end |
| `release` | the same | *violated*: the late close of a runner's old socket takes a job away from its new one, which the old one never listed |
| `logo` | 2 generations, the first with two jobs of one attempt, the second with one job of two; 2 runners, 2 calls, 1 fault, at most two jobs in one history; 1.8 million states | ready has an image, the source outlives the conversion, the status stems from a job of the generation that is shown, and without racing saves an upload is queued once |
| `logo_stale` | 2 generations with a job each, otherwise the same | *violated*: a stale worker does overwrite the current generation |
| `scan` | 2 documents, 2 tasks, 1 runner, 3 faults, under fairness; 237 thousand states | one task works, documents and jobs are collected at the right time, scans end and stay ended |
| `outline` | 3 sections, 2 positions, 2 levels; 298 states | the document is one GAEB allows, every target of the interface is reached exactly or refused for the level limit, and the editor implements `OutlineTree` |
| `editing` | 2 editors, 2 fields, 2 edits, saves of 2 attempts, 1 rare event, under fairness; 378 thousand states | no save overwrites what its author had not seen, no recovery copy goes before its work is safe, undo leaves foreign work alone, editors converge |
| `editing_recovery` | the same | *violated*: a copy that is restored late overwrites a newer version |
| `client` | 2 calls, 1 mutation, 1 session, 1 logout, 1 rare event; 2.2 million states | reads contain the writes confirmed before them, a session joins no older request, whoever waits is answered, no error is kept as data |
| `live_doc` | 2 browsers, 1 instance, 1 fault, a log folded at 2 updates, under fairness; 674 thousand states | one initial text per session, no update is left behind, what is typed is seen on every screen |
| `live_epoch` | the same | *violated*: after an idle room has been deleted a browser that was away doubles the text |

**Bounds.** `Jobs` bounds the rows ever created (ids are not reused); two per upload are
enough for a repeated completion, a third gives a second generation or an unrelated row.
Two runners give every pairwise race; a third connection lets one runner have an old and
a new socket while the other works. `MaxFaults` and `MaxRare` bound what goes wrong in
one history: one fault is enough for every counterexample of a violated run, and the
scan, whose tasks can fail independently, has three. Max attempts are 2 where a retry
matters (the code uses 20, which differs only in how often the same steps repeat), 1
where the state space demands it (a released or abandoned job is acquired again there
all the same) and 1 in `scan`, as in the code.

In `outline`, two levels (the code allows 5) put the limit within reach of three
sections, and two positions are what it takes to split a bucket. In `editing`, `MaxRare` counts crashes, lost answers, closings
and undos (a redo follows an undo and is free). Since the editors are alike, the one
rare event happens to `e1`, and since the fields are, `e2` edits only one of them; two
edits still give every pairwise conflict and every merge without one. Two attempts of a
save (5 in the code) give one merge after a refusal. In `client`, two calls share, join or
miss one request, and the mutation, the session and the logout can each be before,
between or after them; the strategies are the cache-first, the network-first and the
stream, since the other two only leave steps of these out. In `live_doc`, two browsers
give a race for the initial text, a late joiner and a reconnection; each may type one
word; folding at two updates makes compaction happen between an append and its
notification. Its safety properties were also run by hand with two instances, without
faults (22 thousand states) and with one to a depth of 26 (13 million states), without
an error; for more they rest on the proof.

Symmetry is used only in runs without liveness. Deadlock is not checked: every system
here rests when its jobs, edits or calls are used up.

**Fairness.** `JobRunners`: handlers are scheduled and their awaits return; the Go runner
reconnects after 2 s, polls and reports (its HTTP calls time out after 45 s); a
procedure goes on to its insert; a lease nobody renews expires and a retry becomes due.
Heartbeats, faults and deletions are not fair. `ScanProcessing`: the client polls every
2 s while a scan is unfinished (`products.deliveryNotes.import.tsx`), tasks and
runners run, an abandoned lease expires. Without fault, a lease under a working
task is renewed in time; the lapse of a lease under a worker is a fault.
`DocumentEditing`: IndexedDB answers, the autosave timer fires, requests are answered,
the live connection announces versions and its loads return. `TakeRemote` is strongly
fair: the effect runs whenever the editor is not saving, and saves suspend it again and
again. Users are not fair; within
the bounds they stop of their own accord. `LiveDocument`: browsers reconnect, both ends of a socket are served,
notifications arrive, the lease check (30 s) and the listener's reconnection come
round. A listener that had to try twice recovers with its next notification and not
before, so its `Recover` is fair only while a notification waits, and
`EditsReachEveryone` excepts histories in which it waits for one (autosave would bring it
a `changed` after seconds, which is outside this module). Ghosts need not expire and
faults need not happen.

## Proofs

Eight modules hold the proofs; each `XProofs` extends the module `X` it is about, and its
invariant was also checked by TLC on the instance of the run (or a smaller one), apart from
the proof. None of the proofs bounds the number of jobs, runners, connections, browsers,
calls, edits, entries or faults. Every safety and action property that a passing run
checks is stated by a theorem, and so are both refinements.

| Module | Theorems that state a property of a run |
|---|---|
| `JobQueueProofs` | `TypeCorrect`, `OwnershipHolds`, `ExhaustionHolds`, `LeasesAreExclusive`, `FinishedStaysFinished`, `AttemptsOnlyGrow`, `QueueImplementsLeasedWork` |
| `JobRunnersProofs` | `RunnersTypeCorrect`, `WorkIsListed`, `WorkIsLeased`, `ReadyMeansSucceeded`, `PromisesAreKept`, `LateReportsChangeNothing`; also `RunnersUseTheQueue` |
| `TenantLogoProofs` | `LogoTypeCorrect`, `ReadyLogosAreStored`, `SourcesOutliveConversions`, `TheOwnJobsDecide`, `UploadsAreQueuedOnce`; also `LogoUsesTheQueue` |
| `ScanProcessingProofs` | the five safety properties of `scan` |
| `LiveDocumentProofs` | `NoUpdateIsLeftBehind`, `TextsMergeOnce` |
| `DocumentEditingProofs` | `EditingTypes`, `UndoIsOwn`, `SavesReplaceWhatTheySaw`, `UnconfirmedWorkIsKept`: the four safety properties of `editing` |
| `GaebHierarchyProofs` | `DocumentsStayNative`, `EntriesArrive`, `HierarchyImplementsOutline`: the three properties of `outline` |
| `ApiClientProofs` | the four properties of `client` |

### The queue

`JobQueueProofs` proves, for every set of jobs and runners, every `MaxAttempts` and
every `FileJobs` that satisfy `QueueAssumption`:

* `TypeCorrect`, `OwnershipHolds`, `ExhaustionHolds`: the invariants of `queue`;
* `LeasesAreExclusive`, `FinishedStaysFinished`, `AttemptsOnlyGrow`: its action
  properties;
* `QueueImplementsLeasedWork`: the table implements `LeasedWork`.

The inductive invariant `IInv` is `QueueInv` with `UnbornRowsAreFresh`: a row that was
never inserted has no attempts, owner or lease. Without it `Enqueue`, which writes a
fresh row, could lower a counter or drop an owner, and neither `AttemptsNeverReturned`
nor the refinement would follow. Every operation works on rows independently, so
`IInvByRows` reduces the invariant to single rows, and `NextIInv` has one step per
action. For the refinement, `Moves` says how the phases of a set of rows change in each
abstract action and `NextImplements` maps every step to one of them or to a stutter
(a heartbeat on a live lease, a saturated clock, a release of nothing).

The section "What each operation writes" has one lemma per operation (`EnqueueWrites`
to `TimeWrites`): which row changes, from what to what, and that the others stay
(`Others`). The proofs about the components that share the table use these and never
open the operations again.

### Runners and thumbnails

`JobRunnersProofs` proves every safety property of `runners`, from `RunnersAssumption`
and `QueueAssumption`. `RInv` consists of `IInv` of the table, the types and four parts:

* `Linked`: an open connection and the runner at its other end know each other; at most
  one call is in the inbox, and it is the one the runner waits for; while the handler is
  inside a call the inbox holds none; a runner that works has its job in `held`. This is
  what makes a connection sequential, and `WorkIsListed` is one of its clauses: without
  the clause about the handler's position, a second acquire could be served while the
  first is between its two statements.
* `ReportsKnow`: a handler that has accepted a completion finds the job succeeded, for
  however long its media hook takes. `ReadyOnlyAfterSuccess` is then inductive.
* `Calm`, only until the first fault: who works on a job owns it under a live lease, or
  the job was withdrawn with its file; a handler that has put a job back finds it pending
  and not yet due, so that nobody can have taken it up before the handler's second
  statement; and a withdrawn job means a file that is gone or being deleted.
* `ProgressHasASource` itself, also until the first fault: with `Calm` it is inductive.

`RunnersUseTheQueue` is a refinement: every step of the processes is a step of
`QueueSpec` or leaves the table alone, so all that `JobQueueProofs` shows of the table,
and through it `LeasedWork`, holds of the jobs the runners share.
`LateReportsChangeNothing` goes through the steps that take a report off an inbox: the
guards of complete and fail read the row and not the handler's memory.

### The tenant's logo

`TenantLogoProofs` proves every property of `logo`, from `LogoAssumption` and
`QueueAssumption`. In `LInv`, each reader of the document carries what it knew when it
read: `HandlersKnow` says for each position of a handler what has become of its job (and
what the status it is about to write rests on, `Earned`), `CallsKnow` the same for
`completeUpload`, `LogoKnows` what the document claims, `JobsKnow` that only confirmed
uploads have jobs. All of that survives the changes of others because the jobs only
get on (`JobsAge`) and objects are only added, except for the source that `complete`
deletes — for which `SourceOutlivesConversion` is itself part of the invariant.
`OneWayToTheJob` holds until a save undoes another's change (`raced`): of one upload at
most one call is between its save and its insert, and none is once there is a job.
`UploadsAreQueuedOnce` is a clause of it; it is not inductive alone, since two calls in
that gap would both insert. `LogoUsesTheQueue` is the refinement of `QueueSpec`.

### The API client

`ApiClientProofs` proves the four properties of `client`, for every number of calls,
mutations, sessions, logouts and rare events and all strategies, from `ApiAssumption`
(calls, mutations and the marks None, Unauthorized and Offline can be told apart):

* `Typing`: `ApiTypeOK`, inductive as it stands, because it includes that a waiting call
  names a request and no error is taken for data.
* `AnswersArrive`: `CallsAwaitAnswers`, from `AwaitInv`, which adds that an idle call has
  no request yet (`Unused`) and that a request to share has been made (`SharedAreMade`).
  Without these, a call that joins a request could join one that is not there, and a
  new request could reset one that others wait for.
* `ReadsAreFresh`: `ReadsSeeOwnWrites`, from `ReadInv`. The property speaks of answers
  that arrive; the invariant follows the promise back: a mutation that succeeded is in
  the server's data, a request that can be shared will show at least what had resolved
  or is about to (`Promised`), hence an answer contains what its call was owed. That a
  mutation forgets the requests to share *before* it resolves is what keeps this true.
* `SessionsAreSeparate`: `SessionsMakeTheirOwnRequests`, from `SessionInv`: only tokens
  that were granted are ever used as keys, and a request under a token was made after
  its session began.

The lemmas on `Fetch` (`FetchTyping`, `FetchEffect`, `FetchAwaits`, `FetchReads`,
`FetchSessions`) are shared by the five actions that execute a query; the step lemmas
have one case per action of `Next`.

### Delivery-note scans

`ScanProcessingProofs` proves the five safety properties of `scan`, for every number of
documents, tasks, runners and faults, from `ScanAssumption` and `QueueAssumption`. The
invariant `SInv` was checked by TLC first. Besides `IInv` of the job table, the types and
`DocumentsOutliveTheScan` it has three parts:

* `RowFirst`: there is no task before the row, and tasks begin with the first document.
* `LeaseExcludes`: while no lease has lapsed under a task, one task at most is between its
  claim and its clean-up; before the clean-up it holds a live lease on an unfinished
  scan, and during the clean-up the scan is over unless it could not be marked. `OneTaskWorks` alone is not inductive:
  a second task could claim a scan whose lease had been released too early.
* `JobsKeepUp`: without faults, a task that has come to a document has seen the jobs
  before it end, a task beyond the last document finds all jobs ended, and when the scan
  is over and nobody cleans up, the jobs are deleted.

`Steps` sorts the steps by what they do to the job table (`JobsMove`: every operation of
the queue but a deletion keeps what has a result); `KindsOfSteps` sorts the steps of a
task into spawning, claiming, being refused, proceeding, finishing and breaking. The step
lemma of each part has one case per kind. `FinishedScansStay` follows from `OverStays`.

### Live text

`LiveDocumentProofs` proves both safety properties of `live_doc`, from `LiveAssumption`:
the native text is not a client's word, the log is folded at a positive length, there
are finitely many browsers, and at least one browser and one instance. Finiteness is
used where the words of a draft are counted. `DInv` has four parts.

* `LiveType`: besides the types, that replicas are finite sets.
* `Attached`: a connection hears its instance, which has a local entry of its epoch. So
  a notification of its session is sent on, whatever entries `leave` has not removed yet.
* `Reach`: a connected browser whose session goes on is about to read the whole state, or
  will be told to (its listener is `Deaf`: without a connection, or without having said
  that it was), or each insertion of the room is in its replica, in its queue, or named by a notification
  that has not been delivered. A notification without data covers an insertion if the
  row it names holds it or has been folded (`Told`). The property
  `UpdatesReachEveryPeer` speaks of what a notification *will announce*, which
  changes with every append and folding; `Told` only grows, and that makes `Reach`
  inductive. It needs no exception: `NoUpdateIsLeftBehind` includes deleted rooms and
  lapsed leases.
* `Orderly`, until a room is deleted, a lease lapses under an open connection or an update
  of an ended session is overheard: who is connected is in the session that goes on (`InSession`), no replica and no notice knows
  a later epoch, and there is one insertion `b` such that everything in the room, in the
  queues and in the replicas of the session is of that session and every initial text in
  it is `b` (`OneText`). The three exceptions are where it fails: a deleted room starts its
  epochs again, a connection without a row is in no session, and an overheard update puts
  insertions of another session into a queue. A connection may begin a session only while
  no update waits for a socket that has not joined (`Waiting`), and a notification may be
  sent on only in its own epoch; everything else that the queues get is of the session
  that goes on. Drafts are part of it: a
  draft never holds the native text twice (`CarriedIs`), so reapplying one never adds an
  initial text (`ReappliedIs`). With `Accepted`, `b` is chosen once per session.

There is one lemma per operation on what it writes, one on each part per step, and
`CaughtStays` and `SameSession` for what all steps have in common.

### Document editing

`DocumentEditingProofs` proves the four safety properties of `editing` from
`EditingAssumption`: there is an editor, a conflict is no document, and an absent copy is
no copy. (Without the second a document could pass for the conflict of its own merge.)
There are two invariants, one on top of the other.

* `EInv` has the types and what keeps them: an editor names only versions there are
  (`KnowsVersions`), so that whatever it merges is a document; an editor that is not ready
  has nothing to undo or to save, and a save has attempts left (`Orderly`). Two neighbours
  in a history differ, per field, only where one of them shows an edit of the editor's own
  user (`OwnHistory`): `UndoKeepsForeignWork` is the last link of that chain. It holds
  because each merge that changes the model empties the histories.
* `HInv` says where values come from. `OverwritesOnlyWhatWasSeen` compares the lines of
  two values. A step that stores sends the merge of a save's source with a version, so the
  property follows back through what the source may replace: a model its base (`Owns`), a
  save's source its base, a copy's source the copy's base (`SoundCopy`). `MayReplace` is
  that relation of two documents, and `MergeMayReplace` the lemma all of it turns on: if
  the local side may replace its base, a merge without a conflict may replace the other
  side. What an undo history holds must be `Kin` to the model, related in both directions,
  or undo could step to a document that may not replace the base. The relation is claimed
  until `raced`, which is where it fails (see `editing_recovery`). `SaveRests` has what
  `CopiesOutliveUnconfirmedWork` needs: bases and answers are versions, and what a save
  does not send of its source it had from its base.

`Line` is a recursive function, and what it computes would need induction over its
argument. Its two facts are proved along the run instead: `Lined` says that a function
with the equations of `Line` exists and is the only one, an edit extends it by one value
(`LinesGrow`), so both are preserved by every step. TLC checked the invariants with
`Line` in the place of that function.

There is one lemma per action and invariant (`...Keeps` for `EInv`, `...Sounds` for
`HInv`); `QuietStep` and `QuietHStep` stand for the steps of one editor that store nothing.

### The outline

`GaebHierarchyProofs` proves the properties of `outline` from `HierarchyAssumption`: there
is at least one level, sections, positions, lists of positions and "no entry" are told
apart, and an error is no document. The run has three sections and two positions on two
levels; the theorems hold for any sets of them and any limit.

The invariant is `Native(doc)`: `NativeLayout` with the tree said in another way.
`NativeLayout` climbs from every entry to the root, which is hard to carry through a move;
`IsOutline` says that there are `Ranks`, one number per container, each one more than its
parent's. A move keeps the ranks outside of the moved subtree and shifts those in it
(`BetweenIsOutline`), a deletion keeps what stays (`WithoutIsOutline`), and from ranks
both `InsideOf` and `Level` are known: `AllInsideRoot`, `LevelIsRank`, `OutlinesAreTrees`.
`Proper` is the same without the limit and with empty buckets allowed: what the commands
build before `NormalizeHierarchy` (`NormalizeIs`).

The argument goes upwards from sequences:

* A bucket does not show: `Shown` of a concatenation is the concatenation of what the
  parts show, and taking an entry out of the parts takes it out of what they show
  (`ShownConcat`, `ShownCleared`).
* Each way of putting an entry down (`PutInList`, `PutInBucket`, `PutInParts`, with the
  wrapped, split or new bucket before it) cuts the children of the container in two, `x`
  and `y`, and puts the entry between them; `PlacingAhead` says that this is what
  `Placing` does when the entry to precede is the first of `y`. `PlacedDocument` and
  `AddedDocument` carry that from the container to the document.
* `MoveItemLands` and `MoveCategoryLands` follow the branches of `moveEntry`, `TargetsFit`
  shows that each gesture asks for a parent that is not inside of the entry and for a
  sibling that is there. Together they are `EntriesArrive`.
* `AddBelowSettles`, `AddCategoryAdds`, `MoveSettles` and `RemoveEntryRemoves` say what one
  command makes of the document; `NextSteps` collects them, which preserves the invariant
  and maps every step to one of `OutlineTree` or a stutter.

The recursive functions (`InsideOf`, `Level`, `Omit`, the library's `FlattenSeq`) are
proved about by induction in terms of sets: `LeastMember` and `AllNumbers` come from the
library's theorem on minimal elements of a well-founded relation, which takes no operator
as a parameter.

### Only model-checked

Liveness under fairness stays with TLC altogether, since the prover does not handle
fairness and ENABLED: `EveryJobFinishes`, `EveryScanEnds`, `EditorsConverge` and
`EditsReachEveryone`.

## What the violated runs say

* `release` — `release_runner_jobs` is keyed on the runner's id, not on the
  connection. A runner whose connection breaks reconnects after 2 s under the same id;
  if the API notices the old socket only later (or is still busy with a message from
  it), its release returns the job the runner acquired meanwhile. The job is done
  twice and the first report is refused.
* `logo_stale` — the generation is compared when the document is loaded; the save that
  follows replaces whatever is there by then. A new upload in between is lost, and
  its `completeUpload` answers with a conflict.
* `editing_recovery` — the recovery copy is merged with the XML the editor was opened
  with. IndexedDB answers later, and a colleague's version may have been taken in by
  then: the merge knows nothing of it, its result replaces the model, the base of the
  next save is the newer version, and so the colleague's value is overwritten without
  a conflict (`core/merge.ts:91`: "never resolve an ambiguous business value by silently
  overwriting another editor").
* `live_epoch` — the deletion of an idle room takes its epoch along, and the next one
  begins where the first began. A browser that was away for a day finds the number it
  knows and sends the insertions of the old session into the new one
  (`xml_live/cluster.rs:497`: "Two replicas must never merge both initial texts").

Some properties hold only for histories without certain events. The exceptions are named
in the properties, and the code does misbehave in them:

* `raced` (`TenantLogo`): a save replaced a document other than the one it was based on;
  besides `logo_stale` this is the failure path of `completeUpload` and two
  `completeUpload` calls at once.
* `intruded` (`ScanProcessing`): a task that has lost its lease may reopen or fail a scan
  that another has completed, and a redundant task whose claim fails marks the scan as
  failed.
* `unmarked` (`ScanProcessing`): `mark_scan_failed` fails, its error is ignored
  (`delivery_notes.rs:1478`) and the clean-up deletes the documents of a scan that is
  still open; the next task finds them gone.
* `raced` (`DocumentEditing`): `editing_recovery`.
* `Withdrawn` (`DocumentEditing`): after a conflict an editor does not look at that version
  again, even when undo withdraws what was in its way. It shows the old document until
  the next version or edit.
* `purged` (`LiveDocument`): `live_epoch`.
* `stalled` (`LiveDocument`): a lease lapsed under an open connection; the first state sent
  to it is read without asking whether its session goes on, and may stem from the next.
* `overheard` (`LiveDocument`): an update is announced, its browser leaves as the last one
  of the session, and a socket that has subscribed (`xml_live.rs:275`) joins only now
  (283) and begins the next session. Its browser gets the empty state, asks to initialize,
  and then receives the update of the ended session with that session's native text:
  once its own arrives, the text is there twice. The same happens to a connection of the
  next session when the notification finds the local entry that `leave` has not removed
  yet (`cluster.rs:329`). Without the exception TLC finds it after 13 steps.
* `dropped`, `reconnect` (`LiveDocument`): a draft is lost when comparing it runs out of
  time (`sharedFields.ts:287` clears it first), and a listener that had to try twice
  stays silent until its next notification (`cluster.rs:124`).
* Faults in `runners`: when the queue accepts a report and the media hook fails, or a
  socket closes while its list of jobs is outdated, the thumbnail's status stays behind.

## Not modelled

* `JobRunners`: the token check of hello, filters, the parsing of messages, the conversion
  of media, PDF extraction.
* `ScanProcessing`: the synchronous parse with `run_local_ocr`, prompts and results.
* `ApiClient`: several query paths and the cascade between them, `restoreSession`, the
  removal of entries of older builds (`staleCacheCleanup`), the storage behind the cache
  with its size limit, cancellation. The strategies cache-only and network-only are
  in the module and the proofs, but not in the run.
* `DocumentEditing`: field drafts, validation, signed documents, derived totals, the text of
  live fields before a save, and the merge of structural changes. `DiagramEditor` uses
  the same versions in its own way and is left out.
* `LiveDocument`: cursors and presence, the limit of 32 peers, deletions inside a text and
  positions, several fields, `SharedFields.project` and `acknowledge`, which relate live
  texts to saves.
* `GaebHierarchy`: numbering, flat trade phases, the XML text of entries.
* The tree of folders in `project_files.rs`. Two moves at once can put two folders into
  each other: the check and the UPDATE of `move_folder` share no transaction (listed under
  hazards). An upload that is given up leaves its pending row behind, which no listing
  shows and `delete_folder` counts.
* The backup scheduler (a loop around external tools under one advisory lock), the
  OnlyOffice and draw.io callbacks (external servers), authentication (single-row
  look-ups), the LLM chat, commercial documents and the remaining procedures (single
  statements or transactions), calculation, layout and geometry (functions of one
  document), and the web pages.

## What is left

1. `LiveDocument` together with `DocumentEditing`: `SharedFields.project` and `acknowledge`,
   which relate the texts of the live room to what a save stores.
2. A module for the tree of folders, with concurrent moves and uploads that are given up.
